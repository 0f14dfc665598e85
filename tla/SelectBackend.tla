---------------------------- MODULE SelectBackend ----------------------------
(* picoev/picoev_select.c: nothing is kept in the kernel. *)
EXTENDS Descriptors

\* picoev_update_events_internal
SelectUpdate(fd, E) ==
  /\ events' = [events EXCEPT ![fd] = E]
  /\ UNCHANGED <<interest, pending, proc>>

\* Variant of SelectPoll: writefds is not filled.
SelectPollReads(answer) ==
  /\ phase = "idle"
  /\ batch' = IF answer THEN [fd \in FD |-> IF fd \in active THEN events[fd] \cap ready[fd] \cap {"READ"} ELSE {}]
                        ELSE NoEvents
  /\ phase' = "pass"
  /\ UNCHANGED <<interest, pending, proc>>

\* readfds and writefds as select() returns them; an error leaves the round.
SelectPoll(answer) ==
  /\ phase = "idle"
  /\ batch' = IF answer THEN [fd \in FD |-> IF fd \in active THEN events[fd] \cap ready[fd] ELSE {}]
                        ELSE NoEvents
  /\ phase' = "pass"
  /\ UNCHANGED <<interest, pending, proc>>

\* By increasing descriptor.
SelectNext(fd) == fd = First({g \in FD : batch[g] # {}})

SelectCalls(fd) == fd \in active

\* A slot that was deleted in this pass is passed over.
SelectPassesOver(fd) == fd \notin active /\ UNCHANGED interest
=============================================================================
