---------------------------- MODULE EpollBackend ----------------------------
(***************************************************************************)
(* picoev/picoev_epoll.c, with PICOEV_EPOLL_DEFER_DELETES: picoev_del      *)
(* makes no system call.  Most descriptors are closed next, which ends the *)
(* kernel's interest; for one that is not, the poll collects it when an    *)
(* event arrives that nobody waits for.                                    *)
(***************************************************************************)
EXTENDS Descriptors

\* Variant of EpollWatch: a descriptor is only ever added (EEXIST is ignored).
EpollWatchAddOnly(fd, now, E, op) ==
  IF E = now \/ op = "del" \/ (E # {} /\ watch[fd] # {}) THEN watch
  ELSE [watch EXCEPT ![fd] = E]

\* EPOLL_CTL_MOD, or EPOLL_CTL_ADD where that finds no entry; EPOLL_CTL_DEL.
EpollWatch(fd, now, E, op) ==
  IF E = now \/ op = "del" THEN watch ELSE [watch EXCEPT ![fd] = E]

\* SET(EPOLL_CTL_DEL, 1) asserts that there is an entry.
EpollOutcome(fd, now, E, op) ==
  IF E # now /\ op # "del" /\ E = {} /\ watch[fd] = {} THEN "epoll_ctl: CTL_DEL" ELSE proc

\* picoev_update_events_internal; now is target->events.
EpollUpdate(fd, now, E, op) ==
  /\ events' = [events EXCEPT ![fd] = E]
  /\ watch' = EpollWatch(fd, now, E, op)
  /\ proc' = EpollOutcome(fd, now, E, op)
  /\ UNCHANGED <<knotes, pending>>

\* epoll_wait; its 1024 entries are more than the descriptors modelled.
EpollPoll(answer) ==
  /\ phase = "idle"
  /\ batch' = IF answer THEN [fd \in FD |-> watch[fd] \cap ready[fd]] ELSE NoEvents
  /\ phase' = "pass"
  /\ UNCHANGED <<interest, pending, proc>>

\* A slot that asks for nothing is not called, even if it is in the loop.
EpollCalls(fd) == fd \in active /\ events[fd] # {}

\* Variant of EpollPassesOver: the deferred deletion never happens.
EpollForgets(fd) == ~ EpollCalls(fd) /\ UNCHANGED interest

\* EPOLL_CTL_DEL, whatever it returns.
EpollPassesOver(fd) ==
  /\ ~ EpollCalls(fd)
  /\ watch' = [watch EXCEPT ![fd] = {}]
  /\ UNCHANGED knotes
=============================================================================
