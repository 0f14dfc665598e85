------------------------------ MODULE EventLoop ------------------------------
(***************************************************************************)
(* The event loop of picoev: the core of picoev/picoev.h over each of its  *)
(* three backends, driven by an arbitrary client, whose callbacks accept,  *)
(* change, drain and close descriptors.                                    *)
(*                                                                         *)
(* picoev_del is followed by close(), as in close_conn of picoev_echo.c.   *)
(* A client of epoll or select may also keep the descriptor open: for      *)
(* epoll that is what the deferred deletes are about.  Timeouts are the    *)
(* subject of TimeoutWheel.                                                *)
(***************************************************************************)
EXTENDS SelectBackend, EpollBackend, KqueueBackend

CONSTANTS Backends,    \* backends checked: "select", "epoll", "kqueue"
          ReadWriteOn  \* those on which the client asks for both events at once

ASSUME BackendsAssumption ==
  /\ Backends \subseteq {"select", "epoll", "kqueue"}
  /\ ReadWriteOn \subseteq Backends

vars == <<backend, active, events, files, interest, pending, batch, phase, calling,
          deleting, touched, proc>>

\* The argument of picoev_add and picoev_set_events.
Asked == {E \in SUBSET Events : E = Events => backend \in ReadWriteOn}

Init ==
  /\ backend \in Backends
  /\ active = {} /\ open = {}
  /\ events = NoEvents /\ ready = NoEvents
  /\ watch = NoEvents /\ knotes = NoEvents
  /\ _backend = [fd \in FD |-> None] /\ changed_fds = None /\ changelist = <<>>
  /\ batch = NoEvents
  /\ phase = "idle" /\ current = None /\ revents = {} /\ deleting = None
  /\ touched = {}
  /\ proc = "running"

\* A descriptor becomes readable or writable.  Readiness is only looked at by a
\* poll, so that the moments between two polls are all alike for it.
Arrive(fd, e) ==
  /\ Running
  /\ phase = "idle"
  /\ fd \in open /\ e \notin ready[fd]
  /\ ready' = [ready EXCEPT ![fd] = @ \cup {e}]
  /\ UNCHANGED <<backend, active, events, open, interest, pending, batch, phase, calling,
                 deleting, touched, proc>>

-----------------------------------------------------------------------------
(* The client *)

InCallback == Running /\ phase = "callback"

\* picoev_update_events_internal of the backend.
UpdateEvents(fd, now, E, op) ==
  CASE backend = "select" -> SelectUpdate(fd, E)
    [] backend = "epoll" -> EpollUpdate(fd, now, E, op)
    [] backend = "kqueue" -> KqueueUpdate(fd, now, E, op) /\ UNCHANGED interest

\* An event of the slot may be waiting in the batch from before the change.
Touch(fd) == touched' = IF batch[fd] = {} THEN touched ELSE touched \cup {fd}

\* picoev_add
Register(fd) ==
  /\ \E E \in Asked : UpdateEvents(fd, {}, E, "add")
  /\ active' = active \cup {fd}
  /\ Touch(fd)

\* accept() returns a new descriptor, which is registered; main does so with the
\* listening socket, between two rounds.
Accept(fd) ==
  /\ Running /\ phase \in {"idle", "callback"}
  /\ fd \notin open
  /\ open' = open \cup {fd}
  /\ Register(fd)
  /\ UNCHANGED <<backend, ready, batch, phase, calling, deleting>>

\* A descriptor that was deleted but kept open is registered again.
Add(fd) ==
  /\ InCallback
  /\ fd \in open \ active
  /\ Register(fd)
  /\ UNCHANGED <<backend, files, batch, phase, calling, deleting>>

\* picoev_set_events
SetEvents(fd) ==
  /\ InCallback
  /\ fd \in active
  /\ \E E \in Asked :
       /\ E # events[fd]
       /\ UpdateEvents(fd, events[fd], E, "set")
  /\ Touch(fd)
  /\ UNCHANGED <<backend, active, files, batch, phase, calling, deleting>>

\* picoev_del
Del(fd) ==
  /\ InCallback
  /\ backend # "kqueue"
  /\ fd \in active
  /\ UpdateEvents(fd, events[fd], {}, "del")
  /\ active' = active \ {fd}
  /\ Touch(fd)
  /\ UNCHANGED <<backend, files, batch, phase, calling, deleting>>

\* close() ends the kernel's interest in the descriptor.
Closes(fd, kernel) ==
  /\ open' = open \ {fd}
  /\ ready' = [ready EXCEPT ![fd] = {}]
  /\ watch' = [kernel.watch EXCEPT ![fd] = {}]
  /\ knotes' = [kernel.knotes EXCEPT ![fd] = {}]

Close(fd) ==
  /\ InCallback
  /\ fd \in open \ active
  /\ Closes(fd, [watch |-> watch, knotes |-> knotes])
  /\ UNCHANGED <<backend, active, events, pending, batch, phase, calling, deleting,
                 touched, proc>>

\* Variant of CloseConn: loop_id is not reset.
CloseConnKeepsSlot(fd) ==
  /\ InCallback
  /\ backend = "kqueue"
  /\ fd \in active
  /\ KqueueUpdate(fd, events[fd], {}, "del")
  /\ Touch(fd)
  /\ IF NothingToDo(_backend, fd, events[fd], {}, "del")
       THEN Closes(fd, [watch |-> watch, knotes |-> knotes]) /\ UNCHANGED <<deleting, phase>>
       ELSE /\ deleting' = fd /\ phase' = "apply"
            /\ UNCHANGED <<files, interest>>
  /\ UNCHANGED <<backend, active, batch, calling>>

\* picoev_del of kqueue and then close(): the deletion itself tells the kernel
\* nothing ...
CloseConn(fd) ==
  /\ InCallback
  /\ backend = "kqueue"
  /\ fd \in active
  /\ KqueueUpdate(fd, events[fd], {}, "del")
  /\ active' = active \ {fd}
  /\ Touch(fd)
  /\ IF NothingToDo(_backend, fd, events[fd], {}, "del")
       THEN Closes(fd, [watch |-> watch, knotes |-> knotes]) /\ UNCHANGED <<deleting, phase>>
       ELSE /\ deleting' = fd /\ phase' = "apply"
            /\ UNCHANGED <<files, interest>>
  /\ UNCHANGED <<backend, batch, calling>>

\* ... unless the descriptor has a change pending: all changes are applied first.
DelApplied(fd) ==
  /\ Running
  /\ phase = "apply" /\ fd = deleting /\ changed_fds = None
  /\ Closes(fd, Kevent(changelist))
  /\ proc' = IF Kevent(changelist).ok THEN proc ELSE "kevent: error in changelist"
  /\ changelist' = <<>>
  /\ deleting' = None /\ phase' = "callback"
  /\ UNCHANGED <<backend, active, events, _backend, changed_fds, batch, calling, touched>>

Client ==
  \E fd \in FD :
    Accept(fd) \/ Add(fd) \/ SetEvents(fd) \/ Del(fd) \/ Close(fd) \/ CloseConn(fd)

-----------------------------------------------------------------------------
(* picoev_poll_once_internal *)

\* answer is FALSE when a signal ends the wait.
Poll(answer) ==
  /\ Running
  /\ \/ backend = "select" /\ SelectPoll(answer)
     \/ backend = "epoll" /\ EpollPoll(answer)
     \/ backend = "kqueue" /\ KqueueWait(answer)
  /\ UNCHANGED <<backend, active, events, files, calling, deleting, touched>>

BeginApply ==
  /\ Running
  /\ backend = "kqueue" /\ KqueuePoll
  /\ UNCHANGED <<backend, active, events, files, calling, deleting, touched>>

Apply(fd) ==
  /\ Running
  /\ ApplyOne(fd)
  /\ UNCHANGED <<backend, active, files, calling, deleting, touched>>

\* select visits the descriptors in order; epoll and kqueue report in any order.
InPass(fd) ==
  /\ Running
  /\ phase = "pass" /\ batch[fd] # {}
  /\ backend = "select" => SelectNext(fd)

\* select and epoll report the events of a descriptor together, kqueue each
\* filter by itself.
Reported(fd) == IF backend = "kqueue" THEN {{e} : e \in batch[fd]} ELSE {batch[fd]}

\* The backend's test before it calls target->callback.
Calls(fd) ==
  \/ backend = "select" /\ SelectCalls(fd)
  \/ backend = "epoll" /\ EpollCalls(fd)
  \/ backend = "kqueue" /\ KqueueCalls(fd)

Call(fd) ==
  /\ InPass(fd)
  /\ Calls(fd)
  /\ current' = fd /\ phase' = "callback"
  /\ revents' \in Reported(fd)
  /\ batch' = [batch EXCEPT ![fd] = @ \ revents']
  /\ UNCHANGED <<backend, active, events, files, interest, pending, deleting, touched, proc>>

PassOver(fd) ==
  /\ InPass(fd)
  /\ \/ backend = "select" /\ SelectPassesOver(fd)
     \/ backend = "epoll" /\ EpollPassesOver(fd)
     \/ backend = "kqueue" /\ KqueuePassesOver(fd)
  /\ batch' = [batch EXCEPT ![fd] = {}]
  /\ UNCHANGED <<backend, active, events, files, pending, phase, calling, deleting,
                 touched, proc>>

\* The callback has read or written until its descriptor is no longer ready, or not.
Return ==
  /\ InCallback
  /\ \E drained \in SUBSET revents : ready' = [ready EXCEPT ![current] = @ \ drained]
  /\ phase' = "pass" /\ current' = None /\ revents' = {}
  /\ UNCHANGED <<backend, active, events, open, interest, pending, batch, deleting,
                 touched, proc>>

PassDone ==
  /\ Running
  /\ phase = "pass" /\ batch = NoEvents
  /\ phase' = "idle" /\ touched' = {}
  /\ UNCHANGED <<backend, active, events, files, interest, pending, batch, calling,
                 deleting, proc>>

Loop ==
  \/ Poll(TRUE) \/ BeginApply \/ Return \/ PassDone
  \/ \E fd \in FD : Apply(fd) \/ DelApplied(fd) \/ Call(fd) \/ PassOver(fd)

Next ==
  \/ Loop \/ Poll(FALSE) \/ Client
  \/ \E fd \in FD, e \in Events : Arrive(fd, e)

\* while (1) picoev_loop_once(loop, 10): callbacks return, and signals do not end
\* every wait.
Fairness == WF_vars(Loop) /\ SF_vars(Return) /\ SF_vars(Poll(TRUE))

Spec == Init /\ [][Next]_vars

FairSpec == Spec /\ Fairness
-----------------------------------------------------------------------------
\* The type of every variable.
TypeOK ==
  /\ backend \in Backends
  /\ active \subseteq open /\ open \subseteq FD
  /\ events \in [FD -> SUBSET Events] /\ ready \in [FD -> SUBSET Events]
  /\ watch \in [FD -> SUBSET Events] /\ knotes \in [FD -> SUBSET Events]
  /\ _backend \in [FD -> Entry \cup {None}]
  /\ changed_fds \in FD \cup {None}
  /\ changelist \in Seq(Changes)
  /\ batch \in [FD -> SUBSET Events]
  /\ phase \in {"idle", "apply", "pass", "callback"}
  /\ current \in FD \cup {None} /\ revents \subseteq Events
  /\ deleting \in FD \cup {None}
  /\ touched \subseteq FD
  /\ proc \in {"running", "epoll_ctl: CTL_DEL", "kevent: error in changelist",
               "changelist overflow"}

\* Descriptors whose last change has reached the kernel.
Settled(fd) ==
  /\ _backend[fd] = None
  /\ \A i \in DOMAIN changelist : changelist[i].fd # fd

\* What picoev_set_events promises (picoev.h, "sets events to be watched for given
\* desriptor"): once the changes are applied the kernel watches what the slot asks
\* for, no event less and none left over from an earlier setting, whatever the
\* descriptor was deleted, kept, closed and reused for in between.
KernelWatches ==
  backend # "select" =>
    \A fd \in active :
      Settled(fd) /\ events[fd] # {} => watch[fd] = events[fd]

Changed == {fd \in FD : _backend[fd] # None}

\* Every changed descriptor is reached from the head, along one way only.
Listed ==
  /\ changed_fds \in Changed \cup {None}
  /\ \A fd \in Changed :
       /\ _backend[fd].next \in (Changed \ {changed_fds}) \cup {None}
       /\ \A g \in Changed : _backend[g].next = _backend[fd].next => g = fd
  /\ \A S \in SUBSET FD :
       /\ changed_fds \in S \cup {None}
       /\ \A fd \in S \cap Changed : _backend[fd].next \in S \cup {None}
       => Changed \subseteq S

\* The list through _backend holds each changed descriptor once, and while a
\* change waits in it the kernel still has the old events that the entry names.
ChangeListSound == Listed /\ \A fd \in Changed : watch[fd] = _backend[fd].old

\* No assertion on a system call fails: what the code tells the kernel to delete or
\* disable is there, although deletions are deferred or never told.  And
\* loop->changelist has room for every entry that apply_pending_changes adds before
\* it looks at how much is left.
AssertionsHold == Running

\* A callback is called with events its slot asks for; only a slot that changed
\* during the pass can get one from before the change.
CallbackAsked ==
  [][current' # None /\ current = None /\ current' \notin touched
       => revents' \subseteq events[current']]_vars

Awaited(fd) == fd \in active /\ events[fd] \cap ready[fd] # {}

\* An event that is asked for and stays is delivered: no change of interest is
\* lost on its way to the kernel, and no descriptor starves.
Delivered ==
  \A fd \in FD : Awaited(fd) ~> ~ Awaited(fd) \/ current = fd \/ ~ Running

\* An event nobody asks for does not wake the loop for ever: an entry that picoev_del
\* left behind in the kernel is taken out once it gets in the way.
Wakes(fd) == watch[fd] \cap ready[fd] # {} /\ ~ (fd \in active /\ events[fd] # {})

OrphansCollected == \A fd \in FD : Wakes(fd) ~> ~ Wakes(fd)
=============================================================================
