---------------------------- MODULE KqueueBackend ----------------------------
(***************************************************************************)
(* picoev/picoev_kqueue.c: changes are collected in a list linked through  *)
(* the _backend field of the slots and handed to kevent() with the next    *)
(* poll, or at once by picoev_del.                                         *)
(***************************************************************************)
EXTENDS Descriptors

CONSTANT ChangelistSize   \* entries of loop->changelist, 256 in the code

\* apply_pending_changes adds up to two entries before it looks at the room left.
ASSUME ChangelistAssumption == ChangelistSize \in Nat /\ ChangelistSize >= 2

\* What BACKEND_BUILD makes of a descriptor and its events; -1 is none of it, as the
\* events are two bits.
Entry == [next : FD \cup {None}, old : SUBSET Events]

ASSUME LinkAssumption == None \notin Entry

\* PICOEV_ADD sets the _backend of the slot to -1.
Backend(op, fd) == IF op = "add" THEN [_backend EXCEPT ![fd] = None] ELSE _backend

\* PICOEV_DEL of a descriptor without pending change is left to close().
NothingToDo(backends, fd, now, E, op) ==
  IF op = "del" THEN backends[fd] = None ELSE E = now

\* Variant of Link: a descriptor that is in the list is put in it again.
LinkAgain(backends, fd, now) ==
  /\ _backend' = [backends EXCEPT ![fd] = [next |-> changed_fds, old |-> now]]
  /\ changed_fds' = fd

\* The descriptor goes to the head of the list, unless it is in it already.
Link(backends, fd, now) ==
  IF backends[fd] # None THEN _backend' = backends /\ UNCHANGED changed_fds
  ELSE /\ _backend' = [backends EXCEPT ![fd] = [next |-> changed_fds, old |-> now]]
       /\ changed_fds' = fd

\* picoev_update_events_internal; now is target->events.  The kernel hears of it later.
KqueueUpdate(fd, now, E, op) ==
  LET backends == Backend(op, fd)
      idle == NothingToDo(backends, fd, now, E, op)
  IN  /\ events' = [events EXCEPT ![fd] = IF idle THEN now ELSE E]
      /\ IF idle THEN _backend' = backends /\ UNCHANGED changed_fds
                 ELSE Link(backends, fd, now)
      /\ UNCHANGED <<changelist, proc>>

-----------------------------------------------------------------------------
(* apply_pending_changes *)

\* EVFILT_READ is -1 and EVFILT_WRITE is -2: the filter of both events, -1 | -2,
\* is EVFILT_READ.
Filter(E) == IF "READ" \in E THEN "READ" ELSE "WRITE"

Changes == [fd : FD, op : {"disable", "enable"}, filter : Events]

\* SET
Change(fd, op, f) == [fd |-> fd, op |-> op, filter |-> f]

\* Variant of Entries: the old filter is not disabled.
EntriesWithoutDisable(fd, old, new) ==
  IF new = old \/ new = {} THEN <<>>
  ELSE << Change(fd, "enable", Filter(new)) >>

\* EV_DISABLE of the old events, EV_ADD | EV_ENABLE of the new ones.
Entries(fd, old, new) ==
  IF new = old THEN <<>>
  ELSE (IF old = {} THEN <<>> ELSE << Change(fd, "disable", Filter(old)) >>)
       \o (IF new = {} THEN <<>> ELSE << Change(fd, "enable", Filter(new)) >>)

\* Filters the kernel has a knote for when it comes to entry n.
Knotes(changes, fd, n) ==
  knotes[fd] \cup {f \in Events : \E i \in 1..(n - 1) : changes[i] = Change(fd, "enable", f)}

\* kevent(): a filter is watched as the last of its entries says.  EBADF and ENOENT are
\* errors.
Kevent(changes) ==
  [watch |-> [fd \in FD |-> {f \in Events :
     \/ /\ f \in watch[fd]
        /\ \A i \in DOMAIN changes : changes[i] # Change(fd, "disable", f)
     \/ \E i \in DOMAIN changes :
          /\ changes[i] = Change(fd, "enable", f)
          /\ \A j \in DOMAIN changes : j > i => changes[j] # Change(fd, "disable", f)}],
   knotes |-> [fd \in FD |-> Knotes(changes, fd, Len(changes) + 1)],
   ok |-> \A i \in DOMAIN changes :
            /\ changes[i].fd \in open
            /\ changes[i].op = "disable" => changes[i].filter \in Knotes(changes, changes[i].fd, i)]

\* kevent() with an error in its changes ends the process: assert(nevents == 0)
\* or, from the poll, assert((event->flags & EV_ERROR) == 0).
Submit(changes) ==
  LET kernel == Kevent(changes)
  IN  /\ watch' = kernel.watch /\ knotes' = kernel.knotes
      /\ proc' = IF kernel.ok THEN proc ELSE "kevent: error in changelist"

\* Variant of Full: the room for a second entry is forgotten.
FullAtEnd(n) == n >= ChangelistSize

Full(n) == n + 1 >= ChangelistSize

\* One turn of the while loop.
ApplyOne(fd) ==
  /\ phase = "apply" /\ fd = changed_fds
  /\ LET new == Entries(fd, _backend[fd].old, events[fd])
         list == changelist \o new
     IN  IF Len(list) > ChangelistSize
           THEN proc' = "changelist overflow" /\ UNCHANGED <<interest, changelist>>
         ELSE IF new # <<>> /\ Full(Len(list))
           THEN Submit(list) /\ changelist' = <<>>
         ELSE changelist' = list /\ UNCHANGED <<interest, proc>>
  /\ changed_fds' = _backend[fd].next
  /\ _backend' = [_backend EXCEPT ![fd] = None]
  /\ UNCHANGED <<events, batch, phase>>

\* The poll begins with the pending changes.
KqueuePoll ==
  /\ phase = "idle"
  /\ phase' = "apply"
  /\ batch' = NoEvents
  /\ UNCHANGED <<interest, pending, proc>>

\* kevent() takes the rest of the changes and waits.  One that a signal ends has
\* taken the changes all the same.
KqueueWait(answer) ==
  /\ phase = "apply" /\ changed_fds = None /\ deleting = None
  /\ Submit(changelist)
  /\ changelist' = <<>>
  /\ batch' = IF answer THEN [fd \in FD |-> watch'[fd] \cap ready[fd]] ELSE NoEvents
  /\ phase' = "pass"
  /\ UNCHANGED <<_backend, changed_fds>>

\* One callback for each filter; target->events is not looked at.
KqueueCalls(fd) == fd \in active

KqueuePassesOver(fd) == fd \notin active /\ UNCHANGED interest
=============================================================================
