----------------------------- MODULE Descriptors -----------------------------
(***************************************************************************)
(* The state that picoev's core (picoev/picoev.h) shares with a backend:   *)
(* the descriptor table, the interest the kernel holds for it and the      *)
(* batch of events of the current pass.  The three backends (select,       *)
(* epoll, kqueue) implement picoev_update_events_internal and              *)
(* picoev_poll_once_internal on it.                                        *)
(*                                                                         *)
(* events is a char: picoev_epoll.c stores the bits PICOEV_ADD and         *)
(* PICOEV_DEL in it too, and both are cut off.                             *)
(***************************************************************************)
EXTENDS Integers, Sequences

CONSTANTS FD,           \* descriptors
          None          \* no descriptor, -1

Events == {"READ", "WRITE"}

ASSUME DescriptorsAssumption == FD \subseteq Nat /\ None \notin Nat

VARIABLES
  backend,      \* the backend the program is linked with
  active,       \* descriptors with loop_id = loop->loop_id
  events,       \* events of each slot, kept when the slot is deleted
  open,         \* descriptors that are open
  ready,        \* events each open descriptor is ready for
  watch,        \* events the kernel watches: EPOLLIN and EPOLLOUT, enabled knotes
  knotes,       \* kqueue: filters the kernel has a knote for, enabled or not
  _backend,     \* kqueue: None, or next changed descriptor and old events
  changed_fds,  \* kqueue: head of the list of changed descriptors
  changelist,   \* kqueue: changes not yet handed to kevent()
  batch,        \* events of this pass that the loop has yet to look at
  phase,        \* idle, apply, pass, callback
  current,      \* the descriptor whose callback runs
  revents,      \* the events it was called with
  deleting,     \* kqueue: the descriptor picoev_del applies the changes for
  touched,      \* history: descriptors changed while the batch held events of theirs
  proc          \* "running", or the assertion that ended the process

interest == <<watch, knotes>>
pending == <<_backend, changed_fds, changelist>>
files == <<open, ready>>
calling == <<current, revents>>

Running == proc = "running"

NoEvents == [fd \in FD |-> {}]

First(S) == CHOOSE x \in S : \A y \in S : x <= y
=============================================================================
