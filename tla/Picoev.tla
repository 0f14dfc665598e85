------------------------------- MODULE Picoev -------------------------------
(***************************************************************************)
(* The descriptor table of picoev (picoev/picoev.h) with the select        *)
(* backend that the Makefile links (picoev/picoev_select.c), as operators  *)
(* on a table: a function from descriptors to slots.                       *)
(*                                                                         *)
(* One loop exists, so loop_id is 1 for a registered descriptor and 0      *)
(* otherwise.  picoev_del leaves callback and cb_arg behind in the slot;   *)
(* both are dead there (every reader tests loop_id first) and the model    *)
(* clears them.  Timeouts are not part of this module.                     *)
(***************************************************************************)
EXTENDS Integers

CONSTANTS FD,      \* descriptors the process can own
          NoArg    \* the NULL cb_arg

\* main calls picoev_init(1048576 + 10).
MaxFd == 1048586

LoopId == 1

EmptySlot == [loop_id |-> 0, events |-> {}, callback |-> "none", cb_arg |-> NoArg]

EmptyTable == [fd \in FD |-> EmptySlot]

\* PICOEV_IS_INITED_AND_FD_IN_RANGE: the cast to unsigned sends -1 out of range.
FdInRange(fd) == 0 <= fd /\ fd < MaxFd

Registered(table, fd) == table[fd].loop_id = LoopId

\* Variant of PicoevAdd: the descriptor is stored as the callback's argument.
AddFdAsArg(table, fd, events, callback, arg) ==
  [table EXCEPT ![fd] = [loop_id |-> LoopId, events |-> events,
                         callback |-> callback, cb_arg |-> fd]]

PicoevAdd(table, fd, events, callback, arg) ==
  [table EXCEPT ![fd] = [loop_id |-> LoopId, events |-> events,
                         callback |-> callback, cb_arg |-> arg]]

PicoevDel(table, fd) == [table EXCEPT ![fd] = EmptySlot]

\* The assertions of picoev_add, in their order: "running" if both hold.
AddOutcome(table, fd) ==
  IF ~ FdInRange(fd) THEN "add: fd out of range"
  ELSE IF Registered(table, fd) THEN "add: slot in use"
  ELSE "running"

\* picoev_del reaches assert(PICOEV_FD_BELONGS_TO_LOOP) in picoev_set_timeout.
DelOutcome(table, fd) ==
  IF Registered(table, fd) THEN "running" ELSE "del: fd not in loop"

\* What picoev_poll_once_internal puts into readfds.
ReadSet(table) == {fd \in FD : Registered(table, fd) /\ "READ" \in table[fd].events}
=============================================================================
