------------------------------ MODULE Deadlines ------------------------------
(***************************************************************************)
(* What the timeouts of picoev promise an application: a timeout of secs   *)
(* seconds comes no sooner than secs seconds after it was set, and the     *)
(* loop does not rest while one is overdue by the resolution or more.      *)
(***************************************************************************)
EXTENDS Integers

CONSTANTS FD, Secs, Resolution, None

VARIABLES now,      \* the time as the loop knows it
          due,      \* when the timeout of a descriptor is due, None if unset
          firing,   \* the descriptor whose timeout callback runs, None if none
          resting   \* between two rounds of the loop

vars == <<now, due, firing, resting>>

Init ==
  /\ now = 0 /\ due = [fd \in FD |-> None]
  /\ firing = None /\ resting = TRUE

Set(fd, secs) ==
  /\ ~ resting
  /\ due' = [due EXCEPT ![fd] = now + secs]
  /\ UNCHANGED <<now, firing, resting>>

Clear(fd) ==
  /\ ~ resting
  /\ due' = [due EXCEPT ![fd] = None]
  /\ UNCHANGED <<now, firing, resting>>

Fire(fd) ==
  /\ ~ resting /\ firing = None
  /\ due[fd] # None /\ due[fd] <= now
  /\ due' = [due EXCEPT ![fd] = None]
  /\ firing' = fd
  /\ UNCHANGED <<now, resting>>

Return ==
  /\ firing # None
  /\ firing' = None
  /\ UNCHANGED <<now, due, resting>>

Advance == firing = None /\ now' >= now /\ UNCHANGED <<due, firing, resting>>

Wake ==
  /\ resting /\ now' >= now
  /\ resting' = FALSE
  /\ UNCHANGED <<due, firing>>

Rest ==
  /\ ~ resting /\ firing = None
  /\ \A fd \in FD : due[fd] # None => now < due[fd] + Resolution
  /\ resting' = TRUE
  /\ UNCHANGED <<now, due, firing>>

Next ==
  \/ Wake \/ Advance \/ Rest \/ Return
  \/ \E fd \in FD : Fire(fd) \/ Clear(fd) \/ \E secs \in Secs : Set(fd, secs)

Spec == Init /\ [][Next]_vars
=============================================================================
