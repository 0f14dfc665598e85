----------------------------- MODULE TimeoutWheel -----------------------------
(***************************************************************************)
(* The timeouts of picoev (picoev/picoev.h): a wheel of TimeoutVecSize     *)
(* slots, each with a bit vector of descriptors (vec) and a bit vector of  *)
(* the words of vec that are not zero (vec_of_vec), and the loop that      *)
(* fires the slots the clock has passed, working on copies of the words    *)
(* while callbacks change the wheel.                                       *)
(*                                                                         *)
(* A bit vector is a set.  The application is what the callbacks do:       *)
(* picoev_add, picoev_del and picoev_set_timeout on any descriptor.        *)
(***************************************************************************)
EXTENDS Integers, FiniteSets

CONSTANTS FD,              \* descriptors
          ShortBits,       \* PICOEV_SHORT_BITS
          TimeoutVecSize,  \* PICOEV_TIMEOUT_VEC_SIZE
          MaxTimeout,      \* the argument of picoev_create_loop
          Secs,            \* the timeouts the application sets
          MaxTime,         \* bound: the clock stops there
          MaxLag,          \* bound: seconds the wheel may lag behind the clock
          OwnOnly,         \* a timeout callback touches no descriptor but its own
          None             \* no timeout, no descriptor

ASSUME WheelAssumption ==
  /\ ShortBits \in Nat \ {0} /\ TimeoutVecSize \in Nat \ {0} /\ MaxTimeout \in Nat \ {0}
  /\ Secs \subseteq Nat \ {0}
  /\ MaxTime \in Nat /\ MaxLag \in Nat /\ OwnOnly \in BOOLEAN
  \* one short of vec_of_vec covers every descriptor
  /\ FD \subseteq 0..(ShortBits * ShortBits - 1)
  /\ None \notin Int

VARIABLES
  clock,        \* time(NULL)
  now,          \* loop->now
  base_idx, base_time,
  active,       \* descriptors whose loop_id is that of the loop
  timeout_idx,  \* slot of each descriptor, None if PICOEV_TIMEOUT_IDX_UNUSED
  vec,          \* descriptors of each slot
  vec_of_vec,   \* words of each slot that hold a descriptor
  phase,        \* idle, poll, slots, words, bits, callback: where the loop is
  vv, v,        \* the local copies of picoev_handle_timeout_internal
  firing,       \* the descriptor whose timeout callback runs
  due,          \* history: when a timeout is due
  proc          \* "running", or the assertion that ended the process

loop == <<now, base_idx, base_time>>
wheel == <<timeout_idx, vec, vec_of_vec, due>>
scan == <<vv, v, firing>>
vars == <<clock, loop, active, wheel, phase, scan, proc>>

Slots == 0..(TimeoutVecSize - 1)

\* PICOEV_RND_UP(max_timeout, TimeoutVecSize) / TimeoutVecSize
Resolution == (MaxTimeout + TimeoutVecSize - 1) \div TimeoutVecSize

Word(fd) == fd \div ShortBits

First(S) == CHOOSE x \in S : \A y \in S : x <= y

Running == proc = "running"

Init ==
  /\ clock = 0 /\ now = 0 /\ base_idx = 0 /\ base_time = 0
  /\ active = {}
  /\ timeout_idx = [fd \in FD |-> None]
  /\ vec = [i \in Slots |-> {}]
  /\ vec_of_vec = [i \in Slots |-> {}]
  /\ phase = "idle"
  /\ vv = {} /\ v = {} /\ firing = None
  /\ due = [fd \in FD |-> None]
  /\ proc = "running"

Tick ==
  /\ Running
  /\ clock < MaxTime /\ clock - base_time < MaxLag
  /\ clock' = clock + 1
  /\ UNCHANGED <<loop, active, wheel, phase, scan, proc>>

-----------------------------------------------------------------------------
(* picoev_set_timeout *)

\* A size_t computed from a division that rounds toward zero: a clock set back
\* by a resolution or more gives a huge delta.
Delta(secs) ==
  LET ahead == now + secs - base_time
      delta == ahead \div Resolution
  IN  IF ahead < 0 THEN (IF -ahead < Resolution THEN 0 ELSE TimeoutVecSize - 1)
      ELSE IF delta >= TimeoutVecSize THEN TimeoutVecSize - 1 ELSE delta

\* Variant of SlotFor: the index does not wrap.
SlotBeyondEnd(secs) == base_idx + Delta(secs)

SlotFor(secs) == (base_idx + Delta(secs)) % TimeoutVecSize

\* vec and vec_of_vec without the timeout of fd.
Cleared(fd) == [i \in Slots |-> IF timeout_idx[fd] = i THEN vec[i] \ {fd} ELSE vec[i]]

\* Variant of ClearedWords: the word goes with any of its descriptors.
ClearedWordsAlways(fd) ==
  [i \in Slots |-> IF timeout_idx[fd] = i THEN vec_of_vec[i] \ {Word(fd)} ELSE vec_of_vec[i]]

ClearedWords(fd) ==
  [i \in Slots |->
     IF timeout_idx[fd] = i /\ \A g \in Cleared(fd)[i] : Word(g) # Word(fd)
     THEN vec_of_vec[i] \ {Word(fd)} ELSE vec_of_vec[i]]

\* Variant of ClearTimeout: the bits stay where they are.
ClearIdxOnly(fd) ==
  /\ timeout_idx' = [timeout_idx EXCEPT ![fd] = None]
  /\ due' = [due EXCEPT ![fd] = None]
  /\ UNCHANGED <<vec, vec_of_vec>>

ClearTimeout(fd) ==
  /\ timeout_idx' = [timeout_idx EXCEPT ![fd] = None]
  /\ vec' = Cleared(fd)
  /\ vec_of_vec' = ClearedWords(fd)
  /\ due' = [due EXCEPT ![fd] = None]

\* Variant of SetTimeout: the old slot is not cleared.
SetWithoutClearing(fd, secs) ==
  /\ timeout_idx' = [timeout_idx EXCEPT ![fd] = SlotFor(secs)]
  /\ vec' = [vec EXCEPT ![SlotFor(secs)] = @ \cup {fd}]
  /\ vec_of_vec' = [vec_of_vec EXCEPT ![SlotFor(secs)] = @ \cup {Word(fd)}]
  /\ due' = [due EXCEPT ![fd] = now + secs]

SetTimeout(fd, secs) ==
  /\ timeout_idx' = [timeout_idx EXCEPT ![fd] = SlotFor(secs)]
  /\ vec' = [Cleared(fd) EXCEPT ![SlotFor(secs)] = @ \cup {fd}]
  /\ vec_of_vec' = [ClearedWords(fd) EXCEPT ![SlotFor(secs)] = @ \cup {Word(fd)}]
  /\ due' = [due EXCEPT ![fd] = now + secs]

-----------------------------------------------------------------------------
(* What a callback may do. *)

InCallback(fd) ==
  /\ Running
  /\ phase \in {"poll", "callback"}
  /\ phase = "callback" /\ OwnOnly => fd = firing

\* picoev_set_timeout(loop, fd, secs), where 0 means none
PicoevSetTimeout(fd) == ClearTimeout(fd) \/ \E secs \in Secs : SetTimeout(fd, secs)

Rearm(fd) ==
  /\ InCallback(fd)
  /\ fd \in active
  /\ PicoevSetTimeout(fd)
  /\ UNCHANGED <<clock, loop, active, phase, scan, proc>>

\* picoev_add
Add(fd) ==
  /\ InCallback(fd)
  /\ fd \notin active
  /\ active' = active \cup {fd}
  /\ PicoevSetTimeout(fd)
  /\ UNCHANGED <<clock, loop, phase, scan, proc>>

\* picoev_del
Del(fd) ==
  /\ InCallback(fd)
  /\ fd \in active
  /\ active' = active \ {fd}
  /\ ClearTimeout(fd)
  /\ UNCHANGED <<clock, loop, phase, scan, proc>>

-----------------------------------------------------------------------------
(* picoev_loop_once: the callbacks of the poll, then the timeouts *)

LoopOnce ==
  /\ Running
  /\ phase = "idle"
  /\ now' = clock
  /\ phase' = "poll"
  /\ UNCHANGED <<clock, base_idx, base_time, active, wheel, scan, proc>>

Polled ==
  /\ Running
  /\ phase = "poll"
  /\ now' = clock
  /\ phase' = "slots"
  /\ UNCHANGED <<clock, base_idx, base_time, active, wheel, scan, proc>>

\* picoev_poll_once_internal returns -1: the timeouts wait for the next round.
PollFails ==
  /\ Running
  /\ phase = "idle"
  /\ now' = clock
  /\ UNCHANGED <<clock, base_idx, base_time, active, wheel, phase, scan, proc>>

-----------------------------------------------------------------------------
(* picoev_handle_timeout_internal *)

\* Variant of SlotPassed: a slot passes with its first second.
SlotBegun == base_time <= now

\* Variant of SlotPassed: a slot is left for a second more.
SlotPassedLate == base_time < now - Resolution

SlotPassed == base_time <= now - Resolution

OpenSlot ==
  /\ Running
  /\ phase = "slots" /\ SlotPassed
  /\ vv' = vec_of_vec[base_idx]
  /\ phase' = "words"
  /\ UNCHANGED <<clock, loop, active, wheel, v, firing, proc>>

\* assert(v != 0)
TakeWord ==
  /\ Running
  /\ phase = "words" /\ vv # {}
  /\ v' = {fd \in vec[base_idx] : Word(fd) = First(vv)}
  /\ phase' = "bits"
  /\ proc' = IF v' = {} THEN "v != 0" ELSE proc
  /\ UNCHANGED <<clock, loop, active, wheel, vv, firing>>

\* The timeout of the lowest descriptor of the copy is marked unused and its
\* callback starts; assert(fd->loop_id == loop->loop_id).
Fire(fd) ==
  /\ Running
  /\ phase = "bits" /\ v # {} /\ fd = First(v)
  /\ IF fd \in active
       THEN /\ timeout_idx' = [timeout_idx EXCEPT ![fd] = None]
            /\ due' = [due EXCEPT ![fd] = None]
            /\ firing' = fd /\ phase' = "callback"
            /\ v' = v \ {fd}
            /\ UNCHANGED proc
       ELSE /\ proc' = "fd->loop_id == loop->loop_id"
            /\ UNCHANGED <<timeout_idx, due, firing, phase, v>>
  /\ UNCHANGED <<clock, loop, active, vec, vec_of_vec, vv>>

CallbackReturns ==
  /\ Running
  /\ phase = "callback"
  /\ phase' = "bits" /\ firing' = None
  /\ UNCHANGED <<clock, loop, active, wheel, vv, v, proc>>

\* vec[j] = 0
WordDone ==
  /\ Running
  /\ phase = "bits" /\ v = {}
  /\ vec' = [vec EXCEPT ![base_idx] = {fd \in @ : Word(fd) # First(vv)}]
  /\ vv' = vv \ {First(vv)}
  /\ phase' = "words"
  /\ UNCHANGED <<clock, loop, active, timeout_idx, vec_of_vec, due, v, firing, proc>>

\* vec_of_vec[i] = 0, and the wheel turns.
SlotDone ==
  /\ Running
  /\ phase = "words" /\ vv = {}
  /\ vec_of_vec' = [vec_of_vec EXCEPT ![base_idx] = {}]
  /\ base_idx' = (base_idx + 1) % TimeoutVecSize
  /\ base_time' = base_time + Resolution
  /\ phase' = "slots"
  /\ UNCHANGED <<clock, now, active, timeout_idx, vec, due, scan, proc>>

TimeoutsDone ==
  /\ Running
  /\ phase = "slots" /\ ~ SlotPassed
  /\ phase' = "idle"
  /\ UNCHANGED <<clock, loop, active, wheel, scan, proc>>

HandleTimeout ==
  \/ OpenSlot \/ TakeWord \/ CallbackReturns \/ WordDone \/ SlotDone \/ TimeoutsDone
  \/ \E fd \in FD : Fire(fd)

Application == \E fd \in FD : Rearm(fd) \/ Add(fd) \/ Del(fd)

Next == Tick \/ Application \/ LoopOnce \/ Polled \/ PollFails \/ HandleTimeout

Spec == Init /\ [][Next]_vars
-----------------------------------------------------------------------------
TypeOK ==
  /\ clock \in 0..MaxTime /\ now \in 0..MaxTime
  /\ base_idx \in Slots /\ base_time \in 0..MaxTime
  /\ active \subseteq FD
  /\ timeout_idx \in [FD -> Slots \cup {None}]
  /\ vec \in [Slots -> SUBSET FD]
  /\ vec_of_vec \in [Slots -> SUBSET (0..(ShortBits - 1))]
  /\ phase \in {"idle", "poll", "slots", "words", "bits", "callback"}
  /\ vv \subseteq 0..(ShortBits - 1) /\ v \subseteq FD
  /\ firing \in FD \cup {None}
  /\ due \in [FD -> Int \cup {None}]
  /\ proc \in {"running", "v != 0", "fd->loop_id == loop->loop_id"}

\* Slots and words that the scan still holds copies of.
Scanning == phase \in {"words", "bits", "callback"}
WordInScan(fd) == phase \in {"bits", "callback"} /\ Word(fd) = First(vv)

\* The slot of a descriptor, its bit in vec and the bit of its word in vec_of_vec
\* are three copies of one fact: an armed timeout always has both bits, or the
\* scan would pass it by.
ArmedHasBits ==
  \A fd \in FD : timeout_idx[fd] # None =>
    /\ fd \in active /\ due[fd] # None
    /\ fd \in vec[timeout_idx[fd]]
    /\ Word(fd) \in vec_of_vec[timeout_idx[fd]]

\* And no bit stays behind for a timeout that was fired, moved or deleted, but in
\* the word and the slot that the scan is about to zero.
NoBitLeftBehind ==
  \A i \in Slots :
    /\ \A fd \in vec[i] : timeout_idx[fd] = i \/ (i = base_idx /\ WordInScan(fd))
    /\ \A w \in vec_of_vec[i] : (\E fd \in vec[i] : Word(fd) = w)
                                \/ (i = base_idx /\ Scanning)

\* picoev.h:363 and :367: the copies of the scan never outlive the wheel.
AssertionsHold == Running

\* picoev.h:367, assert(fd->loop_id == loop->loop_id).
FiredFdInLoop == proc # "fd->loop_id == loop->loop_id"

\* No timeout comes early and none is overdue when the loop rests.
Timers == INSTANCE Deadlines WITH resting <- phase = "idle"

ImplementsDeadlines == Timers!Spec
=============================================================================
