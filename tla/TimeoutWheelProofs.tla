-------------------------- MODULE TimeoutWheelProofs --------------------------
(***************************************************************************)
(* The three copies of a timeout agree, the copies that the scan works on  *)
(* never outlive the wheel, and the wheel keeps its deadlines: for any     *)
(* descriptors, any size of word and of wheel, any timeouts.               *)
(***************************************************************************)
EXTENDS TimeoutWheel, WellFoundedInduction, TLAPS

\* PICOEV_TIMEOUT_VEC_SIZE is 128: a wheel of one slot would be scanned while
\* callbacks set timeouts in it.
SlotsToSpare == TimeoutVecSize > 1

\* The wheel holds the longest timeout, however late the loop runs.
LagFits == \A secs \in Secs : MaxLag + secs <= TimeoutVecSize * Resolution

\* And a second more.
LagSpare == \A secs \in Secs : MaxLag + secs < TimeoutVecSize * Resolution

\* A slot whose bits are those of its timeouts.
Exact(i) ==
  /\ vec[i] = {fd \in FD : timeout_idx[fd] = i}
  /\ vec_of_vec[i] = {Word(fd) : fd \in vec[i]}

Held(i) == i = base_idx /\ Scanning

WheelExact == \A i \in Slots : Held(i) \/ Exact(i)

\* A timeout is armed, due and of a descriptor in the loop, all or none.
ArmedAndDue ==
  \A fd \in FD : /\ timeout_idx[fd] # None => fd \in active
                 /\ timeout_idx[fd] # None <=> due[fd] # None

\* The slot that is being scanned: vv covers what is left of it, v is what is left
\* of the word at hand.
ScanExact ==
  /\ Scanning =>
       /\ base_time + Resolution <= now
       /\ vv = {Word(fd) : fd \in vec[base_idx]} /\ vv \subseteq vec_of_vec[base_idx]
       /\ \A fd \in FD : timeout_idx[fd] = base_idx => fd \in vec[base_idx]
       /\ \A fd \in vec[base_idx] : timeout_idx[fd] = base_idx \/ WordInScan(fd)
  /\ phase \in {"bits", "callback"} =>
       /\ vv # {}
       /\ v = {fd \in vec[base_idx] : Word(fd) = First(vv) /\ timeout_idx[fd] = base_idx}
  /\ IF phase = "callback"
       THEN firing \in vec[base_idx] /\ WordInScan(firing) /\ timeout_idx[firing] # base_idx
       ELSE firing = None

WheelInv == TypeOK /\ WheelExact /\ ArmedAndDue /\ ScanExact /\ Running

\* The loop is behind the clock and the wheel behind the loop.
Clocks == base_time <= now /\ now <= clock /\ clock <= base_time + MaxLag

\* A timeout is in the slot of the seconds it is due in.
DueInSlot ==
  \A fd \in FD : timeout_idx[fd] # None =>
    \E d \in 0..(TimeoutVecSize - 1) :
      /\ timeout_idx[fd] = (base_idx + d) % TimeoutVecSize
      /\ base_time + d * Resolution <= due[fd]
      /\ due[fd] <= base_time + d * Resolution + Resolution
      /\ LagSpare => due[fd] < base_time + d * Resolution + Resolution

DeadlineInv == Clocks /\ DueInSlot

-----------------------------------------------------------------------------
(* What the operators of the wheel are built from. *)

\* A set of numbers has a least one.
LEMMA FirstMember ==
  ASSUME NEW S \in SUBSET Nat, S # {}
  PROVE  First(S) \in S /\ \A y \in S : First(S) <= y
<1>1. PICK x \in S : \A y \in S : <<y, x>> \notin OpToRel(<, Nat)
  BY NatLessThanWellFounded, WFMin
<1>2. ASSUME NEW y \in S PROVE ~ (y < x)
  BY <1>1, Zenon DEF OpToRel
<1>3. \A y \in S : x <= y
  BY <1>2
<1> QED
  BY <1>3 DEF First

\* A short has a bit for the word of every descriptor.
LEMMA WordType == \A fd \in FD : fd \in Nat /\ Word(fd) \in 0..(ShortBits - 1)
<1> SUFFICES ASSUME NEW fd \in FD
             PROVE  fd \in Nat /\ Word(fd) \in 0..(ShortBits - 1)
  OBVIOUS
<1> DEFINE q == fd \div ShortBits
           r == fd % ShortBits
<1>1. ShortBits \in Nat \ {0} /\ fd \in 0..(ShortBits * ShortBits - 1)
  BY WheelAssumption
<1>2. q \in Int /\ r \in 0..(ShortBits - 1) /\ fd = ShortBits * q + r
  BY <1>1
<1>3. q >= 0
  BY <1>1
<1>4. q < ShortBits
  <2> SUFFICES ASSUME q >= ShortBits PROVE FALSE
    BY <1>1, <1>2
  <2>1. ShortBits * q >= ShortBits * ShortBits
    BY <1>1, <1>2
  <2> QED
    BY <1>1, <1>2, <2>1
<1> QED
  BY <1>1, <1>2, <1>3, <1>4 DEF Word

LEMMA ResolutionType == Resolution \in Nat \ {0}
<1> DEFINE top == MaxTimeout + TimeoutVecSize - 1
           q == top \div TimeoutVecSize
           r == top % TimeoutVecSize
<1>1. /\ TimeoutVecSize \in Nat \ {0} /\ top \in Nat /\ top >= TimeoutVecSize
  BY WheelAssumption
<1> HIDE DEF top
<1>2. q \in Int /\ r \in 0..(TimeoutVecSize - 1) /\ top = TimeoutVecSize * q + r
  BY <1>1
<1> HIDE DEF q, r
<1>3. q >= 1
  <2> SUFFICES ASSUME q <= 0 PROVE FALSE
    BY <1>2
  <2>1. TimeoutVecSize * q <= 0
    BY <1>1, <1>2
  <2> QED
    BY <1>1, <1>2, <2>1
<1> QED
  BY <1>2, <1>3 DEF Resolution, top, q

\* Around the wheel.
LEMMA ModSum ==
  ASSUME NEW b \in Slots, NEW d \in 0..(TimeoutVecSize - 1)
  PROVE  (b + d) % TimeoutVecSize
           = IF b + d < TimeoutVecSize THEN b + d ELSE b + d - TimeoutVecSize
<1> DEFINE T == TimeoutVecSize
           q == (b + d) \div T
           r == (b + d) % T
<1>1. T \in Nat \ {0} /\ b \in 0..(T - 1)
  BY WheelAssumption DEF Slots
<1>2. q \in Int /\ r \in 0..(T - 1) /\ b + d = T * q + r
  BY <1>1
<1>3. q < 2
  <2> SUFFICES ASSUME q >= 2 PROVE FALSE
    BY <1>2
  <2>1. T * q >= T * 2
    BY <1>1, <1>2
  <2> QED
    BY <1>1, <1>2, <2>1
<1>4. q >= 0
  BY <1>1
<1>5. CASE q = 0
  BY <1>1, <1>2, <1>5
<1>6. CASE q = 1
  BY <1>1, <1>2, <1>6
<1> QED
  BY <1>2, <1>3, <1>4, <1>5, <1>6

\* The slots a timeout can be put in; with time passed but not yet scanned, in none
\* that a scan is at.
LEMMA DeltaType ==
  ASSUME base_time \in Nat, now \in Nat, NEW secs \in Secs
  PROVE  /\ Delta(secs) \in 0..(TimeoutVecSize - 1)
         /\ base_time + Resolution <= now /\ SlotsToSpare => Delta(secs) > 0
<1> DEFINE ahead == now + secs - base_time
           q == ahead \div Resolution
           r == ahead % Resolution
<1>1. /\ TimeoutVecSize \in Nat \ {0} /\ Resolution \in Nat \ {0}
      /\ secs \in Nat \ {0} /\ ahead \in Int
  BY WheelAssumption, ResolutionType
<1>2. q \in Int /\ r \in 0..(Resolution - 1) /\ ahead = Resolution * q + r
  BY <1>1
<1>3. ahead >= 0 => q >= 0
  BY <1>1
<1>4. ahead >= Resolution => q > 0
  <2> SUFFICES ASSUME ahead >= Resolution, q <= 0 PROVE FALSE
    BY <1>2
  <2>1. Resolution * q <= 0
    BY <1>1, <1>2
  <2> QED
    BY <1>1, <1>2, <2>1
<1>5. base_time + Resolution <= now => ahead >= Resolution
  BY <1>1
<1> HIDE DEF ahead, q, r
<1>6. Delta(secs) = IF ahead < 0 THEN (IF -ahead < Resolution THEN 0 ELSE TimeoutVecSize - 1)
                    ELSE IF q >= TimeoutVecSize THEN TimeoutVecSize - 1 ELSE q
  BY DEF Delta, ahead, q
<1> QED
  BY <1>1, <1>2, <1>3, <1>4, <1>5, <1>6 DEF SlotsToSpare

LEMMA SlotForType ==
  ASSUME base_idx \in Slots, base_time \in Nat, now \in Nat, NEW secs \in Secs
  PROVE  /\ SlotFor(secs) \in Slots
         /\ base_time + Resolution <= now /\ SlotsToSpare => SlotFor(secs) # base_idx
<1>1. TimeoutVecSize \in Nat \ {0} /\ base_idx \in 0..(TimeoutVecSize - 1)
  BY WheelAssumption DEF Slots
<1> DEFINE d == Delta(secs)
<1>2. /\ d \in 0..(TimeoutVecSize - 1)
      /\ base_time + Resolution <= now /\ SlotsToSpare => d > 0
  BY DeltaType
<1>3. SlotFor(secs) = IF base_idx + d < TimeoutVecSize
                      THEN base_idx + d ELSE base_idx + d - TimeoutVecSize
  BY <1>2, ModSum DEF SlotFor
<1> HIDE DEF d
<1> QED
  BY <1>1, <1>2, <1>3 DEF Slots

-----------------------------------------------------------------------------
(* picoev_set_timeout *)

LEMMA NumberTypes ==
  TypeOK => base_idx \in Slots /\ base_time \in Nat /\ now \in Nat /\ clock \in Nat
<1> SUFFICES ASSUME TypeOK
             PROVE  base_idx \in Slots /\ base_time \in Nat /\ now \in Nat /\ clock \in Nat
  OBVIOUS
<1>1. base_idx \in Slots /\ base_time \in 0..MaxTime /\ now \in 0..MaxTime /\ clock \in 0..MaxTime
  BY DEF TypeOK
<1>2. MaxTime \in Nat
  BY WheelAssumption
<1> QED
  BY <1>1, <1>2

LEMMA ScanTypes ==
  TypeOK => /\ vec[base_idx] \in SUBSET FD /\ v \in SUBSET Nat /\ vv \in SUBSET Nat
            /\ base_idx # None /\ now <= MaxTime
<1> SUFFICES ASSUME TypeOK
             PROVE  /\ vec[base_idx] \in SUBSET FD /\ v \in SUBSET Nat /\ vv \in SUBSET Nat
                    /\ base_idx # None /\ now <= MaxTime
  OBVIOUS
<1>1. /\ vec \in [Slots -> SUBSET FD] /\ v \subseteq FD /\ vv \subseteq 0..(ShortBits - 1)
      /\ base_idx \in Slots /\ now \in 0..MaxTime
  BY DEF TypeOK
<1>2. ShortBits \in Nat /\ MaxTime \in Nat /\ None \notin Int /\ TimeoutVecSize \in Nat
  BY WheelAssumption
<1>3. v \in SUBSET Nat
  BY <1>1, WordType
<1>4. vv \in SUBSET Nat /\ base_idx # None /\ now <= MaxTime
  BY <1>1, <1>2 DEF Slots
<1> QED
  BY <1>1, <1>3, <1>4

\* The bits without those of fd.
LEMMA ClearedBits ==
  ASSUME TypeOK, NEW fd \in FD
  PROVE  /\ Cleared(fd) \in [Slots -> SUBSET FD]
         /\ ClearedWords(fd) \in [Slots -> SUBSET (0..(ShortBits - 1))]
         /\ \A i \in Slots : timeout_idx[fd] # i =>
              Cleared(fd)[i] = vec[i] /\ ClearedWords(fd)[i] = vec_of_vec[i]
         /\ \A i \in Slots : Exact(i) =>
              /\ Cleared(fd)[i] = {g \in FD : g # fd /\ timeout_idx[g] = i}
              /\ ClearedWords(fd)[i] = {Word(g) : g \in Cleared(fd)[i]}
<1>1. Cleared(fd) \in [Slots -> SUBSET FD]
  BY DEF Cleared, TypeOK
<1>2. ClearedWords(fd) \in [Slots -> SUBSET (0..(ShortBits - 1))]
  BY DEF ClearedWords, TypeOK
<1>3. ASSUME NEW i \in Slots, timeout_idx[fd] # i
      PROVE  Cleared(fd)[i] = vec[i] /\ ClearedWords(fd)[i] = vec_of_vec[i]
  BY <1>3 DEF Cleared, ClearedWords
<1>4. ASSUME NEW i \in Slots, Exact(i)
      PROVE  /\ Cleared(fd)[i] = {g \in FD : g # fd /\ timeout_idx[g] = i}
             /\ ClearedWords(fd)[i] = {Word(g) : g \in Cleared(fd)[i]}
  <2>1. Cleared(fd)[i] = {g \in FD : g # fd /\ timeout_idx[g] = i}
    BY <1>4 DEF Cleared, Exact
  <2>2. CASE timeout_idx[fd] = i
    <3>1. vec[i] = Cleared(fd)[i] \cup {fd}
      BY <1>4, <2>1, <2>2 DEF Exact
    <3>2. vec_of_vec[i] = {Word(g) : g \in Cleared(fd)[i]} \cup {Word(fd)}
      BY <1>4, <3>1 DEF Exact
    <3>3. ClearedWords(fd)[i] = IF \A g \in Cleared(fd)[i] : Word(g) # Word(fd)
                                THEN vec_of_vec[i] \ {Word(fd)} ELSE vec_of_vec[i]
      BY <2>2 DEF ClearedWords
    <3> QED
      BY <2>1, <3>2, <3>3
  <2>3. CASE timeout_idx[fd] # i
    BY <1>3, <1>4, <2>1, <2>3 DEF Exact
  <2> QED
    BY <2>2, <2>3, <2>1
<1> QED
  BY <1>1, <1>2, <1>3, <1>4

\* What a call of picoev_set_timeout does to the timeouts and to the bits.
Moved(fd) ==
  /\ \/ timeout_idx'[fd] = None /\ due'[fd] = None
     \/ \E secs \in Secs : timeout_idx'[fd] = SlotFor(secs) /\ due'[fd] = now + secs
  /\ \A g \in FD \ {fd} : timeout_idx'[g] = timeout_idx[g] /\ due'[g] = due[g]
  /\ timeout_idx' \in [FD -> Slots \cup {None}] /\ due' \in [FD -> Int \cup {None}]
  /\ vec' \in [Slots -> SUBSET FD]
  /\ vec_of_vec' \in [Slots -> SUBSET (0..(ShortBits - 1))]
  /\ \A i \in Slots : timeout_idx[fd] # i /\ timeout_idx'[fd] # i =>
       vec'[i] = vec[i] /\ vec_of_vec'[i] = vec_of_vec[i]
  /\ \A i \in Slots : Exact(i) => Exact(i)'

LEMMA SetTimeoutMoves ==
  ASSUME TypeOK, NEW fd \in FD, PicoevSetTimeout(fd)
  PROVE  Moved(fd)
<1>1. CASE ClearTimeout(fd)
  <2>1. /\ timeout_idx' = [timeout_idx EXCEPT ![fd] = None]
        /\ due' = [due EXCEPT ![fd] = None]
        /\ vec' = Cleared(fd) /\ vec_of_vec' = ClearedWords(fd)
    BY <1>1 DEF ClearTimeout
  <2>2. /\ timeout_idx'[fd] = None /\ due'[fd] = None
        /\ \A g \in FD \ {fd} : timeout_idx'[g] = timeout_idx[g] /\ due'[g] = due[g]
        /\ timeout_idx' \in [FD -> Slots \cup {None}] /\ due' \in [FD -> Int \cup {None}]
    BY <2>1 DEF TypeOK
  <2>3. ASSUME NEW i \in Slots, Exact(i) PROVE Exact(i)'
    <3>1. i # None
      BY WheelAssumption DEF Slots
    <3>2. {g \in FD : g # fd /\ timeout_idx[g] = i} = {g \in FD : timeout_idx'[g] = i}
      BY <2>2, <3>1
    <3> QED
      BY <2>1, <2>3, <3>2, ClearedBits DEF Exact
  <2> QED
    BY <2>1, <2>2, <2>3, ClearedBits DEF Moved
<1>2. ASSUME NEW secs \in Secs, SetTimeout(fd, secs) PROVE Moved(fd)
  <2> DEFINE s == SlotFor(secs)
  <2>1. s \in Slots /\ now + secs \in Int
    <3>1. secs \in Nat
      BY WheelAssumption
    <3> QED
      BY <3>1, SlotForType, NumberTypes
  <2>2. /\ timeout_idx' = [timeout_idx EXCEPT ![fd] = s]
        /\ due' = [due EXCEPT ![fd] = now + secs]
        /\ vec' = [Cleared(fd) EXCEPT ![s] = @ \cup {fd}]
        /\ vec_of_vec' = [ClearedWords(fd) EXCEPT ![s] = @ \cup {Word(fd)}]
    BY <1>2 DEF SetTimeout
  <2> HIDE DEF s
  <2>3. /\ timeout_idx'[fd] = s /\ due'[fd] = now + secs
        /\ \A g \in FD \ {fd} : timeout_idx'[g] = timeout_idx[g] /\ due'[g] = due[g]
        /\ timeout_idx' \in [FD -> Slots \cup {None}] /\ due' \in [FD -> Int \cup {None}]
    BY <2>1, <2>2 DEF TypeOK
  <2>4. /\ vec' \in [Slots -> SUBSET FD]
        /\ vec_of_vec' \in [Slots -> SUBSET (0..(ShortBits - 1))]
        /\ vec'[s] = Cleared(fd)[s] \cup {fd}
        /\ vec_of_vec'[s] = ClearedWords(fd)[s] \cup {Word(fd)}
        /\ \A i \in Slots \ {s} : /\ vec'[i] = Cleared(fd)[i]
                                  /\ vec_of_vec'[i] = ClearedWords(fd)[i]
    BY <2>1, <2>2, ClearedBits, WordType
  <2>5. ASSUME NEW i \in Slots, Exact(i) PROVE Exact(i)'
    <3>1. /\ Cleared(fd)[i] = {g \in FD : g # fd /\ timeout_idx[g] = i}
          /\ ClearedWords(fd)[i] = {Word(g) : g \in Cleared(fd)[i]}
      BY <2>5, ClearedBits
    <3>2. CASE i = s
      <4>1. vec'[i] = {g \in FD : timeout_idx'[g] = i}
        BY <2>3, <2>4, <3>1, <3>2
      <4>2. vec_of_vec'[i] = {Word(g) : g \in vec'[i]}
        BY <2>4, <3>1, <3>2
      <4> QED
        BY <4>1, <4>2 DEF Exact
    <3>3. CASE i # s
      <4>1. vec'[i] = {g \in FD : timeout_idx'[g] = i}
        BY <2>3, <2>4, <3>1, <3>3
      <4> QED
        BY <2>4, <3>1, <3>3, <4>1 DEF Exact
    <3> QED
      BY <3>2, <3>3
  <2>6. \A i \in Slots : timeout_idx[fd] # i /\ timeout_idx'[fd] # i =>
          vec'[i] = vec[i] /\ vec_of_vec'[i] = vec_of_vec[i]
    BY <2>3, <2>4, ClearedBits
  <2>7. \E n \in Secs : timeout_idx'[fd] = SlotFor(n) /\ due'[fd] = now + n
    BY <2>3 DEF s
  <2> QED
    BY <2>3, <2>4, <2>5, <2>6, <2>7 DEF Moved
<1> QED
  BY <1>1, <1>2 DEF PicoevSetTimeout

-----------------------------------------------------------------------------
(* The wheel and the scan: each step keeps WheelInv. *)

LEMMA InitWheel == Init => WheelInv
<1> SUFFICES ASSUME Init PROVE WheelInv
  OBVIOUS
<1>1. /\ TimeoutVecSize \in Nat \ {0} /\ MaxTime \in Nat /\ None \notin Int
  BY WheelAssumption
<1>2. 0 \in Slots /\ 0 \in 0..MaxTime /\ \A i \in Slots : i # None
  BY <1>1 DEF Slots
<1>3. TypeOK
  BY <1>2 DEF Init, TypeOK
<1>4. ASSUME NEW i \in Slots PROVE Exact(i)
  BY <1>2 DEF Init, Exact
<1> QED
  BY <1>3, <1>4 DEF WheelInv, WheelExact, ArmedAndDue, ScanExact, Scanning, Running, Init

\* A call of picoev_set_timeout in a callback, with what picoev_add and picoev_del
\* do to active.
Called(fd) ==
  /\ InCallback(fd) /\ PicoevSetTimeout(fd)
  /\ active' \subseteq FD /\ active \ {fd} \subseteq active'
  /\ timeout_idx'[fd] # None => fd \in active'
  /\ UNCHANGED <<clock, loop, phase, scan, proc>>

LEMMA ApplicationCalls ==
  ASSUME TypeOK, Application
  PROVE  \E fd \in FD : Called(fd)
<1>1. PICK fd \in FD : Rearm(fd) \/ Add(fd) \/ Del(fd)
  BY DEF Application
<1>2. active \subseteq FD /\ timeout_idx \in [FD -> Slots \cup {None}]
  BY DEF TypeOK
<1>3. CASE Rearm(fd)
  BY <1>2, <1>3 DEF Rearm, Called
<1>4. CASE Add(fd)
  BY <1>2, <1>4 DEF Add, Called
<1>5. CASE Del(fd)
  BY <1>2, <1>5 DEF Del, Called, PicoevSetTimeout, ClearTimeout
<1> QED
  BY <1>1, <1>3, <1>4, <1>5

LEMMA CallbackWheel ==
  ASSUME WheelInv, OwnOnly, SlotsToSpare, NEW fd \in FD, Called(fd)
  PROVE  WheelInv'
<1>1. TypeOK /\ Moved(fd)
  BY SetTimeoutMoves DEF Called, WheelInv
<1>2. /\ UNCHANGED <<clock, now, base_idx, base_time, phase, vv, v, firing, proc>>
      /\ phase \in {"poll", "callback"} /\ (phase = "callback" => fd = firing)
      /\ active' \subseteq FD /\ active \ {fd} \subseteq active'
      /\ (timeout_idx'[fd] # None => fd \in active')
  BY DEF Called, InCallback, loop, scan
<1>3. TypeOK'
  BY <1>1, <1>2 DEF TypeOK, Moved, Slots
<1>4. /\ base_idx \in Slots /\ base_time \in Nat /\ now \in Nat
      /\ \A i \in Slots : i # None
  BY <1>1, NumberTypes, WheelAssumption DEF Slots
<1>5. ASSUME phase = "callback"
      PROVE  /\ timeout_idx[fd] # base_idx /\ timeout_idx'[fd] # base_idx
             /\ vec'[base_idx] = vec[base_idx] /\ vec_of_vec'[base_idx] = vec_of_vec[base_idx]
  <2>1. base_time + Resolution <= now /\ timeout_idx[fd] # base_idx
    BY <1>2, <1>5 DEF WheelInv, ScanExact, Scanning
  <2>2. \A secs \in Secs : SlotFor(secs) # base_idx
    BY <1>4, <2>1, SlotForType
  <2>3. timeout_idx'[fd] # base_idx
    BY <1>1, <1>4, <2>2 DEF Moved
  <2> QED
    BY <1>1, <1>4, <2>1, <2>3 DEF Moved
<1>6. WheelExact'
  <2> SUFFICES ASSUME NEW i \in Slots PROVE Held(i)' \/ Exact(i)'
    BY DEF WheelExact
  <2>1. Held(i)' <=> Held(i)
    BY <1>2 DEF Held, Scanning
  <2> QED
    BY <1>1, <2>1 DEF WheelInv, WheelExact, Moved
<1>7. ArmedAndDue'
  <2> SUFFICES ASSUME NEW g \in FD
               PROVE  /\ timeout_idx'[g] # None => g \in active'
                      /\ timeout_idx'[g] # None <=> due'[g] # None
    BY DEF ArmedAndDue
  <2>1. CASE g = fd
    <3>1. ASSUME NEW secs \in Secs PROVE SlotFor(secs) # None /\ now + secs # None
      BY <1>4, SlotForType, WheelAssumption
    <3> QED
      BY <1>1, <1>2, <2>1, <3>1 DEF Moved
  <2>2. CASE g # fd
    BY <1>1, <1>2, <2>2 DEF Moved, WheelInv, ArmedAndDue
  <2> QED
    BY <2>1, <2>2
<1>8. ScanExact'
  <2>1. CASE phase = "poll"
    BY <1>2, <2>1 DEF WheelInv, ScanExact, Scanning
  <2>2. CASE phase = "callback"
    <3>1. \A g \in FD : timeout_idx'[g] = base_idx <=> timeout_idx[g] = base_idx
      BY <1>1, <1>5, <2>2 DEF Moved
    <3>2. vec[base_idx] \subseteq FD
      BY <1>1, <1>4 DEF TypeOK
    <3>3. /\ base_time + Resolution <= now
          /\ vv = {Word(g) : g \in vec[base_idx]} /\ vv \subseteq vec_of_vec[base_idx]
          /\ \A g \in FD : timeout_idx[g] = base_idx => g \in vec[base_idx]
          /\ \A g \in vec[base_idx] : timeout_idx[g] = base_idx \/ WordInScan(g)
          /\ vv # {}
          /\ v = {g \in vec[base_idx] : Word(g) = First(vv) /\ timeout_idx[g] = base_idx}
          /\ firing \in vec[base_idx] /\ WordInScan(firing)
      BY <2>2 DEF WheelInv, ScanExact, Scanning
    <3>4. \A g : WordInScan(g)' <=> WordInScan(g)
      BY <1>2 DEF WordInScan
    <3>5. v = {g \in vec[base_idx] : Word(g) = First(vv) /\ timeout_idx'[g] = base_idx}
      BY <3>1, <3>2, <3>3
    <3>6. timeout_idx'[firing] # base_idx
      BY <1>2, <1>5, <2>2
    <3>7. /\ \A g \in FD : timeout_idx'[g] = base_idx => g \in vec[base_idx]
          /\ \A g \in vec[base_idx] : timeout_idx'[g] = base_idx \/ WordInScan(g)'
      BY <3>1, <3>2, <3>3, <3>4
    <3> QED
      BY <1>2, <1>5, <2>2, <3>3, <3>4, <3>5, <3>6, <3>7 DEF ScanExact, Scanning
  <2> QED
    BY <1>2, <2>1, <2>2
<1> QED
  BY <1>2, <1>3, <1>6, <1>7, <1>8 DEF WheelInv, Running


\* The steps that leave wheel and scan as they are.
LEMMA QuietWheel ==
  ASSUME WheelInv, Tick \/ LoopOnce \/ Polled \/ PollFails \/ TimeoutsDone \/ UNCHANGED vars
  PROVE  WheelInv'
<1>1. /\ UNCHANGED <<base_idx, base_time, active, timeout_idx, vec, vec_of_vec, due>>
      /\ UNCHANGED <<vv, v, firing, proc>>
  BY DEF Tick, LoopOnce, Polled, PollFails, TimeoutsDone, vars, loop, wheel, scan
<1>2. /\ clock' \in 0..MaxTime /\ now' \in 0..MaxTime
      /\ phase' \in {"idle", "poll", "slots", "words", "bits", "callback"}
  <2>1. clock \in 0..MaxTime /\ MaxTime \in Nat
    BY WheelAssumption DEF WheelInv, TypeOK
  <2>2. clock' \in 0..MaxTime
    BY <2>1 DEF Tick, LoopOnce, Polled, PollFails, TimeoutsDone, vars, loop
  <2> QED
    BY <2>2 DEF Tick, LoopOnce, Polled, PollFails, TimeoutsDone, vars, loop, WheelInv, TypeOK
<1>3. TypeOK'
  BY <1>1, <1>2 DEF WheelInv, TypeOK
<1>4. /\ phase' = phase \/ phase \notin {"words", "bits", "callback"}
      /\ phase' = phase \/ phase' \notin {"words", "bits", "callback"}
      /\ phase \in {"words", "bits", "callback"} => now' = now
  BY DEF Tick, LoopOnce, Polled, PollFails, TimeoutsDone, vars, loop
<1>5. WheelExact' /\ ArmedAndDue'
  BY <1>1, <1>4 DEF WheelInv, WheelExact, Held, Scanning, Exact, ArmedAndDue
<1>6. ScanExact'
  BY <1>1, <1>4 DEF WheelInv, ScanExact, Scanning, WordInScan
<1> QED
  BY <1>1, <1>3, <1>5, <1>6 DEF WheelInv, Running

\* The slot is copied with its bits exact.
LEMMA OpenSlotWheel == WheelInv /\ OpenSlot => WheelInv'
<1> SUFFICES ASSUME WheelInv, OpenSlot PROVE WheelInv'
  OBVIOUS
<1>1. /\ UNCHANGED <<clock, now, base_idx, base_time, active, timeout_idx, vec, vec_of_vec, due>>
      /\ UNCHANGED <<v, firing, proc>>
      /\ phase = "slots" /\ phase' = "words" /\ vv' = vec_of_vec[base_idx]
      /\ base_time <= now - Resolution
  BY DEF OpenSlot, SlotPassed, loop, wheel
<1>2. /\ base_idx \in Slots /\ base_time \in Nat /\ now \in Nat /\ Resolution \in Nat
  BY NumberTypes, ResolutionType DEF WheelInv
<1>3. Exact(base_idx)
  BY <1>1, <1>2 DEF WheelInv, WheelExact, Held, Scanning
<1>4. TypeOK'
  BY <1>1, <1>2 DEF WheelInv, TypeOK
<1>5. WheelExact' /\ ArmedAndDue'
  BY <1>1 DEF WheelInv, WheelExact, Held, Scanning, Exact, ArmedAndDue
<1>6. ScanExact'
  <2>1. base_time + Resolution <= now
    BY <1>1, <1>2
  <2>2. firing = None
    BY <1>1 DEF WheelInv, ScanExact
  <2> QED
    BY <1>1, <1>3, <2>1, <2>2 DEF Exact, ScanExact, Scanning, WordInScan
<1> QED
  BY <1>1, <1>4, <1>5, <1>6 DEF WheelInv, Running

\* The word at hand has a bit: assert(v != 0).
LEMMA TakeWordWheel == WheelInv /\ TakeWord => WheelInv'
<1> SUFFICES ASSUME WheelInv, TakeWord PROVE WheelInv'
  OBVIOUS
<1> DEFINE taken == {fd \in vec[base_idx] : Word(fd) = First(vv)}
<1>1. /\ UNCHANGED <<clock, now, base_idx, base_time, active, timeout_idx, vec, vec_of_vec, due>>
      /\ UNCHANGED <<vv, firing>>
      /\ phase = "words" /\ phase' = "bits" /\ vv # {} /\ v' = taken
      /\ proc' = IF v' = {} THEN "v != 0" ELSE proc
  BY DEF TakeWord, loop, wheel
<1>2. base_idx \in Slots /\ vec[base_idx] \in SUBSET FD /\ vv \in SUBSET Nat
  BY NumberTypes, ScanTypes DEF WheelInv
<1>3. /\ base_time + Resolution <= now
      /\ vv = {Word(fd) : fd \in vec[base_idx]} /\ vv \subseteq vec_of_vec[base_idx]
      /\ \A fd \in FD : timeout_idx[fd] = base_idx => fd \in vec[base_idx]
      /\ \A fd \in vec[base_idx] : timeout_idx[fd] = base_idx
      /\ firing = None
  BY <1>1 DEF WheelInv, ScanExact, Scanning, WordInScan
<1>4. v' # {}
  <2>1. First(vv) \in vv
    BY <1>1, <1>2, FirstMember
  <2>2. PICK fd \in vec[base_idx] : Word(fd) = First(vv)
    BY <1>3, <2>1
  <2> QED
    BY <1>1, <2>2
<1>5. proc' = proc
  BY <1>1, <1>4
<1>6. TypeOK'
  BY <1>1, <1>2, <1>5 DEF WheelInv, TypeOK
<1>7. WheelExact' /\ ArmedAndDue'
  BY <1>1 DEF WheelInv, WheelExact, Held, Scanning, Exact, ArmedAndDue
<1>8. v' = {fd \in vec[base_idx] : Word(fd) = First(vv) /\ timeout_idx[fd] = base_idx}
  BY <1>1, <1>3
<1>9. ScanExact'
  BY <1>1, <1>3, <1>8 DEF ScanExact, Scanning, WordInScan
<1> QED
  BY <1>5, <1>6, <1>7, <1>9 DEF WheelInv, Running

\* The descriptor that fires is in the loop: assert(fd->loop_id == loop->loop_id).
LEMMA FireWheel ==
  ASSUME WheelInv, NEW fd \in FD, Fire(fd)
  PROVE  WheelInv'
<1>1. /\ UNCHANGED <<clock, now, base_idx, base_time, active, vec, vec_of_vec, vv>>
      /\ phase = "bits" /\ v # {} /\ fd = First(v)
  BY DEF Fire, loop
<1>2. /\ base_idx \in Slots /\ vec[base_idx] \in SUBSET FD /\ base_idx # None
      /\ v \in SUBSET Nat /\ timeout_idx \in [FD -> Slots \cup {None}]
      /\ due \in [FD -> Int \cup {None}]
  BY NumberTypes, ScanTypes DEF WheelInv, TypeOK
<1>3. /\ base_time + Resolution <= now
      /\ vv = {Word(g) : g \in vec[base_idx]} /\ vv \subseteq vec_of_vec[base_idx]
      /\ \A g \in FD : timeout_idx[g] = base_idx => g \in vec[base_idx]
      /\ \A g \in vec[base_idx] : timeout_idx[g] = base_idx \/ Word(g) = First(vv)
      /\ vv # {}
      /\ v = {g \in vec[base_idx] : Word(g) = First(vv) /\ timeout_idx[g] = base_idx}
  BY <1>1 DEF WheelInv, ScanExact, Scanning, WordInScan
<1>4. fd \in v /\ timeout_idx[fd] = base_idx /\ Word(fd) = First(vv)
  BY <1>1, <1>2, <1>3, FirstMember
<1>5. fd \in active
  BY <1>2, <1>4 DEF WheelInv, ArmedAndDue
<1>6. /\ timeout_idx' = [timeout_idx EXCEPT ![fd] = None]
      /\ due' = [due EXCEPT ![fd] = None]
      /\ firing' = fd /\ phase' = "callback" /\ v' = v \ {fd} /\ proc' = proc
  BY <1>5 DEF Fire
<1>7. /\ timeout_idx'[fd] = None /\ due'[fd] = None
      /\ \A g \in FD : g # fd => timeout_idx'[g] = timeout_idx[g] /\ due'[g] = due[g]
  BY <1>2, <1>6
<1>8. TypeOK'
  BY <1>1, <1>2, <1>6 DEF WheelInv, TypeOK
<1>9. WheelExact'
  <2> SUFFICES ASSUME NEW i \in Slots, i # base_idx PROVE Exact(i)'
    BY <1>1, <1>6 DEF WheelExact, Held, Scanning
  <2>1. Exact(i) /\ i # None
    BY WheelAssumption DEF WheelInv, WheelExact, Held, Slots
  <2> QED
    BY <1>1, <1>4, <1>7, <2>1 DEF Exact
<1>10. ArmedAndDue'
  BY <1>1, <1>7 DEF WheelInv, ArmedAndDue
<1>11. v' = {g \in vec[base_idx] : Word(g) = First(vv) /\ timeout_idx'[g] = base_idx}
  BY <1>2, <1>3, <1>6, <1>7
<1>12. /\ \A g \in FD : timeout_idx'[g] = base_idx => g \in vec[base_idx]
       /\ \A g \in vec[base_idx] : timeout_idx'[g] = base_idx \/ Word(g) = First(vv)
  BY <1>2, <1>3, <1>4, <1>7
<1>13. ScanExact'
  BY <1>1, <1>2, <1>3, <1>4, <1>6, <1>7, <1>11, <1>12 DEF ScanExact, Scanning, WordInScan
<1> QED
  BY <1>6, <1>8, <1>9, <1>10, <1>13 DEF WheelInv, Running

LEMMA ReturnWheel == WheelInv /\ CallbackReturns => WheelInv'
<1> SUFFICES ASSUME WheelInv, CallbackReturns PROVE WheelInv'
  OBVIOUS
<1>1. /\ UNCHANGED <<clock, now, base_idx, base_time, active, timeout_idx, vec, vec_of_vec, due>>
      /\ UNCHANGED <<vv, v, proc>> /\ phase = "callback" /\ phase' = "bits" /\ firing' = None
  BY DEF CallbackReturns, loop, wheel
<1>2. TypeOK'
  BY <1>1 DEF WheelInv, TypeOK
<1>3. WheelExact' /\ ArmedAndDue'
  BY <1>1 DEF WheelInv, WheelExact, Held, Scanning, Exact, ArmedAndDue
<1>4. ScanExact'
  BY <1>1 DEF WheelInv, ScanExact, Scanning, WordInScan
<1> QED
  BY <1>1, <1>2, <1>3, <1>4 DEF WheelInv, Running

\* A word is zeroed when none of its descriptors is armed in the slot.
LEMMA WordDoneWheel == WheelInv /\ WordDone => WheelInv'
<1> SUFFICES ASSUME WheelInv, WordDone PROVE WheelInv'
  OBVIOUS
<1>1. /\ UNCHANGED <<clock, now, base_idx, base_time, active, timeout_idx, vec_of_vec, due>>
      /\ UNCHANGED <<v, firing, proc>>
      /\ phase = "bits" /\ phase' = "words" /\ v = {}
      /\ vec' = [vec EXCEPT ![base_idx] = {fd \in @ : Word(fd) # First(vv)}]
      /\ vv' = vv \ {First(vv)}
  BY DEF WordDone, loop
<1>2. /\ base_idx \in Slots /\ vec \in [Slots -> SUBSET FD] /\ vec[base_idx] \subseteq FD
  BY NumberTypes DEF WheelInv, TypeOK
<1>3. /\ vec'[base_idx] = {fd \in vec[base_idx] : Word(fd) # First(vv)}
      /\ \A i \in Slots : i # base_idx => vec'[i] = vec[i]
      /\ vec' \in [Slots -> SUBSET FD]
  BY <1>1, <1>2
<1>4. /\ base_time + Resolution <= now
      /\ vv = {Word(g) : g \in vec[base_idx]} /\ vv \subseteq vec_of_vec[base_idx]
      /\ \A g \in FD : timeout_idx[g] = base_idx => g \in vec[base_idx]
      /\ \A g \in vec[base_idx] : timeout_idx[g] = base_idx \/ Word(g) = First(vv)
      /\ v = {g \in vec[base_idx] : Word(g) = First(vv) /\ timeout_idx[g] = base_idx}
      /\ firing = None
  BY <1>1 DEF WheelInv, ScanExact, Scanning, WordInScan
<1>5. TypeOK'
  BY <1>1, <1>3 DEF WheelInv, TypeOK
<1>6. WheelExact' /\ ArmedAndDue'
  BY <1>1, <1>3 DEF WheelInv, WheelExact, Held, Scanning, Exact, ArmedAndDue
<1>7. /\ vv' = {Word(g) : g \in vec'[base_idx]} /\ vv' \subseteq vec_of_vec[base_idx]
      /\ \A g \in FD : timeout_idx[g] = base_idx => g \in vec'[base_idx]
      /\ \A g \in vec'[base_idx] : timeout_idx[g] = base_idx
  <2>1. vv' = {Word(g) : g \in vec'[base_idx]}
    BY <1>1, <1>3, <1>4
  <2>2. \A g \in vec[base_idx] : timeout_idx[g] = base_idx => Word(g) # First(vv)
    BY <1>1, <1>4
  <2> QED
    BY <1>1, <1>3, <1>4, <2>1, <2>2
<1>8. ScanExact'
  BY <1>1, <1>4, <1>7 DEF ScanExact, Scanning
<1> QED
  BY <1>1, <1>5, <1>6, <1>8 DEF WheelInv, Running

\* The wheel turns past a slot that no timeout is in.
LEMMA SlotDoneWheel == WheelInv /\ SlotDone => WheelInv'
<1> SUFFICES ASSUME WheelInv, SlotDone PROVE WheelInv'
  OBVIOUS
<1>1. /\ UNCHANGED <<clock, now, active, timeout_idx, vec, due, vv, v, firing, proc>>
      /\ phase = "words" /\ vv = {} /\ phase' = "slots"
      /\ vec_of_vec' = [vec_of_vec EXCEPT ![base_idx] = {}]
      /\ base_idx' = (base_idx + 1) % TimeoutVecSize
      /\ base_time' = base_time + Resolution
  BY DEF SlotDone, scan
<1>2. /\ base_idx \in Slots /\ vec_of_vec \in [Slots -> SUBSET (0..(ShortBits - 1))]
      /\ vec[base_idx] \in SUBSET FD
      /\ base_time \in Nat /\ now \in Nat /\ now <= MaxTime
  BY NumberTypes, ScanTypes DEF WheelInv, TypeOK
<1>10. MaxTime \in Nat /\ Resolution \in Nat /\ TimeoutVecSize \in Nat \ {0}
  BY ResolutionType, WheelAssumption
<1>3. /\ base_time + Resolution <= now
      /\ vv = {Word(g) : g \in vec[base_idx]}
      /\ \A g \in FD : timeout_idx[g] = base_idx => g \in vec[base_idx]
      /\ firing = None
  BY <1>1 DEF WheelInv, ScanExact, Scanning
<1>4. vec[base_idx] = {} /\ \A g \in FD : timeout_idx[g] # base_idx
  BY <1>1, <1>3
<1>5. /\ vec_of_vec' \in [Slots -> SUBSET (0..(ShortBits - 1))]
      /\ vec_of_vec'[base_idx] = {}
      /\ \A i \in Slots : i # base_idx => vec_of_vec'[i] = vec_of_vec[i]
  BY <1>1, <1>2
<1>6. base_idx' \in Slots /\ base_time' \in 0..MaxTime
  BY <1>1, <1>2, <1>3, <1>10 DEF Slots
<1>7. TypeOK'
  BY <1>1, <1>5, <1>6 DEF WheelInv, TypeOK
<1>8. ASSUME NEW i \in Slots PROVE Exact(i)'
  <2>1. CASE i = base_idx
    BY <1>1, <1>4, <1>5, <2>1 DEF Exact
  <2>2. CASE i # base_idx
    BY <1>1, <1>5, <2>2 DEF WheelInv, WheelExact, Held, Exact
  <2> QED
    BY <2>1, <2>2
<1>9. WheelExact' /\ ArmedAndDue' /\ ScanExact'
  BY <1>1, <1>3, <1>8 DEF WheelInv, WheelExact, ArmedAndDue, ScanExact, Scanning
<1> QED
  BY <1>1, <1>7, <1>9 DEF WheelInv, Running


LEMMA WheelStep ==
  ASSUME OwnOnly, SlotsToSpare, WheelInv, [Next]_vars
  PROVE  WheelInv'
<1>1. CASE Application
  BY <1>1, ApplicationCalls, CallbackWheel DEF WheelInv
<1>2. CASE HandleTimeout
  BY <1>2, OpenSlotWheel, TakeWordWheel, ReturnWheel, WordDoneWheel, SlotDoneWheel, QuietWheel,
     FireWheel DEF HandleTimeout
<1>3. CASE Tick \/ LoopOnce \/ Polled \/ PollFails \/ UNCHANGED vars
  BY <1>3, QuietWheel
<1> QED
  BY <1>1, <1>2, <1>3 DEF Next

\* While callbacks keep to their own descriptor, every slot of the wheel has the bits
\* of its timeouts and no others, and the copies of the scan cover what is left of its
\* slot (picoev_handle_timeout_internal).
THEOREM WheelSafe ==
  ASSUME OwnOnly, SlotsToSpare
  PROVE  Spec => []WheelInv
<1>1. Init => WheelInv
  BY InitWheel
<1>2. WheelInv /\ [Next]_vars => WheelInv'
  BY WheelStep
<1> QED
  BY <1>1, <1>2, PTL DEF Spec

\* No bit is left behind for a timeout that was fired, moved or deleted, but in what
\* the scan is about to zero, as long as a timeout callback touches no descriptor but
\* its own (picoev.h, picoev_set_timeout and picoev_handle_timeout_internal).
THEOREM NoBitStays ==
  ASSUME OwnOnly, SlotsToSpare
  PROVE  Spec => []NoBitLeftBehind
<1>1. WheelInv => NoBitLeftBehind
  <2> SUFFICES ASSUME WheelInv, NEW i \in Slots
               PROVE  /\ \A fd \in vec[i] : timeout_idx[fd] = i \/ (i = base_idx /\ WordInScan(fd))
                      /\ \A w \in vec_of_vec[i] : (\E fd \in vec[i] : Word(fd) = w)
                                                  \/ (i = base_idx /\ Scanning)
    BY DEF NoBitLeftBehind
  <2>1. CASE Held(i)
    BY <2>1 DEF WheelInv, Held, ScanExact
  <2>2. CASE Exact(i)
    BY <2>2 DEF Exact
  <2> QED
    BY <2>1, <2>2 DEF WheelInv, WheelExact
<1> QED
  BY <1>1, WheelSafe, PTL

\* The copies of the scan never outlive the wheel: neither assertion of
\* picoev_handle_timeout_internal fails, as long as a timeout callback touches no
\* descriptor but its own.
THEOREM ScanCopiesHold ==
  ASSUME OwnOnly, SlotsToSpare
  PROVE  Spec => []AssertionsHold
<1>1. WheelInv => AssertionsHold
  BY DEF WheelInv, AssertionsHold
<1> QED
  BY <1>1, WheelSafe, PTL

-----------------------------------------------------------------------------
(* No timeout is lost, whatever the callbacks do to other descriptors: they *)
(* can disarm what the scan has copied, and never arm in its slot.          *)

ScanCovers ==
  /\ Scanning =>
       /\ base_time + Resolution <= now
       /\ \A fd \in FD : timeout_idx[fd] = base_idx => Word(fd) \in vv
  /\ phase \in {"bits", "callback"} =>
       \A fd \in FD : timeout_idx[fd] = base_idx /\ Word(fd) = First(vv) => fd \in v

ArmedInv == TypeOK /\ ArmedHasBits /\ ScanCovers

LEMMA InitArmed == Init => ArmedInv
BY InitWheel DEF WheelInv, ArmedInv, ArmedHasBits, ScanCovers, Scanning, Init

LEMMA CallbackArmed ==
  ASSUME ArmedInv, SlotsToSpare, NEW fd \in FD, Called(fd)
  PROVE  ArmedInv'
<1>1. TypeOK /\ Moved(fd) /\ PicoevSetTimeout(fd)
  BY SetTimeoutMoves DEF Called, ArmedInv
<1>2. /\ UNCHANGED <<clock, now, base_idx, base_time, phase, vv, v, firing, proc>>
      /\ active' \subseteq FD /\ active \ {fd} \subseteq active'
      /\ (timeout_idx'[fd] # None => fd \in active')
  BY DEF Called, loop, scan
<1>3. TypeOK'
  BY <1>1, <1>2 DEF TypeOK, Moved, Slots
<1>4. /\ base_idx \in Slots /\ base_time \in Nat /\ now \in Nat
      /\ timeout_idx \in [FD -> Slots \cup {None}]
      /\ vec \in [Slots -> SUBSET FD]
      /\ vec_of_vec \in [Slots -> SUBSET (0..(ShortBits - 1))]
  BY <1>1, NumberTypes DEF TypeOK
<1>5. ASSUME NEW secs \in Secs
      PROVE  SlotFor(secs) \in Slots /\ SlotFor(secs) # None /\ now + secs # None
  <2>1. SlotFor(secs) \in Slots
    BY <1>4, SlotForType
  <2> QED
    BY <1>4, <2>1, WheelAssumption DEF Slots
\* The bits of the other descriptors stay, and fd gets those of its slot.
<1>6. ASSUME NEW g \in FD, timeout_idx'[g] # None
      PROVE  g \in vec'[timeout_idx'[g]] /\ Word(g) \in vec_of_vec'[timeout_idx'[g]]
  <2> DEFINE i == timeout_idx'[g]
  <2>1. i \in Slots
    BY <1>1, <1>6 DEF Moved
  <2>2. CASE g # fd
    <3>1. /\ timeout_idx[g] = i /\ g \in vec[i] /\ Word(g) \in vec_of_vec[i]
      BY <1>1, <1>6, <2>2 DEF Moved, ArmedInv, ArmedHasBits
    <3>2. g \in Cleared(fd)[i] /\ Word(g) \in ClearedWords(fd)[i]
      BY <2>1, <2>2, <3>1 DEF Cleared, ClearedWords
    <3>3. /\ Cleared(fd) \in [Slots -> SUBSET FD]
          /\ ClearedWords(fd) \in [Slots -> SUBSET (0..(ShortBits - 1))]
      BY <1>1, ClearedBits
    <3> HIDE DEF i
    <3>4. CASE ClearTimeout(fd)
      BY <3>2, <3>4 DEF ClearTimeout, i
    <3>5. ASSUME NEW secs \in Secs, SetTimeout(fd, secs)
          PROVE  g \in vec'[i] /\ Word(g) \in vec_of_vec'[i]
      BY <1>5, <2>1, <3>2, <3>3, <3>5 DEF SetTimeout
    <3> QED
      BY <1>1, <3>4, <3>5 DEF PicoevSetTimeout, i
  <2>3. CASE g = fd
    <3>1. PICK secs \in Secs : SetTimeout(fd, secs)
      BY <1>1, <1>4, <1>6, <2>3 DEF PicoevSetTimeout, ClearTimeout
    <3>2. i = SlotFor(secs)
      BY <1>4, <2>3, <3>1 DEF SetTimeout
    <3>3. /\ Cleared(fd) \in [Slots -> SUBSET FD]
          /\ ClearedWords(fd) \in [Slots -> SUBSET (0..(ShortBits - 1))]
      BY <1>1, ClearedBits
    <3> QED
      BY <1>5, <2>3, <3>1, <3>2, <3>3 DEF SetTimeout
  <2> QED
    BY <2>2, <2>3
<1>7. ArmedHasBits'
  <2> SUFFICES ASSUME NEW g \in FD, timeout_idx'[g] # None
               PROVE  g \in active' /\ due'[g] # None
    BY <1>6 DEF ArmedHasBits
  <2>1. CASE g # fd
    BY <1>1, <1>2, <2>1 DEF Moved, ArmedInv, ArmedHasBits
  <2>2. CASE g = fd
    BY <1>1, <1>2, <1>5, <2>2 DEF Moved
  <2> QED
    BY <2>1, <2>2
<1>8. ScanCovers'
  <2>1. ASSUME Scanning, NEW g \in FD, timeout_idx'[g] = base_idx
        PROVE  timeout_idx[g] = base_idx
    <3>1. \A secs \in Secs : SlotFor(secs) # base_idx
      BY <1>4, <2>1, SlotForType DEF ArmedInv, ScanCovers
    <3>2. base_idx # None
      BY <1>1, ScanTypes
    <3> QED
      BY <1>1, <2>1, <3>1, <3>2 DEF Moved
  <2> QED
    BY <1>2, <2>1 DEF ArmedInv, ScanCovers, Scanning
<1> QED
  BY <1>3, <1>7, <1>8 DEF ArmedInv

\* The scan itself.
LEMMA ScanArmed ==
  ASSUME ArmedInv, HandleTimeout
  PROVE  ArmedInv'
<1>1. /\ TypeOK /\ base_idx \in Slots /\ base_time \in Nat /\ now \in Nat /\ now <= MaxTime
      /\ base_idx # None /\ vec[base_idx] \in SUBSET FD /\ v \in SUBSET Nat
  BY NumberTypes, ScanTypes DEF ArmedInv
<1>2. MaxTime \in Nat /\ Resolution \in Nat /\ TimeoutVecSize \in Nat \ {0}
  BY ResolutionType, WheelAssumption
<1>3. CASE OpenSlot
  <2>1. base_time + Resolution <= now
    BY <1>1, <1>2, <1>3 DEF OpenSlot, SlotPassed
  <2>2. TypeOK'
    BY <1>1, <1>3 DEF TypeOK, OpenSlot, loop, wheel
  <2>3. ArmedHasBits'
    BY <1>3 DEF ArmedInv, ArmedHasBits, OpenSlot, wheel
  <2>4. \A g \in FD : timeout_idx[g] = base_idx => Word(g) \in vec_of_vec[base_idx]
    BY <1>1 DEF ArmedInv, ArmedHasBits
  <2>5. ScanCovers'
    BY <1>3, <2>1, <2>4 DEF ScanCovers, Scanning, OpenSlot, loop, wheel
  <2> QED
    BY <2>2, <2>3, <2>5 DEF ArmedInv
<1>4. CASE TakeWord
  <2>1. v' \subseteq FD /\ proc' \in {"v != 0", proc}
    BY <1>1, <1>4 DEF TakeWord
  <2>2. TypeOK'
    BY <1>4, <2>1 DEF ArmedInv, TypeOK, TakeWord, loop, wheel
  <2>3. ArmedHasBits'
    BY <1>4 DEF ArmedInv, ArmedHasBits, TakeWord, wheel
  <2>4. \A g \in FD : timeout_idx[g] = base_idx /\ Word(g) = First(vv) => g \in v'
    BY <1>1, <1>4 DEF ArmedInv, ArmedHasBits, TakeWord
  <2>5. ScanCovers'
    BY <1>4, <2>4 DEF ArmedInv, ScanCovers, Scanning, TakeWord, loop, wheel
  <2> QED
    BY <2>2, <2>3, <2>5 DEF ArmedInv
<1>5. ASSUME NEW fd \in FD, Fire(fd) PROVE ArmedInv'
  <2>1. /\ UNCHANGED <<clock, now, base_idx, base_time, active, vec, vec_of_vec, vv>>
        /\ phase = "bits" /\ timeout_idx \in [FD -> Slots \cup {None}]
        /\ due \in [FD -> Int \cup {None}]
    BY <1>1, <1>5 DEF Fire, loop, TypeOK
  <2>2. CASE fd \in active
    <3>1. /\ timeout_idx' = [timeout_idx EXCEPT ![fd] = None]
          /\ due' = [due EXCEPT ![fd] = None]
          /\ firing' = fd /\ phase' = "callback" /\ v' = v \ {fd} /\ proc' = proc
      BY <1>5, <2>2 DEF Fire
    <3>2. /\ timeout_idx'[fd] = None
          /\ \A g \in FD : g # fd => timeout_idx'[g] = timeout_idx[g] /\ due'[g] = due[g]
      BY <2>1, <3>1
    <3>3. TypeOK'
      BY <1>1, <2>1, <3>1 DEF TypeOK
    <3>4. ArmedHasBits'
      BY <2>1, <3>2 DEF ArmedInv, ArmedHasBits
    <3>5. ScanCovers'
      BY <1>1, <2>1, <3>1, <3>2 DEF ArmedInv, ScanCovers, Scanning
    <3> QED
      BY <3>3, <3>4, <3>5 DEF ArmedInv
  <2>3. CASE fd \notin active
    <3>1. /\ UNCHANGED <<timeout_idx, due, firing, phase, v>>
          /\ proc' = "fd->loop_id == loop->loop_id"
      BY <1>5, <2>3 DEF Fire
    <3>2. TypeOK'
      BY <1>1, <2>1, <3>1 DEF TypeOK
    <3> QED
      BY <2>1, <3>1, <3>2 DEF ArmedInv, ArmedHasBits, ScanCovers, Scanning
  <2> QED
    BY <2>2, <2>3
<1>6. CASE CallbackReturns
  <2>1. TypeOK'
    BY <1>1, <1>6 DEF TypeOK, CallbackReturns, loop, wheel
  <2> QED
    BY <1>6, <2>1 DEF ArmedInv, ArmedHasBits, ScanCovers, Scanning, CallbackReturns, loop, wheel
<1>7. CASE WordDone
  <2>1. /\ vec' = [vec EXCEPT ![base_idx] = {fd \in @ : Word(fd) # First(vv)}]
        /\ vv' = vv \ {First(vv)} /\ v = {} /\ phase = "bits" /\ phase' = "words"
        /\ UNCHANGED <<clock, now, base_idx, base_time, active, timeout_idx, vec_of_vec, due>>
        /\ UNCHANGED <<v, firing, proc>>
    BY <1>7 DEF WordDone, loop
  <2>2. vec \in [Slots -> SUBSET FD]
    BY <1>1 DEF TypeOK
  <2>3. /\ vec'[base_idx] = {fd \in vec[base_idx] : Word(fd) # First(vv)}
        /\ \A i \in Slots : i # base_idx => vec'[i] = vec[i]
        /\ vec' \in [Slots -> SUBSET FD]
    BY <1>1, <2>1, <2>2
  <2>4. TypeOK'
    BY <1>1, <2>1, <2>3 DEF TypeOK
  <2>5. \A g \in FD : timeout_idx[g] = base_idx => Word(g) # First(vv)
    BY <2>1 DEF ArmedInv, ScanCovers
  <2>6. ArmedHasBits'
    <3> SUFFICES ASSUME NEW g \in FD, timeout_idx[g] # None
                 PROVE  g \in vec'[timeout_idx[g]]
      BY <2>1 DEF ArmedInv, ArmedHasBits
    <3>1. timeout_idx[g] \in Slots
      BY <1>1 DEF TypeOK
    <3> QED
      BY <2>3, <2>5, <3>1 DEF ArmedInv, ArmedHasBits
  <2>7. ScanCovers'
    BY <2>1, <2>5 DEF ArmedInv, ScanCovers, Scanning
  <2> QED
    BY <2>4, <2>6, <2>7 DEF ArmedInv
<1>8. CASE SlotDone
  <2>1. /\ UNCHANGED <<clock, now, active, timeout_idx, vec, due, vv, v, firing, proc>>
        /\ phase = "words" /\ vv = {} /\ phase' = "slots"
        /\ vec_of_vec' = [vec_of_vec EXCEPT ![base_idx] = {}]
        /\ base_idx' = (base_idx + 1) % TimeoutVecSize
        /\ base_time' = base_time + Resolution
    BY <1>8 DEF SlotDone, scan
  <2>2. /\ vec_of_vec \in [Slots -> SUBSET (0..(ShortBits - 1))]
        /\ base_time + Resolution <= now
    BY <1>1, <2>1 DEF TypeOK, ArmedInv, ScanCovers, Scanning
  <2>3. base_idx' \in Slots /\ base_time' \in 0..MaxTime
    BY <1>1, <1>2, <2>1, <2>2 DEF Slots
  <2>4. /\ vec_of_vec' \in [Slots -> SUBSET (0..(ShortBits - 1))]
        /\ \A i \in Slots : i # base_idx => vec_of_vec'[i] = vec_of_vec[i]
    BY <2>1, <2>2
  <2>5. TypeOK'
    BY <1>1, <2>1, <2>3, <2>4 DEF TypeOK
  <2>6. \A g \in FD : timeout_idx[g] # base_idx
    BY <2>1 DEF ArmedInv, ScanCovers, Scanning
  <2>7. ArmedHasBits'
    <3> SUFFICES ASSUME NEW g \in FD, timeout_idx[g] # None
                 PROVE  Word(g) \in vec_of_vec'[timeout_idx[g]]
      BY <2>1 DEF ArmedInv, ArmedHasBits
    <3>1. timeout_idx[g] \in Slots
      BY <1>1 DEF TypeOK
    <3> QED
      BY <2>4, <2>6, <3>1 DEF ArmedInv, ArmedHasBits
  <2>8. ScanCovers'
    BY <2>1 DEF ScanCovers, Scanning
  <2> QED
    BY <2>5, <2>7, <2>8 DEF ArmedInv
<1>9. CASE TimeoutsDone
  <2>1. TypeOK'
    BY <1>1, <1>9 DEF TypeOK, TimeoutsDone, loop, wheel, scan
  <2> QED
    BY <1>9, <2>1 DEF ArmedInv, ArmedHasBits, ScanCovers, Scanning, TimeoutsDone, loop, wheel, scan
<1> QED
  BY <1>3, <1>4, <1>5, <1>6, <1>7, <1>8, <1>9 DEF HandleTimeout


LEMMA QuietArmed ==
  ASSUME ArmedInv, Tick \/ LoopOnce \/ Polled \/ PollFails \/ UNCHANGED vars
  PROVE  ArmedInv'
<1>1. /\ UNCHANGED <<base_idx, base_time, active, timeout_idx, vec, vec_of_vec, due>>
      /\ UNCHANGED <<vv, v, firing, proc>>
      /\ phase' = phase \/ phase \notin {"words", "bits", "callback"}
      /\ phase' = phase \/ phase' \notin {"words", "bits", "callback"}
      /\ phase \in {"words", "bits", "callback"} => now' = now
  BY DEF Tick, LoopOnce, Polled, PollFails, vars, loop, wheel, scan
<1>2. clock' \in 0..MaxTime
  <2>1. clock \in 0..MaxTime /\ MaxTime \in Nat
    BY WheelAssumption DEF ArmedInv, TypeOK
  <2> QED
    BY <2>1 DEF Tick, LoopOnce, Polled, PollFails, vars, loop
<1>3. /\ now' \in 0..MaxTime
      /\ phase' \in {"idle", "poll", "slots", "words", "bits", "callback"}
  BY DEF Tick, LoopOnce, Polled, PollFails, vars, loop, ArmedInv, TypeOK
<1>4. TypeOK'
  BY <1>1, <1>2, <1>3 DEF ArmedInv, TypeOK
<1> QED
  BY <1>1, <1>4 DEF ArmedInv, ArmedHasBits, ScanCovers, Scanning

\* Whatever the callbacks do, the armed timeouts keep their bits, those of the slot
\* being scanned also in the copies (picoev_set_timeout).
THEOREM ArmedSafe ==
  ASSUME SlotsToSpare
  PROVE  Spec => []ArmedInv
<1>1. Init => ArmedInv
  BY InitArmed
<1>2. ArmedInv /\ [Next]_vars => ArmedInv'
  <2> SUFFICES ASSUME ArmedInv, [Next]_vars PROVE ArmedInv'
    OBVIOUS
  <2>1. CASE Application
    BY <2>1, ApplicationCalls, CallbackArmed DEF ArmedInv
  <2> QED
    BY <2>1, ScanArmed, QuietArmed DEF Next
<1> QED
  BY <1>1, <1>2, PTL DEF Spec

\* The wheel keeps its types: base_time never passes now, and the indices of picoev.h
\* stay in their arrays.
THEOREM WheelTypeCorrect ==
  ASSUME SlotsToSpare
  PROVE  Spec => []TypeOK
<1>1. ArmedInv => TypeOK
  BY DEF ArmedInv
<1> QED
  BY <1>1, ArmedSafe, PTL

\* No timeout is lost: an armed one has its bit in vec and that of its word in
\* vec_of_vec, whatever the callbacks add, delete and rearm.
THEOREM NoTimeoutLost ==
  ASSUME SlotsToSpare
  PROVE  Spec => []ArmedHasBits
<1>1. ArmedInv => ArmedHasBits
  BY DEF ArmedInv
<1> QED
  BY <1>1, ArmedSafe, PTL

-----------------------------------------------------------------------------
(* The wheel implements Deadlines. *)

\* SetTimeout puts a timeout in the slot of the seconds it is due in.
LEMMA SlotOfDue ==
  ASSUME LagFits, base_time \in Nat, now \in Nat, base_time <= now,
         now <= base_time + MaxLag, NEW secs \in Secs
  PROVE  /\ base_time + Delta(secs) * Resolution <= now + secs
         /\ now + secs <= base_time + Delta(secs) * Resolution + Resolution
         /\ LagSpare => now + secs < base_time + Delta(secs) * Resolution + Resolution
<1> DEFINE R == Resolution
           T == TimeoutVecSize
           ahead == now + secs - base_time
           q == ahead \div R
           r == ahead % R
<1>1. /\ T \in Nat \ {0} /\ secs \in Nat \ {0} /\ MaxLag \in Nat
  BY WheelAssumption
<1>2. /\ R \in Nat \ {0} /\ ahead \in Nat /\ ahead <= T * R
      /\ LagSpare => ahead < T * R
  <2>1. R \in Nat \ {0}
    BY ResolutionType
  <2>2. MaxLag + secs <= T * R /\ (LagSpare => MaxLag + secs < T * R)
    BY DEF LagFits, LagSpare
  <2> HIDE DEF R, T
  <2> QED
    BY <1>1, <2>1, <2>2
<1>3. q \in Int /\ r \in 0..(R - 1) /\ ahead = R * q + r
  <2> HIDE DEF R, ahead
  <2> QED
    BY <1>2
<1>4. Delta(secs) = IF q >= T THEN T - 1 ELSE q
  BY <1>1, <1>2 DEF Delta
<1>5. now + secs = base_time + ahead
  BY <1>1
<1> HIDE DEF q, r, R, T, ahead
<1>6. CASE q < T
  <2>1. Delta(secs) * R = R * q
    BY <1>1, <1>2, <1>3, <1>4, <1>6
  <2> QED
    BY <1>2, <1>3, <1>5, <2>1 DEF R
<1>7. CASE q >= T
  <2>1. Delta(secs) * R = T * R - R
    BY <1>1, <1>2, <1>3, <1>4, <1>7
  <2>2. R * q >= R * T
    BY <1>1, <1>2, <1>3, <1>7
  <2>3. ahead >= T * R
    BY <1>1, <1>2, <1>3, <2>2
  <2> QED
    BY <1>1, <1>2, <1>5, <2>1, <2>3 DEF R
<1> QED
  BY <1>1, <1>3, <1>6, <1>7


LEMMA InitDeadline == Init => DeadlineInv
BY WheelAssumption DEF Init, DeadlineInv, Clocks, DueInSlot

\* The clock may run ahead of the wheel by MaxLag, and the wheel never ahead of the loop.
LEMMA ClocksStep ==
  ASSUME WheelInv, Clocks, [Next]_vars
  PROVE  Clocks'
<1>1. /\ base_time \in Nat /\ now \in Nat /\ clock \in Nat /\ MaxLag \in Nat
      /\ Resolution \in Nat
  BY NumberTypes, ResolutionType, WheelAssumption DEF WheelInv
<1>2. base_time <= now /\ now <= clock /\ clock <= base_time + MaxLag
  BY DEF Clocks
<1>3. CASE Tick
  <2>1. /\ clock - base_time < MaxLag /\ clock' = clock + 1
        /\ now' = now /\ base_time' = base_time
    BY <1>3 DEF Tick, loop
  <2> QED
    BY <1>1, <1>2, <2>1 DEF Clocks
<1>4. CASE LoopOnce \/ Polled \/ PollFails
  <2>1. now' = clock /\ clock' = clock /\ base_time' = base_time
    BY <1>4 DEF LoopOnce, Polled, PollFails
  <2> QED
    BY <1>1, <1>2, <2>1 DEF Clocks
<1>5. CASE SlotDone
  <2>1. /\ base_time' = base_time + Resolution /\ now' = now /\ clock' = clock
        /\ base_time + Resolution <= now
    BY <1>5 DEF SlotDone, WheelInv, ScanExact, Scanning
  <2> QED
    BY <1>1, <1>2, <2>1 DEF Clocks
<1>6. CASE UNCHANGED <<clock, loop>>
  BY <1>2, <1>6 DEF Clocks, loop
<1>7. CASE Application
  BY <1>6, <1>7 DEF Application, Rearm, Add, Del
<1>8. CASE HandleTimeout
  BY <1>5, <1>6, <1>8
     DEF HandleTimeout, OpenSlot, TakeWord, Fire, CallbackReturns, WordDone, TimeoutsDone
<1> QED
  BY <1>3, <1>4, <1>6, <1>7, <1>8 DEF Next, vars

\* A timeout stays in the slot of the seconds it is due in while the wheel turns.
LEMMA DueStep ==
  ASSUME LagFits, WheelInv, DeadlineInv, [Next]_vars
  PROVE  DueInSlot'
<1> DEFINE In(d, idx, time, b, t) ==
             /\ idx = (b + d) % TimeoutVecSize
             /\ t + d * Resolution <= time /\ time <= t + d * Resolution + Resolution
             /\ LagSpare => time < t + d * Resolution + Resolution
<1>1. /\ TypeOK /\ base_idx \in Slots /\ base_time \in Nat /\ now \in Nat /\ clock \in Nat
      /\ timeout_idx \in [FD -> Slots \cup {None}] /\ due \in [FD -> Int \cup {None}]
  BY NumberTypes DEF WheelInv, TypeOK
<1>2. TimeoutVecSize \in Nat \ {0} /\ Resolution \in Nat \ {0} /\ MaxLag \in Nat
  BY WheelAssumption, ResolutionType
<1>3. base_time <= now /\ now <= clock /\ clock <= base_time + MaxLag
  BY DEF DeadlineInv, Clocks
<1>4. \A fd \in FD : timeout_idx[fd] # None =>
        \E d \in 0..(TimeoutVecSize - 1) : In(d, timeout_idx[fd], due[fd], base_idx, base_time)
  BY DEF DeadlineInv, DueInSlot
<1>5. ASSUME UNCHANGED <<base_idx, base_time>>,
             \A fd \in FD : timeout_idx'[fd] # None =>
               timeout_idx'[fd] = timeout_idx[fd] /\ due'[fd] = due[fd]
      PROVE  DueInSlot'
  BY <1>4, <1>5 DEF DueInSlot
<1>6. CASE Application
  <2>1. PICK fd \in FD : Called(fd)
    BY <1>1, <1>6, ApplicationCalls
  <2>2. Moved(fd) /\ UNCHANGED <<base_idx, base_time>>
    BY <1>1, <2>1, SetTimeoutMoves DEF Called, loop
  <2> SUFFICES ASSUME NEW g \in FD, timeout_idx'[g] # None
               PROVE  \E d \in 0..(TimeoutVecSize - 1) :
                        In(d, timeout_idx'[g], due'[g], base_idx, base_time)
    BY <2>2 DEF DueInSlot
  <2>3. CASE g # fd
    BY <1>4, <2>2, <2>3 DEF Moved
  <2>4. CASE g = fd
    <3>1. PICK secs \in Secs : timeout_idx'[fd] = SlotFor(secs) /\ due'[fd] = now + secs
      BY <2>2, <2>4 DEF Moved
    <3>2. Delta(secs) \in 0..(TimeoutVecSize - 1)
      BY <1>1, DeltaType
    <3>3. now <= base_time + MaxLag
      BY <1>1, <1>2, <1>3
    <3>4. In(Delta(secs), timeout_idx'[g], due'[g], base_idx, base_time)
      BY <1>1, <1>3, <2>4, <3>1, <3>3, SlotOfDue DEF SlotFor
    <3> HIDE DEF In
    <3> QED
      BY <3>2, <3>4
  <2> QED
    BY <2>3, <2>4
<1>7. ASSUME NEW fd \in FD, Fire(fd) PROVE DueInSlot'
  BY <1>1, <1>5, <1>7 DEF Fire, loop
<1>8. CASE SlotDone
  <2>1. /\ UNCHANGED <<timeout_idx, due>>
        /\ base_idx' = (base_idx + 1) % TimeoutVecSize
        /\ base_time' = base_time + Resolution
        /\ \A g \in FD : timeout_idx[g] # base_idx
    BY <1>8 DEF SlotDone, WheelInv, ScanExact, Scanning
  <2>2. /\ base_idx \in 0..(TimeoutVecSize - 1)
        /\ base_idx' \in Slots
        /\ base_idx' = IF base_idx + 1 < TimeoutVecSize THEN base_idx + 1 ELSE 0
    BY <1>1, <1>2, <2>1 DEF Slots
  <2> SUFFICES ASSUME NEW g \in FD, timeout_idx[g] # None
               PROVE  \E d \in 0..(TimeoutVecSize - 1) :
                        In(d, timeout_idx[g], due[g], base_idx', base_time')
    BY <2>1 DEF DueInSlot
  <2>3. PICK d \in 0..(TimeoutVecSize - 1) : In(d, timeout_idx[g], due[g], base_idx, base_time)
    BY <1>4
  <2>4. timeout_idx[g] = IF base_idx + d < TimeoutVecSize
                         THEN base_idx + d ELSE base_idx + d - TimeoutVecSize
    BY <1>1, <2>3, ModSum
  <2>5. d > 0 /\ d - 1 \in 0..(TimeoutVecSize - 1)
    BY <1>2, <2>1, <2>2, <2>3, <2>4
  <2>6. (base_idx' + (d - 1)) % TimeoutVecSize
          = IF base_idx' + (d - 1) < TimeoutVecSize
            THEN base_idx' + (d - 1) ELSE base_idx' + (d - 1) - TimeoutVecSize
    BY <2>2, <2>5, ModSum
  <2>7. timeout_idx[g] = (base_idx' + (d - 1)) % TimeoutVecSize
    BY <1>2, <2>2, <2>4, <2>5, <2>6
  <2>8. base_time' + (d - 1) * Resolution = base_time + d * Resolution
    BY <1>1, <1>2, <2>1, <2>5
  <2>9. In(d - 1, timeout_idx[g], due[g], base_idx', base_time')
    BY <2>3, <2>7, <2>8
  <2> HIDE DEF In
  <2> QED
    BY <2>5, <2>9
<1>9. CASE UNCHANGED <<base_idx, base_time, timeout_idx, due>>
  BY <1>5, <1>9
<1>10. CASE HandleTimeout
  BY <1>7, <1>8, <1>9, <1>10
     DEF HandleTimeout, OpenSlot, TakeWord, CallbackReturns, WordDone, TimeoutsDone, loop, wheel
<1> QED
  BY <1>6, <1>9, <1>10 DEF Next, Tick, LoopOnce, Polled, PollFails, vars, loop, wheel

\* A timeout that fires is due.
LEMMA FireIsDue ==
  ASSUME WheelInv, DeadlineInv, NEW fd \in FD, Fire(fd)
  PROVE  /\ timeout_idx[fd] # None /\ fd \in active
         /\ due[fd] # None /\ due[fd] <= now /\ (LagSpare => due[fd] < now)
         /\ timeout_idx' = [timeout_idx EXCEPT ![fd] = None]
         /\ due' = [due EXCEPT ![fd] = None] /\ firing' = fd /\ phase' = "callback"
<1>1. /\ base_idx \in Slots /\ base_time \in Nat /\ now \in Nat
      /\ due \in [FD -> Int \cup {None}] /\ base_idx # None
  BY NumberTypes, ScanTypes DEF WheelInv, TypeOK
<1>2. Resolution \in Nat \ {0} /\ TimeoutVecSize \in Nat \ {0}
  BY ResolutionType, WheelAssumption
<1>3. phase = "bits" /\ v # {} /\ fd = First(v)
  BY DEF Fire
<1>4. /\ base_time + Resolution <= now
      /\ v = {g \in vec[base_idx] : Word(g) = First(vv) /\ timeout_idx[g] = base_idx}
  BY <1>3 DEF WheelInv, ScanExact, Scanning
<1>5. timeout_idx[fd] = base_idx
  BY <1>3, <1>4, ScanTypes, FirstMember DEF WheelInv
<1>6. fd \in active /\ due[fd] # None
  BY <1>1, <1>5 DEF WheelInv, ArmedAndDue
<1>7. PICK d \in 0..(TimeoutVecSize - 1) :
        /\ base_idx = (base_idx + d) % TimeoutVecSize
        /\ due[fd] <= base_time + d * Resolution + Resolution
        /\ LagSpare => due[fd] < base_time + d * Resolution + Resolution
  BY <1>1, <1>5 DEF DeadlineInv, DueInSlot
<1>8. d = 0
  <2>1. base_idx = IF base_idx + d < TimeoutVecSize
                   THEN base_idx + d ELSE base_idx + d - TimeoutVecSize
    BY <1>1, <1>7, ModSum
  <2>2. base_idx \in 0..(TimeoutVecSize - 1)
    BY <1>1 DEF Slots
  <2> QED
    BY <1>2, <2>1, <2>2
<1>9. due[fd] <= now /\ (LagSpare => due[fd] < now)
  BY <1>1, <1>2, <1>4, <1>6, <1>7, <1>8
<1> QED
  BY <1>1, <1>5, <1>6, <1>9 DEF Fire

\* Every step is one that Deadlines allows, or none of its business.
LEMMA DeadlinesStep ==
  ASSUME WheelInv, DeadlineInv, [Next]_vars
  PROVE  [Timers!Next]_(Timers!vars)
<1> DEFINE resting == phase = "idle"
<1>1. /\ TypeOK /\ base_idx \in Slots /\ base_time \in Nat /\ now \in Nat /\ clock \in Nat
      /\ timeout_idx \in [FD -> Slots \cup {None}] /\ due \in [FD -> Int \cup {None}]
      /\ base_idx # None
  BY NumberTypes, ScanTypes DEF WheelInv, TypeOK
<1>2. Resolution \in Nat \ {0} /\ TimeoutVecSize \in Nat \ {0}
  BY ResolutionType, WheelAssumption
<1>3. phase # "callback" => firing = None
  BY DEF WheelInv, ScanExact
<1>4. CASE UNCHANGED <<now, due, firing, phase>>
  BY <1>4 DEF Timers!vars
<1>5. CASE Application
  <2>1. PICK fd \in FD : Rearm(fd) \/ Add(fd) \/ Del(fd)
    BY <1>5 DEF Application
  <2>2. /\ PicoevSetTimeout(fd) /\ phase # "idle"
        /\ UNCHANGED <<now, firing, phase>>
    BY <2>1 DEF Rearm, Add, Del, InCallback, PicoevSetTimeout, loop, scan
  <2>3. Timers!Clear(fd) \/ \E secs \in Secs : Timers!Set(fd, secs)
    BY <2>2 DEF PicoevSetTimeout, ClearTimeout, SetTimeout, Timers!Clear, Timers!Set
  <2> QED
    BY <2>3 DEF Timers!Next
<1>6. ASSUME NEW fd \in FD, Fire(fd) PROVE Timers!Fire(fd)
  <2>1. phase = "bits" /\ now' = now
    BY <1>6 DEF Fire, loop
  <2> QED
    BY <1>3, <1>6, <2>1, FireIsDue DEF Timers!Fire
<1>7. CASE CallbackReturns
  <2>1. firing # None /\ firing' = None /\ UNCHANGED <<now, due, phase = "idle">>
    <3>1. firing \in FD
      BY <1>1, <1>7 DEF CallbackReturns, WheelInv, ScanExact, TypeOK
    <3>2. firing # None
      BY <3>1, WordType, WheelAssumption
    <3> QED
      BY <1>7, <3>2 DEF CallbackReturns, loop, wheel
  <2> QED
    BY <2>1 DEF Timers!Return, Timers!Next
<1>8. CASE LoopOnce
  BY <1>1, <1>3, <1>8 DEF LoopOnce, wheel, scan, DeadlineInv, Clocks, Timers!Wake, Timers!Next
<1>9. CASE Polled
  BY <1>1, <1>3, <1>9 DEF Polled, wheel, scan, DeadlineInv, Clocks, Timers!Advance, Timers!Next
<1>10. CASE PollFails
  BY <1>1, <1>3, <1>10 DEF PollFails, wheel, scan, DeadlineInv, Clocks, Timers!Advance, Timers!Next
<1>11. CASE TimeoutsDone
  <2>1. /\ phase = "slots" /\ phase' = "idle" /\ UNCHANGED <<now, due, firing>>
        /\ ~ (base_time <= now - Resolution)
    BY <1>11 DEF TimeoutsDone, SlotPassed, loop, wheel, scan
  <2>2. ASSUME NEW fd \in FD, due[fd] # None PROVE now < due[fd] + Resolution
    <3>1. due[fd] \in Int
      BY <1>1, <2>2
    <3>2. PICK d \in 0..(TimeoutVecSize - 1) : base_time + d * Resolution <= due[fd]
      BY <2>2 DEF WheelInv, ArmedAndDue, DeadlineInv, DueInSlot
    <3>3. d * Resolution >= 0
      BY <1>2
    <3> QED
      BY <1>1, <1>2, <2>1, <3>1, <3>2, <3>3
  <2> QED
    BY <1>3, <2>1, <2>2 DEF Timers!Rest, Timers!Next
<1>12. CASE OpenSlot \/ TakeWord \/ WordDone \/ SlotDone
  BY <1>12 DEF OpenSlot, TakeWord, WordDone, SlotDone, loop, wheel, scan, Timers!vars
<1>13. CASE HandleTimeout
  BY <1>6, <1>7, <1>11, <1>12, <1>13 DEF HandleTimeout, Timers!Next
<1>14. CASE Tick
  BY <1>4, <1>14 DEF Tick, loop, wheel, scan
<1> QED
  BY <1>4, <1>5, <1>8, <1>9, <1>10, <1>13, <1>14 DEF Next, vars, loop, wheel, scan

\* No timeout comes early and none is overdue when the loop rests, as long as the
\* wheel is long enough for the timeouts and the lag, and a timeout callback touches
\* no descriptor but its own.
THEOREM WheelKeepsDeadlines ==
  ASSUME OwnOnly, SlotsToSpare, LagFits
  PROVE  Spec => ImplementsDeadlines
<1>1. Init => Timers!Init
  BY DEF Init, Timers!Init
<1>2. Init => DeadlineInv
  BY InitDeadline
<1>3. WheelInv /\ DeadlineInv /\ [Next]_vars => DeadlineInv'
  BY ClocksStep, DueStep DEF DeadlineInv
<1>4. WheelInv /\ DeadlineInv /\ [Next]_vars => [Timers!Next]_(Timers!vars)
  BY DeadlinesStep
<1>5. Spec => []WheelInv
  BY WheelSafe
<1> QED
  BY <1>1, <1>2, <1>3, <1>4, <1>5, PTL DEF Spec, ImplementsDeadlines, Timers!Spec
=============================================================================
