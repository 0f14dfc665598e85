------------------------------ MODULE EchoProofs ------------------------------
(***************************************************************************)
(* What the echo server makes of its timeouts: every connection has one,   *)
(* none is closed too soon or with data that select() has seen, and none   *)
(* stays silent for long; for any descriptors, wheel and timeouts.         *)
(***************************************************************************)
EXTENDS Echo, TimeoutWheelProofs

\* TIMEOUT_SECS is 10 and the resolution of the wheel one second.
WaitFits == TimeoutSecs > Resolution

\* A second may begin during the callbacks after the longest wait.
Fresh == clock <= now + MaxWait + 1

\* select() has returned in the round, and its descriptors are visited in the poll.
Rounds ==
  /\ ready # {} => phase = "poll" /\ selected
  /\ phase \in {"slots", "words", "bits", "callback"} => selected
  /\ phase = "idle" => ~ selected

\* The listening socket stays open, without a timeout, and is not read.
Listening ==
  /\ ListenSock \in open /\ rx[ListenSock] = {}
  /\ timeout_idx[ListenSock] = None /\ firing # ListenSock

\* A timeout is set when a connection's callback is called, from a time that may be a wait old.
DueWhenCalled ==
  \A fd \in FD : timeout_idx[fd] # None =>
    /\ due[fd] <= called[fd] + TimeoutSecs
    /\ called[fd] + TimeoutSecs <= due[fd] + MaxWait + 1

\* What is left to read after the pass of a round came late, or its connection has
\* just had its callback called.
CalledOrLate ==
  selected =>
    \A fd \in active \ {ListenSock} :
      \/ rx[fd] = {} \/ fd \in late \/ fd \in ready \/ firing = fd
      \/ /\ timeout_idx[fd] # None
         /\ IF phase = "poll" THEN due[fd] >= now + TimeoutSecs ELSE due[fd] >= now

\* The connection whose timeout callback runs.
FiringSilent ==
  firing # None /\ firing \in active =>
    /\ called[firing] + TimeoutSecs <= now + MaxWait
    /\ WaitFits => rx[firing] = {} \/ firing \in late

EchoInv ==
  /\ EchoTypeOK /\ EveryConnectionTimed /\ Rounds /\ Listening /\ Fresh
  /\ DueWhenCalled /\ (WaitFits => CalledOrLate) /\ FiringSilent


LEMMA EchoNumbers ==
  ASSUME TypeOK
  PROVE  /\ MaxWait \in Nat /\ MaxWait <= Resolution /\ Resolution \in Nat \ {0}
         /\ TimeoutSecs \in Nat \ {0} /\ now + TimeoutSecs \in Int /\ None \notin Int
         /\ clock \in Nat /\ now \in Nat /\ clock \in 0..MaxTime /\ MaxTime \in Nat
<1>1. Resolution \in Nat \ {0} /\ TimeoutSecs \in Nat \ {0} /\ None \notin Int /\ MaxTime \in Nat
  BY ResolutionType, EchoAssumption, WheelAssumption
<1>2. clock \in Nat /\ now \in Nat
  BY NumberTypes
<1>3. clock \in 0..MaxTime
  BY DEF TypeOK
<1>4. MaxWait \in Nat /\ MaxWait <= Resolution
  BY <1>1 DEF MaxWait
<1> QED
  BY <1>1, <1>2, <1>3, <1>4

-----------------------------------------------------------------------------
(* The wheel inside the server. *)

LEMMA EchoInitWheel == EchoInit => WheelInv /\ DeadlineInv
<1> SUFFICES ASSUME EchoInit PROVE WheelInv /\ DeadlineInv
  OBVIOUS
<1>1. /\ TimeoutVecSize \in Nat \ {0} /\ MaxTime \in Nat /\ MaxLag \in Nat /\ None \notin Int
      /\ ListenSock \in FD
  BY WheelAssumption, EchoAssumption
<1>2. 0 \in Slots /\ 0 \in 0..MaxTime /\ \A i \in Slots : i # None
  BY <1>1 DEF Slots
<1>3. TypeOK
  BY <1>1, <1>2 DEF EchoInit, TypeOK
<1>4. ASSUME NEW i \in Slots PROVE Exact(i)
  BY <1>2 DEF EchoInit, Exact
<1>5. WheelInv
  BY <1>3, <1>4 DEF WheelInv, WheelExact, ArmedAndDue, ScanExact, Scanning, Running, EchoInit
<1>6. DeadlineInv
  BY <1>1 DEF EchoInit, DeadlineInv, Clocks, DueInSlot
<1> QED
  BY <1>5, <1>6

\* What the server does to the wheel is what an application may do.
LEMMA EchoTurnsWheel == [EchoNext]_EchoVars => [Next]_vars
<1> SUFFICES ASSUME [EchoNext]_EchoVars PROVE [Next]_vars
  OBVIOUS
<1>1. CASE Second \/ BeginRound \/ RoundFails \/ PassEnds
  BY <1>1 DEF Second, BeginRound, RoundFails, PassEnds, Next
<1>2. CASE Connect \/ Select \/ AcceptFails \/ UNCHANGED EchoVars
  BY <1>2 DEF Connect, Select, AcceptFails, EchoVars
<1>3. CASE Timeouts
  <2>1. CASE \E fd \in FD : TimedOut(fd)
    BY <2>1 DEF TimedOut, CloseConn, Next, Application
  <2> QED
    BY <1>3, <2>1 DEF Timeouts, RoundEnds, TimeoutReturns, Next, HandleTimeout
<1>4. ASSUME NEW fd \in FD,
             AcceptCallback(fd) \/ RwCallback(fd) \/ \E what \in {"data", "end"} : Arrive(fd, what)
      PROVE  [Next]_vars
  <2>1. CASE AcceptCallback(fd)
    BY <2>1 DEF AcceptCallback, Next, Application
  <2>2. CASE RwCallback(fd)
    BY <2>2 DEF RwCallback, Echoed, TryAgain, ReadThenClose, CloseConn, Next, Application
  <2>3. CASE \E what \in {"data", "end"} : Arrive(fd, what)
    BY <2>3 DEF Arrive
  <2> QED
    BY <1>4, <2>1, <2>2, <2>3
<1> QED
  BY <1>1, <1>2, <1>3, <1>4 DEF EchoNext

\* The two callbacks of picoev_echo.c leave the wheel as picoev.h keeps it: each timeout
\* has its bits, in the slot of the seconds it is due in.
THEOREM EchoWheel ==
  ASSUME SlotsToSpare, LagFits
  PROVE  EchoSpec => [](WheelInv /\ DeadlineInv)
<1>1. EchoInit => WheelInv /\ DeadlineInv
  BY EchoInitWheel
<1>2. WheelInv /\ DeadlineInv /\ [EchoNext]_EchoVars => WheelInv' /\ DeadlineInv'
  BY EchoTurnsWheel, WheelStep, ClocksStep, DueStep, EchoAssumption DEF DeadlineInv
<1> QED
  BY <1>1, <1>2, PTL DEF EchoSpec


-----------------------------------------------------------------------------
(* The connections: each step keeps EchoInv. *)

LEMMA EchoInitInv == EchoInit => EchoInv
<1> SUFFICES ASSUME EchoInit PROVE EchoInv
  OBVIOUS
<1>1. TypeOK
  BY EchoInitWheel DEF WheelInv
<1>2. ListenSock \in FD /\ ListenSock # None
  BY WordType, EchoAssumption, WheelAssumption
<1>3. EchoTypeOK
  BY <1>1, <1>2, EchoNumbers DEF EchoTypeOK, EchoInit
<1>4. Fresh
  BY <1>1, EchoNumbers DEF EchoInit, Fresh
<1> QED
  BY <1>2, <1>3, <1>4 DEF EchoInv, EchoInit, EveryConnectionTimed, Rounds, Listening, DueWhenCalled,
     CalledOrLate, FiringSilent

\* Steps that leave the timeouts, the connections and the round as they are.
LEMMA EchoScan ==
  ASSUME WheelInv, WheelInv', EchoInv,
         UNCHANGED <<clock, now, active, timeout_idx, due, firing, sockets>>,
         {phase, phase'} \subseteq {"slots", "words", "bits", "callback"} \/ phase' = phase
  PROVE  EchoInv'
<1>1. TypeOK'
  BY DEF WheelInv
<1> QED
  BY <1>1 DEF sockets, EchoInv, EchoTypeOK, EveryConnectionTimed, Rounds, Listening, Fresh,
     DueWhenCalled, CalledOrLate, FiringSilent

\* The clock and the clients.
LEMMA EchoClients ==
  ASSUME WheelInv, WheelInv', EchoInv,
         Second \/ Connect \/ \E fd \in FD, what \in {"data", "end"} : Arrive(fd, what)
  PROVE  EchoInv'
<1>1. TypeOK /\ TypeOK'
  BY DEF WheelInv
<1>2. CASE Second
  <2>1. /\ UNCHANGED <<now, active, timeout_idx, due, firing, phase, sockets>>
        /\ clock - now <= MaxWait /\ clock' = clock + 1
    BY <1>2 DEF Second, Tick, loop, wheel, scan
  <2>2. Fresh'
    BY <1>1, <2>1, EchoNumbers DEF Fresh, MaxWait
  <2> QED
    BY <1>1, <2>1, <2>2 DEF sockets, EchoInv, EchoTypeOK, EveryConnectionTimed, Rounds, Listening,
       DueWhenCalled, CalledOrLate, FiringSilent
<1>3. CASE Connect
  BY <1>1, <1>3 DEF Connect, vars, loop, wheel, scan, EchoInv, EchoTypeOK, EveryConnectionTimed,
     Rounds, Listening, Fresh, DueWhenCalled, CalledOrLate, FiringSilent
<1>4. ASSUME NEW fd \in FD, NEW what \in {"data", "end"}, Arrive(fd, what) PROVE EchoInv'
  <2>1. /\ UNCHANGED <<clock, now, active, timeout_idx, due, firing, phase>>
        /\ UNCHANGED <<open, backlog, selected, ready, called>>
        /\ fd \in open \ {ListenSock}
        /\ rx' = [rx EXCEPT ![fd] = @ \cup {what}]
        /\ late' = IF selected THEN late \cup {fd} ELSE late
    BY <1>4 DEF Arrive, vars, loop, wheel, scan
  <2>2. /\ rx \in [FD -> SUBSET {"data", "end"}] /\ \A g \in FD \ open : rx[g] = {}
        /\ open \subseteq FD /\ active = open /\ late \subseteq FD
    BY DEF EchoInv, EchoTypeOK
  <2>3. /\ rx' \in [FD -> SUBSET {"data", "end"}]
        /\ \A g \in FD : g # fd => rx'[g] = rx[g]
    BY <2>1, <2>2
  <2>4. /\ late \subseteq late' /\ late' \subseteq FD /\ (selected => fd \in late')
    BY <2>1, <2>2
  <2>5. EchoTypeOK'
    BY <1>1, <2>1, <2>2, <2>3, <2>4 DEF EchoInv, EchoTypeOK
  <2>6. EveryConnectionTimed' /\ Rounds' /\ Fresh' /\ DueWhenCalled'
    BY <2>1 DEF EchoInv, EveryConnectionTimed, Rounds, Fresh, DueWhenCalled
  <2>7. Listening'
    BY <2>1, <2>3, EchoAssumption DEF EchoInv, Listening
  <2>8. CalledOrLate => CalledOrLate'
    BY <2>1, <2>2, <2>3, <2>4 DEF CalledOrLate
  <2>9. FiringSilent'
    <3> SUFFICES ASSUME firing # None, firing \in active
                 PROVE  /\ called[firing] + TimeoutSecs <= now + MaxWait
                        /\ WaitFits => rx'[firing] = {} \/ firing \in late'
      BY <2>1 DEF FiringSilent
    <3>1. selected
      BY DEF EchoInv, Rounds, WheelInv, ScanExact
    <3> QED
      BY <2>2, <2>3, <2>4, <3>1 DEF EchoInv, FiringSilent
  <2> QED
    BY <2>5, <2>6, <2>7, <2>8, <2>9 DEF EchoInv
<1> QED
  BY <1>2, <1>3, <1>4

\* A round of the loop, from select() to the timeouts.
LEMMA EchoRounds ==
  ASSUME WheelInv, WheelInv', EchoInv,
         BeginRound \/ RoundFails \/ Select \/ PassEnds \/ AcceptFails \/ RoundEnds
  PROVE  EchoInv'
<1>1. TypeOK /\ TypeOK'
  BY DEF WheelInv
<1>2. /\ MaxWait \in Nat /\ MaxWait <= Resolution /\ Resolution \in Nat
      /\ TimeoutSecs \in Nat /\ clock \in Nat /\ now \in Nat
      /\ due \in [FD -> Int \cup {None}]
  BY <1>1, EchoNumbers DEF TypeOK
<1>3. UNCHANGED <<clock, active, timeout_idx, due, firing, open, rx, called>>
  BY DEF BeginRound, RoundFails, Select, PassEnds, AcceptFails, RoundEnds, LoopOnce, PollFails,
     Polled, TimeoutsDone, vars, loop, wheel, scan, sockets
<1>4. /\ phase # "callback" /\ firing = None
  <2>1. phase # "callback"
    BY DEF BeginRound, RoundFails, Select, PassEnds, AcceptFails, RoundEnds, LoopOnce, PollFails,
       Polled, TimeoutsDone, Visit
  <2> QED
    BY <2>1 DEF WheelInv, ScanExact
<1>5. Fresh'
  <2>1. now' = clock \/ now' = now
    BY DEF BeginRound, RoundFails, Select, PassEnds, AcceptFails, RoundEnds, LoopOnce, PollFails,
       Polled, TimeoutsDone, vars, loop
  <2> QED
    BY <1>2, <1>3, <2>1 DEF EchoInv, Fresh, MaxWait
<1>6. EchoTypeOK'
  BY <1>1, <1>3 DEF EchoInv, EchoTypeOK, BeginRound, RoundFails, Select, Readable, PassEnds,
     AcceptFails, RoundEnds, Visit, sockets
<1>7. EveryConnectionTimed' /\ DueWhenCalled' /\ Listening' /\ FiringSilent'
  BY <1>3, <1>4 DEF EchoInv, EveryConnectionTimed, DueWhenCalled, Listening, FiringSilent
<1>8. Rounds'
  <2>1. CASE BeginRound \/ RoundFails
    BY <2>1 DEF EchoInv, Rounds, BeginRound, RoundFails, LoopOnce, PollFails, sockets
  <2>2. CASE Select \/ PassEnds
    BY <2>2 DEF EchoInv, Rounds, Select, PassEnds, Polled, vars, sockets
  <2>3. CASE AcceptFails
    BY <2>3 DEF EchoInv, Rounds, AcceptFails, Visit, vars
  <2>4. CASE RoundEnds
    BY <2>4 DEF EchoInv, Rounds, RoundEnds, TimeoutsDone
  <2> QED
    BY <2>1, <2>2, <2>3, <2>4
<1>9. ASSUME WaitFits PROVE CalledOrLate'
  <2>1. CASE BeginRound \/ RoundFails \/ RoundEnds
    <3>1. ~ selected'
      BY <2>1 DEF EchoInv, Rounds, BeginRound, RoundFails, RoundEnds, LoopOnce, PollFails, sockets
    <3> QED
      BY <3>1 DEF CalledOrLate
  <2>2. CASE Select
    BY <1>3, <2>2 DEF CalledOrLate, Select, Readable
  <2>3. CASE PassEnds
    <3>1. /\ phase = "poll" /\ phase' = "slots" /\ now' = clock /\ selected /\ ready = {}
          /\ UNCHANGED <<late, ready>>
      BY <2>3 DEF PassEnds, Polled, sockets
    <3> SUFFICES ASSUME NEW fd \in active \ {ListenSock}
                 PROVE  \/ rx[fd] = {} \/ fd \in late
                        \/ timeout_idx[fd] # None /\ due[fd] >= clock
      BY <1>3, <3>1 DEF CalledOrLate
    <3>2. \/ rx[fd] = {} \/ fd \in late \/ firing = fd
          \/ timeout_idx[fd] # None /\ due[fd] >= now + TimeoutSecs
      BY <1>9, <3>1 DEF EchoInv, CalledOrLate
    <3>3. fd \in FD /\ fd # None
      BY WordType, WheelAssumption DEF EchoInv, EchoTypeOK
    <3>4. timeout_idx[fd] # None => due[fd] \in Int
      BY <1>2, <3>3 DEF WheelInv, ArmedAndDue
    <3>5. clock <= now + TimeoutSecs
      BY <1>2, <1>9 DEF WaitFits, EchoInv, Fresh
    <3> QED
      BY <1>2, <1>4, <3>2, <3>3, <3>4, <3>5
  <2>4. CASE AcceptFails
    <3>1. /\ UNCHANGED <<now, phase, late, selected>> /\ ready' = ready \ {ListenSock}
      BY <2>4 DEF AcceptFails, Visit, vars, loop
    <3> QED
      BY <1>3, <1>9, <3>1 DEF EchoInv, CalledOrLate
  <2> QED
    BY <2>1, <2>2, <2>3, <2>4
<1> QED
  BY <1>5, <1>6, <1>7, <1>8, <1>9 DEF EchoInv


\* accept_callback, an echo and a read of nothing: the timeout of the connection is
\* set, and the others keep theirs.
LEMMA EchoCalled ==
  ASSUME WheelInv, WheelInv', Clocks, EchoInv, NEW fd \in FD,
         AcceptCallback(fd) \/ Echoed(fd) \/ TryAgain(fd)
  PROVE  EchoInv'
<1>1. /\ TypeOK /\ TypeOK' /\ MaxWait \in Nat /\ TimeoutSecs \in Nat
      /\ clock \in Nat /\ clock \in 0..MaxTime /\ now \in Nat /\ now + TimeoutSecs # None
  BY EchoNumbers DEF WheelInv
<1>2. /\ rx \in [FD -> SUBSET {"data", "end"}] /\ \A g \in FD \ open : rx[g] = {}
      /\ called \in [FD -> 0..MaxTime] /\ active = open /\ open \subseteq FD
      /\ ready \subseteq active /\ late \subseteq FD
  BY DEF EchoInv, EchoTypeOK
<1>3. /\ fd # ListenSock /\ ListenSock \in open
      /\ UNCHANGED <<clock, now, phase, firing, selected>> /\ phase = "poll"
      /\ PicoevSetTimeout(fd) /\ due'[fd] = now + TimeoutSecs
      /\ called' = [called EXCEPT ![fd] = clock]
      /\ active' = active \cup {fd} /\ open' = active' /\ backlog' \in BOOLEAN
      /\ ready' \subseteq ready /\ ready \subseteq ready' \cup {ListenSock, fd} /\ selected
  BY <1>2 DEF AcceptCallback, Echoed, TryAgain, Visit, Lowest, Add, Rearm, loop, scan,
     EchoInv, EchoTypeOK, Rounds, Listening
<1>4. /\ late \subseteq late' \cup {fd} /\ late' \subseteq late
      /\ rx' \in [FD -> SUBSET {"data", "end"}]
      /\ \A g \in FD : g # fd => rx'[g] = rx[g]
  BY <1>2 DEF AcceptCallback, Echoed, TryAgain
<1>5. /\ timeout_idx'[fd] # None
      /\ \A g \in FD : g # fd =>
           timeout_idx'[g] = timeout_idx[g] /\ due'[g] = due[g] /\ called'[g] = called[g]
      /\ called'[fd] = clock /\ called' \in [FD -> 0..MaxTime]
  <2>1. timeout_idx'[fd] # None
    BY <1>1, <1>3 DEF WheelInv, ArmedAndDue
  <2>2. Moved(fd)
    BY <1>1, <1>3, SetTimeoutMoves
  <2> QED
    BY <1>1, <1>2, <1>3, <2>1, <2>2 DEF Moved
<1>6. EchoTypeOK'
  <2>1. open' \subseteq FD /\ ready' \subseteq active' /\ late' \subseteq FD /\ selected' \in BOOLEAN
    BY <1>2, <1>3, <1>4 DEF EchoInv, EchoTypeOK
  <2>2. \A g \in FD \ open' : rx'[g] = {}
    BY <1>2, <1>3, <1>4
  <2> QED
    BY <1>1, <1>3, <1>4, <1>5, <2>1, <2>2 DEF EchoTypeOK
<1>7. EveryConnectionTimed'
  BY <1>2, <1>3, <1>5 DEF EchoInv, EveryConnectionTimed
<1>8. Rounds'
  BY <1>3 DEF EchoInv, Rounds
<1>9. Listening' /\ Fresh'
  BY <1>2, <1>3, <1>4, <1>5, EchoAssumption DEF EchoInv, Listening, Fresh, MaxWait
<1>10. DueWhenCalled'
  <2> SUFFICES ASSUME NEW g \in FD, timeout_idx'[g] # None
               PROVE  /\ due'[g] <= called'[g] + TimeoutSecs
                      /\ called'[g] + TimeoutSecs <= due'[g] + MaxWait + 1
    BY DEF DueWhenCalled, MaxWait
  <2>1. CASE g = fd
    <3>1. now <= clock /\ clock <= now + MaxWait + 1
      BY DEF Clocks, EchoInv, Fresh
    <3> QED
      BY <1>1, <1>3, <1>5, <2>1, <3>1
  <2>2. CASE g # fd
    BY <1>5, <2>2 DEF EchoInv, DueWhenCalled
  <2> QED
    BY <2>1, <2>2
<1>11. FiringSilent'
  BY <1>3 DEF WheelInv, ScanExact, FiringSilent
<1>12. ASSUME CalledOrLate PROVE CalledOrLate'
  <2> SUFFICES ASSUME NEW g \in active' \ {ListenSock}
               PROVE  \/ rx'[g] = {} \/ g \in late' \/ g \in ready' \/ firing = g
                      \/ timeout_idx'[g] # None /\ due'[g] >= now + TimeoutSecs
    BY <1>3 DEF CalledOrLate
  <2>1. CASE g = fd
    BY <1>1, <1>3, <1>5, <2>1
  <2>2. CASE g # fd
    <3>1. g \in active \ {ListenSock} /\ g \in FD
      BY <1>2, <1>3, <2>2
    <3>2. \/ rx[g] = {} \/ g \in late \/ g \in ready \/ firing = g
          \/ timeout_idx[g] # None /\ due[g] >= now + TimeoutSecs
      BY <1>3, <1>12, <3>1 DEF CalledOrLate
    <3> QED
      BY <1>3, <1>4, <1>5, <2>2, <3>1, <3>2
  <2> QED
    BY <2>1, <2>2
<1> QED
  BY <1>6, <1>7, <1>8, <1>9, <1>10, <1>11, <1>12 DEF EchoInv

\* close_conn, after a read or after a timeout.
LEMMA EchoCloses ==
  ASSUME WheelInv, WheelInv', EchoInv, NEW fd \in FD,
         ReadThenClose(fd) \/ TimedOut(fd)
  PROVE  EchoInv'
<1>1. TypeOK /\ TypeOK'
  BY DEF WheelInv
<1>2. /\ rx \in [FD -> SUBSET {"data", "end"}] /\ \A g \in FD \ open : rx[g] = {}
      /\ active = open /\ open \subseteq FD /\ ready \subseteq active /\ late \subseteq FD
      /\ backlog \in BOOLEAN /\ selected \in BOOLEAN
      /\ timeout_idx \in [FD -> Slots \cup {None}] /\ due \in [FD -> Int \cup {None}]
  BY <1>1 DEF EchoInv, EchoTypeOK, TypeOK
<1>3. /\ fd # ListenSock /\ fd \in active
      /\ UNCHANGED <<clock, now, phase, firing, selected, backlog, called>>
      /\ timeout_idx' = [timeout_idx EXCEPT ![fd] = None] /\ due' = [due EXCEPT ![fd] = None]
      /\ active' = active \ {fd} /\ open' = open \ {fd}
      /\ rx' = [rx EXCEPT ![fd] = {}] /\ late' = late \ {fd}
  BY DEF ReadThenClose, TimedOut, CloseConn, Visit, Del, ClearTimeout, loop, scan, EchoInv, Listening
<1>4. /\ timeout_idx'[fd] = None
      /\ \A g \in FD : g # fd =>
           timeout_idx'[g] = timeout_idx[g] /\ due'[g] = due[g] /\ rx'[g] = rx[g]
      /\ rx' \in [FD -> SUBSET {"data", "end"}] /\ rx'[fd] = {}
  BY <1>2, <1>3
<1>5. ready' = ready \ {fd}
  BY DEF ReadThenClose, TimedOut, Visit, EchoInv, Rounds
<1>6. EchoTypeOK'
  <2>1. \A g \in FD \ open' : rx'[g] = {}
    BY <1>2, <1>3, <1>4
  <2> QED
    BY <1>1, <1>2, <1>3, <1>4, <1>5, <2>1 DEF EchoInv, EchoTypeOK
<1>7. EveryConnectionTimed'
  BY <1>2, <1>3, <1>4 DEF EchoInv, EveryConnectionTimed
<1>8. Rounds'
  BY <1>3, <1>5 DEF EchoInv, Rounds
<1>9. Listening' /\ Fresh' /\ DueWhenCalled'
  BY <1>3, <1>4, EchoAssumption DEF EchoInv, Listening, Fresh, DueWhenCalled, MaxWait
<1>10. FiringSilent'
  <2> SUFFICES ASSUME firing # None, firing \in active'
               PROVE  /\ called[firing] + TimeoutSecs <= now + MaxWait
                      /\ WaitFits => rx'[firing] = {} \/ firing \in late'
    BY <1>3 DEF FiringSilent, MaxWait
  <2>1. firing # fd /\ firing \in active /\ firing \in FD
    BY <1>2, <1>3
  <2> QED
    BY <1>3, <1>4, <2>1 DEF EchoInv, FiringSilent
<1>11. ASSUME CalledOrLate PROVE CalledOrLate'
  <2> SUFFICES ASSUME selected, NEW g \in active' \ {ListenSock}
               PROVE  \/ rx'[g] = {} \/ g \in late' \/ g \in ready' \/ firing = g
                      \/ /\ timeout_idx'[g] # None
                         /\ IF phase = "poll" THEN due'[g] >= now + TimeoutSecs ELSE due'[g] >= now
    BY <1>3 DEF CalledOrLate
  <2>1. g # fd /\ g \in FD /\ g \in active \ {ListenSock}
    BY <1>2, <1>3
  <2> QED
    BY <1>3, <1>4, <1>5, <1>11, <2>1 DEF CalledOrLate
<1> QED
  BY <1>6, <1>7, <1>8, <1>9, <1>10, <1>11 DEF EchoInv

\* The timeout callback starts, for a connection that is silent, and returns.
LEMMA EchoFires ==
  ASSUME WheelInv, WheelInv', DeadlineInv, LagSpare, EchoInv,
         NEW fd \in FD, Fire(fd), UNCHANGED sockets
  PROVE  EchoInv'
<1>1. TypeOK /\ TypeOK'
  BY DEF WheelInv
<1>2. /\ MaxWait \in Nat /\ TimeoutSecs \in Nat /\ now \in Nat /\ None \notin Int /\ MaxTime \in Nat
      /\ timeout_idx \in [FD -> Slots \cup {None}] /\ due \in [FD -> Int \cup {None}]
      /\ called \in [FD -> 0..MaxTime] /\ active = open /\ open \subseteq FD
  BY <1>1, EchoNumbers DEF EchoInv, EchoTypeOK, TypeOK
<1>3. /\ timeout_idx[fd] # None /\ fd \in active /\ due[fd] \in Int /\ due[fd] < now
      /\ timeout_idx' = [timeout_idx EXCEPT ![fd] = None]
      /\ due' = [due EXCEPT ![fd] = None] /\ firing' = fd /\ phase' = "callback"
  BY <1>2, FireIsDue
<1>4. /\ phase = "bits" /\ firing = None
      /\ UNCHANGED <<clock, now, active, open, backlog, rx, selected, ready, late, called>>
  BY DEF Fire, loop, sockets, WheelInv, ScanExact
<1>5. \A g \in FD : g # fd => timeout_idx'[g] = timeout_idx[g] /\ due'[g] = due[g]
  BY <1>2, <1>3
<1>6. timeout_idx'[fd] = None
  BY <1>2, <1>3
<1>7. fd # ListenSock
  BY <1>3 DEF EchoInv, Listening
<1>8. EchoTypeOK' /\ Rounds' /\ Fresh'
  BY <1>1, <1>3, <1>4 DEF EchoInv, EchoTypeOK, Rounds, Fresh, MaxWait
<1>9. EveryConnectionTimed' /\ Listening' /\ DueWhenCalled'
  <2>1. EveryConnectionTimed'
    <3>1. \A g \in FD : g # None
      BY <1>2, WordType
    <3> QED
      BY <1>2, <1>3, <1>4, <1>5, <3>1 DEF EchoInv, EveryConnectionTimed
  <2>2. Listening'
    BY <1>3, <1>4, <1>5, <1>7, EchoAssumption DEF EchoInv, Listening
  <2>3. DueWhenCalled'
    BY <1>4, <1>5, <1>6 DEF EchoInv, DueWhenCalled, MaxWait
  <2> QED
    BY <2>1, <2>2, <2>3
<1>10. called[fd] + TimeoutSecs <= now + MaxWait
  <2>1. called[fd] + TimeoutSecs <= due[fd] + MaxWait + 1
    BY <1>3 DEF EchoInv, DueWhenCalled
  <2>2. called[fd] \in Int
    BY <1>2
  <2> QED
    BY <1>2, <1>3, <2>1, <2>2
<1>11. WaitFits => rx[fd] = {} \/ fd \in late
  <2>1. selected /\ ready = {}
    BY <1>4 DEF EchoInv, Rounds
  <2>2. fd # None
    BY WordType, WheelAssumption
  <2> QED
    BY <1>2, <1>3, <1>4, <1>7, <2>1, <2>2 DEF EchoInv, CalledOrLate
<1>12. FiringSilent'
  BY <1>3, <1>4, <1>10, <1>11 DEF FiringSilent, MaxWait
<1>13. CalledOrLate => CalledOrLate'
  BY <1>2, <1>3, <1>4, <1>5, WordType DEF CalledOrLate
<1> QED
  BY <1>8, <1>9, <1>12, <1>13 DEF EchoInv

LEMMA EchoReturns ==
  ASSUME WheelInv, WheelInv', EchoInv, TimeoutReturns
  PROVE  EchoInv'
<1>1. TypeOK'
  BY DEF WheelInv
<1>2. /\ UNCHANGED <<clock, now, active, timeout_idx, due, sockets>>
      /\ firing \notin active /\ firing' = None /\ phase = "callback" /\ phase' = "bits"
  BY DEF TimeoutReturns, CallbackReturns, loop, wheel
<1>3. ListenSock # None
  BY WordType, EchoAssumption, WheelAssumption
<1> QED
  BY <1>1, <1>2, <1>3 DEF sockets, EchoInv, EchoTypeOK, EveryConnectionTimed, Rounds, Listening,
     Fresh, DueWhenCalled, CalledOrLate, FiringSilent


LEMMA EchoStep ==
  ASSUME LagSpare, WheelInv, WheelInv', DeadlineInv, EchoInv, [EchoNext]_EchoVars
  PROVE  EchoInv'
<1>1. CASE Second \/ Connect
  BY <1>1, EchoClients
<1>2. CASE BeginRound \/ RoundFails \/ Select \/ PassEnds \/ AcceptFails
  BY <1>2, EchoRounds
<1>3. CASE Timeouts
  <2>1. CASE (OpenSlot \/ TakeWord \/ WordDone \/ SlotDone) /\ UNCHANGED sockets
    <3>1. /\ UNCHANGED <<clock, now, active, timeout_idx, due, firing, sockets>>
          /\ {phase, phase'} \subseteq {"slots", "words", "bits", "callback"}
      BY <2>1 DEF OpenSlot, TakeWord, WordDone, SlotDone, loop, wheel, scan
    <3> QED
      BY <3>1, EchoScan
  <2>2. CASE (\E fd \in FD : Fire(fd)) /\ UNCHANGED sockets
    BY <2>2, EchoFires
  <2>3. CASE RoundEnds
    BY <2>3, EchoRounds
  <2>4. CASE TimeoutReturns
    BY <2>4, EchoReturns
  <2>5. CASE \E fd \in FD : TimedOut(fd)
    BY <2>5, EchoCloses
  <2> QED
    BY <1>3, <2>1, <2>2, <2>3, <2>4, <2>5 DEF Timeouts
<1>4. ASSUME NEW fd \in FD,
             AcceptCallback(fd) \/ RwCallback(fd) \/ \E what \in {"data", "end"} : Arrive(fd, what)
      PROVE  EchoInv'
  <2>1. CASE AcceptCallback(fd) \/ Echoed(fd) \/ TryAgain(fd)
    BY <2>1, EchoCalled DEF DeadlineInv
  <2>2. CASE ReadThenClose(fd)
    BY <2>2, EchoCloses
  <2>3. CASE \E what \in {"data", "end"} : Arrive(fd, what)
    BY <2>3, EchoClients
  <2> QED
    BY <1>4, <2>1, <2>2, <2>3 DEF RwCallback
<1>5. CASE UNCHANGED EchoVars
  <2>1. UNCHANGED <<clock, now, active, timeout_idx, due, firing, sockets>> /\ phase' = phase
    BY <1>5 DEF EchoVars, vars, loop, wheel, scan
  <2> QED
    BY <2>1, EchoScan
<1> QED
  BY <1>1, <1>2, <1>3, <1>4, <1>5 DEF EchoNext

LEMMA SpareFits == LagSpare => LagFits
<1> SUFFICES ASSUME LagSpare, NEW secs \in Secs
             PROVE  MaxLag + secs <= TimeoutVecSize * Resolution
  BY DEF LagFits
<1>1. /\ MaxLag \in Nat /\ secs \in Nat /\ TimeoutVecSize \in Nat /\ Resolution \in Nat
      /\ MaxLag + secs < TimeoutVecSize * Resolution
  BY ResolutionType, WheelAssumption DEF LagSpare
<1> QED
  BY <1>1

\* And what the server makes of it holds in every round: EchoInv, which relates the
\* timeouts to when the callbacks were called and to what select() has seen.
THEOREM EchoSafe ==
  ASSUME SlotsToSpare, LagSpare
  PROVE  EchoSpec => [](WheelInv /\ DeadlineInv /\ EchoInv)
<1>1. EchoInit => EchoInv
  BY EchoInitInv
<1>2. /\ WheelInv /\ WheelInv' /\ DeadlineInv /\ EchoInv /\ [EchoNext]_EchoVars
      => EchoInv'
  BY EchoStep
<1>3. EchoSpec => [](WheelInv /\ DeadlineInv)
  BY EchoWheel, SpareFits
<1> QED
  BY <1>1, <1>2, <1>3, PTL DEF EchoSpec

-----------------------------------------------------------------------------
\* What the server keeps of its sockets is what the loop and the wheel hold of them.
THEOREM EchoTypeCorrect ==
  ASSUME SlotsToSpare, LagSpare
  PROVE  EchoSpec => []EchoTypeOK
<1>1. EchoInv => EchoTypeOK
  BY DEF EchoInv
<1> QED
  BY <1>1, EchoSafe, PTL

\* No connection of the echo server is left without a timeout (accept_callback and
\* rw_callback of picoev_echo.c).
THEOREM ConnectionsTimed ==
  ASSUME SlotsToSpare, LagSpare
  PROVE  EchoSpec => []EveryConnectionTimed
<1>1. EchoInv => EveryConnectionTimed
  BY DEF EchoInv
<1> QED
  BY <1>1, EchoSafe, PTL

\* A round of the loop leaves no connection whose last call was TIMEOUT_SECS and a
\* resolution ago.
THEOREM SilentAreReaped ==
  ASSUME SlotsToSpare, LagSpare
  PROVE  EchoSpec => ReapedInTime
<1>1. ASSUME WheelInv, DeadlineInv, EchoInv, [EchoNext]_EchoVars,
             phase = "slots", phase' = "idle", NEW fd \in active \ {ListenSock}
      PROVE  now - called[fd] < TimeoutSecs + Resolution
  <2>1. [Timers!Next]_(Timers!vars)
    BY <1>1, EchoTurnsWheel, DeadlinesStep
  <2>2. \A g \in FD : due[g] # None => now < due[g] + Resolution
    BY <1>1, <2>1 DEF Timers!Next, Timers!vars, Timers!Wake, Timers!Advance, Timers!Rest,
       Timers!Return, Timers!Fire, Timers!Clear, Timers!Set
  <2>3. /\ fd \in FD /\ fd # None /\ firing = None /\ Resolution \in Nat /\ now \in Nat
        /\ TimeoutSecs \in Nat /\ called[fd] \in Nat /\ due \in [FD -> Int \cup {None}]
    <3>1. TypeOK /\ fd \in FD /\ called \in [FD -> 0..MaxTime] /\ firing = None
      BY <1>1 DEF WheelInv, ScanExact, EchoInv, EchoTypeOK
    <3>2. due \in [FD -> Int \cup {None}] /\ called[fd] \in 0..MaxTime
      BY <3>1 DEF TypeOK
    <3> QED
      BY <3>1, <3>2, EchoNumbers, WordType
  <2>4. timeout_idx[fd] # None
    BY <1>1, <2>3 DEF EchoInv, EveryConnectionTimed
  <2>5. due[fd] # None /\ due[fd] <= called[fd] + TimeoutSecs
    BY <1>1, <2>3, <2>4 DEF WheelInv, ArmedAndDue, EchoInv, DueWhenCalled
  <2>6. due[fd] \in Int /\ now < due[fd] + Resolution
    BY <2>2, <2>3, <2>5
  <2> QED
    BY <2>3, <2>5, <2>6
<1>2. WheelInv /\ DeadlineInv /\ EchoInv /\ [EchoNext]_EchoVars
      => [phase = "slots" /\ phase' = "idle"
            => \A fd \in active \ {ListenSock} :
                 now - called[fd] < TimeoutSecs + Resolution]_EchoVars
  BY <1>1
<1> QED
  BY <1>2, EchoSafe, PTL DEF EchoSpec, ReapedInTime

\* No connection is closed for its silence sooner than TIMEOUT_SECS less a resolution
\* after its last call, although loop->now is older than the wait of select().
THEOREM SilentForLong ==
  ASSUME SlotsToSpare, LagSpare
  PROVE  EchoSpec => SilentLongEnough
<1>1. ASSUME WheelInv, DeadlineInv, EchoInv, NEW fd \in FD, Expires(fd)
      PROVE  clock - called[fd] >= TimeoutSecs - Resolution
  <2>1. TypeOK /\ called \in [FD -> 0..MaxTime]
    BY <1>1 DEF WheelInv, EchoInv, EchoTypeOK
  <2>2. /\ MaxWait \in Nat /\ MaxWait <= Resolution /\ Resolution \in Nat /\ now \in Nat
        /\ clock \in Nat /\ TimeoutSecs \in Nat /\ MaxTime \in Nat /\ fd # None
    BY <2>1, EchoNumbers, WordType
  <2>3. called[fd] \in Nat
    BY <2>1, <2>2
  <2>4. called[fd] + TimeoutSecs <= now + MaxWait /\ now <= clock
    BY <1>1, <2>2 DEF Expires, EchoInv, FiringSilent, DeadlineInv, Clocks
  <2> QED
    BY <2>2, <2>3, <2>4
<1>2. WheelInv /\ DeadlineInv /\ EchoInv /\ [EchoNext]_EchoVars
      => [\A fd \in FD : Expires(fd) => clock - called[fd] >= TimeoutSecs - Resolution]_EchoVars
  BY <1>1
<1> QED
  BY <1>2, EchoSafe, PTL DEF EchoSpec, SilentLongEnough

\* A connection whose data was there when select() returned is not closed for its
\* silence, as long as TIMEOUT_SECS is more than the resolution of the wheel.
THEOREM DataBeforeExpiry ==
  ASSUME SlotsToSpare, LagSpare, WaitFits
  PROVE  EchoSpec => HeardBeforeExpiry
<1>1. ASSUME EchoInv, NEW fd \in FD, Expires(fd)
      PROVE  rx[fd] = {} \/ fd \in late
  BY <1>1, WordType, WheelAssumption DEF Expires, EchoInv, FiringSilent
<1>2. WheelInv /\ DeadlineInv /\ EchoInv /\ [EchoNext]_EchoVars
      => [\A fd \in FD : Expires(fd) => rx[fd] = {} \/ fd \in late]_EchoVars
  BY <1>1
<1> QED
  BY <1>2, EchoSafe, PTL DEF EchoSpec, HeardBeforeExpiry
=============================================================================
