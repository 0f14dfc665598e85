--------------------------------- MODULE Echo ---------------------------------
(***************************************************************************)
(* The echo server of picoev (picoev/picoev_echo.c), the one program of    *)
(* the repository that uses timeouts: rw_callback and accept_callback over *)
(* the select backend and the wheel of TimeoutWheel, whose actions are     *)
(* conjoined with what happens to the sockets.                             *)
(*                                                                         *)
(* loop->now is read before select() waits, so that the callbacks of the   *)
(* pass set their timeouts from a time that is past; picoev_loop_once      *)
(* keeps the wait below the resolution of the wheel.                       *)
(***************************************************************************)
EXTENDS TimeoutWheel

CONSTANTS ListenSock,   \* the listening socket
          TimeoutSecs   \* TIMEOUT_SECS

ASSUME EchoAssumption ==
  /\ ListenSock \in FD /\ \A fd \in FD : ListenSock <= fd
  /\ TimeoutSecs \in Secs
  /\ OwnOnly

VARIABLES
  open,      \* sockets that are open
  backlog,   \* a client waits for accept()
  rx,        \* what a connection has to read: data, end of stream
  selected,  \* select() has returned in this round
  ready,     \* readfds, less the descriptors already visited
  late,      \* history: connections whose data came after select()
  called     \* history: when a connection was accepted, or last called for a read

sockets == <<open, backlog, rx, selected, ready, late, called>>

EchoVars == <<vars, sockets>>

Connections == FD \ {ListenSock}

\* Variant of MaxWait: the wait is not cut.
MaxWaitUncut == 10

\* main calls picoev_loop_once(loop, 10), which cuts the wait to the resolution.
MaxWait == IF 10 > Resolution THEN Resolution ELSE 10

\* main, before the loop
EchoInit ==
  /\ clock = 0 /\ now = 0 /\ base_idx = 0 /\ base_time = 0
  /\ active = {ListenSock}
  /\ timeout_idx = [fd \in FD |-> None] /\ due = [fd \in FD |-> None]
  /\ vec = [i \in Slots |-> {}] /\ vec_of_vec = [i \in Slots |-> {}]
  /\ phase = "idle"
  /\ vv = {} /\ v = {} /\ firing = None
  /\ proc = "running"
  /\ open = {ListenSock} /\ backlog = FALSE
  /\ rx = [fd \in FD |-> {}]
  /\ selected = FALSE /\ ready = {} /\ late = {}
  /\ called = [fd \in FD |-> 0]
-----------------------------------------------------------------------------
(* Clients and the clock *)

\* The callbacks are quick: a second may begin during them, but they take none.
Second ==
  /\ clock - now <= MaxWait
  /\ Tick
  /\ UNCHANGED sockets

Connect ==
  /\ Running
  /\ backlog' = TRUE
  /\ UNCHANGED <<vars, open, rx, selected, ready, late, called>>

\* "data", or "end" when the client closes.
Arrive(fd, what) ==
  /\ Running
  /\ fd \in open \ {ListenSock}
  /\ what \notin rx[fd] /\ "end" \notin rx[fd]
  /\ rx' = [rx EXCEPT ![fd] = @ \cup {what}]
  /\ late' = IF selected THEN late \cup {fd} ELSE late
  /\ UNCHANGED <<vars, open, backlog, selected, ready, called>>

-----------------------------------------------------------------------------
(* picoev_loop_once, and picoev_poll_once_internal of the select backend *)

BeginRound ==
  /\ LoopOnce
  /\ UNCHANGED sockets

\* select() ends with an error; main goes on with the next round.
RoundFails ==
  /\ PollFails
  /\ UNCHANGED sockets

Readable == {fd \in active : IF fd = ListenSock THEN backlog ELSE rx[fd] # {}}

\* Variant of Select: one descriptor at a time.
SelectOne ==
  /\ Running
  /\ phase = "poll" /\ ~ selected
  /\ ready' = IF Readable = {} THEN {} ELSE {First(Readable)}
  /\ selected' = TRUE
  /\ UNCHANGED <<vars, open, backlog, rx, late, called>>

\* select() may report a connection that read() then finds nothing on.
Select ==
  /\ Running
  /\ phase = "poll" /\ ~ selected
  /\ \E spurious \in SUBSET (active \ {ListenSock}) : ready' = Readable \cup spurious
  /\ selected' = TRUE
  /\ UNCHANGED <<vars, open, backlog, rx, late, called>>

Visit(fd) ==
  /\ Running
  /\ phase = "poll" /\ fd \in ready /\ fd = First(ready)
  /\ ready' = ready \ {fd}
  /\ UNCHANGED selected

PassEnds ==
  /\ selected /\ ready = {}
  /\ Polled
  /\ UNCHANGED sockets

-----------------------------------------------------------------------------
(* accept_callback *)

\* accept() returns the lowest descriptor that is free.
Lowest(fd) == fd \notin open /\ \A g \in FD \ open : fd <= g

\* Variant of AcceptCallback: no timeout is set, as in accept_cb of canvasback.c.
AcceptUntimed(fd) ==
  /\ Visit(ListenSock)
  /\ backlog /\ Lowest(fd)
  /\ Add(fd) /\ timeout_idx'[fd] = None
  /\ open' = open \cup {fd} /\ backlog' = FALSE
  /\ called' = [called EXCEPT ![fd] = clock]
  /\ UNCHANGED <<rx, late>>

AcceptCallback(fd) ==
  /\ Visit(ListenSock)
  /\ backlog /\ Lowest(fd)
  /\ Add(fd) /\ due'[fd] = now + TimeoutSecs
  /\ open' = open \cup {fd} /\ backlog' = FALSE
  /\ called' = [called EXCEPT ![fd] = clock]
  /\ UNCHANGED <<rx, late>>

\* No descriptor is free, or the client has gone.
AcceptFails ==
  /\ Visit(ListenSock)
  /\ backlog' \in (IF FD \subseteq open THEN {backlog} ELSE {FALSE})
  /\ UNCHANGED <<vars, open, rx, late, called>>

-----------------------------------------------------------------------------
(* rw_callback *)

\* Variant of CloseConn: close() alone.
CloseAlone(fd) ==
  /\ UNCHANGED vars
  /\ open' = open \ {fd}
  /\ rx' = [rx EXCEPT ![fd] = {}]
  /\ late' = late \ {fd}

\* close_conn
CloseConn(fd) ==
  /\ Del(fd)
  /\ open' = open \ {fd}
  /\ rx' = [rx EXCEPT ![fd] = {}]
  /\ late' = late \ {fd}

\* The timeout is renewed and what was read is sent back; there may be more.
Echoed(fd) ==
  /\ Visit(fd)
  /\ "data" \in rx[fd]
  /\ Rearm(fd) /\ due'[fd] = now + TimeoutSecs
  /\ \/ rx' = [rx EXCEPT ![fd] = @ \ {"data"}] /\ late' = late \ {fd}
     \/ UNCHANGED <<rx, late>>
  /\ called' = [called EXCEPT ![fd] = clock]
  /\ UNCHANGED <<open, backlog>>

\* EAGAIN: nothing was read, and the timeout stays renewed.
TryAgain(fd) ==
  /\ Visit(fd)
  /\ fd # ListenSock /\ rx[fd] = {}
  /\ Rearm(fd) /\ due'[fd] = now + TimeoutSecs
  /\ called' = [called EXCEPT ![fd] = clock]
  /\ UNCHANGED <<open, backlog, rx, late>>

\* The end of the stream, an error, or a write that is short: the timeout that was
\* just renewed goes with the descriptor.
ReadThenClose(fd) ==
  /\ Visit(fd)
  /\ fd # ListenSock
  /\ CloseConn(fd)
  /\ UNCHANGED <<backlog, called>>

\* rw_callback is called with PICOEV_TIMEOUT.
TimedOut(fd) ==
  /\ phase = "callback" /\ fd = firing
  /\ CloseConn(fd)
  /\ UNCHANGED <<backlog, selected, ready, called>>

TimeoutReturns ==
  /\ firing \notin active
  /\ CallbackReturns
  /\ UNCHANGED sockets

\* The round ends: what arrives from now on is seen by the next select().
RoundEnds ==
  /\ TimeoutsDone
  /\ selected' = FALSE /\ late' = {}
  /\ UNCHANGED <<open, backlog, rx, ready, called>>

Timeouts ==
  \/ /\ OpenSlot \/ TakeWord \/ WordDone \/ SlotDone \/ \E fd \in FD : Fire(fd)
     /\ UNCHANGED sockets
  \/ RoundEnds \/ TimeoutReturns
  \/ \E fd \in FD : TimedOut(fd)

RwCallback(fd) == Echoed(fd) \/ TryAgain(fd) \/ ReadThenClose(fd)

EchoNext ==
  \/ Second \/ Connect \/ BeginRound \/ RoundFails \/ Select \/ PassEnds
  \/ AcceptFails \/ Timeouts
  \/ \E fd \in FD :
       AcceptCallback(fd) \/ RwCallback(fd) \/ \E what \in {"data", "end"} : Arrive(fd, what)

EchoSpec == EchoInit /\ [][EchoNext]_EchoVars
-----------------------------------------------------------------------------
\* The type of the sockets; a closed socket has nothing to read, and what is open
\* is registered.
EchoTypeOK ==
  /\ TypeOK
  /\ open \subseteq FD /\ backlog \in BOOLEAN
  /\ rx \in [FD -> SUBSET {"data", "end"}] /\ \A fd \in FD \ open : rx[fd] = {}
  /\ selected \in BOOLEAN /\ ready \subseteq active /\ late \subseteq FD
  /\ called \in [FD -> 0..MaxTime]
  /\ active = open

\* No connection is left without a timeout, whatever its callbacks did: each either
\* has one armed or is having its timeout callback run.
EveryConnectionTimed ==
  \A fd \in active \ {ListenSock} : timeout_idx[fd] # None \/ firing = fd

\* A silent connection does not stay: when a round of the loop has looked at the
\* timeouts, rw_callback was called for every connection in the last TIMEOUT_SECS and one
\* resolution. Of reads this is not so: a call that reads nothing renews the timeout too.
ReapedInTime ==
  [][phase = "slots" /\ phase' = "idle"
       => \A fd \in active \ {ListenSock} : now - called[fd] < TimeoutSecs + Resolution]_EchoVars

\* The connection whose timeout callback closes it in this step.
Expires(fd) == phase = "callback" /\ firing = fd /\ fd \in active /\ fd \notin active'

\* And none goes too soon after its last call by the real clock, although timeouts are set from
\* a loop->now that is older than the wait of select().
SilentLongEnough ==
  [][\A fd \in FD : Expires(fd) => clock - called[fd] >= TimeoutSecs - Resolution]_EchoVars

\* A connection whose data was there when select() returned is not closed for its
\* silence: in each round the descriptors are read before the timeouts are looked at.
HeardBeforeExpiry ==
  [][\A fd \in FD : Expires(fd) => rx[fd] = {} \/ fd \in late]_EchoVars
=============================================================================
