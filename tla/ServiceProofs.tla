----------------------------- MODULE ServiceProofs -----------------------------
(***************************************************************************)
(* What the server gives browsers that ask one query and wait for it: each *)
(* connection gets the answer of its own query, whole, and the server      *)
(* stays up; for every number of connections, requests and descriptors.    *)
(***************************************************************************)
EXTENDS CanvasbackProofs, FiniteSetTheorems

\* A browser sends one request on a connection and keeps it until the answer.
PatientBrowsers == Faults \cap {"hangup", "pipeline"} = {}

\* The send buffer of a connection takes a whole answer.
RoomToWrite == "slow_reader" \notin Faults

\* Requests arrive whole, the database takes sessions, and the process has a
\* descriptor for every browser and every session.
NothingFails ==
  /\ Faults \cap {"split", "db_down"} = {}
  /\ IsFiniteSet(Conns) /\ IsFiniteSet(Reqs)
  /\ Cardinality(Conns) + Cardinality(Reqs) < Cardinality(FD)

\* The five stages of a request: it is not sent yet, waits in the buffer of its
\* connection, has a session whose client->fd is that connection, is answered, or
\* was dropped after RES_HEAD.
Unsent(q) == asked[q] = None /\ client[q] = None /\ db[q] = "none"

Waiting(q) ==
  /\ rx[asked[q]] = q /\ conn[asked[q]] \in {"backlog", "open"} /\ wire[asked[q]] = <<>>
  /\ client[q] = None /\ db[q] = "none"

Querying(q) ==
  /\ rx[asked[q]] = None /\ wire[asked[q]] = << <<q, "head">> >>
  /\ client[q] # None /\ kernel[client[q].fd] = asked[q]

Answers(q) == { << <<q, "last">> >>, << <<q, "chunk">>, <<q, "last">> >> }
CutAnswers(q) == { << <<q, "cut">> >>, << <<q, "cut">>, <<q, "last">> >> }

Given(q) == IF RoomToWrite THEN Answers(q) ELSE Answers(q) \cup CutAnswers(q)

Answered(q) ==
  /\ rx[asked[q]] = None /\ conn[asked[q]] = "closed" /\ client[q] = None
  /\ \E parts \in Given(q) : wire[asked[q]] = << <<q, "head">> >> \o parts

Dropped(q) ==
  /\ rx[asked[q]] = None /\ (conn[asked[q]] = "closed" \/ ~ Running)
  /\ wire[asked[q]] = << <<q, "head">> >> /\ client[q] = None /\ db[q] = "none"

Asked(q) == asked[q] \in Conns /\ (Waiting(q) \/ Querying(q) \/ Answered(q) \/ Dropped(q))

Stages == \A q \in Reqs : Unsent(q) \/ Asked(q)

\* Nothing is written on a connection that has not asked.
UnaskedSilent == \A c \in Conns : ~ HasAsked(c) => wire[c] = <<>>

\* No callback closes a descriptor that the pass has yet to visit.
ReadyOpen == \A fd \in ready : kernel[fd] # Free

ServiceInv ==
  /\ Stages /\ OneRequest /\ LeftUnasked /\ UnaskedSilent /\ ReadyOpen /\ NoStrayResult

\* The server runs, or was ended by a request in pieces or a session it could not open.
Endings == proc \in {"running", "add: fd out of range", "read_cb: r > 0"}

\* As long as nothing fails.
UpInv == Running /\ part = {}

-----------------------------------------------------------------------------
(* What a step leaves alone. *)

\* A request keeps its stage when its connection, its client_t and the descriptor
\* that client->fd names are left alone.
LEMMA StageKept ==
  ASSUME NEW s \in Reqs, Unsent(s) \/ Asked(s),
         asked'[s] = asked[s], client'[s] = client[s],
         db[s] = "none" => db'[s] = "none", Running' => Running,
         asked[s] \in Conns =>
           /\ rx'[asked[s]] = rx[asked[s]] /\ wire'[asked[s]] = wire[asked[s]]
           /\ \/ conn'[asked[s]] = conn[asked[s]]
              \/ conn[asked[s]] # "closed" /\ conn'[asked[s]] \in {"backlog", "open"},
         Querying(s) => kernel'[client[s].fd] = kernel[client[s].fd]
  PROVE  Unsent(s)' \/ Asked(s)'
<1>1. CASE Unsent(s)
  BY <1>1 DEF Unsent
<1>2. CASE asked[s] \in Conns /\ Waiting(s)
  BY <1>2 DEF Asked, Waiting
<1>3. CASE asked[s] \in Conns /\ Querying(s)
  BY <1>3 DEF Asked, Querying
<1>4. CASE asked[s] \in Conns /\ Answered(s)
  BY <1>4 DEF Asked, Answered, Given, Answers, CutAnswers, RoomToWrite
<1>5. CASE asked[s] \in Conns /\ Dropped(s)
  BY <1>5 DEF Asked, Dropped
<1> QED
  BY <1>1, <1>2, <1>3, <1>4, <1>5 DEF Asked

\* A step on one connection, and on the request it carries, if any.
LEMMA ConnStep ==
  ASSUME ServiceInv, NEW c \in Conns, asked' = asked, left' \subseteq left, Running' => Running,
         \A s \in Reqs : asked[s] # c =>
           client'[s] = client[s] /\ (db[s] = "none" => db'[s] = "none"),
         \A d \in Conns \ {c} :
           /\ rx'[d] = rx[d] /\ wire'[d] = wire[d]
           /\ \/ conn'[d] = conn[d]
              \/ conn[d] # "closed" /\ conn'[d] \in {"backlog", "open"},
         \A s \in Reqs : asked[s] \in Conns \ {c} /\ Querying(s) =>
           kernel'[client[s].fd] = kernel[client[s].fd],
         \A s \in Reqs : asked[s] = c => Asked(s)',
         ~ HasAsked(c) => wire'[c] = <<>>
  PROVE  Stages' /\ OneRequest' /\ LeftUnasked' /\ UnaskedSilent'
<1>1. Stages'
  <2> SUFFICES ASSUME NEW s \in Reqs PROVE Unsent(s)' \/ Asked(s)'
    BY DEF Stages
  <2>1. Unsent(s) \/ Asked(s)
    BY DEF ServiceInv, Stages
  <2>2. CASE Unsent(s)
    <3>1. asked[s] # c /\ asked[s] \notin Conns
      BY <2>2, NamesAssumption DEF Unsent
    <3> QED
      BY <2>2, <3>1 DEF Unsent
  <2>3. CASE Asked(s) /\ asked[s] = c
    BY <2>3 DEF Asked
  <2>4. CASE Asked(s) /\ asked[s] # c
    <3>1. asked[s] \in Conns \ {c}
      BY <2>4 DEF Asked
    <3> QED
      BY <2>1, <2>4, <3>1, StageKept
  <2> QED
    BY <2>1, <2>2, <2>3, <2>4
<1>2. OneRequest' /\ LeftUnasked'
  BY DEF ServiceInv, OneRequest, LeftUnasked, HasAsked
<1>3. UnaskedSilent'
  BY DEF ServiceInv, UnaskedSilent, HasAsked
<1> QED
  BY <1>1, <1>2, <1>3

\* A session is readable as its result says.
LEMMA ResultReady ==
  ASSUME NEW fd, kernel[fd] \in Reqs
  PROVE  Readable(fd) <=> db[kernel[fd]] \in Results \cup {"some"}
BY NamesAssumption DEF Readable

\* The rest of the pass stays good when nothing of it is closed or answered.
LEMMA PassStep ==
  ASSUME IInv, ServiceInv, ready' \subseteq ready,
         \A g \in ready' : kernel'[g] = kernel[g],
         \A g \in ready', q \in Reqs : kernel[g] = q /\ db[q] \in Results \cup {"some"} =>
           db'[q] \in Results \cup {"some"}
  PROVE  ReadyOpen' /\ NoStrayResult'
<1>1. ReadyOpen'
  BY DEF ServiceInv, ReadyOpen
<1>2. ASSUME NEW g \in ready', kernel'[g] \in Reqs
      PROVE  Readable(g)'
  <2>1. g \in ready /\ kernel'[g] = kernel[g]
    BY <1>2
  <2>2. Readable(g)
    BY <1>2, <2>1 DEF ServiceInv, NoStrayResult
  <2>3. db[kernel[g]] \in Results \cup {"some"}
    BY <1>2, <2>1, <2>2, ResultReady
  <2>4. db'[kernel[g]] \in Results \cup {"some"}
    BY <1>2, <2>1, <2>3
  <2> QED
    BY <1>2, <2>1, <2>4 DEF Readable
<1> QED
  BY <1>1, <1>2 DEF NoStrayResult

\* A descriptor that was free is none that client->fd names, nor in the pass.
LEMMA FreeIsNew ==
  ASSUME IInv, ServiceInv, NEW newfd \in FD, kernel[newfd] = Free
  PROVE  /\ newfd \notin ready
         /\ \A s \in Reqs : asked[s] \in Conns /\ Querying(s) =>
              client[s].fd \in FD /\ client[s].fd # newfd
<1>1. newfd \notin ready
  BY DEF ServiceInv, ReadyOpen
<1>2. ASSUME NEW s \in Reqs, asked[s] \in Conns, Querying(s)
      PROVE  client[s].fd \in FD /\ client[s].fd # newfd
  <2>1. client[s] \in ClientT
    BY <1>2 DEF Querying, IInv, TypeOK
  <2>2. client[s].fd \in FD
    BY <2>1 DEF ClientT
  <2> QED
    BY <1>2, <2>2, NamesAssumption DEF Querying
<1> QED
  BY <1>1, <1>2

\* A connection that another one's request names with client->fd has another descriptor.
LEMMA OtherConnOtherFd ==
  ASSUME IInv, ServiceInv, NEW fd \in FD, NEW c \in Conns \cup Reqs, kernel[fd] = c,
         NEW s \in Reqs, asked[s] \in Conns \ {c}, Querying(s)
  PROVE  client[s].fd \in FD /\ client[s].fd # fd
<1>1. client[s] \in ClientT
  BY DEF Querying, IInv, TypeOK
<1>2. client[s].fd \in FD
  BY <1>1 DEF ClientT
<1> QED
  BY <1>2, NamesAssumption DEF Querying

-----------------------------------------------------------------------------
(* Each step keeps ServiceInv. *)

LEMMA InitService == Init => ServiceInv
<1> SUFFICES ASSUME Init PROVE ServiceInv
  OBVIOUS
<1>1. Stages
  BY DEF Init, Stages, Unsent
<1>2. OneRequest /\ LeftUnasked /\ UnaskedSilent /\ ReadyOpen /\ NoStrayResult
  BY NamesAssumption DEF Init, OneRequest, LeftUnasked, UnaskedSilent, HasAsked, ReadyOpen, NoStrayResult
<1> QED
  BY <1>1, <1>2 DEF ServiceInv

\* Steps of browsers and the database that send nothing.
LEMMA OutsideService ==
  ASSUME IInv, ServiceInv, UNCHANGED <<server, rx, asked>>,
         \A c \in left' \ left : ~ HasAsked(c),
         \A d \in Conns : \/ conn'[d] = conn[d]
                          \/ conn[d] # "closed" /\ conn'[d] \in {"backlog", "open"},
         \A s \in Reqs : /\ db[s] = "none" => db'[s] = "none"
                         /\ db[s] \in Results \cup {"some"} => db'[s] \in Results \cup {"some"}
  PROVE  ServiceInv'
<1> USE DEF server
<1>1. Stages'
  <2> SUFFICES ASSUME NEW s \in Reqs PROVE Unsent(s)' \/ Asked(s)'
    BY DEF Stages
  <2>1. Unsent(s) \/ Asked(s)
    BY DEF ServiceInv, Stages
  <2>2. Running' => Running
    BY DEF Running
  <2> QED
    BY <2>1, <2>2, StageKept
<1>2. OneRequest' /\ UnaskedSilent' /\ LeftUnasked'
  BY DEF ServiceInv, OneRequest, UnaskedSilent, HasAsked, LeftUnasked
<1>3. ReadyOpen' /\ NoStrayResult'
  BY PassStep
<1> QED
  BY <1>1, <1>2, <1>3 DEF ServiceInv

\* A patient browser sends on a connection that has not asked.
LEMMA PatientSends ==
  ASSUME IInv, Patient', NEW c \in Conns, NEW q \in Reqs, Send(c, q) \/ SendFirstPiece(c, q)
  PROVE  ~ HasAsked(c)
<1>1. asked[q] = None /\ asked' = [asked EXCEPT ![q] = c]
  BY DEF Send, SendFirstPiece, MaySend
<1> SUFFICES ASSUME NEW s \in Reqs, asked[s] = c PROVE FALSE
  BY DEF HasAsked
<1>2. s # q
  BY <1>1, NamesAssumption
<1>3. asked'[q] = c /\ asked'[s] = c
  BY <1>1, <1>2 DEF IInv, TypeOK
<1> QED
  BY <1>2, <1>3 DEF Patient, OneRequest

LEMMA SendService ==
  ASSUME Patient', IInv, ServiceInv, NEW c \in Conns, NEW q \in Reqs,
         Send(c, q) \/ SendFirstPiece(c, q)
  PROVE  ServiceInv'
<1>1. /\ asked[q] = None /\ c \notin left /\ ~ HasAsked(c) /\ conn[c] \in {"backlog", "open"}
      /\ asked' = [asked EXCEPT ![q] = c]
      /\ UNCHANGED <<server, conn, left, db>>
  BY PatientSends DEF Send, SendFirstPiece, MaySend
<1>2. rx[c] = None /\ wire[c] = <<>>
  BY <1>1, NamesAssumption DEF IInv, TypeOK, BufferedWasAsked, ServiceInv, UnaskedSilent, HasAsked
<1>3. rx' = [rx EXCEPT ![c] = q]
  BY <1>2 DEF Send, SendFirstPiece
<1>4. /\ asked'[q] = c /\ \A s \in Reqs \ {q} : asked'[s] = asked[s]
      /\ rx'[c] = q /\ \A d \in Conns \ {c} : rx'[d] = rx[d]
  BY <1>1, <1>3 DEF IInv, TypeOK
<1>5. UNCHANGED <<proc, kernel, ready, client, wire, conn, left, db>>
  BY <1>1 DEF server
<1>6. Stages'
  <2> SUFFICES ASSUME NEW s \in Reqs PROVE Unsent(s)' \/ Asked(s)'
    BY DEF Stages
  <2>1. Unsent(s) \/ Asked(s)
    BY DEF ServiceInv, Stages
  <2>2. CASE s = q
    <3>1. client[q] = None /\ db[q] = "none"
      BY <1>1, <2>1, <2>2, NamesAssumption DEF Unsent, Asked
    <3> QED
      BY <1>1, <1>2, <1>4, <1>5, <2>2, <3>1 DEF Asked, Waiting
  <2>3. CASE s # q
    <3>1. asked[s] # c
      BY <1>1 DEF HasAsked
    <3>2. Running' => Running
      BY <1>5 DEF Running
    <3> QED
      BY <1>4, <1>5, <2>1, <2>3, <3>1, <3>2, StageKept
  <2> QED
    BY <2>2, <2>3
<1>7. OneRequest' /\ LeftUnasked' /\ UnaskedSilent'
  <2>1. \A s \in Reqs \ {q} : asked[s] # c
    BY <1>1 DEF HasAsked
  <2>2. OneRequest'
    BY <1>4, <2>1 DEF ServiceInv, OneRequest
  <2>3. \A d \in Conns \ {c} : HasAsked(d)' <=> HasAsked(d)
    BY <1>1, <1>4, NamesAssumption DEF HasAsked
  <2>4. HasAsked(c)'
    BY <1>4 DEF HasAsked
  <2> QED
    BY <1>1, <1>5, <2>2, <2>3, <2>4 DEF ServiceInv, LeftUnasked, UnaskedSilent, IInv, TypeOK
<1>8. ReadyOpen' /\ NoStrayResult'
  BY <1>5, PassStep
<1> QED
  BY <1>6, <1>7, <1>8 DEF ServiceInv

LEMMA BrowserService ==
  ASSUME Patient', IInv, ServiceInv, NEW c \in Conns, Browser(c)
  PROVE  ServiceInv'
<1>1. CASE Connect(c)
  BY <1>1, OutsideService DEF Connect, IInv, TypeOK
<1>2. CASE HangUp(c)
  <2>1. ~ HasAsked(c)
    BY <1>2 DEF HangUp, Patient, LeftUnasked, HasAsked
  <2> QED
    BY <1>2, <2>1, OutsideService DEF HangUp
<1>3. CASE SendRest(c)
  BY <1>3, OutsideService DEF SendRest
<1>4. CASE \E q \in Reqs : Send(c, q) \/ SendFirstPiece(c, q)
  BY <1>4, SendService
<1> QED
  BY <1>1, <1>2, <1>3, <1>4 DEF Browser

LEMMA DatabaseService ==
  ASSUME IInv, ServiceInv, NEW q \in Reqs, Database(q)
  PROVE  ServiceInv'
<1>1. /\ UNCHANGED <<server, browsers>> /\ db[q] # "none"
      /\ \A s \in Reqs \ {q} : db'[s] = db[s]
      /\ db'[q] \in Results \cup {"some"}
  BY DEF Database, DbFirstBytes, DbDone, IInv, TypeOK
<1> QED
  BY <1>1, OutsideService DEF browsers

LEMMA PollService ==
  ASSUME IInv, ServiceInv, Poll
  PROVE  ServiceInv'
<1>1. UNCHANGED <<proc, fds, kernel, client, wire, browsers, db>>
  BY DEF Poll
<1>2. \A fd \in ready' : Readable(fd) /\ kernel[fd] # Free
  BY DEF Poll, SelectOk
<1>3. Stages' /\ OneRequest' /\ LeftUnasked' /\ UnaskedSilent'
  <2>1. Stages'
    <3> SUFFICES ASSUME NEW s \in Reqs PROVE Unsent(s)' \/ Asked(s)'
      BY DEF Stages
    <3>1. Unsent(s) \/ Asked(s)
      BY DEF ServiceInv, Stages
    <3>2. Running' => Running
      BY <1>1 DEF Running
    <3> QED
      BY <1>1, <3>1, <3>2, StageKept DEF browsers
  <2> QED
    BY <1>1, <2>1 DEF ServiceInv, OneRequest, LeftUnasked, UnaskedSilent, HasAsked, browsers
<1>4. ReadyOpen' /\ NoStrayResult'
  BY <1>1, <1>2 DEF ReadyOpen, NoStrayResult, Readable, browsers
<1> QED
  BY <1>3, <1>4 DEF ServiceInv

\* A request in the buffer of a connection waits there, and no other uses it.
LEMMA BufferedWaits ==
  ASSUME IInv, ServiceInv, NEW c \in Conns, NEW q \in Reqs, rx[c] = q
  PROVE  /\ asked[q] = c /\ Waiting(q) /\ c \notin left
         /\ \A s \in Reqs : asked[s] = c => s = q
<1>1. q # None
  BY NamesAssumption
<1>2. asked[q] = c
  BY <1>1 DEF IInv, BufferedWasAsked
<1>3. Asked(q)
  BY <1>2, NamesAssumption DEF ServiceInv, Stages, Unsent
<1>4. Waiting(q)
  BY <1>1, <1>2, <1>3 DEF Asked, Querying, Answered, Dropped
<1>5. c \notin left
  BY <1>2 DEF ServiceInv, LeftUnasked, HasAsked
<1>6. \A s \in Reqs : asked[s] = c => s = q
  BY <1>2 DEF ServiceInv, OneRequest
<1> QED
  BY <1>2, <1>4, <1>5, <1>6

\* The session that db_bin_cb reads is of a request whose connection still waits.
LEMMA RepliesQueries ==
  ASSUME IInv, ServiceInv, NEW fd \in FD, NEW q \in Reqs, Replies(fd, q)
  PROVE  /\ asked[q] \in Conns /\ Querying(q) /\ asked[q] \notin left
         /\ kernel[fd] = q /\ client[q].dbfd = fd /\ client[q].fd \in FD
         /\ client[q].fd # fd /\ client[q].fd \notin ready
         /\ conn[asked[q]] = "open"
<1>1. Registered(fds, fd) /\ fds[fd].callback = "db_bin_cb" /\ fds[fd].cb_arg = q
  BY DEF Replies, Calls
<1>2. kernel[fd] = q /\ client[q] # None /\ client[q].dbfd = fd
  BY <1>1, RegisteredSlot
<1>3. asked[q] \in Conns /\ Querying(q)
  BY <1>2 DEF ServiceInv, Stages, Unsent, Asked, Waiting, Answered, Dropped
<1>4. asked[q] \notin left
  BY <1>3 DEF ServiceInv, LeftUnasked, HasAsked
<1>5. client[q].fd \in FD
  BY <1>2 DEF IInv, TypeOK, ClientT
<1>6. client[q].fd # fd /\ conn[asked[q]] = "open"
  BY <1>2, <1>3, <1>5, NamesAssumption DEF Querying, IInv, ConnHasOneFd
<1>7. client[q].fd \notin ready
  BY <1>3, <1>4, NamesAssumption DEF Querying, IInv, NoStrayRead, Readable
<1> QED
  BY <1>2, <1>3, <1>4, <1>5, <1>6, <1>7

\* Nothing is written to a connection whose browser has left.
LEMMA NoSigpipe ==
  ASSUME IInv, ServiceInv, NEW fd \in FD
  PROVE  ~ WriteSigpipe(fd)
<1>1. ASSUME NEW c \in left, NEW q \in Reqs, ReadsRequest(fd, c, q)
      PROVE  FALSE
  <2>1. c \in Conns /\ rx[c] = q
    BY <1>1 DEF ReadsRequest, IInv, TypeOK
  <2> QED
    BY <2>1, BufferedWaits
<1>2. ASSUME NEW q \in Reqs, Replies(fd, q), kernel[client[q].fd] \in left
      PROVE  FALSE
  BY <1>2, RepliesQueries DEF Querying
<1> QED
  BY <1>1, <1>2 DEF WriteSigpipe

\* Visits that leave the tables alone.
LEMMA QuietService ==
  ASSUME IInv, ServiceInv, NEW fd \in FD, NextInPass(fd), Visited(fd),
         UNCHANGED <<fds, kernel, client, browsers, db, wire>>
  PROVE  ServiceInv'
<1>1. ready' \subseteq ready /\ Running
  BY DEF Visited, NextInPass
<1>2. Stages'
  <2> SUFFICES ASSUME NEW s \in Reqs PROVE Unsent(s)' \/ Asked(s)'
    BY DEF Stages
  <2>1. Unsent(s) \/ Asked(s)
    BY DEF ServiceInv, Stages
  <2> QED
    BY <1>1, <2>1, StageKept DEF browsers
<1>3. OneRequest' /\ LeftUnasked' /\ UnaskedSilent'
  BY DEF ServiceInv, OneRequest, LeftUnasked, UnaskedSilent, HasAsked, browsers
<1>4. ReadyOpen' /\ NoStrayResult'
  BY <1>1, PassStep
<1> QED
  BY <1>2, <1>3, <1>4 DEF ServiceInv

LEMMA AcceptService ==
  ASSUME IInv, ServiceInv, NEW fd \in FD, NEW c \in Conns, Accept(fd, c)
  PROVE  ServiceInv'
<1>1. PICK newfd \in FD : kernel[newfd] = Free /\ kernel' = [kernel EXCEPT ![newfd] = c]
  BY DEF Accept, LowestFree
<1>2. /\ conn[c] = "backlog" /\ conn' = [conn EXCEPT ![c] = "open"]
      /\ UNCHANGED <<client, left, rx, part, asked, db, wire>>
      /\ Running /\ ready' \subseteq ready
  BY DEF Accept, Calls, NextInPass, Visited
<1>3. /\ \A g \in FD \ {newfd} : kernel'[g] = kernel[g]
      /\ conn'[c] = "open" /\ \A d \in Conns \ {c} : conn'[d] = conn[d]
  BY <1>1, <1>2 DEF IInv, TypeOK
<1>4. /\ newfd \notin ready
      /\ \A s \in Reqs : asked[s] \in Conns /\ Querying(s) => kernel'[client[s].fd] = kernel[client[s].fd]
  BY <1>1, <1>3, FreeIsNew
<1>5. ASSUME NEW s \in Reqs, asked[s] = c PROVE Asked(s)'
  <2>1. Asked(s)
    BY <1>5, NamesAssumption DEF ServiceInv, Stages, Unsent
  <2>2. Unsent(s)' \/ Asked(s)'
    BY <1>2, <1>3, <1>4, <1>5, <2>1, StageKept
  <2> QED
    BY <1>2, <1>5, <2>2, NamesAssumption DEF Unsent
<1>6. Stages' /\ OneRequest' /\ LeftUnasked' /\ UnaskedSilent'
  BY <1>2, <1>3, <1>4, <1>5, ConnStep DEF ServiceInv, UnaskedSilent
<1>7. ReadyOpen' /\ NoStrayResult'
  BY <1>2, <1>3, <1>4, PassStep DEF IInv, TypeOK
<1> QED
  BY <1>6, <1>7 DEF ServiceInv

\* The label CLOSE of read_cb: the descriptor that is visited is closed.
LEMMA CloseKeeps ==
  ASSUME IInv, ServiceInv, NEW fd \in FD, NEW c \in Conns, Reads(fd, c), CloseConn(fd, c)
  PROVE  /\ \A d \in Conns \ {c} : conn'[d] = conn[d]
         /\ conn'[c] = "closed" /\ ready' \subseteq ready /\ Running
         /\ \A g \in ready' : kernel'[g] = kernel[g]
         /\ \A s \in Reqs : asked[s] \in Conns \ {c} /\ Querying(s) =>
              kernel'[client[s].fd] = kernel[client[s].fd]
<1>1. kernel[fd] = c /\ ready' = ready \ {fd} /\ Running
  BY DEF Reads, Calls, Visited, NextInPass
<1>2. \A g \in FD \ {fd} : kernel'[g] = kernel[g]
  BY DEF CloseConn, IInv, TypeOK
<1>3. conn'[c] = "closed" /\ \A d \in Conns \ {c} : conn'[d] = conn[d]
  BY DEF CloseConn, IInv, TypeOK
<1> QED
  BY <1>1, <1>2, <1>3, OtherConnOtherFd DEF IInv, TypeOK

LEMMA ReadEndService ==
  ASSUME IInv, ServiceInv, NEW fd \in FD, NEW c \in Conns, ReadEnd(fd, c)
  PROVE  ServiceInv'
<1>1. /\ Reads(fd, c) /\ CloseConn(fd, c) /\ c \in left
      /\ rx' = [rx EXCEPT ![c] = None]
      /\ UNCHANGED <<client, left, asked, db, wire>>
  BY DEF ReadEnd
<1>2. /\ \A d \in Conns \ {c} : conn'[d] = conn[d] /\ rx'[d] = rx[d]
      /\ ready' \subseteq ready /\ Running
      /\ \A g \in ready' : kernel'[g] = kernel[g]
      /\ \A s \in Reqs : asked[s] \in Conns \ {c} /\ Querying(s) =>
           kernel'[client[s].fd] = kernel[client[s].fd]
  BY <1>1, CloseKeeps DEF IInv, TypeOK
<1>3. \A s \in Reqs : asked[s] # c
  BY <1>1 DEF ServiceInv, LeftUnasked, HasAsked
<1>4. Stages' /\ OneRequest' /\ LeftUnasked' /\ UnaskedSilent'
  BY <1>1, <1>2, <1>3, ConnStep DEF ServiceInv, UnaskedSilent
<1>5. ReadyOpen' /\ NoStrayResult'
  BY <1>1, <1>2, PassStep
<1> QED
  BY <1>4, <1>5 DEF ServiceInv

\* RES_HEAD is written on the connection of the request.
LEMMA HeadWritten ==
  ASSUME IInv, ServiceInv, NEW fd \in FD, NEW c \in Conns, NEW q \in Reqs, ReadsRequest(fd, c, q)
  PROVE  /\ asked[q] = c /\ Waiting(q) /\ \A s \in Reqs : asked[s] = c => s = q
         /\ wire'[c] = << <<q, "head">> >> /\ rx'[c] = None
         /\ \A d \in Conns \ {c} : rx'[d] = rx[d] /\ wire'[d] = wire[d]
         /\ kernel[fd] = c /\ Running /\ HasAsked(c) /\ Reads(fd, c)
         /\ ready' \subseteq ready /\ fd \notin ready'
<1>1. rx[c] = q /\ rx' = [rx EXCEPT ![c] = None] /\ wire' = [wire EXCEPT ![c] = Append(@, <<q, "head">>)]
  BY DEF ReadsRequest
<1>2. asked[q] = c /\ Waiting(q) /\ \A s \in Reqs : asked[s] = c => s = q
  BY <1>1, BufferedWaits
<1>3. wire[c] = <<>>
  BY <1>2 DEF Waiting
<1>4. Append(wire[c], <<q, "head">>) = << <<q, "head">> >>
  BY <1>3
<1>5. /\ wire'[c] = << <<q, "head">> >> /\ rx'[c] = None
      /\ \A d \in Conns \ {c} : rx'[d] = rx[d] /\ wire'[d] = wire[d]
  BY <1>1, <1>4 DEF IInv, TypeOK
<1> QED
  BY <1>2, <1>5 DEF ReadsRequest, Reads, Calls, Visited, NextInPass, HasAsked

LEMMA ReadRejectService ==
  ASSUME IInv, ServiceInv, NEW fd \in FD, NEW c \in Conns, NEW q \in Reqs, ReadReject(fd, c, q)
  PROVE  ServiceInv'
<1>1. /\ ReadsRequest(fd, c, q) /\ CloseConn(fd, c)
      /\ UNCHANGED <<client, left, asked, db>>
  BY DEF ReadReject
<1>2. /\ asked[q] = c /\ Waiting(q) /\ \A s \in Reqs : asked[s] = c => s = q
      /\ wire'[c] = << <<q, "head">> >> /\ rx'[c] = None
      /\ \A d \in Conns \ {c} : rx'[d] = rx[d] /\ wire'[d] = wire[d]
      /\ Running /\ HasAsked(c) /\ Reads(fd, c)
  BY <1>1, HeadWritten
<1>3. /\ \A d \in Conns \ {c} : conn'[d] = conn[d]
      /\ conn'[c] = "closed" /\ ready' \subseteq ready
      /\ \A g \in ready' : kernel'[g] = kernel[g]
      /\ \A s \in Reqs : asked[s] \in Conns \ {c} /\ Querying(s) =>
           kernel'[client[s].fd] = kernel[client[s].fd]
  BY <1>1, <1>2, CloseKeeps
<1>4. Asked(q)'
  BY <1>1, <1>2, <1>3 DEF Waiting, Asked, Dropped
<1>5. Stages' /\ OneRequest' /\ LeftUnasked' /\ UnaskedSilent'
  BY <1>1, <1>2, <1>3, <1>4, ConnStep
<1>6. ReadyOpen' /\ NoStrayResult'
  BY <1>1, <1>3, PassStep
<1> QED
  BY <1>5, <1>6 DEF ServiceInv

LEMMA ReadTileService ==
  ASSUME IInv, ServiceInv, NEW fd \in FD, NEW c \in Conns, NEW q \in Reqs, ReadTile(fd, c, q)
  PROVE  ServiceInv'
<1>1. PICK dbfd \in FD : /\ kernel[dbfd] = Free /\ kernel' = [kernel EXCEPT ![dbfd] = q]
                         /\ client' = [client EXCEPT ![q] = [fd |-> fd, dbfd |-> dbfd]]
  BY DEF ReadTile, LowestFree
<1>2. /\ ReadsRequest(fd, c, q) /\ db' = [db EXCEPT ![q] = "busy"]
      /\ UNCHANGED <<conn, left, asked>>
  BY DEF ReadTile
<1>3. /\ asked[q] = c /\ Waiting(q) /\ \A s \in Reqs : asked[s] = c => s = q
      /\ wire'[c] = << <<q, "head">> >> /\ rx'[c] = None
      /\ \A d \in Conns \ {c} : rx'[d] = rx[d] /\ wire'[d] = wire[d]
      /\ kernel[fd] = c /\ Running /\ HasAsked(c) /\ ready' \subseteq ready
  BY <1>2, HeadWritten
<1>4. /\ \A g \in FD \ {dbfd} : kernel'[g] = kernel[g]
      /\ client'[q] = [fd |-> fd, dbfd |-> dbfd]
      /\ \A s \in Reqs \ {q} : client'[s] = client[s] /\ db'[s] = db[s]
  BY <1>1, <1>2 DEF IInv, TypeOK
<1>5. /\ dbfd \notin ready
      /\ \A s \in Reqs : asked[s] \in Conns /\ Querying(s) => kernel'[client[s].fd] = kernel[client[s].fd]
  BY <1>1, <1>4, FreeIsNew
<1>6. Asked(q)'
  <2>1. client'[q] \in ClientT /\ client'[q] # None /\ client'[q].fd = fd
    BY <1>4, NamesAssumption DEF ClientT
  <2>2. fd # dbfd
    BY <1>1, <1>3, NamesAssumption
  <2>3. kernel'[client'[q].fd] = asked'[q]
    BY <1>2, <1>3, <1>4, <2>1, <2>2
  <2> QED
    BY <1>2, <1>3, <2>1, <2>3 DEF Asked, Querying
<1>7. Stages' /\ OneRequest' /\ LeftUnasked' /\ UnaskedSilent'
  BY <1>2, <1>3, <1>4, <1>5, <1>6, ConnStep
<1>8. ReadyOpen' /\ NoStrayResult'
  <2>1. \A g \in FD : kernel[g] # q
    BY <1>2 DEF IInv, UnreadHasNoSession, ReadsRequest
  <2> QED
    BY <1>3, <1>4, <1>5, <2>1, PassStep DEF IInv, TypeOK
<1> QED
  BY <1>7, <1>8 DEF ServiceInv

LEMMA ReadTileNoDbService ==
  ASSUME IInv, ServiceInv, NEW fd \in FD, NEW c \in Conns, NEW q \in Reqs, ReadTileNoDb(fd, c, q)
  PROVE  ServiceInv'
<1>1. /\ ReadsRequest(fd, c, q) /\ proc' = AddOutcome(fds, -1)
      /\ UNCHANGED <<kernel, client, conn, left, asked, db>>
  BY DEF ReadTileNoDb
<1>2. /\ asked[q] = c /\ Waiting(q) /\ \A s \in Reqs : asked[s] = c => s = q
      /\ wire'[c] = << <<q, "head">> >> /\ rx'[c] = None
      /\ \A d \in Conns \ {c} : rx'[d] = rx[d] /\ wire'[d] = wire[d]
      /\ Running /\ HasAsked(c) /\ ready' \subseteq ready
  BY <1>1, HeadWritten
<1>3. ~ Running'
  <2>1. ~ FdInRange(-1)
    BY DEF FdInRange
  <2>2. proc' = "add: fd out of range"
    BY <1>1, <2>1 DEF AddOutcome
  <2> QED
    BY <2>2 DEF Running
<1>4. Asked(q)'
  BY <1>1, <1>2, <1>3 DEF Waiting, Asked, Dropped
<1>5. Stages' /\ OneRequest' /\ LeftUnasked' /\ UnaskedSilent'
  BY <1>1, <1>2, <1>4, ConnStep
<1>6. ReadyOpen' /\ NoStrayResult'
  BY <1>1, <1>2, PassStep
<1> QED
  BY <1>5, <1>6 DEF ServiceInv

\* fmt_res_bin answers on the connection of the request, and closes it.
LEMMA FinishService ==
  ASSUME IInv, ServiceInv, NEW fd \in FD, NEW q \in Reqs, NEW parts \in Given(q),
         Replies(fd, q), Finish(q, parts)
  PROVE  ServiceInv'
<1> DEFINE c == asked[q]
           cfd == client[q].fd
<1>1. /\ c \in Conns /\ Querying(q) /\ c \notin left
      /\ kernel[fd] = q /\ client[q].dbfd = fd /\ cfd \in FD
      /\ cfd # fd /\ cfd \notin ready
  BY RepliesQueries
<1>2. kernel[cfd] = c /\ rx[c] = None /\ wire[c] = << <<q, "head">> >>
  BY <1>1 DEF Querying
<1>3. \A s \in Reqs : asked[s] = c => s = q
  BY <1>1 DEF ServiceInv, OneRequest
<1>4. ready' = ready \ {fd} /\ Running
  BY DEF Replies, Calls, Visited, NextInPass
<1> HIDE DEF c, cfd
<1>5. /\ wire' = [wire EXCEPT ![c] = @ \o parts] /\ conn' = [conn EXCEPT ![c] = "closed"]
      /\ rx' = [rx EXCEPT ![c] = None]
      /\ client' = [client EXCEPT ![q] = None]
      /\ kernel' = [kernel EXCEPT ![fd] = Free, ![cfd] = Free]
      /\ UNCHANGED <<left, asked>>
  BY <1>1, <1>2 DEF Finish, Closed, cfd
<1>6. \A s \in Reqs \ {q} : db'[s] = db[s]
  <2>1. \A s \in Reqs : s # c
    BY <1>1, NamesAssumption
  <2> QED
    BY <1>2, <2>1 DEF Finish, cfd
<1>7. /\ wire'[c] = << <<q, "head">> >> \o parts /\ conn'[c] = "closed" /\ rx'[c] = None
      /\ client'[q] = None
      /\ \A d \in Conns \ {c} : rx'[d] = rx[d] /\ wire'[d] = wire[d] /\ conn'[d] = conn[d]
      /\ \A s \in Reqs \ {q} : client'[s] = client[s]
      /\ \A g \in FD \ {fd, cfd} : kernel'[g] = kernel[g]
  BY <1>1, <1>2, <1>5 DEF IInv, TypeOK
<1>8. Asked(q)'
  BY <1>1, <1>5, <1>7 DEF Asked, Answered, Given, Answers, CutAnswers, RoomToWrite, c
<1>9. ASSUME NEW s \in Reqs, asked[s] \in Conns \ {c}, Querying(s)
      PROVE  kernel'[client[s].fd] = kernel[client[s].fd]
  <2>1. client[s].fd \in FD /\ client[s].fd # cfd
    BY <1>1, <1>2, <1>9, OtherConnOtherFd
  <2>2. client[s].fd # fd
    BY <1>1, <1>9, NamesAssumption, OtherConnOtherFd
  <2> QED
    BY <1>7, <2>1, <2>2
<1>10. HasAsked(c) /\ asked[q] = c
  BY DEF HasAsked, c
<1>11. Stages' /\ OneRequest' /\ LeftUnasked' /\ UnaskedSilent'
  <2>1. \A s \in Reqs : asked[s] # c =>
          client'[s] = client[s] /\ (db[s] = "none" => db'[s] = "none")
    BY <1>6, <1>7, <1>10
  <2>2. \A s \in Reqs : asked[s] = c => Asked(s)'
    BY <1>3, <1>8
  <2>3. \A d \in Conns \ {c} :
          /\ rx'[d] = rx[d] /\ wire'[d] = wire[d]
          /\ \/ conn'[d] = conn[d]
             \/ conn[d] # "closed" /\ conn'[d] \in {"backlog", "open"}
    BY <1>7
  <2>4. \A s \in Reqs : asked[s] \in Conns \ {c} /\ Querying(s) =>
          kernel'[client[s].fd] = kernel[client[s].fd]
    BY <1>9
  <2>5. /\ c \in Conns /\ asked' = asked /\ left' \subseteq left /\ (Running' => Running)
        /\ (~ HasAsked(c) => wire'[c] = <<>>)
    BY <1>1, <1>4, <1>5, <1>10
  <2> QED
    BY <2>1, <2>2, <2>3, <2>4, <2>5, ConnStep
<1>12. ReadyOpen' /\ NoStrayResult'
  <2>1. ready' \subseteq ready /\ \A g \in ready' : g \in FD \ {fd, cfd}
    BY <1>1, <1>4 DEF IInv, TypeOK
  <2>2. \A g \in ready' : kernel'[g] = kernel[g]
    BY <1>7, <2>1
  <2>3. \A g \in ready' : kernel[g] # q
    BY <1>1, <2>1 DEF IInv, CallbackArgLive
  <2> QED
    BY <1>6, <2>1, <2>2, <2>3, PassStep
<1> QED
  BY <1>11, <1>12 DEF ServiceInv

\* What db_bin_cb writes.
LEMMA RepliesGive ==
  ASSUME NEW fd \in FD, NEW q \in Reqs, ReplyEmpty(fd, q) \/ ReplyRows(fd, q)
  PROVE  Replies(fd, q) /\ \E parts \in Given(q) : Finish(q, parts)
BY DEF ReplyEmpty, ReplyRows, Given, RoomToWrite, Answers, CutAnswers

LEMMA VisitService ==
  ASSUME IInv, ServiceInv, NEW fd \in FD, Visit(fd)
  PROVE  ServiceInv'
<1>1. CASE SkipDeleted(fd)
  BY <1>1, QuietService DEF SkipDeleted
<1>2. CASE AcceptFails(fd)
  BY <1>2, QuietService DEF AcceptFails, Calls
<1>3. CASE \E c \in Conns : ReadAgain(fd, c) \/ ReadPiece(fd, c)
  BY <1>3, QuietService DEF ReadAgain, ReadPiece, Reads, Calls
<1>4. CASE \E c \in Conns : Accept(fd, c) \/ ReadEnd(fd, c)
  BY <1>4, AcceptService, ReadEndService
<1>5. CASE \E c \in Conns : \E q \in Reqs :
             ReadReject(fd, c, q) \/ ReadTile(fd, c, q) \/ ReadTileNoDb(fd, c, q)
  BY <1>5, ReadRejectService, ReadTileService, ReadTileNoDbService
<1>6. CASE DbBinCb(fd)
  BY <1>6, RepliesGive, FinishService DEF DbBinCb
<1>7. CASE WriteSigpipe(fd)
  BY <1>7, NoSigpipe
<1> QED
  BY <1>1, <1>2, <1>3, <1>4, <1>5, <1>6, <1>7 DEF Visit, AcceptCb, ReadCb

LEMMA ServiceStutter == ServiceInv /\ UNCHANGED vars => ServiceInv'
BY DEF vars, ServiceInv, Stages, Unsent, Asked, Waiting, Querying, Answered, Given, Answers, CutAnswers,
       RoomToWrite, Dropped, Running, OneRequest, LeftUnasked, UnaskedSilent, HasAsked, ReadyOpen,
       NoStrayResult, Readable

LEMMA ServiceStep ==
  IInv /\ ServiceInv /\ Patient' /\ [Next]_vars => ServiceInv'
<1> SUFFICES ASSUME IInv, ServiceInv, Patient', [Next]_vars PROVE ServiceInv'
  OBVIOUS
<1>1. CASE Loop
  BY <1>1, PollService, VisitService DEF Loop
<1>2. CASE \E c \in Conns : Browser(c)
  BY <1>2, BrowserService
<1>3. CASE \E q \in Reqs : Database(q)
  BY <1>3, DatabaseService
<1>4. CASE UNCHANGED vars
  BY <1>4, ServiceStutter
<1> QED
  BY <1>1, <1>2, <1>3, <1>4 DEF Next

-----------------------------------------------------------------------------
(* The server stays up. *)

\* While a request waits in a buffer, a descriptor is left for its session: the
\* others are the listener's, those of the connections and of other requests.
LEMMA DescriptorLeft ==
  ASSUME NothingFails, IInv, NEW c \in Conns, NEW q \in Reqs, rx[c] = q
  PROVE  ~ NoneFree
<1> SUFFICES ASSUME NoneFree PROVE FALSE
  OBVIOUS
<1> DEFINE Others == Reqs \ {q}
           Browsers == Conns \cup {Listener}
           Users == Browsers \cup Others
<1>1. IsFiniteSet(Others) /\ Cardinality(Others) = Cardinality(Reqs) - 1
  BY FS_RemoveElement DEF NothingFails
<1>2. IsFiniteSet(Browsers) /\ Cardinality(Browsers) = Cardinality(Conns) + 1
  BY FS_AddElement, NamesAssumption DEF NothingFails
<1>3. Browsers \cap Others = {}
  BY NamesAssumption
<1>4. IsFiniteSet(Users) /\ Cardinality(Users) = Cardinality(Conns) + Cardinality(Reqs)
  <2>1. Cardinality(Conns) \in Nat /\ Cardinality(Reqs) \in Nat
    BY FS_CardinalityType DEF NothingFails
  <2> HIDE DEF Others, Browsers
  <2>2. IsFiniteSet(Users)
    BY <1>1, <1>2, FS_Union
  <2>3. Cardinality(Users) = Cardinality(Browsers) + Cardinality(Others)
    <3>1. Cardinality(Users) = Cardinality(Browsers) + Cardinality(Others) - Cardinality({})
      BY <1>1, <1>2, <1>3, FS_Union
    <3> QED
      BY <1>1, <1>2, <2>1, <3>1, FS_EmptySet
  <2> QED
    BY <1>1, <1>2, <2>1, <2>2, <2>3
<1>5. kernel \in [FD -> Users]
  <2>1. kernel \in [FD -> {Free, Listener} \cup Conns \cup Reqs]
    BY DEF IInv, TypeOK
  <2>2. \A fd \in FD : kernel[fd] # Free /\ kernel[fd] # q
    BY DEF NoneFree, IInv, UnreadHasNoSession
  <2>3. \A fd \in FD : kernel[fd] \in Users
    BY <2>1, <2>2
  <2> QED
    BY <2>1, <2>3
<1>6. IsFiniteSet(FD)
  BY FS_Interval, FdAssumption DEF FD, ListenFd
<1> HIDE DEF Others, Browsers, Users
<1>7. PICK fd \in FD, g \in FD : fd # g /\ kernel[fd] = kernel[g]
  <2>1. Cardinality(Users) < Cardinality(FD)
    BY <1>4 DEF NothingFails
  <2> QED
    BY <1>4, <1>5, <1>6, <2>1, FS_PigeonHole
<1>8. CASE kernel[fd] = Listener
  BY <1>7, <1>8 DEF IInv, TableMatchesKernel
<1>9. CASE kernel[fd] \in Conns
  BY <1>7, <1>9 DEF IInv, ConnHasOneFd
<1>10. CASE kernel[fd] \in Reqs
  BY <1>7, <1>10 DEF IInv, CallbackArgLive
<1>11. kernel[fd] \in {Listener} \cup Conns \cup Reqs
  BY <1>5 DEF Users, Browsers, Others
<1> QED
  BY <1>8, <1>9, <1>10, <1>11

\* picoev_add of a descriptor that was free passes its assertions.
LEMMA AddRuns ==
  ASSUME IInv, NEW newfd \in FD, kernel[newfd] = Free
  PROVE  AddOutcome(fds, newfd) = "running"
<1>1. FdInRange(newfd)
  BY FdAssumption DEF FD, ListenFd, FdSetSize, FdInRange, MaxFd
<1>2. ~ Registered(fds, newfd)
  BY DEF IInv, TableMatchesKernel
<1> QED
  BY <1>1, <1>2 DEF AddOutcome

\* So does picoev_del at the end of fmt_res_bin, for both descriptors.
LEMMA FinishRuns ==
  ASSUME IInv, ServiceInv, NEW fd \in FD, NEW q \in Reqs, NEW parts,
         Replies(fd, q), Finish(q, parts)
  PROVE  proc' = "running" /\ part' \subseteq part
<1> DEFINE cfd == client[q].fd
<1>1. /\ asked[q] \in Conns /\ Querying(q) /\ kernel[fd] = q /\ client[q].dbfd = fd
      /\ cfd \in FD /\ cfd # fd
  BY RepliesQueries
<1>2. kernel[cfd] # Free /\ kernel[fd] # Free
  BY <1>1, NamesAssumption DEF Querying
<1>3. Registered(fds, cfd) /\ Registered(fds, fd)
  BY <1>1, <1>2 DEF IInv, TableMatchesKernel
<1>4. PicoevDel(fds, cfd)[fd] = fds[fd]
  BY <1>1, DelSlots DEF IInv, TypeOK
<1>5. Registered(PicoevDel(fds, cfd), fd)
  BY <1>3, <1>4 DEF Registered
<1>6. DelOutcome(PicoevDel(fds, cfd), fd) = "running"
  BY <1>5 DEF DelOutcome
<1> QED
  BY <1>1, <1>3, <1>6 DEF Finish

\* A callback that ends the server meets a request that is in pieces, or a session
\* that it cannot open.
LEMMA VisitEnds ==
  ASSUME IInv, ServiceInv, Running, NEW fd \in FD, Visit(fd)
  PROVE  \/ proc' = "running" /\ part' \subseteq part
         \/ proc' = "read_cb: r > 0" /\ part # {}
         \/ /\ proc' = "add: fd out of range"
            /\ \E c \in Conns, q \in Reqs : rx[c] = q /\ (NoneFree \/ "db_down" \in Faults)
<1>1. CASE SkipDeleted(fd) \/ AcceptFails(fd) \/ \E c \in Conns : ReadAgain(fd, c)
  BY <1>1 DEF SkipDeleted, AcceptFails, ReadAgain, Running, browsers
<1>2. CASE \E c \in Conns : ReadPiece(fd, c)
  BY <1>2 DEF ReadPiece
<1>3. CASE \E c \in Conns : Accept(fd, c)
  <2>1. PICK newfd \in FD : kernel[newfd] = Free /\ proc' = AddOutcome(fds, newfd)
    BY <1>3 DEF Accept, LowestFree
  <2> QED
    BY <1>3, <2>1, AddRuns DEF Accept
<1>4. CASE \E c \in Conns : \/ ReadEnd(fd, c)
                            \/ \E q \in Reqs : ReadReject(fd, c, q)
  <2>1. Registered(fds, fd) /\ part' \subseteq part /\ proc' = DelOutcome(fds, fd)
    BY <1>4 DEF ReadEnd, ReadReject, ReadsRequest, Reads, Calls, CloseConn
  <2> QED
    BY <2>1 DEF DelOutcome
<1>5. CASE \E c \in Conns, q \in Reqs : ReadTile(fd, c, q)
  <2>1. PICK dbfd \in FD : kernel[dbfd] = Free /\ proc' = AddOutcome(fds, dbfd)
    BY <1>5 DEF ReadTile, LowestFree
  <2> QED
    BY <1>5, <2>1, AddRuns DEF ReadTile
<1>6. CASE \E c \in Conns, q \in Reqs : ReadTileNoDb(fd, c, q)
  <2>1. \E c \in Conns, q \in Reqs : rx[c] = q /\ (NoneFree \/ "db_down" \in Faults)
    BY <1>6 DEF ReadTileNoDb, ReadsRequest
  <2>2. ~ FdInRange(-1)
    BY SMT DEF FdInRange
  <2>3. proc' = "add: fd out of range"
    BY <1>6, <2>2 DEF ReadTileNoDb, AddOutcome
  <2> QED
    BY <2>1, <2>3
<1>7. CASE DbBinCb(fd)
  BY <1>7, RepliesGive, FinishRuns DEF DbBinCb
<1>8. CASE WriteSigpipe(fd)
  BY <1>8, NoSigpipe
<1> QED
  BY <1>1, <1>2, <1>3, <1>4, <1>5, <1>6, <1>7, <1>8 DEF Visit, AcceptCb, ReadCb

LEMMA VisitRuns ==
  ASSUME NothingFails, IInv, ServiceInv, UpInv, NEW fd \in FD, Visit(fd)
  PROVE  UpInv'
<1>1. \A c \in Conns, q \in Reqs : rx[c] = q => ~ (NoneFree \/ "db_down" \in Faults)
  BY DescriptorLeft DEF NothingFails
<1> QED
  BY <1>1, VisitEnds DEF UpInv, Running

LEMMA EndsStep ==
  IInv /\ ServiceInv /\ Endings /\ [Next]_vars => Endings'
<1> SUFFICES ASSUME IInv, ServiceInv, Endings, [Next]_vars PROVE Endings'
  OBVIOUS
<1>1. CASE Poll
  BY <1>1 DEF Poll, Endings
<1>2. ASSUME NEW fd \in FD, Visit(fd) PROVE Endings'
  <2>1. Running
    BY <1>2 DEF Visit, AcceptCb, ReadCb, DbBinCb, SkipDeleted, AcceptFails, Accept, ReadEnd, ReadAgain,
       ReadPiece, ReadReject, ReadTile, ReadTileNoDb, ReplyEmpty, ReplyRows, WriteSigpipe,
       ReadsRequest, Reads, Replies, Calls, NextInPass
  <2> QED
    BY <1>2, <2>1, VisitEnds DEF Endings
<1>3. CASE \E c \in Conns : Browser(c)
  BY <1>3 DEF Browser, Connect, HangUp, SendRest, Send, SendFirstPiece, server, Endings
<1>4. CASE \E q \in Reqs : Database(q)
  BY <1>4 DEF Database, DbFirstBytes, DbDone, server, Endings
<1>5. CASE UNCHANGED vars
  BY <1>5 DEF vars, Endings
<1> QED
  BY <1>1, <1>2, <1>3, <1>4, <1>5 DEF Next, Loop

LEMMA UpStep ==
  ASSUME NothingFails
  PROVE  IInv /\ ServiceInv /\ UpInv /\ [Next]_vars => UpInv'
<1> SUFFICES ASSUME IInv, ServiceInv, UpInv, [Next]_vars PROVE UpInv'
  OBVIOUS
<1>1. CASE Loop
  BY <1>1, VisitRuns DEF Loop, Poll, UpInv, Running, browsers
<1>2. CASE \E c \in Conns : Browser(c)
  BY <1>2 DEF Browser, Connect, HangUp, SendRest, Send, SendFirstPiece, NothingFails,
              UpInv, Running, server
<1>3. CASE \E q \in Reqs : Database(q)
  BY <1>3 DEF Database, DbFirstBytes, DbDone, UpInv, Running, server, browsers
<1>4. CASE UNCHANGED vars
  BY <1>4 DEF vars, UpInv, Running
<1> QED
  BY <1>1, <1>2, <1>3, <1>4 DEF Next

-----------------------------------------------------------------------------
(* What the sequence of writes adds up to. *)

\* A head and what follows it, written one after the other.
LEMMA PairJoins ==
  ASSUME NEW S, NEW a \in S, NEW b \in S
  PROVE  <<a>> \o <<b>> = <<a, b>>
<1> DEFINE s == <<a>> \o <<b>>
           t == <<a, b>>
<1>1. <<a>> \in Seq(S) /\ <<b>> \in Seq(S) /\ t \in Seq(S)
  OBVIOUS
<1>2. s \in Seq(S) /\ Len(s) = 2 /\ s[1] = a /\ s[2] = b
  BY <1>1, ConcatProperties
<1>3. Len(t) = 2 /\ t[1] = a /\ t[2] = b
  OBVIOUS
<1> HIDE DEF s, t
<1>4. s = t
  BY <1>1, <1>2, <1>3, SeqEqual
<1> QED
  BY <1>4 DEF s, t

LEMMA TripleJoins ==
  ASSUME NEW S, NEW a \in S, NEW b \in S, NEW d \in S
  PROVE  <<a>> \o <<b, d>> = <<a, b, d>>
<1> DEFINE s == <<a>> \o <<b, d>>
           t == <<a, b, d>>
<1>1. <<a>> \in Seq(S) /\ <<b, d>> \in Seq(S) /\ t \in Seq(S)
  OBVIOUS
<1>2. s \in Seq(S) /\ Len(s) = 3 /\ s[1] = a /\ s[2] = b /\ s[3] = d
  BY <1>1, ConcatProperties
<1>3. Len(t) = 3 /\ t[1] = a /\ t[2] = b /\ t[3] = d
  OBVIOUS
<1> HIDE DEF s, t
<1>4. s = t
  BY <1>1, <1>2, <1>3, SeqEqual
<1> QED
  BY <1>4 DEF s, t

-----------------------------------------------------------------------------
(* Each step is one of the service promised, or none that a browser can see. *)

\* What a browser sees of a connection when its life goes on.
LEMMA PhaseKept ==
  ASSUME \A d \in Conns : \/ conn'[d] = conn[d]
                          \/ {conn[d], conn'[d]} \subseteq {"backlog", "open"}
  PROVE  Phase' = Phase
BY DEF Phase

\* A connection is opened or closed, and the others are not.
LEMMA PhaseMoves ==
  ASSUME NEW c \in Conns, NEW ph \in {"open", "closed"},
         IF ph = "open" THEN conn'[c] \in {"backlog", "open"} ELSE conn'[c] = ph,
         \A d \in Conns \ {c} : conn'[d] = conn[d]
  PROVE  Phase' = [Phase EXCEPT ![c] = ph]
<1>1. \A d \in Conns : Phase'[d] = IF d = c THEN ph ELSE Phase[d]
  BY DEF Phase
<1>2. Phase \in [Conns -> {Phase[d] : d \in Conns}] /\ Phase' = [d \in Conns |-> Phase'[d]]
  BY DEF Phase
<1> QED
  BY <1>1, <1>2

LEMMA BrowserServes ==
  ASSUME Patient', IInv, ServiceInv, NEW c \in Conns, Browser(c)
  PROVE  [Service!Next]_(Service!vars)
<1>1. CASE Connect(c)
  <2>1. Phase[c] = "away" /\ Phase' = [Phase EXCEPT ![c] = "open"]
    <3>1. conn[c] = "away" /\ conn'[c] = "backlog" /\ \A d \in Conns \ {c} : conn'[d] = conn[d]
      BY <1>1 DEF Connect, IInv, TypeOK
    <3> QED
      BY <3>1, PhaseMoves DEF Phase
  <2> QED
    BY <1>1, <2>1 DEF Connect, server, Service!Open, Service!Next
<1>2. CASE HangUp(c) \/ SendRest(c)
  BY <1>2 DEF HangUp, SendRest, server, Phase, Service!vars
<1>3. ASSUME NEW q \in Reqs, Send(c, q) \/ SendFirstPiece(c, q)
      PROVE  Service!Ask(c, q)
  <2>1. /\ conn[c] \in {"backlog", "open"} /\ asked[q] = None /\ ~ HasAsked(c)
        /\ asked' = [asked EXCEPT ![q] = c] /\ UNCHANGED <<conn, wire>>
    BY <1>3, PatientSends DEF Send, SendFirstPiece, MaySend, server
  <2>2. Phase[c] = "open" /\ Phase' = Phase
    BY <2>1 DEF Phase
  <2> QED
    BY <2>1, <2>2 DEF HasAsked, Service!Ask, Service!Unasked
<1> QED
  BY <1>1, <1>2, <1>3 DEF Browser, Service!Next

LEMMA ReadEndServes ==
  ASSUME IInv, ServiceInv, NEW fd \in FD, NEW c \in Conns, ReadEnd(fd, c)
  PROVE  Service!CloseUnasked(c)
<1>1. conn[c] = "open" /\ ~ HasAsked(c)
  BY DEF ReadEnd, Reads, IInv, ConnHasOneFd, ServiceInv, LeftUnasked
<1>2. conn'[c] = "closed" /\ \A d \in Conns \ {c} : conn'[d] = conn[d]
  BY CloseKeeps DEF ReadEnd
<1>3. Phase[c] = "open" /\ Phase' = [Phase EXCEPT ![c] = "closed"]
  BY <1>1, <1>2, PhaseMoves DEF Phase
<1> QED
  BY <1>1, <1>3 DEF ReadEnd, HasAsked, Service!CloseUnasked, Service!Unasked

\* RES_HEAD is the first thing written on a connection.
LEMMA HeadServes ==
  ASSUME IInv, ServiceInv, NEW fd \in FD, NEW c \in Conns, NEW q \in Reqs, ReadsRequest(fd, c, q)
  PROVE  /\ conn[c] = "open" /\ Phase[c] = "open" /\ asked[q] = c /\ wire[c] = <<>>
         /\ wire' = [wire EXCEPT ![c] = << <<q, "head">> >>]
<1>1. /\ asked[q] = c /\ Waiting(q) /\ kernel[fd] = c
      /\ wire'[c] = << <<q, "head">> >>
  BY HeadWritten
<1>2. wire[c] = <<>> /\ conn[c] = "open"
  BY <1>1 DEF Waiting, IInv, ConnHasOneFd
<1>3. wire' = [wire EXCEPT ![c] = Append(@, <<q, "head">>)]
  BY DEF ReadsRequest
<1>4. wire' = [wire EXCEPT ![c] = << <<q, "head">> >>]
  BY <1>1, <1>3 DEF IInv, TypeOK
<1> QED
  BY <1>1, <1>2, <1>4 DEF Phase

LEMMA ReadServes ==
  ASSUME IInv, ServiceInv, NEW fd \in FD, NEW c \in Conns, NEW q \in Reqs,
         ReadReject(fd, c, q) \/ ReadTile(fd, c, q) \/ ReadTileNoDb(fd, c, q)
  PROVE  Service!Serve(c)
<1>1. ReadsRequest(fd, c, q) /\ UNCHANGED asked
  BY DEF ReadReject, ReadTile, ReadTileNoDb
<1>2. /\ conn[c] = "open" /\ Phase[c] = "open" /\ asked[q] = c /\ wire[c] = <<>>
      /\ wire' = [wire EXCEPT ![c] = << <<q, "head">> >>]
  BY <1>1, HeadServes
<1>3. CASE ReadReject(fd, c, q)
  <2>1. conn'[c] = "closed" /\ \A d \in Conns \ {c} : conn'[d] = conn[d]
    BY <1>3, CloseKeeps DEF ReadReject, ReadsRequest
  <2>2. Phase' = [Phase EXCEPT ![c] = "closed"]
    BY <2>1, PhaseMoves
  <2> QED
    BY <1>1, <1>2, <2>2 DEF Service!Drop, Service!Serve
<1>4. CASE ReadTile(fd, c, q) \/ ReadTileNoDb(fd, c, q)
  <2>1. Phase' = Phase
    BY <1>4 DEF ReadTile, ReadTileNoDb, Phase
  <2> QED
    BY <1>1, <1>2, <2>1 DEF Service!BeginAnswer, Service!Serve
<1> QED
  BY <1>3, <1>4

\* fmt_res_bin ends the answer of the request.
LEMMA ReplyServes ==
  ASSUME RoomToWrite, IInv, ServiceInv, NEW fd \in FD, NEW q \in Reqs,
         ReplyEmpty(fd, q) \/ ReplyRows(fd, q)
  PROVE  asked[q] \in Conns /\ Service!EndAnswer(asked[q], q)
<1> DEFINE c == asked[q]
<1>1. PICK parts \in Answers(q) : Replies(fd, q) /\ Finish(q, parts)
  BY DEF ReplyEmpty, ReplyRows, RoomToWrite, Answers
<1>2. c \in Conns /\ Querying(q) /\ conn[c] = "open"
  BY <1>1, RepliesQueries
<1>3. /\ wire' = [wire EXCEPT ![c] = @ \o parts] /\ conn' = [conn EXCEPT ![c] = "closed"]
      /\ asked' = asked
  BY <1>1, <1>2 DEF Finish, Querying
<1>4. Phase[c] = "open" /\ Phase' = [Phase EXCEPT ![c] = "closed"]
  <2>1. conn'[c] = "closed" /\ \A d \in Conns \ {c} : conn'[d] = conn[d]
    BY <1>2, <1>3 DEF IInv, TypeOK
  <2> QED
    BY <1>2, <2>1, PhaseMoves DEF Phase
<1>5. wire[c] = << <<q, "head">> >>
  BY <1>2 DEF Querying
<1> QED
  BY <1>1, <1>2, <1>3, <1>4, <1>5 DEF Answers, Service!EndAnswer

LEMMA VisitServes ==
  ASSUME RoomToWrite, IInv, ServiceInv, NEW fd \in FD, Visit(fd)
  PROVE  [Service!Next]_(Service!vars)
<1>1. CASE SkipDeleted(fd) \/ AcceptFails(fd)
  BY <1>1 DEF SkipDeleted, AcceptFails, browsers, Phase, Service!vars
<1>2. CASE \E c \in Conns : ReadAgain(fd, c) \/ ReadPiece(fd, c)
  BY <1>2 DEF ReadAgain, ReadPiece, browsers, Phase, Service!vars
<1>3. ASSUME NEW c \in Conns, Accept(fd, c)
      PROVE  UNCHANGED Service!vars
  <2>1. \A d \in Conns : \/ conn'[d] = conn[d]
                         \/ {conn[d], conn'[d]} \subseteq {"backlog", "open"}
    BY <1>3 DEF Accept, IInv, TypeOK
  <2>2. Phase' = Phase
    BY <2>1, PhaseKept
  <2> QED
    BY <1>3, <2>2 DEF Accept, Service!vars
<1>4. CASE \E c \in Conns : ReadEnd(fd, c)
  BY <1>4, ReadEndServes DEF Service!Next
<1>5. CASE \E c \in Conns, q \in Reqs :
             ReadReject(fd, c, q) \/ ReadTile(fd, c, q) \/ ReadTileNoDb(fd, c, q)
  BY <1>5, ReadServes DEF Service!Next
<1>6. CASE DbBinCb(fd)
  BY <1>6, ReplyServes DEF DbBinCb, Service!Serve, Service!Next
<1>7. CASE WriteSigpipe(fd)
  BY <1>7, NoSigpipe
<1> QED
  BY <1>1, <1>2, <1>3, <1>4, <1>5, <1>6, <1>7 DEF Visit, AcceptCb, ReadCb

LEMMA StepServes ==
  ASSUME RoomToWrite
  PROVE  IInv /\ ServiceInv /\ Patient' /\ [Next]_vars => [Service!Next]_(Service!vars)
<1> SUFFICES ASSUME IInv, ServiceInv, Patient', [Next]_vars PROVE [Service!Next]_(Service!vars)
  OBVIOUS
<1>1. CASE Poll
  BY <1>1 DEF Poll, browsers, Phase, Service!vars
<1>2. CASE \E fd \in FD : Visit(fd)
  BY <1>2, VisitServes
<1>3. CASE \E c \in Conns : Browser(c)
  BY <1>3, BrowserServes
<1>4. CASE \E q \in Reqs : Database(q)
  BY <1>4 DEF Database, DbFirstBytes, DbDone, server, browsers, Phase, Service!vars
<1>5. CASE UNCHANGED vars
  BY <1>5 DEF vars, Phase, Service!vars
<1> QED
  BY <1>1, <1>2, <1>3, <1>4, <1>5 DEF Next, Loop

-----------------------------------------------------------------------------
(* The theorems. *)

\* Only browsers that leave or send change who has left and asked what.
LEMMA BrowsersMove ==
  ASSUME [Next]_vars
  PROVE  \/ UNCHANGED <<left, asked>>
         \/ \E c \in Conns : HangUp(c) \/ \E q \in Reqs : Send(c, q) \/ SendFirstPiece(c, q)
<1>1. CASE Loop
  <2>1. CASE Poll
    BY <2>1 DEF Poll, browsers
  <2>2. ASSUME NEW fd \in FD, Visit(fd) PROVE UNCHANGED <<left, asked>>
    BY <2>2 DEF Visit, AcceptCb, ReadCb, DbBinCb, SkipDeleted, AcceptFails, Accept, ReadEnd, ReadAgain,
       ReadPiece, ReadReject, ReadTile, ReadTileNoDb, ReplyEmpty, ReplyRows, WriteSigpipe, Finish,
       browsers
  <2> QED
    BY <1>1, <2>1, <2>2 DEF Loop
<1>2. CASE \E c \in Conns : Browser(c)
  BY <1>2 DEF Browser, Connect, SendRest
<1>3. CASE \E q \in Reqs : Database(q)
  BY <1>3 DEF Database, DbFirstBytes, DbDone, browsers
<1>4. CASE UNCHANGED vars
  BY <1>4 DEF vars
<1> QED
  BY <1>1, <1>2, <1>3, <1>4 DEF Next

\* Patience that is lost stays lost: browsers that have left or asked stay so.
LEMMA PatienceLasts ==
  IInv /\ Patient' /\ [Next]_vars => Patient
<1> SUFFICES ASSUME IInv, Patient', [Next]_vars PROVE Patient
  OBVIOUS
<1>1. left \subseteq left' /\ \A q \in Reqs : asked[q] \in Conns => asked'[q] = asked[q]
  <2>1. CASE UNCHANGED <<left, asked>>
    BY <2>1
  <2>2. CASE \E c \in Conns : HangUp(c)
    BY <2>2 DEF HangUp
  <2>3. CASE \E c \in Conns, q \in Reqs : Send(c, q) \/ SendFirstPiece(c, q)
    BY <2>3, NamesAssumption DEF Send, SendFirstPiece, MaySend, IInv, TypeOK
  <2> QED
    BY <2>1, <2>2, <2>3, BrowsersMove
<1>2. \A c \in Conns : HasAsked(c) => HasAsked(c)'
  BY <1>1 DEF HasAsked
<1>3. left \subseteq Conns
  BY DEF IInv, TypeOK
<1> QED
  BY <1>1, <1>2, <1>3 DEF Patient, OneRequest, LeftUnasked

\* Every request goes through its stages, one at a time to a connection, and the server
\* stays up but for what it cannot parse or open, until a browser is impatient.
THEOREM ServiceHolds == Spec => [](Patient => ServiceInv /\ Endings)
<1>1. Init => (Patient => ServiceInv /\ Endings)
  BY InitService DEF Init, Endings
<1>2. IInv /\ (Patient => ServiceInv /\ Endings) /\ [Next]_vars => (Patient => ServiceInv /\ Endings)'
  BY PatienceLasts, ServiceStep, EndsStep
<1> QED
  BY <1>1, <1>2, Invariant, PTL DEF Spec

\* Browsers that can neither leave early nor ask again are patient.
LEMMA PatientStep ==
  ASSUME PatientBrowsers
  PROVE  IInv /\ Patient /\ [Next]_vars => Patient'
<1> SUFFICES ASSUME IInv, Patient, [Next]_vars PROVE Patient'
  OBVIOUS
<1>1. CASE \E c \in Conns : HangUp(c)
  BY <1>1 DEF HangUp, PatientBrowsers, Patient, OneRequest, LeftUnasked, HasAsked
<1>2. ASSUME NEW c \in Conns, NEW q \in Reqs, Send(c, q) \/ SendFirstPiece(c, q)
      PROVE  Patient'
  <2>1. /\ c \notin left /\ ~ HasAsked(c) /\ left' = left
        /\ asked' = [asked EXCEPT ![q] = c]
    BY <1>2 DEF Send, SendFirstPiece, MaySend, PatientBrowsers
  <2>2. asked'[q] = c /\ \A s \in Reqs \ {q} : asked'[s] = asked[s] /\ asked[s] # c
    BY <2>1 DEF IInv, TypeOK, HasAsked
  <2>3. OneRequest'
    BY <2>2 DEF Patient, OneRequest
  <2>4. LeftUnasked'
    BY <2>1, <2>2 DEF Patient, LeftUnasked, HasAsked
  <2> QED
    BY <2>3, <2>4 DEF Patient
<1>3. CASE UNCHANGED <<left, asked>>
  BY <1>3 DEF Patient, OneRequest, LeftUnasked, HasAsked
<1> QED
  BY <1>1, <1>2, <1>3, BrowsersMove

THEOREM PatientServed ==
  ASSUME PatientBrowsers
  PROVE  Spec => [](Patient /\ ServiceInv)
<1>1. Init => Patient
  BY NamesAssumption DEF Init, Patient, OneRequest, LeftUnasked
<1> QED
  BY <1>1, PatientStep, ServiceHolds, Invariant, PTL DEF Spec

LEMMA StagesAnswerOwn == IInv /\ ServiceInv => RightConnection
<1> SUFFICES ASSUME IInv, ServiceInv, NEW c \in Conns, NEW i \in DOMAIN wire[c]
             PROVE  asked[wire[c][i][1]] = c
  BY DEF RightConnection
<1>1. HasAsked(c)
  BY DEF ServiceInv, UnaskedSilent
<1>2. PICK q \in Reqs : asked[q] = c
  BY <1>1 DEF HasAsked
<1>3. Asked(q)
  BY <1>2, NamesAssumption DEF ServiceInv, Stages, Unsent
<1>4. wire[c][i][1] = q
  <2>1. CASE wire[c] = <<>>
    BY <2>1
  <2>2. CASE wire[c] = << <<q, "head">> >>
    BY <2>2
  <2>3. CASE \E parts \in Answers(q) \cup CutAnswers(q) : wire[c] = << <<q, "head">> >> \o parts
    BY <2>3 DEF Answers, CutAnswers
  <2> QED
    BY <1>2, <1>3, <2>1, <2>2, <2>3 DEF Asked, Waiting, Querying, Answered, Given, Dropped
<1> QED
  BY <1>2, <1>4

\* Only impatient browsers harm others (fmt_res_bin of canvasback.c, with its stale
\* client->fd): with every fault on, until a browser leaves before its answer or asks
\* again, answers go to those who asked, no session is taken for a ready one, and neither
\* SIGPIPE nor an assertion on a slot in or out of use ends the server.
THEOREM PatienceIsEnough == Spec => []PatienceSuffices
<1>1. IInv /\ (Patient => ServiceInv /\ Endings) => PatienceSuffices
  BY StagesAnswerOwn DEF ServiceInv, Endings, PatienceSuffices
<1> QED
  BY <1>1, ServiceHolds, Invariant, PTL

\* README, a query returns its records: what is written on a connection answers the
\* request sent on it, whatever fails, splits or fills up meanwhile - as long as no
\* browser leaves or asks again before its answer.
THEOREM AnswersOwnRequest ==
  ASSUME PatientBrowsers
  PROVE  Spec => []RightConnection
BY StagesAnswerOwn, Invariant, PatientServed, PTL

\* README, a query returns an array of records: with room to write, a connection that
\* the server has closed carries nothing, the bare head of a dropped request, or one
\* complete chunked answer.
THEOREM AnswersAreWhole ==
  ASSUME PatientBrowsers, RoomToWrite
  PROVE  Spec => []ResponseWhole
<1>1. IInv /\ ServiceInv => ResponseWhole
  <2> SUFFICES ASSUME IInv, ServiceInv, NEW c \in Conns, conn[c] = "closed"
               PROVE  \/ wire[c] = <<>>
                      \/ \E q \in Reqs :
                           \/ db[q] = "none" /\ wire[c] = << <<q, "head">> >>
                           \/ wire[c] = << <<q, "head">>, <<q, "chunk">>, <<q, "last">> >>
                           \/ wire[c] = << <<q, "head">>, <<q, "last">> >>
    BY DEF ResponseWhole
  <2>1. CASE ~ HasAsked(c)
    BY <2>1 DEF ServiceInv, UnaskedSilent
  <2>2. CASE HasAsked(c)
    <3>1. PICK q \in Reqs : asked[q] = c
      BY <2>2 DEF HasAsked
    <3>2. Asked(q)
      BY <3>1, NamesAssumption DEF ServiceInv, Stages, Unsent
    <3>3. CASE Waiting(q)
      BY <3>1, <3>3 DEF Waiting
    <3>4. CASE Querying(q)
      <4>1. client[q].fd \in FD
        BY <3>4 DEF Querying, IInv, TypeOK, ClientT
      <4> QED
        BY <3>1, <3>4, <4>1 DEF Querying, IInv, ConnHasOneFd
    <3>5. CASE Answered(q)
      <4>1. \/ wire[c] = << <<q, "head">> >> \o << <<q, "last">> >>
            \/ wire[c] = << <<q, "head">> >> \o << <<q, "chunk">>, <<q, "last">> >>
        BY <3>1, <3>5 DEF Answered, Given, Answers
      <4>2. /\ << <<q, "head">> >> \o << <<q, "last">> >> = << <<q, "head">>, <<q, "last">> >>
            /\ << <<q, "head">> >> \o << <<q, "chunk">>, <<q, "last">> >>
                 = << <<q, "head">>, <<q, "chunk">>, <<q, "last">> >>
        <5> DEFINE S == {q} \X Parts
        <5>1. <<q, "head">> \in S /\ <<q, "chunk">> \in S /\ <<q, "last">> \in S
          BY DEF Parts
        <5> HIDE DEF S
        <5>2. << <<q, "head">> >> \o << <<q, "last">> >> = << <<q, "head">>, <<q, "last">> >>
          BY <5>1, PairJoins
        <5>3. << <<q, "head">> >> \o << <<q, "chunk">>, <<q, "last">> >>
                 = << <<q, "head">>, <<q, "chunk">>, <<q, "last">> >>
          BY <5>1, TripleJoins
        <5> QED
          BY <5>2, <5>3
      <4> QED
        BY <4>1, <4>2
    <3>6. CASE Dropped(q)
      BY <3>1, <3>6 DEF Dropped
    <3> QED
      BY <3>2, <3>3, <3>4, <3>5, <3>6 DEF Asked
  <2> QED
    BY <2>1, <2>2
<1> QED
  BY <1>1, Invariant, PatientServed, PTL

\* db_bin_cb is only called when the session has something to read: PQgetResult does
\* not hold the loop for a query that the database has not begun to answer.
THEOREM ResultsAreReady ==
  ASSUME PatientBrowsers
  PROVE  Spec => []NoStrayResult
<1>1. ServiceInv => NoStrayResult
  BY DEF ServiceInv
<1> QED
  BY <1>1, PatientServed, PTL

\* No assertion and no signal ends the server: every assert of picoev.h and of
\* read_cb holds, and no write is to a connection its browser has left, when requests
\* arrive whole and there are descriptors for all of them.
THEOREM ServerStaysUp ==
  ASSUME PatientBrowsers, NothingFails
  PROVE  Spec => []StaysUp
<1>1. Init => UpInv
  BY DEF Init, UpInv, Running
<1>2. UpInv => StaysUp
  BY DEF UpInv, StaysUp
<1> QED
  BY <1>1, <1>2, UpStep, Invariant, PatientServed, PTL DEF Spec

\* README: a connection carries one query and gets one answer, and is then closed.
\* What the server does, seen from its browsers, is a behaviour of TileService; that
\* every query is answered in the end is the fairness part, which TLC checks.
THEOREM ServiceSafely ==
  ASSUME PatientBrowsers, RoomToWrite
  PROVE  Spec => Service!SafeSpec
<1>1. Init => Service!Init
  BY DEF Init, Phase, Service!Init
<1> QED
  BY <1>1, StepServes, Invariant, PatientServed, PTL DEF Spec, Service!SafeSpec
=============================================================================
