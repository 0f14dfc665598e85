-------------------------- MODULE CanvasbackProofs --------------------------
(***************************************************************************)
(* What the server keeps true in any surroundings, for every number of     *)
(* connections, requests and descriptors.                                  *)
(***************************************************************************)
EXTENDS Canvasback, SequenceTheorems, TLAPS

-----------------------------------------------------------------------------
(***************************************************************************)
(* The inductive invariant.  The properties of Canvasback are its first    *)
(* conjuncts; the others say why no callback can break them.               *)
(***************************************************************************)

\* fmt_res_bin closes client->fd whatever it is by then, but never the listener.
ClientFdNotListener == \A q \in Reqs : client[q] # None => client[q].fd # ListenFd

\* A request that has not been read has no session yet, so that a second
\* client_t for it cannot come up while db_bin_cb holds the first.
UnreadHasNoSession ==
  \A q \in Reqs : (asked[q] = None \/ \E c \in Conns : rx[c] = q) =>
    \A fd \in FD : kernel[fd] # q

\* A request waits in the buffer of the connection it was sent on.
BufferedWasAsked == \A c \in Conns : rx[c] # None => asked[rx[c]] = c

\* An accepted connection has one descriptor while it is open.
ConnHasOneFd ==
  \A fd \in FD : kernel[fd] \in Conns =>
    /\ conn[kernel[fd]] = "open"
    /\ \A g \in FD : kernel[g] = kernel[fd] => g = fd

\* The listener has the lowest descriptor, so it is visited first in a pass,
\* before any callback can close what readfds holds.
ListenerFirst == ListenFd \in ready => \A fd \in ready : kernel[fd] # Free

IInv ==
  /\ TypeOK
  /\ TableMatchesKernel
  /\ CallbackArgLive
  /\ AddFindsSlotFree
  /\ NoStrayRead
  /\ ClientFdNotListener
  /\ UnreadHasNoSession
  /\ BufferedWasAsked
  /\ ConnHasOneFd
  /\ ListenerFirst

-----------------------------------------------------------------------------
(* Facts about the table operators of Picoev. *)

\* picoev_add leaves a well-typed table.
LEMMA AddType ==
  ASSUME NEW table \in [FD -> Slot], NEW fd \in FD, NEW arg \in Reqs \cup {None},
         NEW cb \in {"none", "accept_cb", "read_cb", "db_bin_cb"}
  PROVE  PicoevAdd(table, fd, {"READ"}, cb, arg) \in [FD -> Slot]
BY DEF PicoevAdd, Slot, LoopId

\* So does picoev_del.
LEMMA DelType ==
  ASSUME NEW table \in [FD -> Slot], NEW fd \in FD
  PROVE  PicoevDel(table, fd) \in [FD -> Slot]
BY DEF PicoevDel, EmptySlot, Slot, LoopId

\* picoev_add changes the slot of its descriptor and no other.
LEMMA AddSlots ==
  ASSUME NEW table \in [FD -> Slot], NEW fd \in FD, NEW cb, NEW arg, NEW g \in FD
  PROVE  PicoevAdd(table, fd, {"READ"}, cb, arg)[g] =
           IF g = fd THEN [loop_id |-> LoopId, events |-> {"READ"},
                           callback |-> cb, cb_arg |-> arg]
           ELSE table[g]
BY DEF PicoevAdd

\* picoev_del empties the slot of its descriptor and no other.
LEMMA DelSlots ==
  ASSUME NEW table \in [FD -> Slot], NEW fd \in FD, NEW g \in FD
  PROVE  PicoevDel(table, fd)[g] = IF g = fd THEN EmptySlot ELSE table[g]
BY DEF PicoevDel

\* The listening socket has a descriptor of the process.
LEMMA ListenFdIsFd == ListenFd \in FD /\ FD \subseteq Nat
BY FdAssumption DEF FD, ListenFd

-----------------------------------------------------------------------------
\* main starts well typed.
LEMMA InitType == Init => TypeOK
<1> SUFFICES ASSUME Init PROVE TypeOK
  OBVIOUS
<1>1. EmptyTable \in [FD -> Slot]
  BY DEF EmptyTable, EmptySlot, Slot, LoopId
<1>2. fds \in [FD -> Slot]
  BY <1>1, AddType, ListenFdIsFd DEF Init
<1> QED
  BY <1>2 DEF Init, TypeOK, Outcomes, DbStates

\* The label CLOSE of read_cb keeps the types of what it touches.
LEMMA CloseConnType ==
  ASSUME TypeOK, NEW fd \in FD, NEW c \in Conns, CloseConn(fd, c)
  PROVE  /\ fds' \in [FD -> Slot]
         /\ proc' \in Outcomes
         /\ kernel' \in [FD -> {Free, Listener} \cup Conns \cup Reqs]
         /\ conn' \in [Conns -> {"away", "backlog", "open", "closed"}]
BY DelType DEF CloseConn, TypeOK, DelOutcome, Outcomes

\* So does reading a request and writing RES_HEAD.
LEMMA ReadsRequestType ==
  ASSUME TypeOK, NEW fd \in FD, NEW c \in Conns, NEW q \in Reqs, ReadsRequest(fd, c, q)
  PROVE  /\ rx' \in [Conns -> Reqs \cup {None}]
         /\ wire' \in [Conns -> Seq(Reqs \X Parts)]
         /\ ready' \subseteq FD
<1>1. <<q, "head">> \in Reqs \X Parts
  BY DEF Parts
<1>2. Append(wire[c], <<q, "head">>) \in Seq(Reqs \X Parts)
  BY <1>1, AppendProperties DEF TypeOK
<1> QED
  BY <1>2 DEF ReadsRequest, Reads, Calls, Visited, TypeOK

\* So does the end of fmt_res_bin, whatever client->fd is open on by then.
LEMMA FinishType ==
  ASSUME TypeOK, NEW q \in Reqs, client[q] # None, NEW parts \in Seq(Reqs \X Parts),
         Finish(q, parts), ready' \subseteq FD
  PROVE  TypeOK'
<1>1. client[q].fd \in FD /\ client[q].dbfd \in FD
  BY DEF TypeOK, ClientT
<1> DEFINE target == kernel[client[q].fd]
<1>2. ASSUME target \in Conns
      PROVE  wire[target] \o parts \in Seq(Reqs \X Parts)
  BY <1>2, ConcatProperties DEF TypeOK
<1>3. wire' \in [Conns -> Seq(Reqs \X Parts)]
  BY <1>2 DEF Finish, Closed, Deleted, TypeOK
<1>4. fds' \in [FD -> Slot] /\ proc' \in Outcomes
  BY <1>1, DelType DEF Finish, Closed, Deleted, TypeOK, DelOutcome, Outcomes
<1>5. /\ kernel' \in [FD -> {Free, Listener} \cup Conns \cup Reqs]
      /\ client' \in [Reqs -> ClientT \cup {None}]
      /\ conn' \in [Conns -> {"away", "backlog", "open", "closed"}]
      /\ rx' \in [Conns -> Reqs \cup {None}]
      /\ part' \subseteq Conns
      /\ db' \in [Reqs -> DbStates]
      /\ left' \subseteq Conns
      /\ asked' \in [Reqs -> Conns \cup {None}]
  BY DEF Finish, Closed, Deleted, TypeOK, DbStates
<1> QED
  BY <1>3, <1>4, <1>5 DEF TypeOK

-----------------------------------------------------------------------------
(* What a visit of a pass knows. *)

\* An open descriptor is registered, with the callback of its kind.
LEMMA RegisteredSlot ==
  ASSUME IInv, NEW fd \in FD, Registered(fds, fd)
  PROVE  /\ kernel[fd] # Free
         /\ fds[fd].callback = "accept_cb" => fd = ListenFd
         /\ fds[fd].callback = "read_cb" => fd # ListenFd /\ kernel[fd] \in Conns
         /\ fds[fd].callback = "db_bin_cb" =>
              LET q == fds[fd].cb_arg
              IN  /\ fd # ListenFd /\ q \in Reqs /\ kernel[fd] = q
                  /\ client[q] # None /\ client[q].dbfd = fd
BY NamesAssumption DEF IInv, TypeOK, TableMatchesKernel, CallbackArgLive

\* The listener is visited first or not at all.
LEMMA VisitReady ==
  ASSUME IInv, NEW fd \in FD, NextInPass(fd), Visited(fd)
  PROVE  /\ ready' \subseteq ready
         /\ fd \notin ready'
         /\ ListenFd \notin ready'
<1>1. ListenFd \in ready => fd = ListenFd
  BY ListenFdIsFd DEF NextInPass, FD, IInv, TypeOK, ListenFd
<1> QED
  BY <1>1 DEF Visited

-----------------------------------------------------------------------------
(* Each action keeps the inductive invariant. *)

\* A browser connects.
LEMMA ConnectInv ==
  ASSUME IInv, NEW c \in Conns, Connect(c)
  PROVE  IInv'
<1> USE DEF Connect, server
<1>1. TypeOK'
  BY DEF IInv, TypeOK
<1>2. TableMatchesKernel' /\ CallbackArgLive' /\ AddFindsSlotFree'
  BY DEF IInv, TableMatchesKernel, CallbackArgLive, AddFindsSlotFree, Registered
<1>3. NoStrayRead'
  BY NamesAssumption DEF IInv, NoStrayRead, Readable
<1>4. ClientFdNotListener' /\ UnreadHasNoSession' /\ BufferedWasAsked' /\ ListenerFirst'
  BY DEF IInv, ClientFdNotListener, UnreadHasNoSession, BufferedWasAsked, ListenerFirst
<1>5. ConnHasOneFd'
  BY DEF IInv, TypeOK, ConnHasOneFd
<1> QED
  BY <1>1, <1>2, <1>3, <1>4, <1>5 DEF IInv

\* Send and SendFirstPiece.
LEMMA SendInv ==
  ASSUME IInv, NEW c \in Conns, NEW q \in Reqs, Send(c, q) \/ SendFirstPiece(c, q)
  PROVE  IInv'
<1>1. /\ asked[q] = None
      /\ asked' = [asked EXCEPT ![q] = c]
      /\ part' \subseteq part \cup {c}
      /\ UNCHANGED <<server, conn, left, db>>
  BY DEF Send, SendFirstPiece, MaySend
<1>2. rx' = [rx EXCEPT ![c] = IF rx[c] = None THEN q ELSE rx[c]]
  <2>1. CASE Send(c, q)
    BY <2>1 DEF Send
  <2>2. CASE SendFirstPiece(c, q)
    <3>1. rx[c] = None /\ rx' = [rx EXCEPT ![c] = q]
      BY <2>2 DEF SendFirstPiece
    <3>2. (IF rx[c] = None THEN q ELSE rx[c]) = q
      BY <3>1
    <3> QED
      BY <3>1, <3>2
  <2> QED
    BY <2>1, <2>2
<1> USE DEF server
<1>3. TypeOK'
  <2>1. asked' \in [Reqs -> Conns \cup {None}]
    BY <1>1 DEF IInv, TypeOK
  <2>2. rx' \in [Conns -> Reqs \cup {None}]
    BY <1>2 DEF IInv, TypeOK
  <2> QED
    BY <1>1, <2>1, <2>2 DEF IInv, TypeOK
<1>4. TableMatchesKernel' /\ CallbackArgLive' /\ AddFindsSlotFree'
  BY <1>1 DEF IInv, TableMatchesKernel, CallbackArgLive, AddFindsSlotFree, Registered
<1>5. /\ \A d \in Conns \ {c} : rx'[d] = rx[d]
      /\ rx'[c] = IF rx[c] = None THEN q ELSE rx[c]
  <2>1. rx \in [Conns -> Reqs \cup {None}]
    BY DEF IInv, TypeOK
  <2> QED
    BY <1>2, <2>1
<1>6. NoStrayRead'
  BY <1>1, <1>5, NamesAssumption DEF IInv, NoStrayRead, Readable
<1>7. ClientFdNotListener' /\ ConnHasOneFd' /\ ListenerFirst'
  BY <1>1 DEF IInv, ClientFdNotListener, ConnHasOneFd, ListenerFirst
<1>8. UnreadHasNoSession'
  <2>1. ASSUME NEW p \in Reqs, asked'[p] = None \/ \E d \in Conns : rx'[d] = p
        PROVE  asked[p] = None \/ \E d \in Conns : rx[d] = p
    BY <1>1, <1>5, <2>1, NamesAssumption DEF IInv, TypeOK
  <2> QED
    BY <1>1, <2>1 DEF IInv, UnreadHasNoSession
<1>9. BufferedWasAsked'
  <2> SUFFICES ASSUME NEW d \in Conns, rx'[d] # None
               PROVE  asked'[rx'[d]] = d
    BY DEF BufferedWasAsked
  <2>1. CASE rx'[d] = q
    BY <1>1, <1>5, <2>1, NamesAssumption DEF IInv, TypeOK, BufferedWasAsked
  <2>2. CASE rx'[d] # q
    BY <1>1, <1>5, <2>2 DEF IInv, TypeOK, BufferedWasAsked
  <2> QED
    BY <2>1, <2>2
<1> QED
  BY <1>3, <1>4, <1>6, <1>7, <1>8, <1>9 DEF IInv

\* Steps that leave the server and the buffers as they are.
LEMMA OutsideInv ==
  ASSUME IInv, TypeOK', left \subseteq left', UNCHANGED <<server, rx, conn, asked>>
  PROVE  IInv'
<1> USE DEF server
<1>1. TableMatchesKernel' /\ CallbackArgLive' /\ AddFindsSlotFree'
  BY DEF IInv, TableMatchesKernel, CallbackArgLive, AddFindsSlotFree, Registered
<1>2. NoStrayRead'
  BY NamesAssumption DEF IInv, NoStrayRead, Readable
<1>3. ClientFdNotListener' /\ UnreadHasNoSession' /\ BufferedWasAsked' /\ ConnHasOneFd'
      /\ ListenerFirst'
  BY DEF IInv, ClientFdNotListener, UnreadHasNoSession, BufferedWasAsked,
         ConnHasOneFd, ListenerFirst
<1> QED
  BY <1>1, <1>2, <1>3 DEF IInv

\* A browser hangs up or sends the rest of a request.
LEMMA QuietBrowserInv ==
  ASSUME IInv, NEW c \in Conns, SendRest(c) \/ HangUp(c)
  PROVE  IInv'
<1>1. left \subseteq left' /\ UNCHANGED <<server, rx, conn, asked>>
  BY DEF SendRest, HangUp
<1>2. TypeOK'
  BY DEF IInv, TypeOK, SendRest, HangUp, server
<1> QED
  BY <1>1, <1>2, OutsideInv

\* The database answers.
LEMMA DatabaseInv ==
  ASSUME IInv, NEW q \in Reqs, Database(q)
  PROVE  IInv'
<1>1. left \subseteq left' /\ UNCHANGED <<server, rx, conn, asked, part>>
  BY DEF Database, DbFirstBytes, DbDone, browsers
<1>2. TypeOK'
  <2>1. db' \in [Reqs -> DbStates]
    BY DEF IInv, TypeOK, Database, DbFirstBytes, DbDone, DbStates, Results
  <2>2. left' = left
    BY DEF Database, DbFirstBytes, DbDone, browsers
  <2> QED
    BY <1>1, <2>1, <2>2 DEF IInv, TypeOK, server
<1> QED
  BY <1>1, <1>2, OutsideInv

\* select() says what is readable.
LEMMA PollInv ==
  ASSUME IInv, Poll
  PROVE  IInv'
<1> USE DEF Poll, browsers
<1>1. ready' \subseteq {fd \in ReadSet(fds) : Readable(fd)}
  OBVIOUS
<1>2. TypeOK'
  BY <1>1 DEF IInv, TypeOK, ReadSet
<1>3. TableMatchesKernel' /\ CallbackArgLive' /\ AddFindsSlotFree'
  BY DEF IInv, TableMatchesKernel, CallbackArgLive, AddFindsSlotFree, Registered
<1>4. NoStrayRead'
  BY <1>1 DEF NoStrayRead, Readable
<1>5. ListenerFirst'
  BY <1>1 DEF IInv, TableMatchesKernel, ListenerFirst, ReadSet
<1>6. ClientFdNotListener' /\ UnreadHasNoSession' /\ BufferedWasAsked' /\ ConnHasOneFd'
  BY DEF IInv, ClientFdNotListener, UnreadHasNoSession, BufferedWasAsked, ConnHasOneFd
<1> QED
  BY <1>2, <1>3, <1>4, <1>5, <1>6 DEF IInv

\* Opening the descriptor newfd on x and adding it to the loop.
LEMMA OpenTable ==
  ASSUME IInv, NEW newfd \in FD, kernel[newfd] = Free,
         NEW x \in Conns \cup Reqs, NEW cb, NEW arg,
         cb = IF x \in Conns THEN "read_cb" ELSE "db_bin_cb",
         kernel' = [kernel EXCEPT ![newfd] = x],
         fds' = PicoevAdd(fds, newfd, {"READ"}, cb, arg)
  PROVE  /\ TableMatchesKernel'
         /\ AddOutcome(fds, newfd) \in Outcomes \ {"add: slot in use"}
         /\ newfd # ListenFd
<1>1. newfd # ListenFd /\ ~ Registered(fds, newfd)
  BY ListenFdIsFd, NamesAssumption DEF IInv, TableMatchesKernel
<1>2. x # Free /\ x # Listener
  BY NamesAssumption
<1>3. ASSUME NEW fd \in FD
      PROVE  /\ fd = newfd => kernel'[fd] = x
             /\ fd # newfd => kernel'[fd] = kernel[fd]
             /\ fd = newfd => fds'[fd].loop_id = LoopId /\ fds'[fd].callback = cb
             /\ fd # newfd => fds'[fd] = fds[fd]
  <2>1. fds \in [FD -> Slot] /\ kernel \in [FD -> {Free, Listener} \cup Conns \cup Reqs]
    BY DEF IInv, TypeOK
  <2>2. fds'[fd] = IF fd = newfd THEN [loop_id |-> LoopId, events |-> {"READ"},
                                       callback |-> cb, cb_arg |-> arg]
                   ELSE fds[fd]
    BY <2>1, AddSlots
  <2>3. kernel'[fd] = IF fd = newfd THEN x ELSE kernel[fd]
    BY <2>1
  <2> QED
    BY <2>2, <2>3
<1>4. TableMatchesKernel'
  <2> SUFFICES ASSUME NEW fd \in FD
               PROVE  /\ Registered(fds', fd) <=> kernel'[fd] # Free
                      /\ fd = ListenFd <=> kernel'[fd] = Listener
                      /\ Registered(fds', fd) =>
                           fds'[fd].callback =
                             IF fd = ListenFd THEN "accept_cb"
                             ELSE IF kernel'[fd] \in Conns THEN "read_cb" ELSE "db_bin_cb"
    BY DEF TableMatchesKernel, Registered
  <2>1. CASE fd = newfd
    BY <1>1, <1>2, <1>3, <2>1 DEF Registered
  <2>2. CASE fd # newfd
    BY <1>3, <2>2 DEF Registered, IInv, TableMatchesKernel
  <2> QED
    BY <2>1, <2>2
<1> QED
  BY <1>1, <1>4 DEF AddOutcome, Outcomes

\* Closing descriptors, none of them the listener, and deleting them.
LEMMA CloseTable ==
  ASSUME IInv, NEW S \in SUBSET FD, ListenFd \notin S,
         \A fd \in FD : kernel'[fd] = IF fd \in S THEN Free ELSE kernel[fd],
         \A fd \in FD : fds'[fd] = IF fd \in S THEN EmptySlot ELSE fds[fd]
  PROVE  TableMatchesKernel'
<1> SUFFICES ASSUME NEW fd \in FD
             PROVE  /\ Registered(fds', fd) <=> kernel'[fd] # Free
                    /\ fd = ListenFd <=> kernel'[fd] = Listener
                    /\ Registered(fds', fd) =>
                         fds'[fd].callback =
                           IF fd = ListenFd THEN "accept_cb"
                           ELSE IF kernel'[fd] \in Conns THEN "read_cb" ELSE "db_bin_cb"
  BY DEF TableMatchesKernel, Registered
<1>1. CASE fd \in S
  BY <1>1, NamesAssumption DEF Registered, EmptySlot, LoopId
<1>2. CASE fd \notin S
  BY <1>2 DEF Registered, IInv, TableMatchesKernel
<1> QED
  BY <1>1, <1>2

\* The pass leaves out a descriptor deleted meanwhile.
LEMMA SkipInv ==
  ASSUME IInv, NEW fd \in FD, NextInPass(fd), Visited(fd),
         proc' \in Outcomes \ {"add: slot in use"},
         \A c \in Conns : rx'[c] = rx[c] \/ (rx'[c] = None /\ c \in left),
         rx' \in [Conns -> Reqs \cup {None}],
         wire' \in [Conns -> Seq(Reqs \X Parts)],
         UNCHANGED <<fds, kernel, client, conn, left, part, asked, db>>
  PROVE  IInv'
<1>1. ready' \subseteq ready /\ ListenFd \notin ready'
  BY VisitReady
<1>2. TypeOK'
  BY <1>1 DEF IInv, TypeOK
<1>3. TableMatchesKernel' /\ CallbackArgLive' /\ AddFindsSlotFree'
  BY DEF IInv, TableMatchesKernel, CallbackArgLive, AddFindsSlotFree, Registered
<1>4. NoStrayRead'
  BY <1>1, NamesAssumption DEF IInv, TypeOK, NoStrayRead, Readable
<1>5. ClientFdNotListener' /\ ConnHasOneFd'
  BY DEF IInv, ClientFdNotListener, ConnHasOneFd
<1>6. UnreadHasNoSession'
  BY NamesAssumption DEF IInv, UnreadHasNoSession
<1>7. BufferedWasAsked' /\ ListenerFirst'
  BY <1>1 DEF IInv, BufferedWasAsked, ListenerFirst
<1> QED
  BY <1>2, <1>3, <1>4, <1>5, <1>6, <1>7 DEF IInv

\* accept_cb adds a connection to the loop.
LEMMA AcceptInv ==
  ASSUME IInv, NEW fd \in FD, NEW c \in Conns, Accept(fd, c)
  PROVE  IInv'
<1>1. PICK newfd \in FD :
        /\ kernel[newfd] = Free
        /\ kernel' = [kernel EXCEPT ![newfd] = c]
        /\ fds' = PicoevAdd(fds, newfd, {"READ"}, "read_cb", None)
        /\ proc' = AddOutcome(fds, newfd)
  BY DEF Accept, LowestFree
<1>2. /\ conn[c] = "backlog" /\ conn' = [conn EXCEPT ![c] = "open"]
      /\ UNCHANGED <<client, left, rx, part, asked, db, wire>>
      /\ NextInPass(fd) /\ Visited(fd) /\ fd \in ready
      /\ Registered(fds, fd) /\ fds[fd].callback = "accept_cb"
  BY DEF Accept, Calls, NextInPass
<1>3. fd = ListenFd
  BY <1>2, RegisteredSlot
<1>4. newfd \notin ready
  BY <1>1, <1>2, <1>3 DEF IInv, ListenerFirst
<1>5. ready' \subseteq ready /\ ListenFd \notin ready'
  BY <1>2, VisitReady
<1>6. TableMatchesKernel' /\ proc' \in Outcomes \ {"add: slot in use"} /\ newfd # ListenFd
  <2>1. "read_cb" = IF c \in Conns THEN "read_cb" ELSE "db_bin_cb"
    OBVIOUS
  <2> QED
    BY <1>1, <2>1, OpenTable
<1>7. /\ kernel'[newfd] = c
      /\ \A g \in FD \ {newfd} : kernel'[g] = kernel[g] /\ fds'[g] = fds[g]
  <2>1. fds \in [FD -> Slot] /\ kernel \in [FD -> {Free, Listener} \cup Conns \cup Reqs]
    BY DEF IInv, TypeOK
  <2>2. \A g \in FD \ {newfd} : fds'[g] = fds[g]
    BY <1>1, <2>1 DEF PicoevAdd
  <2> QED
    BY <1>1, <2>1, <2>2
<1>8. TypeOK'
  <2>1. fds' \in [FD -> Slot]
    BY <1>1, AddType DEF IInv, TypeOK
  <2>2. kernel' \in [FD -> {Free, Listener} \cup Conns \cup Reqs]
    BY <1>1 DEF IInv, TypeOK
  <2>3. conn' \in [Conns -> {"away", "backlog", "open", "closed"}]
    BY <1>2 DEF IInv, TypeOK
  <2> QED
    BY <1>2, <1>5, <1>6, <2>1, <2>2, <2>3 DEF IInv, TypeOK
<1>9. CallbackArgLive'
  BY <1>2, <1>7, NamesAssumption DEF IInv, CallbackArgLive
<1>10. NoStrayRead'
  <2>1. ASSUME NEW g \in ready', kernel'[g] \in Conns
        PROVE  g \in ready /\ kernel'[g] = kernel[g] /\ kernel[g] \in Conns
    BY <1>4, <1>5, <1>7, <2>1 DEF IInv, TypeOK
  <2>2. ASSUME NEW g \in ready', kernel'[g] \in Conns
        PROVE  rx[kernel[g]] # None \/ kernel[g] \in left
    BY <2>1, <2>2, NamesAssumption DEF IInv, NoStrayRead, Readable
  <2> QED
    BY <1>2, <2>1, <2>2 DEF NoStrayRead, Readable
<1>11. UnreadHasNoSession'
  BY <1>2, <1>7, NamesAssumption DEF IInv, UnreadHasNoSession
<1>12. ConnHasOneFd'
  <2>1. \A g \in FD : kernel[g] # c
    BY <1>2 DEF IInv, ConnHasOneFd
  <2>2. \A d \in Conns \ {c} : conn'[d] = conn[d]
    BY <1>2 DEF IInv, TypeOK
  <2>3. conn'[c] = "open"
    BY <1>2 DEF IInv, TypeOK
  <2> QED
    BY <1>7, <2>1, <2>2, <2>3 DEF IInv, ConnHasOneFd
<1>13. ClientFdNotListener' /\ BufferedWasAsked' /\ ListenerFirst' /\ AddFindsSlotFree'
  BY <1>2, <1>5, <1>6 DEF IInv, ClientFdNotListener, BufferedWasAsked, ListenerFirst,
                         AddFindsSlotFree
<1> QED
  BY <1>6, <1>8, <1>9, <1>10, <1>11, <1>12, <1>13 DEF IInv

\* The visits that change nothing but the pass, the buffer of a connection whose
\* browser has left, and the outcome of the process.
LEMMA QuietVisitInv ==
  ASSUME IInv, NEW fd \in FD,
         \/ SkipDeleted(fd) \/ AcceptFails(fd) \/ WriteSigpipe(fd)
         \/ \E c \in Conns : ReadAgain(fd, c) \/ ReadPiece(fd, c)
  PROVE  IInv'
<1> DEFINE Rest == UNCHANGED <<fds, kernel, client, conn, left, part, asked, db>>
<1>1. CASE SkipDeleted(fd) \/ AcceptFails(fd) \/ \E c \in Conns : ReadAgain(fd, c)
  <2>1. NextInPass(fd) /\ Visited(fd) /\ Rest /\ UNCHANGED <<proc, rx, wire>>
    BY <1>1 DEF SkipDeleted, AcceptFails, ReadAgain, Reads, Calls, browsers
  <2>2. proc' \in Outcomes \ {"add: slot in use"}
    BY <2>1 DEF IInv, TypeOK, AddFindsSlotFree
  <2>3. rx' = rx /\ rx' \in [Conns -> Reqs \cup {None}]
        /\ wire' \in [Conns -> Seq(Reqs \X Parts)]
    BY <2>1 DEF IInv, TypeOK
  <2> QED
    BY <2>1, <2>2, <2>3, SkipInv
<1>2. CASE \E c \in Conns : ReadPiece(fd, c)
  <2>1. NextInPass(fd) /\ Visited(fd) /\ Rest /\ UNCHANGED <<rx, wire>>
    BY <1>2 DEF ReadPiece, Reads, Calls, browsers
  <2>2. proc' \in Outcomes \ {"add: slot in use"}
    BY <1>2 DEF ReadPiece, Outcomes
  <2>3. rx' = rx /\ rx' \in [Conns -> Reqs \cup {None}]
        /\ wire' \in [Conns -> Seq(Reqs \X Parts)]
    BY <2>1 DEF IInv, TypeOK
  <2> QED
    BY <2>1, <2>2, <2>3, SkipInv
<1>3. CASE WriteSigpipe(fd)
  <2>1. NextInPass(fd) /\ Visited(fd) /\ Rest
    BY <1>3 DEF WriteSigpipe, ReadsRequest, Reads, Replies, Calls
  <2>2. proc' \in Outcomes \ {"add: slot in use"}
    BY <1>3 DEF WriteSigpipe, Outcomes
  <2>3. CASE UNCHANGED <<rx, wire>>
    <3>1. rx' = rx /\ rx' \in [Conns -> Reqs \cup {None}]
          /\ wire' \in [Conns -> Seq(Reqs \X Parts)]
      BY <2>3 DEF IInv, TypeOK
    <3> QED
      BY <2>1, <2>2, <3>1, SkipInv
  <2>4. CASE \E c \in left, q \in Reqs : ReadsRequest(fd, c, q)
    <3>1. PICK c \in left, q \in Reqs : ReadsRequest(fd, c, q)
      BY <2>4
    <3>2. TypeOK /\ c \in Conns
      BY DEF IInv, TypeOK
    <3>3. rx' \in [Conns -> Reqs \cup {None}] /\ wire' \in [Conns -> Seq(Reqs \X Parts)]
      BY <3>1, <3>2, ReadsRequestType
    <3>4. \A d \in Conns : rx'[d] = rx[d] \/ (rx'[d] = None /\ d \in left)
      BY <3>1, <3>2 DEF ReadsRequest, TypeOK
    <3> QED
      BY <2>1, <2>2, <3>3, <3>4, SkipInv
  <2> QED
    BY <1>3, <2>3, <2>4 DEF WriteSigpipe
<1> QED
  BY <1>1, <1>2, <1>3

\* What reading and closing a connection have in common: its buffer is emptied.
LEMMA CloseInv ==
  ASSUME IInv, NEW fd \in FD, NEW c \in Conns, Reads(fd, c), CloseConn(fd, c),
         rx' = [rx EXCEPT ![c] = None], part' \subseteq part,
         wire' \in [Conns -> Seq(Reqs \X Parts)],
         UNCHANGED <<client, left, asked, db>>
  PROVE  IInv'
<1>1. /\ NextInPass(fd) /\ Visited(fd) /\ Registered(fds, fd)
      /\ fds[fd].callback = "read_cb" /\ kernel[fd] = c
  BY DEF Reads, Calls
<1>2. fd # ListenFd
  BY <1>1, RegisteredSlot
<1>3. ready' \subseteq ready /\ fd \notin ready' /\ ListenFd \notin ready'
  BY <1>1, VisitReady
<1>4. \A g \in FD : kernel'[g] = IF g = fd THEN Free ELSE kernel[g]
  BY DEF CloseConn, IInv, TypeOK
<1>5. \A g \in FD : fds'[g] = IF g = fd THEN EmptySlot ELSE fds[g]
  BY DEF CloseConn, PicoevDel, IInv, TypeOK
<1>6. TypeOK'
  <2>1. TypeOK
    BY DEF IInv
  <2>2. rx' \in [Conns -> Reqs \cup {None}]
    BY DEF IInv, TypeOK
  <2> QED
    BY <1>3, <2>1, <2>2, CloseConnType DEF TypeOK
<1>7. TableMatchesKernel'
  <2>1. {fd} \in SUBSET FD /\ ListenFd \notin {fd}
    BY <1>2
  <2>2. \A g \in FD : kernel'[g] = IF g \in {fd} THEN Free ELSE kernel[g]
    BY <1>4
  <2>3. \A g \in FD : fds'[g] = IF g \in {fd} THEN EmptySlot ELSE fds[g]
    BY <1>5
  <2> QED
    BY <2>1, <2>2, <2>3, CloseTable
<1>8. CallbackArgLive'
  BY <1>4, <1>5, NamesAssumption DEF IInv, CallbackArgLive
<1>9. AddFindsSlotFree'
  BY DEF CloseConn, DelOutcome, AddFindsSlotFree
<1>10. \A g \in FD \ {fd} : kernel[g] # c
  BY <1>1 DEF IInv, ConnHasOneFd
<1>11. \A d \in Conns \ {c} : rx'[d] = rx[d] /\ conn'[d] = conn[d]
  BY DEF CloseConn, IInv, TypeOK
<1>12. NoStrayRead'
  <2>1. ASSUME NEW g \in ready', kernel'[g] \in Conns
        PROVE  g \in ready /\ kernel'[g] = kernel[g] /\ kernel[g] \in Conns \ {c}
    BY <1>3, <1>4, <1>10, <2>1 DEF IInv, TypeOK
  <2>2. ASSUME NEW g \in ready', kernel'[g] \in Conns
        PROVE  rx[kernel[g]] # None \/ kernel[g] \in left
    BY <2>1, <2>2, NamesAssumption DEF IInv, NoStrayRead, Readable
  <2> QED
    BY <1>11, <2>1, <2>2 DEF NoStrayRead, Readable
<1>13. ClientFdNotListener' /\ ListenerFirst'
  BY <1>3 DEF IInv, ClientFdNotListener, ListenerFirst
<1>14. rx'[c] = None
  BY DEF IInv, TypeOK
<1>15. UnreadHasNoSession' /\ BufferedWasAsked'
  BY <1>4, <1>11, <1>14, NamesAssumption DEF IInv, UnreadHasNoSession, BufferedWasAsked
<1>16. ConnHasOneFd'
  BY <1>4, <1>10, <1>11, NamesAssumption DEF IInv, ConnHasOneFd
<1> QED
  BY <1>6, <1>7, <1>8, <1>9, <1>12, <1>13, <1>15, <1>16 DEF IInv

\* read_cb closes a connection its browser has left.
LEMMA ReadEndInv ==
  ASSUME IInv, NEW fd \in FD, NEW c \in Conns, ReadEnd(fd, c)
  PROVE  IInv'
<1>1. Reads(fd, c) /\ CloseConn(fd, c) /\ rx' = [rx EXCEPT ![c] = None]
      /\ part' \subseteq part /\ UNCHANGED <<client, left, asked, db, wire>>
  BY DEF ReadEnd
<1>2. wire' \in [Conns -> Seq(Reqs \X Parts)]
  BY <1>1 DEF IInv, TypeOK
<1> QED
  BY <1>1, <1>2, CloseInv

\* read_cb closes a connection whose request it will not serve.
LEMMA ReadRejectInv ==
  ASSUME IInv, NEW fd \in FD, NEW c \in Conns, NEW q \in Reqs, ReadReject(fd, c, q)
  PROVE  IInv'
<1>1. Reads(fd, c) /\ CloseConn(fd, c) /\ rx' = [rx EXCEPT ![c] = None]
      /\ ReadsRequest(fd, c, q) /\ UNCHANGED <<client, left, part, asked, db>>
  BY DEF ReadReject, ReadsRequest
<1>2. wire' \in [Conns -> Seq(Reqs \X Parts)]
  BY <1>1, ReadsRequestType DEF IInv
<1> QED
  BY <1>1, <1>2, CloseInv

\* read_cb gets no session.
LEMMA ReadTileNoDbInv ==
  ASSUME IInv, NEW fd \in FD, NEW c \in Conns, NEW q \in Reqs, ReadTileNoDb(fd, c, q)
  PROVE  IInv'
<1>1. /\ NextInPass(fd) /\ Visited(fd) /\ kernel[fd] = c
      /\ rx' = [rx EXCEPT ![c] = None] /\ ReadsRequest(fd, c, q)
      /\ proc' = "add: fd out of range"
      /\ UNCHANGED <<fds, kernel, client, conn, left, part, asked, db>>
  <2>1. ~ FdInRange(-1)
    BY DEF FdInRange
  <2>2. AddOutcome(fds, -1) = "add: fd out of range"
    BY <2>1 DEF AddOutcome
  <2> QED
    BY <2>2 DEF ReadTileNoDb, ReadsRequest, Reads, Calls
<1>2. ready' \subseteq ready /\ fd \notin ready' /\ ListenFd \notin ready'
  BY <1>1, VisitReady
<1>3. TypeOK'
  <2>1. rx' \in [Conns -> Reqs \cup {None}] /\ wire' \in [Conns -> Seq(Reqs \X Parts)]
    BY <1>1, ReadsRequestType DEF IInv
  <2> QED
    BY <1>1, <1>2, <2>1 DEF IInv, TypeOK, Outcomes
<1>4. TableMatchesKernel' /\ CallbackArgLive' /\ AddFindsSlotFree'
  BY <1>1 DEF IInv, TableMatchesKernel, CallbackArgLive, AddFindsSlotFree, Registered
<1>5. rx'[c] = None /\ \A d \in Conns \ {c} : rx'[d] = rx[d]
  BY <1>1 DEF IInv, TypeOK
<1>6. NoStrayRead'
  <2>1. ASSUME NEW g \in ready', kernel'[g] \in Conns
        PROVE  g \in ready /\ kernel'[g] = kernel[g] /\ kernel[g] \in Conns \ {c}
    BY <1>1, <1>2, <2>1 DEF IInv, TypeOK, ConnHasOneFd
  <2>2. ASSUME NEW g \in ready', kernel'[g] \in Conns
        PROVE  rx[kernel[g]] # None \/ kernel[g] \in left
    BY <2>1, <2>2, NamesAssumption DEF IInv, NoStrayRead, Readable
  <2> QED
    BY <1>1, <1>5, <2>1, <2>2 DEF NoStrayRead, Readable
<1>7. ClientFdNotListener' /\ ConnHasOneFd' /\ ListenerFirst'
  BY <1>1, <1>2 DEF IInv, ClientFdNotListener, ConnHasOneFd, ListenerFirst
<1>8. UnreadHasNoSession' /\ BufferedWasAsked'
  BY <1>1, <1>5, NamesAssumption DEF IInv, UnreadHasNoSession, BufferedWasAsked
<1> QED
  BY <1>3, <1>4, <1>6, <1>7, <1>8 DEF IInv

\* read_cb opens a session and adds its socket to the loop.
LEMMA ReadTileInv ==
  ASSUME IInv, NEW fd \in FD, NEW c \in Conns, NEW q \in Reqs, ReadTile(fd, c, q)
  PROVE  IInv'
<1>1. PICK dbfd \in FD :
        /\ kernel[dbfd] = Free
        /\ kernel' = [kernel EXCEPT ![dbfd] = q]
        /\ fds' = PicoevAdd(fds, dbfd, {"READ"}, "db_bin_cb", q)
        /\ proc' = AddOutcome(fds, dbfd)
        /\ client' = [client EXCEPT ![q] = [fd |-> fd, dbfd |-> dbfd]]
  BY DEF ReadTile, LowestFree
<1>2. /\ NextInPass(fd) /\ Visited(fd) /\ fd \in ready /\ kernel[fd] = c
      /\ Registered(fds, fd) /\ fds[fd].callback = "read_cb"
      /\ rx[c] = q /\ rx' = [rx EXCEPT ![c] = None] /\ ReadsRequest(fd, c, q)
      /\ db' = [db EXCEPT ![q] = "busy"]
      /\ UNCHANGED <<conn, left, part, asked>>
  BY DEF ReadTile, ReadsRequest, Reads, Calls, NextInPass
<1>3. fd # ListenFd
  BY <1>2, RegisteredSlot
<1>4. ready' \subseteq ready /\ fd \notin ready' /\ ListenFd \notin ready'
  BY <1>2, VisitReady
<1>5. TableMatchesKernel' /\ proc' \in Outcomes \ {"add: slot in use"}
  <2>1. "db_bin_cb" = IF q \in Conns THEN "read_cb" ELSE "db_bin_cb"
    BY NamesAssumption
  <2> QED
    BY <1>1, <2>1, OpenTable
<1>6. /\ kernel'[dbfd] = q
      /\ \A g \in FD \ {dbfd} : kernel'[g] = kernel[g]
      /\ fds'[dbfd].cb_arg = q
      /\ \A g \in FD \ {dbfd} : fds'[g] = fds[g]
  <2>1. fds \in [FD -> Slot] /\ kernel \in [FD -> {Free, Listener} \cup Conns \cup Reqs]
    BY DEF IInv, TypeOK
  <2>2. fds'[dbfd].cb_arg = q /\ \A g \in FD \ {dbfd} : fds'[g] = fds[g]
    BY <1>1, <2>1 DEF PicoevAdd
  <2> QED
    BY <1>1, <2>1, <2>2
<1>7. /\ client'[q] = [fd |-> fd, dbfd |-> dbfd]
      /\ \A p \in Reqs \ {q} : client'[p] = client[p]
  BY <1>1 DEF IInv, TypeOK
<1>8. rx'[c] = None /\ \A d \in Conns \ {c} : rx'[d] = rx[d]
  BY <1>2 DEF IInv, TypeOK
<1>9. TypeOK'
  <2>1. rx' \in [Conns -> Reqs \cup {None}] /\ wire' \in [Conns -> Seq(Reqs \X Parts)]
    BY <1>2, ReadsRequestType DEF IInv
  <2>2. fds' \in [FD -> Slot]
    BY <1>1, AddType DEF IInv, TypeOK
  <2>3. kernel' \in [FD -> {Free, Listener} \cup Conns \cup Reqs]
    BY <1>1 DEF IInv, TypeOK
  <2>4. client' \in [Reqs -> ClientT \cup {None}]
    BY <1>1 DEF IInv, TypeOK, ClientT
  <2>5. db' \in [Reqs -> DbStates]
    BY <1>2 DEF IInv, TypeOK, DbStates
  <2> QED
    BY <1>2, <1>4, <1>5, <2>1, <2>2, <2>3, <2>4, <2>5 DEF IInv, TypeOK
<1>10. \A g \in FD : kernel[g] # q
  BY <1>2 DEF IInv, UnreadHasNoSession
<1>11. CallbackArgLive'
  <2> SUFFICES ASSUME NEW g \in FD, kernel'[g] \in Reqs
               PROVE  LET p == fds'[g].cb_arg
                      IN  p = kernel'[g] /\ client'[p] # None /\ client'[p].dbfd = g
    BY DEF CallbackArgLive
  <2>1. CASE g = dbfd
    <3>1. [fd |-> fd, dbfd |-> dbfd] # None
      BY NamesAssumption DEF ClientT
    <3> QED
      BY <1>6, <1>7, <2>1, <3>1
  <2>2. CASE g # dbfd
    BY <1>6, <1>7, <1>10, <2>2 DEF IInv, CallbackArgLive
  <2> QED
    BY <2>1, <2>2
<1>12. AddFindsSlotFree'
  BY <1>5 DEF AddFindsSlotFree
<1>13. NoStrayRead'
  <2>1. ASSUME NEW g \in ready', kernel'[g] \in Conns
        PROVE  g \in ready /\ kernel'[g] = kernel[g] /\ kernel[g] \in Conns \ {c}
    BY <1>2, <1>4, <1>6, <2>1, NamesAssumption DEF IInv, TypeOK, ConnHasOneFd
  <2>2. ASSUME NEW g \in ready', kernel'[g] \in Conns
        PROVE  rx[kernel[g]] # None \/ kernel[g] \in left
    BY <2>1, <2>2, NamesAssumption DEF IInv, NoStrayRead, Readable
  <2> QED
    BY <1>2, <1>8, <2>1, <2>2 DEF NoStrayRead, Readable
<1>14. ClientFdNotListener' /\ ListenerFirst'
  BY <1>3, <1>4, <1>7 DEF IInv, ClientFdNotListener, ListenerFirst
<1>15. UnreadHasNoSession'
  <2> SUFFICES ASSUME NEW p \in Reqs, asked'[p] = None \/ \E d \in Conns : rx'[d] = p,
                      NEW g \in FD
               PROVE  kernel'[g] # p
    BY DEF UnreadHasNoSession
  <2>1. asked[p] = None \/ \E d \in Conns \ {c} : rx[d] = p
    BY <1>2, <1>8, NamesAssumption
  <2>2. asked[q] = c
    BY <1>2, NamesAssumption DEF IInv, BufferedWasAsked
  <2>3. p # q
    BY <2>1, <2>2, NamesAssumption DEF IInv, BufferedWasAsked
  <2> QED
    BY <1>6, <2>1, <2>3 DEF IInv, UnreadHasNoSession
<1>16. BufferedWasAsked'
  BY <1>2, <1>8 DEF IInv, BufferedWasAsked
<1>17. ConnHasOneFd'
  BY <1>2, <1>6, NamesAssumption DEF IInv, ConnHasOneFd
<1> QED
  BY <1>5, <1>9, <1>11, <1>12, <1>13, <1>14, <1>15, <1>16, <1>17 DEF IInv

\* fmt_res_bin closes two descriptors; whatever client->fd is open on by then, it
\* is not the listener, and nothing else loses its slot.
LEMMA FinishInv ==
  ASSUME IInv, NEW fd \in FD, NEW q \in Reqs, NEW parts \in Seq(Reqs \X Parts),
         Replies(fd, q), Finish(q, parts)
  PROVE  IInv'
<1> DEFINE cfd == client[q].fd
           target == kernel[cfd]
<1>1. /\ NextInPass(fd) /\ Visited(fd) /\ Registered(fds, fd)
      /\ fds[fd].callback = "db_bin_cb" /\ fds[fd].cb_arg = q
  BY DEF Replies, Calls
<1>2. /\ fd # ListenFd /\ kernel[fd] = q
      /\ client[q] # None /\ client[q].dbfd = fd
  BY <1>1, RegisteredSlot
<1>3. cfd \in FD /\ cfd # ListenFd
  BY <1>2 DEF IInv, TypeOK, ClientT, ClientFdNotListener
<1>4. ready' \subseteq ready /\ fd \notin ready' /\ ListenFd \notin ready'
  BY <1>1, VisitReady
<1>5. TypeOK'
  <2>1. TypeOK /\ ready' \subseteq FD
    BY <1>4 DEF IInv, TypeOK
  <2> QED
    BY <1>2, <2>1, FinishType
<1> HIDE DEF cfd
<1>6. \A g \in FD : kernel'[g] = IF g \in {fd, cfd} THEN Free ELSE kernel[g]
  BY <1>2, <1>3 DEF Finish, Closed, Deleted, IInv, TypeOK, cfd
<1>7. \A g \in FD : fds'[g] = IF g \in {fd, cfd} THEN EmptySlot ELSE fds[g]
  <2>1. fds' = PicoevDel(PicoevDel(fds, cfd), fd)
    BY <1>2 DEF Finish, Closed, Deleted, cfd
  <2>2. fds \in [FD -> Slot]
    BY DEF IInv, TypeOK
  <2> QED
    BY <1>3, <2>1, <2>2 DEF PicoevDel
<1>8. TableMatchesKernel'
  <2>1. {fd, cfd} \in SUBSET FD /\ ListenFd \notin {fd, cfd}
    BY <1>2, <1>3
  <2> QED
    BY <1>6, <1>7, <2>1, CloseTable
<1>9. client'[q] = None /\ \A p \in Reqs \ {q} : client'[p] = client[p]
  BY DEF Finish, Closed, Deleted, IInv, TypeOK
<1>10. CallbackArgLive'
  <2> SUFFICES ASSUME NEW g \in FD, kernel'[g] \in Reqs
               PROVE  LET p == fds'[g].cb_arg
                      IN  p = kernel'[g] /\ client'[p] # None /\ client'[p].dbfd = g
    BY DEF CallbackArgLive
  <2>1. g # fd /\ kernel'[g] = kernel[g] /\ fds'[g] = fds[g]
    BY <1>6, <1>7, NamesAssumption
  <2>2. kernel[g] # q
    BY <1>2, <2>1 DEF IInv, CallbackArgLive
  <2> QED
    BY <1>9, <2>1, <2>2 DEF IInv, CallbackArgLive
<1>11. AddFindsSlotFree'
  BY DEF Finish, Closed, Deleted, DelOutcome, AddFindsSlotFree
<1>12. ASSUME NEW d \in Conns, d # target
       PROVE  rx'[d] = rx[d] /\ conn'[d] = conn[d]
  BY <1>12 DEF Finish, Closed, Deleted, IInv, TypeOK, cfd
<1>13. ASSUME NEW d \in Conns
       PROVE  rx'[d] = rx[d] \/ rx'[d] = None
  BY DEF Finish, Closed, Deleted, IInv, TypeOK
<1>14. ASSUME NEW g \in FD, kernel'[g] \in Conns
       PROVE  g \notin {fd, cfd} /\ kernel'[g] = kernel[g] /\ kernel[g] # target
  BY <1>3, <1>6, <1>14, NamesAssumption DEF IInv, ConnHasOneFd
<1>15. left' = left /\ asked' = asked
  BY DEF Finish, Closed, Deleted
<1>16. NoStrayRead'
  <2>1. ASSUME NEW g \in ready', kernel'[g] \in Conns
        PROVE  g \in FD /\ g \in ready /\ kernel'[g] = kernel[g] /\ kernel[g] # target
    BY <1>4, <1>14, <2>1 DEF IInv, TypeOK
  <2>2. ASSUME NEW g \in ready', kernel'[g] \in Conns
        PROVE  rx[kernel[g]] # None \/ kernel[g] \in left
    BY <2>1, <2>2, NamesAssumption DEF IInv, NoStrayRead, Readable
  <2> QED
    BY <1>12, <1>15, <2>1, <2>2 DEF NoStrayRead, Readable
<1>17. ClientFdNotListener' /\ ListenerFirst'
  BY <1>4, <1>9 DEF IInv, ClientFdNotListener, ListenerFirst
<1>18. UnreadHasNoSession'
  <2> SUFFICES ASSUME NEW p \in Reqs, asked'[p] = None \/ \E d \in Conns : rx'[d] = p,
                      NEW g \in FD
               PROVE  kernel'[g] # p
    BY DEF UnreadHasNoSession
  <2>1. asked[p] = None \/ \E d \in Conns : rx[d] = p
    BY <1>13, <1>15, NamesAssumption
  <2> QED
    BY <1>6, <2>1, NamesAssumption DEF IInv, UnreadHasNoSession
<1>19. BufferedWasAsked'
  BY <1>13, <1>15 DEF IInv, BufferedWasAsked
<1>20. ConnHasOneFd'
  BY <1>12, <1>14 DEF IInv, ConnHasOneFd
<1> QED
  BY <1>5, <1>8, <1>10, <1>11, <1>16, <1>17, <1>18, <1>19, <1>20 DEF IInv

\* db_bin_cb answers, with or without rows.
LEMMA ReplyInv ==
  ASSUME IInv, NEW fd \in FD, NEW q \in Reqs, ReplyEmpty(fd, q) \/ ReplyRows(fd, q)
  PROVE  IInv'
<1> DEFINE Answers == { << <<q, "last">> >>, << <<q, "chunk">>, <<q, "last">> >>,
                        << <<q, "cut">> >>, << <<q, "cut">>, <<q, "last">> >> }
<1>1. Replies(fd, q) /\ \E parts \in Answers : Finish(q, parts)
  BY DEF ReplyEmpty, ReplyRows
<1>2. Answers \subseteq Seq(Reqs \X Parts)
  <2>1. \A p \in Parts : <<q, p>> \in Reqs \X Parts
    OBVIOUS
  <2>2. \A p \in {"last", "chunk", "cut"} : <<q, p>> \in Reqs \X Parts
    BY <2>1 DEF Parts
  <2> QED
    BY <2>2
<1> QED
  BY <1>1, <1>2, FinishInv

-----------------------------------------------------------------------------
(* The theorems. *)

\* The invariant holds when main enters its loop.
LEMMA InitInv == Init => IInv
<1> SUFFICES ASSUME Init PROVE IInv
  OBVIOUS
<1>1. TypeOK
  BY InitType
<1>2. \A fd \in FD : fds[fd] = IF fd = ListenFd
                               THEN [loop_id |-> LoopId, events |-> {"READ"},
                                     callback |-> "accept_cb", cb_arg |-> None]
                               ELSE EmptySlot
  BY ListenFdIsFd DEF Init, PicoevAdd, EmptyTable
<1>3. \A fd \in FD : kernel[fd] = IF fd = ListenFd THEN Listener ELSE Free
  BY DEF Init
<1>4. TableMatchesKernel
  BY <1>2, <1>3, NamesAssumption DEF TableMatchesKernel, Registered, EmptySlot, LoopId
<1>5. \A fd \in FD : kernel[fd] \notin Conns /\ kernel[fd] \notin Reqs
  BY <1>3, NamesAssumption
<1>6. CallbackArgLive /\ NoStrayRead /\ ConnHasOneFd /\ UnreadHasNoSession
  BY <1>5 DEF Init, CallbackArgLive, NoStrayRead, ConnHasOneFd, UnreadHasNoSession
<1>7. AddFindsSlotFree /\ ClientFdNotListener /\ BufferedWasAsked /\ ListenerFirst
  BY DEF Init, AddFindsSlotFree, ClientFdNotListener, BufferedWasAsked, ListenerFirst
<1> QED
  BY <1>1, <1>4, <1>6, <1>7 DEF IInv

\* Nothing happens.
LEMMA StutterInv == IInv /\ UNCHANGED vars => IInv'
<1> SUFFICES ASSUME IInv, UNCHANGED vars PROVE IInv'
  OBVIOUS
<1> USE DEF vars
<1>1. TypeOK' /\ TableMatchesKernel' /\ CallbackArgLive' /\ AddFindsSlotFree'
  BY DEF IInv, TypeOK, TableMatchesKernel, CallbackArgLive, AddFindsSlotFree, Registered
<1>2. NoStrayRead' /\ ClientFdNotListener' /\ UnreadHasNoSession' /\ BufferedWasAsked'
      /\ ConnHasOneFd' /\ ListenerFirst'
  BY DEF IInv, NoStrayRead, Readable, ClientFdNotListener, UnreadHasNoSession,
         BufferedWasAsked, ConnHasOneFd, ListenerFirst
<1> QED
  BY <1>1, <1>2 DEF IInv

\* Every callback of a pass keeps the invariant.
LEMMA VisitInv ==
  ASSUME IInv, NEW fd \in FD, Visit(fd)
  PROVE  IInv'
<1>1. CASE \/ SkipDeleted(fd) \/ AcceptFails(fd) \/ WriteSigpipe(fd)
           \/ \E c \in Conns : ReadAgain(fd, c) \/ ReadPiece(fd, c)
  BY <1>1, QuietVisitInv
<1>2. CASE \E c \in Conns : Accept(fd, c)
  BY <1>2, AcceptInv
<1>3. CASE \E c \in Conns : ReadEnd(fd, c)
  BY <1>3, ReadEndInv
<1>4. CASE \E c \in Conns : \E q \in Reqs : ReadReject(fd, c, q)
  BY <1>4, ReadRejectInv
<1>5. CASE \E c \in Conns : \E q \in Reqs : ReadTile(fd, c, q)
  BY <1>5, ReadTileInv
<1>6. CASE \E c \in Conns : \E q \in Reqs : ReadTileNoDb(fd, c, q)
  BY <1>6, ReadTileNoDbInv
<1>7. CASE DbBinCb(fd)
  BY <1>7, ReplyInv DEF DbBinCb
<1> QED
  BY <1>1, <1>2, <1>3, <1>4, <1>5, <1>6, <1>7 DEF Visit, AcceptCb, ReadCb

\* Every step does.
LEMMA NextInv == IInv /\ [Next]_vars => IInv'
<1> SUFFICES ASSUME IInv, [Next]_vars PROVE IInv'
  OBVIOUS
<1>1. CASE Loop
  BY <1>1, PollInv, VisitInv DEF Loop
<1>2. CASE \E c \in Conns : Connect(c)
  BY <1>2, ConnectInv
<1>3. CASE \E c \in Conns : \E q \in Reqs : Send(c, q) \/ SendFirstPiece(c, q)
  BY <1>3, SendInv
<1>4. ASSUME NEW c \in Conns, SendRest(c) \/ HangUp(c)
      PROVE  IInv'
  BY <1>4, QuietBrowserInv
<1>5. ASSUME NEW q \in Reqs, Database(q)
      PROVE  IInv'
  BY <1>5, DatabaseInv
<1>6. CASE UNCHANGED vars
  BY <1>6, StutterInv
<1> QED
  BY <1>1, <1>2, <1>3, <1>4, <1>5, <1>6 DEF Next, Browser

\* The invariant holds in every state of the server, whatever the faults.
THEOREM Invariant == Spec => []IInv
BY InitInv, NextInv, PTL DEF Spec

\* Every variable of the server keeps its type.
THEOREM TypeCorrect == Spec => []TypeOK
<1>1. IInv => TypeOK
  BY DEF IInv
<1> QED
  BY <1>1, Invariant, PTL

\* After every callback, whatever browsers and database do, the descriptors open
\* in the process are exactly those registered with the loop, each with the
\* callback of its kind.
THEOREM TableAgrees == Spec => []TableMatchesKernel
<1>1. IInv => TableMatchesKernel
  BY DEF IInv
<1> QED
  BY <1>1, Invariant, PTL

\* The client_t that db_bin_cb is given is always allocated and its own.
THEOREM CallbackArgCorrect == Spec => []CallbackArgLive
<1>1. IInv => CallbackArgLive
  BY DEF IInv
<1> QED
  BY <1>1, Invariant, PTL

\* The assertion of picoev_add that the slot is free never fails.
THEOREM AddNeverCollides == Spec => []AddFindsSlotFree
<1>1. IInv => AddFindsSlotFree
  BY DEF IInv
<1> QED
  BY <1>1, Invariant, PTL

\* read_cb never runs on a connection with nothing to read.
THEOREM ReadsAreReady == Spec => []NoStrayRead
<1>1. IInv => NoStrayRead
  BY DEF IInv
<1> QED
  BY <1>1, Invariant, PTL
=============================================================================
