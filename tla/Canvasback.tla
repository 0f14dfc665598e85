----------------------------- MODULE Canvasback -----------------------------
(***************************************************************************)
(* The tile server of canvasback.c: one thread, one picoev loop on select, *)
(* non-blocking browser sockets and one libpq connection per request.      *)
(*                                                                         *)
(* A step of the server is one callback run to its end, as in the code;    *)
(* browsers and the database act between callbacks.  Each connection c is  *)
(* one TCP connection of a browser, each request q one HTTP request.  The  *)
(* client_t that read_cb allocates for q, the libpq session it opens and   *)
(* the socket of that session all carry the name q.                        *)
(***************************************************************************)
EXTENDS Integers, Sequences

CONSTANTS Conns,      \* browser connections
          Reqs,       \* requests; bounds how many are ever sent
          FdLimit,    \* RLIMIT_NOFILE of the process
          Faults,     \* what the surroundings may do, see FaultKinds
          Free,       \* a descriptor that is not open
          Listener,   \* the listening socket
          None        \* no request, no client_t, NULL

(***************************************************************************)
(* "hangup"      a browser may close before its answer is complete         *)
(* "pipeline"    a browser may send again on the same connection           *)
(* "split"       a request may reach read() in two pieces                  *)
(* "db_down"     PQconnectStart may fail                                   *)
(* "slow_reader" the send buffer may be full, so write() is short          *)
(* "interrupt"   read() may return EINTR or EAGAIN                         *)
(***************************************************************************)
FaultKinds == {"hangup", "pipeline", "split", "db_down", "slow_reader", "interrupt"}

\* main opens the listening socket first, after stdin, stdout and stderr.
ListenFd == 3
FD == ListenFd..(FdLimit - 1)
FdSetSize == 1024

\* tms2bbox, the tile and the query text are data; the two descriptors are not.
ClientT == [fd : FD, dbfd : FD]

ASSUME FaultsAssumption == Faults \subseteq FaultKinds
\* Beyond FD_SETSIZE the FD_SET of select() is undefined.
ASSUME FdAssumption == FdLimit \in Nat /\ ListenFd < FdLimit /\ FdLimit <= FdSetSize
ASSUME NamesAssumption ==
  /\ Conns \cap Reqs = {}
  /\ {Free, Listener, None} \cap (Conns \cup Reqs) = {}
  /\ Free # Listener
  /\ None \notin ClientT

VARIABLES
  proc,     \* "running", or the assertion or signal that ended the process
  fds,      \* picoev.fds
  kernel,   \* what each descriptor of the process is open on
  ready,    \* readfds of the current pass, less the descriptors already visited
  client,   \* the heap: client_t of each request, None if not allocated
  conn,     \* life of a connection: away, backlog, open, closed (by the server)
  left,     \* connections whose browser has closed its end
  rx,       \* first request in the receive buffer of a connection
  part,     \* connections of which only the first piece of rx has arrived
  asked,    \* history: the connection a request was sent on
  db,       \* libpq session of a request
  wire      \* history: what was written on a connection, in order

vars == <<proc, fds, kernel, ready, client, conn, left, rx, part, asked, db, wire>>

server == <<proc, fds, kernel, ready, client, wire>>
browsers == <<conn, left, rx, part, asked>>

INSTANCE Picoev WITH NoArg <- None

Running == proc = "running"

\* The lowest descriptor not in use: what accept() and socket() return.
LowestFree(fd) ==
  /\ kernel[fd] = Free
  /\ \A g \in FD : kernel[g] = Free => fd <= g

NoneFree == \A g \in FD : kernel[g] # Free

-----------------------------------------------------------------------------
(* Browsers *)

HasAsked(c) == \E q \in Reqs : asked[q] = c

Connect(c) ==
  /\ Running
  /\ conn[c] = "away"
  /\ conn' = [conn EXCEPT ![c] = "backlog"]
  /\ UNCHANGED <<server, left, rx, part, asked, db>>

MaySend(c, q) ==
  /\ Running
  /\ conn[c] \in {"backlog", "open"}
  /\ c \notin left
  /\ c \notin part
  /\ asked[q] = None
  /\ "pipeline" \in Faults \/ ~ HasAsked(c)

\* read() drains the buffer and only its first request is parsed, so a request
\* queued behind another one leaves no trace.
Send(c, q) ==
  /\ MaySend(c, q)
  /\ asked' = [asked EXCEPT ![q] = c]
  /\ rx' = [rx EXCEPT ![c] = IF @ = None THEN q ELSE @]
  /\ UNCHANGED <<server, conn, left, part, db>>

SendFirstPiece(c, q) ==
  /\ "split" \in Faults
  /\ MaySend(c, q)
  /\ rx[c] = None
  /\ asked' = [asked EXCEPT ![q] = c]
  /\ rx' = [rx EXCEPT ![c] = q]
  /\ part' = part \cup {c}
  /\ UNCHANGED <<server, conn, left, db>>

SendRest(c) ==
  /\ Running
  /\ c \in part \ left
  /\ part' = part \ {c}
  /\ UNCHANGED <<server, conn, left, rx, asked, db>>

HangUp(c) ==
  /\ Running
  /\ conn[c] \in {"backlog", "open"}
  /\ c \notin left
  /\ "hangup" \in Faults \/ ~ HasAsked(c)
  /\ left' = left \cup {c}
  /\ UNCHANGED <<server, conn, rx, part, asked, db>>

(***************************************************************************)
(* The database.  A session is "busy" once its query is sent; its socket   *)
(* turns readable with the first bytes ("some") and the result completes   *)
(* as "rows", or as "empty": no row, an error result, or no result because *)
(* the server refused the session after accepting the socket.              *)
(***************************************************************************)
Results == {"rows", "empty"}

DbFirstBytes(q) ==
  /\ Running
  /\ db[q] = "busy"
  /\ db' = [db EXCEPT ![q] = "some"]
  /\ UNCHANGED <<server, browsers>>

DbDone(q) ==
  /\ Running
  /\ db[q] \in {"busy", "some"}
  /\ \E result \in Results : db' = [db EXCEPT ![q] = result]
  /\ UNCHANGED <<server, browsers>>

-----------------------------------------------------------------------------
(* picoev_poll_once_internal *)

Readable(fd) ==
  \/ kernel[fd] = Listener /\ \E c \in Conns : conn[c] = "backlog"
  \/ kernel[fd] \in Conns /\ (rx[kernel[fd]] # None \/ kernel[fd] \in left)
  \/ kernel[fd] \in Reqs /\ db[kernel[fd]] \in Results \cup {"some"}

\* select() fails with EBADF when a descriptor of readfds is not open; the loop
\* of main ignores the failure.
SelectOk == \A fd \in ReadSet(fds) : kernel[fd] # Free

\* Variant of Poll: the sets that select() is given are taken for its answer.
PollWithoutSelect ==
  /\ Running
  /\ ready = {}
  /\ ready' = ReadSet(fds)
  /\ UNCHANGED <<proc, fds, kernel, client, wire, browsers, db>>

Poll ==
  /\ Running
  /\ ready = {}
  /\ ready' = IF SelectOk THEN {fd \in ReadSet(fds) : Readable(fd)} ELSE {}
  /\ UNCHANGED <<proc, fds, kernel, client, wire, browsers, db>>

\* Variant of NextInPass: in the order of the events, as an epoll loop would.
PassInAnyOrder(fd) == Running /\ fd \in ready

\* The pass visits readfds by increasing descriptor.
NextInPass(fd) ==
  /\ Running
  /\ fd \in ready
  /\ \A g \in ready : fd <= g

\* Variant of Visited: the pass stays on the descriptor.
VisitedAgain(fd) == fd \in ready /\ ready' = ready

Visited(fd) == ready' = ready \ {fd}

\* The slot was deleted earlier in the pass.
SkipDeleted(fd) ==
  /\ NextInPass(fd)
  /\ ~ Registered(fds, fd)
  /\ Visited(fd)
  /\ UNCHANGED <<proc, fds, kernel, client, wire, browsers, db>>

Calls(fd, callback) ==
  /\ NextInPass(fd)
  /\ Registered(fds, fd)
  /\ fds[fd].callback = callback
  /\ Visited(fd)

-----------------------------------------------------------------------------
(* accept_cb *)

Accept(fd, c) ==
  /\ Calls(fd, "accept_cb")
  /\ conn[c] = "backlog"
  /\ \E newfd \in FD :
       /\ LowestFree(newfd)
       /\ kernel' = [kernel EXCEPT ![newfd] = c]
       /\ fds' = PicoevAdd(fds, newfd, {"READ"}, "read_cb", None)
       /\ proc' = AddOutcome(fds, newfd)
  /\ conn' = [conn EXCEPT ![c] = "open"]
  /\ UNCHANGED <<client, left, rx, part, asked, db, wire>>

\* accept() returns -1 with EMFILE: the connection stays in the backlog.
AcceptFails(fd) ==
  /\ Calls(fd, "accept_cb")
  /\ NoneFree
  /\ UNCHANGED <<proc, fds, kernel, client, browsers, db, wire>>

-----------------------------------------------------------------------------
(* read_cb *)

Reads(fd, c) == Calls(fd, "read_cb") /\ kernel[fd] = c

\* Variant of CloseConn: close() without picoev_del.
CloseWithoutDel(fd, c) ==
  /\ UNCHANGED <<fds, proc>>
  /\ kernel' = [kernel EXCEPT ![fd] = Free]
  /\ conn' = [conn EXCEPT ![c] = "closed"]

\* The label CLOSE of read_cb.
CloseConn(fd, c) ==
  /\ fds' = PicoevDel(fds, fd)
  /\ proc' = DelOutcome(fds, fd)
  /\ kernel' = [kernel EXCEPT ![fd] = Free]
  /\ conn' = [conn EXCEPT ![c] = "closed"]

\* read() returns 0 at the end of the stream or -1 after a reset, which drops
\* what was buffered.
ReadEnd(fd, c) ==
  /\ Reads(fd, c)
  /\ c \in left
  /\ CloseConn(fd, c)
  /\ rx' = [rx EXCEPT ![c] = None]
  /\ part' = part \ {c}
  /\ UNCHANGED <<client, left, asked, db, wire>>

\* EINTR or EAGAIN: return, and the client_t allocated on entry is lost.
ReadAgain(fd, c) ==
  /\ "interrupt" \in Faults
  /\ Reads(fd, c)
  /\ UNCHANGED <<proc, fds, kernel, client, browsers, db, wire>>

\* phr_parse_request returns -2 and assert(r > 0) ends the process.
ReadPiece(fd, c) ==
  /\ Reads(fd, c)
  /\ rx[c] # None
  /\ c \in part
  /\ proc' = "read_cb: r > 0"
  /\ UNCHANGED <<fds, kernel, client, browsers, db, wire>>

\* A whole request is read and RES_HEAD is written.
ReadsRequest(fd, c, q) ==
  /\ Reads(fd, c)
  /\ rx[c] = q
  /\ c \notin part
  /\ rx' = [rx EXCEPT ![c] = None]
  /\ wire' = [wire EXCEPT ![c] = Append(@, <<q, "head">>)]

\* More than 45 tokens stand before the address, see TileAddress: CLOSE.
ReadReject(fd, c, q) ==
  /\ ReadsRequest(fd, c, q)
  /\ CloseConn(fd, c)
  /\ UNCHANGED <<client, left, part, asked, db>>

\* Variant of ReadTile: no return before the label CLOSE.
ReadTileThenClose(fd, c, q) ==
  /\ ReadsRequest(fd, c, q)
  /\ \E dbfd \in FD :
       /\ LowestFree(dbfd)
       /\ kernel' = [kernel EXCEPT ![dbfd] = q, ![fd] = Free]
       /\ fds' = PicoevDel(PicoevAdd(fds, dbfd, {"READ"}, "db_bin_cb", q), fd)
       /\ proc' = AddOutcome(fds, dbfd)
       /\ client' = [client EXCEPT ![q] = [fd |-> fd, dbfd |-> dbfd]]
  /\ db' = [db EXCEPT ![q] = "busy"]
  /\ conn' = [conn EXCEPT ![c] = "closed"]
  /\ UNCHANGED <<left, part, asked>>

\* send_conn opens a session, and its socket joins the loop with the client_t.
ReadTile(fd, c, q) ==
  /\ ReadsRequest(fd, c, q)
  /\ \E dbfd \in FD :
       /\ LowestFree(dbfd)
       /\ kernel' = [kernel EXCEPT ![dbfd] = q]
       /\ fds' = PicoevAdd(fds, dbfd, {"READ"}, "db_bin_cb", q)
       /\ proc' = AddOutcome(fds, dbfd)
       /\ client' = [client EXCEPT ![q] = [fd |-> fd, dbfd |-> dbfd]]
  /\ db' = [db EXCEPT ![q] = "busy"]
  /\ UNCHANGED <<conn, left, part, asked>>

\* PQconnectStart fails, PQsocket returns -1 and picoev_add is called with it.
ReadTileNoDb(fd, c, q) ==
  /\ ReadsRequest(fd, c, q)
  /\ "db_down" \in Faults \/ NoneFree
  /\ proc' = AddOutcome(fds, -1)
  /\ UNCHANGED <<fds, kernel, client, conn, left, part, asked, db>>

-----------------------------------------------------------------------------
(* db_bin_cb and fmt_res_bin *)

\* PQgetResult waits for the whole result, holding the loop.
Replies(fd, q) ==
  /\ Calls(fd, "db_bin_cb")
  /\ fds[fd].cb_arg = q
  /\ db[q] \in Results

\* Variant of Closed: the session is not finished.
ClosedWithoutPQfinish(q) == [kernel EXCEPT ![client[q].fd] = Free]

\* PQfinish, close(client->fd)
Closed(q) == [kernel EXCEPT ![client[q].dbfd] = Free, ![client[q].fd] = Free]

\* Variant of Deleted: the slot of the session is kept.
DeletedBrowserOnly(q) == PicoevDel(fds, client[q].fd)

\* picoev_del of both descriptors
Deleted(q) == PicoevDel(PicoevDel(fds, client[q].fd), client[q].dbfd)

(***************************************************************************)
(* Write the parts to client->fd, PQfinish and close, picoev_del of both   *)
(* descriptors, free.  client->fd is whatever it is open on by now: the    *)
(* connection that asked, a later one, the session of another request,     *)
(* whose socket is then closed under it, or nothing (EBADF).               *)
(***************************************************************************)
Finish(q, parts) ==
  LET cfd == client[q].fd
      target == kernel[cfd]
  IN  /\ wire' = IF target \in Conns
                   THEN [wire EXCEPT ![target] = @ \o parts] ELSE wire
      /\ kernel' = Closed(q)
      /\ proc' = IF Registered(fds, cfd)
                   THEN DelOutcome(PicoevDel(fds, cfd), client[q].dbfd)
                   ELSE DelOutcome(fds, cfd)
      /\ fds' = Deleted(q)
      /\ client' = [client EXCEPT ![q] = None]
      /\ conn' = IF target \in Conns
                   THEN [conn EXCEPT ![target] = "closed"] ELSE conn
      /\ rx' = IF target \in Conns THEN [rx EXCEPT ![target] = None] ELSE rx
      /\ part' = part \ {target}
      /\ db' = [s \in Reqs |-> IF s = q THEN "done"
                               ELSE IF s = target THEN "severed" ELSE db[s]]
      /\ UNCHANGED <<left, asked>>

\* Variant of ReplyEmpty: nothing is written.
ReplyNothing(fd, q) ==
  /\ Replies(fd, q)
  /\ db[q] = "empty"
  /\ Finish(q, <<>>)

\* num_rows <= 0: the final chunk alone.
ReplyEmpty(fd, q) ==
  /\ Replies(fd, q)
  /\ db[q] = "empty"
  /\ Finish(q, << <<q, "last">> >>)

\* Variant of ReplyRows: the final chunk is forgotten.
ReplyUnterminated(fd, q) ==
  /\ Replies(fd, q)
  /\ db[q] = "rows"
  /\ Finish(q, << <<q, "chunk">> >>)

\* Three writes: chunk size, records, final chunk.  The result of write() is not
\* looked at: with a full buffer the chunk is cut and the rest may get in or not.
ReplyRows(fd, q) ==
  /\ Replies(fd, q)
  /\ db[q] = "rows"
  /\ \/ Finish(q, << <<q, "chunk">>, <<q, "last">> >>)
     \/ /\ "slow_reader" \in Faults
        /\ \/ Finish(q, << <<q, "cut">> >>)
           \/ Finish(q, << <<q, "cut">>, <<q, "last">> >>)

\* SIGPIPE is not ignored, so a write to a connection its browser has closed may
\* end the process, in read_cb and in fmt_res_bin alike.
WriteSigpipe(fd) ==
  /\ \/ \E c \in left, q \in Reqs : ReadsRequest(fd, c, q)
     \/ \E q \in Reqs : Replies(fd, q) /\ kernel[client[q].fd] \in left
                        /\ UNCHANGED <<rx, wire>>
  /\ proc' = "SIGPIPE"
  /\ UNCHANGED <<fds, kernel, client, conn, left, part, asked, db>>

-----------------------------------------------------------------------------
(* picoev_init, and picoev_add of the listening socket in main *)
Init ==
  /\ proc = "running"
  /\ fds = PicoevAdd(EmptyTable, ListenFd, {"READ"}, "accept_cb", None)
  /\ kernel = [fd \in FD |-> IF fd = ListenFd THEN Listener ELSE Free]
  /\ ready = {}
  /\ client = [q \in Reqs |-> None]
  /\ conn = [c \in Conns |-> "away"]
  /\ left = {}
  /\ rx = [c \in Conns |-> None]
  /\ part = {}
  /\ asked = [q \in Reqs |-> None]
  /\ db = [q \in Reqs |-> "none"]
  /\ wire = [c \in Conns |-> <<>>]

Browser(c) ==
  \/ Connect(c) \/ HangUp(c) \/ SendRest(c)
  \/ \E q \in Reqs : Send(c, q) \/ SendFirstPiece(c, q)

Database(q) == DbFirstBytes(q) \/ DbDone(q)

AcceptCb(fd) == AcceptFails(fd) \/ \E c \in Conns : Accept(fd, c)

ReadCb(fd) ==
  \E c \in Conns :
    \/ ReadEnd(fd, c) \/ ReadAgain(fd, c) \/ ReadPiece(fd, c)
    \/ \E q \in Reqs : ReadReject(fd, c, q) \/ ReadTile(fd, c, q) \/ ReadTileNoDb(fd, c, q)

DbBinCb(fd) == \E q \in Reqs : ReplyEmpty(fd, q) \/ ReplyRows(fd, q)

Visit(fd) ==
  SkipDeleted(fd) \/ AcceptCb(fd) \/ ReadCb(fd) \/ DbBinCb(fd) \/ WriteSigpipe(fd)

\* while (1) picoev_loop_once(loop, 10)
Loop == Poll \/ \E fd \in FD : Visit(fd)

Next == Loop \/ (\E c \in Conns : Browser(c)) \/ (\E q \in Reqs : Database(q))

\* The loop never rests, and the database answers every query it is sent.
Fairness == WF_vars(Loop) /\ \A q \in Reqs : WF_vars(DbDone(q))

Spec == Init /\ [][Next]_vars

FairSpec == Spec /\ Fairness
-----------------------------------------------------------------------------
DbStates == {"none", "busy", "some", "rows", "empty", "done", "severed"}
Outcomes == {"running", "add: fd out of range", "add: slot in use",
             "del: fd not in loop", "read_cb: r > 0", "SIGPIPE"}
Parts == {"head", "chunk", "cut", "last"}
Slot == [loop_id : {0, LoopId}, events : SUBSET {"READ", "WRITE"},
         callback : {"none", "accept_cb", "read_cb", "db_bin_cb"},
         cb_arg : Reqs \cup {None}]

\* The type of every variable: what canvasback.c and picoev.h can hold.
TypeOK ==
  /\ proc \in Outcomes
  /\ fds \in [FD -> Slot]
  /\ kernel \in [FD -> {Free, Listener} \cup Conns \cup Reqs]
  /\ ready \subseteq FD
  /\ client \in [Reqs -> ClientT \cup {None}]
  /\ conn \in [Conns -> {"away", "backlog", "open", "closed"}]
  /\ left \subseteq Conns
  /\ rx \in [Conns -> Reqs \cup {None}]
  /\ part \subseteq Conns
  /\ asked \in [Reqs -> Conns \cup {None}]
  /\ db \in [Reqs -> DbStates]
  /\ wire \in [Conns -> Seq(Reqs \X Parts)]

(***************************************************************************)
(* What holds whatever the surroundings do.                                *)
(***************************************************************************)

\* The loop and the kernel agree after every callback: a descriptor is open
\* exactly when it is registered, the listener keeps its slot, browsers are
\* read by read_cb and sessions by db_bin_cb.  close() and PQfinish on stale
\* descriptor numbers (fmt_res_bin) must not break this, or select() fails with
\* EBADF for good and picoev_add finds its slot in use.
TableMatchesKernel ==
  \A fd \in FD :
    /\ Registered(fds, fd) <=> kernel[fd] # Free
    /\ fd = ListenFd <=> kernel[fd] = Listener
    /\ Registered(fds, fd) =>
         fds[fd].callback = IF fd = ListenFd THEN "accept_cb"
                            ELSE IF kernel[fd] \in Conns THEN "read_cb" ELSE "db_bin_cb"

\* The cb_arg that picoev holds for db_bin_cb is never a freed client_t nor that
\* of another session, although fmt_res_bin frees it while other descriptors of
\* the same request may be in the pass: no use after free, no double free.
CallbackArgLive ==
  \A fd \in FD : kernel[fd] \in Reqs =>
    LET q == fds[fd].cb_arg
    IN  q = kernel[fd] /\ client[q] # None /\ client[q].dbfd = fd

\* picoev.h:222, assert(target->loop_id == 0) in picoev_add, never fails.
AddFindsSlotFree == proc # "add: slot in use"

\* read_cb is only called on a connection with something to read, though the
\* pass uses readiness that is older than the callbacks before it: accept_cb
\* comes first in the pass and hands out no descriptor that readfds holds.
NoStrayRead ==
  \A fd \in ready : kernel[fd] \in Conns => Readable(fd)

\* Every pass of the loop comes to an end if the database answers, even when
\* callbacks delete or reuse descriptors the pass has yet to visit.
PassEnds == []<>(ready = {} \/ ~ Running)

(***************************************************************************)
(* What holds of well-behaved surroundings.                                *)
(***************************************************************************)

\* No assertion and no signal ends the server.
StaysUp == Running

\* README: a query returns its records.  What is written on a connection answers
\* a request sent on it, although client->fd is a number kept across callbacks.
RightConnection ==
  \A c \in Conns : \A i \in DOMAIN wire[c] : asked[wire[c][i][1]] = c

\* README: a query "returns an array of the above records".  A connection the
\* server has closed carries nothing, the bare head of a request it dropped, or
\* one complete chunked answer.
ResponseWhole ==
  \A c \in Conns : conn[c] = "closed" =>
    \/ wire[c] = <<>>
    \/ \E q \in Reqs :
         \/ db[q] = "none" /\ wire[c] = << <<q, "head">> >>
         \/ wire[c] = << <<q, "head">>, <<q, "chunk">>, <<q, "last">> >>
         \/ wire[c] = << <<q, "head">>, <<q, "last">> >>

\* db_bin_cb is only called once the session has something to read, so that it
\* waits in PQgetResult for the rest of a result and never for a whole query.
NoStrayResult ==
  \A fd \in ready : kernel[fd] \in Reqs => Readable(fd)

\* Browsers that ask once on a connection and stay for the answer.
OneRequest == \A q, s \in Reqs : asked[q] \in Conns /\ asked[q] = asked[s] => q = s
LeftUnasked == \A c \in left : ~ HasAsked(c)
Patient == OneRequest /\ LeftUnasked

\* Only an impatient browser can harm others: until one leaves before its answer or
\* asks again, answers go where they belong, no session is taken for a ready one, and
\* neither SIGPIPE nor the assertions that a slot is free when it is added and in the
\* loop when it is deleted (picoev.h:222, 186) end the server, whatever is split, short
\* or down.
PatienceSuffices ==
  Patient => /\ RightConnection /\ NoStrayResult
             /\ proc \notin {"add: slot in use", "del: fd not in loop", "SIGPIPE"}

\* The server implements the service it promises: step by step, and fairly to
\* every connection.
Phase == [c \in Conns |-> CASE conn[c] \in {"backlog", "open"} -> "open"
                            [] OTHER -> conn[c]]

Service == INSTANCE TileService WITH phase <- Phase

ImplementsService == Service!Spec
=============================================================================
