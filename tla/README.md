# canvasback in TLA+

canvasback is a map tile server in C: one thread runs a picoev event loop,
reads HTTP requests with picohttpparser, sends a PostGIS query over a libpq
connection of its own for each request, and streams the result to the browser in
a binary format. This directory holds TLA+ models of its parts, the TLC
configurations that check them, and proofs about them.

## 1. The system

| part | source | state | operations |
|---|---|---|---|
| server callbacks | `canvasback.c` | one `client_t` per request (`fd`, `dbfd`, `conn`, `loop`, tile); the sockets | `accept_cb`, `read_cb`, `send_conn`, `db_bin_cb` / `fmt_res_bin`, the loop of `main` |
| tile address, arithmetic | `canvasback.c` 418-470, `tms2bbox`, `scale` | none | `strtok` over the path, `strtol`, bounding box, scaling to 2-byte offsets |
| WKB streaming | `canvasback.c` 142-260 | `geom_pos`, `linear_rings`, `pt_count`, `ngeoms`, `strm` | `fmt_res_bin`, `short_stream` |
| descriptor table | `picoev/picoev.h` | `picoev.fds[]`: `loop_id`, `events`, `callback`, `cb_arg`, `timeout_idx` | `picoev_add`, `picoev_del`, `picoev_set_*`, `picoev_is_active`, `picoev_next_fd` |
| timeout wheel | `picoev/picoev.h` | `timeout.vec`, `vec_of_vec`, `base_idx`, `base_time`, `resolution`, `now` | `picoev_set_timeout`, `picoev_handle_timeout_internal`, `picoev_loop_once` |
| select backend (the one linked) | `picoev/picoev_select.c` | `readfds` of the pass | `picoev_update_events_internal`, `picoev_poll_once_internal` |
| epoll backend | `picoev/picoev_epoll.c` | the kernel's interest set, `events[1024]` | the same, with deferred deletes |
| kqueue backend | `picoev/picoev_kqueue.c` | list of changed descriptors, `changelist[256]` | the same, with pending changes |
| HTTP parser | `picohttpparser/picohttpparser.c` | none between calls but `last_len` | `phr_parse_request`, `phr_parse_response`, `is_complete` |
| echo server | `picoev/picoev_echo.c` | none | accept, echo, close on timeout |
| styles, settings, data | `osmstyles.h`, `db.conf.c`, `osmdata/` | none | `osmstylenum` |

How they interact: `picoev_loop_once` collects the ready descriptors and calls
their callbacks one after the other in the same thread. A callback adds and
deletes descriptors of the loop while the pass goes on. `accept_cb` adds a browser
socket with `read_cb`; `read_cb` opens a libpq session and adds its socket
with `db_bin_cb` and a pointer to the `client_t`; `db_bin_cb` writes to the
browser socket *by the number stored in `client_t`*, closes both sockets and deletes
both slots. The kernel hands out the lowest free descriptor number, so a number
closed in one callback is the next one opened in another.

What is hard about it:

* a number or a readiness bit that was right when it was stored and is not any
  more (`client->fd` across callbacks, `readfds` across the callbacks of a pass,
  the copies of the timeout words across timeout callbacks, epoll's events);
* browsers that hang up, send in pieces or pipeline; a database that is down;
  a send buffer or a descriptor table that is full;
* hand-computed offsets into the WKB and into the output buffer;
* parsing that is restarted on a growing buffer.

What makes each part correct:

* server: an answer goes to the browser that asked, whole, and in the end always;
  table, kernel and heap agree after every callback; nothing ends the process;
* select pass: no callback without something to read, and every pass ends;
* backends: what the kernel watches is what the slots ask for once pending changes
  are applied, callbacks get events that were asked for, and none that is asked for
  is lost; what is deleted late or never told does not get in the way;
* wheel: no timeout early, none overdue at rest, the three copies of a timeout
  agree;
* echo server: every connection has a timeout; one that is not called is closed in
  time, one that just spoke is not;
* tile address: the address in the path decides whatever stands around it, and the
  box, the query and the offsets are those of that tile;
* WKB: the walk ends, fills the buffer without gap or overlap, never beyond its end,
  and drops nothing;
* parser: pieces do not change the verdict, a complete message is never held
  back, `headers[]` is not overrun.

## 2. The modules

### Server: `Canvasback`, `Picoev`, `TileService`

`Picoev` is the descriptor table as operators: a function from descriptors to
slots, `PicoevAdd`, `PicoevDel`, what their assertions say (`AddOutcome`,
`DelOutcome`), and the set that the select backend hands to `select()`. The
names of the assertions that can end the process are values of `proc`.

`Canvasback` is the program. One step of the server is one callback run to its end,
because the code is single-threaded and a callback is never interrupted;
browsers and the database act between callbacks.

| variable | code |
|---|---|
| `fds` | `picoev.fds` |
| `kernel` | what each descriptor of the process is open on |
| `ready` | `readfds` of the pass, less the descriptors visited |
| `client` | the live `client_t` of each request |
| `conn`, `left`, `rx`, `part` | the TCP connections: life, browser's end closed, receive buffer, only a first piece received |
| `db` | the libpq session of each request |
| `asked`, `wire` | history: who asked what, what was written where |
| `proc` | "running", or the assertion or signal that ended the server |

| action | code |
|---|---|
| `Poll` | `select()` and its result |
| `SkipDeleted` | the `loop_id` test of the pass |
| `Accept`, `AcceptFails` | `accept_cb`, and its `-1` |
| `ReadEnd`, `ReadAgain`, `ReadPiece`, `ReadReject`, `ReadTile`, `ReadTileNoDb` | the ways through `read_cb`, with `send_conn` and `picoev_add` |
| `ReplyEmpty`, `ReplyRows` | the two ends of `fmt_res_bin`; `Finish` is what they share |
| `WriteSigpipe` | a `write()` to a closed connection |
| `Connect`, `Send`, `SendFirstPiece`, `SendRest`, `HangUp`, `DbFirstBytes`, `DbDone` | browsers and database |

What the surroundings may do is the constant `Faults`, a subset of `FaultKinds`, so
that one model serves both for "whatever happens" and "with harmless
surroundings". The model makes no difference between the client_t, the session
and the session's socket of a request: all carry the request's name. `accept` and
`socket` return the lowest free descriptor (`LowestFree`).

`TileService` is the abstract specification: a connection carries one query and
gets one answer, or is dropped after the head. `Canvasback` implements it with the
mapping `Phase` when nothing goes wrong around it.

### Timeouts: `TimeoutWheel`, `Deadlines`

`TimeoutWheel` has the wheel as in the code, with `vec` and `vec_of_vec` as sets,
and the scan step by step: `OpenSlot` and `TakeWord` take the copies, `Fire` marks
a timeout unused and enters its callback, `WordDone` and `SlotDone` zero what was
scanned. Between `Fire` and `CallbackReturns`, and during the poll, the
application calls `Add`, `Del` and `Rearm` (`picoev_add`, `picoev_del`,
`picoev_set_timeout`). `OwnOnly` says whether a timeout callback keeps to
its own descriptor, as the echo server's does.

`Deadlines` is what it promises: a timeout of `secs` comes no sooner than that,
and the loop does not rest while one is overdue by the resolution or more.

### WKB: `WkbStream`, `MCWkbStream`

`WkbStream` walks a result: `Measure` adds up the lengths, `Point`,
`LineString`, `Polygon`, `Ring`, `PolygonDone`, `OtherType` and `NextRow` are the
branches of the loop, and each record is kept with the offset at which
`short_stream` writes it. A WKB value is its length and the integers that stand
at some of its offsets; the rest of it is doubles, which read as no type.
`WellFormed` says how ST_AsBinary lays a value out. The walk reaches the last
bytes of a point's y coordinate as if they were a type; that they do not spell
1, 2 or 3 is an assumption about the data. `parts` are the records a value should give,
`nth` says at each place of a type or ring which of them comes next, and `LaidOut` that the two
agree, for values in which nothing follows a point. `MCWkbStream` builds the small values.

### Parser: `HttpParser`

The parser starts anew on every call, so where it runs out of bytes depends on
the bytes alone. The model keeps that place up to date byte by byte (`at`, `vpos`,
`num_headers`), and `Call` looks at it: a first call parses, a later one asks
`is_complete` first, which starts three bytes before the last length (`recent`,
`scan`). Bytes are classes; `"ctl"` stands for the control characters and for the
bytes above 127, which a signed `char` makes negative. No length is bounded.
A call with an empty buffer and one with a `last_len` below three are covered by
`recent` still holding "none". The two digits stand for all ten.

### Backends: `Descriptors`, `SelectBackend`, `EpollBackend`, `KqueueBackend`, `EventLoop`

`Descriptors` declares the state that the core of picoev shares with a backend, each
of the three backend modules translates one file's `picoev_update_events_internal`
and `picoev_poll_once_internal`, and `EventLoop` composes them with the core and
an arbitrary client. The variable `backend`, chosen at the start, says which of the
files is linked; the actions of the core are written once.

| variable | code |
|---|---|
| `active`, `events` | `loop_id` and `events` of the slots |
| `open`, `ready` | descriptors of the process and what they are ready for |
| `watch`, `knotes` | the kernel's side: the epoll entries, the enabled and all knotes of kqueue |
| `_backend`, `changed_fds`, `changelist` | kqueue's list of changed descriptors, linked through the slots, and the changes not yet handed over |
| `batch` | `readfds`/`writefds`, or `events[]`: what the pass has yet to look at |
| `phase`, `current`, `revents`, `deleting` | where the code is |
| `touched` | history: descriptors changed while the batch held events of theirs |

| action | code |
|---|---|
| `Accept`, `Add` | `picoev_add`, of a new descriptor and of one deleted but kept open |
| `SetEvents`, `Del`, `Close` | `picoev_set_events`, `picoev_del`, `close` |
| `CloseConn`, `DelApplied` | `picoev_del` and `close` with kqueue, which applies all pending changes first if the descriptor has one |
| `Poll` | `select`, `epoll_wait`, `kevent`, with and without an error |
| `BeginApply`, `Apply` | `apply_pending_changes`, one descriptor a step |
| `Call`, `PassOver`, `Return`, `PassDone` | the loop over the results |
| `Arrive` | the peer |

A callback is a phase here and not a step: the client does any number of
operations in it. A client of select and epoll may keep a deleted descriptor open,
which is what the deferred deletes are about; one of kqueue closes it, as
`close_conn` of the echo server does, because kqueue relies on it. `ReadWriteOn`
says with which backends the client asks for both events at once: kqueue cannot
do it (section 4).

`Kevent` is the kernel: given a list of changes it says what is watched afterwards, as the last
entry of each filter has it, which knotes there are, and whether an entry was refused.
`Listed` states that the list through `_backend` is one way from `changed_fds` through all the
changed descriptors.

### Echo server: `Echo`

`Echo` EXTENDS `TimeoutWheel` and conjoins its actions with what happens to the
sockets: `AcceptCallback`, `Echoed`, `TryAgain`, `ReadThenClose` and `TimedOut` are the ways
through the two callbacks, `Select` and `Visit` the pass, and the clock runs between
the steps, at most as long as the wait of `select()`. `called` and `late` are history:
when a connection was accepted or its callback last called for a read, and which data came after
`select()` had returned.

`select()` may report a connection on which `read()` then finds nothing; `rw_callback` has
renewed the timeout by then (picoev_echo.c:76) and keeps the connection (`TryAgain`,
lines 82-84). `ReapedInTime` and `SilentLongEnough` therefore count from the last call and not
from the last read: a connection that sends nothing, but is reported again and again, stays.

### Tile address: `TileAddress`, `MCTileAddress`

The loop over the tokens, one step a token (`Spin`, `FoundTms`, `TakeParam`,
`TokensDone`), and the pure functions behind it: `Row`, `QueryFor`, `Box`, `Scale`.
`strtok` runs on where the path ends, so a buffer is a path followed by a
`rest`: headers, then what the stack held. The world's square is a grid of
`2^Depth` by `2^Depth` points; box and offsets are computed on it in integers,
with the truncation of the cast. `Column` and `RowFromNorth` are the
reference: the google style tile of a point.

### Variants

An operator whose comment begins with "Variant of" is a definition with a
plausible mistake in it, of the same parameters as the definition that follows
it: a deleted guard, a forgotten `picoev_del`, an offset that is off by a byte. It
is used by no action. Put in the place of its original, it makes a property of the
runs fail; this is how each property was seen to be able to fail.

## 3. The runs

| run | surroundings and bounds | properties | shows |
|---|---|---|---|
| `AllFaults` | 2 connections, 2 requests, 4 descriptors, all faults | `TypeOK`, `TableMatchesKernel`, `CallbackArgLive`, `AddFindsSlotFree`, `NoStrayRead`, `PatienceSuffices`, `PassEnds` | what holds whatever happens, and what holds until a browser leaves before its answer or asks again; every pass ends |
| `Service` | 3 connections, 2 requests, 6 descriptors, no fault | `StaysUp`, `RightConnection`, `ResponseWhole`, `NoStrayResult`, `ImplementsService` | the promise of the README when nobody hangs up on a query: the server implements `TileService`, with its fairness |
| `Events` | 2 descriptors, 3 backends, `changelist` of 3 | `TypeOK`, `KernelWatches`, `ChangeListSound`, `AssertionsHold`, `CallbackAsked`, `Delivered`, `OrphansCollected` | the backends under any client: the kernel knows what it should, no event is lost |
| `Wheel` | 3 descriptors in 2 words, 5 slots, resolution 2, timeouts of 1 and 4, 13 seconds, lag 6 | `TypeOK`, `ArmedHasBits`, `NoBitLeftBehind`, `AssertionsHold`, `ImplementsDeadlines` | the wheel, when callbacks keep to their own descriptor |
| `Echo` | listener and 2 connections, 6 slots of 1 second, a timeout of 2, 8 seconds, lag 3 | `EchoTypeOK`, `EveryConnectionTimed`, `ReapedInTime`, `SilentLongEnough`, `HeardBeforeExpiry` | the echo server closes the connections that are not called, in time and no others |
| `Tile` | paths of up to 6 tokens, 3 kinds of rest, 5 numbers, limit of 1 token before the address; zooms 0 to 2 on a grid of 16 by 16 | `AddressDecides`, `BoxIsTileAskedFor`, `OffsetsInTile` | the address is found and the box and the offsets are those of its tile |
| `Wkb` | 2 points a line or ring, 2 rings, 2 members, 2 rows | `TypeOK`, `BufferFits`, `RecordsAbut`, `EveryPartStreamed`, `Terminates` | the walk, on lines, polygons, points and collections of them |
| `Http` | 2 headers, any length | `HeadersInBounds`, `GateOpensInTime`, `PiecesAgree` | incremental parsing |

Why the bounds are enough. Every error of the server that was met needs at most
two connections, two requests and one reused descriptor: enough for a stale
`client->fd` to meet another connection, the session of another request, or
nothing. Four descriptors are the listener and one less than two browsers and two
sessions need, so that accept and libpq also find the table full. `Service`
has room for all browsers and their sessions, because a full table does
what a database that is down does (`ReadTileNoDb`); interrupted reads are left
to `AllFaults`, since such a read changes nothing but the place of the pass. Two descriptors in
`Events` are enough for one to change while the callback of the other runs, for
a list of changes with a next entry, and, with a `changelist` of 3, for a flush in the middle of
the list, which an entry pair reaches, and for an entry that is left over and handed over with the
poll. `touched` and
`Reported` let the events of one descriptor come apart as kqueue's do. In `Echo`
eight seconds are room for a timeout to be renewed, to run out and the descriptor to
be used again; the ratio of timeout (10 of 60 seconds in the code) and wheel does
not matter as long as it fits with a resolution to spare; a resolution of 2
seconds was checked too. In `Tile` six tokens are two before the address, the address and one after it, or a
second `tms` in any place; a complete address is met just within the limit and just beyond it, with
and without the tokens of the rest; 31 is a zoom that cannot be shifted by. Five slots of two seconds wrap more than once in 13 seconds, and
three descriptors make two words, one with two bits. Two of everything in a
WKB value exercises each transition between members, rings and rows. `Http`
bounds only the room in `headers[]`.

Deadlock is checked but where the process may have stopped on an assertion
(`AllFaults`, the runs of section 4 with hang-ups and the wheel), where the clock
of a model stops at its bound (`Echo`), and where the message has been judged and
nobody calls any more (`Http`). `Tile` is checked for deadlock: every buffer leads
through the loop to the end of `read_cb` (`Returned`).

Fairness. `FairSpec` asks that the loop takes a step whenever it can: `main`
calls `picoev_loop_once` for ever and does nothing else. And that the database
answers each query it is sent, which the code waits for without a timeout. Browsers
are under no obligation. For `WkbStream` it is that of a function that runs. `EventLoop` asks for weak fairness of the loop; that callbacks return
(strong fairness of `Return`: the client may do any number of things first, but not
for ever); and that signals do not end every wait (strong fairness of `Poll(TRUE)`). It does not ask
that callbacks drain their descriptors nor that peers send. What is asked of
`Echo` is stated for each round of the loop, and needs no fairness.

## 4. Where the code does not do what it says

Each of these runs has one property, taken from an assertion, a comment or the
README, and TLC finds it violated.

| run | property | what happens |
|---|---|---|
| `HangUpDelivery` | `RightConnection`, README.md:22 | a browser hangs up before its tile is ready and a new connection gets its number: it is sent the other's tile |
| `WheelFiredFdInLoop` | `FiredFdInLoop`, picoev.h:367 | a timeout callback deletes another descriptor of the word being scanned |
| `KqueueReadWrite` | `KernelWatches`, picoev.h:266 | filters are numbers that the kqueue backend combines as bits: asked for both events it registers the read filter alone |
| `WkbMultiPoint` | `EveryPartStreamed`, README.md:22 | of a multipoint only the first point is streamed |

Ways for surroundings to end the server, each found by running `Service.cfg`
with another `Faults`, `Spec`, and `StaysUp` as the one property; `proc` then names
the assertion:

* `{"hangup"}`: the write that meets the hang-up raises SIGPIPE; and, as
  `proc # "del: fd not in loop"` in place of `StaysUp` shows, `fmt_res_bin` deletes a
  descriptor that `read_cb` has deleted before (picoev.h:186), if no other connection
  got its number;
* `{"split"}`: a request in two packets meets `assert(r > 0)` (canvasback.c:408);
* `{"db_down"}`: `picoev_add` is called with -1 (picoev.h:220), and with
  `FdLimit = 7` the same with the database up, since nothing bounds how many
  connections `accept_cb` takes.

With `{"slow_reader"}` and `ResponseWhole` it shows how a short `write()` whose
result is ignored cuts the chunk.

Two divergences have no run of their own, since nothing in the repository states
the property: the favicon test compares 8 bytes that hold a delimiter and never
succeeds, and a path without a complete address takes it from the headers or
from an earlier request (`AfterPath`).

canvasback itself sets no timeouts; the run of the wheel is about picoev as a
library. The assertion at picoev.h:363 can be made to fail in the same way as
that at picoev.h:367, by a callback that clears the last other timeout of a word
the scan has yet to take; `AssertionsHold` stands for both.

## 5. The proofs

Checked by TLAPS, for every value of the constants that the named assumptions
allow: any number of connections, descriptors, rows and tokens, any size of the tables.
Every invariant and every safety property that a passing run checks is stated by a theorem;
the run shows it on a small instance.

What a theorem needs beyond the assumptions on the constants is a hypothesis with a
name in its `ASSUME`. Each holds of the constants of the run that checks
the same property:

| hypothesis | says | why the code justifies it |
|---|---|---|
| `OwnOnly` | a timeout callback touches no descriptor but its own | `rw_callback` of `picoev_echo.c` does; without it, `WheelFiredFdInLoop` |
| `SlotsToSpare` | the wheel has more than one slot | `PICOEV_TIMEOUT_VEC_SIZE` is 128 |
| `LagFits`, `LagSpare` | the longest timeout and the lag of the loop fit in the wheel (and a second more) | picoev cuts a longer one: 128 slots of one second, against a timeout of 10, leave 118 for the lag |
| `WaitFits` | a timeout is longer than the resolution | 10 seconds, and one |
| `OneEventOnKqueue` | nobody asks kqueue for both events at once | `canvasback.c` and `picoev_echo.c` only read; without it, `KqueueReadWrite` |
| `PatientBrowsers` | no browser can hang up before the answer or ask again on its connection | the README's use of the server; without it, `HangUpDelivery`. `PatienceIsEnough` does without it |
| `RoomToWrite` | no short write | answers smaller than a send buffer; the code takes it for granted |
| `NothingFails` | requests arrive whole, the database is up, a descriptor for each browser and session | see the ways to end the server in section 4 |
| `NothingAfterPoints` | `LaidOut` of every value: what follows a point is the end of the row | true of points (`midz`), lines, polygons, and what clips them to several of a kind; a clip that leaves points and lines in one collection is not of this sort. Without it, `WkbMultiPoint` |

**`CanvasbackProofs`**: `TypeCorrect`, `TableAgrees`, `CallbackArgCorrect`,
`AddNeverCollides`, `ReadsAreReady`, under all faults. Assumptions:
`FaultsAssumption`, `FdAssumption` (descriptors begin at 3 and stay below
FD_SETSIZE), `NamesAssumption` (names are distinct). The properties are not
inductive by themselves; `IInv` adds

* `ClientFdNotListener`: the stale number that `fmt_res_bin` closes is never the
  listener's, or the listener would lose its slot;
* `UnreadHasNoSession` and `BufferedWasAsked`: a request that has not been read has
  no session, so that a second `client_t` cannot replace the one `db_bin_cb` holds;
* `ConnHasOneFd`: an accepted connection has one descriptor while it is open, so
  closing it through a stale number leaves none behind;
* `ListenerFirst`: the listener is the lowest descriptor and so the first of a pass;
  when `accept` returns a number, the pass holds none that has been closed,
  and the new connection is not taken for a ready one. (`socket()` in `read_cb`
  may well return a number closed earlier in the pass: the fact for
  sessions, `NoStrayResult`, therefore needs patient browsers.)

There is one lemma per group of actions; `OpenTable` and `CloseTable` say what
opening and closing descriptors does to the table and are used by all that do.

**`ServiceProofs`**: `PatienceIsEnough`, `AnswersOwnRequest`, `AnswersAreWhole`, `ResultsAreReady`,
`ServerStaysUp`, and `ServiceSafely`, that the server implements the safety part of
`TileService`. All rest on `ServiceInv`, which takes each request through its `Stages`:
unsent, waiting in a buffer, querying, answered, dropped. While a request is
querying, `client->fd` *is* its connection (`Querying`): that is what a hang-up
breaks. Two conjuncts carry the proof. `OneRequest` keeps the stages of two
requests apart. `ReadyOpen` says that no callback closes a descriptor which the pass has
yet to visit: `fmt_res_bin` closes its own and that of its browser, which has nothing more to
read; so `socket()` never returns a number that is still in `readfds`, and no session is taken for
ready before its database has answered. `ServiceInv` holds as long as
`Patient` does, which is a fact about what browsers have done so far: who has left had not asked, and nobody
has asked twice. Patience that is lost stays lost (`PatienceLasts`), so `PatienceIsEnough` needs no
hypothesis: with every fault on, only an impatient browser brings about a wrong answer, a stray result, a
SIGPIPE or an assertion on a slot; short of that the server ends on a request in pieces or a session it
cannot open and on nothing else (`VisitEnds`). With `PatientBrowsers` browsers are patient for ever
(`PatientServed`), and `AnswersOwnRequest` and `ResultsAreReady` hold with split
requests, short writes and a database that is down. For
`ServerStaysUp`, `DescriptorLeft` counts: the connections and sessions that are open are
fewer than the descriptors, and none has two (`FS_PigeonHole` of `FiniteSetTheorems`), so that
`picoev_add` is never given -1.

**`TimeoutWheelProofs`**: `WheelTypeCorrect`, `NoTimeoutLost`, `NoBitStays`, `ScanCopiesHold`,
and `WheelKeepsDeadlines`, the refinement of `Deadlines`. There are two invariants, because two
different things are true. `ArmedInv` holds whatever callbacks do: what is armed in the slot being
scanned is covered by the copies (`ScanCovers`), and nothing is armed there any more, since
the slot lies a resolution in the past and `Delta` of a timeout is then at least one.
`WheelInv` needs `OwnOnly`: the slots that are not being scanned are exactly the timeouts in
them (`WheelExact`), and the copies are exactly what is left (`ScanExact`), so that the
assertions hold. For the deadlines, `DueInSlot` says that a timeout is in the slot of the
seconds it is due in, counted from `base_time`: it is the round-up of
`picoev_set_timeout`, carried along as the wheel turns. `FirstMember` (a set of numbers has a least
one, by the least-element theorem of the well-founded order, which needs no induction) gives
the scan its next word and bit.

**`EchoProofs`**: `EchoTypeCorrect`, `ConnectionsTimed`, `SilentAreReaped`, `SilentForLong`,
`DataBeforeExpiry`. `Echo` extends the wheel, and its steps are steps of the wheel
(`EchoTurnsWheel`), so the invariants of the wheel are taken over as they are. `EchoInv` relates
them to the sockets: `DueWhenCalled` bounds a deadline by when the callback of its connection was called,
with the wait of `select()` by which `now` may be late; `CalledOrLate` says of a connection with data, after
`select()` has returned, that it is in the pass, was just called, or the data came late; that is what
the order of pass and scan in `picoev_loop_once` is worth.

**`EventLoopProofs`**: `LoopTypeCorrect`, `KernelWatchesAsked`, `ChangeListHolds`,
`NoAssertionFails`, `CallbacksAsked`, for each backend under any client. For epoll `EpollSound` says
that an active slot which asks for events has them in the kernel, whatever deferred deletes
have left there. For kqueue a descriptor is in one of three places (`KqueueFd`): in the linked list, then
the kernel has the `old` events of its entry; in `changelist`, which
then says precisely the difference (`Sent`); or settled. `Listed` says that the list has no
cycle and misses nothing, without following it: no two changed descriptors have the same `next`,
none has the head, and a set that holds the head and the `next` of its members holds all of them. `RoomLeft` is why two entries a turn
never overflow the list, and why the entries in it are not about descriptors that
are closed. `BatchAsked` is the callbacks' fact: the rest of the batch was asked for, or
its slot has been touched.

**`TileAddressProofs`**: `FirstTmsDecides`, `BoxIsOfTheTile`, `OffsetsFit`. `TmsTracked` says, of the
first `tms` of a path, where `strtok` is in relation to it and which numbers have been taken: the count of
tokens and the place in the path go together until it is found, and the switch cannot take a
token from before it. The other two are arithmetic: `Column` and `RowFromNorth` are quotients,
`Box` compares products, and `MirroredMultiple` says what turning the rows round does to the
intervals between multiples. `PowerAssumption` states the two facts of `2^z` that are used, because
the provers do not know `^`; TLC evaluates it for its `Depth`. `MaxZoom` is at most 30, beyond
which the shift in the code is undefined.

**`WkbStreamProofs`**: `TypeCorrect`, `BufferSuffices`, `RecordsContiguous`, `PartsStreamed`. A record takes
12 bytes where a line in WKB has a head of 9 and a ring one of 4, so the buffer is long enough only
because each has a point, which takes 16 bytes there and 4 in a record. `IInv`
says that what has been written is never longer than what has been read
(`WrittenLeRead`), that the walk stands where the layout says it should
(`OnLayout`), and that `before` are the partial sums of the lengths (`Sums`).
Assumption: `ResultsAssumption`, that is `WellFormed`, in which every line and ring
has at least one point. PostGIS can produce an empty line; then the buffer is
too short by 3 bytes. `PartsInv` adds that the records of a row so far are the first of its parts
and the walk stands where the next one begins (`AtPart`), or in the last bytes of a point
(`InLastY`), which it leaves four bytes early.

**`HttpParserProofs`**: `TypeCorrect`, `NoHeaderOverrun`, `GateIsTransparent`,
`PiecesDoNotMatter`. `IInv` relates the place of the parser to the last three
bytes (`RecentAgrees`) and to the place of `is_complete` (`ScanAgrees`): as long as
the parser has not given up, `is_complete` counts the line ends that it counts,
or is ahead of it, and three bytes are enough to get it back there.

Only model-checked: the liveness properties `PassEnds`, `Terminates`, `Delivered` and
`OrphansCollected`, and the fairness of `ImplementsService`, that every query is answered in
the end: they need ENABLED, which is out of the prover's reach. So is what a recursive
function computes for every input: that takes induction with an operator parameter,
which the installed provers do not have. `NothingAfterPoints` and `WellFormed` therefore say
locally, at each place of a value, what comes next, and TLC checks that the values of
`MCWkbStream` are of that kind (`SupportedAssumption`). The proofs are about the
models: what section 6 leaves out they leave out too.

## 6. What is not modelled

* floating-point arithmetic: box and offsets are integers on a grid, so the rounding of the
  doubles and `edge_err` as a number are left out;
* points outside the tile: buildings are taken by their centroid and not clipped, and
  their offsets may exceed 16 bits at high zooms;
* the characters of a token: what `strtok` and `strtol` make of them is data;
* the contents of requests, queries, coordinates and styles;
* how long a callback takes: the busy loop on `PQconnectPoll` and the wait in
  `PQgetResult` are instants;
* leaks (`client_t` on EAGAIN, query buffers, the failed session);
* descriptors beyond FD_SETSIZE, and the overflow of `parse_int`;
* a clock that is set back: `Delta` computes what the code does then, but the clock
  of the model does not do it;
* events other than READ and WRITE (EPOLLHUP, EPOLLERR alone), more ready descriptors than
  `events[]` has room for, several loops in one process;
* the copies of a slot short by short: `OpenSlot` copies all words of `vec_of_vec` at once, as one
  short does, where picoev.h:357 copies each short when it comes to it. The one copy is the
  older, so the model is not the easier one; but `WheelAssumption` thereby limits
  descriptors to 256 (16 words of 16 bits), where `MAX_FDS` is 1024;
* how often `select()` reports what `read()` does not find: nothing in `Echo` bounds it, and a
  connection it keeps reporting is kept;
* a client of kqueue that closes a descriptor with a change pending before it deletes it, and
  meets the assertion on `kevent`;
* `picoev_create_loop`, `picoev_destroy_loop`, `picoev_deinit`: allocation and release at the
  two ends of the program;
* `start_thread` (canvasback.c 487-512), which nothing calls; the Windows shim, which
  renames socket calls; the styles, a table; tests and benchmark of the parser.

## 7. The plan

Done, in this order: the server and its service; the timeout wheel and its
deadlines; WKB streaming; the parser; the three
backends under an arbitrary client, the echo server on the wheel, and the tile address
with its arithmetic. No component with state of its own is left. Then the proofs of section 5, for
every invariant and safety property of the runs.

Theorems that could be added:

* with what hypothesis `AssertionsHold` of the wheel holds when callbacks touch other
  descriptors, but none of the word that is being scanned: weaker than `OwnOnly`;
* of the request itself that is answered on the wrong connection, that its browser hung up or asked
  twice: `PatienceIsEnough` says so of some browser;
* what bounds the steps of a pass and of the walk over a row, as numbers that decrease with every step:
  the safety half of `PassEnds` and `Terminates`.
