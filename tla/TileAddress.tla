----------------------------- MODULE TileAddress -----------------------------
(***************************************************************************)
(* How read_cb finds the tile in a request, tms2bbox its bounding box,     *)
(* send_conn the query and scale the offsets of its points (canvasback.c). *)
(*                                                                         *)
(* strtok cuts the receive buffer from the path on at "&/?,=. " and does   *)
(* not stop where the path does: the tokens of the headers follow, then    *)
(* those of whatever the buffer held before, up to a zero byte.  A token   *)
(* is what the code can tell of it: whether it begins with "tms", and what *)
(* strtol makes of it.  Two comparisons never succeed and are left out:    *)
(* "HTTP/1" holds a delimiter, and sizeof(favicon) is that of a pointer,   *)
(* 8 on a 64-bit host, so that the token is compared with "favicon.",      *)
(* which holds one as well.                                                *)
(*                                                                         *)
(* Coordinates are those of the world's square, from its south-west        *)
(* corner, in units of which 2^Depth make up the 40075016.6856 metres.     *)
(***************************************************************************)
EXTENDS Integers, Sequences

CONSTANTS Numbers,     \* the numbers a token can spell
          MaxPath,     \* bound: tokens of a path
          Rests,       \* sequences of tokens that can follow the path
          SpinLimit,   \* 45 in the code
          Depth,       \* the grain of the coordinates
          MaxZoom,     \* bound: zooms whose arithmetic is checked
          Undefined    \* the result of a shift out of range

Tokens == [kind : {"number"}, value : Numbers] \cup [kind : {"tms", "word"}, value : {0}]

ASSUME TileAssumption ==
  /\ Numbers \subseteq Int /\ Undefined \notin Int
  /\ MaxPath \in Nat /\ SpinLimit \in Nat \ {0}
  /\ Depth \in Nat /\ MaxZoom \in 0..Depth /\ MaxZoom <= 30
  /\ Rests \subseteq Seq(Tokens)

\* Arithmetic of ^, which TLC computes and the provers do not know.
ASSUME PowerAssumption ==
  \A z \in 0..Depth : 2^z \in Nat \ {0} /\ 2^z * 2^(Depth - z) = 2^Depth

VARIABLES
  path, rest,      \* the tokens from the path on
  next,            \* qval is the token before this one
  spun_out,
  tms_param_cnt,
  address,         \* zz, xx, yy
  pc,              \* scan, address, found, sent, closed
  tile, query      \* client->tile, and the query sent

vars == <<path, rest, next, spun_out, tms_param_cnt, address, pc, tile, query>>

input == <<path, rest>>

None == [z |-> -1, x |-> -1, y |-> -1]

buf == path \o rest

Qval == buf[next]

AtEnd == next > Len(buf)

Init ==
  /\ path \in UNION {[1..n -> Tokens] : n \in 0..MaxPath}
  /\ rest \in Rests
  /\ next = 1 /\ spun_out = 0 /\ tms_param_cnt = 1
  /\ address = None
  /\ pc = "scan"
  /\ tile = None /\ query = "none"

\* A token that is not tms; after too many of them, CLOSE.
Spin ==
  /\ pc = "scan" /\ ~ AtEnd
  /\ Qval.kind # "tms"
  /\ spun_out' = spun_out + 1
  /\ next' = next + 1
  /\ pc' = IF spun_out' > SpinLimit THEN "closed" ELSE pc
  /\ UNCHANGED <<input, tms_param_cnt, address, tile, query>>

FoundTms ==
  /\ pc = "scan" /\ ~ AtEnd
  /\ Qval.kind = "tms"
  /\ spun_out' = spun_out + 1
  /\ next' = next + 1
  /\ pc' = "address"
  /\ UNCHANGED <<input, tms_param_cnt, address, tile, query>>

\* Variant of Param: y comes before x.
ParamYX(n) == << "z", "y", "x" >>[n]

\* The cases of the switch.
Param(n) == << "z", "x", "y" >>[n]

TakeParam ==
  /\ pc = "address" /\ ~ AtEnd /\ tms_param_cnt <= 3
  /\ address' = [address EXCEPT ![Param(tms_param_cnt)] = Qval.value]
  /\ tms_param_cnt' = tms_param_cnt + 1
  /\ next' = next + 1
  /\ UNCHANGED <<input, spun_out, pc, tile, query>>

TokensDone ==
  /\ \/ pc = "scan" /\ AtEnd
     \/ pc = "address" /\ (AtEnd \/ tms_param_cnt > 3)
  /\ pc' = "found"
  /\ UNCHANGED <<input, next, spun_out, tms_param_cnt, address, tile, query>>

-----------------------------------------------------------------------------
(* The tile, its box, its query and its points *)

\* Variant of Row: rows are counted from the south, as TMS does.
RowFromSouth(z, y) == IF z \in 0..30 THEN y + 1 ELSE Undefined

\* (1 << zz) - yy, undefined for a zoom that is missing or beyond an int.
Row(z, y) == IF z \in 0..30 THEN 2^z - y ELSE Undefined

\* The case z < -1 of send_conn, midz, comes after z < 13 and is never taken.
QueryFor(z) ==
  IF z < 11 THEN "lowz" ELSE IF z < 13 THEN "simpmidz" ELSE IF z < 18 THEN "highz" ELSE "streetz"

SendConn ==
  /\ pc = "found"
  /\ tile' = [z |-> address.z, x |-> address.x, y |-> Row(address.z, address.y)]
  /\ query' = QueryFor(address.z)
  /\ pc' = "sent"
  /\ UNCHANGED <<input, next, spun_out, tms_param_cnt, address>>

\* tms2bbox; edge_err takes the edges away.
Box(t) ==
  LET side == 2^(Depth - t.z)
  IN  [x1 |-> t.x * side, x2 |-> (t.x + 1) * side, y1 |-> (t.y - 1) * side, y2 |-> t.y * side]

Inside(box, x, y) == box.x1 < x /\ x < box.x2 /\ box.y1 < y /\ y < box.y2

\* Division as the cast of C does it, toward zero.
Truncate(n, d) == IF n < 0 THEN -((-n) \div d) ELSE n \div d

\* Variant of Scale: without the zoom.
ScaleUnzoomed(coord, zoom, t) == Truncate(2560 * (coord - t * 2^Depth), 2^Depth)

\* Ten units to a pixel and 256 pixels to a tile.
Scale(coord, zoom, t) == Truncate(2560 * (coord * 2^zoom - t * 2^Depth), 2^Depth)

Over == pc \in {"sent", "closed"}

\* read_cb has returned.
Returned == Over /\ UNCHANGED vars

Next == Spin \/ FoundTms \/ TakeParam \/ TokensDone \/ SendConn \/ Returned

Spec == Init /\ [][Next]_vars
-----------------------------------------------------------------------------
\* The places of tms in the path that three tokens follow, and the first of all.
TmsAt(i) == i \in DOMAIN path /\ path[i].kind = "tms" /\ \A j \in 1..(i - 1) : path[j].kind # "tms"

\* README.md:54, "any thing of the form `/tms/k/n/m` should work": what stands before
\* it in the path and whatever follows - more of the path, headers, the bytes of an
\* earlier request - make no difference, up to the limit on what stands before.
AddressDecides ==
  \A i \in 1..(Len(path) - 3) :
    TmsAt(i) /\ i <= SpinLimit + 1 /\ Over =>
      /\ pc = "sent"
      /\ address = [z |-> path[i + 1].value, x |-> path[i + 2].value, y |-> path[i + 3].value]

\* The address is one of a tile of the world, and small enough to compute with.
OnMap == pc = "sent" /\ address.z \in 0..MaxZoom
         /\ address.x \in 0..(2^address.z - 1) /\ address.y \in 0..(2^address.z - 1)

World == 0..(2^Depth)

\* The tile of a point in the google style: columns from the west, rows from the north.
Column(z, x) == (x * 2^z) \div 2^Depth
RowFromNorth(z, y) == ((2^Depth - y) * 2^z) \div 2^Depth

OnEdge(z, c) == (c * 2^z) % 2^Depth = 0

\* README.md:18, "A tile map service (google style) query": the box that is queried
\* holds the points of the tile that was asked for and of no other, its edges apart -
\* although y is turned round in one place and made an interval in another.
BoxIsTileAskedFor ==
  OnMap =>
    \A x \in World, y \in World :
      Inside(Box(tile), x, y) <=>
        /\ ~ OnEdge(address.z, x) /\ ~ OnEdge(address.z, y)
        /\ Column(address.z, x) = address.x /\ RowFromNorth(address.z, y) = address.y

\* README.md:22, "pairs of 2 byte integer offsets from the tile origin": a point of the
\* tile is at most a tile's side east and south of the origin, its north-west corner,
\* so that the cast of scale to int16_t is always defined.
OffsetsInTile ==
  OnMap =>
    \A x \in World, y \in World :
      Inside(Box(tile), x, y) =>
        /\ Scale(x, tile.z, tile.x) \in 0..2560 /\ Scale(y, tile.z, tile.y) \in -2560..0
=============================================================================
