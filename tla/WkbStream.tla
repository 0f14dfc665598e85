------------------------------ MODULE WkbStream ------------------------------
(***************************************************************************)
(* fmt_res_bin (canvasback.c) on a result with rows: it walks the          *)
(* well-known binary of each row by hand-computed offsets and packs every  *)
(* point, line and ring into one buffer that is as long as the rows are    *)
(* together.                                                               *)
(*                                                                         *)
(* Only offsets, types and counts are modelled.  A WKB value is its length *)
(* and the integers that stand at some of its offsets; four bytes from     *)
(* elsewhere are pieces of doubles and read as none of 1, 2, 3.  For the   *)
(* properties a value also names                                           *)
(*   starts  the offsets at which the walk may look for a type,            *)
(*   left    for the offset of a ring, how many rings the polygon has from *)
(*           there on,                                                     *)
(*   parts   <<type, number of points>> of each point, line and ring,      *)
(*   nth     for the offset of a type or of a ring, which of the parts is  *)
(*           the first from there on.                                      *)
(***************************************************************************)
EXTENDS Integers, Sequences

CONSTANT Results   \* what the database may return: sequences of WKB values

Junk == -1

IntAt(value, pos) == IF pos \in DOMAIN value.u32 THEN value.u32[pos] ELSE Junk

Start(value, pos) == pos >= value.len \/ pos \in value.starts

RingAt(value, pos, k) ==
  /\ pos \in DOMAIN value.left /\ value.left[pos] = k

\* How ST_AsBinary lays a value out, each line and ring with a point at least.
WellFormed(value) ==
  /\ value.len \in Nat
  /\ Start(value, 1)
  /\ \A pos \in value.starts : pos < value.len =>
       LET type == IntAt(value, pos)
           n == IntAt(value, pos + 4)
       IN  /\ pos \in Nat \ {0}
           /\ type = 1 => pos + 20 <= value.len /\ Start(value, pos + 17)
           /\ type = 2 => /\ n \in Nat \ {0}
                          /\ pos + 8 + 16 * n <= value.len
                          /\ Start(value, pos + 16 * n + 9)
           /\ type = 3 => /\ n \in Nat
                          /\ IF n = 0 THEN Start(value, pos + 9)
                                      ELSE RingAt(value, pos + 8, n)
           /\ type \notin {1, 2, 3} => Start(value, pos + 9)
  /\ \A pos \in DOMAIN value.left :
       LET n == IntAt(value, pos)
           next == pos + 16 * n + 4
       IN  /\ pos \in Nat /\ value.left[pos] \in Nat \ {0}
           /\ n \in Nat \ {0} /\ next <= value.len
           /\ IF value.left[pos] = 1 THEN Start(value, next + 1)
                                     ELSE RingAt(value, next, value.left[pos] - 1)

\* The next part, or ring, of a value is its k-th, or the value ends.
TypeComes(value, pos, k) ==
  IF pos >= value.len THEN k = Len(value.parts) + 1
  ELSE pos \in DOMAIN value.nth \ DOMAIN value.left /\ value.nth[pos] = k

RingComes(value, pos, k) ==
  /\ pos \in DOMAIN value.nth \cap DOMAIN value.left /\ value.nth[pos] = k

PartIs(value, k, part) == k \in DOMAIN value.parts /\ value.parts[k] = part

\* Which part stands where, of a value in which nothing follows a point.
LaidOut(value) ==
  /\ value.parts \in Seq(Nat \X Nat)
  /\ TypeComes(value, 1, 1)
  /\ \A pos \in DOMAIN value.nth \ DOMAIN value.left :
       LET k == value.nth[pos]
           type == IntAt(value, pos)
           n == IntAt(value, pos + 4)
       IN  /\ type = 1 => /\ PartIs(value, k, <<1, 1>>) /\ k = Len(value.parts)
                          /\ pos + 20 = value.len
                          /\ IntAt(value, pos + 17) \notin {1, 2, 3}
           /\ type = 2 => PartIs(value, k, <<2, n>>) /\ TypeComes(value, pos + 16 * n + 9, k + 1)
           /\ type = 3 => IF n = 0 THEN TypeComes(value, pos + 9, k)
                                   ELSE RingComes(value, pos + 8, k)
           /\ type \notin {1, 2, 3} => TypeComes(value, pos + 9, k)
  /\ \A pos \in DOMAIN value.nth \cap DOMAIN value.left :
       LET k == value.nth[pos]
           n == IntAt(value, pos)
           next == pos + 16 * n + 4
       IN  /\ PartIs(value, k, <<3, n>>)
           /\ IF value.left[pos] = 1 THEN TypeComes(value, next + 1, k + 1)
                                     ELSE RingComes(value, next, k + 1)

ASSUME ResultsAssumption ==
  \A result \in Results :
    /\ Len(result) \in Nat \ {0} /\ DOMAIN result = 1..Len(result)
    /\ \A i \in DOMAIN result : WellFormed(result[i])

VARIABLES
  rows,          \* the result
  phase,         \* measure, rows, rings, sent
  r, geom_pos, linear_rings,
  pt_count, ngeoms,
  chunk_cnt,     \* the bytes allocated for strm
  before,        \* history: chunk_cnt before each row was added to it
  strm           \* the records written for each row, with their place in strm

vars == <<rows, phase, r, geom_pos, linear_rings, pt_count, ngeoms, chunk_cnt, before, strm>>

Row == rows[r]

ReadAt(pos) == IntAt(Row, pos)

Init ==
  /\ rows \in Results
  /\ phase = "measure" /\ r = 1
  /\ geom_pos = 1 /\ linear_rings = 0
  /\ pt_count = 0 /\ ngeoms = 0 /\ chunk_cnt = 0
  /\ before = <<>>
  /\ strm = [i \in DOMAIN rows |-> <<>>]

\* Variant of Measure: the loop ends a row too soon.
MeasureButLast ==
  /\ phase = "measure" /\ r <= Len(rows)
  /\ chunk_cnt' = IF r < Len(rows) THEN chunk_cnt + Row.len ELSE chunk_cnt
  /\ before' = Append(before, chunk_cnt)
  /\ r' = r + 1
  /\ UNCHANGED <<rows, phase, geom_pos, linear_rings, pt_count, ngeoms, strm>>

\* The loop that adds up PQgetlength; then strm is allocated.
Measure ==
  /\ phase = "measure" /\ r <= Len(rows)
  /\ chunk_cnt' = chunk_cnt + Row.len
  /\ before' = Append(before, chunk_cnt)
  /\ r' = r + 1
  /\ UNCHANGED <<rows, phase, geom_pos, linear_rings, pt_count, ngeoms, strm>>

Measured ==
  /\ phase = "measure" /\ r > Len(rows)
  /\ phase' = "rows" /\ r' = 1
  /\ UNCHANGED <<rows, geom_pos, linear_rings, pt_count, ngeoms, chunk_cnt, before, strm>>

-----------------------------------------------------------------------------
(* while (geom_pos < reslen) *)

Size(npts) == 12 + 4 * npts

\* Where short_stream puts a record.
Here == pt_count * 4 + 12 * ngeoms

ShortStream(type, npts) ==
  /\ strm' = [strm EXCEPT ![r] = Append(@, [at |-> Here, type |-> type, npts |-> npts])]
  /\ pt_count' = pt_count + npts
  /\ ngeoms' = ngeoms + 1

InRow(type) ==
  /\ phase = "rows" /\ r <= Len(rows)
  /\ geom_pos < Row.len
  /\ ReadAt(geom_pos) = type

Point ==
  /\ InRow(1)
  /\ geom_pos' = geom_pos + 17
  /\ ShortStream(1, 1)
  /\ UNCHANGED <<rows, phase, r, linear_rings, chunk_cnt, before>>

\* Variant of LineString: the number of points is read a byte too late.
LineStringMisread ==
  /\ InRow(2)
  /\ geom_pos' = geom_pos + 16 * ReadAt(geom_pos + 4) + 9
  /\ ShortStream(2, ReadAt(geom_pos + 5))
  /\ UNCHANGED <<rows, phase, r, linear_rings, chunk_cnt, before>>

LineString ==
  /\ InRow(2)
  /\ geom_pos' = geom_pos + 16 * ReadAt(geom_pos + 4) + 9
  /\ ShortStream(2, ReadAt(geom_pos + 4))
  /\ UNCHANGED <<rows, phase, r, linear_rings, chunk_cnt, before>>

\* Variant of Polygon: the polygon counts besides its rings.
PolygonCounted ==
  /\ InRow(3)
  /\ linear_rings' = ReadAt(geom_pos + 4)
  /\ geom_pos' = geom_pos + 8
  /\ phase' = "rings"
  /\ ngeoms' = ngeoms + 1
  /\ UNCHANGED <<rows, r, pt_count, chunk_cnt, before, strm>>

Polygon ==
  /\ InRow(3)
  /\ linear_rings' = ReadAt(geom_pos + 4)
  /\ geom_pos' = geom_pos + 8
  /\ phase' = "rings"
  /\ UNCHANGED <<rows, r, pt_count, ngeoms, chunk_cnt, before, strm>>

Ring ==
  /\ phase = "rings" /\ linear_rings # 0
  /\ geom_pos' = geom_pos + 16 * ReadAt(geom_pos) + 4
  /\ ShortStream(3, ReadAt(geom_pos))
  /\ linear_rings' = linear_rings - 1
  /\ UNCHANGED <<rows, phase, r, chunk_cnt, before>>

\* Variant of PolygonDone: the next member's endianness is not passed over.
PolygonDoneInPlace ==
  /\ phase = "rings" /\ linear_rings = 0
  /\ phase' = "rows"
  /\ UNCHANGED <<rows, r, geom_pos, linear_rings, pt_count, ngeoms, chunk_cnt, before, strm>>

PolygonDone ==
  /\ phase = "rings" /\ linear_rings = 0
  /\ geom_pos' = geom_pos + 1
  /\ phase' = "rows"
  /\ UNCHANGED <<rows, r, linear_rings, pt_count, ngeoms, chunk_cnt, before, strm>>

\* Variant of OtherType: an unknown type is not passed over.
OtherTypeStuck ==
  /\ phase = "rows" /\ r <= Len(rows)
  /\ geom_pos < Row.len
  /\ ReadAt(geom_pos) \notin {1, 2, 3}
  /\ linear_rings' = 0
  /\ UNCHANGED <<rows, phase, r, geom_pos, pt_count, ngeoms, chunk_cnt, before, strm>>

\* Any other type is taken for the head of a collection.
OtherType ==
  /\ phase = "rows" /\ r <= Len(rows)
  /\ geom_pos < Row.len
  /\ ReadAt(geom_pos) \notin {1, 2, 3}
  /\ geom_pos' = geom_pos + 9
  /\ UNCHANGED <<rows, phase, r, linear_rings, pt_count, ngeoms, chunk_cnt, before, strm>>

NextRow ==
  /\ phase = "rows" /\ r <= Len(rows)
  /\ geom_pos >= Row.len
  /\ r' = r + 1 /\ geom_pos' = 1
  /\ UNCHANGED <<rows, phase, linear_rings, pt_count, ngeoms, chunk_cnt, before, strm>>

\* The chunk size and the chunk: Here bytes of strm.
Send ==
  /\ phase = "rows" /\ r > Len(rows)
  /\ phase' = "sent"
  /\ UNCHANGED <<rows, r, geom_pos, linear_rings, pt_count, ngeoms, chunk_cnt, before, strm>>

Step ==
  \/ Measure \/ Measured
  \/ Point \/ LineString \/ Polygon \/ Ring \/ PolygonDone \/ OtherType
  \/ NextRow \/ Send

\* After the answer the function returns.
Done == phase = "sent" /\ UNCHANGED vars

Next == Step \/ Done

Spec == Init /\ [][Next]_vars /\ WF_vars(Step)
-----------------------------------------------------------------------------
Records == UNION {{strm[i][j] : j \in DOMAIN strm[i]} : i \in DOMAIN strm}

\* The counters and offsets are natural numbers; every row has its records.
TypeOK ==
  /\ rows \in Results
  /\ phase \in {"measure", "rows", "rings", "sent"}
  /\ r \in 1..(Len(rows) + 1)
  /\ {geom_pos, linear_rings, pt_count, ngeoms, chunk_cnt} \subseteq Nat
  /\ before \in Seq(Nat) /\ Len(before) <= Len(rows)
  /\ DOMAIN strm = DOMAIN rows
  /\ \A rec \in Records : {rec.at, rec.type, rec.npts} \subseteq Nat

\* No record is written past the end of strm, although a record needs 12 bytes
\* where a line in WKB has a head of 9 and a ring one of 4: the points make up
\* for it, as long as every line and ring has one.
BufferFits == \A rec \in Records : rec.at + Size(rec.npts) <= chunk_cnt

\* The records lie one behind the other from 0 to the chunk size that is sent:
\* pt_count and ngeoms advance together for every record and for nothing else.
RecordsAbut ==
  \A rec \in Records :
    /\ rec.at = 0 \/ \E prev \in Records : prev.at + Size(prev.npts) = rec.at
    /\ rec.at + Size(rec.npts) = Here
         \/ \E nxt \in Records : nxt.at = rec.at + Size(rec.npts)
    /\ \A other \in Records : other.at = rec.at => other = rec

\* README: a query "returns an array of the above records", one for each point,
\* line and ring of the row, in order.
EveryPartStreamed ==
  \A i \in DOMAIN rows : (phase = "rows" /\ i < r) \/ phase = "sent" =>
    [j \in DOMAIN strm[i] |-> <<strm[i][j].type, strm[i][j].npts>>] = rows[i].parts

\* The walk ends on every row of the results: whichever member or ring follows which,
\* its offsets take it on.
Terminates == <>(phase = "sent")
=============================================================================
