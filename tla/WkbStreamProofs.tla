--------------------------- MODULE WkbStreamProofs ---------------------------
(***************************************************************************)
(* strm is long enough, for every result laid out as ST_AsBinary does,     *)
(* however many rows, points and rings it has.                             *)
(***************************************************************************)
EXTENDS WkbStream, SequenceTheorems, TLAPS

Walking == phase \in {"rows", "rings"} /\ r <= Len(rows)

\* What the counters are, so that offsets can be compared.
Counters ==
  /\ rows \in Results
  /\ phase \in {"measure", "rows", "rings", "sent"}
  /\ r \in 1..(Len(rows) + 1)
  /\ geom_pos \in Nat /\ linear_rings \in Nat
  /\ pt_count \in Nat /\ ngeoms \in Nat /\ chunk_cnt \in Nat

\* The first loop has added up the rows before r, and before[i] is the sum of
\* those before i.
Sums ==
  /\ before \in Seq(Nat)
  /\ Len(before) = IF phase = "measure" THEN r - 1 ELSE Len(rows)
  /\ phase = "rings" => r <= Len(rows)
  /\ before # <<>> => before[1] = 0
  /\ before = <<>> => chunk_cnt = 0
  /\ \A i \in 1..Len(before) : before[i] + rows[i].len <= chunk_cnt
  /\ \A i \in 1..Len(before) :
       before[i] + rows[i].len = IF i = Len(before) THEN chunk_cnt ELSE before[i + 1]

\* The walk stands where the layout says a type or a ring is.
OnLayout ==
  /\ phase = "measure" => geom_pos = 1
  /\ phase = "rows" /\ r <= Len(rows) => Start(Row, geom_pos) /\ geom_pos >= 1
  /\ phase = "rings" /\ linear_rings # 0 => RingAt(Row, geom_pos, linear_rings) /\ geom_pos >= 1
  /\ phase = "rings" /\ linear_rings = 0 => Start(Row, geom_pos + 1) /\ geom_pos >= 1

\* What has been written is no longer than what has been read.
WrittenLeRead ==
  /\ phase = "measure" => Here = 0
  /\ Walking => Here <= before[r] + geom_pos - 1 /\ Here <= before[r] + Row.len
  /\ phase \in {"rows", "rings", "sent"} => Here <= chunk_cnt

\* Every record lies in what has been written.
RecordsWritten ==
  /\ DOMAIN strm = DOMAIN rows
  /\ \A i \in DOMAIN strm :
       /\ strm[i] \in Seq([at : Nat, type : Nat, npts : Nat])
       /\ \A j \in 1..Len(strm[i]) : strm[i][j].at + Size(strm[i][j].npts) <= Here
       /\ phase = "measure" => strm[i] = <<>>

IInv == Counters /\ Sums /\ OnLayout /\ WrittenLeRead /\ RecordsWritten

-----------------------------------------------------------------------------
(* The layout of a result. *)

\* Every row of a result is laid out as ST_AsBinary does.
LEMMA RowLayout ==
  ASSUME Counters, NEW i \in 1..Len(rows)
  PROVE  /\ WellFormed(rows[i]) /\ rows[i].len \in Nat
         /\ Len(rows) \in Nat \ {0} /\ DOMAIN rows = 1..Len(rows)
BY ResultsAssumption DEF Counters, WellFormed

\* A result has rows, numbered from 1.
LEMMA RowsShape ==
  ASSUME Counters
  PROVE  Len(rows) \in Nat \ {0} /\ DOMAIN rows = 1..Len(rows)
BY ResultsAssumption DEF Counters

\* Nothing is measured or written at the start.
LEMMA InitInv == Init => IInv
<1> SUFFICES ASSUME Init PROVE IInv
  OBVIOUS
<1>1. Len(rows) \in Nat \ {0} /\ DOMAIN rows = 1..Len(rows)
  BY ResultsAssumption DEF Init
<1>2. Counters
  BY <1>1 DEF Init, Counters
<1>3. Sums
  BY DEF Init, Sums
<1>4. OnLayout /\ WrittenLeRead
  BY DEF Init, OnLayout, WrittenLeRead, Here, Walking
<1>5. RecordsWritten
  BY DEF Init, RecordsWritten
<1> QED
  BY <1>2, <1>3, <1>4, <1>5 DEF IInv

-----------------------------------------------------------------------------
\* The length of a row is added to chunk_cnt.
LEMMA MeasureInv ==
  ASSUME IInv, Measure
  PROVE  IInv'
<1>1. Len(rows) \in Nat \ {0} /\ r \in 1..Len(rows) /\ Row.len \in Nat
  BY RowsShape, RowLayout DEF IInv, Counters, Measure, Row
<1>2. Counters'
  BY <1>1 DEF IInv, Counters, Measure
<1>3. Sums'
  <2>1. before \in Seq(Nat) /\ chunk_cnt \in Nat /\ Len(before) = r - 1
    BY DEF IInv, Sums, Counters, Measure
  <2> DEFINE longer == Append(before, chunk_cnt)
  <2>2. /\ longer \in Seq(Nat) /\ Len(longer) = Len(before) + 1
        /\ \A i \in 1..Len(before) : longer[i] = before[i]
        /\ longer[Len(before) + 1] = chunk_cnt
    BY <2>1, AppendProperties
  <2> HIDE DEF longer
  <2>3. before' = longer
    BY DEF Measure, longer
  <2>4. r \in Nat /\ Len(before) + 1 = r
    BY <1>1, <2>1
  <2>5. phase' = "measure" /\ r' = r + 1 /\ rows' = rows /\ chunk_cnt' = chunk_cnt + rows[r].len
    BY DEF Measure, Row
  <2>6. before'[1] = 0
    <3>1. CASE r = 1
      BY <2>1, <2>2, <2>3, <2>4, <3>1, EmptySeq DEF IInv, Sums
    <3>2. CASE r # 1
      BY <1>1, <2>1, <2>2, <2>3, <2>4, <3>2 DEF IInv, Sums
    <3> QED
      BY <3>1, <3>2
  <2>7. ASSUME NEW i \in 1..r
        PROVE  before'[i] + rows[i].len = IF i = r THEN chunk_cnt' ELSE before'[i + 1]
    <3>1. CASE i = r
      BY <2>2, <2>3, <2>4, <2>5, <3>1
    <3>2. CASE i = r - 1
      <4>1. before[i] + rows[i].len = chunk_cnt
        BY <2>1, <2>4, <3>2 DEF IInv, Sums
      <4> QED
        BY <2>1, <2>2, <2>3, <2>4, <3>2, <4>1
    <3>3. CASE i < r - 1
      <4>1. before[i] + rows[i].len = before[i + 1]
        BY <2>1, <2>4, <3>3 DEF IInv, Sums
      <4> QED
        BY <2>1, <2>2, <2>3, <2>4, <3>3, <4>1
    <3> QED
      BY <1>1, <3>1, <3>2, <3>3
  <2>8. ASSUME NEW i \in 1..r
        PROVE  before'[i] + rows[i].len <= chunk_cnt'
    <3>1. chunk_cnt <= chunk_cnt' /\ chunk_cnt' \in Nat /\ rows[i].len \in Nat
      BY <1>1, <2>1, <2>5, RowLayout DEF IInv, Row
    <3>2. CASE i = r
      BY <2>7, <3>1, <3>2
    <3>3. CASE i # r
      <4>1. i \in 1..Len(before) /\ before'[i] = before[i]
        BY <1>1, <2>2, <2>3, <2>4, <3>3
      <4>2. before[i] + rows[i].len <= chunk_cnt /\ before[i] \in Nat
        BY <2>1, <4>1, ElementOfSeq DEF IInv, Sums
      <4> QED
        BY <2>1, <3>1, <4>1, <4>2
    <3> QED
      BY <3>2, <3>3
  <2> QED
    BY <1>1, <2>2, <2>3, <2>4, <2>5, <2>6, <2>7, <2>8, EmptySeq DEF Sums
<1>4. OnLayout' /\ WrittenLeRead' /\ RecordsWritten'
  BY DEF IInv, Measure, OnLayout, WrittenLeRead, RecordsWritten, Here, Walking
<1> QED
  BY <1>2, <1>3, <1>4 DEF IInv

\* The walk starts at the first type of the first row.
LEMMA MeasuredInv ==
  ASSUME IInv, Measured
  PROVE  IInv'
<1>1. Len(rows) \in Nat \ {0} /\ DOMAIN rows = 1..Len(rows)
  BY RowsShape DEF IInv
<1>2. /\ phase = "measure" /\ r = Len(rows) + 1 /\ phase' = "rows" /\ r' = 1
      /\ UNCHANGED <<rows, geom_pos, linear_rings, pt_count, ngeoms, chunk_cnt, before, strm>>
  BY <1>1 DEF IInv, Counters, Measured
<1>3. Counters'
  BY <1>1, <1>2 DEF IInv, Counters
<1>4. Sums'
  BY <1>1, <1>2 DEF IInv, Sums
<1>5. Here = 0 /\ Here' = Here
  BY <1>2 DEF IInv, WrittenLeRead, Here
<1>6. before[1] = 0 /\ geom_pos \in Nat /\ chunk_cnt \in Nat
  BY <1>1, <1>2, EmptySeq DEF IInv, Sums, Counters
<1>7. Start(rows[1], 1) /\ rows[1].len \in Nat
  BY <1>1, RowLayout DEF IInv, WellFormed
<1>8. RecordsWritten'
  BY <1>2, <1>5 DEF IInv, RecordsWritten
<1>9. geom_pos = 1
  BY <1>2 DEF IInv, OnLayout
<1>10. OnLayout' /\ WrittenLeRead'
  BY <1>1, <1>2, <1>5, <1>6, <1>7, <1>9 DEF OnLayout, WrittenLeRead, Walking, Row
<1> QED
  BY <1>3, <1>4, <1>8, <1>10 DEF IInv

-----------------------------------------------------------------------------
(* A record written in row r, and a step of the walk in that row. *)

\* short_stream puts a record behind those before it.
LEMMA RecordInv ==
  ASSUME IInv, NEW type \in Nat, NEW npts \in Nat, ShortStream(type, npts),
         phase \in {"rows", "rings"}, phase' # "measure", r \in 1..Len(rows),
         rows' = rows
  PROVE  /\ RecordsWritten'
         /\ Here \in Nat /\ Here' = Here + Size(npts)
         /\ pt_count' \in Nat /\ ngeoms' \in Nat
<1>1. pt_count \in Nat /\ ngeoms \in Nat
  BY DEF IInv, Counters
<1>2. /\ Here \in Nat /\ Here' \in Nat
      /\ Here' = Here + Size(npts) /\ Here <= Here'
  BY <1>1 DEF ShortStream, Here, Size
<1> DEFINE rec == [at |-> Here, type |-> type, npts |-> npts]
<1>3. DOMAIN strm = DOMAIN rows /\ r \in DOMAIN strm
  BY RowsShape DEF IInv, RecordsWritten
<1>4. strm[r] \in Seq([at : Nat, type : Nat, npts : Nat])
  BY <1>3 DEF IInv, RecordsWritten
<1>5. rec \in [at : Nat, type : Nat, npts : Nat]
  BY <1>2
<1>6. rec.at + Size(rec.npts) = Here'
  BY <1>2
<1> DEFINE longer == Append(strm[r], rec)
<1> HIDE DEF rec
<1>7. /\ longer \in Seq([at : Nat, type : Nat, npts : Nat])
      /\ Len(longer) = Len(strm[r]) + 1 /\ Len(strm[r]) \in Nat
      /\ \A j \in 1..Len(strm[r]) : longer[j] = strm[r][j]
      /\ longer[Len(strm[r]) + 1] = rec
  BY <1>4, <1>5, AppendProperties, LenProperties
<1>8. strm' = [strm EXCEPT ![r] = longer]
  BY DEF ShortStream, rec
<1> HIDE DEF longer
<1>9. DOMAIN strm' = DOMAIN strm /\ strm'[r] = longer
      /\ \A i \in DOMAIN strm : i # r => strm'[i] = strm[i]
  BY <1>3, <1>8
<1>10. ASSUME NEW i \in DOMAIN strm, NEW j \in 1..Len(strm[i])
       PROVE  strm[i][j].at + Size(strm[i][j].npts) <= Here'
  <2>1. strm[i][j] \in [at : Nat, type : Nat, npts : Nat]
    BY ElementOfSeq DEF IInv, RecordsWritten
  <2>2. strm[i][j].at + Size(strm[i][j].npts) <= Here
    BY DEF IInv, RecordsWritten
  <2>3. strm[i][j].at \in Nat /\ strm[i][j].npts \in Nat
    BY <2>1
  <2> DEFINE at == strm[i][j].at
             size == Size(strm[i][j].npts)
  <2>4. at \in Nat /\ size \in Nat /\ at + size <= Here
    BY <2>2, <2>3 DEF Size
  <2>5. at + size <= Here'
    <3> HIDE DEF at, size
    <3> QED
      BY <1>2, <2>4
  <2> QED
    BY <2>5
<1> DEFINE n == Len(strm[r])
<1>11. ASSUME NEW j \in 1..(n + 1)
       PROVE  longer[j].at + Size(longer[j].npts) <= Here'
  <2>1. n \in Nat /\ Here' \in Nat
    BY <1>2, <1>7
  <2>2. CASE j = n + 1
    <3>1. longer[j] = rec
      BY <1>7, <2>2
    <3> QED
      BY <1>6, <2>1, <3>1
  <2>3. CASE j # n + 1
    <3>1. j \in 1..n
      BY <2>1, <2>3
    <3>2. longer[j] = strm[r][j]
      BY <1>7, <3>1
    <3> QED
      BY <1>3, <1>10, <3>1, <3>2
  <2> QED
    BY <2>2, <2>3
<1>12. RecordsWritten'
  BY <1>3, <1>7, <1>9, <1>10, <1>11 DEF IInv, RecordsWritten
<1> QED
  BY <1>1, <1>2, <1>12 DEF ShortStream

\* The bytes of row r end where those of the next one begin.
LEMMA RowEnd ==
  ASSUME IInv, Walking
  PROVE  /\ r \in 1..Len(rows) /\ Len(rows) \in Nat \ {0}
         /\ WellFormed(Row) /\ Row.len \in Nat
         /\ Len(before) = Len(rows)
         /\ before[r] \in Nat
         /\ before[r] + Row.len <= chunk_cnt
         /\ before[r] + Row.len = IF r = Len(rows) THEN chunk_cnt ELSE before[r + 1]
<1>1. r \in 1..Len(rows) /\ Len(rows) \in Nat \ {0}
  BY RowsShape DEF IInv, Counters, Walking
<1>2. Len(before) = Len(rows) /\ before \in Seq(Nat)
  BY DEF IInv, Sums, Walking
<1>3. before[r] \in Nat
  BY <1>1, <1>2, ElementOfSeq
<1>4. WellFormed(Row) /\ Row.len \in Nat
  BY <1>1, RowLayout DEF IInv, Row
<1> QED
  BY <1>1, <1>2, <1>3, <1>4 DEF IInv, Sums, Row

\* A step of the walk that stays in row r keeps Sums, and Counters if the new
\* offset and ring count are natural numbers.
LEMMA InRowFrame ==
  ASSUME IInv, Walking, UNCHANGED <<rows, r, chunk_cnt, before>>,
         phase' \in {"rows", "rings"},
         geom_pos' \in Nat, linear_rings' \in Nat, pt_count' \in Nat, ngeoms' \in Nat
  PROVE  Counters' /\ Sums'
<1>1. Counters'
  BY DEF IInv, Counters
<1>2. Sums'
  BY DEF IInv, Sums, Walking
<1> QED
  BY <1>1, <1>2

\* A step in row r keeps WrittenLeRead if what is written then is within bounds.
LEMMA InRowWritten ==
  ASSUME UNCHANGED <<rows, r, chunk_cnt, before>>, phase' \in {"rows", "rings"},
         Here' <= before[r] + geom_pos' - 1,
         Here' <= before[r] + Row.len,
         Here' <= chunk_cnt
  PROVE  WrittenLeRead'
<1>1. Row' = Row /\ before'[r'] = before[r] /\ chunk_cnt' = chunk_cnt
  BY DEF Row
<1>2. Here' <= before'[r'] + geom_pos' - 1 /\ Here' <= before'[r'] + Row'.len /\ Here' <= chunk_cnt'
  BY <1>1
<1> QED
  BY <1>2 DEF WrittenLeRead

\* The arithmetic of a record: it is no longer than the bytes it is read from.
LEMMA NoLonger ==
  ASSUME NEW h \in Nat, NEW b \in Nat, NEW g \in Nat, NEW len \in Nat, NEW c \in Nat,
         NEW size \in Nat, NEW read \in Nat,
         h <= b + g - 1, b + len <= c, size <= read, g + size - 1 <= len
  PROVE  /\ h + size <= b + (g + read) - 1
         /\ h + size <= b + len
         /\ h + size <= c
OBVIOUS

\* A point: 17 bytes on, 16 written.
LEMMA PointInv ==
  ASSUME IInv, Point
  PROVE  IInv'
<1>1. /\ Walking /\ Walking' /\ phase = "rows" /\ phase' = "rows"
      /\ geom_pos < Row.len /\ IntAt(Row, geom_pos) = 1
      /\ geom_pos' = geom_pos + 17 /\ ShortStream(1, 1)
      /\ UNCHANGED <<rows, r, linear_rings, chunk_cnt, before>>
  BY DEF Point, InRow, ReadAt, Walking
<1>2. /\ r \in 1..Len(rows) /\ WellFormed(Row) /\ Row.len \in Nat /\ before[r] \in Nat
      /\ before[r] + Row.len <= chunk_cnt
  BY <1>1, RowEnd
<1>3. geom_pos \in Nat /\ chunk_cnt \in Nat /\ linear_rings \in Nat
  BY DEF IInv, Counters
<1>4. geom_pos \in Row.starts /\ geom_pos >= 1
  BY <1>1, <1>2, <1>3 DEF IInv, OnLayout, Walking, Start
<1>5. geom_pos + 20 <= Row.len /\ Start(Row, geom_pos + 17)
  BY <1>1, <1>2, <1>4 DEF WellFormed
<1>6. /\ RecordsWritten' /\ Here \in Nat /\ Here' = Here + 16
      /\ pt_count' \in Nat /\ ngeoms' \in Nat
  BY <1>1, <1>2, RecordInv DEF Size
<1>7. Counters' /\ Sums'
  BY <1>1, <1>3, <1>6, InRowFrame
<1>8. OnLayout'
  BY <1>1, <1>3, <1>5 DEF OnLayout, Row
<1>9. Here <= before[r] + geom_pos - 1
  BY <1>1 DEF IInv, WrittenLeRead
<1>10. WrittenLeRead'
  <2> DEFINE size == 16
             read == 17
  <2>1. size \in Nat /\ read \in Nat /\ size <= read /\ geom_pos + size - 1 <= Row.len
    BY <1>2, <1>3, <1>5
  <2>2. Here' = Here + size /\ geom_pos' = geom_pos + read
    BY <1>1, <1>3, <1>5, <1>6
  <2> HIDE DEF size, read
  <2>3. /\ Here + size <= before[r] + (geom_pos + read) - 1
        /\ Here + size <= before[r] + Row.len
        /\ Here + size <= chunk_cnt
    BY <1>2, <1>3, <1>6, <1>9, <2>1, NoLonger, SMTT(30)
  <2>4. /\ Here' <= before[r] + geom_pos' - 1
        /\ Here' <= before[r] + Row.len
        /\ Here' <= chunk_cnt
    BY <2>2, <2>3
  <2> QED
    BY <1>1, <2>4, InRowWritten
<1> QED
  BY <1>6, <1>7, <1>8, <1>10 DEF IInv

\* A line: its n points, at least one, make up for the 12 bytes of the head.
LEMMA LineStringInv ==
  ASSUME IInv, LineString
  PROVE  IInv'
<1> DEFINE n == IntAt(Row, geom_pos + 4)
<1>1. /\ Walking /\ Walking' /\ phase = "rows" /\ phase' = "rows"
      /\ geom_pos < Row.len /\ IntAt(Row, geom_pos) = 2
      /\ geom_pos' = geom_pos + 16 * n + 9 /\ ShortStream(2, n)
      /\ UNCHANGED <<rows, r, linear_rings, chunk_cnt, before>>
  BY DEF LineString, InRow, ReadAt, Walking
<1>2. /\ r \in 1..Len(rows) /\ WellFormed(Row) /\ Row.len \in Nat /\ before[r] \in Nat
      /\ before[r] + Row.len <= chunk_cnt
  BY <1>1, RowEnd
<1>3. geom_pos \in Nat /\ chunk_cnt \in Nat /\ linear_rings \in Nat
  BY DEF IInv, Counters
<1>4. geom_pos \in Row.starts /\ geom_pos >= 1
  BY <1>1, <1>2, <1>3 DEF IInv, OnLayout, Walking, Start
<1>5. n \in Nat \ {0} /\ geom_pos + 8 + 16 * n <= Row.len /\ Start(Row, geom_pos + 16 * n + 9)
  BY <1>1, <1>2, <1>4 DEF WellFormed
<1> HIDE DEF n
<1>6. /\ RecordsWritten' /\ Here \in Nat /\ Here' = Here + 12 + 4 * n
      /\ pt_count' \in Nat /\ ngeoms' \in Nat
  BY <1>1, <1>2, <1>5, RecordInv DEF Size
<1>7. Counters' /\ Sums'
  BY <1>1, <1>3, <1>5, <1>6, InRowFrame
<1>8. OnLayout'
  BY <1>1, <1>3, <1>5 DEF OnLayout, Row
<1>9. Here <= before[r] + geom_pos - 1
  BY <1>1 DEF IInv, WrittenLeRead
<1>10. WrittenLeRead'
  <2> DEFINE size == 12 + 4 * n
             read == 16 * n + 9
  <2>1. size \in Nat /\ read \in Nat /\ size <= read /\ geom_pos + size - 1 <= Row.len
    BY <1>2, <1>3, <1>5
  <2>2. Here' = Here + size /\ geom_pos' = geom_pos + read
    BY <1>1, <1>3, <1>5, <1>6
  <2> HIDE DEF size, read
  <2>3. /\ Here + size <= before[r] + (geom_pos + read) - 1
        /\ Here + size <= before[r] + Row.len
        /\ Here + size <= chunk_cnt
    BY <1>2, <1>3, <1>6, <1>9, <2>1, NoLonger, SMTT(30)
  <2>4. /\ Here' <= before[r] + geom_pos' - 1
        /\ Here' <= before[r] + Row.len
        /\ Here' <= chunk_cnt
    BY <2>2, <2>3
  <2> QED
    BY <1>1, <2>4, InRowWritten
<1> QED
  BY <1>6, <1>7, <1>8, <1>10 DEF IInv

\* The head of a polygon: nothing is written.
LEMMA PolygonInv ==
  ASSUME IInv, Polygon
  PROVE  IInv'
<1> DEFINE n == IntAt(Row, geom_pos + 4)
<1>1. /\ Walking /\ Walking' /\ phase = "rows" /\ phase' = "rings"
      /\ geom_pos < Row.len /\ IntAt(Row, geom_pos) = 3
      /\ geom_pos' = geom_pos + 8 /\ linear_rings' = n
      /\ UNCHANGED <<rows, r, pt_count, ngeoms, chunk_cnt, before, strm>>
  BY DEF Polygon, InRow, ReadAt, Walking
<1>2. WellFormed(Row)
  BY <1>1, RowEnd
<1>3. geom_pos \in Nat /\ pt_count \in Nat /\ ngeoms \in Nat /\ Row.len \in Nat
      /\ before[r] \in Nat
  BY <1>1, RowEnd DEF IInv, Counters
<1>4. geom_pos \in Row.starts /\ geom_pos >= 1
  BY <1>1, <1>2, <1>3 DEF IInv, OnLayout, Walking, Start
<1>5. n \in Nat /\ IF n = 0 THEN Start(Row, geom_pos + 9) ELSE RingAt(Row, geom_pos + 8, n)
  BY <1>1, <1>2, <1>4 DEF WellFormed
<1> HIDE DEF n
<1>6. Counters' /\ Sums'
  BY <1>1, <1>3, <1>5, InRowFrame
<1>7. OnLayout'
  BY <1>1, <1>3, <1>5 DEF OnLayout, Row
<1>8. Here' = Here /\ Here \in Nat
  BY <1>1, <1>3 DEF Here
<1>9. WrittenLeRead'
  BY <1>1, <1>3, <1>8 DEF IInv, WrittenLeRead, Row
<1>10. RecordsWritten'
  BY <1>1, <1>8 DEF IInv, RecordsWritten
<1> QED
  BY <1>6, <1>7, <1>9, <1>10 DEF IInv

\* A ring: as a line, with 4 bytes of head to make up for.
LEMMA RingInv ==
  ASSUME IInv, Ring
  PROVE  IInv'
<1> DEFINE n == IntAt(Row, geom_pos)
<1>1. /\ Walking /\ Walking' /\ phase = "rings" /\ phase' = "rings" /\ linear_rings # 0
      /\ geom_pos' = geom_pos + 16 * n + 4 /\ ShortStream(3, n)
      /\ linear_rings' = linear_rings - 1
      /\ UNCHANGED <<rows, r, chunk_cnt, before>>
  BY DEF Ring, ReadAt, Walking, IInv, Sums
<1>2. /\ r \in 1..Len(rows) /\ WellFormed(Row) /\ Row.len \in Nat /\ before[r] \in Nat
      /\ before[r] + Row.len <= chunk_cnt
  BY <1>1, RowEnd
<1>3. geom_pos \in Nat /\ chunk_cnt \in Nat /\ linear_rings \in Nat \ {0}
  BY <1>1 DEF IInv, Counters
<1>4. RingAt(Row, geom_pos, linear_rings) /\ geom_pos >= 1
  BY <1>1 DEF IInv, OnLayout
<1>5. /\ n \in Nat \ {0} /\ geom_pos + 16 * n + 4 <= Row.len
      /\ IF linear_rings = 1 THEN Start(Row, geom_pos + 16 * n + 4 + 1)
                             ELSE RingAt(Row, geom_pos + 16 * n + 4, linear_rings - 1)
  BY <1>2, <1>4 DEF WellFormed, RingAt
<1> HIDE DEF n
<1>6. /\ RecordsWritten' /\ Here \in Nat /\ Here' = Here + 12 + 4 * n
      /\ pt_count' \in Nat /\ ngeoms' \in Nat
  BY <1>1, <1>2, <1>5, RecordInv DEF Size
<1>7. Counters' /\ Sums'
  BY <1>1, <1>3, <1>5, <1>6, InRowFrame
<1>8. OnLayout'
  BY <1>1, <1>3, <1>5 DEF OnLayout, Row
<1>9. Here <= before[r] + geom_pos - 1
  BY <1>1 DEF IInv, WrittenLeRead
<1>10. WrittenLeRead'
  <2> DEFINE size == 12 + 4 * n
             read == 16 * n + 4
  <2>1. size \in Nat /\ read \in Nat /\ size <= read /\ geom_pos + size - 1 <= Row.len
    BY <1>2, <1>3, <1>5
  <2>2. Here' = Here + size /\ geom_pos' = geom_pos + read
    BY <1>1, <1>3, <1>5, <1>6
  <2> HIDE DEF size, read
  <2>3. /\ Here + size <= before[r] + (geom_pos + read) - 1
        /\ Here + size <= before[r] + Row.len
        /\ Here + size <= chunk_cnt
    BY <1>2, <1>3, <1>6, <1>9, <2>1, NoLonger, SMTT(30)
  <2>4. /\ Here' <= before[r] + geom_pos' - 1
        /\ Here' <= before[r] + Row.len
        /\ Here' <= chunk_cnt
    BY <2>2, <2>3
  <2> QED
    BY <1>1, <2>4, InRowWritten
<1> QED
  BY <1>6, <1>7, <1>8, <1>10 DEF IInv

\* The end of a polygon and the head of a collection only move on.
LEMMA SkipInv ==
  ASSUME IInv, PolygonDone \/ OtherType
  PROVE  IInv'
<1>1. /\ Walking /\ Walking' /\ phase' = "rows"
      /\ UNCHANGED <<rows, r, linear_rings, pt_count, ngeoms, chunk_cnt, before, strm>>
  BY DEF PolygonDone, OtherType, Walking, IInv, Sums
<1>2. /\ WellFormed(Row) /\ Row.len \in Nat /\ before[r] \in Nat
      /\ geom_pos \in Nat /\ linear_rings \in Nat /\ pt_count \in Nat /\ ngeoms \in Nat
  BY <1>1, RowEnd DEF IInv, Counters
<1>3. geom_pos >= 1
  BY <1>1 DEF IInv, OnLayout, Walking
<1>4. geom_pos' \in Nat /\ geom_pos' > geom_pos /\ Start(Row, geom_pos')
  <2>1. CASE PolygonDone
    BY <1>2, <2>1 DEF PolygonDone, IInv, OnLayout
  <2>2. CASE OtherType
    <3>1. geom_pos \in Row.starts /\ geom_pos < Row.len /\ geom_pos' = geom_pos + 9
      BY <1>2, <2>2 DEF OtherType, IInv, OnLayout, Start
    <3>2. IntAt(Row, geom_pos) \notin {1, 2, 3}
      BY <2>2 DEF OtherType, ReadAt
    <3> QED
      BY <1>2, <3>1, <3>2 DEF WellFormed
  <2> QED
    BY <2>1, <2>2
<1>5. Counters' /\ Sums'
  BY <1>1, <1>2, <1>4, InRowFrame
<1>6. OnLayout'
  BY <1>1, <1>2, <1>3, <1>4 DEF OnLayout, Row
<1>7. Here' = Here /\ Here \in Nat
  BY <1>1, <1>2 DEF Here
<1>8. WrittenLeRead'
  <2>1. /\ Here <= before[r] + geom_pos - 1
        /\ Here <= before[r] + Row.len
        /\ Here <= chunk_cnt
    BY <1>1 DEF IInv, WrittenLeRead, Walking
  <2>2. Here' <= before[r] + geom_pos' - 1
    BY <1>2, <1>4, <1>7, <2>1
  <2> QED
    BY <1>1, <1>7, <2>1, <2>2, InRowWritten
<1>9. RecordsWritten'
  BY <1>1, <1>7 DEF IInv, RecordsWritten
<1> QED
  BY <1>5, <1>6, <1>8, <1>9 DEF IInv

\* The next row begins where the bytes of this one end.
LEMMA NextRowInv ==
  ASSUME IInv, NextRow
  PROVE  IInv'
<1>1. /\ Walking /\ phase = "rows" /\ phase' = "rows" /\ r' = r + 1 /\ geom_pos' = 1
      /\ UNCHANGED <<rows, linear_rings, pt_count, ngeoms, chunk_cnt, before, strm>>
  BY DEF NextRow, Walking
<1>2. /\ r \in 1..Len(rows) /\ Len(rows) \in Nat \ {0} /\ Len(before) = Len(rows)
      /\ Row.len \in Nat /\ before[r] \in Nat
      /\ before[r] + Row.len = IF r = Len(rows) THEN chunk_cnt ELSE before[r + 1]
  BY <1>1, RowEnd
<1>3. Counters'
  BY <1>1, <1>2 DEF IInv, Counters
<1>4. Sums'
  BY <1>1 DEF IInv, Sums
<1>5. ASSUME r < Len(rows)
      PROVE  /\ WellFormed(rows[r + 1]) /\ rows[r + 1].len \in Nat /\ before[r + 1] \in Nat
  <2>1. r + 1 \in 1..Len(rows)
    BY <1>2, <1>5
  <2>2. before \in Seq(Nat)
    BY DEF IInv, Sums
  <2> QED
    BY <1>2, <2>1, <2>2, RowLayout, ElementOfSeq DEF IInv
<1>6. OnLayout'
  BY <1>1, <1>2, <1>5 DEF OnLayout, Row, WellFormed
<1>7. Here' = Here /\ Here \in Nat
  BY <1>1 DEF Here, IInv, Counters
<1>8. Here <= before[r] + Row.len /\ Here <= chunk_cnt
  BY <1>1 DEF IInv, WrittenLeRead, Walking
<1>9. WrittenLeRead'
  <2>1. CASE r = Len(rows)
    BY <1>1, <1>2, <1>7, <1>8, <2>1 DEF WrittenLeRead, Walking
  <2>2. CASE r < Len(rows)
    BY <1>1, <1>2, <1>5, <1>7, <1>8, <2>2 DEF WrittenLeRead, Row
  <2> QED
    BY <1>2, <2>1, <2>2
<1>10. RecordsWritten'
  BY <1>1, <1>7 DEF IInv, RecordsWritten
<1> QED
  BY <1>3, <1>4, <1>6, <1>9, <1>10 DEF IInv

\* The chunk is written, or nothing happens.
LEMMA SendInv ==
  ASSUME IInv, Send \/ UNCHANGED vars
  PROVE  IInv'
<1>1. CASE Send
  <2>1. Counters' /\ Sums'
    BY <1>1 DEF IInv, Send, Counters, Sums
  <2>2. Here' = Here
    BY <1>1 DEF Send, Here
  <2> QED
    BY <1>1, <2>1, <2>2 DEF IInv, Send, OnLayout, WrittenLeRead, Walking, RecordsWritten
<1>2. CASE UNCHANGED vars
  BY <1>2 DEF IInv, vars, Counters, Sums, OnLayout, Row, WrittenLeRead, Walking, Here,
              RecordsWritten
<1> QED
  BY <1>1, <1>2

\* The walk never writes more than it has read of the result.
THEOREM Invariant == Spec => []IInv
<1>1. IInv /\ [Next]_vars => IInv'
  BY MeasureInv, MeasuredInv, PointInv, LineStringInv, PolygonInv, RingInv, SkipInv,
     NextRowInv, SendInv DEF Next, Step, Done
<1> QED
  BY <1>1, InitInv, PTL DEF Spec

-----------------------------------------------------------------------------
(* The records, as a set. *)

\* What short_stream is called with: a point, or the points of a line or ring.
LEMMA RecordShape ==
  ASSUME IInv, Point \/ LineString \/ Ring
  PROVE  \E type \in Nat, npts \in Nat : ShortStream(type, npts)
<1>1. CASE Point
  BY <1>1 DEF Point
<1>2. CASE LineString
  <2>1. Walking /\ phase = "rows" /\ geom_pos < Row.len /\ ReadAt(geom_pos) = 2
        /\ ShortStream(2, ReadAt(geom_pos + 4))
    BY <1>2 DEF LineString, InRow, Walking
  <2>2. WellFormed(Row) /\ Row.len \in Nat /\ geom_pos \in Nat
    BY <2>1, RowEnd DEF IInv, Counters
  <2>3. geom_pos \in Row.starts
    BY <2>1, <2>2 DEF IInv, OnLayout, Walking, Start
  <2>4. ReadAt(geom_pos + 4) \in Nat
    BY <2>1, <2>2, <2>3 DEF WellFormed, ReadAt
  <2> QED
    BY <2>1, <2>4
<1>3. CASE Ring
  <2>1. Walking /\ phase = "rings" /\ linear_rings # 0 /\ ShortStream(3, ReadAt(geom_pos))
    BY <1>3 DEF Ring, Walking, IInv, Sums
  <2>2. WellFormed(Row) /\ RingAt(Row, geom_pos, linear_rings)
    BY <2>1, RowEnd DEF IInv, OnLayout
  <2>3. ReadAt(geom_pos) \in Nat
    BY <2>2 DEF WellFormed, RingAt, ReadAt
  <2> QED
    BY <2>1, <2>3
<1> QED
  BY <1>1, <1>2, <1>3

\* A record is as short_stream writes it, and lies in what has been written.
LEMMA RecordBounds ==
  ASSUME IInv, NEW rec \in Records
  PROVE  /\ rec \in [at : Nat, type : Nat, npts : Nat] /\ Size(rec.npts) \in Nat \ {0}
         /\ rec.at + Size(rec.npts) <= Here
         /\ phase # "measure"
<1>1. PICK i \in DOMAIN strm : \E j \in DOMAIN strm[i] : rec = strm[i][j]
  BY DEF Records
<1>2. strm[i] \in Seq([at : Nat, type : Nat, npts : Nat])
  BY DEF IInv, RecordsWritten
<1>3. PICK j \in 1..Len(strm[i]) : rec = strm[i][j]
  BY <1>1, <1>2, LenProperties
<1>4. rec \in [at : Nat, type : Nat, npts : Nat]
  BY <1>2, <1>3, ElementOfSeq
<1>5. rec.at + Size(rec.npts) <= Here
  BY <1>3 DEF IInv, RecordsWritten
<1>6. Size(rec.npts) \in Nat \ {0}
  BY <1>4 DEF Size
<1>7. phase # "measure"
  BY <1>3, EmptySeq DEF IInv, RecordsWritten
<1> QED
  BY <1>4, <1>5, <1>6, <1>7

\* short_stream adds one record.
LEMMA RecordAdded ==
  ASSUME IInv, NEW type \in Nat, NEW npts \in Nat, ShortStream(type, npts), r \in 1..Len(rows)
  PROVE  Records' = Records \cup {[at |-> Here, type |-> type, npts |-> npts]}
<1> DEFINE rec == [at |-> Here, type |-> type, npts |-> npts]
           longer == Append(strm[r], rec)
           n == Len(strm[r])
<1>1. DOMAIN strm = DOMAIN rows /\ r \in DOMAIN strm
  BY RowsShape DEF IInv, RecordsWritten
<1>2. strm[r] \in Seq([at : Nat, type : Nat, npts : Nat])
  BY <1>1 DEF IInv, RecordsWritten
<1>3. rec \in [at : Nat, type : Nat, npts : Nat]
  BY DEF IInv, Counters, Here
<1> HIDE DEF rec
<1>4. /\ n \in Nat /\ DOMAIN strm[r] = 1..n /\ DOMAIN longer = 1..(n + 1)
      /\ \A j \in 1..n : longer[j] = strm[r][j]
      /\ longer[n + 1] = rec
  BY <1>2, <1>3, AppendProperties, LenProperties
<1>5. strm' = [strm EXCEPT ![r] = longer]
  BY DEF ShortStream, rec
<1> HIDE DEF longer, n
<1>6. /\ DOMAIN strm' = DOMAIN strm /\ strm'[r] = longer
      /\ \A i \in DOMAIN strm : i # r => strm'[i] = strm[i]
  BY <1>1, <1>5
<1>7. {longer[j] : j \in DOMAIN longer} = {strm[r][j] : j \in DOMAIN strm[r]} \cup {rec}
  <2>1. 1..(n + 1) = 1..n \cup {n + 1}
    BY <1>4
  <2> QED
    BY <1>4, <2>1
<1>8. ASSUME NEW i \in DOMAIN strm, i # r
      PROVE  {strm'[i][j] : j \in DOMAIN strm'[i]} = {strm[i][j] : j \in DOMAIN strm[i]}
  BY <1>6, <1>8
<1> DEFINE Old(i) == {strm[i][j] : j \in DOMAIN strm[i]}
           New(i) == {strm'[i][j] : j \in DOMAIN strm'[i]}
<1>9. Records' = UNION {New(i) : i \in DOMAIN strm} /\ Records = UNION {Old(i) : i \in DOMAIN strm}
  BY <1>6 DEF Records
<1>10. New(r) = Old(r) \cup {rec}
  BY <1>6, <1>7
<1>11. \A i \in DOMAIN strm : i # r => New(i) = Old(i)
  BY <1>8
<1> HIDE DEF Old, New
<1> QED
  BY <1>1, <1>9, <1>10, <1>11 DEF rec

\* The records lie behind each other up to the place of the next one.
AbutInv ==
  /\ RecordsAbut
  /\ Here = 0 \/ \E rec \in Records : rec.at + Size(rec.npts) = Here

\* One more record, at that place.
LEMMA AbutRecord ==
  ASSUME IInv, AbutInv, NEW type \in Nat, NEW npts \in Nat,
         Records' = Records \cup {[at |-> Here, type |-> type, npts |-> npts]},
         Here' = Here + Size(npts)
  PROVE  AbutInv'
<1> DEFINE new == [at |-> Here, type |-> type, npts |-> npts]
<1>1. Here \in Nat /\ Size(npts) \in Nat \ {0}
  BY DEF IInv, Counters, Here, Size
<1>2. /\ new.at = Here /\ new.at + Size(new.npts) = Here' /\ new \in Records'
  OBVIOUS
<1>3. Records' = Records \cup {new}
  OBVIOUS
<1> HIDE DEF new
<1>4. ASSUME NEW rec \in Records
      PROVE  rec.at \in Nat /\ rec.at < Here
  <2>1. rec.at \in Nat /\ Size(rec.npts) \in Nat \ {0} /\ rec.at + Size(rec.npts) <= Here
    BY RecordBounds
  <2> QED
    BY <1>1, <2>1
<1>5. ASSUME NEW rec \in Records'
      PROVE  /\ rec.at = 0 \/ \E prev \in Records' : prev.at + Size(prev.npts) = rec.at
             /\ \/ rec.at + Size(rec.npts) = Here'
                \/ \E nxt \in Records' : nxt.at = rec.at + Size(rec.npts)
             /\ \A other \in Records' : other.at = rec.at => other = rec
  <2>1. CASE rec = new
    <3>1. new.at = 0 \/ \E prev \in Records' : prev.at + Size(prev.npts) = new.at
      BY <1>2, <1>3 DEF AbutInv
    <3>2. \A other \in Records' : other.at = new.at => other = new
      BY <1>1, <1>2, <1>3, <1>4
    <3> QED
      BY <1>2, <2>1, <3>1, <3>2
  <2>2. CASE rec \in Records
    <3>1. rec.at = 0 \/ \E prev \in Records' : prev.at + Size(prev.npts) = rec.at
      BY <1>3, <2>2 DEF AbutInv, RecordsAbut
    <3>2. \E nxt \in Records' : nxt.at = rec.at + Size(rec.npts)
      BY <1>2, <1>3, <2>2 DEF AbutInv, RecordsAbut
    <3>3. \A other \in Records : other.at = rec.at => other = rec
      BY <2>2 DEF AbutInv, RecordsAbut
    <3>4. new.at # rec.at
      BY <1>1, <1>2, <1>4, <2>2
    <3> QED
      BY <1>3, <3>1, <3>2, <3>3, <3>4
  <2> QED
    BY <1>3, <2>1, <2>2
<1>6. RecordsAbut'
  BY <1>5 DEF RecordsAbut
<1> QED
  BY <1>2, <1>6 DEF AbutInv

LEMMA AbutStep == IInv /\ AbutInv /\ [Next]_vars => AbutInv'
<1> SUFFICES ASSUME IInv, AbutInv, [Next]_vars PROVE AbutInv'
  OBVIOUS
<1>1. CASE \/ Measure \/ Measured \/ Polygon \/ PolygonDone \/ OtherType \/ NextRow \/ Send
           \/ UNCHANGED vars
  <2>1. UNCHANGED <<strm, pt_count, ngeoms>>
    BY <1>1 DEF Measure, Measured, Polygon, PolygonDone, OtherType, NextRow, Send, vars
  <2> QED
    BY <2>1 DEF AbutInv, RecordsAbut, Records, Here
<1>2. CASE Point \/ LineString \/ Ring
  <2>1. PICK type \in Nat, npts \in Nat : ShortStream(type, npts)
    BY <1>2, RecordShape
  <2>2. r \in 1..Len(rows) /\ rows' = rows /\ phase \in {"rows", "rings"} /\ phase' # "measure"
    BY <1>2, RowEnd DEF Point, LineString, Ring, InRow, Walking, IInv, Sums
  <2> QED
    BY <2>1, <2>2, RecordAdded, RecordInv, AbutRecord
<1> QED
  BY <1>1, <1>2 DEF Next, Step, Done

-----------------------------------------------------------------------------
(* The records of a row, against its parts. *)

\* The database returns no point with anything behind it: no multipoint of several
\* points, and in a collection a point only at its end.
NothingAfterPoints == \A result \in Results : \A i \in DOMAIN result : LaidOut(result[i])

\* The records of a row so far are its first parts.
Prefix(i) ==
  /\ Len(strm[i]) <= Len(rows[i].parts)
  /\ \A j \in 1..Len(strm[i]) : <<strm[i][j].type, strm[i][j].npts>> = rows[i].parts[j]

Streamed(i) == Len(strm[i]) = Len(rows[i].parts)

\* The part that has no record yet.
Upcoming == Len(strm[r]) + 1

\* After a point the walk is in the last bytes of its y, which read as no type, and
\* leaves the row from there.
InLastY ==
  /\ Len(strm[r]) = Len(Row.parts)
  /\ geom_pos < Row.len /\ Row.len <= geom_pos + 9 /\ ReadAt(geom_pos) \notin {1, 2, 3}

\* The walk stands where the upcoming part begins.
AtPart ==
  /\ phase = "rows" /\ r <= Len(rows) => TypeComes(Row, geom_pos, Upcoming) \/ InLastY
  /\ phase = "rings" /\ linear_rings # 0 => RingComes(Row, geom_pos, Upcoming)
  /\ phase = "rings" /\ linear_rings = 0 => TypeComes(Row, geom_pos + 1, Upcoming)

PartsInv ==
  /\ \A i \in DOMAIN rows : Prefix(i)
  /\ \A i \in DOMAIN rows : (phase \in {"rows", "rings"} /\ i < r) \/ phase = "sent" => Streamed(i)
  /\ \A i \in DOMAIN rows : phase \in {"rows", "rings"} /\ i > r => strm[i] = <<>>
  /\ AtPart

\* The row that is walked is laid out, with the parts it has.
LEMMA RowParts ==
  ASSUME NothingAfterPoints, IInv, NEW i \in 1..Len(rows)
  PROVE  /\ LaidOut(rows[i]) /\ i \in DOMAIN rows /\ i \in DOMAIN strm
         /\ rows[i].parts \in Seq(Nat \X Nat)
         /\ DOMAIN rows[i].parts = 1..Len(rows[i].parts) /\ Len(rows[i].parts) \in Nat
         /\ strm[i] \in Seq([at : Nat, type : Nat, npts : Nat])
         /\ Len(strm[i]) \in Nat /\ DOMAIN strm[i] = 1..Len(strm[i])
<1>1. i \in DOMAIN rows /\ i \in DOMAIN strm /\ rows \in Results
  BY RowsShape DEF IInv, Counters, RecordsWritten
<1>2. LaidOut(rows[i])
  BY <1>1 DEF NothingAfterPoints
<1>3. rows[i].parts \in Seq(Nat \X Nat)
  BY <1>2 DEF LaidOut
<1>4. strm[i] \in Seq([at : Nat, type : Nat, npts : Nat])
  BY <1>1 DEF IInv, RecordsWritten
<1> QED
  BY <1>1, <1>2, <1>3, <1>4, LenProperties

\* The upcoming part is written.
LEMMA PartWritten ==
  ASSUME NothingAfterPoints, IInv, PartsInv, Walking, UNCHANGED <<rows, r>>,
         phase' \in {"rows", "rings"},
         NEW type \in Nat, NEW npts \in Nat, ShortStream(type, npts),
         PartIs(Row, Upcoming, <<type, npts>>),
         AtPart'
  PROVE  PartsInv'
<1> DEFINE rec == [at |-> Here, type |-> type, npts |-> npts]
           longer == Append(strm[r], rec)
           n == Len(strm[r])
<1>1. r \in 1..Len(rows) /\ Len(rows) \in Nat
  BY RowEnd
<1>2. /\ r \in DOMAIN strm /\ DOMAIN strm = DOMAIN rows
      /\ strm[r] \in Seq([at : Nat, type : Nat, npts : Nat])
      /\ DOMAIN Row.parts = 1..Len(Row.parts) /\ Len(Row.parts) \in Nat
  BY <1>1, RowParts DEF Row, IInv, RecordsWritten
<1>3. rec \in [at : Nat, type : Nat, npts : Nat]
  BY DEF IInv, Counters, Here
<1>4. rec.type = type /\ rec.npts = npts
  OBVIOUS
<1> HIDE DEF rec
<1>5. /\ n \in Nat /\ Len(longer) = n + 1
      /\ \A j \in 1..n : longer[j] = strm[r][j]
      /\ longer[n + 1] = rec
  BY <1>2, <1>3, AppendProperties, LenProperties
<1>6. strm' = [strm EXCEPT ![r] = longer]
  BY DEF ShortStream, rec
<1> HIDE DEF longer
<1>7. strm'[r] = longer /\ \A i \in DOMAIN rows : i # r => strm'[i] = strm[i]
  BY <1>2, <1>6
<1>8. n + 1 \in 1..Len(Row.parts) /\ Row.parts[n + 1] = <<type, npts>>
  BY <1>2 DEF PartIs, Upcoming
<1>9. Prefix(r)
  BY <1>2 DEF PartsInv
<1>10. \A j \in 1..(n + 1) : <<longer[j].type, longer[j].npts>> = rows[r].parts[j]
  <2> SUFFICES ASSUME NEW j \in 1..(n + 1)
               PROVE  <<longer[j].type, longer[j].npts>> = rows[r].parts[j]
    OBVIOUS
  <2>1. CASE j = n + 1
    BY <1>4, <1>5, <1>8, <2>1 DEF Row
  <2>2. CASE j # n + 1
    <3>1. j \in 1..n
      BY <1>5, <2>2
    <3> QED
      BY <1>5, <1>9, <3>1 DEF Prefix
  <2> QED
    BY <2>1, <2>2
<1>11. \A i \in DOMAIN rows : Prefix(i)'
  <2> SUFFICES ASSUME NEW i \in DOMAIN rows PROVE Prefix(i)'
    OBVIOUS
  <2>1. CASE i = r
    BY <1>2, <1>5, <1>7, <1>8, <1>10, <2>1 DEF Prefix, Row
  <2>2. CASE i # r
    BY <1>7, <2>2 DEF PartsInv, Prefix
  <2> QED
    BY <2>1, <2>2
<1>12. \A i \in DOMAIN rows : i < r => Streamed(i)'
  <2> SUFFICES ASSUME NEW i \in DOMAIN rows, i < r PROVE Streamed(i)'
    OBVIOUS
  <2>1. i # r /\ Streamed(i)
    BY <1>1 DEF PartsInv, Walking
  <2> QED
    BY <1>7, <2>1 DEF Streamed
<1>13. \A i \in DOMAIN rows : i > r => strm'[i] = <<>>
  BY <1>1, <1>7 DEF PartsInv, Walking
<1> QED
  BY <1>11, <1>12, <1>13 DEF PartsInv

\* Nothing is written and the walk stays in the row.
LEMMA PartKept ==
  ASSUME PartsInv, Walking, UNCHANGED <<rows, r, strm>>, phase' \in {"rows", "rings"}, AtPart'
  PROVE  PartsInv'
BY DEF PartsInv, Walking, Prefix, Streamed

\* Each step of the walk goes to the next part.
LEMMA TypeParts ==
  ASSUME NothingAfterPoints, IInv, PartsInv, Point \/ LineString \/ Polygon \/ OtherType
  PROVE  PartsInv'
<1> DEFINE k == Upcoming
           n == ReadAt(geom_pos + 4)
<1>1. /\ Walking /\ phase = "rows" /\ geom_pos < Row.len /\ r <= Len(rows)
      /\ UNCHANGED <<rows, r>> /\ phase' \in {"rows", "rings"}
  BY DEF Point, LineString, Polygon, OtherType, InRow, Walking
<1>2. /\ r \in 1..Len(rows) /\ Row.len \in Nat /\ geom_pos \in Nat /\ LaidOut(Row)
      /\ Len(strm[r]) \in Nat /\ Len(Row.parts) \in Nat
  BY <1>1, RowEnd, RowParts DEF IInv, Counters, Row
<1>3. Row' = Row
  BY <1>1 DEF Row
<1>4. TypeComes(Row, geom_pos, k) \/ InLastY
  BY <1>1 DEF PartsInv, AtPart
<1>5. TypeComes(Row, geom_pos, k) =>
        geom_pos \in DOMAIN Row.nth \ DOMAIN Row.left /\ Row.nth[geom_pos] = k
  BY <1>1, <1>2 DEF TypeComes
<1>6. ASSUME NEW type \in Nat, NEW npts \in Nat, ShortStream(type, npts)
      PROVE  Upcoming' = Upcoming + 1 /\ Len(strm'[r]) = Len(strm[r]) + 1
  <2>1. strm' = [strm EXCEPT ![r] = Append(@, [at |-> Here, type |-> type, npts |-> npts])]
    BY <1>6 DEF ShortStream
  <2>2. r \in DOMAIN strm /\ strm[r] \in Seq([at : Nat, type : Nat, npts : Nat])
    BY <1>2, RowParts
  <2>3. [at |-> Here, type |-> type, npts |-> npts] \in [at : Nat, type : Nat, npts : Nat]
    BY DEF IInv, Counters, Here
  <2>4. Len(strm'[r]) = Len(strm[r]) + 1
    BY <2>1, <2>2, <2>3, AppendProperties
  <2> QED
    BY <1>1, <1>2, <2>4 DEF Upcoming
<1>7. CASE Point
  <2>1. ReadAt(geom_pos) = 1 /\ geom_pos' = geom_pos + 17 /\ phase' = "rows" /\ ShortStream(1, 1)
    BY <1>7 DEF Point, InRow
  <2>2. TypeComes(Row, geom_pos, k)
    BY <1>4, <2>1 DEF InLastY
  <2>3. /\ PartIs(Row, k, <<1, 1>>) /\ k = Len(Row.parts) /\ geom_pos + 20 = Row.len
        /\ IntAt(Row, geom_pos + 17) \notin {1, 2, 3}
    BY <1>2, <1>5, <2>1, <2>2 DEF LaidOut, ReadAt
  <2>4. InLastY'
    BY <1>1, <1>2, <1>3, <1>6, <2>1, <2>3 DEF InLastY, ReadAt, Upcoming
  <2>5. AtPart'
    BY <2>1, <2>4 DEF AtPart
  <2> QED
    BY <1>1, <2>1, <2>3, <2>5, PartWritten
<1>8. CASE LineString
  <2>1. /\ ReadAt(geom_pos) = 2 /\ geom_pos' = geom_pos + 16 * n + 9 /\ phase' = "rows"
        /\ ShortStream(2, n)
    BY <1>8 DEF LineString, InRow
  <2>2. TypeComes(Row, geom_pos, k)
    BY <1>4, <2>1 DEF InLastY
  <2>3. PartIs(Row, k, <<2, n>>) /\ TypeComes(Row, geom_pos + 16 * n + 9, k + 1)
    BY <1>2, <1>5, <2>1, <2>2 DEF LaidOut, ReadAt
  <2>4. n \in Nat
    <3>1. Row.parts \in Seq(Nat \X Nat) /\ Row.parts[k] \in Nat \X Nat
      BY <1>2, <2>3, RowParts, ElementOfSeq DEF PartIs, Row
    <3> QED
      BY <2>3, <3>1 DEF PartIs
  <2> HIDE DEF n
  <2>5. AtPart'
    BY <1>3, <1>6, <2>1, <2>3, <2>4 DEF AtPart
  <2> QED
    BY <1>1, <2>1, <2>3, <2>4, <2>5, PartWritten
<1>9. CASE Polygon
  <2>1. /\ ReadAt(geom_pos) = 3 /\ geom_pos' = geom_pos + 8 /\ phase' = "rings"
        /\ linear_rings' = n /\ strm' = strm
    BY <1>9 DEF Polygon, InRow
  <2>2. TypeComes(Row, geom_pos, k)
    BY <1>4, <2>1 DEF InLastY
  <2>3. IF n = 0 THEN TypeComes(Row, geom_pos + 9, k) ELSE RingComes(Row, geom_pos + 8, k)
    BY <1>2, <1>5, <2>1, <2>2 DEF LaidOut, ReadAt
  <2>4. Upcoming' = Upcoming
    BY <1>1, <2>1 DEF Upcoming
  <2> HIDE DEF n
  <2>5. AtPart'
    BY <1>2, <1>3, <2>1, <2>3, <2>4 DEF AtPart
  <2> QED
    BY <1>1, <2>1, <2>5, PartKept
<1>10. CASE OtherType
  <2>1. /\ ReadAt(geom_pos) \notin {1, 2, 3} /\ geom_pos' = geom_pos + 9 /\ phase' = "rows"
        /\ strm' = strm
    BY <1>1, <1>10 DEF OtherType
  <2>2. TypeComes(Row, geom_pos + 9, k)
    <3>1. CASE TypeComes(Row, geom_pos, k)
      BY <1>2, <1>5, <2>1, <3>1 DEF LaidOut, ReadAt
    <3>2. CASE InLastY
      BY <1>2, <3>2 DEF InLastY, TypeComes, Upcoming
    <3> QED
      BY <1>4, <3>1, <3>2
  <2>3. Upcoming' = Upcoming
    BY <1>1, <2>1 DEF Upcoming
  <2>4. AtPart'
    BY <1>3, <2>1, <2>2, <2>3 DEF AtPart
  <2> QED
    BY <1>1, <2>1, <2>4, PartKept
<1> QED
  BY <1>7, <1>8, <1>9, <1>10

LEMMA RingParts ==
  ASSUME NothingAfterPoints, IInv, PartsInv, Ring \/ PolygonDone
  PROVE  PartsInv'
<1> DEFINE k == Upcoming
           n == ReadAt(geom_pos)
<1>1. /\ Walking /\ phase = "rings" /\ UNCHANGED <<rows, r>> /\ phase' \in {"rows", "rings"}
  BY DEF Ring, PolygonDone, Walking, IInv, Sums
<1>2. /\ r \in 1..Len(rows) /\ geom_pos \in Nat /\ linear_rings \in Nat /\ LaidOut(Row)
      /\ Len(strm[r]) \in Nat /\ Row' = Row
  BY <1>1, RowEnd, RowParts DEF IInv, Counters, Row
<1>3. CASE Ring
  <2>1. /\ linear_rings # 0 /\ geom_pos' = geom_pos + 16 * n + 4 /\ ShortStream(3, n)
        /\ linear_rings' = linear_rings - 1 /\ phase' = "rings"
    BY <1>1, <1>3 DEF Ring
  <2>2. RingComes(Row, geom_pos, k)
    BY <1>1, <2>1 DEF PartsInv, AtPart
  <2>3. RingAt(Row, geom_pos, linear_rings)
    BY <1>1, <2>1 DEF IInv, OnLayout
  <2>4. /\ PartIs(Row, k, <<3, n>>)
        /\ IF linear_rings = 1 THEN TypeComes(Row, geom_pos + 16 * n + 4 + 1, k + 1)
                               ELSE RingComes(Row, geom_pos + 16 * n + 4, k + 1)
    BY <1>2, <2>2, <2>3 DEF LaidOut, RingComes, RingAt, ReadAt
  <2>5. n \in Nat
    <3>1. Row.parts[k] \in Nat \X Nat
      BY <1>2, <2>4, RowParts, ElementOfSeq DEF PartIs, Row
    <3> QED
      BY <2>4, <3>1 DEF PartIs
  <2> HIDE DEF n
  <2>6. Upcoming' = Upcoming + 1
    <3>1. strm' = [strm EXCEPT ![r] = Append(@, [at |-> Here, type |-> 3, npts |-> n])]
      BY <2>1 DEF ShortStream
    <3>2. r \in DOMAIN strm /\ strm[r] \in Seq([at : Nat, type : Nat, npts : Nat])
      BY <1>2, RowParts
    <3>3. [at |-> Here, type |-> 3, npts |-> n] \in [at : Nat, type : Nat, npts : Nat]
      BY <2>5 DEF IInv, Counters, Here
    <3>4. Len(strm'[r]) = Len(strm[r]) + 1
      BY <3>1, <3>2, <3>3, AppendProperties
    <3> QED
      BY <1>1, <1>2, <3>4 DEF Upcoming
  <2>7. AtPart'
    BY <1>2, <2>1, <2>4, <2>5, <2>6 DEF AtPart
  <2> QED
    BY <1>1, <2>1, <2>4, <2>5, <2>7, PartWritten
<1>4. CASE PolygonDone
  <2>1. linear_rings = 0 /\ geom_pos' = geom_pos + 1 /\ phase' = "rows" /\ strm' = strm
    BY <1>4 DEF PolygonDone
  <2>2. TypeComes(Row, geom_pos + 1, k)
    BY <1>1, <2>1 DEF PartsInv, AtPart
  <2>3. Upcoming' = Upcoming
    BY <1>1, <2>1 DEF Upcoming
  <2>4. AtPart'
    BY <1>2, <2>1, <2>2, <2>3 DEF AtPart
  <2> QED
    BY <1>1, <2>1, <2>4, PartKept
<1> QED
  BY <1>3, <1>4

\* A row is left when all of its parts are written.
LEMMA NextRowParts ==
  ASSUME NothingAfterPoints, IInv, PartsInv, NextRow
  PROVE  PartsInv'
<1>1. /\ Walking /\ phase = "rows" /\ geom_pos >= Row.len /\ phase' = "rows"
      /\ r' = r + 1 /\ geom_pos' = 1 /\ UNCHANGED <<rows, strm>>
  BY DEF NextRow, Walking
<1>2. /\ r \in 1..Len(rows) /\ Row.len \in Nat /\ geom_pos \in Nat /\ Len(rows) \in Nat
      /\ Len(strm[r]) \in Nat /\ Len(Row.parts) \in Nat
  BY <1>1, RowEnd, RowParts DEF IInv, Counters, Row
<1>3. Streamed(r)
  <2>1. TypeComes(Row, geom_pos, Upcoming)
    BY <1>1, <1>2 DEF PartsInv, AtPart, InLastY, Walking
  <2>2. Upcoming = Len(Row.parts) + 1
    BY <1>1, <2>1 DEF TypeComes
  <2> QED
    BY <1>2, <2>2 DEF Upcoming, Streamed, Row
<1>4. DOMAIN rows = 1..Len(rows)
  BY RowsShape DEF IInv
<1>5. \A i \in DOMAIN rows : i < r + 1 => Streamed(i)'
  <2> SUFFICES ASSUME NEW i \in DOMAIN rows, i < r + 1 PROVE Streamed(i)'
    OBVIOUS
  <2>1. i = r \/ i < r
    BY <1>2, <1>4
  <2>2. Streamed(i)
    BY <1>1, <1>3, <2>1 DEF PartsInv
  <2> QED
    BY <1>1, <2>2 DEF Streamed
<1>6. \A i \in DOMAIN rows : i > r + 1 => strm'[i] = <<>>
  BY <1>1, <1>2, <1>4 DEF PartsInv
<1>7. AtPart'
  <2> SUFFICES ASSUME r + 1 <= Len(rows) PROVE TypeComes(rows[r + 1], 1, Len(strm[r + 1]) + 1)
    BY <1>1 DEF AtPart, Upcoming, Row
  <2>1. r + 1 \in 1..Len(rows)
    BY <1>2
  <2>2. strm[r + 1] = <<>>
    BY <1>1, <1>2, <1>4, <2>1 DEF PartsInv
  <2>3. TypeComes(rows[r + 1], 1, 1)
    BY <2>1, RowParts DEF LaidOut
  <2> QED
    BY <2>2, <2>3
<1>8. \A i \in DOMAIN rows : Prefix(i)'
  BY <1>1 DEF PartsInv, Prefix
<1> QED
  BY <1>1, <1>5, <1>6, <1>7, <1>8 DEF PartsInv

LEMMA MeasuredParts ==
  ASSUME NothingAfterPoints, IInv, PartsInv, Measured
  PROVE  PartsInv'
<1>1. /\ phase = "measure" /\ phase' = "rows" /\ r' = 1 /\ UNCHANGED <<rows, geom_pos, strm>>
  BY DEF Measured
<1>2. Len(rows) \in Nat \ {0} /\ DOMAIN rows = 1..Len(rows)
  BY RowsShape DEF IInv
<1>3. geom_pos = 1 /\ \A i \in DOMAIN rows : strm[i] = <<>>
  BY <1>1 DEF IInv, OnLayout, RecordsWritten
<1>4. AtPart'
  <2>1. TypeComes(rows[1], 1, 1)
    BY <1>2, RowParts DEF LaidOut
  <2>2. Upcoming' = 1 /\ Row' = rows[1]
    BY <1>1, <1>2, <1>3 DEF Upcoming, Row
  <2> QED
    BY <1>1, <1>3, <2>1, <2>2 DEF AtPart
<1>5. \A i \in DOMAIN rows : Prefix(i)'
  BY <1>1 DEF PartsInv, Prefix
<1> QED
  BY <1>1, <1>2, <1>3, <1>4, <1>5 DEF PartsInv

LEMMA PartsStep ==
  ASSUME NothingAfterPoints
  PROVE  IInv /\ PartsInv /\ [Next]_vars => PartsInv'
<1> SUFFICES ASSUME IInv, PartsInv, [Next]_vars PROVE PartsInv'
  OBVIOUS
<1>1. CASE Measure
  BY <1>1 DEF Measure, PartsInv, Prefix, AtPart
<1>2. CASE Send
  <2>1. /\ phase = "rows" /\ r > Len(rows) /\ phase' = "sent" /\ UNCHANGED <<rows, strm>>
    BY <1>2 DEF Send
  <2>2. \A i \in DOMAIN rows : i < r
    BY <2>1, RowsShape DEF IInv, Counters
  <2> QED
    BY <2>1, <2>2 DEF PartsInv, Prefix, Streamed, AtPart
<1>3. CASE UNCHANGED vars
  BY <1>3 DEF vars, PartsInv, Prefix, Streamed, AtPart, InLastY, Upcoming, Row, ReadAt
<1> QED
  BY <1>1, <1>2, <1>3, TypeParts, RingParts, NextRowParts, MeasuredParts DEF Next, Step, Done

-----------------------------------------------------------------------------
(* The theorems. *)

\* The counters of fmt_res_bin and the records are numbers in their ranges.
THEOREM TypeCorrect == Spec => []TypeOK
<1>1. IInv => TypeOK
  <2> SUFFICES ASSUME IInv PROVE TypeOK
    OBVIOUS
  <2>1. \A rec \in Records : {rec.at, rec.type, rec.npts} \subseteq Nat
    BY RecordBounds
  <2>2. Len(before) <= Len(rows)
    BY RowsShape DEF IInv, Sums, Counters
  <2> QED
    BY <2>1, <2>2 DEF IInv, Counters, Sums, RecordsWritten, TypeOK
<1> QED
  BY <1>1, Invariant, PTL

\* strm, allocated with the length of the rows together, holds every record that
\* short_stream writes: for every result whose lines and rings have points.
THEOREM BufferSuffices == Spec => []BufferFits
<1>1. IInv => BufferFits
  <2> SUFFICES ASSUME IInv, NEW rec \in Records
               PROVE  rec.at + Size(rec.npts) <= chunk_cnt
    BY DEF BufferFits
  <2>1. rec.at \in Nat /\ Size(rec.npts) \in Nat /\ rec.at + Size(rec.npts) <= Here
        /\ phase # "measure"
    BY RecordBounds
  <2>2. Here \in Nat /\ chunk_cnt \in Nat
    BY DEF IInv, Counters, Here
  <2>3. Here <= chunk_cnt
    BY <2>1 DEF IInv, Counters, WrittenLeRead
  <2> QED
    BY <2>1, <2>2, <2>3
<1> QED
  BY <1>1, Invariant, PTL

\* The chunk that is sent is the records and nothing else: they lie behind each other,
\* without gaps or overlaps, from 0 to the size that is sent.
THEOREM RecordsContiguous == Spec => []RecordsAbut
<1>1. Init => AbutInv
  <2> SUFFICES ASSUME Init PROVE AbutInv
    OBVIOUS
  <2>1. Records = {}
    BY DEF Init, Records
  <2> QED
    BY <2>1 DEF Init, AbutInv, RecordsAbut, Here
<1>2. AbutInv => RecordsAbut
  BY DEF AbutInv
<1> QED
  BY <1>1, <1>2, AbutStep, Invariant, PTL DEF Spec

\* README, "returns an array of the above records": every point, line and ring of the
\* rows has its record, in their order - however deep the collections and however many
\* rings, as long as nothing follows a point, which the walk leaves four bytes early.
THEOREM PartsStreamed ==
  ASSUME NothingAfterPoints
  PROVE  Spec => []EveryPartStreamed
<1>1. Init => PartsInv
  <2> SUFFICES ASSUME Init PROVE PartsInv
    OBVIOUS
  <2>1. DOMAIN rows = 1..Len(rows) /\ Len(rows) \in Nat
    BY InitInv, RowsShape DEF IInv
  <2>2. \A i \in DOMAIN rows : strm[i] = <<>> /\ Len(rows[i].parts) \in Nat
    BY <2>1, InitInv, RowParts DEF Init
  <2> QED
    BY <2>2 DEF Init, PartsInv, Prefix, AtPart
<1>2. IInv /\ PartsInv => EveryPartStreamed
  <2> SUFFICES ASSUME IInv, PartsInv, NEW i \in DOMAIN rows,
                      (phase = "rows" /\ i < r) \/ phase = "sent"
               PROVE  [j \in DOMAIN strm[i] |-> <<strm[i][j].type, strm[i][j].npts>>] = rows[i].parts
    BY DEF EveryPartStreamed
  <2>1. Prefix(i) /\ Streamed(i)
    BY DEF PartsInv
  <2>2. i \in 1..Len(rows)
    BY RowsShape DEF IInv
  <2>3. /\ rows[i].parts \in Seq(Nat \X Nat) /\ DOMAIN rows[i].parts = 1..Len(rows[i].parts)
        /\ DOMAIN strm[i] = 1..Len(strm[i])
    BY <2>2, RowParts
  <2>4. rows[i].parts = [j \in 1..Len(rows[i].parts) |-> rows[i].parts[j]]
    BY <2>3
  <2> QED
    BY <2>1, <2>3, <2>4 DEF Prefix, Streamed
<1> QED
  BY <1>1, <1>2, PartsStep, Invariant, PTL DEF Spec
=============================================================================
