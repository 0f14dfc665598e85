---------------------------- MODULE MCWkbStream ----------------------------
(***************************************************************************)
(* Small results for WkbStream: every simple geometry with up to MaxPts    *)
(* points a line or ring and up to two rings, and collections of up to two *)
(* of them, laid out as ST_AsBinary does.                                  *)
(***************************************************************************)
EXTENDS WkbStream, SequencesExt

CONSTANTS MaxPts, MaxRows

\* The integer n stands at offset pos of the value.
Put(value, pos, n) == [value EXCEPT !.u32 = (pos :> n) @@ @]
Part(value, type, npts) == [value EXCEPT !.parts = Append(@, <<type, npts>>)]

\* A part, or a type that is none, comes next at offset pos.
Mark(value, pos) == [value EXCEPT !.nth = (pos :> Len(value.parts) + 1) @@ @]
Longer(value, bytes) == [value EXCEPT !.len = @ + bytes]

Walk(value, offsets) == [value EXCEPT !.starts = @ \cup offsets]

Nothing == [len |-> 0, u32 |-> <<>>, starts |-> {}, left |-> <<>>, parts |-> <<>>,
            nth |-> <<>>]

\* A ring with npts points, and how many are left with it.
PutRing(value, ring) ==
  LET counted == [Put(Mark(value, value.len), value.len, ring.npts) EXCEPT !.left = (value.len :> ring.left) @@ @]
  IN  Longer(Part(counted, 3, ring.npts), 4 + 16 * ring.npts)

\* After a point the walk looks in the last bytes of its y, and on from there.
AfterPoint(start) == {start + 17 + 9 * k : k \in 0..30}

\* One byte of endianness, four of type, then what the type has.
PutGeometry(value, g) ==
  LET start == value.len + 1
      typed == Walk(Put(Mark(value, start), start, g.type), {start})
  IN  CASE g.type = 1 -> Longer(Part(Walk(typed, AfterPoint(start)), 1, 1), 21)
        [] g.type = 2 -> Longer(Part(Put(typed, start + 4, g.npts), 2, g.npts),
                                9 + 16 * g.npts)
        [] g.type = 3 -> FoldLeft(PutRing,
                                  Longer(Put(typed, start + 4, Len(g.rings)), 9),
                                  [i \in DOMAIN g.rings |->
                                     [npts |-> g.rings[i], left |-> Len(g.rings) + 1 - i]])

\* Endianness, type and number of members, then the members.
Collection(type, members) ==
  FoldLeft(PutGeometry,
           Longer(Walk(Put(Put(Mark(Nothing, 1), 1, type), 5, Len(members)), {1}), 9), members)

UpToTwo(S) == {<<s>> : s \in S} \cup (S \X S)

Points == {[type |-> 1]}
Lines == {[type |-> 2, npts |-> n] : n \in 1..MaxPts}
Polygons == {[type |-> 3, rings |-> rings] : rings \in UpToTwo(1..MaxPts)}
                \cup {[type |-> 3, rings |-> <<>>]}

Simple == {PutGeometry(Nothing, g) : g \in Points \cup Lines \cup Polygons}
MultiLines == {Collection(5, m) : m \in UpToTwo(Lines)}
MultiPolygons == {Collection(6, m) : m \in UpToTwo(Polygons)}
\* A point may come last in a collection.
Mixed == {Collection(7, m) : m \in {<<>>} \cup ((Lines \cup Polygons) \X (Points \cup Lines \cup Polygons))}
MultiPoints == {Collection(4, m) : m \in UpToTwo(Points)}

\* Every value alone, and short ones behind each other.
Supported ==
  {<<v>> : v \in Simple \cup MultiLines \cup MultiPolygons \cup Mixed}
    \cup [1..MaxRows -> Simple \cup {Collection(7, <<>>)}]
\* Nothing follows a point in them.
ASSUME SupportedAssumption ==
  \A result \in Supported : \A i \in DOMAIN result : LaidOut(result[i])
WithMultiPoints == {<<v>> : v \in MultiPoints}
=============================================================================
