--------------------------- MODULE TileAddressProofs ---------------------------
(***************************************************************************)
(* The address decides the tile, the box holds the points of that tile and *)
(* of no other, and their offsets fit: for paths of any length, any        *)
(* numbers, every zoom and every grain of the coordinates.                 *)
(***************************************************************************)
EXTENDS TileAddress, TLAPS

-----------------------------------------------------------------------------
(* The inductive invariant. *)

\* The type of every variable.
Typed ==
  /\ path \in Seq(Tokens) /\ rest \in Seq(Tokens)
  /\ next \in Nat \ {0} /\ spun_out \in Nat /\ tms_param_cnt \in 1..4
  /\ address \in [z : Int, x : Int, y : Int]
  /\ pc \in {"scan", "address", "found", "sent", "closed"}

\* The cases 1 to n - 1 of the switch have been taken, after a tms at i.
Taken(i, n) ==
  /\ n > 1 => address.z = path[i + 1].value
  /\ n > 2 => address.x = path[i + 2].value
  /\ n > 3 => address.y = path[i + 3].value

\* strtok has not gone past the first tms of the path while none is found, nor has
\* the count of tokens; then it is as far behind it as numbers have been taken.
Tracks(i) ==
  /\ pc # "closed"
  /\ pc = "scan" => next <= i /\ spun_out = next - 1 /\ tms_param_cnt = 1
  /\ pc = "address" => next = i + tms_param_cnt /\ Taken(i, tms_param_cnt)
  /\ pc \in {"found", "sent"} => Taken(i, 4)

Reaches(i) == i \in 1..(Len(path) - 3) /\ TmsAt(i) /\ i <= SpinLimit + 1

TmsTracked == \A i \in 1..(Len(path) - 3) : Reaches(i) => Tracks(i)

\* The tile is the address with its row turned round.
TileTurned ==
  pc = "sent" => tile = [z |-> address.z, x |-> address.x, y |-> Row(address.z, address.y)]

IInv == Typed /\ TmsTracked /\ TileTurned

-----------------------------------------------------------------------------
(* Each step keeps it. *)

LEMMA InitInv == Init => IInv
<1> SUFFICES ASSUME Init PROVE IInv
  OBVIOUS
<1>1. path \in Seq(Tokens) /\ rest \in Seq(Tokens)
  BY TileAssumption DEF Init
<1>2. Typed
  BY <1>1 DEF Init, Typed, None
<1>3. TmsTracked
  BY <1>1 DEF Init, TmsTracked, Tracks
<1> QED
  BY <1>2, <1>3 DEF Init, IInv, TileTurned

\* The token that is looked at is one of the path as long as the path goes on.
LEMMA QvalOfPath ==
  ASSUME Typed
  PROVE  /\ Len(path) \in Nat
         /\ next <= Len(path) => ~ AtEnd /\ Qval = path[next]
         /\ ~ AtEnd => Qval \in Tokens
<1>1. /\ Len(path) \in Nat /\ Len(rest) \in Nat
      /\ buf \in Seq(Tokens) /\ Len(buf) = Len(path) + Len(rest)
      /\ \A j \in 1..Len(path) : buf[j] = path[j]
  BY DEF Typed, buf
<1> QED
  BY <1>1 DEF Typed, AtEnd, Qval

\* A token spells an integer.
LEMMA TokenValue == ASSUME NEW t \in Tokens PROVE t.value \in Int
<1>1. Numbers \subseteq Int
  BY TileAssumption
<1>2. t \in [kind : {"number"}, value : Numbers] \/ t \in [kind : {"tms", "word"}, value : {0}]
  BY DEF Tokens
<1>3. t.value \in Numbers \/ t.value \in {0}
  BY <1>2
<1>4. t.value \in Numbers => t.value \in Int
  BY <1>1, Zenon
<1>5. t.value \in {0} => t.value \in Int
  OBVIOUS
<1> QED
  BY <1>3, <1>4, <1>5, Zenon

LEMMA SpinInv ==
  ASSUME IInv, Spin \/ FoundTms
  PROVE  IInv'
<1>1. /\ pc = "scan" /\ ~ AtEnd /\ spun_out' = spun_out + 1 /\ next' = next + 1
      /\ UNCHANGED <<input, tms_param_cnt, address, tile, query>>
  BY DEF Spin, FoundTms
<1>2. UNCHANGED <<path, rest>>
  BY <1>1 DEF input
<1>3. Typed'
  BY <1>1, <1>2 DEF IInv, Typed, Spin, FoundTms
<1>4. ASSUME NEW i \in 1..(Len(path) - 3), Reaches(i)
      PROVE  Tracks(i)'
  <2>1. next <= i /\ spun_out = next - 1 /\ tms_param_cnt = 1
    BY <1>1, <1>4 DEF IInv, TmsTracked, Tracks
  <2>2. next \in Nat \ {0} /\ spun_out \in Nat /\ i \in Nat /\ i <= Len(path) /\ Len(path) \in Nat
    BY QvalOfPath DEF IInv, Typed
  <2>3. Qval = path[next]
    BY <2>1, <2>2, QvalOfPath DEF IInv
  <2>4. CASE Spin
    <3>1. next # i
      BY <1>4, <2>3, <2>4 DEF Spin, Reaches, TmsAt
    <3>2. next' <= i /\ spun_out' = next' - 1
      BY <1>1, <2>1, <2>2, <3>1
    <3>3. ~ (spun_out' > SpinLimit)
      BY <1>1, <1>4, <2>1, <2>2, <3>1, TileAssumption DEF Reaches
    <3> QED
      BY <1>1, <2>1, <2>4, <3>2, <3>3 DEF Spin, Tracks
  <2>5. CASE FoundTms
    <3>1. next = i
      BY <1>4, <2>1, <2>2, <2>3, <2>5 DEF FoundTms, Reaches, TmsAt
    <3> QED
      BY <1>1, <2>1, <2>2, <2>5, <3>1 DEF FoundTms, Tracks, Taken
  <2> QED
    BY <2>4, <2>5
<1>5. TmsTracked'
  BY <1>2, <1>4 DEF TmsTracked, Reaches, TmsAt
<1>6. TileTurned'
  BY <1>1 DEF Spin, FoundTms, TileTurned
<1> QED
  BY <1>3, <1>5, <1>6 DEF IInv

LEMMA TakeParamInv ==
  ASSUME IInv, TakeParam
  PROVE  IInv'
<1>1. /\ pc = "address" /\ ~ AtEnd /\ tms_param_cnt \in 1..3
      /\ tms_param_cnt' = tms_param_cnt + 1 /\ next' = next + 1
      /\ UNCHANGED <<path, rest, spun_out, pc, tile, query>>
  BY DEF TakeParam, input, IInv, Typed
<1>2. address \in [z : Int, x : Int, y : Int] /\ Qval.value \in Int
  BY <1>1, QvalOfPath, TokenValue DEF IInv, Typed
<1>3. address' = [address EXCEPT ![Param(tms_param_cnt)] = Qval.value]
  BY DEF TakeParam
<1>4. /\ tms_param_cnt = 1 => address' = [address EXCEPT !.z = Qval.value]
      /\ tms_param_cnt = 2 => address' = [address EXCEPT !.x = Qval.value]
      /\ tms_param_cnt = 3 => address' = [address EXCEPT !.y = Qval.value]
  <2>1. Param(1) = "z" /\ Param(2) = "x" /\ Param(3) = "y"
    BY DEF Param
  <2> QED
    BY <1>3, <2>1
<1>5. Typed'
  <2>1. address' \in [z : Int, x : Int, y : Int]
    BY <1>1, <1>2, <1>4
  <2> QED
    BY <1>1, <2>1 DEF IInv, Typed
<1>6. ASSUME NEW i \in 1..(Len(path) - 3), Reaches(i)
      PROVE  Tracks(i)'
  <2>1. next = i + tms_param_cnt /\ Taken(i, tms_param_cnt)
    BY <1>1, <1>6 DEF IInv, TmsTracked, Tracks
  <2>2. next <= Len(path)
    BY <1>1, <2>1, QvalOfPath DEF IInv
  <2>3. Qval = path[i + tms_param_cnt]
    BY <2>1, <2>2, QvalOfPath DEF IInv
  <2>4. Taken(i, tms_param_cnt)'
    BY <1>1, <1>2, <1>4, <2>1, <2>3 DEF Taken
  <2> QED
    BY <1>1, <2>1, <2>4 DEF Tracks
<1>7. TmsTracked'
  BY <1>1, <1>6 DEF TmsTracked, Reaches, TmsAt
<1>8. TileTurned'
  BY <1>1 DEF TileTurned
<1> QED
  BY <1>5, <1>7, <1>8 DEF IInv

LEMMA TokensDoneInv ==
  ASSUME IInv, TokensDone
  PROVE  IInv'
<1>1. UNCHANGED <<path, rest, next, spun_out, tms_param_cnt, address, tile>> /\ pc' = "found"
  BY DEF TokensDone, input
<1>2. ASSUME NEW i \in 1..(Len(path) - 3), Reaches(i)
      PROVE  Tracks(i)'
  <2>1. Tracks(i) /\ i <= Len(path) - 3 /\ i \in Nat /\ Len(path) \in Nat
    BY <1>2, QvalOfPath DEF IInv, TmsTracked
  <2>2. tms_param_cnt \in 1..4 /\ next \in Nat
    BY DEF IInv, Typed
  <2>3. pc # "scan"
    BY <2>1, <2>2, QvalOfPath DEF TokensDone, Tracks, IInv
  <2>4. pc = "address" /\ next = i + tms_param_cnt /\ Taken(i, tms_param_cnt)
    BY <2>1, <2>3 DEF TokensDone, Tracks
  <2>5. tms_param_cnt = 4
    BY <2>1, <2>2, <2>4, QvalOfPath DEF TokensDone, IInv
  <2> QED
    BY <1>1, <2>4, <2>5 DEF Tracks, Taken
<1>3. TmsTracked'
  BY <1>1, <1>2 DEF TmsTracked, Reaches, TmsAt
<1> QED
  BY <1>1, <1>3 DEF IInv, Typed, TileTurned

LEMMA SendConnInv ==
  ASSUME IInv, SendConn
  PROVE  IInv'
<1>1. /\ UNCHANGED <<path, rest, next, spun_out, tms_param_cnt, address>>
      /\ pc = "found" /\ pc' = "sent"
  BY DEF SendConn, input
<1>2. TmsTracked'
  BY <1>1 DEF IInv, TmsTracked, Reaches, TmsAt, Tracks, Taken
<1> QED
  BY <1>1, <1>2 DEF SendConn, IInv, Typed, TileTurned

LEMMA StutterInv == IInv /\ UNCHANGED vars => IInv'
BY DEF vars, IInv, Typed, TmsTracked, Reaches, TmsAt, Tracks, Taken, TileTurned

LEMMA NextInv == IInv /\ [Next]_vars => IInv'
BY SpinInv, TakeParamInv, TokensDoneInv, SendConnInv, StutterInv DEF Next, Returned

-----------------------------------------------------------------------------
(* Quotients, remainders and multiples. *)

\* A positive factor keeps the order.
LEMMA TimesLess ==
  ASSUME NEW a \in Int, NEW b \in Int, NEW k \in Nat \ {0}
  PROVE  a < b <=> a * k < b * k
OBVIOUS

\* Quotient and remainder are those of any decomposition with a small remainder.
LEMMA Quotient ==
  ASSUME NEW d \in Nat \ {0}, NEW q \in Int, NEW r \in 0..(d - 1)
  PROVE  (d * q + r) \div d = q /\ (d * q + r) % d = r
OBVIOUS

\* A number is made of its quotient and its remainder.
LEMMA Decompose ==
  ASSUME NEW d \in Nat \ {0}, NEW n \in Int
  PROVE  n = d * (n \div d) + (n % d) /\ n \div d \in Int /\ n % d \in 0..(d-1)
OBVIOUS

\* A number and its divisor scaled by the same factor have the same quotient.
LEMMA ScaledDivision ==
  ASSUME NEW P \in Nat \ {0}, NEW S \in Nat \ {0}, NEW n \in Int
  PROVE  /\ (n * P) \div (P * S) = n \div S
         /\ (n * P) % (P * S) = (n % S) * P
<1> DEFINE a == n \div S
           b == n % S
           W == P * S
<1>1. n = S * a + b /\ a \in Int /\ b \in 0..(S - 1)
  BY Decompose
<1> HIDE DEF a, b
<1>2. n * P = (S * a) * P + b * P
  BY <1>1
<1>3. (S * a) * P = W * a
  BY <1>1
<1>4. b * P \in 0..(W - 1)
  <2>1. b * P < S * P /\ b * P \in Nat /\ S * P = W
    BY <1>1, TimesLess
  <2>2. W \in Nat
    OBVIOUS
  <2> HIDE DEF W
  <2> QED
    BY <2>1, <2>2
<1>5. W \in Nat \ {0}
  OBVIOUS
<1> HIDE DEF W
<1>6. (n * P) = W * a + b * P
  BY <1>2, <1>3
<1>7. (n * P) \div W = a /\ (n * P) % W = b * P
  <2> DEFINE r == b * P
  <2> HIDE DEF r
  <2>1. (W * a + r) \div W = a /\ (W * a + r) % W = r
    BY <1>1, <1>4, <1>5, Quotient DEF r
  <2> QED
    BY <1>6, <2>1 DEF r
<1> QED
  BY <1>7 DEF a, b, W

\* Between two multiples of S are the numbers of one quotient with a remainder.
LEMMA BetweenMultiples ==
  ASSUME NEW S \in Nat \ {0}, NEW n \in Int, NEW t \in Int
  PROVE  t * S < n /\ n < (t + 1) * S <=> n % S # 0 /\ n \div S = t
<1> DEFINE a == n \div S
           b == n % S
<1>1. n = S * a + b /\ a \in Int /\ b \in 0..(S - 1)
  BY Decompose
<1> HIDE DEF a, b
<1>2. (t + 1) * S = t * S + S /\ S * a = a * S
  BY <1>1
<1>3. CASE a = t
  <2>1. n = t * S + b
    BY <1>1, <1>2, <1>3
  <2> DEFINE u == t * S
  <2>2. u \in Int
    OBVIOUS
  <2> HIDE DEF u
  <2>3. u < n /\ n < u + S <=> b # 0
    BY <1>1, <2>1, <2>2 DEF u
  <2> QED
    BY <1>2, <1>3, <2>3 DEF a, b, u
<1>4. CASE a < t
  <2>1. (a + 1) * S <= t * S
    BY <1>1, <1>4
  <2>2. (a + 1) * S = S * a + S
    BY <1>1
  <2> DEFINE u == t * S
             v == S * a
  <2>3. u \in Int /\ v \in Int
    BY <1>1
  <2>4. v + S <= u /\ n = v + b
    BY <1>1, <2>1, <2>2
  <2> HIDE DEF u, v
  <2>5. ~ (u < n)
    BY <1>1, <2>3, <2>4
  <2> QED
    BY <1>1, <1>4, <2>5 DEF a, b, u
<1>5. CASE a > t
  <2>1. (t + 1) * S <= a * S
    BY <1>1, <1>5
  <2> DEFINE u == (t + 1) * S
             v == S * a
  <2>3. u \in Int /\ v \in Int
    BY <1>1
  <2>4. u <= v /\ n = v + b
    BY <1>1, <1>2, <2>1
  <2> HIDE DEF u, v
  <2>5. ~ (n < u)
    BY <1>1, <2>3, <2>4
  <2> QED
    BY <1>1, <1>5, <2>5 DEF a, b, u
<1> QED
  BY <1>1, <1>3, <1>4, <1>5

\* A multiple of S, counted from the other end of P * S, is one too.
LEMMA MirroredMultiple ==
  ASSUME NEW P \in Nat \ {0}, NEW S \in Nat \ {0}, NEW n \in Int
  PROVE  (P * S - n) % S = 0 <=> n % S = 0
<1>1. ASSUME NEW m \in Int, m % S = 0
      PROVE  (P * S - m) % S = 0
  <2> DEFINE a == m \div S
  <2>1. m = S * a /\ a \in Int
    BY <1>1, Decompose
  <2> HIDE DEF a
  <2> DEFINE k == P - a
  <2>2. P * S - m = S * k + 0
    BY <2>1
  <2>3. k \in Int
    BY <2>1
  <2> HIDE DEF k
  <2>4. 0 \in 0..(S - 1)
    OBVIOUS
  <2>5. (S * k + 0) % S = 0
    BY <2>3, <2>4, Quotient
  <2> QED
    BY <2>2, <2>5
<1>2. n % S = 0 => (P * S - n) % S = 0
  BY <1>1
<1>3. (P * S - n) % S = 0 => (P * S - (P * S - n)) % S = 0
  <2>1. P * S - n \in Int
    OBVIOUS
  <2> QED
    BY <1>1, <2>1
<1>4. P * S - (P * S - n) = n
  OBVIOUS
<1> QED
  BY <1>2, <1>3, <1>4

-----------------------------------------------------------------------------
(* The tile, of side S in a world of P tiles to a side. *)

\* One coordinate is strictly within a tile when it lies in its column and on no edge.
LEMMA WithinTile ==
  ASSUME NEW P \in Nat \ {0}, NEW S \in Nat \ {0}, NEW n \in Int, NEW t \in Int
  PROVE  t * S < n /\ n < (t + 1) * S <=>
           ~ (n * P) % (P * S) = 0 /\ (n * P) \div (P * S) = t
<1>1. n % S \in Nat
  BY Decompose
<1>2. (n % S) * P = 0 <=> n % S = 0
  <2> DEFINE r == n % S
  <2> HIDE DEF r
  <2>1. r \in Nat => (r * P = 0 <=> r = 0)
    OBVIOUS
  <2> QED
    BY <1>1, <2>1 DEF r
<1>3. (n * P) \div (P * S) = n \div S /\ (n * P) % (P * S) = (n % S) * P
  BY ScaledDivision
<1>4. t * S < n /\ n < (t + 1) * S <=> n % S # 0 /\ n \div S = t
  BY BetweenMultiples
<1> QED
  BY <1>2, <1>3, <1>4

\* Rows counted from the south fill the same strips as rows counted from the north.
LEMMA WithinRow ==
  ASSUME NEW P \in Nat \ {0}, NEW S \in Nat \ {0}, NEW n \in Int, NEW t \in Int
  PROVE  (P - t - 1) * S < n /\ n < (P - t) * S <=>
           ~ (n * P) % (P * S) = 0 /\ ((P * S - n) * P) \div (P * S) = t
<1> DEFINE m == P * S - n
<1>1. m \in Int
  OBVIOUS
<1>2. (P - t - 1) * S = P * S - (t + 1) * S /\ (P - t) * S = P * S - t * S
  OBVIOUS
<1>3. (P - t - 1) * S < n /\ n < (P - t) * S <=> t * S < m /\ m < (t + 1) * S
  <2> DEFINE u == t * S
             v == (t + 1) * S
             w == P * S
  <2>1. u \in Int /\ v \in Int /\ w \in Int
    OBVIOUS
  <2> HIDE DEF u, v, w
  <2>2. w - v < n /\ n < w - u <=> u < w - n /\ w - n < v
    BY <2>1
  <2> QED
    BY <1>2, <2>2 DEF u, v, w
<1>4. n % S = 0 <=> m % S = 0
  BY MirroredMultiple
<1>5. (n * P) % (P * S) = 0 <=> (m * P) % (P * S) = 0
  <2>1. n % S \in Nat /\ m % S \in Nat
    BY <1>1, Decompose
  <2>2. \A r \in Nat : r * P = 0 <=> r = 0
    OBVIOUS
  <2>3. (n * P) % (P * S) = (n % S) * P
    BY ScaledDivision
  <2> HIDE DEF m
  <2>4. (m * P) % (P * S) = (m % S) * P
    BY <1>1, ScaledDivision
  <2> QED
    BY <1>4, <2>1, <2>2, <2>3, <2>4
<1> HIDE DEF m
<1>6. t * S < m /\ m < (t + 1) * S <=>
        ~ (m * P) % (P * S) = 0 /\ (m * P) \div (P * S) = t
  BY <1>1, WithinTile
<1> QED
  BY <1>3, <1>5, <1>6 DEF m

\* A number below a multiple of d has a quotient below its factor.
LEMMA QuotientBound ==
  ASSUME NEW d \in Nat \ {0}, NEW k \in Nat, NEW n \in Nat, n < k * d
  PROVE  n \div d \in 0..k
<1> DEFINE a == n \div d
           b == n % d
<1>1. n = d * a + b /\ a \in Int /\ b \in 0..(d - 1)
  BY Decompose
<1> HIDE DEF a, b
<1>2. CASE a < 0
  <2>1. (a + 1) * d <= 0
    BY <1>1, <1>2
  <2>2. (a + 1) * d = d * a + d
    BY <1>1
  <2> DEFINE v == d * a
  <2>3. v \in Int /\ v + d <= 0 /\ n = v + b
    BY <1>1, <2>1, <2>2
  <2> HIDE DEF v
  <2> QED
    BY <1>1, <2>3
<1>3. CASE a > k
  <2>1. k * d <= a * d /\ a * d = d * a
    BY <1>1, <1>3
  <2> DEFINE v == d * a
             u == k * d
  <2>2. v \in Int /\ u \in Int /\ u <= v /\ n = v + b /\ n < u
    BY <1>1, <2>1
  <2> HIDE DEF u, v
  <2> QED
    BY <1>1, <2>2
<1> QED
  BY <1>1, <1>2, <1>3 DEF a

\* An offset within one side of a tile is at most 2560.
LEMMA OffsetBound ==
  ASSUME NEW P \in Nat \ {0}, NEW S \in Nat \ {0}, NEW u \in 1..(S - 1)
  PROVE  /\ 2560 * (P * u) \in Nat \ {0}
         /\ (2560 * (P * u)) \div (P * S) \in 0..2560
<1>1. P * u < P * S /\ P * u \in Nat \ {0} /\ P * S \in Nat \ {0}
  BY TimesLess
<1> DEFINE a == P * u
           d == P * S
<1> HIDE DEF a, d
<1>2. a \in Nat \ {0} /\ d \in Nat \ {0} /\ a < d
  BY <1>1 DEF a, d
<1> DEFINE n == 2560 * a
<1>3. n \in Nat \ {0} /\ n < 2560 * d
  BY <1>2
<1> HIDE DEF n
<1>4. n \div d \in 0..2560
  BY <1>2, <1>3, QuotientBound
<1> QED
  BY <1>3, <1>4 DEF n, a, d

\* What a state that has sent the query of a tile on the map knows of it.
LEMMA TileOnMap ==
  ASSUME IInv, OnMap
  PROVE  LET P == 2^address.z
             S == 2^(Depth - address.z)
         IN  /\ P \in Nat \ {0} /\ S \in Nat \ {0} /\ 2^Depth = P * S
             /\ address.x \in Int /\ address.y \in Int
             /\ tile.z = address.z /\ tile.x = address.x /\ tile.y = P - address.y
<1>1. address.z \in 0..MaxZoom /\ pc = "sent"
  BY DEF OnMap
<1>2. address.z \in 0..Depth /\ Depth - address.z \in 0..Depth /\ address.z \in 0..30
  <2>1. Depth \in Nat /\ MaxZoom \in 0..Depth /\ MaxZoom <= 30
    BY TileAssumption
  <2> QED
    BY <1>1, <2>1
<1>3. Depth - (Depth - address.z) = address.z
  BY <1>2, TileAssumption
<1>4. /\ 2^address.z \in Nat \ {0} /\ 2^(Depth - address.z) \in Nat \ {0}
      /\ 2^Depth = 2^address.z * 2^(Depth - address.z)
  BY <1>2, PowerAssumption
<1>5. address.x \in Int /\ address.y \in Int
  BY DEF IInv, Typed
<1>6. tile = [z |-> address.z, x |-> address.x, y |-> Row(address.z, address.y)]
  BY <1>1 DEF IInv, TileTurned
<1> QED
  BY <1>2, <1>4, <1>5, <1>6 DEF Row

-----------------------------------------------------------------------------
(* The theorems. *)

\* The loop over the tokens in read_cb keeps what IInv says of the first tms.
THEOREM Invariant == Spec => []IInv
BY InitInv, NextInv, PTL DEF Spec

\* README.md:54: the three tokens after the first tms of a path are the address, for
\* any path, whatever the bytes behind it and however long they are.
THEOREM FirstTmsDecides == Spec => []AddressDecides
<1>1. IInv => AddressDecides
  <2> SUFFICES ASSUME IInv, NEW i \in 1..(Len(path) - 3), TmsAt(i), i <= SpinLimit + 1, Over
               PROVE  /\ pc = "sent"
                      /\ address = [z |-> path[i + 1].value, x |-> path[i + 2].value,
                                    y |-> path[i + 3].value]
    BY DEF AddressDecides
  <2>1. Tracks(i)
    BY DEF IInv, TmsTracked, Reaches
  <2>2. pc = "sent" /\ Taken(i, 4)
    BY <2>1 DEF Tracks, Over
  <2> QED
    BY <2>2 DEF Taken, IInv, Typed
<1> QED
  BY <1>1, Invariant, PTL

\* README.md:18: tms2bbox gives the box of the tile that was asked for, at every zoom
\* that an int can shift and for every grain of the coordinates.
THEOREM BoxIsOfTheTile == Spec => []BoxIsTileAskedFor
<1>1. IInv => BoxIsTileAskedFor
  <2> SUFFICES ASSUME IInv, OnMap, NEW x \in World, NEW y \in World
               PROVE  Inside(Box(tile), x, y) <=>
                        /\ ~ OnEdge(address.z, x) /\ ~ OnEdge(address.z, y)
                        /\ Column(address.z, x) = address.x
                        /\ RowFromNorth(address.z, y) = address.y
    BY DEF BoxIsTileAskedFor
  <2> DEFINE P == 2^address.z
             S == 2^(Depth - address.z)
             tx == address.x
             ty == address.y
  <2>1. /\ P \in Nat \ {0} /\ S \in Nat \ {0} /\ 2^Depth = P * S /\ tx \in Int /\ ty \in Int
        /\ tile.z = address.z /\ tile.x = tx /\ tile.y = P - ty
    BY TileOnMap
  <2>2. x \in Int /\ y \in Int
    BY <2>1 DEF World
  <2>3. /\ Box(tile).x1 = tx * S /\ Box(tile).x2 = (tx + 1) * S
        /\ Box(tile).y1 = (P - ty - 1) * S /\ Box(tile).y2 = (P - ty) * S
    BY <2>1 DEF Box
  <2>4. /\ OnEdge(address.z, x) <=> (x * P) % (P * S) = 0
        /\ OnEdge(address.z, y) <=> (y * P) % (P * S) = 0
        /\ Column(address.z, x) = (x * P) \div (P * S)
        /\ RowFromNorth(address.z, y) = ((P * S - y) * P) \div (P * S)
    BY <2>1 DEF OnEdge, Column, RowFromNorth
  <2> HIDE DEF P, S, tx, ty
  <2>5. tx * S < x /\ x < (tx + 1) * S <=>
          ~ (x * P) % (P * S) = 0 /\ (x * P) \div (P * S) = tx
    BY <2>1, <2>2, WithinTile
  <2>6. (P - ty - 1) * S < y /\ y < (P - ty) * S <=>
          ~ (y * P) % (P * S) = 0 /\ ((P * S - y) * P) \div (P * S) = ty
    BY <2>1, <2>2, WithinRow
  <2> QED
    BY <2>3, <2>4, <2>5, <2>6 DEF Inside, tx, ty
<1> QED
  BY <1>1, Invariant, PTL

\* README.md:22: the offsets that scale writes for the points of the tile fit the
\* int16_t it casts them to.
THEOREM OffsetsFit == Spec => []OffsetsInTile
<1>1. IInv => OffsetsInTile
  <2> SUFFICES ASSUME IInv, OnMap, NEW x \in World, NEW y \in World, Inside(Box(tile), x, y)
               PROVE  /\ Scale(x, tile.z, tile.x) \in 0..2560
                      /\ Scale(y, tile.z, tile.y) \in -2560..0
    BY DEF OffsetsInTile
  <2> DEFINE P == 2^address.z
             S == 2^(Depth - address.z)
             tx == tile.x
             ty == tile.y
  <2>1. /\ P \in Nat \ {0} /\ S \in Nat \ {0} /\ 2^Depth = P * S /\ tx \in Int /\ ty \in Int
        /\ tile.z = address.z
    BY TileOnMap
  <2>2. x \in Int /\ y \in Int
    BY <2>1 DEF World
  <2>3. /\ tx * S < x /\ x < (tx + 1) * S /\ (ty - 1) * S < y /\ y < ty * S
    BY <2>1 DEF Box, Inside
  <2>4. /\ Scale(x, tile.z, tx) = Truncate(2560 * (x * P - tx * (P * S)), P * S)
        /\ Scale(y, tile.z, ty) = Truncate(2560 * (y * P - ty * (P * S)), P * S)
    BY <2>1 DEF Scale
  <2> HIDE DEF P, S, tx, ty
  <2> DEFINE u == x - tx * S
             v == ty * S - y
  <2>5. u \in 1..(S - 1) /\ v \in 1..(S - 1)
    <3>1. (tx + 1) * S = tx * S + S /\ (ty - 1) * S = ty * S - S
      BY <2>1
    <3> DEFINE a == tx * S
               b == ty * S
    <3>2. a \in Int /\ b \in Int
      BY <2>1
    <3>3. a < x /\ x < a + S /\ b - S < y /\ y < b
      BY <2>3, <3>1
    <3> HIDE DEF a, b
    <3>4. x - a \in 1..(S - 1) /\ b - y \in 1..(S - 1)
      BY <2>1, <2>2, <3>2, <3>3
    <3> QED
      BY <3>4 DEF a, b
  <2>6. x * P - tx * (P * S) = P * u /\ y * P - ty * (P * S) = -(P * v)
    BY <2>1, <2>2
  <2> HIDE DEF u, v
  <2>7. /\ 2560 * (P * u) \in Nat \ {0} /\ (2560 * (P * u)) \div (P * S) \in 0..2560
        /\ 2560 * (P * v) \in Nat \ {0} /\ (2560 * (P * v)) \div (P * S) \in 0..2560
    BY <2>1, <2>5, OffsetBound
  <2>8. Scale(x, tile.z, tx) \in 0..2560
    <3> DEFINE n == 2560 * (P * u)
    <3>1. n \in Nat \ {0}
      BY <2>7
    <3> HIDE DEF n
    <3>2. Truncate(n, P * S) = n \div (P * S)
      BY <3>1 DEF Truncate
    <3> QED
      BY <2>4, <2>6, <2>7, <3>2 DEF n
  <2>9. Scale(y, tile.z, ty) \in -2560..0
    <3> DEFINE n == 2560 * (P * v)
               m == 2560 * (-(P * v))
    <3>1. m = -n
      BY <2>1, <2>5
    <3>2. n \in Nat \ {0} /\ n \div (P * S) \in 0..2560
      BY <2>7
    <3>3. Scale(y, tile.z, ty) = Truncate(m, P * S)
      BY <2>4, <2>6
    <3> HIDE DEF n, m
    <3>4. m < 0 /\ -m = n
      BY <3>1, <3>2
    <3>5. Truncate(m, P * S) = -((-m) \div (P * S))
      BY <3>4, Zenon DEF Truncate
    <3>6. Scale(y, tile.z, ty) = -(n \div (P * S))
      BY <3>3, <3>4, <3>5
    <3> DEFINE k == n \div (P * S)
    <3>7. k \in 0..2560 /\ Scale(y, tile.z, ty) = -k
      BY <3>2, <3>6
    <3> HIDE DEF k
    <3> QED
      BY <3>7
  <2> QED
    BY <2>8, <2>9 DEF tx, ty
<1> QED
  BY <1>1, Invariant, PTL
=============================================================================
