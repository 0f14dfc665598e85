--------------------------- MODULE HttpParserProofs ---------------------------
(***************************************************************************)
(* A message fed to the parser in pieces is judged as it is at once, and   *)
(* headers[] is not overrun: for every room in headers[] and every message,*)
(* of any length and in any pieces.                                        *)
(***************************************************************************)
EXTENDS HttpParser, TLAPS

\* Where the parser has read a CR and waits for the LF.
AwaitsLf == {"start_LF", "line_LF", "value_LF", "end_LF"}

\* What the last three bytes are, as far as the parser has not given up on them.
RecentAgrees ==
  at \notin {"done", "bad"} =>
    /\ recent[1] = "CR" => recent[2] = "LF"
    /\ recent[2] = "CR" => recent[3] = "LF"
    /\ recent[3] = "CR" <=> at \in AwaitsLf
    /\ at = "headers" => recent[3] = "LF"
    /\ at = "end_LF" => recent[2] = "LF"

\* is_complete counts the line ends the parser counts, or is past them.
ScanAgrees ==
  verdict = "more" =>
    /\ at = "headers" => scan \in {"NL", "complete"}
    /\ at = "end_LF" => scan \in {"NL_CR", "complete"}
    /\ at \in AwaitsLf => scan \in {"CR", "NL_CR", "complete"}
    /\ at = "done" => scan = "complete"
    /\ scan \in {"CR", "NL_CR"} => at \in AwaitsLf \cup {"bad"}
    /\ scan = "bad" => at = "bad"

IInv == TypeOK /\ HeadersInBounds /\ RecentAgrees /\ ScanAgrees /\ PiecesAgree

Kinds == {"text", "CR", "LF"}
Scans == {"text", "CR", "NL", "NL_CR", "complete", "bad"}
-----------------------------------------------------------------------------
\* The last three bytes are those of a tuple.
LEMMA RecentType ==
  TypeOK => /\ recent[1] \in Kinds \cup {"none"} /\ recent[2] \in Kinds \cup {"none"}
            /\ recent[3] \in Kinds \cup {"none"}
BY DEF TypeOK, Kinds

\* is_complete, byte by byte.
LEMMA ScanStep ==
  ASSUME NEW s \in Scans, NEW k \in Kinds
  PROVE  /\ IsComplete(s, k) \in Scans
         /\ s \in {"complete", "bad"} => IsComplete(s, k) = s
         /\ s \in {"CR", "NL_CR"} /\ k # "LF" => IsComplete(s, k) = "bad"
         /\ s = "CR" /\ k = "LF" => IsComplete(s, k) = "NL"
         /\ s = "NL_CR" /\ k = "LF" => IsComplete(s, k) = "complete"
         /\ s \in {"text", "NL"} /\ k = "text" => IsComplete(s, k) = "text"
         /\ s = "text" /\ k = "CR" => IsComplete(s, k) = "CR"
         /\ s = "text" /\ k = "LF" => IsComplete(s, k) = "NL"
         /\ s = "NL" /\ k = "CR" => IsComplete(s, k) = "NL_CR"
         /\ s = "NL" /\ k = "LF" => IsComplete(s, k) = "complete"
BY DEF IsComplete, Scans, Kinds, Eol

\* Bytes that are line ends, and those that are not.
LEMMA KindOf ==
  ASSUME NEW b \in Byte
  PROVE  /\ Kind(b) \in Kinds
         /\ b = "CR" <=> Kind(b) = "CR"
         /\ b = "LF" <=> Kind(b) = "LF"
BY DEF Kind, Kinds, Eol, Byte, Digit, Blank

\* A parse starts before the first byte.
LEMMA InitInv == Init => IInv
<1> SUFFICES ASSUME Init PROVE IInv
  OBVIOUS
<1>1. at \in {"version", "start"}
  BY DEF Init
<1>2. /\ vpos = 1 /\ num_headers = 0 /\ recent = <<"none", "none", "none">>
      /\ scan = "text" /\ called = FALSE /\ verdict = "more" /\ response \in BOOLEAN
  BY DEF Init
<1>3. /\ recent[1] = "none" /\ recent[2] = "none" /\ recent[3] = "none"
  BY <1>2
<1>4. TypeOK
  <2>1. recent = <<recent[1], recent[2], recent[3]>>
    BY <1>2, <1>3
  <2>2. {recent[1], recent[2], recent[3]} \subseteq {"none", "text", "CR", "LF"}
    BY <1>3
  <2>3. at \in Places /\ vpos \in 1..7 /\ num_headers \in Nat
    BY <1>1, <1>2 DEF Places
  <2> QED
    BY <1>2, <2>1, <2>2, <2>3 DEF TypeOK
<1>5. HeadersInBounds
  BY <1>1, <1>2, MaxHeadersAssumption DEF HeadersInBounds
<1>6. RecentAgrees /\ ScanAgrees /\ PiecesAgree
  BY <1>1, <1>2, <1>3 DEF RecentAgrees, ScanAgrees, PiecesAgree, AwaitsLf
<1> QED
  BY <1>4, <1>5, <1>6 DEF IInv

-----------------------------------------------------------------------------
\* What a byte does to the parser, as far as line ends go.
LineEnds(b) ==
  /\ at' \in Places /\ vpos' \in 1..7 /\ num_headers' \in Nat
  /\ at \in {"done", "bad"} => at' = at
  /\ at' \in AwaitsLf => b = "CR"
  /\ at' = "headers" => b = "LF"
  /\ at' = "end_LF" => at = "headers"
  /\ at' = "done" => at = "done" \/ (b = "LF" /\ at \in {"headers", "end_LF"})
  /\ at \in AwaitsLf => at' = "bad" \/ b = "LF"
  /\ at \notin {"done", "bad"} /\ b = "CR" => at' \in AwaitsLf \cup {"bad"}

\* The request line and the status line.
LEMMA FirstLine ==
  ASSUME at \in Places, vpos \in 1..7, num_headers \in Nat, NEW b \in Byte,
         \/ SkipEmptyLine(b) \/ AdvanceToken(b) \/ ParseHttpVersion(b) \/ FirstDigit(b)
         \/ MoreDigits(b) \/ RequestLineEnd(b) \/ SpaceInStatusLine(b)
  PROVE  LineEnds(b)
<1> USE DEF LineEnds, Goto, Places, AwaitsLf, Eol
<1>1. CASE SkipEmptyLine(b)
  BY <1>1 DEF SkipEmptyLine
<1>2. CASE AdvanceToken(b)
  BY <1>2 DEF AdvanceToken
<1>3. CASE ParseHttpVersion(b)
  <2>1. b = "CR" => b # HttpSlashOne[vpos]
    <3>1. vpos \in {1, 2, 3, 4, 5, 6, 7}
      OBVIOUS
    <3> QED
      BY <3>1 DEF HttpSlashOne
  <2>2. at' \in {"bad", "minor", "version"} /\ vpos' \in 1..7
    BY <1>3 DEF ParseHttpVersion
  <2> QED
    BY <1>3, <2>1, <2>2 DEF ParseHttpVersion
<1>4. CASE FirstDigit(b)
  BY <1>4 DEF FirstDigit, Digit
<1>5. CASE MoreDigits(b)
  BY <1>5 DEF MoreDigits, Digit
<1>6. CASE RequestLineEnd(b)
  BY <1>6 DEF RequestLineEnd
<1>7. CASE SpaceInStatusLine(b)
  BY <1>7 DEF SpaceInStatusLine
<1> QED
  BY <1>1, <1>2, <1>3, <1>4, <1>5, <1>6, <1>7

\* The headers.
LEMMA Headers ==
  ASSUME at \in Places, vpos \in 1..7, num_headers \in Nat, NEW b \in Byte,
         \/ EndOfHeaders(b) \/ TooManyHeaders(b) \/ Continuation(b) \/ HeaderName(b)
         \/ SkipBlanks(b) \/ TokenToEol(b) \/ ExpectLf(b) \/ Ended
  PROVE  LineEnds(b)
<1> USE DEF LineEnds, Goto, Places, AwaitsLf, Eol
<1>1. CASE EndOfHeaders(b)
  BY <1>1 DEF EndOfHeaders
<1>2. CASE TooManyHeaders(b)
  BY <1>2 DEF TooManyHeaders
<1>3. CASE Continuation(b)
  BY <1>3 DEF Continuation, Blank
<1>4. CASE HeaderName(b)
  BY <1>4 DEF HeaderName
<1>5. CASE SkipBlanks(b)
  BY <1>5 DEF SkipBlanks, Blank
<1>6. CASE TokenToEol(b)
  BY <1>6 DEF TokenToEol
<1>7. CASE ExpectLf(b)
  BY <1>7 DEF ExpectLf
<1>8. CASE Ended
  BY <1>8 DEF Ended
<1> QED
  BY <1>1, <1>2, <1>3, <1>4, <1>5, <1>6, <1>7, <1>8

\* No byte makes the parser count a header it has no room for.
LEMMA RoomKept ==
  ASSUME num_headers \in Nat, HeadersInBounds, NEW b \in Byte, Parse(b)
  PROVE  HeadersInBounds'
<1> USE MaxHeadersAssumption DEF HeadersInBounds, Goto
<1>1. CASE SkipEmptyLine(b) \/ AdvanceToken(b) \/ FirstDigit(b) \/ MoreDigits(b)
  BY <1>1 DEF SkipEmptyLine, AdvanceToken, FirstDigit, MoreDigits
<1>2. CASE RequestLineEnd(b) \/ SpaceInStatusLine(b) \/ ParseHttpVersion(b) \/ Ended
  BY <1>2 DEF RequestLineEnd, SpaceInStatusLine, ParseHttpVersion, Ended
<1>3. CASE EndOfHeaders(b) \/ TooManyHeaders(b) \/ Continuation(b)
  BY <1>3 DEF EndOfHeaders, TooManyHeaders, Continuation
<1>4. CASE HeaderName(b)
  BY <1>4 DEF HeaderName
<1>5. CASE SkipBlanks(b) \/ TokenToEol(b)
  BY <1>5 DEF SkipBlanks, TokenToEol
<1>6. CASE ExpectLf(b)
  BY <1>6 DEF ExpectLf
<1> QED
  BY <1>1, <1>2, <1>3, <1>4, <1>5, <1>6 DEF Parse

-----------------------------------------------------------------------------
\* A byte is received.
LEMMA ReceiveInv ==
  ASSUME IInv, NEW b \in Byte, Receive(b)
  PROVE  IInv'
<1>1. TypeOK /\ Parse(b) /\ verdict = "more" /\ verdict' = verdict
  BY DEF IInv, Receive
<1>2. LineEnds(b)
  BY <1>1, FirstLine, Headers DEF Parse, TypeOK
<1>3. /\ Kind(b) \in Kinds /\ (b = "CR" <=> Kind(b) = "CR") /\ (b = "LF" <=> Kind(b) = "LF")
  BY KindOf
<1>4. /\ recent'[1] = recent[2] /\ recent'[2] = recent[3] /\ recent'[3] = Kind(b)
  BY DEF Receive
<1>5. scan \in Scans /\ scan' = IsComplete(scan, Kind(b)) /\ scan' \in Scans
  BY <1>1, <1>3, ScanStep DEF TypeOK, Receive, Scans
<1>6. TypeOK'
  <2>1. /\ recent' = <<recent'[1], recent'[2], recent'[3]>>
        /\ {recent'[1], recent'[2], recent'[3]} \subseteq {"none", "text", "CR", "LF"}
    BY <1>1, <1>3, <1>4, RecentType DEF Receive, Kinds
  <2> QED
    BY <1>1, <1>2, <1>5, <2>1 DEF TypeOK, Receive, LineEnds, Scans
<1>7. HeadersInBounds'
  BY <1>1, RoomKept DEF IInv, TypeOK
<1>8. RecentAgrees'
  BY <1>1, <1>2, <1>3, <1>4 DEF IInv, RecentAgrees, LineEnds, AwaitsLf, TypeOK
<1>9. ScanAgrees'
  <2>1. CASE scan \in {"complete", "bad"}
    BY <1>1, <1>2, <1>3, <1>5, <2>1, ScanStep DEF IInv, ScanAgrees, LineEnds, AwaitsLf
  <2>2. CASE scan \in {"CR", "NL_CR"}
    BY <1>1, <1>2, <1>3, <1>5, <2>2, ScanStep DEF IInv, ScanAgrees, LineEnds, AwaitsLf
  <2>3. CASE scan \in {"text", "NL"}
    BY <1>1, <1>2, <1>3, <1>5, <2>3, ScanStep DEF IInv, ScanAgrees, LineEnds, AwaitsLf, Kinds
  <2> QED
    BY <1>5, <2>1, <2>2, <2>3 DEF Scans
<1>10. PiecesAgree'
  BY <1>1 DEF PiecesAgree
<1> QED
  BY <1>6, <1>7, <1>8, <1>9, <1>10 DEF IInv

\* is_complete, started again three bytes back, is where RecentAgrees says.
LEMMA ScanRestarts ==
  ASSUME TypeOK, RecentAgrees
  PROVE  /\ FromRecent \in Scans
         /\ at \notin {"done", "bad"} =>
              /\ at = "headers" => FromRecent \in {"NL", "complete"}
              /\ at = "end_LF" => FromRecent \in {"NL_CR", "complete"}
              /\ at \in AwaitsLf => FromRecent \in {"CR", "NL_CR", "complete"}
              /\ FromRecent \in {"CR", "NL_CR"} => at \in AwaitsLf
              /\ FromRecent # "bad"
<1>1. /\ recent[1] \in Kinds \cup {"none"} /\ recent[2] \in Kinds \cup {"none"}
      /\ recent[3] \in Kinds \cup {"none"}
  BY RecentType
<1> DEFINE s1 == IsComplete("text", recent[1])
           s2 == IsComplete(s1, recent[2])
<1>2. /\ s1 \in {"text", "CR", "NL"}
      /\ s1 = "CR" <=> recent[1] = "CR"
      /\ s1 = "NL" <=> recent[1] = "LF"
  BY <1>1 DEF IsComplete, Kinds, Eol
<1> HIDE DEF s1
<1>3. /\ s2 \in Scans
      /\ (recent[1] = "CR" => recent[2] = "LF") =>
           /\ s2 # "bad"
           /\ s2 \in {"CR", "NL_CR"} => recent[2] = "CR"
           /\ recent[2] = "CR" => s2 \in {"CR", "NL_CR"}
           /\ recent[2] = "LF" => s2 \in {"NL", "complete"}
  BY <1>1, <1>2 DEF IsComplete, Scans, Kinds, Eol
<1> HIDE DEF s2
<1>4. /\ FromRecent = IsComplete(s2, recent[3])
  BY DEF FromRecent, s1, s2
<1>5. FromRecent \in Scans
  BY <1>1, <1>3, <1>4 DEF IsComplete, Scans, Kinds, Eol
<1>6. ASSUME at \notin {"done", "bad"}
      PROVE  /\ at = "headers" => FromRecent \in {"NL", "complete"}
             /\ at = "end_LF" => FromRecent \in {"NL_CR", "complete"}
             /\ at \in AwaitsLf => FromRecent \in {"CR", "NL_CR", "complete"}
             /\ FromRecent \in {"CR", "NL_CR"} => at \in AwaitsLf
             /\ FromRecent # "bad"
  <2>1. /\ recent[1] = "CR" => recent[2] = "LF"
        /\ recent[2] = "CR" => recent[3] = "LF"
        /\ recent[3] = "CR" <=> at \in AwaitsLf
        /\ at = "headers" => recent[3] = "LF"
        /\ at = "end_LF" => recent[2] = "LF" /\ recent[3] = "CR"
    BY <1>6 DEF RecentAgrees, AwaitsLf
  <2>2. s2 \in Scans \ {"bad"} /\ (s2 \in {"CR", "NL_CR"} <=> recent[2] = "CR")
        /\ (recent[2] = "LF" => s2 \in {"NL", "complete"})
    BY <1>3, <2>1
  <2>3. CASE recent[3] = "LF"
    BY <1>4, <2>1, <2>2, <2>3 DEF IsComplete, Scans, Eol, AwaitsLf
  <2>4. CASE recent[3] = "CR"
    BY <1>4, <2>1, <2>2, <2>4 DEF IsComplete, Scans, Eol
  <2>5. CASE recent[3] \in {"none", "text"}
    BY <1>4, <2>1, <2>2, <2>5 DEF IsComplete, Scans, Eol
  <2> QED
    BY <1>1, <2>3, <2>4, <2>5 DEF Kinds
<1> QED
  BY <1>5, <1>6

\* The parser is called.
LEMMA CallInv ==
  ASSUME IInv, Call
  PROVE  IInv'
<1>1. /\ verdict = "more" /\ scan \in Scans
      /\ UNCHANGED <<response, at, vpos, num_headers, recent>>
      /\ verdict' = IF called /\ scan # "complete" THEN Gate ELSE OneParse
      /\ called' = TRUE /\ scan' = FromRecent
  BY DEF IInv, TypeOK, Call, Scans
<1>2. verdict' \in {"more", "bad", "ok"}
  BY <1>1 DEF Gate, OneParse
<1>3. TypeOK'
  BY <1>1, <1>2, ScanRestarts DEF IInv, TypeOK, Scans
<1>4. HeadersInBounds' /\ RecentAgrees'
  BY <1>1 DEF IInv, HeadersInBounds, RecentAgrees
<1>5. PiecesAgree'
  BY <1>1 DEF IInv, ScanAgrees, PiecesAgree, Gate, OneParse
<1>6. verdict' = "more" => at # "done"
  BY <1>1 DEF IInv, ScanAgrees, Gate, OneParse
<1>7. ScanAgrees'
  <2>1. CASE at = "bad"
    BY <1>1, <2>1 DEF ScanAgrees, AwaitsLf
  <2>2. CASE at \notin {"done", "bad"}
    BY <1>1, <2>2, ScanRestarts DEF IInv, ScanAgrees
  <2> QED
    BY <1>1, <1>6, <2>1, <2>2 DEF ScanAgrees
<1> QED
  BY <1>3, <1>4, <1>5, <1>7 DEF IInv

\* What the parser and is_complete know of the same bytes stays in step.
THEOREM Invariant == Spec => []IInv
<1>1. IInv /\ UNCHANGED vars => IInv'
  BY DEF IInv, vars, TypeOK, HeadersInBounds, RecentAgrees, ScanAgrees, PiecesAgree
<1>2. IInv /\ [Next]_vars => IInv'
  BY <1>1, ReceiveInv, CallInv DEF Next
<1> QED
  BY <1>2, InitInv, PTL DEF Spec

\* The parser's place, its counters and the bytes it remembers keep their types.
THEOREM TypeCorrect == Spec => []TypeOK
BY Invariant, PTL DEF IInv

\* headers[] is never written beyond its room.
THEOREM NoHeaderOverrun == Spec => []HeadersInBounds
BY Invariant, PTL DEF IInv

\* is_complete never holds back a complete message.
THEOREM GateIsTransparent == Spec => []GateOpensInTime
<1>1. IInv => GateOpensInTime
  BY DEF IInv, ScanAgrees, GateOpensInTime
<1> QED
  BY <1>1, Invariant, PTL

\* However a message is cut into pieces, it is judged as it is at once.
THEOREM PiecesDoNotMatter == Spec => []PiecesAgree
BY Invariant, PTL DEF IInv
=============================================================================
