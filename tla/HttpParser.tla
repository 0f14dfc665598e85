----------------------------- MODULE HttpParser -----------------------------
(***************************************************************************)
(* picohttpparser: phr_parse_request and phr_parse_response called again   *)
(* and again on a buffer that grows, each time with the length of the last *)
(* call in last_len.                                                       *)
(*                                                                         *)
(* A call parses the buffer from its start, so where it runs out of bytes  *)
(* depends on the bytes alone: the model keeps that place up to date byte  *)
(* by byte (at, vpos, num_headers) and a call only looks at it.  The same  *)
(* holds of is_complete, which a call with last_len # 0 asks first; it     *)
(* starts three bytes before last_len, so the model also keeps the last    *)
(* three bytes received.  No length is bounded.                            *)
(*                                                                         *)
(* Tokens, names and values are data: only where they end is modelled.     *)
(***************************************************************************)
EXTENDS Integers

CONSTANT MaxHeaders   \* the room in headers[], what num_headers holds on entry

ASSUME MaxHeadersAssumption == MaxHeaders \in Nat

\* "ctl" is a byte below the space other than TAB, CR and LF, or one above 127:
\* char is signed.  "x" is any other byte.
Digit == {"0", "1"}
Eol == {"CR", "LF"}
Blank == {"SP", "TAB"}
Byte == {"H", "T", "P", "slash", "dot", "colon", "x", "ctl"} \cup Digit \cup Eol \cup Blank

VARIABLES
  response,     \* phr_parse_response instead of phr_parse_request
  at,           \* where a parse of the buffer runs out of bytes, "done" or "bad"
  vpos,         \* next character of "HTTP/1." to expect
  num_headers,
  recent,       \* the last three bytes, only told apart as line ends
  scan,         \* where is_complete is, started three bytes before last_len
  called,       \* last_len # 0
  verdict       \* what the last call returned: more (-2), bad (-1), ok

vars == <<response, at, vpos, num_headers, recent, scan, called, verdict>>

Init ==
  /\ response \in BOOLEAN
  /\ at = IF response THEN "version" ELSE "start"
  /\ vpos = 1 /\ num_headers = 0
  /\ recent = <<"none", "none", "none">>
  /\ scan = "text" /\ called = FALSE
  /\ verdict = "more"

Goto(place) == at' = place /\ UNCHANGED <<vpos, num_headers>>

-----------------------------------------------------------------------------
(* The request line and the status line *)

SkipEmptyLine(b) ==
  /\ at = "start" /\ b \in Eol
  /\ Goto(IF b = "CR" THEN "start_LF" ELSE "method")

\* ADVANCE_TOKEN
AdvanceToken(b) ==
  /\ at \in {"method", "path"} \/ (at = "start" /\ b \notin Eol)
  /\ Goto(CASE b \in Eol -> "bad"
            [] b = "SP" -> IF at = "path" THEN "version" ELSE "path"
            [] OTHER -> IF at = "path" THEN "path" ELSE "method")

HttpSlashOne == <<"H", "T", "T", "P", "slash", "1", "dot">>

ParseHttpVersion(b) ==
  /\ at = "version"
  /\ at' = IF b # HttpSlashOne[vpos] THEN "bad"
           ELSE IF vpos = 7 THEN "minor" ELSE "version"
  /\ vpos' = IF vpos = 7 THEN 1 ELSE vpos + 1
  /\ UNCHANGED num_headers

\* The first digit of parse_int, which must be there.
FirstDigit(b) ==
  /\ at \in {"minor", "status"}
  /\ Goto(IF b \notin Digit THEN "bad"
          ELSE IF at = "minor" THEN "minor_digits" ELSE "status_digits")

\* parse_int stops at a byte that is no digit, and its caller looks at that byte.
MoreDigits(b) ==
  /\ at \in {"minor_digits", "status_digits"} /\ b \in Digit
  /\ Goto(at)

RequestLineEnd(b) ==
  /\ at = "minor_digits" /\ ~ response /\ b \notin Digit
  /\ Goto(CASE b = "CR" -> "line_LF" [] b = "LF" -> "headers" [] OTHER -> "bad")

SpaceInStatusLine(b) ==
  /\ \/ at = "minor_digits" /\ response
     \/ at = "status_digits"
  /\ b \notin Digit
  /\ Goto(IF b # "SP" THEN "bad"
          ELSE IF at = "minor_digits" THEN "status" ELSE "message")

-----------------------------------------------------------------------------
(* parse_headers *)

EndOfHeaders(b) ==
  /\ at = "headers" /\ b \in Eol
  /\ Goto(IF b = "CR" THEN "end_LF" ELSE "done")

TooManyHeaders(b) ==
  /\ at = "headers" /\ b \notin Eol
  /\ num_headers = MaxHeaders
  /\ Goto("bad")

\* Variant of Continuation: the room is not checked.
ContinuationUnchecked(b) ==
  /\ at = "headers" /\ b \in Blank
  /\ num_headers # 0
  /\ Goto("value")

\* A line that begins with a blank continues the header before it.
Continuation(b) ==
  /\ at = "headers" /\ b \in Blank
  /\ num_headers # MaxHeaders /\ num_headers # 0
  /\ Goto("value")

HeaderName(b) ==
  /\ \/ at = "name"
     \/ /\ at = "headers" /\ b \notin Eol
        /\ num_headers # MaxHeaders
        /\ b \notin Blank \/ num_headers = 0
  /\ Goto(CASE b = "colon" -> "skip"
            [] b \in {"ctl", "TAB"} \cup Eol -> "bad"
            [] OTHER -> "name")

SkipBlanks(b) == at = "skip" /\ b \in Blank /\ Goto("skip")

\* get_token_to_eol, of a message or of a header's value
TokenToEol(b) ==
  /\ at \in {"message", "value"} \/ (at = "skip" /\ b \notin Blank)
  /\ at' = CASE b = "LF" -> "headers"
             [] b = "CR" -> IF at = "message" THEN "line_LF" ELSE "value_LF"
             [] OTHER -> IF at = "message" THEN "message" ELSE "value"
  /\ num_headers' = IF b = "LF" /\ at # "message" THEN num_headers + 1 ELSE num_headers
  /\ UNCHANGED vpos

\* EXPECT_CHAR('\012') after a CR
ExpectLf(b) ==
  \/ /\ at = "start_LF"
     /\ Goto(IF b = "LF" THEN "method" ELSE "bad")
  \/ /\ at = "line_LF"
     /\ Goto(IF b = "LF" THEN "headers" ELSE "bad")
  \/ /\ at = "end_LF"
     /\ Goto(IF b = "LF" THEN "done" ELSE "bad")
  \/ /\ at = "value_LF"
     /\ at' = IF b = "LF" THEN "headers" ELSE "bad"
     /\ num_headers' = IF b = "LF" THEN num_headers + 1 ELSE num_headers
     /\ UNCHANGED vpos

\* A parse looks at no byte after its end.
Ended == at \in {"done", "bad"} /\ Goto(at)

Parse(b) ==
  \/ SkipEmptyLine(b) \/ AdvanceToken(b) \/ ParseHttpVersion(b)
  \/ FirstDigit(b) \/ MoreDigits(b) \/ RequestLineEnd(b) \/ SpaceInStatusLine(b)
  \/ EndOfHeaders(b) \/ TooManyHeaders(b) \/ Continuation(b) \/ HeaderName(b)
  \/ SkipBlanks(b) \/ TokenToEol(b) \/ ExpectLf(b) \/ Ended

-----------------------------------------------------------------------------
(* is_complete: ret_cnt is 0 in "text" and "CR", 1 in "NL" and "NL_CR" *)

Kind(b) == IF b \in Eol THEN b ELSE "text"

IsComplete(s, b) ==
  CASE b = "none" \/ s \in {"complete", "bad"} -> s
    [] s = "CR" -> IF b = "LF" THEN "NL" ELSE "bad"
    [] s = "NL_CR" -> IF b = "LF" THEN "complete" ELSE "bad"
    [] s = "NL" /\ b \in Eol -> IF b = "CR" THEN "NL_CR" ELSE "complete"
    [] s = "text" /\ b \in Eol -> IF b = "CR" THEN "CR" ELSE "NL"
    [] OTHER -> "text"

\* Variant of FromRecent: only from the last byte on.
FromLastByte == IsComplete("text", recent[3])

\* buf + last_len - 3, or buf if there are fewer bytes
FromRecent ==
  IsComplete(IsComplete(IsComplete("text", recent[1]), recent[2]), recent[3])

Receive(b) ==
  /\ verdict = "more"
  /\ Parse(b)
  /\ scan' = IsComplete(scan, Kind(b))
  /\ recent' = <<recent[2], recent[3], Kind(b)>>
  /\ UNCHANGED <<response, called, verdict>>

OneParse == CASE at = "done" -> "ok" [] at = "bad" -> "bad" [] OTHER -> "more"

\* Variant of Gate: *ret = -1 for a message that is not complete.
GateRefuses == "bad"

Gate == IF scan = "bad" THEN "bad" ELSE "more"

\* phr_parse_request or phr_parse_response, on a buffer that is not empty
Call ==
  /\ verdict = "more" /\ recent[3] # "none"
  /\ verdict' = IF called /\ scan # "complete" THEN Gate ELSE OneParse
  /\ called' = TRUE
  /\ scan' = FromRecent
  /\ UNCHANGED <<response, at, vpos, num_headers, recent>>

Next == Call \/ \E b \in Byte : Receive(b)

Spec == Init /\ [][Next]_vars
-----------------------------------------------------------------------------
Places == {"start", "start_LF", "method", "path", "version", "minor", "minor_digits",
           "status", "status_digits", "message", "line_LF", "headers", "name", "skip",
           "value", "value_LF", "end_LF", "done", "bad"}

TypeOK ==
  /\ response \in BOOLEAN
  /\ at \in Places
  /\ vpos \in 1..7
  /\ num_headers \in Nat
  /\ recent = <<recent[1], recent[2], recent[3]>>
  /\ {recent[1], recent[2], recent[3]} \subseteq {"none", "text", "CR", "LF"}
  /\ scan \in {"text", "CR", "NL", "NL_CR", "complete", "bad"}
  /\ called \in BOOLEAN
  /\ verdict \in {"more", "bad", "ok"}

\* headers[*num_headers] is only written while there is room for it, continuation
\* lines included, and no header is counted beyond the array.
HeadersInBounds ==
  /\ num_headers <= MaxHeaders
  /\ at \in {"name", "skip", "value", "value_LF"} => num_headers < MaxHeaders

\* is_complete, which only looks at the bytes from three before last_len on,
\* never holds back a message that a parse of the whole buffer accepts.
GateOpensInTime == verdict = "more" /\ at = "done" => scan = "complete"

\* A message fed in pieces is accepted or refused only if a parse of the same
\* bytes at once accepts or refuses it.
PiecesAgree ==
  /\ verdict = "ok" => at = "done"
  /\ verdict = "bad" => at = "bad"
=============================================================================
