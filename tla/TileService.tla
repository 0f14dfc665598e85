----------------------------- MODULE TileService -----------------------------
(***************************************************************************)
(* What canvasback promises a browser (README.md): a connection carries    *)
(* one query and gets one answer - the head, then the records as one chunk *)
(* and the final chunk, or the final chunk alone for an empty tile - and   *)
(* is then closed.  A query may also be dropped after the head.            *)
(***************************************************************************)
EXTENDS Sequences

CONSTANTS Conns, Reqs, None

VARIABLES phase,   \* of a connection: away, open, closed
          asked,   \* the connection a query was sent on
          wire     \* what was sent back on a connection

vars == <<phase, asked, wire>>

Init ==
  /\ phase = [c \in Conns |-> "away"]
  /\ asked = [q \in Reqs |-> None]
  /\ wire = [c \in Conns |-> <<>>]

Unasked(c) == \A q \in Reqs : asked[q] # c

Open(c) ==
  /\ phase[c] = "away"
  /\ phase' = [phase EXCEPT ![c] = "open"]
  /\ UNCHANGED <<asked, wire>>

Ask(c, q) ==
  /\ phase[c] = "open" /\ Unasked(c) /\ asked[q] = None
  /\ asked' = [asked EXCEPT ![q] = c]
  /\ UNCHANGED <<phase, wire>>

\* The browser went away without a query.
CloseUnasked(c) ==
  /\ phase[c] = "open" /\ Unasked(c)
  /\ phase' = [phase EXCEPT ![c] = "closed"]
  /\ UNCHANGED <<asked, wire>>

BeginAnswer(c, q) ==
  /\ phase[c] = "open" /\ asked[q] = c /\ wire[c] = <<>>
  /\ wire' = [wire EXCEPT ![c] = << <<q, "head">> >>]
  /\ UNCHANGED <<phase, asked>>

EndAnswer(c, q) ==
  /\ phase[c] = "open" /\ asked[q] = c /\ wire[c] = << <<q, "head">> >>
  /\ \E parts \in { << <<q, "chunk">>, <<q, "last">> >>, << <<q, "last">> >> } :
       wire' = [wire EXCEPT ![c] = @ \o parts]
  /\ phase' = [phase EXCEPT ![c] = "closed"]
  /\ UNCHANGED asked

Drop(c, q) ==
  /\ phase[c] = "open" /\ asked[q] = c /\ wire[c] = <<>>
  /\ wire' = [wire EXCEPT ![c] = << <<q, "head">> >>]
  /\ phase' = [phase EXCEPT ![c] = "closed"]
  /\ UNCHANGED asked

Serve(c) == \E q \in Reqs : BeginAnswer(c, q) \/ EndAnswer(c, q) \/ Drop(c, q)

Next ==
  \E c \in Conns :
    \/ Open(c) \/ CloseUnasked(c) \/ Serve(c)
    \/ \E q \in Reqs : Ask(c, q)

SafeSpec == Init /\ [][Next]_vars

Spec == SafeSpec /\ \A c \in Conns : WF_vars(Serve(c))
=============================================================================
