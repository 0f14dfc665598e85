---------------------------- MODULE MCTileAddress ----------------------------
(* A small instance of TileAddress for TLC. *)
EXTENDS TileAddress

Word == [kind |-> "word", value |-> 0]
Tms == [kind |-> "tms", value |-> 0]
Number(n) == [kind |-> "number", value |-> n]

\* Nothing; "HTTP", "1" and a header; and headers or an earlier request with an
\* address of their own, as in a Referer.
AfterPath == { <<>>, << Word, Number(1), Word >>,
               << Word, Number(1), Word, Tms, Number(2), Number(1), Number(0) >> }
=============================================================================
