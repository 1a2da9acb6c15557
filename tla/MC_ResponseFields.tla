------------------------- MODULE MC_ResponseFields -------------------------
(* ResponseFields for TLC: a server on chain 2 with versions 0 .. 2. *)
EXTENDS ResponseFields
====
