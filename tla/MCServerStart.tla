--------------------------- MODULE MCServerStart ---------------------------
(* ServerStart for TLC. *)
EXTENDS ServerStart

CONSTANTS c1, c2
=============================================================================
