--------------------------- MODULE MCAdbTransport ---------------------------
(* AdbTransport for TLC. *)
EXTENDS AdbTransport
=============================================================================
