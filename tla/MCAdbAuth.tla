----------------------------- MODULE MCAdbAuth -----------------------------
(* AdbAuth for TLC. *)
EXTENDS AdbAuth
=============================================================================
