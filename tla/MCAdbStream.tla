----------------------------- MODULE MCAdbStream -----------------------------
(* AdbStream and its refinement mapping for TLC. *)
EXTENDS AdbStreamPipe
=============================================================================
