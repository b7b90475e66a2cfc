--------------------------- MODULE MCShellService ---------------------------
(* ShellService for TLC. *)
EXTENDS ShellService
=============================================================================
