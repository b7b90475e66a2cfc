------------------------- MODULE MCLocalTransports -------------------------
(***************************************************************************)
(* LocalTransports for TLC.  Emulators have the adb ports 2 and 4, so that *)
(* their serials are 1 and 3; 9 is the serial of a TCP device.             *)
(***************************************************************************)
EXTENDS LocalTransports, TLC

MCPolled == <<2>>
MCRequests == {Target(1, 2), Target(3, 2), Target(1, 4), Target(9, NoPort)}

Symmetry == Permutations(Transports)
=============================================================================
