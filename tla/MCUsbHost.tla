------------------------------ MODULE MCUsbHost ------------------------------
(***************************************************************************)
(* UsbHost for TLC: one device, plugged in again and again, with and       *)
(* without the permission to write to it.                                  *)
(***************************************************************************)
EXTENDS UsbHost

CONSTANT d1
=============================================================================
