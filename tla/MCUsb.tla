-------------------------------- MODULE MCUsb --------------------------------
(***************************************************************************)
(* A ring buffer of three bytes and packets of two: packets that are full, *)
(* short and empty, a ring buffer that is full, and the race between the   *)
(* radio thread and the interrupt of its own report.                       *)
(***************************************************************************)
EXTENDS Usb
=============================================================================
