------------------------------ MODULE MCEncoder ------------------------------
(***************************************************************************)
(* The knob for two clicks, from every rest position: turned, reversed and *)
(* bouncing, with interrupts prompt and late.                              *)
(***************************************************************************)
EXTENDS Encoder
=============================================================================
