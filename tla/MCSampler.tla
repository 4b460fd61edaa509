------------------------------ MODULE MCSampler ------------------------------
(***************************************************************************)
(* Three channels, a first and a middle one for sticks and a last one that *)
(* nobody reads, and a measurement of the temperature that begins at any   *)
(* moment of a pass and may be preempted by any number of passes.          *)
(***************************************************************************)
EXTENDS Sampler
=============================================================================
