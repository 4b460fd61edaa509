------------------------------ MODULE MCButton ------------------------------
(* The constants of button.h and the width of repeat; only ticks wraps       *)
(* earlier than in the code, so that it does in the run.                     *)
EXTENDS Button
=============================================================================
