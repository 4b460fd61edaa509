------------------------------ MODULE MCRfLink ------------------------------
(* Ticks of 2.5 ms: passes every 20 ms or one tick more, an event of the RF  *)
(* task every 12.5 ms (20 units of 625 us), which the threads above main,    *)
(* drawing on the screen for one, delay by up to 10 ms: long enough for two  *)
(* passes to come between two notes.  A packet of three bytes.  The          *)
(* receiver's 3 s are cut to just more than the longest silence of a link    *)
(* that works.                                                               *)
EXTENDS RfLink
=============================================================================
