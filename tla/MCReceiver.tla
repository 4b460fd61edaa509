----------------------------- MODULE MCReceiver -----------------------------
(* Ten ticks before the counter wraps, three of silence and one between two  *)
(* checks, which may be delayed by a tick: the counter wraps in the run with *)
(* every offset to the packets and to the checks.                            *)
EXTENDS Receiver
=============================================================================
