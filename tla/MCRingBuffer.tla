---------------------------- MODULE MCRingBuffer ----------------------------
(* A buffer of four bytes, blocks of up to three: the indices wrap several  *)
(* times, also in the middle of a block and exactly at its end.             *)
EXTENDS RingBuffer
=============================================================================
