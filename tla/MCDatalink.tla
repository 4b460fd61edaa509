----------------------------- MODULE MCDatalink -----------------------------
(***************************************************************************)
(* Bytes below five and frames of each length there is: a plain one of two *)
(* bytes of payload, one of three with the magic in rssi and data, and one *)
(* of the type alone.  Payloads hold three bytes, so a length of four is   *)
(* too long.  A queue of two bytes, shorter than a frame, and a line that  *)
(* loses or changes any byte.                                              *)
(***************************************************************************)
EXTENDS Datalink

MCFrames ==
    {<<0, 2, 1, 2, 1, 1>>, <<0, 1, 0, 3, 1, 0, 0>>,
     <<0, 1, 1, 1, 1>>}
=============================================================================
