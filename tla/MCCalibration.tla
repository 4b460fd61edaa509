--------------------------- MODULE MCCalibration ---------------------------
(***************************************************************************)
(* A small instance of Calibration.  The readings are one below the 100    *)
(* that params_is_valid accepts, the nominal middle and one at the top.    *)
(***************************************************************************)
EXTENDS Calibration

MCAdc == {50, 2500, 4000}
=============================================================================
