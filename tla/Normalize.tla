----------------------------- MODULE Normalize -----------------------------
(***************************************************************************)
(* The stick arithmetic of the transmitter: radio_data_normalize of        *)
(* Firmware/applications/radio_thread.c maps a reading onto an output      *)
(* range in two linear segments that meet at the middle position.          *)
(***************************************************************************)
EXTENDS Integers

NORM_MIN_VALUE == 1000
NORM_MID_VALUE == 1500
NORM_MAX_VALUE == 2000

\* C's quotient on this core for the operands the function meets: the
\* numerator is never negative, and the RISC-V divider answers -1 to a
\* division by zero instead of trapping.
Quotient(n, d) == IF d = 0 THEN -1 ELSE n \div d

\* Mutant: only the upper end is clamped.
ClampTop(value, lo, hi) == IF value > hi THEN hi ELSE value

\* Both clamps of the function, in its order: with lo > hi the second wins.
Clamp(value, lo, hi) ==
    LET capped == IF value > hi THEN hi ELSE value
    IN  IF capped < lo THEN lo ELSE capped

\* A value at or above the middle takes the upper segment.
Segment(v, lo, mid, hi, outLo, outMid, outHi) ==
    IF v >= mid
    THEN outMid + Quotient((v - mid) * (outHi - outMid), hi - mid)
    ELSE outLo + Quotient((v - lo) * (outMid - outLo), mid - lo)

radio_data_normalize(value, lo, mid, hi, outLo, outMid, outHi) ==
    Segment(Clamp(value, lo, hi), lo, mid, hi, outLo, outMid, outHi)

\* What the radio thread makes of one stick: ROLL and THROTTLE are mirrored.
StickOutput(value, lo, mid, hi, reversed) ==
    LET norm == radio_data_normalize(value, lo, mid, hi,
                    NORM_MIN_VALUE, NORM_MID_VALUE, NORM_MAX_VALUE)
    IN  IF reversed THEN 3000 - norm ELSE norm
=============================================================================
