------------------------------ MODULE Failsafe ------------------------------
(***************************************************************************)
(* What the receiver promises of failsafe, without its threads: a packet   *)
(* ends it, and silence brings it back, in time and not before its time.   *)
(* Module Receiver implements it; RfLink uses it as the receiver.          *)
(***************************************************************************)
EXTENDS Integers

CONSTANTS
    Limit,      \* silence that raises failsafe
    Longest,    \* silence at which it has been raised for certain
    Race        \* a packet this recent may have come inside the check itself

VARIABLES failsafe, silence

Init == failsafe = TRUE /\ silence = Longest + 1

Time ==
    /\ ~failsafe => silence < Longest
    /\ silence' = IF silence > Longest THEN silence ELSE silence + 1
    /\ UNCHANGED failsafe

Heard == failsafe' = FALSE /\ silence' = 0

Raise ==
    /\ silence > Limit \/ silence <= Race
    /\ failsafe' = TRUE
    /\ UNCHANGED silence

Next == Time \/ Heard \/ Raise

Spec == Init /\ [][Next]_<<failsafe, silence>>
=============================================================================
