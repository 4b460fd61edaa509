--------------------------- MODULE MCUserInterface --------------------------
(* One channel of two values on the screen, the three flight modes, and both *)
(* tones that the radio thread asks for.                                     *)
EXTENDS UserInterface
=============================================================================
