---------------------------- MODULE MCFindMinMax ----------------------------
(* A signal is below zero, at zero or above it: swings differ, and its     *)
(* middle is met exactly or passed.                                        *)
EXTENDS FindMinMax

MCSamples == {-8, 0, 8}

(* Never at zero.                                                          *)
MCNonZero == {-8, -4, 8}
=============================================================================
