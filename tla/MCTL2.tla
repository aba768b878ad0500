------------------------------- MODULE MCTL2 --------------------------------
(* Model values and bounds for TLC.                                        *)
EXTENDS TL2Inv, TLC

ThreadSymmetry == Permutations(Thread)
=============================================================================
