---------------------------- MODULE MCReference -----------------------------
(* Threads and segments for TLC.                                           *)
EXTENDS ReferenceTM

CONSTANTS t1, t2, t3, w1, s1, s2, s3
=============================================================================
