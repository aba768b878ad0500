----------------------------- MODULE MCLifetime -----------------------------
(* Threads and segments for TLC.                                           *)
EXTENDS Lifetime

CONSTANTS t1, t2, t3, s1, s2, s3
=============================================================================
