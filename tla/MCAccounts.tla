----------------------------- MODULE MCAccounts -----------------------------
(* Workers for TLC.                                                        *)
EXTENDS Accounts

CONSTANTS w1, w2
=============================================================================
