------------------------------- MODULE MCBank -------------------------------
(* Workloads of two workers and two accounts for TLC.                      *)
EXTENDS Bank, TLC

CONSTANTS t1, t2, a1, a2

\* Balances relative to the initial one.
Balance == Int

\* Two workers that transfer in opposite directions; one audits in between.
Mixed == (t1 :> <<short_tx(a1, a2), short_tx(a2, a1)>>)
            @@ (t2 :> <<short_tx(a2, a1), long_tx(a1, a2), short_tx(a1, a2)>>)

\* One transfer.
Alone == t1 :> <<short_tx(a1, a2)>>
=============================================================================
