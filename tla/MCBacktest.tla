----------------------------- MODULE MCBacktest -----------------------------
(***************************************************************************)
(* Instances of Backtest.                                                  *)
(***************************************************************************)
EXTENDS Backtest

CONSTANTS b1, b2, q

MCDeposits == [a \in {b1, b2, q} |-> IF a = q THEN 6 ELSE 3]

=============================================================================
