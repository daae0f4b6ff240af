----------------------------- MODULE MCRouting ------------------------------
(* Small instances of Routing for TLC. *)
EXTENDS Routing

CONSTANTS usdc1, usdc2, eth1, usdt

Balance(n, v) == [amount |-> n, value |-> v]

\* Two balances of the token asked for, one of ETH and one of another token.
MCAssets == {usdc1, usdc2, eth1, usdt}
MCDirect == {usdc1, usdc2}
MCGas    == {eth1}

\* A value is in half dollars: one is below the reserve.  One balance has a
\* quote and no tokens.
MCHoldings == {Balance(1, 1), Balance(2, 3), Balance(0, 3)}
MCTargets  == {1, 3, 5, 12}
MCFees     == {-1, 0, 2}
=============================================================================
