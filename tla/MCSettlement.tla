---------------------------- MODULE MCSettlement ----------------------------
(* Small instances of Settlement for TLC. *)
EXTENDS Settlement, TLC

CONSTANTS k, K, m, x, y

\* k and K spell one allowance, m is another one.
MCKeys == {k, K, m}
MCSlot == (k :> x) @@ (K :> x) @@ (m :> y)

Need(key, n) == [key |-> key, amount |-> n]

\* No routes; one; two and three that share a key; two keys; two spellings.
MCPlans == {<<>>,
            <<Need(k, 2)>>,
            <<Need(k, 1), Need(k, 2)>>,
            <<Need(k, 2), Need(NoKey, 0), Need(k, 3)>>,
            <<Need(k, 1), Need(m, 2), Need(k, 1)>>,
            <<Need(k, 1), Need(K, 2)>>}
=============================================================================
