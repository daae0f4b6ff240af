---------------------------- MODULE MCTokenPrice ----------------------------
(* Small instances of TokenPrice for TLC. *)
EXTENDS TokenPrice, TLC

CONSTANTS c1, c2, c3, solver, job

\* Two requests of one solver and an indexer job, which share Redis.
MCHome == (c1 :> solver) @@ (c2 :> solver) @@ (c3 :> job)
=============================================================================
