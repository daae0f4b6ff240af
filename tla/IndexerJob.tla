----------------------------- MODULE IndexerJob -----------------------------
(***************************************************************************)
(* What one run of the indexer promises: it ends; it replaces the stored   *)
(* estimators of some buckets, each by one fitted to two observations or   *)
(* more, all of them at once, and announces the change after it is stored; *)
(* or it fails and leaves the store alone, or stored and unannounced.      *)
(***************************************************************************)
EXTENDS Naturals

CONSTANTS
    Buckets,    \* buckets of the configuration
    Indices,    \* observation points of a bucket
    Fees        \* fees an observation may show

VARIABLES
    store,      \* bucket -> its stored estimator, the fees it was fitted to
    outcome     \* running, stored, announced or failed

vars == <<store, outcome>>

IsEstimator(e) ==
    /\ DOMAIN e \subseteq Indices
    /\ \E i, j \in DOMAIN e : i # j
    /\ \A i \in DOMAIN e : e[i] \in Fees

Init ==
    /\ store = [b \in Buckets |-> <<>>]
    /\ outcome = "running"

Replace ==
    \E S \in (SUBSET Buckets) \ {{}} :
        /\ DOMAIN store' = Buckets
        /\ \A b \in Buckets :
              IF b \in S THEN IsEstimator(store'[b]) ELSE store'[b] = store[b]

Store ==
    /\ outcome = "running"
    /\ Replace
    /\ outcome' = "stored"

Announce ==
    /\ outcome = "stored"
    /\ outcome' = "announced"
    /\ UNCHANGED store

\* The reply of the store may be lost.
Fail ==
    /\ outcome \in {"running", "stored"}
    /\ outcome' = "failed"
    /\ UNCHANGED store \/ (outcome = "running" /\ Replace)

Next == Store \/ Announce \/ Fail

Spec == Init /\ [][Next]_vars /\ <>(outcome \in {"announced", "failed"})
=============================================================================
