--------------------------- MODULE EstimatorCache ---------------------------
(***************************************************************************)
(* How fitted bridging-cost estimators travel from the indexer job to the  *)
(* in-memory cache of each solver process.                                 *)
(*                                                                         *)
(*   indexer job   builds estimators, stores them in Redis with one MSET,  *)
(*                 then PUBLISHes a message (indexer.rs, run)              *)
(*   Redis         holds estimators (no expiry) next to token prices       *)
(*                 (set with an expiry by the CoinGecko client)            *)
(*   solver        refreshes its cache once at boot and once per message;  *)
(*                 each refresh is a tokio task of its own: KEYS *, one    *)
(*                 MGET per batch of keys, then clear-and-fill under the   *)
(*                 write lock (main.rs, routing_engine.rs, redis_client.rs)*)
(*                                                                         *)
(* An estimator is abstracted to the number of the MSET that wrote it;     *)
(* zero stands for an absent key.  A price key is only live or expired:    *)
(* the routing engine never reads prices from this cache, but KEYS lists   *)
(* them and MGET fails on one that expired in between.                     *)
(***************************************************************************)
EXTENDS Integers, FiniteSets

CONSTANTS
    Solvers,     \* solver processes (k8s replicas)
    Jobs,        \* indexer jobs that may run at once (k8s CronJob)
    Tasks,       \* refresh tasks a solver may have in flight at once (bound)
    Boot,        \* the task that is the refresh awaited before serving
    Buckets,     \* estimator keys
    Prices,      \* token price keys
    BatchSize,   \* keys per MGET (FETCH_REDIS_KEYS_BATCH_SIZE)
    MaxVersion   \* MSETs in a behaviour (bound)

ASSUME CacheAssumption ==
    /\ Boot \in Tasks
    /\ Buckets \cap Prices = {}
    /\ IsFiniteSet(Buckets \cup Prices)
    /\ BatchSize \in Nat \ {0}
    /\ MaxVersion \in Nat

VARIABLES
    store,       \* Redis: bucket -> version of the last MSET that wrote it
    version,     \* number of MSETs so far
    live,        \* Redis: price key -> present
    job,         \* indexer jobs: [pc, built, ver]
    phase,       \* solver process: down, booting or serving
    sub,         \* its subscription thread: connecting, on or dead
    inbox,       \* messages delivered to it and not yet handled
    cache,       \* its estimator cache
    refresh,     \* its refresh tasks: [pc, left, acc]
    base,        \* history: what Redis held when the process started
    excuse       \* history: why its cache may be behind Redis for good

redisVars  == <<store, version, live>>
solverVars == <<phase, sub, inbox, cache, refresh, base, excuse>>
vars       == <<store, version, live, job, phase, sub, inbox, cache,
                refresh, base, excuse>>

Versions == 0 .. MaxVersion
Empty    == [b \in Buckets |-> 0]
IdleTask == [pc |-> "idle", left |-> {}, acc |-> Empty]
NewTask  == [pc |-> "keys", left |-> {}, acc |-> Empty]
IdleJob  == [pc |-> "idle", built |-> {}, ver |-> 0]

\* Why a cache may stay behind Redis with nothing under way to repair it:
\*   unannounced  an MSET took effect and its job never published
\*   missed       a message came while the process was not listening
\*   expired      a refresh hit a price key that expired after KEYS
\*   error        a refresh failed on a Redis error
\*   overtaken    a refresh overwrote the result of one that read later
Excuses == {"unannounced", "missed", "expired", "error", "overtaken"}

TypeOK ==
    /\ store \in [Buckets -> Versions]
    /\ version \in Versions
    /\ live \in [Prices -> BOOLEAN]
    /\ job \in [Jobs -> [pc : {"idle", "built", "stored"},
                         built : SUBSET Buckets, ver : Versions]]
    /\ phase \in [Solvers -> {"down", "booting", "serving"}]
    /\ sub \in [Solvers -> {"connecting", "on", "dead"}]
    /\ inbox \in [Solvers -> Nat]
    /\ cache \in [Solvers -> [Buckets -> Versions]]
    /\ refresh \in [Solvers -> [Tasks ->
                       [pc : {"idle", "keys", "values", "install"},
                        left : SUBSET (Buckets \cup Prices),
                        acc : [Buckets -> Versions]]]]
    /\ base \in [Solvers -> [Buckets -> Versions]]
    /\ excuse \in [Solvers -> SUBSET Excuses]

Init ==
    /\ store = Empty
    /\ version = 0
    /\ live = [p \in Prices |-> FALSE]
    /\ job = [j \in Jobs |-> IdleJob]
    /\ phase = [s \in Solvers |-> "down"]
    /\ sub = [s \in Solvers |-> "dead"]
    /\ inbox = [s \in Solvers |-> 0]
    /\ cache = [s \in Solvers |-> Empty]
    /\ refresh = [s \in Solvers |-> [t \in Tasks |-> IdleTask]]
    /\ base = [s \in Solvers |-> Empty]
    /\ excuse = [s \in Solvers |-> {}]

Up(s) == phase[s] # "down"

-----------------------------------------------------------------------------
(* The indexer job. *)

\* Some buckets yield an estimator, the others are logged and left out.  A
\* run in which none does ends with NoEstimatorsBuilt and changes nothing.
BuildEstimators(j) ==
    /\ job[j].pc = "idle"
    /\ version < MaxVersion
    /\ \E B \in SUBSET Buckets \ {{}} :
          job' = [job EXCEPT ![j] = [pc |-> "built", built |-> B, ver |-> 0]]
    /\ UNCHANGED redisVars
    /\ UNCHANGED solverVars

\* The effect of one MSET of the estimators job j built.
WriteEstimators(j) ==
    /\ job[j].pc = "built"
    /\ version < MaxVersion
    /\ version' = version + 1
    /\ store' = [b \in Buckets |->
                    IF b \in job[j].built THEN version' ELSE store[b]]
    /\ UNCHANGED live

\* A version that will not be announced leaves every running cache behind.
Unannounced ==
    [s \in Solvers |-> IF Up(s) THEN excuse[s] \cup {"unannounced"}
                                ELSE excuse[s]]

StoreEstimators(j) ==
    /\ WriteEstimators(j)
    /\ job' = [job EXCEPT ![j] = [pc    |-> "stored",
                                  built |-> job[j].built,
                                  ver   |-> version']]
    /\ UNCHANGED solverVars

\* MSET took effect but its reply was lost: run returns before publishing.
StoreReplyLost(j) ==
    /\ WriteEstimators(j)
    /\ job' = [job EXCEPT ![j] = IdleJob]
    /\ excuse' = Unannounced
    /\ UNCHANGED <<phase, sub, inbox, cache, refresh, base>>

\* MSET failed, or the job died before it.
StoreFails(j) ==
    /\ job[j].pc = "built"
    /\ job' = [job EXCEPT ![j] = IdleJob]
    /\ UNCHANGED redisVars
    /\ UNCHANGED solverVars

\* PUBLISH reaches the processes subscribed at that moment and no others.
PublishUpdate(j) ==
    /\ job[j].pc = "stored"
    /\ job' = [job EXCEPT ![j] = IdleJob]
    /\ inbox' = [s \in Solvers |->
                    IF Up(s) /\ sub[s] = "on" THEN inbox[s] + 1 ELSE inbox[s]]
    /\ excuse' = [s \in Solvers |->
                    IF Up(s) /\ sub[s] # "on"
                    THEN excuse[s] \cup {"missed"} ELSE excuse[s]]
    /\ UNCHANGED redisVars
    /\ UNCHANGED <<phase, sub, cache, refresh, base>>

\* PUBLISH failed, or the job died between MSET and PUBLISH.
PublishFails(j) ==
    /\ job[j].pc = "stored"
    /\ job' = [job EXCEPT ![j] = IdleJob]
    /\ excuse' = Unannounced
    /\ UNCHANGED redisVars
    /\ UNCHANGED <<phase, sub, inbox, cache, refresh, base>>

-----------------------------------------------------------------------------
(* The solver process. *)

\* run_solver hands the subscription to a blocking thread and starts the
\* first refresh, without waiting for the subscription to be made.
StartSolver(s) ==
    /\ phase[s] = "down"
    /\ phase' = [phase EXCEPT ![s] = "booting"]
    /\ sub' = [sub EXCEPT ![s] = "connecting"]
    /\ refresh' = [refresh EXCEPT ![s][Boot] = NewTask]
    /\ base' = [base EXCEPT ![s] = store]
    /\ UNCHANGED redisVars
    /\ UNCHANGED <<job, inbox, cache, excuse>>

Subscribe(s) ==
    /\ Up(s)
    /\ sub[s] = "connecting"
    /\ sub' = [sub EXCEPT ![s] = "on"]
    /\ UNCHANGED redisVars
    /\ UNCHANGED <<job, phase, inbox, cache, refresh, base, excuse>>

\* subscribe returns an error, at once or later: it is logged and the thread
\* ends.  Nothing subscribes again, and unread messages go with the
\* connection.
SubscriptionEnds(s) ==
    /\ Up(s)
    /\ sub[s] \in {"connecting", "on"}
    /\ sub' = [sub EXCEPT ![s] = "dead"]
    /\ inbox' = [inbox EXCEPT ![s] = 0]
    /\ excuse' = [excuse EXCEPT ![s] =
                     IF inbox[s] > 0 THEN @ \cup {"missed"} ELSE @]
    /\ UNCHANGED redisVars
    /\ UNCHANGED <<job, phase, cache, refresh, base>>

\* Mutants of Notify: it does not wait for a message; it drops a message that
\* comes while a refresh is in flight.
NotifyUnasked(s) ==
    /\ \E t \in Tasks \ {Boot} :
          /\ refresh[s][t].pc = "idle"
          /\ refresh' = [refresh EXCEPT ![s][t] = NewTask]
    /\ inbox' = [inbox EXCEPT ![s] = @ - 1]
    /\ UNCHANGED redisVars
    /\ UNCHANGED <<job, phase, sub, cache, base, excuse>>

NotifyCoalesced(s) ==
    /\ inbox[s] > 0
    /\ IF \E t \in Tasks : refresh[s][t].pc # "idle"
       THEN UNCHANGED refresh
       ELSE \E t \in Tasks \ {Boot} :
               refresh' = [refresh EXCEPT ![s][t] = NewTask]
    /\ inbox' = [inbox EXCEPT ![s] = @ - 1]
    /\ UNCHANGED redisVars
    /\ UNCHANGED <<job, phase, sub, cache, base, excuse>>

\* The callback spawns one refresh per message; refreshes may overlap.
Notify(s) ==
    /\ inbox[s] > 0
    /\ \E t \in Tasks \ {Boot} :
          /\ refresh[s][t].pc = "idle"
          /\ refresh' = [refresh EXCEPT ![s][t] = NewTask]
    /\ inbox' = [inbox EXCEPT ![s] = @ - 1]
    /\ UNCHANGED redisVars
    /\ UNCHANGED <<job, phase, sub, cache, base, excuse>>

\* The process dies: everything it held in memory is gone.
CrashSolver(s) ==
    /\ Up(s)
    /\ phase' = [phase EXCEPT ![s] = "down"]
    /\ sub' = [sub EXCEPT ![s] = "dead"]
    /\ inbox' = [inbox EXCEPT ![s] = 0]
    /\ cache' = [cache EXCEPT ![s] = Empty]
    /\ refresh' = [refresh EXCEPT ![s] = [t \in Tasks |-> IdleTask]]
    /\ base' = [base EXCEPT ![s] = Empty]
    /\ excuse' = [excuse EXCEPT ![s] = {}]
    /\ UNCHANGED redisVars
    /\ UNCHANGED job

-----------------------------------------------------------------------------
(* One refresh: get_all_key_values, then clear-and-fill. *)

Keys == {b \in Buckets : store[b] > 0} \cup {p \in Prices : live[p]}

\* What is asked for next once the keys in L are still to be read.
Step(L) == IF L = {} THEN "install" ELSE "values"

ListKeys(s, t) ==
    /\ refresh[s][t].pc = "keys"
    /\ refresh' = [refresh EXCEPT ![s][t] =
                      [pc |-> Step(Keys), left |-> Keys, acc |-> Empty]]
    /\ UNCHANGED redisVars
    /\ UNCHANGED <<job, phase, sub, inbox, cache, base, excuse>>

\* KEYS returns the keys in no order that means anything: the next chunk is
\* any BatchSize of those left, and the last chunk is what remains.
Chunks(L) ==
    IF Cardinality(L) <= BatchSize
    THEN {L}
    ELSE {C \in SUBSET L : Cardinality(C) = BatchSize}

FetchBatch(s, t) ==
    LET r == refresh[s][t] IN
    /\ r.pc = "values"
    /\ \E C \in Chunks(r.left) :
          /\ \A p \in C \cap Prices : live[p]
          /\ refresh' = [refresh EXCEPT ![s][t] =
                [pc   |-> Step(r.left \ C),
                 left |-> r.left \ C,
                 acc  |-> [b \in Buckets |->
                              IF b \in C THEN store[b] ELSE r.acc[b]]]]
    /\ UNCHANGED redisVars
    /\ UNCHANGED <<job, phase, sub, inbox, cache, base, excuse>>

\* The task ends; if it was the boot refresh, the process starts to serve.
Finish(s, t) ==
    /\ refresh' = [refresh EXCEPT ![s][t] = IdleTask]
    /\ phase' = [phase EXCEPT ![s] = IF t = Boot THEN "serving" ELSE @]

\* refresh_cache logs the error and keeps the cache as it was.
GiveUp(s, t, why) ==
    /\ Finish(s, t)
    /\ excuse' = [excuse EXCEPT ![s] = @ \cup {why}]
    /\ UNCHANGED redisVars
    /\ UNCHANGED <<job, sub, inbox, cache, base>>

\* Mutant of FetchExpired: the keys read so far are installed.
FetchExpiredPartial(s, t) ==
    /\ refresh[s][t].pc = "values"
    /\ \E C \in Chunks(refresh[s][t].left) :
          \E p \in C \cap Prices : ~live[p]
    /\ refresh' = [refresh EXCEPT ![s][t].pc = "install", ![s][t].left = {}]
    /\ UNCHANGED redisVars
    /\ UNCHANGED <<job, phase, sub, inbox, cache, base, excuse>>

\* MGET returns nil for a price that expired after KEYS listed it, nil is not
\* a String, and the whole refresh fails.
FetchExpired(s, t) ==
    /\ refresh[s][t].pc = "values"
    /\ \E C \in Chunks(refresh[s][t].left) :
          \E p \in C \cap Prices : ~live[p]
    /\ GiveUp(s, t, "expired")

RefreshFails(s, t) ==
    /\ refresh[s][t].pc \in {"keys", "values"}
    /\ GiveUp(s, t, "error")

\* Under the write lock: cache.clear(), then insert every pair.
Install(s, t) ==
    LET acc == refresh[s][t].acc IN
    /\ refresh[s][t].pc = "install"
    /\ cache' = [cache EXCEPT ![s] = acc]
    /\ Finish(s, t)
    /\ excuse' = [excuse EXCEPT ![s] =
                     IF acc = store THEN {}
                     ELSE IF \E b \in Buckets : acc[b] < cache[s][b]
                     THEN @ \cup {"overtaken"} ELSE @]
    /\ UNCHANGED redisVars
    /\ UNCHANGED <<job, sub, inbox, base>>

-----------------------------------------------------------------------------
(* Token prices share the database: CoingeckoClient sets them with an      *)
(* expiry, and Redis drops them when it has passed.                        *)

SetPrice(p) ==
    /\ ~live[p]
    /\ live' = [live EXCEPT ![p] = TRUE]
    /\ UNCHANGED <<store, version, job>>
    /\ UNCHANGED solverVars

ExpirePrice(p) ==
    /\ live[p]
    /\ live' = [live EXCEPT ![p] = FALSE]
    /\ UNCHANGED <<store, version, job>>
    /\ UNCHANGED solverVars

-----------------------------------------------------------------------------
JobStep(j) ==
    \/ BuildEstimators(j) \/ StoreEstimators(j) \/ StoreReplyLost(j)
    \/ StoreFails(j) \/ PublishUpdate(j) \/ PublishFails(j)

RefreshStep(s, t) ==
    \/ ListKeys(s, t) \/ FetchBatch(s, t) \/ FetchExpired(s, t)
    \/ RefreshFails(s, t) \/ Install(s, t)

SolverStep(s) ==
    \/ StartSolver(s) \/ Subscribe(s) \/ SubscriptionEnds(s)
    \/ Notify(s) \/ CrashSolver(s)

PriceStep(p) == SetPrice(p) \/ ExpirePrice(p)

Next ==
    \/ \E j \in Jobs : JobStep(j)
    \/ \E s \in Solvers : SolverStep(s)
    \/ \E s \in Solvers, t \in Tasks : RefreshStep(s, t)
    \/ \E p \in Prices : PriceStep(p)

Spec == Init /\ [][Next]_vars

\* A job that stored its estimators goes on to publish or dies; the runtime
\* polls the subscription thread and every spawned task.  Nothing obliges
\* Kubernetes to start or stop a process, or Redis to accept a request.
Fairness ==
    /\ \A j \in Jobs : WF_vars(PublishUpdate(j) \/ PublishFails(j))
    /\ \A s \in Solvers : WF_vars(Notify(s))
    /\ \A s \in Solvers, t \in Tasks : WF_vars(RefreshStep(s, t))

FairSpec == Spec /\ Fairness

-----------------------------------------------------------------------------
(* Properties. *)

\* A refresh of s that is sure to bring b up to date when it is installed.
Repairs(s, b) ==
    \E t \in Tasks :
        LET r == refresh[s][t] IN
        \/ r.pc = "keys"
        \/ r.pc = "values" /\ b \in r.left
        \/ r.pc \in {"values", "install"} /\ r.acc[b] >= store[b]

\* The update of b now in Redis has yet to be announced by its job.
Pending(b) == \E j \in Jobs : job[j].pc = "stored" /\ job[j].ver = store[b]

\* Apart from the causes in Excuses, a running solver that lacks the newest
\* estimator of a bucket has a repair on its way: the job is about to publish,
\* the message is waiting, or a refresh that will read the new value is in
\* flight.  No interleaving of jobs, overlapping refreshes, batched reads and
\* price expiry loses an update silently.
StalenessExplained ==
    \A s \in Solvers, b \in Buckets :
        Up(s) /\ cache[s][b] < store[b]
        => \/ Pending(b)
           \/ inbox[s] > 0
           \/ Repairs(s, b)
           \/ excuse[s] # {}

\* The cache of a process is empty or at least as new, bucket by bucket, as
\* Redis was when the process started: an aborted or overtaken refresh never
\* leaves a partial snapshot behind.
NeverOlderThanBoot ==
    \A s \in Solvers :
        \/ cache[s] = Empty
        \/ \A b \in Buckets : cache[s][b] >= base[s][b]

\* If a process stays up, its cache ends up equal to Redis, or one of the
\* causes in Excuses stands.
Settles ==
    \A s \in Solvers :
        <>[](phase[s] = "serving") => <>[](cache[s] = store \/ excuse[s] # {})
=============================================================================
