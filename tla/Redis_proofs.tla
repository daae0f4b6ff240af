---------------------------- MODULE Redis_proofs ----------------------------
(***************************************************************************)
(* Proofs about what processes share through Redis: the estimators of      *)
(* EstimatorCache, for any number of solvers, jobs, tasks, buckets and     *)
(* prices, any batch size and any bound on the versions, and the prices    *)
(* of TokenPrice, for any number of processes and tasks.                   *)
(***************************************************************************)
EXTENDS EstimatorCache, TokenPrice, TLAPS

-----------------------------------------------------------------------------
(* Type correctness. *)

LEMMA InitType == Init => TypeOK
BY CacheAssumption
   DEF CacheAssumption, Init, TypeOK, Versions, Empty, IdleTask, IdleJob

LEMMA WriteType ==
    ASSUME TypeOK, NEW j \in Jobs, WriteEstimators(j)
    PROVE  /\ store' \in [Buckets -> Versions]
           /\ version' \in Versions
           /\ live' \in [Prices -> BOOLEAN]
BY CacheAssumption
   DEF CacheAssumption, TypeOK, WriteEstimators, Versions

LEMMA JobType ==
    ASSUME TypeOK, NEW j \in Jobs, JobStep(j)
    PROVE  TypeOK'
<1> USE CacheAssumption DEF CacheAssumption, TypeOK, IdleJob, Versions
<1>1. CASE BuildEstimators(j)
    BY <1>1 DEF BuildEstimators, redisVars, solverVars
<1>2. CASE StoreEstimators(j)
    <2>1. /\ store' \in [Buckets -> Versions]
          /\ version' \in Versions
          /\ live' \in [Prices -> BOOLEAN]
        BY <1>2, WriteType DEF StoreEstimators
    <2> QED BY <1>2, <2>1 DEF StoreEstimators, solverVars
<1>3. CASE StoreReplyLost(j)
    BY <1>3, WriteType DEF StoreReplyLost, Unannounced, Excuses
<1>4. CASE StoreFails(j)
    BY <1>4 DEF StoreFails, redisVars, solverVars
<1>5. CASE PublishUpdate(j)
    BY <1>5 DEF PublishUpdate, redisVars, Excuses
<1>6. CASE PublishFails(j)
    BY <1>6 DEF PublishFails, redisVars, Unannounced, Excuses
<1> QED BY <1>1, <1>2, <1>3, <1>4, <1>5, <1>6 DEF JobStep

LEMMA SolverType ==
    ASSUME TypeOK, NEW s \in Solvers, SolverStep(s)
    PROVE  TypeOK'
<1> USE CacheAssumption
    DEF CacheAssumption, TypeOK, redisVars, IdleTask, NewTask, Empty, Versions
<1>1. CASE StartSolver(s)
    BY <1>1 DEF StartSolver
<1>2. CASE Subscribe(s)
    BY <1>2 DEF Subscribe
<1>3. CASE SubscriptionEnds(s)
    BY <1>3 DEF SubscriptionEnds, Excuses
<1>4. CASE Notify(s)
    BY <1>4 DEF Notify
<1>5. CASE CrashSolver(s)
    BY <1>5 DEF CrashSolver
<1> QED BY <1>1, <1>2, <1>3, <1>4, <1>5 DEF SolverStep

LEMMA RefreshType ==
    ASSUME TypeOK, NEW s \in Solvers, NEW t \in Tasks, RefreshStep(s, t)
    PROVE  TypeOK'
<1> USE CacheAssumption
    DEF CacheAssumption, TypeOK, redisVars, IdleTask, Empty, Versions, Finish
<1>1. CASE ListKeys(s, t)
    BY <1>1 DEF ListKeys, Keys, Step
<1>2. CASE FetchBatch(s, t)
    <2>1. PICK C \in Chunks(refresh[s][t].left) :
             refresh' = [refresh EXCEPT ![s][t] =
                [pc   |-> Step(refresh[s][t].left \ C),
                 left |-> refresh[s][t].left \ C,
                 acc  |-> [b \in Buckets |->
                              IF b \in C THEN store[b]
                                         ELSE refresh[s][t].acc[b]]]]
        BY <1>2 DEF FetchBatch
    <2> QED BY <1>2, <2>1 DEF FetchBatch, Step
<1>3. CASE FetchExpired(s, t)
    BY <1>3 DEF FetchExpired, GiveUp, Excuses
<1>4. CASE RefreshFails(s, t)
    BY <1>4 DEF RefreshFails, GiveUp, Excuses
<1>5. CASE Install(s, t)
    BY <1>5 DEF Install, Excuses
<1> QED BY <1>1, <1>2, <1>3, <1>4, <1>5 DEF RefreshStep

LEMMA PriceType ==
    ASSUME TypeOK, NEW p \in Prices, PriceStep(p)
    PROVE  TypeOK'
BY DEF TypeOK, PriceStep, SetPrice, ExpirePrice, solverVars

LEMMA StutterType == TypeOK /\ UNCHANGED vars => TypeOK'
BY DEF TypeOK, vars

\* Every variable keeps its type: in particular the count of undelivered
\* messages never goes below zero and no version passes MaxVersion.
THEOREM TypeCorrect == Spec => []TypeOK
<1>1. TypeOK /\ [Next]_vars => TypeOK'
    BY JobType, SolverType, RefreshType, PriceType, StutterType DEF Next
<1> QED BY InitType, <1>1, PTL DEF Spec

-----------------------------------------------------------------------------
(* A process that is down holds nothing.                                   *)

BlankWhenDown ==
    \A s \in Solvers :
        ~Up(s) => /\ cache[s] = Empty
                  /\ \A t \in Tasks : refresh[s][t].pc = "idle"
                  /\ inbox[s] = 0

LEMMA InitBlank == Init => BlankWhenDown
BY DEF Init, BlankWhenDown, IdleTask

LEMMA StepBlank == TypeOK /\ BlankWhenDown /\ [Next]_vars => BlankWhenDown'
<1> SUFFICES ASSUME TypeOK, BlankWhenDown, [Next]_vars
             PROVE  BlankWhenDown'
    OBVIOUS
<1> USE CacheAssumption DEF CacheAssumption, TypeOK, BlankWhenDown, Up
<1>1. ASSUME NEW j \in Jobs, JobStep(j)
      PROVE  BlankWhenDown'
    BY <1>1 DEF JobStep, BuildEstimators, StoreEstimators, StoreReplyLost,
                StoreFails, PublishUpdate, PublishFails, solverVars
<1>2. ASSUME NEW z \in Solvers, SolverStep(z)
      PROVE  BlankWhenDown'
    <2>1. CASE StartSolver(z)
        BY <2>1 DEF StartSolver
    <2>2. CASE Subscribe(z)
        BY <2>2 DEF Subscribe
    <2>3. CASE SubscriptionEnds(z)
        BY <2>3 DEF SubscriptionEnds
    <2>4. CASE Notify(z)
        BY <2>4 DEF Notify
    <2>5. CASE CrashSolver(z)
        BY <2>5 DEF CrashSolver, IdleTask
    <2> QED BY <1>2, <2>1, <2>2, <2>3, <2>4, <2>5 DEF SolverStep
<1>3. ASSUME NEW z \in Solvers, NEW t \in Tasks, RefreshStep(z, t)
      PROVE  BlankWhenDown'
    <2>1. Up(z)
        BY <1>3 DEF RefreshStep, ListKeys, FetchBatch, FetchExpired,
                    RefreshFails, Install
    <2>2. phase'[z] # "down"
        BY <1>3, <2>1 DEF RefreshStep, ListKeys, FetchBatch, FetchExpired,
                          RefreshFails, Install, GiveUp, Finish
    <2>3. \A s \in Solvers \ {z} :
             /\ phase'[s] = phase[s] /\ cache'[s] = cache[s]
             /\ refresh'[s] = refresh[s] /\ inbox'[s] = inbox[s]
        BY <1>3 DEF RefreshStep, ListKeys, FetchBatch, FetchExpired,
                    RefreshFails, Install, GiveUp, Finish
    <2>4. ASSUME NEW s \in Solvers, phase'[s] = "down"
          PROVE  /\ cache'[s] = Empty
                 /\ \A u \in Tasks : refresh'[s][u].pc = "idle"
                 /\ inbox'[s] = 0
        <3>1. s # z
            BY <2>2, <2>4
        <3>2. phase[s] = "down"
            BY <2>3, <2>4, <3>1
        <3> QED BY <2>3, <3>1, <3>2
    <2>5. Empty' = Empty
        BY DEF Empty
    <2> QED BY <2>4, <2>5
<1>4. ASSUME NEW p \in Prices, PriceStep(p)
      PROVE  BlankWhenDown'
    BY <1>4 DEF PriceStep, SetPrice, ExpirePrice, solverVars
<1>5. CASE UNCHANGED vars
    BY <1>5 DEF vars
<1> QED BY <1>1, <1>2, <1>3, <1>4, <1>5 DEF Next

-----------------------------------------------------------------------------
(* StalenessExplained.  Each lemma takes one solver s and one bucket b.    *)

\* A lag of s at b has one of the listed explanations.
Explained(s, b) ==
    Up(s) /\ cache[s][b] < store[b]
    => Pending(b) \/ inbox[s] > 0 \/ Repairs(s, b) \/ excuse[s] # {}

LEMMA JobExplained ==
    ASSUME TypeOK, NEW j \in Jobs, JobStep(j),
           NEW s \in Solvers, NEW b \in Buckets, Explained(s, b)
    PROVE  Explained(s, b)'
<1> USE DEF TypeOK, Explained, Up, Versions, IdleJob
<1>1. CASE BuildEstimators(j)
    BY <1>1 DEF BuildEstimators, redisVars, solverVars, Pending, Repairs
<1>2. CASE StoreEstimators(j)
    <2>1. CASE b \in job[j].built
        <3>1. Pending(b)'
            BY <1>2, <2>1
               DEF StoreEstimators, WriteEstimators, Pending
        <3> QED BY <3>1
    <2>2. CASE b \notin job[j].built
        <3>1. store'[b] = store[b] /\ job[j].pc = "built"
            BY <1>2, <2>2 DEF StoreEstimators, WriteEstimators
        <3>2. Pending(b) => Pending(b)'
            BY <1>2, <3>1 DEF StoreEstimators, Pending
        <3>3. Repairs(s, b) => Repairs(s, b)'
            BY <1>2, <3>1 DEF StoreEstimators, solverVars, Repairs
        <3> QED BY <1>2, <3>1, <3>2, <3>3 DEF StoreEstimators, solverVars
    <2> QED BY <2>1, <2>2
<1>3. CASE StoreReplyLost(j)
    BY <1>3 DEF StoreReplyLost, Unannounced
<1>4. CASE StoreFails(j)
    BY <1>4 DEF StoreFails, redisVars, solverVars, Pending, Repairs
<1>5. CASE PublishUpdate(j)
    <2>1. CASE Up(s) /\ sub[s] = "on"
        <3>1. inbox'[s] = inbox[s] + 1 /\ inbox[s] \in Nat
            BY <1>5, <2>1 DEF PublishUpdate
        <3>2. inbox'[s] > 0
            BY <3>1
        <3> QED BY <3>2
    <2>2. CASE Up(s) /\ sub[s] # "on"
        <3>1. "missed" \in excuse'[s]
            BY <1>5, <2>2 DEF PublishUpdate
        <3> QED BY <3>1
    <2>3. CASE ~Up(s)
        BY <1>5, <2>3 DEF PublishUpdate
    <2> QED BY <2>1, <2>2, <2>3
<1>6. CASE PublishFails(j)
    BY <1>6 DEF PublishFails, Unannounced
<1> QED BY <1>1, <1>2, <1>3, <1>4, <1>5, <1>6 DEF JobStep

LEMMA SolverExplained ==
    ASSUME TypeOK, NEW z \in Solvers, SolverStep(z),
           NEW s \in Solvers, NEW b \in Buckets, Explained(s, b)
    PROVE  Explained(s, b)'
<1> USE CacheAssumption
    DEF CacheAssumption, TypeOK, Explained, Up, Versions, redisVars, Pending
<1>1. CASE StartSolver(z)
    <2>1. CASE s = z
        BY <1>1, <2>1 DEF StartSolver, Repairs, NewTask
    <2>2. CASE s # z
        BY <1>1, <2>2 DEF StartSolver, Repairs
    <2> QED BY <2>1, <2>2
<1>2. CASE Subscribe(z)
    BY <1>2 DEF Subscribe, Repairs
<1>3. CASE SubscriptionEnds(z)
    BY <1>3 DEF SubscriptionEnds, Repairs
<1>4. CASE Notify(z)
    <2>1. CASE s = z
        BY <1>4, <2>1 DEF Notify, Repairs, NewTask
    <2>2. CASE s # z
        BY <1>4, <2>2 DEF Notify, Repairs
    <2> QED BY <2>1, <2>2
<1>5. CASE CrashSolver(z)
    BY <1>5 DEF CrashSolver, Repairs
<1> QED BY <1>1, <1>2, <1>3, <1>4, <1>5 DEF SolverStep

LEMMA RefreshExplained ==
    ASSUME TypeOK, BlankWhenDown,
           NEW z \in Solvers, NEW t \in Tasks, RefreshStep(z, t),
           NEW s \in Solvers, NEW b \in Buckets, Explained(s, b)
    PROVE  Explained(s, b)'
<1> USE CacheAssumption
    DEF CacheAssumption, TypeOK, Explained, Versions, redisVars, Pending
<1>1. CASE ListKeys(z, t)
    <2>1. Repairs(s, b) => Repairs(s, b)'
        BY <1>1 DEF ListKeys, Repairs, Keys, Step, Empty
    <2> QED BY <1>1, <2>1 DEF ListKeys, Up
<1>2. CASE FetchBatch(z, t)
    <2>1. PICK C \in Chunks(refresh[z][t].left) :
             refresh' = [refresh EXCEPT ![z][t] =
                [pc   |-> Step(refresh[z][t].left \ C),
                 left |-> refresh[z][t].left \ C,
                 acc  |-> [x \in Buckets |->
                              IF x \in C THEN store[x]
                                         ELSE refresh[z][t].acc[x]]]]
        BY <1>2 DEF FetchBatch
    <2>2. Repairs(s, b) => Repairs(s, b)'
        BY <1>2, <2>1 DEF FetchBatch, Repairs, Step
    <2> QED BY <1>2, <2>2 DEF FetchBatch, Up
<1>3. CASE FetchExpired(z, t)
    BY <1>3 DEF FetchExpired, GiveUp, Finish, Repairs, Up
<1>4. CASE RefreshFails(z, t)
    BY <1>4 DEF RefreshFails, GiveUp, Finish, Repairs, Up
<1>5. CASE Install(z, t)
    <2>1. CASE s # z
        BY <1>5, <2>1 DEF Install, Finish, Repairs, Up
    <2>2. CASE s = z /\ refresh[s][t].acc = store
        BY <1>5, <2>2 DEF Install, Up
    <2>3. CASE /\ s = z
               /\ refresh[s][t].acc # store
               /\ \E x \in Buckets : refresh[s][t].acc[x] < cache[s][x]
        BY <1>5, <2>3 DEF Install
    <2>4. CASE /\ s = z
               /\ refresh[s][t].acc # store
               /\ ~ \E x \in Buckets : refresh[s][t].acc[x] < cache[s][x]
        <3>1. cache'[s][b] = refresh[s][t].acc[b]
            BY <1>5, <2>4 DEF Install
        <3>2. cache[s][b] <= refresh[s][t].acc[b]
            BY <2>4
        <3>3. excuse'[s] = excuse[s]
            BY <1>5, <2>4 DEF Install
        <3>4. Repairs(s, b) /\ refresh[s][t].acc[b] < store[b]
              => Repairs(s, b)'
            BY <1>5, <2>4 DEF Install, Finish, Repairs
        <3>5. Up(s)
            BY <1>5, <2>4 DEF Install, BlankWhenDown
        <3> QED BY <1>5, <2>4, <3>1, <3>2, <3>3, <3>4, <3>5 DEF Install
    <2> QED BY <2>1, <2>2, <2>3, <2>4
<1> QED BY <1>1, <1>2, <1>3, <1>4, <1>5 DEF RefreshStep

\* No update is lost silently: whatever a running solver lacks is about to be
\* announced, announced, being read, or lost for a cause in Excuses.
THEOREM LagExplained == Spec => []StalenessExplained
<1> DEFINE Inv == TypeOK /\ BlankWhenDown /\ StalenessExplained
<1>1. Init => Inv
    BY InitType, InitBlank DEF Init, StalenessExplained, Up
<1>2. Inv /\ [Next]_vars => Inv'
    <2> SUFFICES ASSUME Inv, [Next]_vars
                 PROVE  Inv'
        OBVIOUS
    <2>1. TypeOK' /\ BlankWhenDown'
        BY StepBlank, JobType, SolverType, RefreshType, PriceType, StutterType
           DEF Next
    <2>2. ASSUME NEW s \in Solvers, NEW b \in Buckets
          PROVE  Explained(s, b)'
        <3>1. Explained(s, b)
            BY DEF StalenessExplained, Explained
        <3>2. CASE \E j \in Jobs : JobStep(j)
            BY <3>1, <3>2, JobExplained
        <3>3. CASE \E z \in Solvers : SolverStep(z)
            BY <3>1, <3>3, SolverExplained
        <3>4. CASE \E z \in Solvers, t \in Tasks : RefreshStep(z, t)
            BY <3>1, <3>4, RefreshExplained
        <3>5. CASE \E p \in Prices : PriceStep(p)
            BY <3>1, <3>5 DEF PriceStep, SetPrice, ExpirePrice, solverVars,
                              Explained, Up, Pending, Repairs
        <3>6. CASE UNCHANGED vars
            BY <3>1, <3>6 DEF vars, Explained, Up, Pending, Repairs
        <3> QED BY <3>2, <3>3, <3>4, <3>5, <3>6 DEF Next
    <2> QED BY <2>1, <2>2 DEF StalenessExplained, Explained
<1> QED BY <1>1, <1>2, PTL DEF Spec

-----------------------------------------------------------------------------
(* NeverOlderThanBoot.  Redis only moves forward, and what a refresh has   *)
(* gathered so far is no older than Redis was when its process started.    *)

StoreBound == \A b \in Buckets : store[b] <= version

BaseBound == \A s \in Solvers, b \in Buckets : base[s][b] <= store[b]

SnapshotFloor ==
    \A s \in Solvers, t \in Tasks, b \in Buckets :
        LET r == refresh[s][t] IN
        /\ r.pc = "values" => b \in r.left \/ r.acc[b] >= base[s][b]
        /\ r.pc = "install" => r.acc[b] >= base[s][b]

Floors == StoreBound /\ BaseBound /\ SnapshotFloor /\ NeverOlderThanBoot

LEMMA InitFloors == Init => Floors
BY CacheAssumption
   DEF CacheAssumption, Init, Floors, StoreBound, BaseBound, SnapshotFloor,
       NeverOlderThanBoot, Empty, IdleTask

\* Redis moves forward and only a job writes to it.
LEMMA WriteForward ==
    ASSUME TypeOK, StoreBound, NEW j \in Jobs, WriteEstimators(j)
    PROVE  /\ StoreBound'
           /\ \A b \in Buckets : store[b] <= store'[b]
BY CacheAssumption
   DEF CacheAssumption, TypeOK, Versions, StoreBound, WriteEstimators

LEMMA JobFloors ==
    ASSUME TypeOK, Floors, NEW j \in Jobs, JobStep(j)
    PROVE  Floors'
<1>1. base' = base /\ cache' = cache /\ refresh' = refresh
    BY DEF JobStep, BuildEstimators, StoreEstimators, StoreReplyLost,
           StoreFails, PublishUpdate, PublishFails, solverVars
<1>2. /\ StoreBound'
      /\ \A b \in Buckets : store[b] <= store'[b]
    <2>1. CASE WriteEstimators(j)
        BY <2>1, WriteForward DEF Floors
    <2>2. CASE UNCHANGED <<store, version>>
        BY <2>2 DEF Floors, StoreBound, TypeOK, Versions
    <2> QED BY <2>1, <2>2
            DEF JobStep, BuildEstimators, StoreEstimators, StoreReplyLost,
                StoreFails, PublishUpdate, PublishFails, redisVars
<1>3. store' \in [Buckets -> Versions]
    BY JobType DEF TypeOK
<1>4. BaseBound'
    BY <1>1, <1>2, <1>3, CacheAssumption
       DEF CacheAssumption, Floors, BaseBound, TypeOK, Versions
<1>5. SnapshotFloor' /\ NeverOlderThanBoot'
    BY <1>1 DEF Floors, SnapshotFloor, NeverOlderThanBoot, Empty
<1> QED BY <1>2, <1>4, <1>5 DEF Floors

LEMMA SolverFloors ==
    ASSUME TypeOK, BlankWhenDown, Floors, NEW z \in Solvers, SolverStep(z)
    PROVE  Floors'
<1> USE CacheAssumption DEF CacheAssumption, TypeOK, Versions, Floors
<1>1. StoreBound'
    BY DEF SolverStep, StartSolver, Subscribe, SubscriptionEnds, Notify,
           CrashSolver, redisVars, StoreBound
<1>2. BaseBound'
    BY DEF SolverStep, StartSolver, Subscribe, SubscriptionEnds, Notify,
           CrashSolver, redisVars, BaseBound, Empty
<1>3. SnapshotFloor'
    <2>1. CASE StartSolver(z)
        BY <2>1 DEF StartSolver, SnapshotFloor, NewTask, BlankWhenDown, Up
    <2>2. CASE Subscribe(z) \/ SubscriptionEnds(z)
        BY <2>2 DEF Subscribe, SubscriptionEnds, SnapshotFloor
    <2>3. CASE Notify(z)
        BY <2>3 DEF Notify, SnapshotFloor, NewTask
    <2>4. CASE CrashSolver(z)
        BY <2>4 DEF CrashSolver, SnapshotFloor, IdleTask
    <2> QED BY <2>1, <2>2, <2>3, <2>4 DEF SolverStep
<1>4. NeverOlderThanBoot'
    <2>1. CASE StartSolver(z)
        BY <2>1 DEF StartSolver, NeverOlderThanBoot, BlankWhenDown, Up, Empty
    <2>2. CASE Subscribe(z) \/ SubscriptionEnds(z) \/ Notify(z)
        BY <2>2 DEF Subscribe, SubscriptionEnds, Notify, NeverOlderThanBoot,
                    Empty
    <2>3. CASE CrashSolver(z)
        BY <2>3 DEF CrashSolver, NeverOlderThanBoot, Empty
    <2> QED BY <2>1, <2>2, <2>3 DEF SolverStep
<1> QED BY <1>1, <1>2, <1>3, <1>4

LEMMA RefreshFloors ==
    ASSUME TypeOK, Floors, NEW z \in Solvers, NEW t \in Tasks,
           RefreshStep(z, t)
    PROVE  Floors'
<1> USE CacheAssumption DEF CacheAssumption, TypeOK, Versions, Floors
<1>1. base' = base /\ store' = store /\ version' = version
    BY DEF RefreshStep, ListKeys, FetchBatch, FetchExpired, RefreshFails,
           Install, GiveUp, redisVars
<1>2. StoreBound' /\ BaseBound'
    BY <1>1 DEF StoreBound, BaseBound
<1>3. CASE ListKeys(z, t)
    <2>1. SnapshotFloor'
        BY <1>1, <1>3 DEF ListKeys, SnapshotFloor, BaseBound, Keys, Step,
                          Empty
    <2>2. NeverOlderThanBoot'
        BY <1>3 DEF ListKeys, NeverOlderThanBoot, Empty
    <2> QED BY <1>2, <2>1, <2>2
<1>4. CASE FetchBatch(z, t)
    <2>1. PICK C \in Chunks(refresh[z][t].left) :
             refresh' = [refresh EXCEPT ![z][t] =
                [pc   |-> Step(refresh[z][t].left \ C),
                 left |-> refresh[z][t].left \ C,
                 acc  |-> [x \in Buckets |->
                              IF x \in C THEN store[x]
                                         ELSE refresh[z][t].acc[x]]]]
        BY <1>4 DEF FetchBatch
    <2>2. SnapshotFloor'
        BY <1>1, <1>4, <2>1 DEF FetchBatch, SnapshotFloor, BaseBound, Step
    <2>3. NeverOlderThanBoot'
        BY <1>4 DEF FetchBatch, NeverOlderThanBoot, Empty
    <2> QED BY <1>2, <2>2, <2>3
<1>5. CASE FetchExpired(z, t) \/ RefreshFails(z, t)
    <2>1. SnapshotFloor'
        <3>1. refresh' = [refresh EXCEPT ![z][t] = IdleTask]
            BY <1>5 DEF FetchExpired, RefreshFails, GiveUp, Finish
        <3> QED BY <1>1, <3>1 DEF SnapshotFloor, IdleTask
    <2>2. NeverOlderThanBoot'
        BY <1>5 DEF FetchExpired, RefreshFails, GiveUp, NeverOlderThanBoot,
                    Empty
    <2> QED BY <1>2, <2>1, <2>2
<1>6. CASE Install(z, t)
    <2>1. SnapshotFloor'
        BY <1>1, <1>6 DEF Install, Finish, SnapshotFloor, IdleTask
    <2>2. NeverOlderThanBoot'
        BY <1>1, <1>6 DEF Install, SnapshotFloor, NeverOlderThanBoot, Empty
    <2> QED BY <1>2, <2>1, <2>2
<1> QED BY <1>3, <1>4, <1>5, <1>6 DEF RefreshStep

\* No aborted, torn or overtaken refresh takes the cache of a process behind
\* the contents of Redis when that process started.
THEOREM BootIsFloor == Spec => []NeverOlderThanBoot
<1> DEFINE Inv == TypeOK /\ BlankWhenDown /\ Floors
<1>1. Init => Inv
    BY InitType, InitBlank, InitFloors
<1>2. Inv /\ [Next]_vars => Inv'
    <2> SUFFICES ASSUME Inv, [Next]_vars
                 PROVE  Inv'
        OBVIOUS
    <2>1. TypeOK' /\ BlankWhenDown'
        BY StepBlank, JobType, SolverType, RefreshType, PriceType, StutterType
           DEF Next
    <2>2. ASSUME UNCHANGED <<store, version, base, cache, refresh>>
          PROVE  Floors'
        BY <2>2 DEF Floors, StoreBound, BaseBound, SnapshotFloor,
                    NeverOlderThanBoot, Empty
    <2>3. Floors'
        <3>1. CASE \E p \in Prices : PriceStep(p)
            BY <2>2, <3>1 DEF PriceStep, SetPrice, ExpirePrice, solverVars
        <3>2. CASE UNCHANGED vars
            BY <2>2, <3>2 DEF vars
        <3> QED BY <3>1, <3>2, JobFloors, SolverFloors, RefreshFloors
                DEF Next
    <2> QED BY <2>1, <2>3
<1>3. Inv => NeverOlderThanBoot
    BY DEF Floors
<1> QED BY <1>1, <1>2, <1>3, PTL DEF Spec

-----------------------------------------------------------------------------
(* Token prices. *)

AtWork == {"read", "fetch", "store", "return"}

Calls == [pc : {"idle", "wait", "read", "fetch", "store", "return"},
          token : Tokens, quote : Quotes, since : Times, blind : BOOLEAN]

\* A stored price is no older than its remaining life allows, and outlives
\* what any process stored before it.
StoreOK ==
    /\ \A t \in Tokens :
          stored[t].quote >= stored[t].until - Expiry - Delay
    /\ \A p \in Processes, t \in Tokens :
          /\ last[p][t] <= now
          /\ stored[t].until >= last[p][t] + Expiry

\* What is known of a call r of process p, other than who holds the mutex.
Known(r, p) ==
    /\ r.pc \in AtWork => now - r.since <= Delay
    /\ r.pc = "store" => r.quote = r.since
    /\ r.pc = "return" => r.quote >= r.since - Expiry - Delay
    /\ r.pc = "fetch" /\ ~r.blind => now - last[p][r.token] >= Expiry

CallsOK ==
    \A c \in Callers :
        /\ Known(call[c], Home[c])
        /\ call[c].pc \in AtWork => holder[Home[c]] = c

IInv == PriceTypeOK /\ StoreOK /\ CallsOK

LEMMA CallType ==
    ASSUME now \in Times,
           NEW pc \in {"idle", "wait", "read", "fetch", "store", "return"},
           NEW t \in Tokens, NEW q \in Quotes, NEW b \in BOOLEAN
    PROVE  Call(pc, t, q, b) \in Calls
<1>1. (IF pc \in {"idle", "wait"} THEN 0 ELSE now) \in Times
  BY PriceAssumption DEF PriceAssumption, Times
<1> QED
  BY <1>1 DEF Call, Calls

LEMMA NeverIsQuote == Never \in Quotes
  BY PriceAssumption DEF Never, Quotes

LEMMA TypeCalls == PriceTypeOK => call \in [Callers -> Calls]
  BY DEF PriceTypeOK, Calls

LEMMA InitInv == PriceInit => IInv
<1> SUFFICES ASSUME PriceInit PROVE IInv
  OBVIOUS
<1> USE PriceAssumption
<1>1. now = 0 /\ now \in Times
  BY DEF PriceInit, Times
<1>2. PICK t \in Tokens : call = [c \in Callers |-> Call("idle", t, Never, FALSE)]
  BY DEF PriceInit
<1>3. call \in [Callers -> Calls]
  BY <1>1, <1>2, CallType, NeverIsQuote
<1>4. PriceTypeOK
  <2>1. [quote |-> Never, until |-> 0]
            \in [quote : Quotes, until : 0 .. MaxTime + Expiry]
    BY NeverIsQuote
  <2>2. stored \in [Tokens -> [quote : Quotes, until : 0 .. MaxTime + Expiry]]
    BY <2>1 DEF PriceInit
  <2>3. last \in [Processes -> [Tokens -> Quotes]]
    BY NeverIsQuote DEF PriceInit
  <2>4. holder \in [Processes -> Callers \cup {Nobody}]
    BY DEF PriceInit
  <2> QED
    BY <1>1, <1>3, <2>2, <2>3, <2>4 DEF PriceTypeOK, Calls
<1>5. StoreOK
  BY <1>1 DEF PriceInit, StoreOK, Never
<1>6. CallsOK
  <2> SUFFICES ASSUME NEW c \in Callers
               PROVE  call[c].pc = "idle"
    BY DEF CallsOK, Known, AtWork
  <2> QED
    BY <1>2 DEF Call
<1> QED
  BY <1>4, <1>5, <1>6 DEF IInv

\* A step that gives one caller a new call and touches neither the clock nor
\* Redis preserves the invariant, if what is known of the new call holds and
\* no other caller loses the mutex.
LEMMA OneCall ==
    ASSUME IInv, NEW c \in Callers, NEW r \in Calls,
           call' = [call EXCEPT ![c] = r],
           UNCHANGED <<now, stored, last>>,
           holder' \in [Processes -> Callers \cup {Nobody}],
           Known(r, Home[c]),
           r.pc \in AtWork => holder'[Home[c]] = c,
           \A d \in Callers \ {c} :
               call[d].pc \in AtWork => holder'[Home[d]] = d
    PROVE  IInv'
<1>1. call \in [Callers -> Calls]
  BY TypeCalls DEF IInv
<1>2. call' \in [Callers -> Calls]
  BY <1>1
<1>3. PriceTypeOK'
  BY <1>2 DEF IInv, PriceTypeOK, Calls
<1>4. StoreOK'
  BY DEF IInv, StoreOK
<1>5. CallsOK'
  <2> SUFFICES ASSUME NEW d \in Callers
               PROVE  /\ Known(call[d], Home[d])'
                      /\ (call[d].pc \in AtWork => holder[Home[d]] = d)'
    BY DEF CallsOK
  <2>1. CASE d = c
    <3>1. call'[d] = r
      BY <1>1, <2>1
    <3> QED
      BY <2>1, <3>1 DEF Known, AtWork
  <2>2. CASE d # c
    <3>1. call'[d] = call[d]
      BY <1>1, <2>2
    <3> QED
      BY <2>2, <3>1 DEF IInv, CallsOK, Known, AtWork
  <2> QED
    BY <2>1, <2>2
<1> QED
  BY <1>3, <1>4, <1>5 DEF IInv

\* The same for a step that leaves the mutexes alone.
LEMMA OneCallSameHolder ==
    ASSUME IInv, NEW c \in Callers, NEW r \in Calls,
           call' = [call EXCEPT ![c] = r],
           UNCHANGED <<now, stored, holder, last>>,
           Known(r, Home[c]),
           r.pc \in AtWork => call[c].pc \in AtWork
    PROVE  IInv'
<1>1. holder' \in [Processes -> Callers \cup {Nobody}]
  BY DEF IInv, PriceTypeOK
<1>2. \A d \in Callers : call[d].pc \in AtWork => holder'[Home[d]] = d
  BY DEF IInv, CallsOK
<1> QED
  BY <1>1, <1>2, OneCall

LEMMA ReleaseInv ==
    ASSUME IInv, NEW c \in Callers, Release(c)
    PROVE  IInv'
<1> DEFINE r == Call("idle", MyToken(c), Never, FALSE)
<1>1. now \in Times /\ call[c].token \in Tokens
  BY DEF IInv, PriceTypeOK
<1>2. r \in Calls
  BY <1>1, CallType, NeverIsQuote DEF MyToken
<1>3. r.pc = "idle"
  BY DEF Call
<1>4. holder' \in [Processes -> Callers \cup {Nobody}]
  BY PriceAssumption DEF IInv, PriceTypeOK, Release
<1>5. ASSUME NEW d \in Callers \ {c}, call[d].pc \in AtWork
      PROVE  holder'[Home[d]] = d
  <2>1. holder[Home[d]] = d /\ Home[d] \in Processes
    BY <1>5, PriceAssumption DEF IInv, CallsOK
  <2> QED
    BY <2>1 DEF IInv, PriceTypeOK, Release
<1>6. Known(r, Home[c])
  BY <1>3 DEF Known, AtWork
<1>7. call' = [call EXCEPT ![c] = r] /\ UNCHANGED <<now, stored, last>>
  BY DEF Release
<1> HIDE DEF r
<1> QED
  BY <1>2, <1>3, <1>4, <1>5, <1>6, <1>7, OneCall DEF AtWork

LEMMA StoreInv ==
    ASSUME IInv, NEW c \in Callers, Store(c)
    PROVE  IInv'
<1> DEFINE t == MyToken(c)
           r == Call("return", t, call[c].quote, FALSE)
<1> USE PriceAssumption
<1>1. /\ now \in Nat /\ now \in Times /\ t \in Tokens
      /\ call[c].quote \in Quotes
      /\ call \in [Callers -> Calls] /\ Home[c] \in Processes
  BY DEF IInv, PriceTypeOK, Calls, MyToken, Times
<1>2. /\ call[c].pc = "store" /\ call[c].quote = call[c].since
      /\ now - call[c].since <= Delay /\ holder[Home[c]] = c
  BY DEF Store, IInv, CallsOK, Known, AtWork
<1>3. r \in Calls
  BY <1>1, CallType
<1>4. r.pc = "return" /\ r.quote = call[c].quote /\ r.since = now
  BY DEF Call
<1>5. /\ stored' = [stored EXCEPT ![t] = [quote |-> call[c].quote,
                                          until |-> now + Expiry]]
      /\ last' = [last EXCEPT ![Home[c]][t] = now]
      /\ call' = [call EXCEPT ![c] = r]
      /\ now' = now /\ holder' = holder
  BY DEF Store, Written
<1> HIDE DEF r, t
<1>6. call' \in [Callers -> Calls]
  BY <1>1, <1>3, <1>5
<1>7. /\ stored \in [Tokens -> [quote : Quotes, until : 0 .. MaxTime + Expiry]]
      /\ last \in [Processes -> [Tokens -> Quotes]]
  BY DEF IInv, PriceTypeOK
<1>8. stored' \in [Tokens -> [quote : Quotes, until : 0 .. MaxTime + Expiry]]
  <2>1. now + Expiry \in 0 .. MaxTime + Expiry
    BY <1>1 DEF Times
  <2> QED
    BY <1>1, <1>5, <1>7, <2>1
<1>9. last' \in [Processes -> [Tokens -> Quotes]]
  <2>1. now \in Quotes
    BY <1>1 DEF Times, Quotes, Never
  <2> QED
    BY <1>1, <1>5, <1>7, <2>1
<1>10. PriceTypeOK'
  BY <1>5, <1>6, <1>8, <1>9 DEF IInv, PriceTypeOK, Calls
<1>11. call[c].quote \in Int /\ call[c].quote >= now - Delay
  BY <1>1, <1>2 DEF Quotes, Never
<1>12. /\ \A u \in Tokens : stored'[u].quote \in Int /\ stored[u].until \in Int
       /\ \A p \in Processes, u \in Tokens : last[p][u] \in Int
  BY <1>7, <1>8 DEF Quotes, Never
<1>13. StoreOK'
  <2>1. ASSUME NEW u \in Tokens
        PROVE  stored'[u].quote >= stored'[u].until - Expiry - Delay
    <3>1. CASE u = t
      BY <1>1, <1>5, <1>7, <1>11, <3>1
    <3>2. CASE u # t
      BY <1>5, <1>7, <3>2 DEF IInv, StoreOK
    <3> QED
      BY <3>1, <3>2
  <2>2. ASSUME NEW p \in Processes, NEW u \in Tokens
        PROVE  last'[p][u] <= now /\ stored'[u].until >= last'[p][u] + Expiry
    <3>1. last'[p][u] = IF p = Home[c] /\ u = t THEN now ELSE last[p][u]
      BY <1>1, <1>5, <1>7
    <3>2. last[p][u] <= now /\ stored[u].until >= last[p][u] + Expiry
      BY DEF IInv, StoreOK
    <3>3. CASE u = t
      <4>1. stored'[u].until = now + Expiry
        BY <1>5, <1>7, <3>3
      <4> QED
        BY <1>1, <1>12, <3>1, <3>2, <4>1
    <3>4. CASE u # t
      <4>1. stored'[u] = stored[u]
        BY <1>5, <1>7, <3>4
      <4> QED
        BY <3>1, <3>2, <3>4, <4>1
    <3> QED
      BY <3>3, <3>4
  <2> QED
    BY <1>5, <2>1, <2>2 DEF StoreOK
<1>14. CallsOK'
  <2> SUFFICES ASSUME NEW d \in Callers
               PROVE  /\ Known(call[d], Home[d])'
                      /\ (call[d].pc \in AtWork => holder[Home[d]] = d)'
    BY DEF CallsOK
  <2>1. CASE d = c
    <3>1. call'[d] = r
      BY <1>1, <1>5, <2>1
    <3> QED
      BY <1>1, <1>2, <1>4, <1>5, <1>11, <2>1, <3>1 DEF Known, AtWork
  <2>2. CASE d # c
    <3>1. call'[d] = call[d]
      BY <1>1, <1>5, <2>2
    <3>2. Known(call[d], Home[d])
          /\ (call[d].pc \in AtWork => holder[Home[d]] = d)
      BY DEF IInv, CallsOK
    <3>3. ASSUME call[d].pc = "fetch"
          PROVE  last'[Home[d]] = last[Home[d]]
      \* d holds the mutex of its process, and c that of another one.
      <4>1. Home[d] # Home[c]
        BY <1>2, <2>2, <3>2, <3>3 DEF AtWork
      <4> QED
        BY <1>5, <1>7, <4>1
    <3> QED
      BY <1>5, <3>1, <3>2, <3>3 DEF Known, AtWork
  <2> QED
    BY <2>1, <2>2
<1> QED
  BY <1>10, <1>13, <1>14 DEF IInv

LEMMA TickInv ==
    ASSUME IInv, Tick
    PROVE  IInv'
<1> USE PriceAssumption
<1>1. /\ now \in Nat /\ now' = now + 1 /\ now < MaxTime
      /\ UNCHANGED <<stored, holder, call, last>>
  BY DEF Tick, IInv, PriceTypeOK, Times
<1>2. PriceTypeOK'
  BY <1>1 DEF IInv, PriceTypeOK, Times
<1>3. \A p \in Processes, t \in Tokens : last[p][t] \in Int
  BY DEF IInv, PriceTypeOK, Quotes, Never
<1>4. StoreOK'
  BY <1>1, <1>3 DEF IInv, StoreOK
<1>5. CallsOK'
  <2> SUFFICES ASSUME NEW c \in Callers
               PROVE  /\ Known(call[c], Home[c])'
                      /\ (call[c].pc \in AtWork => holder[Home[c]] = c)'
    BY DEF CallsOK
  <2>1. /\ call[c].since \in Nat /\ call[c].token \in Tokens
        /\ Home[c] \in Processes
    BY DEF IInv, PriceTypeOK, Times
  <2>2. call[c].pc \in AtWork => now - call[c].since < Delay
    BY DEF Tick, AtWork
  <2>3. Known(call[c], Home[c])
        /\ (call[c].pc \in AtWork => holder[Home[c]] = c)
    BY DEF IInv, CallsOK
  <2> QED
    BY <1>1, <1>3, <2>1, <2>2, <2>3 DEF Known, AtWork
<1> QED
  BY <1>2, <1>4, <1>5 DEF IInv

LEMMA CallerInv ==
    ASSUME IInv, NEW c \in Callers, Ask(c) \/ Acquire(c) \/ CallStep(c) \/ Cancel(c)
    PROVE  IInv'
<1> USE PriceAssumption
<1>1. /\ now \in Times /\ now \in Nat /\ call[c].token \in Tokens
      /\ call \in [Callers -> Calls] /\ Home[c] \in Processes
  BY DEF IInv, PriceTypeOK, Calls, Times
<1>2. CASE Ask(c)
  <2>1. PICK t \in Tokens :
            call' = [call EXCEPT ![c] = Call("wait", t, Never, FALSE)]
    BY <1>2 DEF Ask
  <2> DEFINE r == Call("wait", t, Never, FALSE)
  <2>2. r \in Calls /\ r.pc = "wait"
    BY <1>1, CallType, NeverIsQuote DEF Call
  <2>3. Known(r, Home[c]) /\ r.pc \notin AtWork
    BY <2>2 DEF Known, AtWork
  <2>4. UNCHANGED <<now, stored, holder, last>>
    BY <1>2 DEF Ask
  <2> HIDE DEF r
  <2> QED
    BY <2>1, <2>2, <2>3, <2>4, OneCallSameHolder DEF r
<1>3. CASE Acquire(c)
  <2> DEFINE r == Call("read", MyToken(c), Never, FALSE)
  <2>1. r \in Calls /\ r.pc = "read" /\ r.since = now
    BY <1>1, CallType, NeverIsQuote DEF Call, MyToken
  <2>3. /\ call' = [call EXCEPT ![c] = r]
        /\ holder' = [holder EXCEPT ![Home[c]] = c]
        /\ holder[Home[c]] = Nobody
        /\ UNCHANGED <<now, stored, last>>
    BY <1>3 DEF Acquire
  <2>4. holder' \in [Processes -> Callers \cup {Nobody}]
        /\ holder'[Home[c]] = c
    BY <1>1, <2>3 DEF IInv, PriceTypeOK
  <2>5. ASSUME NEW d \in Callers \ {c}, call[d].pc \in AtWork
        PROVE  holder'[Home[d]] = d
    <3>1. holder[Home[d]] = d /\ Home[d] \in Processes
      BY <2>5 DEF IInv, CallsOK
    <3>2. Home[d] # Home[c]
      BY <2>3, <3>1
    <3> QED
      BY <2>3, <3>1, <3>2 DEF IInv, PriceTypeOK
  <2> HIDE DEF r
  <2>2. Known(r, Home[c])
    BY <1>1, <2>1 DEF Known
  <2> QED
    BY <2>1, <2>2, <2>3, <2>4, <2>5, OneCall
<1>4. CASE Hit(c)
  <2> DEFINE q == stored[MyToken(c)].quote
             r == Call("return", MyToken(c), q, FALSE)
  <2>1. /\ q \in Quotes /\ stored[MyToken(c)].until \in Int
        /\ q >= stored[MyToken(c)].until - Expiry - Delay
        /\ now < stored[MyToken(c)].until
    BY <1>1, <1>4 DEF IInv, PriceTypeOK, StoreOK, MyToken, Hit, Live
  <2>2. r \in Calls
    BY <1>1, <2>1, CallType DEF MyToken
  <2>3. r.pc = "return" /\ r.since = now /\ r.quote = q
    BY DEF Call
  <2>4. q \in Int
    BY <2>1 DEF Quotes, Never
  <2>6. /\ call' = [call EXCEPT ![c] = r]
        /\ call[c].pc \in AtWork
        /\ UNCHANGED <<now, stored, holder, last>>
    BY <1>4 DEF Hit, AtWork
  <2> HIDE DEF r
  <2>5. Known(r, Home[c])
    BY <1>1, <2>1, <2>3, <2>4 DEF Known
  <2> QED
    BY <2>2, <2>5, <2>6, OneCallSameHolder
<1>5. CASE Miss(c)
  <2> DEFINE r == Call("fetch", MyToken(c), Never, FALSE)
  <2>1. r \in Calls
    BY <1>1, CallType, NeverIsQuote DEF MyToken
  <2>2. r.pc = "fetch" /\ r.since = now /\ r.token = call[c].token
    BY DEF Call, MyToken
  <2>3. /\ stored[call[c].token].until <= now
        /\ stored[call[c].token].until \in Int
    BY <1>1, <1>5 DEF Miss, Live, MyToken, IInv, PriceTypeOK
  <2>4. /\ last[Home[c]][call[c].token] \in Int
        /\ stored[call[c].token].until
              >= last[Home[c]][call[c].token] + Expiry
    BY <1>1 DEF IInv, PriceTypeOK, StoreOK, Quotes, Never
  <2>6. /\ call' = [call EXCEPT ![c] = r]
        /\ call[c].pc \in AtWork
        /\ UNCHANGED <<now, stored, holder, last>>
    BY <1>5 DEF Miss, AtWork
  <2> HIDE DEF r
  <2>5. Known(r, Home[c])
    BY <1>1, <2>2, <2>3, <2>4 DEF Known
  <2> QED
    BY <2>1, <2>5, <2>6, OneCallSameHolder
<1>6. CASE ReadFails(c)
  <2> DEFINE r == Call("fetch", MyToken(c), Never, TRUE)
  <2>1. r \in Calls
    BY <1>1, CallType, NeverIsQuote DEF MyToken
  <2>2. r.pc = "fetch" /\ r.since = now /\ r.blind
    BY DEF Call
  <2>4. /\ call' = [call EXCEPT ![c] = r]
        /\ call[c].pc \in AtWork
        /\ UNCHANGED <<now, stored, holder, last>>
    BY <1>6 DEF ReadFails, AtWork
  <2> HIDE DEF r
  <2>3. Known(r, Home[c])
    BY <1>1, <2>2 DEF Known
  <2> QED
    BY <2>1, <2>3, <2>4, OneCallSameHolder
<1>7. CASE Fetch(c)
  <2> DEFINE r == Call("store", MyToken(c), now, FALSE)
  <2>1. now \in Quotes
    BY <1>1 DEF Quotes, Never, Times
  <2>2. r \in Calls
    BY <1>1, <2>1, CallType DEF MyToken
  <2>3. r.pc = "store" /\ r.since = now /\ r.quote = now
    BY DEF Call
  <2>5. /\ call' = [call EXCEPT ![c] = r]
        /\ call[c].pc \in AtWork
        /\ UNCHANGED <<now, stored, holder, last>>
    BY <1>7 DEF Fetch, AtWork
  <2> HIDE DEF r
  <2>4. Known(r, Home[c])
    BY <1>1, <2>3 DEF Known
  <2> QED
    BY <2>2, <2>4, <2>5, OneCallSameHolder
<1>8. CASE Store(c)
  BY <1>8, StoreInv
<1>9. CASE FetchFails(c) \/ StorePriceFails(c) \/ Return(c) \/ Cancel(c)
  BY <1>9, ReleaseInv DEF FetchFails, StorePriceFails, Return, Cancel
<1> QED
  BY <1>2, <1>3, <1>4, <1>5, <1>6, <1>7, <1>8, <1>9 DEF CallStep

LEMMA StepInv == IInv /\ [PriceNext]_priceVars => IInv'
<1> SUFFICES ASSUME IInv, [PriceNext]_priceVars PROVE IInv'
  OBVIOUS
<1>1. CASE Tick
  BY <1>1, TickInv
<1>2. ASSUME NEW c \in Callers,
             Ask(c) \/ Acquire(c) \/ CallStep(c) \/ Cancel(c)
      PROVE  IInv'
  BY <1>2, CallerInv
<1>3. CASE UNCHANGED priceVars
  BY <1>3 DEF priceVars, IInv, PriceTypeOK, StoreOK, CallsOK, Known, Times,
              Quotes, Never
<1> QED
  BY <1>1, <1>2, <1>3 DEF PriceNext

LEMMA AlwaysInv == PriceSpec => []IInv
  BY InitInv, StepInv, PTL DEF PriceSpec

\* Types are preserved: prices carry times of the past, never of the future.
THEOREM PricesAreTyped == PriceSpec => []PriceTypeOK
  BY AlwaysInv, PTL DEF IInv

\* No price is older than the expiry and two requests when it is returned,
\* for any number of processes that share Redis.
THEOREM PricesAreFresh == PriceSpec => []Fresh
<1>1. IInv => Fresh
  <2> SUFFICES ASSUME IInv, NEW c \in Callers, call[c].pc = "return"
               PROVE  now - call[c].quote <= Expiry + 2 * Delay
    BY DEF Fresh
  <2>1. /\ now \in Int /\ call[c].quote \in Int /\ call[c].since \in Int
    BY PriceAssumption DEF IInv, PriceTypeOK, Times, Quotes, Never
  <2>2. now - call[c].since <= Delay
        /\ call[c].quote >= call[c].since - Expiry - Delay
    BY DEF IInv, CallsOK, Known, AtWork
  <2> QED
    BY <2>1, <2>2, PriceAssumption
<1> QED
  BY AlwaysInv, <1>1, PTL

\* Tasks of one process that miss together fetch once.
THEOREM FetchesAreSpaced == PriceSpec => NoStampede
<1> DEFINE P == \A c \in Callers :
                    Fetch(c) /\ ~call[c].blind
                    => now - last[Home[c]][MyToken(c)] >= Expiry
<1>1. IInv => P
  BY DEF IInv, CallsOK, Known, Fetch, MyToken
<1>2. IInv /\ [PriceNext]_priceVars => [P]_priceVars
  BY <1>1
<1> HIDE DEF P
<1>3. PriceSpec => [][P]_priceVars
  BY AlwaysInv, <1>2, PTL DEF PriceSpec
<1> QED
  BY <1>3 DEF P, NoStampede
=============================================================================
