---------------------------- MODULE IndexerBuild ----------------------------
(***************************************************************************)
(* Inside one run of the indexer (indexer.rs): buckets are built a few at  *)
(* a time, each from observation points that are fetched a few at a time.  *)
(* A point takes the price mutex, asks for the price of the token, turns   *)
(* its dollars into an amount, and asks the route source for quotes, of    *)
(* which the cheapest counts.  Points that fail are dropped; a line is     *)
(* fitted to the others.  All estimators go into Redis at once.            *)
(*                                                                         *)
(* An estimator is the function from points to fees it is fitted to.  The  *)
(* answers of CoinGecko and Bungee are choices of the environment.         *)
(***************************************************************************)
EXTENDS Integers, FiniteSets

CONSTANTS
    BucketCount,   \* buckets of the configuration
    PointCounts,   \* values of points_per_bucket
    Path,          \* bucket -> its chains and tokens
    Low, High,     \* bucket -> its bounds in dollars
    BucketLimit,   \* BUCKET_PROCESSING_RATE_LIMIT
    PointLimit,    \* SOURCE_FETCH_PER_BUCKET_RATE_LIMIT
    Prices,        \* prices of a token, in units of 10^-8 dollars
    Answers,       \* answers to a quote request: sets of fees and Malformed
    Malformed,     \* a route without the three amounts a fee needs
    Refusal,       \* no answer, or one that says failure
    Nobody

Buckets == 1 .. BucketCount

ASSUME IndexerBuildAssumption ==
    /\ BucketCount \in Nat
    /\ PointCounts \subseteq Nat
    /\ Low \in [Buckets -> Int] /\ High \in [Buckets -> Int]
    /\ BucketLimit \in Nat \ {0} /\ PointLimit \in Nat \ {0}
    /\ Prices \subseteq Nat
    /\ Refusal \in Answers
    /\ \A a \in Answers \ {Refusal} : a \ {Malformed} \subseteq Int
    /\ Nobody \notin Buckets \X Nat

VARIABLES
    count,     \* points_per_bucket
    status,    \* bucket -> new, open, built or failed
    point,     \* bucket -> point -> new, lock, price, quote, failed or built
    fee,       \* bucket -> point -> fee of a point that is built, or 0
    lock,      \* who holds the mutex of the price provider
    stage,     \* build, store, publish, done, failed or panicked
    store,     \* bucket -> estimator this run put into Redis, or <<>>
    seen       \* history: cheap (a price too low to divide by), refused (Redis)

vars == <<count, status, point, fee, lock, stage, store, seen>>

Points == 0 .. count - 1
Fees   == {f \in UNION (Answers \ {Refusal}) : f # Malformed}

TypeOK ==
    /\ count \in PointCounts
    /\ status \in [Buckets -> {"new", "open", "built", "failed"}]
    /\ point \in [Buckets -> [Points -> {"new", "lock", "price", "quote",
                                         "failed", "built"}]]
    /\ fee \in [Buckets -> [Points -> Fees \cup {0}]]
    /\ lock \in (Buckets \X Points) \cup {Nobody}
    /\ stage \in {"build", "store", "publish", "done", "failed", "panicked"}
    /\ \A b \in Buckets : DOMAIN store[b] \subseteq Points
    /\ seen \subseteq {"cheap", "refused"}

Init ==
    /\ count \in PointCounts
    /\ status = [b \in Buckets |-> "new"]
    /\ point = [b \in Buckets |-> [i \in Points |-> "new"]]
    /\ fee = [b \in Buckets |-> [i \in Points |-> 0]]
    /\ lock = Nobody
    /\ stage = "build"
    /\ store = [b \in Buckets |-> <<>>]
    /\ seen = {}

-----------------------------------------------------------------------------
(* Observation points *)

\* Mutant of Observed: both bounds are among the points.
ObservedInclusive(b, i) ==
    IF count = 1 THEN Low[b]
    ELSE Low[b] * count + (i * count * (High[b] - Low[b])) \div (count - 1)

\* generate_bucket_observation_points, times the number of points: the lower
\* bound is among them, the upper one is not.
Observed(b, i) == Low[b] * count + i * (High[b] - Low[b])

In(b, pcs)   == {i \in Points : point[b][i] \in pcs}
InFlight(b)  == In(b, {"lock", "price", "quote"})
Finished(b)  == In(b, {"built", "failed"}) = Points
OpenBuckets  == {b \in Buckets : status[b] = "open"}

Move(b, i, pc) == point' = [point EXCEPT ![b][i] = pc]

\* buffer_unordered takes buckets and points in order, while there is room.
Room(set, limit) == Cardinality(set) < limit

StartBucket(b) ==
    /\ stage = "build"
    /\ status[b] = "new"
    /\ \A c \in Buckets : c < b => status[c] # "new"
    /\ Room(OpenBuckets, BucketLimit)
    /\ status' = [status EXCEPT ![b] = "open"]
    /\ UNCHANGED <<count, point, fee, lock, stage, store, seen>>

StartPoint(b, i) ==
    /\ stage = "build"
    /\ status[b] = "open"
    /\ point[b][i] = "new"
    /\ \A j \in Points : j < i => point[b][j] # "new"
    /\ Room(InFlight(b), PointLimit)
    /\ Move(b, i, "lock")
    /\ UNCHANGED <<count, status, fee, lock, stage, store, seen>>

\* Mutant of LockProvider: every point may use the provider.
UseProvider(b, i) ==
    /\ stage = "build"
    /\ point[b][i] = "lock"
    /\ lock' = <<b, i>>
    /\ Move(b, i, "price")
    /\ UNCHANGED <<count, status, fee, stage, store, seen>>

\* The guard lives until the end of the statement that locks the provider, so
\* the mutex is held while the price is asked for.
LockProvider(b, i) ==
    /\ stage = "build"
    /\ point[b][i] = "lock"
    /\ lock = Nobody
    /\ lock' = <<b, i>>
    /\ Move(b, i, "price")
    /\ UNCHANGED <<count, status, fee, stage, store, seen>>

\* token_price * MULTIPLIER as an integer, the nearest one.
Scaled(price) == (price + 5) \div 10

\* Mutant of PriceFails: an error leaves the mutex locked.
PriceFailsHolding(b, i) ==
    /\ stage = "build"
    /\ point[b][i] = "price"
    /\ Move(b, i, "failed")
    /\ UNCHANGED <<count, status, fee, lock, stage, store, seen>>

PriceFails(b, i) ==
    /\ stage = "build"
    /\ point[b][i] = "price"
    /\ lock' = Nobody
    /\ Move(b, i, "failed")
    /\ UNCHANGED <<count, status, fee, stage, store, seen>>

PriceArrives(b, i) ==
    /\ stage = "build"
    /\ point[b][i] = "price"
    /\ Observed(b, i) >= 0
    /\ \E p \in Prices : Scaled(p) # 0
    /\ lock' = Nobody
    /\ Move(b, i, "quote")
    /\ UNCHANGED <<count, status, fee, stage, store, seen>>

\* An amount below zero, which a bound below zero gives, is no unsigned
\* integer: the only task of the process panics.
AmountTooLow(b, i) ==
    /\ stage = "build"
    /\ point[b][i] = "price"
    /\ Observed(b, i) < 0 /\ Prices # {}
    /\ stage' = "panicked"
    /\ UNCHANGED <<count, status, point, fee, lock, store, seen>>

\* The amount is divided by a price that rounds to zero: it panics as well.
PriceTooLow(b, i) ==
    /\ stage = "build"
    /\ point[b][i] = "price"
    /\ Observed(b, i) >= 0
    /\ \E p \in Prices : Scaled(p) = 0
    /\ stage' = "panicked"
    /\ seen' = seen \cup {"cheap"}
    /\ UNCHANGED <<count, status, point, fee, lock, store>>

\* fetch_least_cost_route_and_cost_in_usd: malformed routes are dropped, the
\* least fee counts, and no route left is an error.
WellFormed(answer) == IF answer = Refusal THEN {} ELSE answer \ {Malformed}

LeastFees(answer) == {f \in WellFormed(answer) : \A g \in WellFormed(answer) : f <= g}

QuoteArrives(b, i) ==
    /\ stage = "build"
    /\ point[b][i] = "quote"
    /\ \E a \in Answers : \E f \in LeastFees(a) : fee' = [fee EXCEPT ![b][i] = f]
    /\ Move(b, i, "built")
    /\ UNCHANGED <<count, status, lock, stage, store, seen>>

QuoteFails(b, i) ==
    /\ stage = "build"
    /\ point[b][i] = "quote"
    /\ \E a \in Answers : WellFormed(a) = {}
    /\ Move(b, i, "failed")
    /\ UNCHANGED <<count, status, fee, lock, stage, store, seen>>

-----------------------------------------------------------------------------
(* Estimators *)

Good(b) == In(b, {"built"})

\* What the line of b is fitted to.
Data(b) == [i \in Good(b) |-> fee[b][i]]

\* Mutant of MayFail: a line needs every point.
MayFailUnlessWhole(b) == Good(b) # Points \/ Low[b] = High[b]

\* LinearRegressionEstimator::build wants two points; through points that are
\* all the same a line may or may not be found, as the mean is rounded.
MayFit(b)  == Cardinality(Good(b)) >= 2
MayFail(b) == Cardinality(Good(b)) < 2 \/ Low[b] = High[b]

FinishBucket(b) ==
    /\ stage = "build"
    /\ status[b] = "open"
    /\ Finished(b)
    /\ \/ MayFit(b) /\ status' = [status EXCEPT ![b] = "built"]
       \/ MayFail(b) /\ status' = [status EXCEPT ![b] = "failed"]
    /\ UNCHANGED <<count, point, fee, lock, stage, store, seen>>

Built == {b \in Buckets : status[b] = "built"}

Settled == \A b \in Buckets : status[b] \in {"built", "failed"}

End(s) ==
    /\ stage' = s
    /\ UNCHANGED <<count, status, point, fee, lock>>

\* Mutant of NoneBuilt: other buckets are not waited for.
NoneBuiltYet ==
    /\ stage = "build"
    /\ \E b \in Buckets : status[b] = "failed"
    /\ Built = {}
    /\ End("failed")
    /\ UNCHANGED <<store, seen>>

NoneBuilt ==
    /\ stage = "build"
    /\ Settled
    /\ Built = {}
    /\ End("failed")
    /\ UNCHANGED <<store, seen>>

SomeBuilt ==
    /\ stage = "build"
    /\ Settled
    /\ Built # {}
    /\ End("store")
    /\ UNCHANGED <<store, seen>>

\* publish_estimators: one MSET of what was built; other keys stay.
Stored == [b \in Buckets |-> IF b \in Built THEN Data(b) ELSE store[b]]

SetMultiple ==
    /\ stage = "store"
    /\ store' = Stored
    /\ End("publish")
    /\ UNCHANGED seen

\* Redis refuses, or its reply is lost.
SetMultipleFails ==
    /\ stage = "store"
    /\ store' \in {store, Stored}
    /\ End("failed")
    /\ seen' = seen \cup {"refused"}

Publish ==
    /\ stage = "publish"
    /\ End("done")
    /\ UNCHANGED <<store, seen>>

PublishFails ==
    /\ stage = "publish"
    /\ End("failed")
    /\ seen' = seen \cup {"refused"}
    /\ UNCHANGED store

PointStep(b, i) ==
    \/ StartPoint(b, i)
    \/ LockProvider(b, i)
    \/ PriceFails(b, i)
    \/ PriceArrives(b, i)
    \/ AmountTooLow(b, i)
    \/ PriceTooLow(b, i)
    \/ QuoteArrives(b, i)
    \/ QuoteFails(b, i)

Next ==
    \/ \E b \in Buckets : StartBucket(b) \/ FinishBucket(b)
    \/ \E b \in Buckets : \E i \in Points : PointStep(b, i)
    \/ NoneBuilt
    \/ SomeBuilt
    \/ SetMultiple
    \/ SetMultipleFails
    \/ Publish
    \/ PublishFails

\* Every request is answered or fails; there is no wait without end but for
\* the mutex.
Spec == Init /\ [][Next]_vars /\ WF_vars(Next)

-----------------------------------------------------------------------------
(* Properties *)

\* Whatever the interleaving, no more than BucketLimit * PointLimit points are
\* under way, and the one that asks for a price is the one that has the mutex.
Bounded ==
    /\ Cardinality(OpenBuckets) <= BucketLimit
    /\ \A b \in Buckets :
          /\ Cardinality(InFlight(b)) <= PointLimit
          /\ InFlight(b) # {} => status[b] = "open"
          /\ \A i \in Points : point[b][i] = "price" <=> lock = <<b, i>>

\* Once the estimators are stored, a bucket has a new one if two of its own
\* points were answered, fitted to exactly those points, whatever happened to
\* other points and buckets; a bucket without one keeps what it had.
OwnPointsDecide ==
    stage \in {"publish", "done"} =>
       \A b \in Buckets :
          /\ store[b] \in {<<>>, Data(b)}
          /\ Cardinality(Good(b)) < 2 => store[b] = <<>>
          /\ Cardinality(Good(b)) >= 2 /\ Low[b] < High[b] => store[b] = Data(b)

\* A run that stores nothing has a reason that concerns all of its buckets:
\* none could be fitted, Redis refused, one price was too low to divide by, or a
\* bucket that is being built has a bound below zero, which no check of the
\* configuration excludes; the last two take every other bucket with them.
FailureExplained ==
    /\ stage = "panicked" =>
          "cheap" \in seen \/ \E b \in OpenBuckets : Low[b] < 0 \/ High[b] < 0
    /\ stage = "failed" /\ "refused" \notin seen =>
          \A b \in Buckets : Finished(b) /\ MayFail(b)

\* The bucket matches a query for the path and an amount, times the number of
\* points; the engine uses the estimator of the first bucket that does
\* (routing_engine.rs:260-273).
Matches(c, path, amount) ==
    /\ Path[c] = path
    /\ Low[c] * count <= amount /\ amount <= High[c] * count

\* Two buckets share more than a bound.
Overlap(b, c) == Low[b] < High[c] /\ Low[c] < High[b]

\* An amount an estimator was fitted to is one the engine uses it for: its
\* bucket matches, and no bucket listed before it does unless the two overlap,
\* or the amount is the lower bound, which goes to the bucket that ends there.
\* So buckets in a row lose one point at most to a neighbour, in whatever order
\* they are listed (indexer.rs:47-57, routing_engine.rs:260-273).
SamplesAreOwn ==
    \A b \in Buckets :
       Low[b] <= High[b] =>
          \A i \in DOMAIN store[b] :
             /\ Matches(b, Path[b], Observed(b, i))
             /\ \A c \in Buckets :
                   c < b /\ Matches(c, Path[b], Observed(b, i)) =>
                      \/ Overlap(b, c)
                      \/ Observed(b, i) = Low[b] * count

Outcome ==
    CASE stage \in {"build", "store"}     -> "running"
      [] stage = "publish"                -> "stored"
      [] stage = "done"                   -> "announced"
      [] stage \in {"failed", "panicked"} -> "failed"

\* A run of the indexer does what a job promises, and ends (indexer.rs:208-258).
Job == INSTANCE IndexerJob WITH Indices <- Nat, Fees <- Fees, outcome <- Outcome

ImplementsJob == Job!Spec
=============================================================================
