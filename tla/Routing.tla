------------------------------ MODULE Routing -------------------------------
(***************************************************************************)
(* How the routing engine chooses the balances that pay for a transfer     *)
(* (routing_engine.rs, get_best_cost_paths and generate_optimal_routes):   *)
(* in a first pass among the balances of the token that is asked for, and  *)
(* if they do not suffice in a second pass among the others.  A pass       *)
(* estimates the bridging cost of each balance, one await after the other, *)
(* leaves out those it has no estimate for, and then takes balances in the *)
(* order of amount^x / fee^y until the target is met.                      *)
(*                                                                         *)
(* USD values, token amounts and fees are integers.  Requests do not       *)
(* affect one another here, so one request is modelled.  Between two of    *)
(* its estimates the estimator cache may be replaced (EstimatorCache.tla): *)
(* any fee, or none, may come back each time.                              *)
(***************************************************************************)
EXTENDS Integers, Sequences, FiniteSets, FiniteSetsExt, SequencesExt

CONSTANTS
    Assets,      \* what a user may hold: account, chain and token
    Direct,      \* those whose token is the one asked for
    Gas,         \* those whose token is "ETH"
    Holdings,    \* possible balances: [amount, value], tokens and USD; one
                 \* that is missing from an answer with a quote is no token
    Nothing,     \* not held
    Targets,     \* USD values asked for
    Fees,        \* what an estimator may return
    NoFee,       \* no bucket, no cached estimator, or one that does not parse
    Unasked,     \* not estimated yet
    GasReserve,  \* one dollar, in the unit of the values
    X, Y, Roots  \* solver config: x_value is X and y_value Y divided by one of Roots

ASSUME RoutingAssumption ==
    /\ IsFiniteSet(Assets)
    /\ Direct \subseteq Assets
    /\ Gas \subseteq Assets
    /\ Holdings \subseteq [amount : Nat, value : Nat \ {0}]
    /\ Nothing \notin Holdings
    /\ Targets \subseteq Nat \ {0}
    /\ Fees \subseteq Int
    /\ NoFee \notin Fees /\ Unasked \notin Fees /\ NoFee # Unasked
    /\ GasReserve \in Nat
    /\ X \in Nat /\ Y \in Nat
    /\ Roots \subseteq Nat \ {0} /\ Roots # {}

VARIABLES
    root,        \* the configured one of Roots
    pc,          \* balances, price, first, second, done, failed or panicked
    wallet,      \* asset -> its balance, as the account service reported it
    queue,       \* assets of this pass still to be estimated
    fee,         \* asset -> estimated fee, NoFee or Unasked
    asked,       \* asset -> USD its fee was estimated for
    left,        \* estimated assets of this pass that are not taken yet
    target,      \* USD value asked for
    needed,      \* USD value still missing
    routes,      \* chosen so far: sequence of [asset, usd]
    cost         \* total_cost

vars == <<root, pc, wallet, queue, fee, asked, left, target, needed, routes, cost>>

Held == {a \in Assets : wallet[a] # Nothing}

TypeOK ==
    /\ root \in Roots
    /\ pc \in {"balances", "price", "first", "second", "done", "failed", "panicked"}
    /\ wallet \in [Assets -> Holdings \cup {Nothing}]
    /\ queue \subseteq Assets
    /\ fee \in [Assets -> Fees \cup {NoFee, Unasked}]
    /\ asked \in [Assets -> Nat]
    /\ left \subseteq Assets
    /\ target \in Nat
    /\ needed \in Nat
    /\ routes \in Seq([asset : Assets, usd : Nat])
    /\ cost \in Int

Init ==
    /\ root \in Roots
    /\ pc = "balances"
    /\ wallet = [a \in Assets |-> Nothing]
    /\ queue = {}
    /\ fee = [a \in Assets |-> Unasked]
    /\ asked = [a \in Assets |-> 0]
    /\ left = {}
    /\ target = 0
    /\ needed = 0
    /\ routes = <<>>
    /\ cost = 0

\* The account service answers; balances it could not fetch are missing.
GetBalances ==
    /\ pc = "balances"
    /\ wallet' \in [Assets -> Holdings \cup {Nothing}]
    /\ pc' = "price"
    /\ UNCHANGED <<root, queue, fee, asked, left, target, needed, routes, cost>>

\* The account service or the price provider returned an error.
Fail ==
    /\ pc \in {"balances", "price"}
    /\ pc' = "failed"
    /\ UNCHANGED <<root, wallet, queue, fee, asked, left, target, needed, routes, cost>>

\* Mutant of FirstPass: all balances at once.
FirstPassOfAll ==
    /\ pc = "price"
    /\ target' \in Targets
    /\ needed' = target'
    /\ queue' = Held
    /\ pc' = "first"
    /\ UNCHANGED <<root, wallet, fee, asked, left, routes, cost>>

FirstPass ==
    /\ pc = "price"
    /\ target' \in Targets
    /\ needed' = target'
    /\ queue' = Held \cap Direct
    /\ pc' = "first"
    /\ UNCHANGED <<root, wallet, fee, asked, left, routes, cost>>

-----------------------------------------------------------------------------
(* generate_optimal_routes *)

InPass == pc \in {"first", "second"}

\* Mutant of Share: what the balance holds does not matter.
ShareWhole(a) == needed

\* What a balance could pay of the target of the pass, nothing of which is
\* taken before all fees are estimated.
Share(a) == IF wallet[a].value < needed THEN wallet[a].value ELSE needed

\* Balances without an estimate are logged and left out.
Estimate(a) ==
    /\ InPass
    /\ a \in queue
    /\ queue' = queue \ {a}
    /\ asked' = [asked EXCEPT ![a] = Share(a)]
    /\ \E f \in Fees \cup {NoFee} :
          /\ fee' = [fee EXCEPT ![a] = f]
          /\ left' = IF f = NoFee THEN left ELSE left \cup {a}
    /\ UNCHANGED <<root, pc, wallet, target, needed, routes, cost>>

\* What may be taken of a balance: one dollar of ETH is kept back.
Usable(a) ==
    IF a \in Gas THEN Max({0, wallet[a].value - GasReserve})
    ELSE wallet[a].value

Power(n, k) == IF k = 0 THEN 1 ELSE n ^ k

\* fee^y is a power of the fee, or the root of one.
IsRoot == Y % root # 0

\* The score is not a number: the root of a fee below zero, or 0 / 0.
NoScore(a) ==
    \/ IsRoot /\ fee[a] < 0
    \/ fee[a] = 0 /\ Y > 0 /\ wallet[a].amount = 0 /\ X > 0

\* The score amount^x / fee^y, or its power that has no root, as a fraction with
\* a denominator that is not negative; division by zero gives infinity, the
\* largest score.
FeePower(a) == Power(fee[a], IF IsRoot THEN Y ELSE Y \div root)
AmountPower(a) == Power(wallet[a].amount, IF IsRoot THEN X * root ELSE X)
Num(a) == IF FeePower(a) < 0 THEN - AmountPower(a) ELSE AmountPower(a)
Den(a) == Max({FeePower(a), - FeePower(a)})

\* sort_by is ascending.  Equal scores keep the order of the balances, which
\* means nothing.
Before(a, b) == Num(a) * Den(b) <= Num(b) * Den(a)

\* sort_by compares each of two or more balances with another.
Comparable == Cardinality(left) < 2 \/ \A a \in left : ~NoScore(a)

\* partial_cmp of two scores one of which is NaN has no result to unwrap.
Panic ==
    /\ InPass /\ queue = {} /\ ~Comparable
    /\ pc' = "panicked"
    /\ UNCHANGED <<root, wallet, queue, fee, asked, left, target, needed, routes, cost>>

\* Mutants of Taken: the whole balance; never the whole of what is needed.
TakenWhole(a)  == Usable(a)
TakenSparing(a) == IF Usable(a) > needed THEN needed ELSE Usable(a) \div 2

Taken(a) == IF Usable(a) >= needed THEN needed ELSE Usable(a)

\* Mutant of Enough: the loop goes on after the target is met.
NeverEnough == FALSE

Enough == needed = 0

\* Mutant of Take: the balance stays available.
TakeAgain(a) ==
    /\ InPass
    /\ queue = {}
    /\ Comparable /\ ~Enough
    /\ a \in left
    /\ \A b \in left : Before(a, b)
    /\ needed' = needed - Taken(a)
    /\ cost' = cost + fee[a]
    /\ routes' = Append(routes, [asset |-> a, usd |-> Taken(a)])
    /\ Len(routes') <= Cardinality(Assets)
    /\ UNCHANGED <<root, pc, wallet, queue, fee, asked, left, target>>

\* One round of the selection loop.
Take(a) ==
    /\ InPass
    /\ queue = {}
    /\ Comparable /\ ~Enough
    /\ a \in left
    /\ \A b \in left : Before(a, b)
    /\ left' = left \ {a}
    /\ needed' = needed - Taken(a)
    /\ cost' = cost + fee[a]
    /\ routes' = Append(routes, [asset |-> a, usd |-> Taken(a)])
    /\ UNCHANGED <<root, pc, wallet, queue, fee, asked, target>>

\* Mutant of SecondPass: it only starts when the first found no route.
SecondPassIfNoRoute ==
    /\ pc = "first"
    /\ queue = {} /\ left = {} /\ ~Enough
    /\ pc' = "second"
    /\ queue' = IF routes = <<>> THEN Held \ Direct ELSE {}
    /\ UNCHANGED <<root, wallet, fee, asked, left, target, needed, routes, cost>>

\* The first pass ran out of balances.
SecondPass ==
    /\ pc = "first"
    /\ queue = {} /\ left = {} /\ ~Enough
    /\ pc' = "second"
    /\ queue' = Held \ Direct
    /\ UNCHANGED <<root, wallet, fee, asked, left, target, needed, routes, cost>>

\* The routes are returned, whether or not they meet the target.
Done ==
    /\ \/ InPass /\ queue = {} /\ Enough
       \/ pc = "second" /\ queue = {} /\ left = {}
    /\ pc' = "done"
    /\ UNCHANGED <<root, wallet, queue, fee, asked, left, target, needed, routes, cost>>

Next ==
    \/ GetBalances \/ Fail \/ FirstPass \/ SecondPass \/ Panic \/ Done
    \/ \E a \in Assets : Estimate(a) \/ Take(a)

Spec == Init /\ [][Next]_vars

-----------------------------------------------------------------------------
(* Properties. *)

Used == {routes[i].asset : i \in DOMAIN routes}

\* What each route pays, and what it costs.
Payments  == [i \in DOMAIN routes |-> routes[i].usd]
RouteFees == [i \in DOMAIN routes |-> fee[routes[i].asset]]

\* What was taken and what is missing add up to the target, the total cost is
\* that of the routes, and no balance is used twice or beyond its usable
\* value, over both passes.
Balanced ==
    /\ needed + SumFunction(Payments) = target
    /\ cost = SumFunction(RouteFees)
    /\ Cardinality(Used) = Len(routes)
    /\ \A i \in DOMAIN routes : routes[i].usd <= Usable(routes[i].asset)

\* An answer falls short of the target only if every balance with an estimate
\* is spent in full, those of the second pass included.
ShortOnlyIfSpent ==
    pc = "done" /\ needed > 0 =>
        \A a \in Held :
            fee[a] = NoFee
            \/ \E i \in DOMAIN routes : routes[i] = [asset |-> a,
                                                     usd |-> Usable(a)]

\* Another token is touched only when each balance of the token asked for
\* that has an estimate is spent in full.
DirectFirst ==
    Used \subseteq Direct
    \/ \A a \in Held \cap Direct :
          fee[a] = NoFee
          \/ \E i \in DOMAIN routes : routes[i] = [asset |-> a,
                                                   usd |-> Usable(a)]

\* Only the last route takes part of a balance: every other one empties it,
\* so no route can be dropped but those of an empty gas balance.
OnlyLastIsPartial ==
    \A i \in DOMAIN routes :
        i < Len(routes) => routes[i].usd = Usable(routes[i].asset)

\* The total cost is one of the routes that are returned, although each fee is
\* estimated before any balance is taken: a fee is estimated for no more than is
\* asked for and no less than its route pays, and exactly for that, to within
\* the reserve kept back in between, unless the route is the last one
\* (routing_engine.rs:177-196, 226-236).
FeesFitRoutes ==
    \A i \in DOMAIN routes :
       LET a == routes[i].asset IN
       /\ routes[i].usd <= asked[a] /\ asked[a] <= target
       /\ i < Len(routes) =>
             asked[a] <= routes[i].usd + (IF a \in Gas THEN GasReserve ELSE 0)

=============================================================================
