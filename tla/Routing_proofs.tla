--------------------------- MODULE Routing_proofs ---------------------------
(* Proofs about Routing, for any balances, fees and exponents. *)
EXTENDS Routing, SumTheorems

Steps == {"balances", "price", "first", "second", "done", "failed", "panicked"}

RouteType == [asset : Assets, usd : Nat]

\* A balance is spent: one of the routes takes all that is usable of it.
Spent(a) ==
    \E i \in DOMAIN routes : routes[i] = [asset |-> a, usd |-> Usable(a)]

\* A balance of the present pass that may still be taken.
Open(a) == a \in queue \/ a \in left

\* Once the target is met the rest of a pass is of no interest.
Settled(a) == needed = 0 \/ fee[a] = NoFee \/ Spent(a)

Quiet == pc \in {"balances", "price"} => routes = <<>> /\ queue = {} /\ left = {}

Queued ==
    /\ \A a \in Assets : Open(a) => a \in Held
    /\ \A a \in left : fee[a] \in Fees /\ a \notin queue
    /\ pc = "first" => \A a \in Assets : Open(a) => a \in Direct
    /\ pc = "second" => \A a \in Assets : Open(a) => a \notin Direct

FirstOK ==
    pc = "first" =>
        /\ Used \subseteq Direct
        /\ \A a \in Held \cap Direct : Open(a) \/ Settled(a)

SecondOK ==
    pc = "second" =>
        /\ \A a \in Held \cap Direct : fee[a] = NoFee \/ Spent(a)
        /\ \A a \in Held \ Direct : Open(a) \/ Settled(a)

\* Before the target is met every balance is taken whole.
WholeOK ==
    needed > 0 => \A i \in DOMAIN routes : routes[i].usd = Usable(routes[i].asset)

IInv == TypeOK /\ Quiet /\ Queued /\ FirstOK /\ SecondOK /\ WholeOK
        /\ DirectFirst /\ ShortOnlyIfSpent /\ OnlyLastIsPartial

-----------------------------------------------------------------------------
(* What may be taken of a balance. *)

LEMMA MaxOfTwo ==
    ASSUME NEW n \in Int
    PROVE  Max({0, n}) \in Nat /\ Max({0, n}) \in {0, n} /\ Max({0, n}) >= n
<1>1. \E x \in {0, n} : \A y \in {0, n} : x >= y
  <2>1. CASE n >= 0
    BY <2>1
  <2>2. CASE ~(n >= 0)
    BY <2>2
  <2> QED BY <2>1, <2>2
<1>2. Max({0, n}) \in {0, n} /\ \A y \in {0, n} : Max({0, n}) >= y
  BY <1>1 DEF Max
<1> QED BY <1>2

\* What is kept back of a balance.
Reserve(a) == IF a \in Gas THEN GasReserve ELSE 0

LEMMA ValueType ==
    ASSUME TypeOK, NEW a \in Held PROVE wallet[a].value \in Nat
<1>1. wallet[a] \in [amount : Nat, value : Nat \ {0}]
  BY RoutingAssumption DEF RoutingAssumption, TypeOK, Held
<1> QED BY <1>1

LEMMA UsableBounds ==
    ASSUME TypeOK, NEW a \in Held
    PROVE  /\ Usable(a) \in Nat /\ Reserve(a) \in Nat
           /\ Usable(a) <= wallet[a].value
           /\ wallet[a].value <= Usable(a) + Reserve(a)
<1>1. wallet[a].value \in Nat /\ GasReserve \in Nat
  BY ValueType, RoutingAssumption DEF RoutingAssumption
<1> DEFINE n == wallet[a].value - GasReserve
<1>2. Max({0, n}) \in Nat /\ Max({0, n}) \in {0, n} /\ Max({0, n}) >= n
  BY <1>1, MaxOfTwo
<1> QED BY <1>1, <1>2 DEF Usable, Reserve

LEMMA UsableType ==
    ASSUME TypeOK, NEW a \in Held PROVE Usable(a) \in Nat
BY UsableBounds

LEMMA TakenType ==
    ASSUME TypeOK, NEW a \in Held
    PROVE  /\ Taken(a) \in Nat /\ needed - Taken(a) \in Nat
           /\ needed - Taken(a) > 0 => Taken(a) = Usable(a)
<1>1. Usable(a) \in Nat /\ needed \in Nat
  BY UsableType DEF TypeOK
<1> QED BY <1>1 DEF Taken

-----------------------------------------------------------------------------
LEMMA InitInv == Init => IInv
<1> SUFFICES ASSUME Init PROVE IInv
  OBVIOUS
<1>1. TypeOK
  BY DEF Init, TypeOK
<1>2. Quiet /\ FirstOK /\ SecondOK /\ Queued
  BY DEF Init, Quiet, FirstOK, SecondOK, Queued, Open
<1>3. WholeOK /\ OnlyLastIsPartial /\ ShortOnlyIfSpent
  BY DEF Init, WholeOK, OnlyLastIsPartial, ShortOnlyIfSpent
<1>4. DirectFirst
  BY DEF Init, DirectFirst, Used
<1> QED BY <1>1, <1>2, <1>3, <1>4 DEF IInv

LEMMA TypeStep == TypeOK /\ IInv /\ [Next]_vars => TypeOK'
<1> SUFFICES ASSUME TypeOK, IInv, [Next]_vars PROVE TypeOK'
  OBVIOUS
<1> USE RoutingAssumption DEF RoutingAssumption
<1>1. CASE GetBalances
  BY <1>1 DEF GetBalances, TypeOK
<1>2. CASE Fail
  BY <1>2 DEF Fail, TypeOK
<1>3. CASE FirstPass
  BY <1>3 DEF FirstPass, TypeOK, Held
<1>4. CASE SecondPass
  BY <1>4 DEF SecondPass, TypeOK, Held
<1>5. CASE Panic
  BY <1>5 DEF Panic, TypeOK
<1>6. CASE Done
  BY <1>6 DEF Done, TypeOK
<1>7. ASSUME NEW a \in Assets, Estimate(a) PROVE TypeOK'
  <2>1. a \in Held
    BY <1>7 DEF Estimate, IInv, Queued, Open
  <2>2. Share(a) \in Nat
    BY <2>1, ValueType DEF Share, TypeOK
  <2> QED BY <1>7, <2>2 DEF Estimate, TypeOK
<1>8. ASSUME NEW a \in Assets, Take(a) PROVE TypeOK'
  <2>1. a \in Held /\ fee[a] \in Int
    BY <1>8 DEF Take, IInv, Queued, Open
  <2>2. Taken(a) \in Nat /\ needed - Taken(a) \in Nat
    BY <2>1, TakenType
  <2>3. routes' \in Seq(RouteType)
    BY <1>8, <2>2 DEF Take, TypeOK, RouteType
  <2> QED BY <1>8, <2>1, <2>2, <2>3 DEF Take, TypeOK, RouteType
<1>9. CASE UNCHANGED vars
  BY <1>9 DEF vars, TypeOK
<1> QED BY <1>1, <1>2, <1>3, <1>4, <1>5, <1>6, <1>7, <1>8, <1>9 DEF Next

\* A step that leaves the wallet and the routes alone leaves what is usable,
\* spent and used alone.
LEMMA SameRoutes ==
    ASSUME UNCHANGED <<wallet, routes>>
    PROVE  /\ Held' = Held /\ Used' = Used
           /\ \A a : Usable(a)' = Usable(a) /\ (Spent(a)' <=> Spent(a))
<1>1. \A a : Usable(a)' = Usable(a)
  BY DEF Usable
<1> QED BY <1>1 DEF Held, Used, Spent

LEMMA EstimateStep ==
    ASSUME IInv, TypeOK', NEW a \in Assets, Estimate(a) PROVE IInv'
<1> USE DEF Estimate
<1>0. TypeOK /\ UNCHANGED <<wallet, routes, needed, pc>> /\ InPass /\ a \in queue
  BY DEF IInv
<1>1. /\ Held' = Held /\ Used' = Used
      /\ \A b : Usable(b)' = Usable(b) /\ (Spent(b)' <=> Spent(b))
  BY <1>0, SameRoutes
<1>2. PICK f \in Fees \cup {NoFee} :
          /\ fee' = [fee EXCEPT ![a] = f]
          /\ left' = IF f = NoFee THEN left ELSE left \cup {a}
  OBVIOUS
<1>3. fee'[a] = f /\ \A b \in Assets \ {a} : fee'[b] = fee[b]
  BY <1>0, <1>2 DEF TypeOK
<1>4. \A b \in Assets : Open(b)' => Open(b)
  BY <1>2 DEF Open
<1>5. \A b \in Assets : Open(b) => Open(b)' \/ fee'[b] = NoFee
  BY <1>2, <1>3 DEF Open
<1>6. Quiet'
  BY <1>0 DEF IInv, InPass, Quiet
<1>7. \A b \in left' : fee'[b] \in Fees /\ b \notin queue'
  BY <1>0, <1>2, <1>3 DEF IInv, Queued, TypeOK
<1>8. Queued'
  BY <1>0, <1>1, <1>4, <1>7 DEF IInv, Queued
<1>9. \A b \in Assets : ~Open(b) => b # a
  BY <1>0 DEF Open
<1>10. \A b \in Assets : Open(b) \/ Settled(b) => (Open(b) \/ Settled(b))'
  BY <1>0, <1>1, <1>3, <1>5, <1>9 DEF Settled, Open
<1>11. Held \subseteq Assets
  BY DEF Held
<1>12. FirstOK'
  BY <1>0, <1>1, <1>10, <1>11 DEF IInv, FirstOK
<1>13. SecondOK'
  BY <1>0, <1>1, <1>3, <1>10, <1>11 DEF IInv, SecondOK, Queued, Open
<1>14. WholeOK' /\ OnlyLastIsPartial'
  BY <1>0, <1>1 DEF IInv, WholeOK, OnlyLastIsPartial
<1>15. DirectFirst'
  <2>1. CASE pc = "first"
    BY <2>1, <1>0, <1>1 DEF IInv, FirstOK, DirectFirst
  <2>2. CASE pc = "second"
    BY <2>2, <1>0, <1>13, <1>1 DEF SecondOK, DirectFirst, Spent
  <2> QED BY <2>1, <2>2, <1>0 DEF InPass
<1>16. ShortOnlyIfSpent'
  BY <1>0 DEF InPass, ShortOnlyIfSpent
<1> QED BY <1>6, <1>8, <1>12, <1>13, <1>14, <1>15, <1>16 DEF IInv

LEMMA TakeStep ==
    ASSUME IInv, TypeOK', NEW a \in Assets, Take(a) PROVE IInv'
<1> DEFINE r == [asset |-> a, usd |-> Taken(a)]
<1>0. /\ TypeOK /\ InPass /\ queue = {} /\ needed \in Nat /\ needed # 0 /\ a \in left
      /\ UNCHANGED <<wallet, queue, fee, pc>> /\ left' = left \ {a}
      /\ needed' = needed - Taken(a) /\ routes' = Append(routes, r)
  BY DEF Take, IInv, TypeOK, Enough
<1>1. a \in Held /\ fee[a] \in Fees
  BY <1>0 DEF IInv, Queued, Open
<1>2. /\ Taken(a) \in Nat /\ needed' \in Nat
      /\ needed' > 0 => Taken(a) = Usable(a)
  BY <1>0, <1>1, TakenType
<1>3. Held' = Held /\ \A b : Usable(b)' = Usable(b)
  BY <1>0 DEF Held, Usable
<1>4. /\ routes \in Seq(RouteType) /\ r \in RouteType
      /\ Len(routes') = Len(routes) + 1 /\ Len(routes) \in Nat
      /\ DOMAIN routes = 1..Len(routes) /\ DOMAIN routes' = 1..(Len(routes) + 1)
      /\ \A i \in DOMAIN routes : routes'[i] = routes[i]
      /\ routes'[Len(routes) + 1] = r
  <2>1. routes \in Seq(RouteType) /\ r \in RouteType
    BY <1>0, <1>2 DEF TypeOK, RouteType
  <2> HIDE DEF r
  <2> QED BY <1>0, <2>1
<1> HIDE DEF r
<1>5. r.asset = a /\ r.usd = Taken(a) /\ (Taken(a) = Usable(a) => r = [asset |-> a, usd |-> Usable(a)])
  BY DEF r
<1>6. \A b : Spent(b) => Spent(b)'
  BY <1>3, <1>4 DEF Spent
<1>7. needed' > 0 => Spent(a)'
  BY <1>2, <1>3, <1>4, <1>5 DEF Spent
<1>8. Used' = Used \cup {a}
  BY <1>4, <1>5 DEF Used
<1>9. \A b \in Assets : Open(b) => Open(b)' \/ b = a
  BY <1>0 DEF Open
<1>10. \A b \in Assets : Open(b) \/ Settled(b) => (Open(b) \/ Settled(b))'
  BY <1>0, <1>2, <1>6, <1>7, <1>9 DEF Settled
<1>11. Held \subseteq Assets
  BY DEF Held
<1>12. Quiet'
  BY <1>0 DEF InPass, Quiet
<1>13. Queued'
  BY <1>0, <1>3 DEF IInv, Queued, Open
<1>14. FirstOK'
  BY <1>0, <1>3, <1>8, <1>10, <1>11 DEF IInv, FirstOK, Queued, Open
<1>15. SecondOK'
  BY <1>0, <1>3, <1>6, <1>10, <1>11 DEF IInv, SecondOK
<1>16. needed > 0
  BY <1>0
<1>17. \A i \in DOMAIN routes : routes'[i].usd = Usable(routes'[i].asset)
  BY <1>4, <1>16 DEF IInv, WholeOK
<1>18. WholeOK'
  <2>1. needed' > 0 => \A i \in DOMAIN routes' : routes'[i].usd = Usable(routes'[i].asset)
    BY <1>2, <1>4, <1>5, <1>17
  <2> QED BY <2>1, <1>0 DEF WholeOK, Usable
<1>19. OnlyLastIsPartial'
  <2>1. \A i \in DOMAIN routes' : i < Len(routes') => i \in DOMAIN routes
    BY <1>4
  <2>2. \A i \in DOMAIN routes' :
           i < Len(routes') => routes'[i].usd = Usable(routes'[i].asset)
    BY <2>1, <1>17
  <2> QED BY <2>2, <1>0 DEF OnlyLastIsPartial, Usable
<1>20. DirectFirst'
  <2>1. CASE pc = "first"
    BY <2>1, <1>0, <1>14 DEF FirstOK, DirectFirst
  <2>2. CASE pc = "second"
    BY <2>2, <1>0, <1>15 DEF SecondOK, DirectFirst, Spent
  <2> QED BY <2>1, <2>2, <1>0 DEF InPass
<1>21. ShortOnlyIfSpent'
  BY <1>0 DEF InPass, ShortOnlyIfSpent
<1> QED BY <1>12, <1>13, <1>14, <1>15, <1>18, <1>19, <1>20, <1>21 DEF IInv

LEMMA SecondPassStep ==
    ASSUME IInv, TypeOK', SecondPass PROVE IInv'
<1>0. /\ TypeOK /\ pc = "first" /\ pc' = "second" /\ queue = {} /\ left = {}
      /\ needed # 0 /\ queue' = Held \ Direct
      /\ UNCHANGED <<wallet, fee, left, needed, routes>>
  BY DEF SecondPass, IInv, Enough
<1>1. /\ Held' = Held /\ Used' = Used
      /\ \A b : Usable(b)' = Usable(b) /\ (Spent(b)' <=> Spent(b))
  BY <1>0, SameRoutes
<1>2. Held \subseteq Assets
  BY DEF Held
<1>3. \A a \in Held \cap Direct : fee[a] = NoFee \/ Spent(a)
  BY <1>0 DEF IInv, FirstOK, Open, Settled
<1>4. SecondOK' /\ FirstOK' /\ Quiet' /\ Queued'
  BY <1>0, <1>1, <1>2, <1>3 DEF SecondOK, FirstOK, Quiet, Queued, Open
<1>5. WholeOK' /\ OnlyLastIsPartial'
  BY <1>0, <1>1 DEF IInv, WholeOK, OnlyLastIsPartial
<1>6. DirectFirst'
  BY <1>0, <1>1, <1>3 DEF DirectFirst, Spent
<1>7. ShortOnlyIfSpent'
  BY <1>0 DEF ShortOnlyIfSpent
<1> QED BY <1>4, <1>5, <1>6, <1>7 DEF IInv

LEMMA DoneStep ==
    ASSUME IInv, TypeOK', Done PROVE IInv'
<1>0. /\ TypeOK /\ pc' = "done" /\ InPass /\ queue = {}
      /\ needed # 0 => pc = "second" /\ left = {}
      /\ UNCHANGED <<wallet, queue, fee, left, needed, routes>>
  BY DEF Done, IInv, Enough, InPass
<1>1. /\ Held' = Held /\ Used' = Used
      /\ \A b : Usable(b)' = Usable(b) /\ (Spent(b)' <=> Spent(b))
  BY <1>0, SameRoutes
<1>2. SecondOK' /\ FirstOK' /\ Quiet'
  BY <1>0 DEF SecondOK, FirstOK, Quiet
<1>3. Queued'
  BY <1>0, <1>1 DEF IInv, Queued, Open
<1>4. WholeOK' /\ OnlyLastIsPartial' /\ DirectFirst'
  BY <1>0, <1>1 DEF IInv, WholeOK, OnlyLastIsPartial, DirectFirst
<1>5. needed # 0 => \A a \in Held : fee[a] = NoFee \/ Spent(a)
  BY <1>0 DEF IInv, SecondOK, Open, Settled
<1>6. ShortOnlyIfSpent'
  BY <1>0, <1>1, <1>5 DEF ShortOnlyIfSpent, Spent, TypeOK
<1> QED BY <1>2, <1>3, <1>4, <1>6 DEF IInv

LEMMA NextInv == IInv /\ [Next]_vars => IInv'
<1> SUFFICES ASSUME IInv, [Next]_vars PROVE IInv'
  OBVIOUS
<1>0. TypeOK /\ TypeOK'
  BY TypeStep DEF IInv
<1>1. CASE GetBalances
  <2>1. /\ pc' = "price" /\ routes' = <<>> /\ queue' = {} /\ left' = {}
        /\ fee' = fee /\ needed' = needed
    BY <1>1 DEF GetBalances, IInv, Quiet
  <2>2. Quiet' /\ FirstOK' /\ SecondOK' /\ Queued'
    BY <2>1 DEF Quiet, FirstOK, SecondOK, Queued, Open
  <2>3. WholeOK' /\ OnlyLastIsPartial' /\ ShortOnlyIfSpent' /\ DirectFirst'
    BY <2>1 DEF WholeOK, OnlyLastIsPartial, ShortOnlyIfSpent, DirectFirst, Used
  <2> QED BY <1>0, <2>2, <2>3 DEF IInv
<1>2. CASE FirstPass
  <2>1. /\ pc' = "first" /\ routes' = <<>> /\ queue' = Held \cap Direct /\ left' = {}
        /\ fee' = fee /\ Held' = Held
    BY <1>2 DEF FirstPass, IInv, Quiet, Held
  <2>2. Quiet' /\ FirstOK' /\ SecondOK' /\ Queued'
    BY <2>1 DEF Quiet, FirstOK, SecondOK, Queued, Open, Used
  <2>3. WholeOK' /\ OnlyLastIsPartial' /\ ShortOnlyIfSpent' /\ DirectFirst'
    BY <2>1 DEF WholeOK, OnlyLastIsPartial, ShortOnlyIfSpent, DirectFirst, Used
  <2> QED BY <1>0, <2>2, <2>3 DEF IInv
<1>3. CASE Fail \/ Panic
  <2>1. /\ pc' \in {"failed", "panicked"}
        /\ UNCHANGED <<wallet, queue, fee, left, needed, routes>>
    BY <1>3 DEF Fail, Panic
  <2>2. /\ Held' = Held /\ Used' = Used
        /\ \A b : Usable(b)' = Usable(b) /\ (Spent(b)' <=> Spent(b))
    BY <2>1, SameRoutes
  <2>3. Quiet' /\ FirstOK' /\ SecondOK' /\ ShortOnlyIfSpent'
    BY <2>1 DEF Quiet, FirstOK, SecondOK, ShortOnlyIfSpent
  <2>4. Queued'
    BY <2>1, <2>2 DEF IInv, Queued, Open
  <2>5. WholeOK' /\ OnlyLastIsPartial' /\ DirectFirst'
    BY <2>1, <2>2 DEF IInv, WholeOK, OnlyLastIsPartial, DirectFirst
  <2> QED BY <1>0, <2>3, <2>4, <2>5 DEF IInv
<1>4. CASE UNCHANGED vars
  <2>1. UNCHANGED <<pc, wallet, queue, fee, left, target, needed, routes, cost>>
    BY <1>4 DEF vars
  <2>2. /\ Held' = Held /\ Used' = Used
        /\ \A b : Usable(b)' = Usable(b) /\ (Spent(b)' <=> Spent(b))
    BY <2>1, SameRoutes
  <2>3. Quiet' /\ Queued'
    BY <2>1, <2>2 DEF IInv, Quiet, Queued, Open
  <2>4. FirstOK' /\ SecondOK'
    BY <2>1, <2>2 DEF IInv, FirstOK, SecondOK, Open, Settled
  <2>5. WholeOK' /\ OnlyLastIsPartial' /\ DirectFirst' /\ ShortOnlyIfSpent'
    BY <2>1, <2>2 DEF IInv, WholeOK, OnlyLastIsPartial, DirectFirst, ShortOnlyIfSpent
  <2> QED BY <1>0, <2>3, <2>4, <2>5 DEF IInv
<1> QED
  BY <1>0, <1>1, <1>2, <1>3, <1>4, SecondPassStep, DoneStep, EstimateStep, TakeStep
  DEF Next

\* IInv is an inductive invariant of any routing request.
THEOREM RoutingInductive == Spec => []IInv
BY InitInv, NextInv, PTL DEF Spec

\* The fees, the queues and the routes of a request are what they should be,
\* and what is missing never becomes negative (routing_engine.rs:222-246).
THEOREM RoutingType == Spec => []TypeOK
<1>1. IInv => TypeOK
  BY DEF IInv
<1> QED BY <1>1, RoutingInductive, PTL

\* Whatever a user holds and whatever fees come back, another token is touched
\* only when every balance of the token asked for with an estimate is spent
\* (routing_engine.rs:123-156).
THEOREM DirectBalancesFirst == Spec => []DirectFirst
<1>1. IInv => DirectFirst
  BY DEF IInv
<1> QED BY <1>1, RoutingInductive, PTL

\* An answer falls short only if everything that has an estimate is spent, in
\* both passes (routing_engine.rs:106-164).
THEOREM ShortOnlyWhenSpent == Spec => []ShortOnlyIfSpent
<1>1. IInv => ShortOnlyIfSpent
  BY DEF IInv
<1> QED BY <1>1, RoutingInductive, PTL

\* At most one balance is split over both passes, and it is the last one taken
\* (routing_engine.rs:226-236).
THEOREM OneSplit == Spec => []OnlyLastIsPartial
<1>1. IInv => OnlyLastIsPartial
  BY DEF IInv
<1> QED BY <1>1, RoutingInductive, PTL

-----------------------------------------------------------------------------
(* The books of a request. *)

\* A balance that was taken is out of reach of the estimates and of the choice,
\* so its fee stays what was added to the cost.
UsedOK == \A a \in Used : a \in Held /\ fee[a] \in Fees /\ ~Open(a)

Books == Balanced /\ UsedOK

LEMMA RouteDomain ==
    ASSUME TypeOK
    PROVE  /\ Len(routes) \in Nat /\ DOMAIN routes = 1 .. Len(routes)
           /\ IsFiniteSet(DOMAIN routes)
           /\ DOMAIN Payments = DOMAIN routes /\ DOMAIN RouteFees = DOMAIN routes
           /\ \A i \in DOMAIN routes : routes[i].usd \in Nat /\ routes[i].asset \in Assets
<1>1. routes \in Seq(RouteType)
  BY DEF TypeOK, RouteType
<1>2. /\ Len(routes) \in Nat /\ DOMAIN routes = 1 .. Len(routes)
      /\ \A i \in DOMAIN routes : routes[i] \in RouteType
  BY <1>1
<1>3. \A r \in RouteType : r.usd \in Nat /\ r.asset \in Assets
  BY DEF RouteType
<1> QED BY <1>2, <1>3, FS_Interval DEF Payments, RouteFees

LEMMA SumOfNothing ==
    ASSUME NEW f, DOMAIN f = {} PROVE SumFunction(f) = 0
  BY SumEmpty DEF SumFunction

LEMMA NoBooks ==
    routes = <<>> =>
       /\ SumFunction(Payments) = 0 /\ SumFunction(RouteFees) = 0
       /\ Used = {} /\ Cardinality(Used) = Len(routes) /\ DOMAIN routes = {}
<1> SUFFICES ASSUME routes = <<>>
             PROVE  /\ SumFunction(Payments) = 0 /\ SumFunction(RouteFees) = 0
                    /\ Used = {} /\ Cardinality(Used) = Len(routes) /\ DOMAIN routes = {}
  OBVIOUS
<1>1. DOMAIN routes = {} /\ Len(routes) = 0
  OBVIOUS
<1>2. DOMAIN Payments = {} /\ DOMAIN RouteFees = {} /\ Used = {}
  BY <1>1 DEF Payments, RouteFees, Used
<1> QED BY <1>1, <1>2, SumOfNothing, FS_EmptySet

\* A step that leaves the routes and the fees of their balances alone.
LEMMA SameBooks ==
    ASSUME TypeOK, Books, UNCHANGED <<wallet, needed, routes, target, cost>>,
           \A a \in Used : fee'[a] = fee[a] /\ ~Open(a)'
    PROVE  Books'
<1>1. /\ Held' = Held /\ Used' = Used /\ Payments' = Payments
      /\ \A a : Usable(a)' = Usable(a)
  BY SameRoutes DEF Payments
<1>2. RouteFees' = RouteFees
  BY DEF RouteFees, Used
<1>3. Balanced'
  BY <1>1, <1>2 DEF Books, Balanced
<1>4. UsedOK'
  BY <1>1 DEF Books, UsedOK
<1> QED BY <1>3, <1>4 DEF Books

LEMMA EstimateBooks ==
    ASSUME IInv, Books, NEW a \in Assets, Estimate(a) PROVE Books'
<1>1. TypeOK /\ a \in queue /\ UNCHANGED <<wallet, needed, routes, target, cost>>
  BY DEF Estimate, IInv
<1>2. PICK f : /\ fee' = [fee EXCEPT ![a] = f]
               /\ left' \subseteq left \cup {a} /\ queue' = queue \ {a}
  BY DEF Estimate
<1>3. a \notin Used
  BY <1>1 DEF Books, UsedOK, Open
<1>4. \A b \in Used : fee'[b] = fee[b] /\ ~Open(b)'
  BY <1>1, <1>2, <1>3 DEF Books, UsedOK, Open, TypeOK, Held
<1> QED BY <1>1, <1>4, SameBooks

LEMMA TakeBooks ==
    ASSUME IInv, Books, NEW a \in Assets, Take(a) PROVE Books'
<1> DEFINE r == [asset |-> a, usd |-> Taken(a)]
           n == Len(routes) + 1
<1>1. /\ TypeOK /\ a \in left
      /\ UNCHANGED <<wallet, queue, fee, target>> /\ left' = left \ {a}
      /\ needed' = needed - Taken(a) /\ cost' = cost + fee[a]
      /\ routes' = Append(routes, r)
  BY DEF Take, IInv
<1>2. a \in Held /\ fee[a] \in Fees /\ fee[a] \in Int /\ a \notin queue
  BY <1>1, RoutingAssumption DEF IInv, Queued, Open, RoutingAssumption
<1>3. Taken(a) \in Nat /\ Usable(a) \in Nat /\ needed \in Nat /\ target \in Nat /\ cost \in Int
      /\ Taken(a) <= Usable(a)
  BY <1>1, <1>2, TakenType, UsableType DEF Taken, TypeOK
<1>4. /\ routes \in Seq(RouteType) /\ r \in RouteType
      /\ r.asset = a /\ r.usd = Taken(a)
  BY <1>1, <1>3 DEF TypeOK, RouteType
<1>5. /\ Len(routes') = n /\ Len(routes) \in Nat /\ n \notin DOMAIN routes
      /\ DOMAIN routes' = DOMAIN routes \cup {n}
      /\ \A i \in DOMAIN routes : routes'[i] = routes[i]
      /\ routes'[n] = r
  <2> HIDE DEF r
  <2> QED BY <1>1, <1>4
<1>6. Held' = Held /\ \A b : Usable(b)' = Usable(b)
  BY <1>1 DEF Held, Usable
<1> HIDE DEF r, n
<1>7. a \notin Used /\ Used' = Used \cup {a}
  <2>1. a \notin Used
    BY <1>1 DEF Books, UsedOK, Open
  <2> QED BY <1>4, <1>5, <2>1 DEF Used
<1>8. /\ IsFiniteSet(DOMAIN routes)
      /\ DOMAIN Payments = DOMAIN routes /\ DOMAIN RouteFees = DOMAIN routes
      /\ DOMAIN Payments' = DOMAIN routes' /\ DOMAIN RouteFees' = DOMAIN routes'
      /\ \A i \in DOMAIN routes : routes[i].usd \in Nat /\ routes[i].asset \in Used
  BY <1>1, RouteDomain DEF Payments, RouteFees, Used
<1>9. /\ \A i \in DOMAIN routes : Payments[i] \in Int /\ Payments[i] = Payments'[i]
      /\ Payments'[n] = Taken(a)
  BY <1>4, <1>5, <1>8 DEF Payments
<1>10. /\ \A i \in DOMAIN routes : RouteFees[i] \in Int /\ RouteFees[i] = RouteFees'[i]
       /\ RouteFees'[n] = fee[a]
  <2>1. \A b \in Used : fee[b] \in Int
    BY RoutingAssumption DEF Books, UsedOK, RoutingAssumption
  <2> QED BY <1>1, <1>4, <1>5, <1>8, <2>1 DEF RouteFees
\* One more term of each sum
<1>11. ASSUME NEW f, NEW g, DOMAIN f = DOMAIN routes, DOMAIN g = DOMAIN routes \cup {n},
              \A i \in DOMAIN routes : f[i] \in Int /\ f[i] = g[i], g[n] \in Int
       PROVE  SumFunction(g) = g[n] + SumFunction(f) /\ SumFunction(f) \in Int
  <2>1. SumFunctionOnSet(f, DOMAIN routes) = SumFunctionOnSet(g, DOMAIN routes)
    BY <1>8, <1>11, SumSame
  <2>2. \A i \in DOMAIN routes : g[i] \in Int
    BY <1>11
  <2>3. SumFunctionOnSet(g, DOMAIN routes \cup {n}) = g[n] + SumFunctionOnSet(g, DOMAIN routes)
    BY <1>5, <1>8, <1>11, <2>2, SumAdd
  <2>4. SumFunctionOnSet(f, DOMAIN routes) \in Int
    BY <1>8, <1>11, SumInt
  <2> QED BY <1>11, <2>1, <2>3, <2>4 DEF SumFunction
<1>12. SumFunction(Payments)' = Taken(a) + SumFunction(Payments) /\ SumFunction(Payments) \in Int
  <2>1. DOMAIN Payments' = DOMAIN routes \cup {n} /\ Payments'[n] \in Int
    BY <1>3, <1>5, <1>8, <1>9
  <2> QED BY <1>8, <1>9, <1>11, <2>1
<1>13. SumFunction(RouteFees)' = fee[a] + SumFunction(RouteFees) /\ SumFunction(RouteFees) \in Int
  <2>1. DOMAIN RouteFees' = DOMAIN routes \cup {n} /\ RouteFees'[n] \in Int
    BY <1>2, <1>5, <1>8, <1>10
  <2> QED BY <1>8, <1>10, <1>11, <2>1
<1>14. Cardinality(Used') = Len(routes')
  <2>1. IsFiniteSet(Used)
    BY <1>1, RouteDomain, RoutingAssumption, FS_Subset DEF Used, RoutingAssumption
  <2>2. Cardinality(Used \cup {a}) = Cardinality(Used) + 1
    BY <1>7, <2>1, FS_AddElement
  <2> QED BY <1>5, <1>7, <2>2 DEF Books, Balanced, n
<1>15. \A i \in DOMAIN routes' : routes'[i].usd <= Usable(routes'[i].asset)
  BY <1>3, <1>4, <1>5 DEF Books, Balanced
<1>16. Balanced'
  <2>1. needed' + SumFunction(Payments)' = target'
    BY <1>1, <1>3, <1>12 DEF Books, Balanced
  <2>2. cost' = SumFunction(RouteFees)'
    BY <1>1, <1>2, <1>3, <1>13 DEF Books, Balanced
  <2> QED BY <1>6, <1>14, <1>15, <2>1, <2>2 DEF Balanced
<1>17. UsedOK'
  BY <1>1, <1>2, <1>6, <1>7 DEF Books, UsedOK, Open
<1> QED BY <1>16, <1>17 DEF Books

LEMMA BooksStep == IInv /\ Books /\ [Next]_vars => Books'
<1> SUFFICES ASSUME IInv, Books, [Next]_vars PROVE Books'
  OBVIOUS
<1>1. CASE GetBalances \/ FirstPass
  <2>1. /\ routes = <<>> /\ routes' = <<>> /\ cost' = cost /\ cost \in Int
        /\ needed \in Nat /\ target \in Nat
        /\ \/ needed' = needed /\ target' = target
           \/ needed' = target' /\ target' \in Targets
    BY <1>1 DEF GetBalances, FirstPass, IInv, Quiet, TypeOK
  <2>2. SumFunction(Payments) = 0 /\ SumFunction(RouteFees) = 0
    BY <2>1, NoBooks
  <2>3. /\ DOMAIN routes' = {} /\ Len(routes') = 0
        /\ DOMAIN Payments' = {} /\ DOMAIN RouteFees' = {} /\ Used' = {}
    BY <2>1 DEF Payments, RouteFees, Used
  <2>4. SumFunction(Payments)' = 0 /\ SumFunction(RouteFees)' = 0 /\ Cardinality(Used)' = 0
    BY <2>3, SumOfNothing, FS_EmptySet
  <2>5. needed + SumFunction(Payments) = target /\ cost = SumFunction(RouteFees)
    BY DEF Books, Balanced
  <2>6. needed' \in Nat /\ needed' = target'
    <3>1. Targets \subseteq Nat
      BY RoutingAssumption DEF RoutingAssumption
    <3>2. needed = target
      BY <2>1, <2>2, <2>5
    <3> QED BY <2>1, <3>1, <3>2
  <2>7. needed' + SumFunction(Payments)' = target' /\ cost' = SumFunction(RouteFees)'
    <3>1. needed' + 0 = needed'
      <4>1. \A x \in Nat : x + 0 = x
        OBVIOUS
      <4> QED BY <2>6, <4>1
    <3>2. cost' = 0
      BY <2>1, <2>2, <2>5
    <3> QED BY <2>4, <2>6, <3>1, <3>2
  <2>8. Cardinality(Used)' = Len(routes)' /\ \A i \in DOMAIN routes' : FALSE
    BY <2>3, <2>4
  <2>9. Balanced'
    BY <2>7, <2>8 DEF Balanced
  <2> QED BY <2>3, <2>9 DEF Books, UsedOK
<1>2. CASE SecondPass
  <2>1. /\ TypeOK /\ pc = "first" /\ queue' = Held \ Direct /\ left' = {} /\ fee' = fee
        /\ UNCHANGED <<wallet, needed, routes, target, cost>>
    BY <1>2 DEF SecondPass, IInv
  <2>2. \A a \in Used : fee'[a] = fee[a] /\ ~Open(a)'
    BY <2>1 DEF IInv, FirstOK, Open
  <2> QED BY <2>1, <2>2, SameBooks
<1>3. CASE Fail \/ Panic \/ Done \/ UNCHANGED vars
  <2>1. /\ TypeOK /\ UNCHANGED <<wallet, needed, routes, target, cost, fee, queue, left>>
    BY <1>3 DEF Fail, Panic, Done, vars, IInv
  <2>2. \A a \in Used : fee'[a] = fee[a] /\ ~Open(a)'
    BY <2>1 DEF Books, UsedOK, Open
  <2> QED BY <2>1, <2>2, SameBooks
<1> QED BY <1>1, <1>2, <1>3, EstimateBooks, TakeBooks DEF Next

\* Over both passes, whatever fees come back in between: what the routes pay
\* and what is missing add up to the target, the cost is that of the routes,
\* and no balance is used twice or beyond its usable value
\* (routing_engine.rs:106-164, :222-246).
THEOREM EveryDollarAccounted == Spec => []Balanced
<1>1. Init => Books
  <2> SUFFICES ASSUME Init PROVE Books
    OBVIOUS
  <2>1. routes = <<>> /\ needed = 0 /\ target = 0 /\ cost = 0 /\ DOMAIN routes = {}
    BY DEF Init
  <2> QED BY <2>1, NoBooks DEF Books, Balanced, UsedOK
<1>2. Books => Balanced
  BY DEF Books
<1> QED BY <1>1, <1>2, BooksStep, RoutingInductive, PTL DEF Spec

-----------------------------------------------------------------------------
(* Fees and routes. *)

\* What a fee that is not paid for yet was estimated for.
AskedOK(a) ==
    /\ asked[a] <= target /\ asked[a] <= wallet[a].value
    /\ asked[a] = wallet[a].value \/ needed <= asked[a]

\* The fee of a route is for no more than the route takes and keeps back.
Tight(i) == asked[routes[i].asset] <= routes[i].usd + Reserve(routes[i].asset)

Fits ==
    /\ needed <= target
    /\ \A a \in left : AskedOK(a)
    /\ \A i \in DOMAIN routes :
          /\ routes[i].usd <= asked[routes[i].asset]
          /\ asked[routes[i].asset] <= target
          /\ i < Len(routes) \/ needed > 0 => Tight(i)

\* A step that neither takes a balance nor asks for one that is used.
LEMMA SameFits ==
    ASSUME Fits, UNCHANGED <<wallet, needed, routes, target>>,
           left' \subseteq left, \A a \in left \cup Used : asked'[a] = asked[a]
    PROVE  Fits'
<1>1. \A i \in DOMAIN routes : routes[i].asset \in Used
  BY DEF Used
<1>2. \A i \in DOMAIN routes : Tight(i)' = Tight(i)
  BY <1>1 DEF Tight, Reserve
<1>3. \A a \in left' : AskedOK(a)' = AskedOK(a)
  BY DEF AskedOK
<1> QED BY <1>1, <1>2, <1>3 DEF Fits

LEMMA EstimateFits ==
    ASSUME IInv, Books, Fits, NEW a \in Assets, Estimate(a) PROVE Fits'
<1>1. /\ TypeOK /\ a \in queue /\ UNCHANGED <<wallet, needed, routes, target>>
      /\ asked' = [asked EXCEPT ![a] = Share(a)] /\ left' \subseteq left \cup {a}
  BY DEF Estimate, IInv
<1>2. a \in Held /\ a \notin Used /\ a \notin left
  BY <1>1 DEF IInv, Queued, Books, UsedOK, Open
<1>3. asked'[a] = Share(a) /\ \A b \in Assets \ {a} : asked'[b] = asked[b]
  BY <1>1 DEF TypeOK
<1>4. wallet[a].value \in Nat /\ needed \in Nat /\ target \in Nat /\ needed <= target
  BY <1>1, <1>2, ValueType DEF TypeOK, Fits
<1>5. AskedOK(a)'
  BY <1>1, <1>3, <1>4 DEF AskedOK, Share
<1>6. \A b \in left' \ {a} : AskedOK(b)'
  BY <1>1, <1>3 DEF AskedOK, Fits, TypeOK
<1>7. \A i \in DOMAIN routes : asked'[routes[i].asset] = asked[routes[i].asset]
  BY <1>1, <1>2, <1>3, RouteDomain DEF Used
<1>8. \A i \in DOMAIN routes : Tight(i)' = Tight(i)
  BY <1>1, <1>7 DEF Tight, Reserve
<1> QED BY <1>1, <1>5, <1>6, <1>7, <1>8 DEF Fits

LEMMA TakeFits ==
    ASSUME IInv, Fits, NEW a \in Assets, Take(a) PROVE Fits'
<1> DEFINE r == [asset |-> a, usd |-> Taken(a)]
<1>1. /\ TypeOK /\ a \in left /\ needed # 0 /\ needed \in Nat /\ target \in Nat
      /\ UNCHANGED <<wallet, asked, target>> /\ left' = left \ {a}
      /\ needed' = needed - Taken(a) /\ routes' = Append(routes, r)
  BY DEF Take, IInv, TypeOK, Enough
<1>2. a \in Held
  BY <1>1 DEF IInv, Queued, Open
<1>3. /\ Taken(a) \in Nat /\ needed' \in Nat /\ needed' <= needed
      /\ needed' > 0 => Taken(a) = Usable(a)
      /\ Taken(a) <= needed /\ Taken(a) <= Usable(a)
  BY <1>1, <1>2, TakenType, UsableType DEF Taken
<1>4. /\ Usable(a) \in Nat /\ Reserve(a) \in Nat /\ wallet[a].value \in Nat
      /\ Usable(a) <= wallet[a].value /\ wallet[a].value <= Usable(a) + Reserve(a)
  BY <1>1, <1>2, UsableBounds, ValueType
<1>5. AskedOK(a) /\ \A b \in Assets : asked[b] \in Nat
  BY <1>1 DEF Fits, TypeOK
<1>6. /\ Taken(a) <= asked[a] /\ asked[a] <= target
      /\ needed' > 0 => asked[a] <= Taken(a) + Reserve(a)
  BY <1>1, <1>3, <1>4, <1>5 DEF AskedOK
<1>7. /\ routes \in Seq(RouteType) /\ r \in RouteType
      /\ r.asset = a /\ r.usd = Taken(a)
  BY <1>1, <1>3 DEF TypeOK, RouteType
<1> HIDE DEF r
<1>8. /\ Len(routes') = Len(routes) + 1 /\ Len(routes) \in Nat
      /\ DOMAIN routes' = DOMAIN routes \cup {Len(routes')}
      /\ \A i \in DOMAIN routes : routes'[i] = routes[i]
      /\ routes'[Len(routes')] = r
  BY <1>1, <1>7
<1>9. \A i \in DOMAIN routes : Tight(i)'
  BY <1>1, <1>8 DEF Fits, Tight, Reserve
<1>10. \A b \in left' : AskedOK(b)'
  <2> SUFFICES ASSUME NEW b \in left' PROVE AskedOK(b)'
    OBVIOUS
  <2>1. b \in left /\ b \in Assets
    BY <1>1 DEF TypeOK
  <2>2. AskedOK(b) /\ asked[b] \in Nat
    BY <2>1, <1>5 DEF Fits
  <2> QED BY <2>2, <1>1, <1>3 DEF AskedOK
<1>11. needed' <= target'
  BY <1>1, <1>3 DEF Fits
<1>12. \A i \in DOMAIN routes :
          /\ routes'[i].usd <= asked'[routes'[i].asset]
          /\ asked'[routes'[i].asset] <= target'
  BY <1>1, <1>8 DEF Fits
<1>13. ASSUME NEW i \in DOMAIN routes'
       PROVE  /\ routes'[i].usd <= asked'[routes'[i].asset]
              /\ asked'[routes'[i].asset] <= target'
              /\ i < Len(routes') \/ needed' > 0 => Tight(i)'
  <2>1. CASE i \in DOMAIN routes
    BY <2>1, <1>9, <1>12
  <2>2. CASE i = Len(routes')
    <3>1. routes'[i].asset = a /\ routes'[i].usd = Taken(a)
      BY <2>2, <1>7, <1>8
    <3>2. ~(i < Len(routes'))
      BY <2>2, <1>8
    <3>3. asked'[a] = asked[a] /\ target' = target
      BY <1>1
    <3>4. needed' > 0 => Tight(i)'
      BY <3>1, <3>3, <1>6 DEF Tight, Reserve
    <3> QED BY <3>1, <3>2, <3>3, <3>4, <1>6
  <2> QED BY <1>8, <2>1, <2>2
<1> QED BY <1>10, <1>11, <1>13 DEF Fits

LEMMA FitsStep == IInv /\ Books /\ Fits /\ [Next]_vars => Fits'
<1> SUFFICES ASSUME IInv, Books, Fits, [Next]_vars PROVE Fits'
  OBVIOUS
<1>1. CASE FirstPass
  <2>1. /\ needed' = target' /\ target' \in Nat /\ left' = {} /\ routes' = <<>>
    BY <1>1, RoutingAssumption DEF FirstPass, IInv, Quiet, RoutingAssumption
  <2> QED BY <2>1 DEF Fits
<1>2. CASE GetBalances
  <2>1. /\ needed' = needed /\ target' = target /\ left' = {} /\ routes' = <<>>
    BY <1>2 DEF GetBalances, IInv, Quiet
  <2> QED BY <2>1 DEF Fits
<1>3. CASE SecondPass \/ Fail \/ Panic \/ Done \/ UNCHANGED vars
  BY <1>3, SameFits DEF SecondPass, Fail, Panic, Done, vars
<1> QED BY <1>1, <1>2, <1>3, EstimateFits, TakeFits DEF Next

\* Although every fee of a pass is estimated before a balance is taken, the fee
\* of each route but the last is for what the route pays and keeps back, and no
\* fee is for less than its route pays (routing_engine.rs:177-196, :226-236).
THEOREM FeesAreForTheirRoutes == Spec => []FeesFitRoutes
<1>1. Init => Books /\ Fits
  <2> SUFFICES ASSUME Init PROVE Books /\ Fits
    OBVIOUS
  <2>1. /\ routes = <<>> /\ needed = 0 /\ target = 0 /\ cost = 0 /\ DOMAIN routes = {}
        /\ left = {}
    BY DEF Init
  <2> QED BY <2>1, NoBooks DEF Books, Balanced, UsedOK, Fits
<1>2. Fits => FeesFitRoutes
  BY DEF Fits, FeesFitRoutes, Tight, Reserve
<1> QED BY <1>1, <1>2, BooksStep, FitsStep, RoutingInductive, PTL DEF Spec
=============================================================================
