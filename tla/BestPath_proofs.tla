--------------------------- MODULE BestPath_proofs ---------------------------
(***************************************************************************)
(* Proofs about BestPath, for any requests, users, prices, rounding and    *)
(* number of routes that are built at once.                                *)
(***************************************************************************)
EXTENDS BestPath, SumTheorems

-----------------------------------------------------------------------------
(* The inductive invariant. *)

Asks == {u.asks[r] : u \in Users, r \in Requests}
AccountLists == {u.accounts : u \in Users} \cup {<<x.account>> : x \in Asks} \cup {<<>>}

RouteRecords == [usd : Nat, amount : Nat, price : Nat, stage : RouteStages]
RouteMaps == UNION {[S -> RouteRecords] : S \in SUBSET Balances}

RequestRecords ==
    [stage : Stages, ask : Asks, accounts : AccountLists, balances : SUBSET Balances,
     value : Nat, routes : RouteMaps, fault : BOOLEAN]

\* A request keeps what it asked for, and goes on only if it was admitted.
AskOK(q, r) ==
    /\ q.ask = user.asks[r]
    /\ q.stage \notin {"idle", "rejected"} => Admitted(q.ask)
    /\ q.stage \in {"wait", "pricing", "settle", "approve"} => q.ask.kind # "balance"

\* Its balances and routes are finitely many items that the user has, of
\* tokens that are configured; there is no route before the choice.
OwnOK(q) ==
    /\ q.stage \in {"idle", "lookup", "fetch", "wait", "pricing"} => DOMAIN q.routes = {}
    /\ IsFiniteSet(q.balances) /\ IsFiniteSet(DOMAIN q.routes)
    /\ \A b \in q.balances \cup DOMAIN q.routes :
          b.item \in user.items /\ b.item.token \in Tokens

\* What was chosen is worth no more than what is asked for, and no route asks
\* for more than its share or than the balance.
MoneyOK(q) ==
    /\ Chosen(q.routes) <= q.value
    /\ \A b \in DOMAIN q.routes :
          /\ q.routes[b].amount * q.routes[b].price <= q.routes[b].usd
          /\ q.routes[b].amount <= b.item.units + Rounding

\* An answer has all its routes.
DoneOK(q) ==
    q.stage = "approve" \/ (q.stage = "answered" /\ q.ask.kind # "balance") =>
        /\ DOMAIN q.routes # {}
        /\ \A b \in DOMAIN q.routes : q.routes[b].stage = "built"

\* One pass sorts two balances of which one may have no score.
Unscored(q) ==
    \E b, d \in WithBucket(q.balances) :
       /\ b # d /\ (b.item.token = q.ask.token <=> d.item.token = q.ask.token)
       /\ MayLackScore(b)

\* How a request that failed or panicked came to that.
EndOK(q) ==
    /\ \A b \in DOMAIN q.routes :
          (q.routes[b].stage = "failed" /\ ~q.fault) => q.routes[b].amount = 0
    /\ q.stage = "failed" /\ ~q.fault =>
          DOMAIN q.routes = {} \/ \E b \in DOMAIN q.routes : q.routes[b].amount = 0
    /\ q.stage = "panicked" =>
          \/ \E h \in user.items : h.token = Unnamed /\ h.usd # 0
          \/ Unscored(q)
          \/ \E b \in DOMAIN q.routes :
                q.routes[b].stage = "pricing" /\ 0 \in Prices[b.item.token]

\* One task of a request at most awaits a price, and it holds the mutex.
MutexOK(q, r) ==
    /\ q.stage = "pricing" => holder = r
    /\ q.stage = "settle" =>
          /\ \A b \in DOMAIN q.routes : q.routes[b].stage = "pricing" => holder = r
          /\ \A b, d \in DOMAIN q.routes :
                q.routes[b].stage = "pricing" /\ q.routes[d].stage = "pricing" => b = d

Good(q, r) == AskOK(q, r) /\ OwnOK(q) /\ MoneyOK(q) /\ DoneOK(q) /\ EndOK(q)

IInv ==
    /\ user \in Users
    /\ holder \in Requests \cup {Nobody}
    /\ request \in [Requests -> RequestRecords]
    /\ \A r \in Requests : Good(request[r], r) /\ MutexOK(request[r], r)

-----------------------------------------------------------------------------
(* Sums over sets of balances. *)

LEMMA SumOfNothing ==
    ASSUME NEW f, DOMAIN f = {} PROVE SumFunction(f) = 0
  BY SumEmpty DEF SumFunction

LEMMA SumOfOne ==
    ASSUME NEW f, NEW x, DOMAIN f = {x}, f[x] \in Int PROVE SumFunction(f) = f[x]
<1>1. SumFunctionOnSet(f, {} \cup {x}) = f[x] + SumFunctionOnSet(f, {})
  BY SumAdd, FS_EmptySet
<1>2. {} \cup {x} = {x} /\ SumFunctionOnSet(f, {}) = 0
  BY SumEmpty
<1> QED BY <1>1, <1>2 DEF SumFunction

\* The values of some routes.
Values(routes) == [b \in DOMAIN routes |-> routes[b].usd]

LEMMA ChosenIsSum ==
    ASSUME NEW t PROVE Chosen(t) = SumFunctionOnSet(Values(t), DOMAIN t)
  BY DEF Chosen, Values, SumFunction

LEMMA ChosenSame ==
    ASSUME NEW s, NEW t, DOMAIN s = DOMAIN t, \A b \in DOMAIN s : s[b].usd = t[b].usd
    PROVE  Chosen(s) = Chosen(t)
<1>1. [b \in DOMAIN s |-> s[b].usd] = [b \in DOMAIN t |-> t[b].usd]
  OBVIOUS
<1> QED BY <1>1 DEF Chosen

LEMMA ChosenNone == DOMAIN NoRoutes = {} /\ Chosen(NoRoutes) = 0
<1>1. DOMAIN NoRoutes = {}
  BY DEF NoRoutes
<1>2. DOMAIN [b \in DOMAIN NoRoutes |-> NoRoutes[b].usd] = {}
  BY <1>1
<1> QED BY <1>1, <1>2, SumOfNothing DEF Chosen

\* Two disjoint sets of routes.
LEMMA ChosenBoth ==
    ASSUME NEW f, NEW g, IsFiniteSet(DOMAIN f), IsFiniteSet(DOMAIN g),
           DOMAIN f \cap DOMAIN g = {},
           \A b \in DOMAIN f : f[b].usd \in Nat, \A b \in DOMAIN g : g[b].usd \in Nat
    PROVE  Chosen(Both(f, g)) = Chosen(f) + Chosen(g)
<1> DEFINE h == Both(f, g)
           F == DOMAIN f
           K == DOMAIN g
<1>1. /\ DOMAIN h = F \cup K
      /\ \A b \in F : h[b] = f[b]
      /\ \A b \in K : h[b] = g[b]
  BY DEF Both
<1> HIDE DEF h
<1>2. /\ \A b \in F : Values(h)[b] = Values(f)[b] /\ Values(h)[b] \in Int
      /\ \A b \in K : Values(h)[b] = Values(g)[b] /\ Values(h)[b] \in Int
  BY <1>1 DEF Values
<1>3. SumFunctionOnSet(Values(h), F \cup K) =
         SumFunctionOnSet(Values(h), F) + SumFunctionOnSet(Values(h), K)
  BY <1>2, SumUnion
<1>4. SumFunctionOnSet(Values(h), F) = SumFunctionOnSet(Values(f), F)
  BY <1>2, SumSame
<1>5. SumFunctionOnSet(Values(h), K) = SumFunctionOnSet(Values(g), K)
  BY <1>2, SumSame
<1>6. Chosen(h) = Chosen(f) + Chosen(g)
  BY <1>1, <1>3, <1>4, <1>5, ChosenIsSum
<1> QED BY <1>6 DEF h

-----------------------------------------------------------------------------
(* The choice. *)

LEMMA RouteType ==
    ASSUME NEW u \in Nat
    PROVE  /\ Route(u) \in RouteRecords
           /\ Route(u).usd = u /\ Route(u).amount = 0 /\ Route(u).price = 0
           /\ Route(u).stage = "wait"
  BY DEF Route, RouteRecords, RouteStages

\* A pass takes from balances of its own, and no more than is needed.
LEMMA TakesSound ==
    ASSUME NEW B, IsFiniteSet(B), \A b \in B : Usable(b) \in Nat,
           NEW need \in Nat, NEW t \in Takes(B, need)
    PROVE  /\ DOMAIN t \subseteq B /\ IsFiniteSet(DOMAIN t)
           /\ t = [b \in DOMAIN t |-> t[b]]
           /\ \A b \in DOMAIN t : \E u \in Nat : t[b] = Route(u)
           /\ Chosen(t) \in Nat /\ Chosen(t) <= need
<1> DEFINE priced == {b \in B : <<b.item.token, b.item.chain>> \in Bucketed}
           U(S) == [b \in S |-> Usable(b)]
<1>1. ASSUME NEW s \in SUBSET priced
      PROVE  /\ IsFiniteSet(s) /\ s \subseteq B
             /\ \A b \in s : U(s)[b] \in Nat /\ Usable(b) \in Nat
             /\ Worth(s) = SumFunctionOnSet(U(s), s)
             /\ Worth(s) \in Nat
  <2>1. s \subseteq B /\ IsFiniteSet(s)
    BY FS_Subset
  <2>2. \A b \in s : U(s)[b] \in Nat /\ Usable(b) \in Nat
    BY <2>1
  <2>3. Worth(s) = SumFunctionOnSet(U(s), s)
    BY DEF Worth, SumFunction
  <2> HIDE DEF U
  <2> QED BY <2>1, <2>2, <2>3, SumNat
<1>2. CASE need = 0
  <2>1. t = NoRoutes
    BY <1>2 DEF Takes
  <2>2. NoRoutes = [b \in DOMAIN NoRoutes |-> NoRoutes[b]]
    BY DEF NoRoutes
  <2> QED BY <2>1, <2>2, ChosenNone, FS_EmptySet
<1>3. ASSUME NEW s \in SUBSET priced, Worth(s) < need, t = [b \in s |-> Route(Usable(b))]
      PROVE  /\ DOMAIN t = s /\ t = [b \in DOMAIN t |-> t[b]]
             /\ \A b \in DOMAIN t : \E u \in Nat : t[b] = Route(u)
             /\ Chosen(t) = Worth(s)
  <2>1. DOMAIN t = s /\ \A b \in s : t[b] = Route(Usable(b))
    BY <1>3
  <2>2. \A b \in s : t[b].usd = Usable(b)
    BY <1>1, <2>1, RouteType
  <2>3. [b \in DOMAIN t |-> t[b].usd] = [b \in s |-> Usable(b)]
    BY <2>1, <2>2
  <2> QED BY <1>1, <1>3, <2>1, <2>3 DEF Chosen, Worth
<1>4. ASSUME NEW s \in SUBSET priced, Worth(s) < need, NEW last \in priced \ s,
             t = [b \in s \cup {last} |->
                     Route(IF b = last THEN need - Worth(s) ELSE Usable(b))]
      PROVE  /\ DOMAIN t = s \cup {last} /\ t = [b \in DOMAIN t |-> t[b]]
             /\ \A b \in DOMAIN t : \E u \in Nat : t[b] = Route(u)
             /\ Chosen(t) = need
  <2>0. /\ Worth(s) \in Nat /\ IsFiniteSet(s) /\ s \subseteq B
        /\ \A b \in s : Usable(b) \in Nat
    BY <1>1
  <2>1. need - Worth(s) \in Nat
    BY <1>4, <2>0
  <2>2. /\ DOMAIN t = s \cup {last} /\ t[last] = Route(need - Worth(s))
        /\ \A b \in s : t[b] = Route(Usable(b))
    BY <1>4
  <2>3. Values(t)[last] = need - Worth(s) /\ \A b \in s : Values(t)[b] = Usable(b)
    BY <1>1, <2>1, <2>2, RouteType DEF Values
  <2>4. SumFunctionOnSet(Values(t), s \cup {last}) =
           Values(t)[last] + SumFunctionOnSet(Values(t), s)
    <3>1. Values(t)[last] \in Int /\ \A b \in s : Values(t)[b] \in Int
      BY <2>0, <2>1, <2>3
    <3>2. last \notin s
      OBVIOUS
    <3> QED BY <2>0, <3>1, <3>2, SumAdd
  <2>5. SumFunctionOnSet(Values(t), s) = SumFunctionOnSet(U(s), s)
    BY <1>1, <2>3, SumSame
  <2>6. Chosen(t) = need
    BY <1>1, <2>2, <2>3, <2>4, <2>5, ChosenIsSum
  <2> QED BY <1>1, <1>4, <2>1, <2>2, <2>6
<1>5. CASE need # 0
  <2>1. \/ \E s \in SUBSET priced : Worth(s) < need /\ t = [b \in s |-> Route(Usable(b))]
        \/ \E s \in SUBSET priced : Worth(s) < need /\ \E last \in priced \ s :
              t = [b \in s \cup {last} |->
                      Route(IF b = last THEN need - Worth(s) ELSE Usable(b))]
    BY <1>5 DEF Takes, WithBucket
  <2>2. CASE \E s \in SUBSET priced : Worth(s) < need /\ t = [b \in s |-> Route(Usable(b))]
    <3>1. PICK s \in SUBSET priced : Worth(s) < need /\ t = [b \in s |-> Route(Usable(b))]
      BY <2>2
    <3>2. /\ DOMAIN t = s /\ t = [b \in DOMAIN t |-> t[b]]
          /\ \A b \in DOMAIN t : \E u \in Nat : t[b] = Route(u)
          /\ Chosen(t) = Worth(s)
      BY <1>3, <3>1
    <3>3. s \subseteq B /\ IsFiniteSet(s) /\ Worth(s) \in Nat
      BY <1>1
    <3>4. Chosen(t) \in Nat /\ Chosen(t) <= need
      BY <3>1, <3>2, <3>3
    <3> QED BY <3>2, <3>3, <3>4
  <2>3. CASE \E s \in SUBSET priced : Worth(s) < need /\ \E last \in priced \ s :
              t = [b \in s \cup {last} |->
                      Route(IF b = last THEN need - Worth(s) ELSE Usable(b))]
    <3>1. PICK s \in SUBSET priced : Worth(s) < need /\ \E last \in priced \ s :
              t = [b \in s \cup {last} |->
                      Route(IF b = last THEN need - Worth(s) ELSE Usable(b))]
      BY <2>3
    <3>2. PICK last \in priced \ s :
              t = [b \in s \cup {last} |->
                      Route(IF b = last THEN need - Worth(s) ELSE Usable(b))]
      BY <3>1
    <3>3. /\ DOMAIN t = s \cup {last} /\ t = [b \in DOMAIN t |-> t[b]]
          /\ \A b \in DOMAIN t : \E u \in Nat : t[b] = Route(u)
          /\ Chosen(t) = need
      BY <1>4, <3>1, <3>2
    <3>4. s \cup {last} \subseteq B /\ IsFiniteSet(s \cup {last})
      BY <1>1, FS_AddElement
    <3> QED BY <3>3, <3>4
  <2> QED BY <2>1, <2>2, <2>3
<1> QED BY <1>2, <1>5

\* Both passes together never take more than what is asked for.
THEOREM ChoiceSound ==
    ASSUME NEW r, IsFiniteSet(request[r].balances),
           \A b \in request[r].balances : Usable(b) \in Nat,
           NEW value \in Nat, NEW t \in Choosable(r, value)
    PROVE  /\ DOMAIN t \subseteq request[r].balances /\ IsFiniteSet(DOMAIN t)
           /\ t = [b \in DOMAIN t |-> t[b]]
           /\ \A b \in DOMAIN t : \E u \in Nat : t[b] = Route(u)
           /\ Chosen(t) <= value
<1> DEFINE B == request[r].balances
           D == Direct(r)
<1>1. D \subseteq B /\ IsFiniteSet(D) /\ IsFiniteSet(B \ D)
  <2>1. D \subseteq B
    BY DEF Direct
  <2> QED BY <2>1, FS_Subset
<1>2. PICK f \in Takes(D, value) : \E g \in Takes(B \ D, value - Chosen(f)) : t = Both(f, g)
  BY DEF Choosable
<1>3. PICK g \in Takes(B \ D, value - Chosen(f)) : t = Both(f, g)
  BY <1>2
<1> HIDE DEF D
<1>4. /\ DOMAIN f \subseteq D /\ IsFiniteSet(DOMAIN f)
      /\ \A b \in DOMAIN f : \E u \in Nat : f[b] = Route(u)
      /\ Chosen(f) \in Nat /\ Chosen(f) <= value
  BY <1>1, TakesSound
<1>5. value - Chosen(f) \in Nat
  BY <1>4
<1>6. /\ DOMAIN g \subseteq B \ D /\ IsFiniteSet(DOMAIN g)
      /\ \A b \in DOMAIN g : \E u \in Nat : g[b] = Route(u)
      /\ Chosen(g) \in Nat /\ Chosen(g) <= value - Chosen(f)
  BY <1>1, <1>5, TakesSound
<1>7. /\ \A b \in DOMAIN f : f[b].usd \in Nat
      /\ \A b \in DOMAIN g : g[b].usd \in Nat
  BY <1>4, <1>6, RouteType
<1>8. Chosen(t) = Chosen(f) + Chosen(g)
  BY <1>3, <1>4, <1>6, <1>7, ChosenBoth
<1>9. /\ DOMAIN t = DOMAIN f \cup DOMAIN g /\ t = [b \in DOMAIN t |-> t[b]]
      /\ \A b \in DOMAIN t : t[b] = IF b \in DOMAIN f THEN f[b] ELSE g[b]
  BY <1>3 DEF Both
<1>10. Chosen(t) <= value
  BY <1>4, <1>6, <1>8
<1>11. IsFiniteSet(DOMAIN f \cup DOMAIN g)
  BY <1>4, <1>6, FS_Union
<1>12. \A b \in DOMAIN t : \E u \in Nat : t[b] = Route(u)
  BY <1>4, <1>6, <1>9
<1>13. DOMAIN t \subseteq B
  BY <1>1, <1>4, <1>6, <1>9
<1> QED BY <1>9, <1>10, <1>11, <1>12, <1>13

-----------------------------------------------------------------------------
(* Types. *)

LEMMA UserFacts ==
    ASSUME user \in Users
    PROVE  /\ IsFiniteSet(user.items) /\ IsFiniteSet(DOMAIN user.accounts)
           /\ \A r \in Requests : user.asks[r].amount \in Nat /\ user.asks[r] \in Asks
           /\ \A h \in user.items :
                 /\ h.units \in Nat /\ h.usd \in Nat
                 /\ {g \in user.items : /\ g.chain = h.chain /\ g.account = h.account
                                        /\ g.contract = h.contract} = {h}
  BY BestPathAssumption DEF BestPathAssumption, Asks

LEMMA ConstantFacts ==
    /\ Nobody \notin Requests /\ IsFiniteSet(Chains) /\ Rounding \in Nat /\ GasReserve \in Nat
    /\ \A t \in Tokens : Prices[t] \subseteq Nat
    /\ Supported \subseteq Tokens \X Chains
  BY BestPathAssumption DEF BestPathAssumption

LEMMA UsableType ==
    ASSUME user \in Users, NEW b, b.item \in user.items PROVE Usable(b) \in Nat
<1>1. b.item.usd \in Nat /\ GasReserve \in Nat
  BY UserFacts, ConstantFacts
<1> QED BY <1>1 DEF Usable

LEMMA RecordFields ==
    ASSUME NEW q \in RequestRecords
    PROVE  /\ q.stage \in Stages /\ q.ask \in Asks /\ q.accounts \in AccountLists
           /\ q.balances \subseteq Balances /\ q.value \in Nat /\ q.fault \in BOOLEAN
           /\ DOMAIN q.routes \subseteq Balances
           /\ q.routes \in [DOMAIN q.routes -> RouteRecords]
           /\ \A b \in DOMAIN q.routes :
                 /\ q.routes[b] \in RouteRecords
                 /\ q.routes[b].usd \in Nat /\ q.routes[b].amount \in Nat
                 /\ q.routes[b].price \in Nat /\ q.routes[b].stage \in RouteStages
<1>1. q.routes \in RouteMaps
  BY DEF RequestRecords
<1>2. PICK S \in SUBSET Balances : q.routes \in [S -> RouteRecords]
  BY <1>1 DEF RouteMaps
<1>3. \A x \in RouteRecords :
         x.usd \in Nat /\ x.amount \in Nat /\ x.price \in Nat /\ x.stage \in RouteStages
  BY DEF RouteRecords
<1>4. DOMAIN q.routes = S /\ \A b \in S : q.routes[b] \in RouteRecords
  BY <1>2
<1>5. /\ q.stage \in Stages /\ q.ask \in Asks /\ q.accounts \in AccountLists
      /\ q.balances \subseteq Balances /\ q.value \in Nat /\ q.fault \in BOOLEAN
  BY DEF RequestRecords
<1> QED BY <1>2, <1>3, <1>4, <1>5

\* Another stage, with or without a fault.
LEMMA StageType ==
    ASSUME NEW p \in RequestRecords, NEW s \in Stages
    PROVE  \A q : q = [p EXCEPT !.stage = s] =>
              /\ q \in RequestRecords /\ q.stage = s /\ q.ask = p.ask
              /\ q.accounts = p.accounts /\ q.balances = p.balances
              /\ q.value = p.value /\ q.routes = p.routes /\ q.fault = p.fault
  BY DEF RequestRecords

LEMMA FaultType ==
    ASSUME NEW p \in RequestRecords
    PROVE  \A q : q = [p EXCEPT !.stage = "failed", !.fault = TRUE] =>
              /\ q \in RequestRecords /\ q.stage = "failed" /\ q.ask = p.ask
              /\ q.accounts = p.accounts /\ q.balances = p.balances
              /\ q.value = p.value /\ q.routes = p.routes /\ q.fault
  BY DEF RequestRecords, Stages

\* Another record for one of its routes.
WithRoute(p, b, x) == [p EXCEPT !.routes[b] = x]

LEMMA RouteUpdateType ==
    ASSUME NEW p \in RequestRecords, NEW b \in DOMAIN p.routes, NEW x \in RouteRecords
    PROVE  \A q : q = WithRoute(p, b, x) =>
              /\ q \in RequestRecords /\ q.stage = p.stage /\ q.ask = p.ask
              /\ q.accounts = p.accounts /\ q.balances = p.balances
              /\ q.value = p.value /\ q.routes = [p.routes EXCEPT ![b] = x]
              /\ q.fault = p.fault
<1> SUFFICES ASSUME NEW q, q = WithRoute(p, b, x)
             PROVE  /\ q \in RequestRecords /\ q.stage = p.stage /\ q.ask = p.ask
                    /\ q.accounts = p.accounts /\ q.balances = p.balances
                    /\ q.value = p.value /\ q.routes = [p.routes EXCEPT ![b] = x]
                    /\ q.fault = p.fault
  OBVIOUS
<1> DEFINE m == [p.routes EXCEPT ![b] = x]
<1>1. m \in RouteMaps
  <2>1. m \in [DOMAIN p.routes -> RouteRecords] /\ DOMAIN p.routes \in SUBSET Balances
    BY RecordFields
  <2> HIDE DEF m
  <2> QED BY <2>1 DEF RouteMaps
<1>2. q = [p EXCEPT !.routes = m]
  BY DEF WithRoute
<1> HIDE DEF m
<1>3. /\ q \in RequestRecords /\ q.stage = p.stage /\ q.ask = p.ask
      /\ q.accounts = p.accounts /\ q.balances = p.balances
      /\ q.value = p.value /\ q.routes = m /\ q.fault = p.fault
  BY <1>1, <1>2 DEF RequestRecords
<1> QED BY <1>3 DEF m

-----------------------------------------------------------------------------
(* A step of one request. *)

LEMMA Combine ==
    ASSUME IInv, NEW r \in Requests, NEW q \in RequestRecords, Keep(r, q), user' = user,
           holder' \in Requests \cup {Nobody},
           \A d \in Requests : d # r /\ holder = d => holder' = d,
           Good(q, r),
           q.stage = "pricing" => holder' = r,
           q.stage = "settle" =>
              /\ \A b \in DOMAIN q.routes : q.routes[b].stage = "pricing" => holder' = r
              /\ \A b, d \in DOMAIN q.routes :
                    q.routes[b].stage = "pricing" /\ q.routes[d].stage = "pricing" => b = d
    PROVE  IInv'
<1>1. /\ request' \in [Requests -> RequestRecords] /\ request'[r] = q
      /\ \A d \in Requests : d # r => request'[d] = request[d]
  BY DEF IInv, Keep
<1>2. ASSUME NEW d \in Requests PROVE Good(request[d], d)'
  <2>1. PICK x : x = request'[d]
    OBVIOUS
  <2>2. Good(x, d)
    BY <1>1, <2>1 DEF IInv
  <2>3. AskOK(request[d], d)'
    BY <2>1, <2>2 DEF Good, AskOK
  <2>4. OwnOK(request[d])'
    BY <2>1, <2>2 DEF Good, OwnOK
  <2>5. MoneyOK(request[d])'
    BY <2>1, <2>2 DEF Good, MoneyOK
  <2>6. DoneOK(request[d])'
    BY <2>1, <2>2 DEF Good, DoneOK
  <2>7. EndOK(request[d])'
    BY <2>1, <2>2 DEF Good, EndOK
  <2> QED BY <2>3, <2>4, <2>5, <2>6, <2>7 DEF Good
<1>3. ASSUME NEW d \in Requests PROVE MutexOK(request[d], d)'
  <2>1. CASE d = r
    BY <1>1, <2>1 DEF MutexOK
  <2>2. CASE d # r
    <3>1. request'[d] = request[d] /\ MutexOK(request[d], d) /\ (holder = d => holder' = d)
      BY <1>1, <2>2 DEF IInv
    <3> QED BY <3>1 DEF MutexOK
  <2> QED BY <2>1, <2>2
<1> QED BY <1>1, <1>2, <1>3 DEF IInv

\* What holds of a request before it steps.
LEMMA Before ==
    ASSUME IInv, NEW r \in Requests
    PROVE  /\ request[r] \in RequestRecords /\ Good(request[r], r)
           /\ MutexOK(request[r], r) /\ user \in Users
  BY DEF IInv

\* The request moves on without touching its routes, to a stage in which
\* nothing is asked of them.
LEMMA PlainGood ==
    ASSUME NEW p \in RequestRecords, NEW q \in RequestRecords, NEW r \in Requests, Good(p, r),
           q.ask = p.ask, q.balances = p.balances, q.value = p.value, q.routes = p.routes,
           q.fault = p.fault,
           q.stage \in {"rejected", "lookup", "fetch", "pricing"},
           p.stage \in {"idle", "lookup", "fetch", "wait"},
           q.stage = "rejected" \/ Admitted(q.ask),
           q.stage = "pricing" => q.ask.kind # "balance"
    PROVE  Good(q, r)
<1>1. AskOK(q, r)
  BY DEF Good, AskOK
<1>2. OwnOK(q) /\ MoneyOK(q)
  BY DEF Good, OwnOK, MoneyOK
<1>3. DoneOK(q) /\ EndOK(q)
  BY DEF Good, DoneOK, EndOK
<1> QED BY <1>1, <1>2, <1>3 DEF Good

LEMMA ArriveInv == ASSUME IInv, NEW r \in Requests, Arrive(r) PROVE IInv'
<1>1. /\ request[r] \in RequestRecords /\ Good(request[r], r) /\ request[r].stage = "idle"
      /\ user' = user /\ holder' = holder /\ holder \in Requests \cup {Nobody}
  BY Before DEF Arrive, At, IInv
<1>2. PICK s \in {"lookup", "rejected"} :
         /\ Keep(r, [request[r] EXCEPT !.stage = s])
         /\ s = "rejected" \/ Admitted(request[r].ask)
  BY DEF Arrive, Goto
<1>3. PICK q : q = [request[r] EXCEPT !.stage = s]
  OBVIOUS
<1>4. s \in Stages
  BY DEF Stages
<1>5. /\ q \in RequestRecords /\ q.stage = s /\ q.ask = request[r].ask
      /\ q.balances = request[r].balances /\ q.value = request[r].value
      /\ q.routes = request[r].routes /\ q.fault = request[r].fault
  BY <1>1, <1>3, <1>4, StageType
<1>6. Good(q, r)
  BY <1>1, <1>2, <1>5, PlainGood
<1>7. Keep(r, q) /\ q.stage # "pricing" /\ q.stage # "settle"
  BY <1>2, <1>3, <1>5
<1> QED BY <1>1, <1>5, <1>6, <1>7, Combine

LEMMA LookUpInv == ASSUME IInv, NEW r \in Requests, LookUp(r) PROVE IInv'
<1>1. /\ request[r] \in RequestRecords /\ Good(request[r], r) /\ request[r].stage = "lookup"
      /\ user' = user /\ holder' = holder /\ holder \in Requests \cup {Nobody}
      /\ user \in Users /\ request[r].ask \in Asks
  BY Before, RecordFields DEF LookUp, At, IInv
<1>2. PICK accounts \in {user.accounts, <<request[r].ask.account>>} :
         Keep(r, [request[r] EXCEPT !.stage = "fetch", !.accounts = accounts])
  BY DEF LookUp
<1>3. accounts \in AccountLists /\ "fetch" \in Stages
  BY <1>1 DEF AccountLists, Stages
<1>4. PICK q : q = [request[r] EXCEPT !.stage = "fetch", !.accounts = accounts]
  OBVIOUS
<1>5. /\ q \in RequestRecords /\ q.stage = "fetch" /\ q.ask = request[r].ask
      /\ q.balances = request[r].balances /\ q.value = request[r].value
      /\ q.routes = request[r].routes /\ q.fault = request[r].fault
  BY <1>1, <1>3, <1>4 DEF RequestRecords
<1>6. Admitted(q.ask)
  BY <1>1, <1>5 DEF Good, AskOK
<1>7. Good(q, r)
  BY <1>1, <1>5, <1>6, PlainGood
<1>8. Keep(r, q)
  BY <1>2, <1>4
<1> QED BY <1>1, <1>5, <1>7, <1>8, Combine

\* A failure that is not the request's own: its fault is recorded.
LEMMA FaultGood ==
    ASSUME NEW p \in RequestRecords, NEW q \in RequestRecords, NEW r \in Requests, Good(p, r),
           q.ask = p.ask, q.balances = p.balances, q.value = p.value, q.routes = p.routes,
           q.fault, q.stage = "failed", p.stage \in {"lookup", "pricing"}
    PROVE  Good(q, r)
<1>1. AskOK(q, r)
  BY DEF Good, AskOK
<1>2. OwnOK(q) /\ MoneyOK(q)
  BY DEF Good, OwnOK, MoneyOK
<1>3. DoneOK(q) /\ EndOK(q)
  BY DEF Good, DoneOK, EndOK
<1> QED BY <1>1, <1>2, <1>3 DEF Good

LEMMA FaultInv ==
    ASSUME IInv, NEW r \in Requests, LookUpFails(r) \/ TargetPriceFails(r) PROVE IInv'
<1>1. /\ request[r] \in RequestRecords /\ Good(request[r], r) /\ MutexOK(request[r], r)
      /\ holder \in Requests \cup {Nobody}
  BY Before DEF IInv
<1>2. /\ request[r].stage \in {"lookup", "pricing"} /\ user' = user
      /\ holder' = holder \/ (holder' = Nobody /\ request[r].stage = "pricing")
      /\ Keep(r, [request[r] EXCEPT !.stage = "failed", !.fault = TRUE])
  <2>1. CASE LookUpFails(r)
    BY <2>1 DEF LookUpFails, At, Fails
  <2>2. CASE TargetPriceFails(r)
    BY <2>2 DEF TargetPriceFails, At, Fails
  <2> QED BY <2>1, <2>2
<1>3. holder' \in Requests \cup {Nobody}
      /\ \A d \in Requests : d # r /\ holder = d => holder' = d
  BY <1>1, <1>2 DEF MutexOK
<1>4. PICK q : q = [request[r] EXCEPT !.stage = "failed", !.fault = TRUE]
  OBVIOUS
<1>5. /\ q \in RequestRecords /\ q.stage = "failed" /\ q.ask = request[r].ask
      /\ q.balances = request[r].balances /\ q.value = request[r].value
      /\ q.routes = request[r].routes /\ q.fault
  BY <1>1, <1>4, FaultType
<1>6. Good(q, r)
  BY <1>1, <1>2, <1>5, FaultGood
<1>7. Keep(r, q)
  BY <1>2, <1>4
<1> QED BY <1>2, <1>3, <1>5, <1>6, <1>7, Combine

\* A task that panics frees the mutex if it holds it.
LEMMA PanicInv ==
    ASSUME IInv, NEW r \in Requests, Panics(r), user' = user,
           request[r].stage \in {"fetch", "pricing", "settle"},
           \/ \E h \in user.items : h.token = Unnamed /\ h.usd # 0
           \/ Unscored(request[r])
           \/ \E b \in DOMAIN request[r].routes :
                 request[r].routes[b].stage = "pricing" /\ 0 \in Prices[b.item.token]
    PROVE  IInv'
<1>1. /\ request[r] \in RequestRecords /\ Good(request[r], r)
      /\ holder \in Requests \cup {Nobody}
  BY Before DEF IInv
<1>2. /\ Keep(r, [request[r] EXCEPT !.stage = "panicked"])
      /\ holder' \in Requests \cup {Nobody}
      /\ \A d \in Requests : d # r /\ holder = d => holder' = d
  BY <1>1 DEF Panics, Goto
<1>3. PICK q : q = [request[r] EXCEPT !.stage = "panicked"]
  OBVIOUS
<1>4. "panicked" \in Stages
  BY DEF Stages
<1>5. /\ q \in RequestRecords /\ q.stage = "panicked" /\ q.ask = request[r].ask
      /\ q.balances = request[r].balances /\ q.value = request[r].value
      /\ q.routes = request[r].routes /\ q.fault = request[r].fault
  BY <1>1, <1>3, <1>4, StageType
<1>6. AskOK(q, r)
  BY <1>1, <1>5 DEF Good, AskOK
<1>7. OwnOK(q) /\ MoneyOK(q)
  BY <1>1, <1>5 DEF Good, OwnOK, MoneyOK
<1>8. DoneOK(q)
  BY <1>5 DEF DoneOK
<1>9. EndOK(q)
  BY <1>1, <1>5 DEF Good, EndOK, Unscored
<1>10. Good(q, r)
  BY <1>6, <1>7, <1>8, <1>9 DEF Good
<1>11. Keep(r, q)
  BY <1>2, <1>3
<1> QED BY <1>2, <1>5, <1>10, <1>11, Combine

LEMMA AnotherOne ==
    ASSUME NEW S, NEW b \in S, IsFiniteSet(S), Cardinality(S) >= 2
    PROVE  \E d \in S : d # b
<1> SUFFICES ASSUME \A d \in S : d = b PROVE FALSE
  OBVIOUS
<1>1. S = {b}
  OBVIOUS
<1> QED BY <1>1, FS_Singleton

\* A choice that dies had two balances of one pass to sort.
LEMMA ChoosePanicsInv ==
    ASSUME IInv, NEW r \in Requests, ChoosePanics(r) PROVE IInv'
<1>1. PICK B \in {Direct(r), request[r].balances \ Direct(r)} : Unsortable(B)
  BY DEF ChoosePanics
<1>2. PICK b \in WithBucket(B) : MayLackScore(b)
  BY <1>1 DEF Unsortable
<1>3. B \subseteq request[r].balances /\ IsFiniteSet(request[r].balances)
  <2>1. B \subseteq request[r].balances
    BY DEF Direct
  <2> QED BY <2>1, Before DEF Good, OwnOK
<1>4. PICK d \in WithBucket(B) : d # b
  <2>1. WithBucket(B) \subseteq request[r].balances
    BY <1>3 DEF WithBucket
  <2>2. IsFiniteSet(WithBucket(B)) /\ Cardinality(WithBucket(B)) >= 2
    BY <1>1, <1>3, <2>1, FS_Subset DEF Unsortable
  <2> QED BY <1>2, <2>2, AnotherOne
<1>5. b \in WithBucket(request[r].balances) /\ d \in WithBucket(request[r].balances)
  BY <1>2, <1>3, <1>4 DEF WithBucket
<1>6. b.item.token = request[r].ask.token <=> d.item.token = request[r].ask.token
  BY <1>1, <1>2, <1>4 DEF WithBucket, Direct
<1>7. Unscored(request[r])
  BY <1>2, <1>4, <1>5, <1>6 DEF Unscored
<1> QED BY <1>7, PanicInv DEF ChoosePanics, At

LEMMA AccountsFinite ==
    ASSUME NEW a \in AccountLists PROVE IsFiniteSet(DOMAIN a)
<1>1. CASE \E u \in Users : a = u.accounts
  BY <1>1, BestPathAssumption DEF BestPathAssumption
<1>2. CASE \E x \in Asks : a = <<x.account>>
  <2>1. DOMAIN a = {1}
    BY <1>2
  <2> QED BY <2>1, FS_Singleton
<1>3. CASE a = <<>>
  <2>1. DOMAIN a = {}
    BY <1>3
  <2> QED BY <2>1, FS_EmptySet
<1> QED BY <1>1, <1>2, <1>3 DEF AccountLists

\* What is found are finitely many items of the user, each with a quote.
LEMMA FoundSound ==
    ASSUME IInv, NEW r \in Requests,
           NEW reached \in SUBSET ((DOMAIN request[r].accounts) \X Chains)
    PROVE  /\ Quoted(r, reached) \subseteq Balances /\ IsFiniteSet(Quoted(r, reached))
           /\ \A b \in Quoted(r, reached) :
                 b.item \in user.items /\ b.item.usd \in Nat /\ b.item.usd # 0
<1> DEFINE Q == Quoted(r, reached)
<1>1. /\ Q \subseteq Balances
      /\ \A b \in Q : <<b.at, b.asked>> \in reached /\ b.item \in user.items /\ b.item.usd # 0
  BY DEF Quoted
<1>2. \A b \in Balances : b = [at |-> b.at, asked |-> b.asked, item |-> b.item]
  BY DEF Balances, Balance
<1> DEFINE T == reached \X user.items
           f == [b \in Q |-> <<<<b.at, b.asked>>, b.item>>]
<1>3. IsFiniteSet(T)
  <2>1. request[r].accounts \in AccountLists /\ IsFiniteSet(user.items)
    BY Before, RecordFields, UserFacts
  <2>2. IsFiniteSet(DOMAIN request[r].accounts) /\ IsFiniteSet(Chains)
    BY <2>1, AccountsFinite, ConstantFacts
  <2>3. IsFiniteSet((DOMAIN request[r].accounts) \X Chains)
    BY <2>2, FS_Product
  <2>4. IsFiniteSet(reached)
    BY <2>3, FS_Subset
  <2> QED BY <2>1, <2>4, FS_Product
<1> HIDE DEF Q
<1>4. f \in Injection(Q, T)
  <2>1. f \in [Q -> T]
    BY <1>1
  <2>2. ASSUME NEW b \in Q, NEW d \in Q, f[b] = f[d] PROVE b = d
    <3>1. b.at = d.at /\ b.asked = d.asked /\ b.item = d.item
      BY <2>2
    <3>2. /\ b = [at |-> b.at, asked |-> b.asked, item |-> b.item]
          /\ d = [at |-> d.at, asked |-> d.asked, item |-> d.item]
      BY <1>1, <1>2
    <3> QED BY <3>1, <3>2
  <2> HIDE DEF f, T
  <2> QED BY <2>1, <2>2 DEF Injection, IsInjective
<1>5. IsFiniteSet(Q)
  <2> HIDE DEF f, T
  <2> QED BY <1>3, <1>4, FS_Injection
<1>6. \A b \in Q : b.item.usd \in Nat
  BY <1>1, Before, UserFacts
<1> QED BY <1>1, <1>5, <1>6 DEF Q

LEMMA FetchInv == ASSUME IInv, NEW r \in Requests, Fetch(r) PROVE IInv'
<1>1. /\ request[r] \in RequestRecords /\ Good(request[r], r) /\ user \in Users
      /\ holder \in Requests \cup {Nobody}
  BY Before DEF IInv
<1>2. request[r].stage = "fetch" /\ user' = user
  BY DEF Fetch, At
<1>3. PICK reached \in SUBSET ((DOMAIN request[r].accounts) \X Chains) :
         LET found == Quoted(r, reached) IN
         IF \E b \in found : b.item.token = Unnamed
         THEN Panics(r)
         ELSE /\ Keep(r, IF request[r].ask.kind = "balance"
                         THEN [request[r] EXCEPT !.stage = "answered", !.accounts = <<>>,
                                                 !.value = Total(found)]
                         ELSE [request[r] EXCEPT !.stage = "wait", !.accounts = <<>>,
                                                 !.balances = Configured(found)])
              /\ UNCHANGED holder
  BY DEF Fetch
<1>4. PICK found : found = Quoted(r, reached)
  OBVIOUS
<1>5. /\ found \subseteq Balances /\ IsFiniteSet(found)
      /\ \A b \in found : b.item \in user.items /\ b.item.usd \in Nat /\ b.item.usd # 0
  BY <1>4, FoundSound
<1>6. CASE \E b \in found : b.item.token = Unnamed
  <2>1. Panics(r)
    BY <1>3, <1>4, <1>6
  <2>2. \E h \in user.items : h.token = Unnamed /\ h.usd # 0
    BY <1>5, <1>6
  <2> QED BY <1>2, <2>1, <2>2, PanicInv
<1>7. CASE ~\E b \in found : b.item.token = Unnamed
  <2>1. /\ holder' = holder
        /\ \E q : /\ Keep(r, q)
                  /\ \/ /\ request[r].ask.kind = "balance"
                        /\ q = [request[r] EXCEPT !.stage = "answered", !.accounts = <<>>,
                                                  !.value = Total(found)]
                     \/ /\ request[r].ask.kind # "balance"
                        /\ q = [request[r] EXCEPT !.stage = "wait", !.accounts = <<>>,
                                                  !.balances = Configured(found)]
    BY <1>3, <1>4, <1>7
  <2>2. PICK q : /\ Keep(r, q)
                 /\ \/ /\ request[r].ask.kind = "balance"
                       /\ q = [request[r] EXCEPT !.stage = "answered", !.accounts = <<>>,
                                                 !.value = Total(found)]
                    \/ /\ request[r].ask.kind # "balance"
                       /\ q = [request[r] EXCEPT !.stage = "wait", !.accounts = <<>>,
                                                 !.balances = Configured(found)]
    BY <2>1
  <2>3. <<>> \in AccountLists /\ "answered" \in Stages /\ "wait" \in Stages
    BY DEF AccountLists, Stages
  <2>4. Chosen(request[r].routes) = 0 /\ DOMAIN request[r].routes = {}
    <3>1. DOMAIN request[r].routes = {}
      BY <1>1, <1>2 DEF Good, OwnOK
    <3>2. DOMAIN [b \in DOMAIN request[r].routes |-> request[r].routes[b].usd] = {}
      BY <3>1
    <3> QED BY <3>1, <3>2, SumOfNothing DEF Chosen
  <2>5. q \in RequestRecords /\ Good(q, r) /\ q.stage \in {"answered", "wait"}
    <3>1. CASE /\ request[r].ask.kind = "balance"
               /\ q = [request[r] EXCEPT !.stage = "answered", !.accounts = <<>>,
                                         !.value = Total(found)]
      <4>1. Total(found) \in Nat
        <5> DEFINE f == [b \in found |-> b.item.usd]
        <5>1. DOMAIN f = found /\ \A b \in found : f[b] \in Nat
          BY <1>5
        <5>2. Total(found) = SumFunctionOnSet(f, found)
          BY DEF Total, SumFunction
        <5> HIDE DEF f
        <5> QED BY <1>5, <5>1, <5>2, SumNat
      <4>2. PICK v \in Nat : v = Total(found)
        BY <4>1
      <4>3. /\ q \in RequestRecords /\ q.stage = "answered" /\ q.ask = request[r].ask
            /\ q.balances = request[r].balances /\ q.value = v
            /\ q.routes = request[r].routes /\ q.fault = request[r].fault
        BY <1>1, <2>3, <3>1, <4>2 DEF RequestRecords
      <4>4. AskOK(q, r)
        BY <1>1, <1>2, <4>3 DEF Good, AskOK
      <4>5. OwnOK(q)
        BY <1>1, <1>2, <4>3 DEF Good, OwnOK
      <4>6. MoneyOK(q)
        BY <2>4, <4>2, <4>3 DEF MoneyOK
      <4>7. DoneOK(q) /\ EndOK(q)
        BY <2>4, <3>1, <4>3 DEF DoneOK, EndOK
      <4> QED BY <4>3, <4>4, <4>5, <4>6, <4>7 DEF Good
    <3>2. CASE /\ request[r].ask.kind # "balance"
               /\ q = [request[r] EXCEPT !.stage = "wait", !.accounts = <<>>,
                                         !.balances = Configured(found)]
      <4>1. PICK B : B = Configured(found)
        OBVIOUS
      <4>2. B \subseteq found /\ \A b \in B : b.item.token \in Tokens
        BY <4>1 DEF Configured
      <4>3. B \subseteq Balances /\ IsFiniteSet(B) /\ \A b \in B : b.item \in user.items
        BY <1>5, <4>2, FS_Subset
      <4>4. /\ q \in RequestRecords /\ q.stage = "wait" /\ q.ask = request[r].ask
            /\ q.balances = B /\ q.value = request[r].value
            /\ q.routes = request[r].routes /\ q.fault = request[r].fault
        BY <1>1, <2>3, <3>2, <4>1, <4>3 DEF RequestRecords
      <4>5. AskOK(q, r)
        BY <1>1, <1>2, <3>2, <4>4 DEF Good, AskOK
      <4>6. OwnOK(q)
        BY <1>1, <1>2, <4>2, <4>3, <4>4 DEF Good, OwnOK
      <4>7. MoneyOK(q)
        BY <1>1, <4>4 DEF Good, MoneyOK
      <4>8. DoneOK(q) /\ EndOK(q)
        BY <2>4, <4>4 DEF DoneOK, EndOK
      <4> QED BY <4>4, <4>5, <4>6, <4>7, <4>8 DEF Good
    <3> QED BY <2>2, <3>1, <3>2
  <2> QED BY <1>1, <1>2, <2>1, <2>2, <2>5, Combine
<1> QED BY <1>6, <1>7

LEMMA LockForTargetInv == ASSUME IInv, NEW r \in Requests, LockForTarget(r) PROVE IInv'
<1>1. /\ request[r] \in RequestRecords /\ Good(request[r], r)
  BY Before
<1>2. /\ request[r].stage = "wait" /\ holder = Nobody /\ holder' = r /\ user' = user
      /\ Keep(r, [request[r] EXCEPT !.stage = "pricing"])
  BY DEF LockForTarget, At, Goto
<1>3. PICK q : q = [request[r] EXCEPT !.stage = "pricing"]
  OBVIOUS
<1>4. "pricing" \in Stages
  BY DEF Stages
<1>5. /\ q \in RequestRecords /\ q.stage = "pricing" /\ q.ask = request[r].ask
      /\ q.balances = request[r].balances /\ q.value = request[r].value
      /\ q.routes = request[r].routes /\ q.fault = request[r].fault
  BY <1>1, <1>3, <1>4, StageType
<1>6. Admitted(q.ask) /\ q.ask.kind # "balance"
  BY <1>1, <1>2, <1>5 DEF Good, AskOK
<1>7. Good(q, r)
  BY <1>1, <1>2, <1>5, <1>6, PlainGood
<1>8. Keep(r, q) /\ Nobody \notin Requests
  BY <1>2, <1>3, ConstantFacts
<1> QED BY <1>2, <1>5, <1>7, <1>8, Combine

\* The price of the token that is asked for is a natural number.
LEMMA ValueType ==
    ASSUME IInv, NEW r \in Requests, request[r].stage = "pricing",
           NEW p \in Prices[request[r].ask.token]
    PROVE  p * request[r].ask.amount \in Nat
<1>1. request[r].ask = user.asks[r] /\ Admitted(request[r].ask)
      /\ request[r].ask.kind # "balance" /\ user \in Users
  BY Before DEF Good, AskOK
<1>2. request[r].ask.token \in Tokens
  BY <1>1, ConstantFacts DEF Admitted
<1>3. p \in Nat /\ request[r].ask.amount \in Nat
  BY <1>1, <1>2, ConstantFacts, UserFacts
<1> QED BY <1>3

LEMMA ChooseInv == ASSUME IInv, NEW r \in Requests, Choose(r) PROVE IInv'
<1>1. /\ request[r] \in RequestRecords /\ Good(request[r], r) /\ MutexOK(request[r], r)
      /\ user \in Users
  BY Before
<1>2. request[r].stage = "pricing" /\ user' = user /\ holder' = Nobody
  BY DEF Choose, At
<1>3. PICK p \in Prices[request[r].ask.token] :
         LET value == p * request[r].ask.amount IN
         \E routes \in Choosable(r, value) :
            Keep(r, [request[r] EXCEPT !.stage = "settle", !.value = value,
                                       !.balances = {}, !.routes = routes])
  BY DEF Choose
<1>4. PICK value \in Nat : value = p * request[r].ask.amount
  BY <1>2, ValueType
<1>5. PICK t \in Choosable(r, value) :
         Keep(r, [request[r] EXCEPT !.stage = "settle", !.value = value,
                                    !.balances = {}, !.routes = t])
  BY <1>3, <1>4
<1>6. /\ IsFiniteSet(request[r].balances) /\ request[r].balances \subseteq Balances
      /\ \A b \in request[r].balances :
            b.item \in user.items /\ b.item.token \in Tokens /\ Usable(b) \in Nat
  BY <1>1, RecordFields, UsableType DEF Good, OwnOK
<1>7. /\ DOMAIN t \subseteq request[r].balances /\ IsFiniteSet(DOMAIN t)
      /\ t = [b \in DOMAIN t |-> t[b]]
      /\ \A b \in DOMAIN t : \E u \in Nat : t[b] = Route(u)
      /\ Chosen(t) <= value
  BY <1>6, ChoiceSound
<1>8. \A b \in DOMAIN t :
         /\ t[b] \in RouteRecords /\ t[b].usd \in Nat
         /\ t[b].amount = 0 /\ t[b].price = 0 /\ t[b].stage = "wait"
  BY <1>7, RouteType
<1>9. t \in RouteMaps
  <2>1. t \in [DOMAIN t -> RouteRecords] /\ DOMAIN t \in SUBSET Balances
    BY <1>6, <1>7, <1>8
  <2> QED BY <2>1 DEF RouteMaps
<1>10. PICK q : q = [request[r] EXCEPT !.stage = "settle", !.value = value,
                                       !.balances = {}, !.routes = t]
  OBVIOUS
<1>11. "settle" \in Stages
  BY DEF Stages
<1>12. /\ q \in RequestRecords /\ q.stage = "settle" /\ q.ask = request[r].ask
       /\ q.balances = {} /\ q.value = value /\ q.routes = t
       /\ q.fault = request[r].fault
  BY <1>1, <1>9, <1>10, <1>11 DEF RequestRecords
<1>13. AskOK(q, r)
  BY <1>1, <1>2, <1>12 DEF Good, AskOK
<1>14. OwnOK(q)
  BY <1>6, <1>7, <1>12, FS_EmptySet DEF OwnOK
<1>15. MoneyOK(q)
  <2>1. ASSUME NEW b \in DOMAIN t
        PROVE  t[b].amount * t[b].price <= t[b].usd /\ t[b].amount <= b.item.units + Rounding
    <3>1. b.item.units \in Nat /\ Rounding \in Nat
      BY <1>1, <1>6, <1>7, UserFacts, ConstantFacts
    <3> QED BY <1>8, <3>1
  <2> QED BY <1>7, <1>12, <2>1 DEF MoneyOK
<1>16. DoneOK(q) /\ EndOK(q)
  BY <1>8, <1>12 DEF DoneOK, EndOK
<1>17. Good(q, r)
  BY <1>13, <1>14, <1>15, <1>16 DEF Good
<1>18. \A d \in Requests : d # r /\ holder = d => holder' = d
  BY <1>1, <1>2 DEF MutexOK
<1>19. Keep(r, q)
  BY <1>5, <1>10
<1> QED BY <1>2, <1>8, <1>12, <1>17, <1>18, <1>19, Combine

-----------------------------------------------------------------------------
(* A step of one route. *)

LEMMA RouteGood ==
    ASSUME user \in Users,
           NEW p \in RequestRecords, NEW q \in RequestRecords, NEW r \in Requests, Good(p, r),
           NEW b \in DOMAIN p.routes, NEW x \in RouteRecords,
           p.stage = "settle", q.stage = "settle", q.ask = p.ask, q.balances = p.balances,
           q.value = p.value, q.routes = [p.routes EXCEPT ![b] = x], p.fault => q.fault,
           x.usd = p.routes[b].usd, x.amount * x.price <= x.usd,
           x.amount <= b.item.units + Rounding,
           x.stage = "failed" => q.fault \/ x.amount = 0
    PROVE  Good(q, r)
<1>1. /\ DOMAIN q.routes = DOMAIN p.routes /\ q.routes[b] = x
      /\ \A d \in DOMAIN p.routes : d # b => q.routes[d] = p.routes[d]
  OBVIOUS
<1>2. AskOK(q, r)
  BY DEF Good, AskOK
<1>3. OwnOK(q)
  BY <1>1 DEF Good, OwnOK
<1>4. MoneyOK(q)
  <2>1. Chosen(q.routes) = Chosen(p.routes)
    <3>1. \A d \in DOMAIN q.routes : q.routes[d].usd = p.routes[d].usd
      BY <1>1
    <3> QED BY <1>1, <3>1, ChosenSame
  <2>2. ASSUME NEW d \in DOMAIN q.routes
        PROVE  /\ q.routes[d].amount * q.routes[d].price <= q.routes[d].usd
               /\ q.routes[d].amount <= d.item.units + Rounding
    BY <1>1 DEF Good, MoneyOK
  <2>3. Chosen(q.routes) <= q.value
    BY <2>1 DEF Good, MoneyOK
  <2> QED BY <2>2, <2>3 DEF MoneyOK
<1>5. DoneOK(q)
  BY DEF DoneOK
<1>6. EndOK(q)
  <2>1. ASSUME NEW d \in DOMAIN q.routes, q.routes[d].stage = "failed", ~q.fault
        PROVE  q.routes[d].amount = 0
    BY <1>1, <2>1 DEF Good, EndOK
  <2> QED BY <2>1 DEF EndOK
<1> QED BY <1>2, <1>3, <1>4, <1>5, <1>6 DEF Good

\* The route takes the free mutex, gives it back, or has nothing to do with it.
LEMMA RouteInv ==
    ASSUME IInv, NEW r \in Requests, request[r].stage = "settle",
           NEW b \in DOMAIN request[r].routes, NEW x \in RouteRecords,
           NEW q \in RequestRecords, q.stage = "settle", q.ask = request[r].ask,
           q.balances = request[r].balances, q.value = request[r].value,
           q.routes = [request[r].routes EXCEPT ![b] = x], request[r].fault => q.fault,
           x.usd = request[r].routes[b].usd, x.amount * x.price <= x.usd,
           x.amount <= b.item.units + Rounding,
           x.stage = "failed" => q.fault \/ x.amount = 0,
           Keep(r, q), user' = user,
           \/ x.stage = "pricing" /\ holder = Nobody /\ holder' = r
           \/ x.stage # "pricing" /\ request[r].routes[b].stage = "pricing" /\ holder' = Nobody
           \/ x.stage # "pricing" /\ holder' = holder
    PROVE  IInv'
<1>1. /\ request[r] \in RequestRecords /\ Good(request[r], r) /\ MutexOK(request[r], r)
      /\ user \in Users /\ holder \in Requests \cup {Nobody} /\ Nobody \notin Requests
  BY Before, ConstantFacts DEF IInv
<1>2. Good(q, r)
  BY <1>1, RouteGood
<1>3. /\ DOMAIN q.routes = DOMAIN request[r].routes /\ q.routes[b] = x
      /\ \A d \in DOMAIN request[r].routes : d # b => q.routes[d] = request[r].routes[d]
  OBVIOUS
<1>4. /\ \A d \in DOMAIN request[r].routes :
            request[r].routes[d].stage = "pricing" => holder = r
      /\ \A d, e \in DOMAIN request[r].routes :
            request[r].routes[d].stage = "pricing" /\ request[r].routes[e].stage = "pricing"
            => d = e
  BY <1>1 DEF MutexOK
<1>5. /\ holder' \in Requests \cup {Nobody}
      /\ \A d \in Requests : d # r /\ holder = d => holder' = d
  BY <1>1, <1>4
<1>6. \A d \in DOMAIN q.routes : q.routes[d].stage = "pricing" => holder' = r
  BY <1>1, <1>3, <1>4
<1>7. \A d, e \in DOMAIN q.routes :
         q.routes[d].stage = "pricing" /\ q.routes[e].stage = "pricing" => d = e
  BY <1>1, <1>3, <1>4
<1> QED BY <1>2, <1>5, <1>6, <1>7, Combine

\* What holds of a route before it steps.
LEMMA BeforeRoute ==
    ASSUME IInv, NEW r \in Requests, NEW b \in Routes(r)
    PROVE  /\ request[r] \in RequestRecords /\ b \in DOMAIN request[r].routes
           /\ request[r].routes[b] \in RouteRecords
           /\ request[r].routes[b].usd \in Nat /\ request[r].routes[b].amount \in Nat
           /\ request[r].routes[b].price \in Nat
           /\ request[r].routes[b].amount * request[r].routes[b].price
                 <= request[r].routes[b].usd
           /\ request[r].routes[b].amount <= b.item.units + Rounding
           /\ b.item \in user.items /\ b.item.token \in Tokens
           /\ b.item.units \in Nat /\ Rounding \in Nat
<1>1. /\ request[r] \in RequestRecords /\ Good(request[r], r) /\ user \in Users
      /\ b \in DOMAIN request[r].routes
  BY Before DEF Routes
<1>2. /\ request[r].routes[b] \in RouteRecords
      /\ request[r].routes[b].usd \in Nat /\ request[r].routes[b].amount \in Nat
      /\ request[r].routes[b].price \in Nat
  BY <1>1, RecordFields
<1>3. /\ request[r].routes[b].amount * request[r].routes[b].price
            <= request[r].routes[b].usd
      /\ request[r].routes[b].amount <= b.item.units + Rounding
  BY <1>1 DEF Good, MoneyOK
<1>4. b.item \in user.items /\ b.item.token \in Tokens
  BY <1>1 DEF Good, OwnOK
<1>5. b.item.units \in Nat /\ Rounding \in Nat
  BY <1>1, <1>4, UserFacts, ConstantFacts
<1> QED BY <1>1, <1>2, <1>3, <1>4, <1>5

LEMMA RouteStageType ==
    ASSUME NEW x \in RouteRecords, NEW s \in RouteStages
    PROVE  \A y : y = [x EXCEPT !.stage = s] =>
              /\ y \in RouteRecords /\ y.stage = s /\ y.usd = x.usd
              /\ y.amount = x.amount /\ y.price = x.price
  BY DEF RouteRecords

\* A route that takes the mutex, or is built.
LEMMA RouteMovesInv ==
    ASSUME IInv, NEW r \in Requests, NEW b \in Routes(r), LockForRoute(r, b) \/ Build(r, b)
    PROVE  IInv'
<1>1. /\ request[r] \in RequestRecords /\ b \in DOMAIN request[r].routes
      /\ request[r].routes[b] \in RouteRecords
      /\ request[r].routes[b].amount * request[r].routes[b].price
            <= request[r].routes[b].usd
      /\ request[r].routes[b].amount <= b.item.units + Rounding
  BY BeforeRoute
<1>2. /\ request[r].stage = "settle" /\ user' = user
      /\ \E s \in {"pricing", "built"} :
            /\ GotoRoute(r, b, s)
            /\ \/ s = "pricing" /\ holder = Nobody /\ holder' = r
               \/ s = "built" /\ holder' = holder
  <2>1. CASE LockForRoute(r, b)
    BY <2>1 DEF LockForRoute, RouteAt, At
  <2>2. CASE Build(r, b)
    BY <2>2 DEF Build, RouteAt, At
  <2> QED BY <2>1, <2>2
<1>3. PICK s \in {"pricing", "built"} :
         /\ GotoRoute(r, b, s)
         /\ \/ s = "pricing" /\ holder = Nobody /\ holder' = r
            \/ s = "built" /\ holder' = holder
  BY <1>2
<1>4. PICK x : x = [request[r].routes[b] EXCEPT !.stage = s]
  OBVIOUS
<1>5. s \in RouteStages
  BY DEF RouteStages
<1>6. /\ x \in RouteRecords /\ x.stage = s /\ x.usd = request[r].routes[b].usd
      /\ x.amount = request[r].routes[b].amount /\ x.price = request[r].routes[b].price
  BY <1>1, <1>4, <1>5, RouteStageType
<1>7. PICK q : q = WithRoute(request[r], b, x)
  OBVIOUS
<1>8. /\ q \in RequestRecords /\ q.stage = request[r].stage /\ q.ask = request[r].ask
      /\ q.balances = request[r].balances /\ q.value = request[r].value
      /\ q.routes = [request[r].routes EXCEPT ![b] = x] /\ q.fault = request[r].fault
  BY <1>1, <1>6, <1>7, RouteUpdateType
<1>9. Keep(r, q)
  BY <1>3, <1>4, <1>7 DEF GotoRoute, KeepRoute, WithRoute
<1>10. x.amount * x.price <= x.usd /\ x.amount <= b.item.units + Rounding
  BY <1>1, <1>6
<1>11. x.stage # "failed" /\
       (\/ x.stage = "pricing" /\ holder = Nobody /\ holder' = r
        \/ x.stage # "pricing" /\ request[r].routes[b].stage = "pricing" /\ holder' = Nobody
        \/ x.stage # "pricing" /\ holder' = holder)
  BY <1>3, <1>6
<1> QED BY <1>1, <1>2, <1>6, <1>8, <1>9, <1>10, <1>11, RouteInv

\* Whole division rounds down.
LEMMA DivBelow ==
    ASSUME NEW u \in Nat, NEW p \in Nat, p # 0
    PROVE  u \div p \in Nat /\ (u \div p) * p <= u
<1>1. p \in Int /\ p > 0 /\ u \in Int
  OBVIOUS
<1>2. u \div p \in Int /\ u = p * (u \div p) + (u % p) /\ 0 <= u % p
  BY <1>1
<1>3. u \div p >= 0
  BY <1>1
<1> QED BY <1>2, <1>3

LEMMA ProductMonotone ==
    ASSUME NEW a \in Nat, NEW w \in Nat, NEW p \in Nat, a <= w PROVE a * p <= w * p
<1>1. PICK d \in Nat : w = a + d
  BY w - a \in Nat
<1>2. d * p \in Nat
  OBVIOUS
<1>3. w * p = a * p + d * p
  BY <1>1
<1> QED BY <1>2, <1>3

\* A converted amount is worth no more than the USD it is converted from, and
\* no more than the balance as a floating-point number.
LEMMA AmountSound ==
    ASSUME NEW b, b.item.units \in Nat, NEW usd \in Nat, NEW p \in Nat, p # 0,
           NEW a \in Amounts(b, usd, p)
    PROVE  a \in Nat /\ a * p <= usd /\ a <= b.item.units + Rounding
<1>1. PICK w \in Nat : w = usd \div p /\ w * p <= usd
  BY DivBelow
<1>2. Rounding \in Nat
  BY ConstantFacts
<1>3. PICK cap \in {c \in (b.item.units - Rounding)..(b.item.units + Rounding) : c >= 0} :
         a = IF w < cap THEN w ELSE cap
  BY <1>1 DEF Amounts
<1>4. cap \in Nat /\ cap <= b.item.units + Rounding
  BY <1>2, <1>3
<1>5. a \in Nat /\ a <= w /\ a <= cap
  BY <1>3, <1>4
<1>6. a * p <= w * p
  BY <1>5, ProductMonotone
<1>7. a * p \in Nat /\ w * p \in Nat
  BY <1>5
<1>8. a * p <= usd
  BY <1>1, <1>6, <1>7
<1>9. a <= b.item.units + Rounding
  BY <1>2, <1>4, <1>5
<1> QED BY <1>5, <1>8, <1>9

LEMMA PriceRouteInv ==
    ASSUME IInv, NEW r \in Requests, NEW b \in Routes(r), PriceRoute(r, b) PROVE IInv'
<1>1. /\ request[r] \in RequestRecords /\ b \in DOMAIN request[r].routes
      /\ request[r].routes[b] \in RouteRecords /\ request[r].routes[b].usd \in Nat
      /\ b.item.token \in Tokens /\ b.item.units \in Nat
  BY BeforeRoute
<1>2. /\ request[r].stage = "settle" /\ request[r].routes[b].stage = "pricing"
      /\ user' = user
  BY DEF PriceRoute, RouteAt, At
<1>3. PICK p \in Prices[b.item.token] :
         IF p = 0
         THEN Panics(r)
         ELSE /\ \E amount \in Amounts(b, request[r].routes[b].usd, p) :
                    KeepRoute(r, b, [request[r].routes[b] EXCEPT
                                        !.stage = "quote", !.amount = amount, !.price = p])
              /\ holder' = Nobody
  BY DEF PriceRoute
<1>4. p \in Nat
  BY <1>1, ConstantFacts
<1>5. CASE p = 0
  <2>1. Panics(r) /\ 0 \in Prices[b.item.token]
    BY <1>3, <1>5
  <2> QED BY <1>1, <1>2, <2>1, PanicInv
<1>6. CASE p # 0
  <2>1. PICK amount \in Amounts(b, request[r].routes[b].usd, p) :
           KeepRoute(r, b, [request[r].routes[b] EXCEPT
                               !.stage = "quote", !.amount = amount, !.price = p])
    BY <1>3, <1>6
  <2>2. holder' = Nobody
    BY <1>3, <1>6
  <2>3. /\ amount \in Nat /\ amount * p <= request[r].routes[b].usd
        /\ amount <= b.item.units + Rounding
    BY <1>1, <1>4, <1>6, AmountSound
  <2>4. PICK x : x = [request[r].routes[b] EXCEPT
                         !.stage = "quote", !.amount = amount, !.price = p]
    OBVIOUS
  <2>5. /\ x \in RouteRecords /\ x.stage = "quote" /\ x.usd = request[r].routes[b].usd
        /\ x.amount = amount /\ x.price = p
    BY <1>1, <1>4, <2>3, <2>4 DEF RouteRecords, RouteStages
  <2>6. PICK q : q = WithRoute(request[r], b, x)
    OBVIOUS
  <2>7. /\ q \in RequestRecords /\ q.stage = request[r].stage /\ q.ask = request[r].ask
        /\ q.balances = request[r].balances /\ q.value = request[r].value
        /\ q.routes = [request[r].routes EXCEPT ![b] = x] /\ q.fault = request[r].fault
    BY <1>1, <2>5, <2>6, RouteUpdateType
  <2>8. Keep(r, q)
    BY <2>1, <2>4, <2>6 DEF KeepRoute, WithRoute
  <2>9. x.amount * x.price <= x.usd /\ x.amount <= b.item.units + Rounding
    BY <2>3, <2>5
  <2> QED BY <1>1, <1>2, <2>2, <2>5, <2>7, <2>8, <2>9, RouteInv
<1> QED BY <1>5, <1>6

LEMMA RouteFaultInv ==
    ASSUME IInv, NEW r \in Requests, NEW b \in Routes(r),
           RoutePriceFails(r, b) \/ BuildFails(r, b)
    PROVE  IInv'
<1>1. /\ request[r] \in RequestRecords /\ b \in DOMAIN request[r].routes
      /\ request[r].routes[b] \in RouteRecords
      /\ request[r].routes[b].amount * request[r].routes[b].price
            <= request[r].routes[b].usd
      /\ request[r].routes[b].amount <= b.item.units + Rounding
  BY BeforeRoute
<1>2. /\ request[r].stage = "settle" /\ user' = user
      /\ \E f \in BOOLEAN :
            /\ RouteFails(r, b, f) /\ (f \/ request[r].routes[b].amount = 0)
            /\ \/ request[r].routes[b].stage = "pricing" /\ holder' = Nobody
               \/ holder' = holder
  <2>1. CASE RoutePriceFails(r, b)
    BY <2>1 DEF RoutePriceFails, RouteAt, At
  <2>2. CASE BuildFails(r, b)
    BY <2>2 DEF BuildFails, RouteAt, At
  <2> QED BY <2>1, <2>2
<1>3. PICK f \in BOOLEAN :
         /\ RouteFails(r, b, f) /\ (f \/ request[r].routes[b].amount = 0)
         /\ \/ request[r].routes[b].stage = "pricing" /\ holder' = Nobody
            \/ holder' = holder
  BY <1>2
<1>4. PICK x : x = [request[r].routes[b] EXCEPT !.stage = "failed"]
  OBVIOUS
<1>5. /\ x \in RouteRecords /\ x.stage = "failed" /\ x.usd = request[r].routes[b].usd
      /\ x.amount = request[r].routes[b].amount /\ x.price = request[r].routes[b].price
  <2>1. "failed" \in RouteStages
    BY DEF RouteStages
  <2> QED BY <1>1, <1>4, <2>1, RouteStageType
<1>6. PICK q \in RequestRecords :
         /\ Keep(r, q) /\ q.stage = request[r].stage /\ q.ask = request[r].ask
         /\ q.balances = request[r].balances /\ q.value = request[r].value
         /\ q.routes = [request[r].routes EXCEPT ![b] = x]
         /\ (request[r].fault => q.fault) /\ (f => q.fault)
  <2>1. PICK m : m = [request[r].routes EXCEPT ![b] = x]
    OBVIOUS
  <2>2. m \in RouteMaps
    <3>1. m \in [DOMAIN request[r].routes -> RouteRecords]
      BY <1>1, <1>5, <2>1, RecordFields
    <3>2. DOMAIN request[r].routes \in SUBSET Balances
      BY <1>1, RecordFields
    <3> QED BY <3>1, <3>2 DEF RouteMaps
  <2>3. PICK g \in BOOLEAN : g = (request[r].fault \/ f)
    OBVIOUS
  <2>4. PICK q : q = [request[r] EXCEPT !.routes = m, !.fault = g]
    OBVIOUS
  <2>5. /\ q \in RequestRecords /\ q.stage = request[r].stage /\ q.ask = request[r].ask
        /\ q.balances = request[r].balances /\ q.value = request[r].value
        /\ q.routes = m /\ q.fault = g
    BY <1>1, <2>2, <2>3, <2>4 DEF RequestRecords
  <2>6. q = [request[r] EXCEPT !.routes[b].stage = "failed", !.fault = @ \/ f]
    BY <1>1, <1>4, <2>1, <2>3, <2>4 DEF RequestRecords
  <2>7. Keep(r, q)
    BY <1>3, <2>6 DEF RouteFails
  <2> QED BY <2>1, <2>3, <2>5, <2>7
<1>7. /\ x.amount * x.price <= x.usd /\ x.amount <= b.item.units + Rounding
      /\ (q.fault \/ x.amount = 0) /\ (request[r].fault => q.fault)
  BY <1>1, <1>3, <1>5, <1>6
<1> QED BY <1>1, <1>2, <1>3, <1>5, <1>6, <1>7, RouteInv

-----------------------------------------------------------------------------
(* The end of a request. *)

LEMMA CollectInv == ASSUME IInv, NEW r \in Requests, Collect(r) PROVE IInv'
<1>1. /\ request[r] \in RequestRecords /\ Good(request[r], r)
      /\ holder \in Requests \cup {Nobody}
  BY Before DEF IInv
<1>2. /\ request[r].stage = "settle" /\ user' = user /\ holder' = holder
      /\ \A b \in DOMAIN request[r].routes : request[r].routes[b].stage \in {"built", "failed"}
  BY DEF Collect, At, Routes
<1>3. PICK s \in {"approve", "failed"} :
         /\ Keep(r, [request[r] EXCEPT !.stage = s])
         /\ s = "approve" <=> /\ DOMAIN request[r].routes # {}
                              /\ \A b \in DOMAIN request[r].routes :
                                    request[r].routes[b].stage = "built"
  BY DEF Collect, Goto, Routes
<1>4. PICK q : q = [request[r] EXCEPT !.stage = s]
  OBVIOUS
<1>5. s \in Stages
  BY DEF Stages
<1>6. /\ q \in RequestRecords /\ q.stage = s /\ q.ask = request[r].ask
      /\ q.balances = request[r].balances /\ q.value = request[r].value
      /\ q.routes = request[r].routes /\ q.fault = request[r].fault
  BY <1>1, <1>4, <1>5, StageType
<1>7. AskOK(q, r)
  BY <1>1, <1>2, <1>6 DEF Good, AskOK
<1>8. OwnOK(q) /\ MoneyOK(q)
  BY <1>1, <1>6 DEF Good, OwnOK, MoneyOK
<1>9. DoneOK(q)
  BY <1>3, <1>6 DEF DoneOK
<1>10. EndOK(q)
  <2>1. \A b \in DOMAIN q.routes :
           q.routes[b].stage = "failed" /\ ~q.fault => q.routes[b].amount = 0
    BY <1>1, <1>6 DEF Good, EndOK
  <2>2. ASSUME q.stage = "failed", ~q.fault
        PROVE  DOMAIN q.routes = {} \/ \E b \in DOMAIN q.routes : q.routes[b].amount = 0
    BY <1>2, <1>3, <1>6, <2>1, <2>2
  <2>3. q.stage # "panicked"
    BY <1>6
  <2> QED BY <2>1, <2>2, <2>3 DEF EndOK
<1>11. Good(q, r)
  BY <1>7, <1>8, <1>9, <1>10 DEF Good
<1>12. Keep(r, q)
  BY <1>3, <1>4
<1> QED BY <1>1, <1>2, <1>6, <1>11, <1>12, Combine

LEMMA ApproveInv == ASSUME IInv, NEW r \in Requests, Approve(r) PROVE IInv'
<1>1. /\ request[r] \in RequestRecords /\ Good(request[r], r)
      /\ holder \in Requests \cup {Nobody}
  BY Before DEF IInv
<1>2. /\ request[r].stage = "approve" /\ user' = user /\ holder' = holder
      /\ Keep(r, [request[r] EXCEPT !.stage = "answered"])
  BY DEF Approve, At, Goto
<1>3. PICK q : q = [request[r] EXCEPT !.stage = "answered"]
  OBVIOUS
<1>4. "answered" \in Stages
  BY DEF Stages
<1>5. /\ q \in RequestRecords /\ q.stage = "answered" /\ q.ask = request[r].ask
      /\ q.balances = request[r].balances /\ q.value = request[r].value
      /\ q.routes = request[r].routes /\ q.fault = request[r].fault
  BY <1>1, <1>3, <1>4, StageType
<1>6. AskOK(q, r)
  BY <1>1, <1>2, <1>5 DEF Good, AskOK
<1>7. OwnOK(q) /\ MoneyOK(q)
  BY <1>1, <1>5 DEF Good, OwnOK, MoneyOK
<1>8. DoneOK(q) /\ EndOK(q)
  BY <1>1, <1>2, <1>5 DEF Good, DoneOK, EndOK
<1>9. Good(q, r)
  BY <1>6, <1>7, <1>8 DEF Good
<1>10. Keep(r, q)
  BY <1>2, <1>3
<1> QED BY <1>1, <1>2, <1>5, <1>9, <1>10, Combine

-----------------------------------------------------------------------------
(* The invariant. *)

LEMMA InitInv == Init => IInv
<1> SUFFICES ASSUME Init PROVE IInv
  OBVIOUS
<1>1. user \in Users /\ holder = Nobody /\ request = [r \in Requests |-> Idle(user.asks[r])]
  BY DEF Init
<1>2. ASSUME NEW r \in Requests
      PROVE  /\ request[r] \in RequestRecords /\ Good(request[r], r)
             /\ MutexOK(request[r], r)
  <2>1. user.asks[r] \in Asks /\ <<>> \in AccountLists /\ "idle" \in Stages
    BY <1>1, UserFacts DEF AccountLists, Stages
  <2>2. PICK m : m = NoRoutes
    OBVIOUS
  <2>3. DOMAIN m = {} /\ Chosen(m) = 0 /\ m \in RouteMaps
    <3>1. NoRoutes \in [{} -> RouteRecords] /\ {} \in SUBSET Balances
      BY DEF NoRoutes
    <3>2. NoRoutes \in RouteMaps
      BY <3>1 DEF RouteMaps
    <3> QED BY <2>2, <3>2, ChosenNone
  <2>4. request[r] = [stage |-> "idle", ask |-> user.asks[r], accounts |-> <<>>,
                      balances |-> {}, value |-> 0, routes |-> m, fault |-> FALSE]
    BY <1>1, <2>2 DEF Idle
  <2>5. PICK q : q = request[r]
    OBVIOUS
  <2>6. /\ q \in RequestRecords /\ q.stage = "idle" /\ q.ask = user.asks[r]
        /\ q.balances = {} /\ q.value = 0 /\ q.routes = m
    BY <2>1, <2>3, <2>4, <2>5 DEF RequestRecords
  <2>7. AskOK(q, r) /\ OwnOK(q)
    BY <2>3, <2>6, FS_EmptySet DEF AskOK, OwnOK
  <2>8. MoneyOK(q) /\ DoneOK(q) /\ EndOK(q) /\ MutexOK(q, r)
    BY <2>3, <2>6 DEF MoneyOK, DoneOK, EndOK, MutexOK
  <2> QED BY <2>5, <2>6, <2>7, <2>8 DEF Good
<1>3. request \in [Requests -> RequestRecords]
  BY <1>1, <1>2
<1> QED BY <1>1, <1>2, <1>3 DEF IInv

LEMMA StutterInv == ASSUME IInv, UNCHANGED vars PROVE IInv'
  BY DEF IInv, vars, Good, MutexOK, AskOK, OwnOK, MoneyOK, DoneOK, EndOK

LEMMA NextInv == IInv /\ [Next]_vars => IInv'
<1> SUFFICES ASSUME IInv, [Next]_vars PROVE IInv'
  OBVIOUS
<1>1. CASE UNCHANGED vars
  BY <1>1, StutterInv
<1>2. CASE Next
  <2>1. PICK r \in Requests : Arrive(r) \/ Step(r)
    BY <1>2 DEF Next
  <2>2. CASE Arrive(r)
    BY <2>2, ArriveInv
  <2>3. CASE LookUp(r)
    BY <2>3, LookUpInv
  <2>4. CASE LookUpFails(r) \/ TargetPriceFails(r)
    BY <2>4, FaultInv
  <2>5. CASE Fetch(r)
    BY <2>5, FetchInv
  <2>6. CASE LockForTarget(r)
    BY <2>6, LockForTargetInv
  <2>7. CASE Choose(r) \/ ChoosePanics(r)
    BY <2>7, ChooseInv, ChoosePanicsInv
  <2>8. CASE \E b \in Routes(r) : RouteStep(r, b)
    <3>1. PICK b \in Routes(r) : RouteStep(r, b)
      BY <2>8
    <3>2. CASE LockForRoute(r, b) \/ Build(r, b)
      BY <3>2, RouteMovesInv
    <3>3. CASE PriceRoute(r, b)
      BY <3>3, PriceRouteInv
    <3>4. CASE RoutePriceFails(r, b) \/ BuildFails(r, b)
      BY <3>4, RouteFaultInv
    <3> QED BY <3>1, <3>2, <3>3, <3>4 DEF RouteStep
  <2>9. CASE Collect(r)
    BY <2>9, CollectInv
  <2>10. CASE Approve(r)
    BY <2>10, ApproveInv
  <2> QED BY <2>1, <2>2, <2>3, <2>4, <2>5, <2>6, <2>7, <2>8, <2>9, <2>10 DEF Step
<1> QED BY <1>1, <1>2

THEOREM Invariance == Spec => []IInv
  BY InitInv, NextInv, PTL DEF Spec

-----------------------------------------------------------------------------
(* What it gives. *)

\* Requests, their balances and routes keep their types; a request or a route
\* that awaits a price holds the mutex of the price provider, so that no two
\* ever do (service_controller.rs, settlement_engine.rs:95-116).
THEOREM RequestsAreTyped == Spec => []TypeOK
<1>1. ASSUME IInv PROVE TypeOK
  <2>1. user \in Users /\ holder \in Requests \cup {Nobody}
    BY <1>1 DEF IInv
  <2>2. ASSUME NEW r \in Requests
        PROVE  LET q == request[r] IN
               /\ q.stage \in Stages /\ q.ask = user.asks[r] /\ q.fault \in BOOLEAN
               /\ q.value \in Nat
               /\ q.balances \subseteq Balances
               /\ DOMAIN q.routes \subseteq Balances
               /\ \A b \in DOMAIN q.routes :
                     /\ q.routes[b].stage \in RouteStages
                     /\ q.routes[b].usd \in Nat /\ q.routes[b].amount \in Nat
                     /\ q.routes[b].price \in Nat
                     /\ q.stage = "settle" /\ q.routes[b].stage = "pricing" =>
                           /\ holder = r
                           /\ \A d \in DOMAIN q.routes \ {b} :
                                 q.routes[d].stage # "pricing"
               /\ q.stage = "pricing" => holder = r
    <3>1. PICK q \in RequestRecords : q = request[r]
      BY <1>1, Before
    <3>2. Good(q, r) /\ MutexOK(q, r)
      BY <1>1, <3>1, Before
    <3>3. q.ask = user.asks[r]
      BY <3>2 DEF Good, AskOK
    <3>4. /\ q.stage = "pricing" => holder = r
          /\ \A b \in DOMAIN q.routes :
                q.stage = "settle" /\ q.routes[b].stage = "pricing" =>
                   /\ holder = r
                   /\ \A d \in DOMAIN q.routes \ {b} : q.routes[d].stage # "pricing"
      BY <3>2 DEF MutexOK
    <3> QED BY <3>1, <3>3, <3>4, RecordFields
  <2> QED BY <2>1, <2>2 DEF TypeOK
<1> QED BY <1>1, Invariance, PTL

\* The transactions of an answer never spend more of a token than the account
\* holds and rounding adds, although prices move in between, unless an item is
\* counted twice or merely bears the symbol (settlement_engine.rs:95-116).
THEOREM NothingOverdrawn == Spec => []NotOverdrawn
<1>1. ASSUME IInv PROVE NotOverdrawn
  <2> SUFFICES ASSUME NEW r \in Requests, NEW b \in Routes(r),
                      ~CountedTwice(Draws(r, b)), ~LookAlike(Draws(r, b))
               PROVE  Amount(r, Draws(r, b)) <= Held(b) + Rounding
    BY DEF NotOverdrawn
  <2>1. /\ request[r].routes[b].amount \in Nat
        /\ request[r].routes[b].amount <= b.item.units + Rounding
        /\ b.item \in user.items /\ b.item.units \in Nat
    BY <1>1, BeforeRoute
  <2>2. {g \in user.items : /\ g.chain = b.item.chain /\ g.account = b.item.account
                            /\ g.contract = b.item.contract} = {b.item}
    BY <1>1, <2>1, Before, UserFacts
  <2>3. b \in Draws(r, b) /\ b.item.contract = ConfiguredContract(b)
    BY DEF Draws, LookAlike
  <2>4. Draws(r, b) = {b}
    <3>1. ASSUME NEW d \in Draws(r, b) PROVE d = b
      <4>1. /\ d \in Routes(r) /\ d.item.account = b.item.account
            /\ d.item.token = b.item.token /\ d.item.chain = b.item.chain
        BY DEF Draws
      <4>2. d.item.contract = ConfiguredContract(d)
        BY DEF LookAlike
      <4>3. d.item.contract = b.item.contract
        BY <2>3, <4>1, <4>2 DEF ConfiguredContract
      <4>4. d.item \in user.items
        BY <1>1, <4>1, BeforeRoute
      <4>5. d.item = b.item
        BY <2>2, <4>1, <4>3, <4>4
      <4> QED BY <2>3, <4>5 DEF CountedTwice
    <3> QED BY <2>3, <3>1
  <2>5. Amount(r, Draws(r, b)) = request[r].routes[b].amount
    <3> DEFINE f == [d \in {b} |-> request[r].routes[d].amount]
    <3>1. DOMAIN f = {b} /\ f[b] = request[r].routes[b].amount /\ f[b] \in Int
      BY <2>1
    <3>2. Amount(r, Draws(r, b)) = SumFunction(f)
      BY <2>4 DEF Amount
    <3> HIDE DEF f
    <3> QED BY <3>1, <3>2, SumOfOne
  <2>6. Held(b) = b.item.units
    <3> DEFINE S == {g \in user.items : /\ g.account = b.item.account
                                        /\ g.chain = b.item.chain
                                        /\ g.contract = ConfiguredContract(b)}
               f == [h \in S |-> h.units]
    <3>1. S = {b.item}
      BY <2>2, <2>3
    <3>2. DOMAIN f = {b.item} /\ f[b.item] = b.item.units /\ f[b.item] \in Int
      BY <2>1, <3>1
    <3>3. Held(b) = SumFunction(f)
      BY DEF Held
    <3> HIDE DEF f
    <3> QED BY <3>2, <3>3, SumOfOne
  <2> QED BY <2>1, <2>5, <2>6
<1> QED BY <1>1, Invariance, PTL

\* An answer has a transaction for every balance that was chosen, and together
\* these are worth no more than what was asked for (settlement_engine.rs:90-169).
THEOREM AnswersAreAsChosen == Spec => []AnswerAsChosen
<1>1. ASSUME IInv PROVE AnswerAsChosen
  <2> SUFFICES ASSUME NEW r \in Requests, Answer(r)
               PROVE  /\ Routes(r) # {}
                      /\ \A b \in Routes(r) : request[r].routes[b].stage = "built"
                      /\ SumFunction([b \in Routes(r) |->
                            request[r].routes[b].amount * request[r].routes[b].price])
                               <= request[r].value
    BY DEF AnswerAsChosen
  <2>1. request[r].stage = "answered" /\ request[r].ask.kind = "path"
    BY DEF Answer, At
  <2>2. request[r] \in RequestRecords /\ Good(request[r], r)
    BY <1>1, Before
  <2>3. Routes(r) # {} /\ \A b \in Routes(r) : request[r].routes[b].stage = "built"
    BY <2>1, <2>2 DEF Good, DoneOK, Routes
  <2> DEFINE R == Routes(r)
             f == [b \in R |-> request[r].routes[b].amount * request[r].routes[b].price]
             v == Values(request[r].routes)
  <2>4. IsFiniteSet(R) /\ R = DOMAIN request[r].routes
    BY <2>2 DEF Good, OwnOK, Routes
  <2>5. ASSUME NEW b \in R PROVE f[b] \in Int /\ v[b] \in Int /\ f[b] <= v[b]
    <3>1. /\ request[r].routes[b].usd \in Nat /\ request[r].routes[b].amount \in Nat
          /\ request[r].routes[b].price \in Nat
          /\ request[r].routes[b].amount * request[r].routes[b].price
                <= request[r].routes[b].usd
      BY <1>1, BeforeRoute
    <3>2. v[b] = request[r].routes[b].usd
      BY <2>4 DEF Values
    <3>3. f[b] = request[r].routes[b].amount * request[r].routes[b].price
      OBVIOUS
    <3>4. request[r].routes[b].amount * request[r].routes[b].price \in Int
      BY <3>1
    <3> HIDE DEF f, v
    <3> QED BY <3>1, <3>2, <3>3, <3>4
  <2>6. SumFunction(f) = SumFunctionOnSet(f, R)
    BY DEF SumFunction
  <2>7. Chosen(request[r].routes) = SumFunctionOnSet(v, R)
    BY <2>4, ChosenIsSum
  <2>8. Chosen(request[r].routes) <= request[r].value
    BY <2>2 DEF Good, MoneyOK
  <2>9. request[r].value \in Int
    BY <2>2, RecordFields
  <2>10. SumFunction(f) <= request[r].value
    <3> HIDE DEF f, v, R
    <3>1. SumFunctionOnSet(f, R) \in Int /\ SumFunctionOnSet(v, R) \in Int
      BY <2>4, <2>5, SumInt
    <3>2. SumFunctionOnSet(f, R) <= SumFunctionOnSet(v, R)
      BY <2>4, <2>5, SumMonotone
    <3> QED BY <2>6, <2>7, <2>8, <2>9, <3>1, <3>2
  <2> QED BY <2>3, <2>10
<1> QED BY <1>1, Invariance, PTL

\* A request fails or panics only for a reason of its own
\* (service.rs:305-344, routing_engine.rs:216-220, utils.rs:32-35).
THEOREM FailuresAreExplained == Spec => []FailureExplained
<1>1. ASSUME IInv PROVE FailureExplained
  <2> SUFFICES ASSUME NEW r \in Requests
               PROVE  /\ At(r, "failed") /\ ~request[r].fault =>
                            \/ Routes(r) = {}
                            \/ \E b \in Routes(r) : request[r].routes[b].amount = 0
                      /\ At(r, "panicked") =>
                            \/ \E h \in user.items : h.token = Unnamed /\ h.usd # 0
                            \/ \E b, d \in WithBucket(request[r].balances) :
                                  /\ b # d /\ (b \in Direct(r) <=> d \in Direct(r))
                                  /\ MayLackScore(b)
                            \/ \E b \in Routes(r) :
                                  /\ request[r].routes[b].stage = "pricing"
                                  /\ 0 \in Prices[b.item.token]
    BY DEF FailureExplained
  <2>1. EndOK(request[r])
    BY <1>1, Before DEF Good
  <2>2. Unscored(request[r]) =>
           \E b, d \in WithBucket(request[r].balances) :
              /\ b # d /\ (b \in Direct(r) <=> d \in Direct(r))
              /\ MayLackScore(b)
    BY DEF Unscored, WithBucket, Direct
  <2> QED BY <2>1, <2>2 DEF EndOK, At, Routes
<1> QED BY <1>1, Invariance, PTL
=============================================================================
