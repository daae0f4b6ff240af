------------------------------ MODULE BestPath ------------------------------
(***************************************************************************)
(* The two requests of the solver that read balances, from the handler to  *)
(* its answer (service_controller.rs, get_best_path and get_balance), with *)
(* what the parts do for them put together: the account service looks the  *)
(* accounts up and fetches their balances (service.rs), the routing engine *)
(* chooses balances worth what is asked for, and the settlement engine     *)
(* turns every choice into an amount of tokens, a quote and a transaction  *)
(* (settlement_engine.rs, bungee/mod.rs).  Requests run concurrently and   *)
(* share the mutex around the price provider.                              *)
(*                                                                         *)
(* Routing.tla and Settlement.tla hold the detail of the choice and of the *)
(* approvals; here a choice is any that Routing allows for some fees, and  *)
(* approvals are one step; the panic of a sort is a step of its own.       *)
(* Amounts of tokens and of USD are integers, a price is USD per token.    *)
(***************************************************************************)
EXTENDS Integers, Sequences, FiniteSets, Functions

CONSTANTS
    Requests,      \* requests to this solver
    Nobody,        \* the price mutex is free
    Users,         \* [accounts, items, asks]: the accounts of a user, <<>> if
                   \* there is no mapping, the items Covalent lists for them,
                   \* and what each request asks for
    Network,       \* configured chain -> chain its Covalent name stands for
    Unnamed,       \* no ticker symbol
    Gas,           \* "ETH"
    GasReserve,    \* one dollar
    Contract,      \* <<token, chain>> -> contract, as configured
    Supported,     \* <<token, chain>> that may be asked for
    Bucketed,      \* <<token, chain>> for which there is a bucket
    Dipping,       \* those whose estimate may be below zero, under a y_value
                   \* that is no whole number
    Free,          \* those whose estimate may be zero
    Prices,        \* token -> prices that may be read, as it moves; 0 is one
                   \* that rounds to zero
    Rounding,      \* what a balance may gain or lose as a floating-point number
    RouteLimit     \* GENERATE_TRANSACTIONS_CONCURRENCY

Tokens == DOMAIN Prices
Chains == DOMAIN Network

ASSUME BestPathAssumption ==
    /\ Nobody \notin Requests
    /\ IsFiniteSet(Chains)
    /\ \A u \in Users :
          /\ IsFiniteSet(u.items) /\ IsFiniteSet(DOMAIN u.accounts)
          /\ \A r \in Requests : u.asks[r].amount \in Nat
    /\ \A u \in Users : \A h \in u.items :
          /\ h.units \in Nat /\ h.usd \in Nat
          /\ {g \in u.items : /\ g.chain = h.chain /\ g.account = h.account
                              /\ g.contract = h.contract} = {h}
    /\ GasReserve \in Nat /\ Rounding \in Nat /\ RouteLimit \in Nat \ {0}
    /\ Unnamed \notin Tokens
    /\ \A t \in Tokens : Prices[t] \subseteq Nat /\ Prices[t] # {}
    /\ DOMAIN Contract \subseteq Tokens \X Chains
    \* RoutesConvert of Configuration.tla
    /\ Bucketed \subseteq DOMAIN Contract /\ Supported \subseteq DOMAIN Contract
    \* a token that is asked for has a price that does not round to zero
    /\ \A u \in Users, r \in Requests :
          <<u.asks[r].token, u.asks[r].chain>> \in Supported =>
             0 \notin Prices[u.asks[r].token]

VARIABLES
    user,          \* the accounts of the user and what they hold
    holder,        \* request in which a task holds the price mutex, or Nobody
    request        \* request -> how far it is

vars == <<user, holder, request>>

Stages == {"idle", "lookup", "fetch", "wait", "pricing", "settle", "approve",
           "answered", "rejected", "failed", "panicked"}
Ended(r) == request[r].stage \in {"answered", "rejected", "failed", "panicked"}

(***************************************************************************)
(* A balance is an item of the answer for one account of the list and one  *)
(* configured chain: two chains with one Covalent name, or an account that *)
(* is listed twice, give the same item twice.                              *)
(***************************************************************************)
Balance(i, c, h) == [at |-> i, asked |-> c, item |-> h]
Places == {1} \cup UNION {DOMAIN u.accounts : u \in Users}
Balances == {Balance(i, c, h) : i \in Places, c \in Chains, h \in UNION {u.items : u \in Users}}

Route(usd) == [usd |-> usd, amount |-> 0, price |-> 0, stage |-> "wait"]
RouteStages == {"wait", "pricing", "quote", "built", "failed"}
NoRoutes == [b \in {} |-> Route(0)]

Idle(a) == [stage |-> "idle", ask |-> a, accounts |-> <<>>,
            balances |-> {}, value |-> 0, routes |-> NoRoutes, fault |-> FALSE]

TypeOK ==
    /\ user \in Users
    /\ holder \in Requests \cup {Nobody}
    /\ \A r \in Requests :
          LET q == request[r] IN
          /\ q.stage \in Stages /\ q.ask = user.asks[r] /\ q.fault \in BOOLEAN
          /\ q.value \in Nat
          /\ q.balances \subseteq Balances
          /\ DOMAIN q.routes \subseteq Balances
          /\ \A b \in DOMAIN q.routes :
                /\ q.routes[b].stage \in RouteStages
                /\ q.routes[b].usd \in Nat /\ q.routes[b].amount \in Nat
                /\ q.routes[b].price \in Nat
                \* the mutex belongs to the task that awaits a price
                /\ q.stage = "settle" /\ q.routes[b].stage = "pricing" =>
                      /\ holder = r
                      /\ \A d \in DOMAIN q.routes \ {b} : q.routes[d].stage # "pricing"
          /\ q.stage = "pricing" => holder = r

Init ==
    /\ user \in Users
    /\ holder = Nobody
    /\ request = [r \in Requests |-> Idle(user.asks[r])]

----------------------------------------------------------------------------
At(r, stage) == request[r].stage = stage
Keep(r, q) == request' = [request EXCEPT ![r] = q]
Goto(r, stage) == Keep(r, [request[r] EXCEPT !.stage = stage])

\* Mutant of Panics: the mutex stays with the task that panicked.
PanicsHolding(r) == Goto(r, "panicked") /\ UNCHANGED holder

\* The request ends: its task drops what it holds, the mutex included.
Panics(r) ==
    /\ Goto(r, "panicked")
    /\ holder' = IF holder = r THEN Nobody ELSE holder
Fails(r) == Keep(r, [request[r] EXCEPT !.stage = "failed", !.fault = TRUE])

\* get_balance is for everybody, get_best_path for a token that is enabled on the chain.
Admitted(a) == a.kind = "balance" \/ <<a.token, a.chain>> \in Supported

Arrive(r) ==
    /\ At(r, "idle")
    /\ Goto(r, IF Admitted(request[r].ask) THEN "lookup" ELSE "rejected")
    /\ UNCHANGED <<user, holder>>

(***************************************************************************)
(* The accounts of the user.  A failed read of the mapping counts as no    *)
(* mapping, a failed read of the user ends the request.                    *)
(***************************************************************************)
LookUp(r) ==
    /\ At(r, "lookup")
    /\ \E accounts \in {user.accounts, <<request[r].ask.account>>} \ {<<>>} :
          Keep(r, [request[r] EXCEPT !.stage = "fetch", !.accounts = accounts])
    /\ UNCHANGED <<user, holder>>

LookUpFails(r) ==
    /\ At(r, "lookup") /\ user.accounts # <<>>
    /\ Fails(r)
    /\ UNCHANGED <<user, holder>>

\* Mutant of Quoted: items without a quote are not left out.
QuotedOrNot(r, pairs) ==
    {b \in Balances :
        /\ <<b.at, b.asked>> \in pairs /\ b.item \in user.items
        /\ b.item.account = request[r].accounts[b.at]
        /\ b.item.chain = Network[b.asked]}

\* What the answers for these pairs of a listed account and a chain hold,
\* without the items that have no quote.
Quoted(r, pairs) ==
    {b \in Balances :
        /\ <<b.at, b.asked>> \in pairs /\ b.item \in user.items
        /\ b.item.account = request[r].accounts[b.at]
        /\ b.item.chain = Network[b.asked]
        /\ b.item.usd # 0}

Total(balances) == SumFunction([b \in balances |-> b.item.usd])
Configured(balances) ==
    {b \in balances : b.item.token \in Tokens /\ b.item.chain \in Chains}

(***************************************************************************)
(* Every pair is fetched at once, and those whose request or parsing fails *)
(* are left out.  An item that has a quote and no symbol panics.           *)
(***************************************************************************)
Fetch(r) ==
    /\ At(r, "fetch")
    /\ \E reached \in SUBSET ((DOMAIN request[r].accounts) \X Chains) :
          LET found == Quoted(r, reached) IN
          IF \E b \in found : b.item.token = Unnamed
          THEN Panics(r)
          ELSE /\ Keep(r, IF request[r].ask.kind = "balance"
                          THEN [request[r] EXCEPT !.stage = "answered", !.accounts = <<>>,
                                                  !.value = Total(found)]
                          ELSE [request[r] EXCEPT !.stage = "wait", !.accounts = <<>>,
                                                  !.balances = Configured(found)])
               /\ UNCHANGED holder
    /\ UNCHANGED user

----------------------------------------------------------------------------
(* The choice of balances. *)

Usable(b) ==
    IF b.item.token # Gas THEN b.item.usd
    ELSE IF b.item.usd > GasReserve THEN b.item.usd - GasReserve ELSE 0

Worth(balances) == SumFunction([b \in balances |-> Usable(b)])

WithBucket(balances) == {b \in balances : <<b.item.token, b.item.chain>> \in Bucketed}

\* amount^x / fee^y is no number: a root of a fee below zero, or 0 / 0.
MayLackScore(b) ==
    LET path == <<b.item.token, b.item.chain>>
    IN path \in Dipping \/ (path \in Free /\ b.item.units = 0)

\* What a pass over these balances may take: all that have an estimate when they
\* are worth less than what is needed, or some of them and a part of one more.
Takes(balances, need) ==
    IF need = 0 THEN {NoRoutes}
    ELSE LET priced == WithBucket(balances)
             short == {s \in SUBSET priced : Worth(s) < need}
         IN {[b \in s |-> Route(Usable(b))] : s \in short}
            \cup UNION {{[b \in s \cup {last} |->
                            Route(IF b = last THEN need - Worth(s) ELSE Usable(b))] :
                         last \in {b \in priced \ s : Usable(b) >= need - Worth(s)}} :
                        s \in short}

Chosen(routes) == SumFunction([b \in DOMAIN routes |-> routes[b].usd])
Both(f, g) == [b \in DOMAIN f \cup DOMAIN g |-> IF b \in DOMAIN f THEN f[b] ELSE g[b]]

Direct(r) == {b \in request[r].balances : b.item.token = request[r].ask.token}
\* Mutant of Choosable: the second pass starts from the whole value again.
ChoosableAgain(r, value) ==
    UNION {{Both(f, g) : g \in Takes(request[r].balances \ Direct(r), value)} :
           f \in Takes(Direct(r), value)}

Choosable(r, value) ==
    UNION {{Both(f, g) : g \in Takes(request[r].balances \ Direct(r), value - Chosen(f))} :
           f \in Takes(Direct(r), value)}

LockForTarget(r) ==
    /\ At(r, "wait") /\ holder = Nobody
    /\ holder' = r
    /\ Goto(r, "pricing")
    /\ UNCHANGED user

\* The price of the token asked for arrives, and the balances are chosen.
Choose(r) ==
    /\ At(r, "pricing")
    /\ \E p \in Prices[request[r].ask.token] :
       LET value == p * request[r].ask.amount IN
       \E routes \in Choosable(r, value) :
          Keep(r, [request[r] EXCEPT !.stage = "settle", !.value = value,
                                     !.balances = {}, !.routes = routes])
    /\ holder' = Nobody
    /\ UNCHANGED user

\* A pass that sorts two balances or more panics over one without a score.
Unsortable(balances) ==
    /\ Cardinality(WithBucket(balances)) >= 2
    /\ \E b \in WithBucket(balances) : MayLackScore(b)

\* So does the choice, in the first pass or in the second, for which the first
\* has left something.
ChoosePanics(r) ==
    /\ At(r, "pricing")
    /\ \/ Unsortable(Direct(r))
       \/ /\ Unsortable(request[r].balances \ Direct(r))
          /\ \E p \in Prices[request[r].ask.token] :
             LET value == p * request[r].ask.amount IN
             \E routes \in Takes(Direct(r), value) : Chosen(routes) < value
    /\ Panics(r)
    /\ UNCHANGED user

TargetPriceFails(r) ==
    /\ At(r, "pricing")
    /\ Fails(r)
    /\ holder' = Nobody
    /\ UNCHANGED user

----------------------------------------------------------------------------
(* generate_transactions: up to RouteLimit routes at a time. *)

Routes(r) == DOMAIN request[r].routes
RouteAt(r, b, stage) == At(r, "settle") /\ request[r].routes[b].stage = stage
Busy(r) == {b \in Routes(r) : request[r].routes[b].stage \in {"pricing", "quote"}}
KeepRoute(r, b, route) == Keep(r, [request[r] EXCEPT !.routes[b] = route])
GotoRoute(r, b, stage) ==
    KeepRoute(r, b, [request[r].routes[b] EXCEPT !.stage = stage])
RouteFails(r, b, fault) ==
    Keep(r, [request[r] EXCEPT !.routes[b].stage = "failed", !.fault = @ \/ fault])

\* Mutant of LockForRoute: the price provider is called without its mutex.
PriceUnlocked(r, b) ==
    /\ RouteAt(r, b, "wait")
    /\ Cardinality(Busy(r)) < RouteLimit
    /\ holder' = r
    /\ GotoRoute(r, b, "pricing")
    /\ UNCHANGED user

LockForRoute(r, b) ==
    /\ RouteAt(r, b, "wait") /\ holder = Nobody
    /\ Cardinality(Busy(r)) < RouteLimit
    /\ holder' = r
    /\ GotoRoute(r, b, "pricing")
    /\ UNCHANGED user

\* Mutant of Amounts: the balance is no limit.
AmountsUncapped(b, usd, p) == {usd \div p}

\* get_token_amount_from_value_in_usd, capped by the balance.
Amounts(b, usd, p) ==
    LET wanted == usd \div p
    IN {IF wanted < cap THEN wanted ELSE cap :
           cap \in {c \in (b.item.units - Rounding)..(b.item.units + Rounding) : c >= 0}}

PriceRoute(r, b) ==
    /\ RouteAt(r, b, "pricing")
    /\ \E p \in Prices[b.item.token] :
       IF p = 0
       THEN Panics(r)   \* division by zero
       ELSE /\ \E amount \in Amounts(b, request[r].routes[b].usd, p) :
                  KeepRoute(r, b, [request[r].routes[b] EXCEPT
                                      !.stage = "quote", !.amount = amount, !.price = p])
            /\ holder' = Nobody
    /\ UNCHANGED user

RoutePriceFails(r, b) ==
    /\ RouteAt(r, b, "pricing")
    /\ RouteFails(r, b, TRUE)
    /\ holder' = Nobody
    /\ UNCHANGED user

\* generate_route_transactions: a quote, then the transaction for its cheapest route.
Build(r, b) ==
    /\ RouteAt(r, b, "quote")
    /\ GotoRoute(r, b, "built")
    /\ UNCHANGED <<user, holder>>

\* Either call fails; nothing is routed for an amount of zero.
BuildFails(r, b) ==
    /\ RouteAt(r, b, "quote")
    /\ RouteFails(r, b, request[r].routes[b].amount # 0)
    /\ UNCHANGED <<user, holder>>

\* Mutant of Collect: the routes that were built are answered without the others.
CollectBuilt(r) ==
    /\ At(r, "settle")
    /\ \A b \in Routes(r) : request[r].routes[b].stage \in {"built", "failed"}
    /\ Goto(r, IF \E b \in Routes(r) : request[r].routes[b].stage = "built"
               THEN "approve" ELSE "failed")
    /\ UNCHANGED <<user, holder>>

\* Every route has run: one that failed, or none at all, fails the request.
Collect(r) ==
    /\ At(r, "settle")
    /\ \A b \in Routes(r) : request[r].routes[b].stage \in {"built", "failed"}
    /\ Goto(r, IF Routes(r) # {} /\ \A b \in Routes(r) : request[r].routes[b].stage = "built"
               THEN "approve" ELSE "failed")
    /\ UNCHANGED <<user, holder>>

\* generate_transactions_for_approvals, in detail in Settlement.tla: an approval that
\* cannot be made is left out, and the request is answered all the same.
Approve(r) ==
    /\ At(r, "approve")
    /\ Goto(r, "answered")
    /\ UNCHANGED <<user, holder>>

----------------------------------------------------------------------------
RouteStep(r, b) ==
    \/ LockForRoute(r, b) \/ PriceRoute(r, b) \/ RoutePriceFails(r, b)
    \/ Build(r, b) \/ BuildFails(r, b)

Step(r) ==
    \/ LookUp(r) \/ LookUpFails(r) \/ Fetch(r)
    \/ LockForTarget(r) \/ Choose(r) \/ ChoosePanics(r) \/ TargetPriceFails(r)
    \/ \E b \in Routes(r) : RouteStep(r, b)
    \/ Collect(r) \/ Approve(r)

Next == \E r \in Requests : Arrive(r) \/ Step(r)

\* Every call a request awaits returns or fails, and the mutex is granted in
\* turn; nothing makes a request arrive.
Spec == Init /\ [][Next]_vars /\ \A r \in Requests : WF_vars(Step(r))

----------------------------------------------------------------------------
Answer(r) == At(r, "answered") /\ request[r].ask.kind = "path"

\* The routes of r that draw on the same token contract of the same account.
Draws(r, b) ==
    {d \in Routes(r) : /\ d.item.account = b.item.account
                       /\ d.item.token = b.item.token /\ d.item.chain = b.item.chain}
Amount(r, bs) == SumFunction([b \in bs |-> request[r].routes[b].amount])
ConfiguredContract(b) == Contract[<<b.item.token, b.item.chain>>]
Held(b) ==
    SumFunction([h \in {g \in user.items : /\ g.account = b.item.account
                                           /\ g.chain = b.item.chain
                                           /\ g.contract = ConfiguredContract(b)} |-> h.units])

CountedTwice(bs) == \E b \in bs, d \in bs : b # d /\ b.item = d.item
LookAlike(bs) == \E b \in bs : b.item.contract # ConfiguredContract(b)

(***************************************************************************)
(* The transactions of an answer never spend more of a token than the      *)
(* account holds, although prices move between the choice of a balance and *)
(* its conversion, except by what rounding adds to a balance that is spent *)
(* whole, where the same item was counted twice (an account listed twice,  *)
(* two chains with one Covalent name), or where an item merely bears the   *)
(* symbol of a configured token (settlement_engine.rs:95-116,              *)
(* service.rs:257-344).                                                    *)
(***************************************************************************)
NotOverdrawn ==
    \A r \in Requests : Answer(r) =>
       \A b \in Routes(r) :
          \/ Amount(r, Draws(r, b)) <= Held(b) + Rounding
          \/ CountedTwice(Draws(r, b)) \/ LookAlike(Draws(r, b))

(***************************************************************************)
(* An answer has a transaction for every balance that was chosen, although *)
(* their routes fail one by one and in any order, and together these are   *)
(* never worth more than what was asked for at the price the request read, *)
(* each at the price it was converted at: what the first pass leaves is    *)
(* all the second may take (routing_engine.rs:137-156,                     *)
(* settlement_engine.rs:90-169).                                           *)
(***************************************************************************)
AnswerAsChosen ==
    \A r \in Requests : Answer(r) =>
       /\ Routes(r) # {}
       /\ \A b \in Routes(r) : request[r].routes[b].stage = "built"
       /\ SumFunction([b \in Routes(r) |->
                          request[r].routes[b].amount * request[r].routes[b].price])
             <= request[r].value

(***************************************************************************)
(* A request fails although none of the calls made for it did only if      *)
(* nothing could be chosen or a chosen balance is worth no token at all,   *)
(* as ETH worth less than the reserve is; and it panics only over an item  *)
(* with a quote and no symbol, over two balances it sorts together one of  *)
(* which may have no score, or over a price that rounds to zero.  What     *)
(* happens to one request is never due to another, whose calls may fail    *)
(* and whose task may panic inside the mutex (service.rs:305-344,          *)
(* routing_engine.rs:216-220, utils.rs:32-35).                             *)
(***************************************************************************)
FailureExplained ==
    \A r \in Requests :
       /\ At(r, "failed") /\ ~request[r].fault =>
             \/ Routes(r) = {}
             \/ \E b \in Routes(r) : request[r].routes[b].amount = 0
       /\ At(r, "panicked") =>
             \/ \E h \in user.items : h.token = Unnamed /\ h.usd # 0
             \/ \E b, d \in WithBucket(request[r].balances) :
                   /\ b # d /\ (b \in Direct(r) <=> d \in Direct(r))
                   /\ MayLackScore(b)
             \/ \E b \in Routes(r) :
                   /\ request[r].routes[b].stage = "pricing"
                   /\ 0 \in Prices[b.item.token]

(***************************************************************************)
(* A request that arrives is answered, refused or given up, whatever fails *)
(* for it or for the requests it shares the price mutex with.              *)
(***************************************************************************)
Served == \A r \in Requests : ~At(r, "idle") ~> Ended(r)
=============================================================================
