# A TLA+ model of Reflux

Reflux answers one question for a user who owns balances on several accounts,
chains and tokens: *which bridge transactions should I sign so that a given
amount of a token arrives on a given chain?*  It is one binary with three modes
(`src/bin/reflux/src/main.rs`): a **solver** (an HTTP server, several replicas),
an **indexer** (a cron job that learns what bridging costs) and a **search for
the lowest transfer amount** (a command-line aid).  They share Redis; the
solvers share MongoDB; Bungee, CoinGecko, Covalent and the chains are external.

This directory holds TLA+ modules that model that program, TLC configurations
that check them on small instances, and theorems about them that TLAPS checks
for every value of the constants.

    tlasany M.tla                           # parse a module
    tlc -workers 2 -config X.cfg M          # run a configuration of module M
    tlapm M_proofs.tla                      # check the proofs

`PROJECT.json` relates everything to the source: `map` gives the lines each
definition stands for, `runs` the configurations, `mutants` a plausible bug for
each property that its run detects, `hazards` what can go wrong in this code and
which property watches it, `findings` where the code and what it says differ,
`theorems` what is proved.

Contents: [inventory](#inventory) · [modules](#modules) · [runs](#runs) ·
[fairness](#fairness) · [proofs](#proofs) · [findings](#findings) ·
[limits](#what-is-not-modelled) · [plan](#plan)


## Inventory

Paths below are relative to `src/crates/` unless they begin with `src/`.

| component | state it keeps | operations | talks to |
|---|---|---|---|
| Indexer, `routing-engine/src/indexer.rs` | none; one job per cron tick, jobs may overlap | `run`: build estimators with two bounded fan-outs, one `MSET`, one `PUBLISH` | Bungee, token prices, Redis |
| Estimator, `routing-engine/src/estimator/` | coefficients of a regression, serialised as JSON | `build`, `estimate` | – |
| Solver boot, `src/bin/reflux/src/main.rs` | the process: cache task, subscription thread, HTTP server | subscribe, first refresh, serve | Redis, all the rest |
| Routing engine, `routing-engine/src/routing_engine.rs` | `cache`: bucket hash to estimator, in a `RwLock` | `refresh_cache`, `get_best_cost_paths` | account service, token prices, Redis |
| Settlement engine, `routing-engine/src/settlement_engine.rs` | none | `generate_transactions` and the approvals in front of them | Bungee, token prices, chains |
| Token prices, `routing-engine/src/token_price/` | a process-wide mutex around the client; prices in Redis with an expiry | `get_token_price`, conversion of USD to token units | Redis, CoinGecko |
| Account service, `account-aggregation/src/service.rs` | MongoDB collections `users` and `account_mappings` | register, add, look up; aggregate balances: one Covalent call per account and chain | MongoDB, Covalent |
| HTTP API, `api/src/service_controller.rs` | none | the route table and its handlers; `get_best_path` = routing then settlement | all engines |
| Bungee source, `routing-engine/src/source/bungee/` | none | cheapest quote, build transaction | Bungee |
| Storage clients, `storage/src/` | connections | get, set with expiry, mset, keys, mget, publish, subscribe; create, read, update | Redis, MongoDB |
| Configuration, `config/src/config.rs` | the validated YAML file, RPC URLs and service settings of the environment | `build_from_yaml_str`, verification of chains, tokens and buckets, bucket hash | the start of `main.rs` |
| Lowest transfer amount, `src/bin/reflux/src/utils.rs` | a bisection | `find_lowest_transfer_amount_usd` | Bungee, token prices |
| Deployment, `src/k8s/` | – | replicas of the solver, the cron schedule | – |

What is hard in them, and what makes each correct:

* **Estimator distribution.**  The indexer's `MSET` and `PUBLISH` are two steps;
  a message reaches only the processes subscribed at that moment; the
  subscription is made on another thread while the boot refresh runs; each
  message spawns a refresh of its own; a refresh is `KEYS *`, then one `MGET`
  per 50 keys, then clear-and-fill.  Token prices live in the same database,
  `KEYS *` lists them and they expire.  *Correct if* a running solver that lacks
  an estimator either has a repair on its way or a known reason not to, and a
  cache is never worse than what Redis held when the process started.
* **Accounts.**  Neither the service nor MongoDB ties two operations together:
  every `await` of `register_user_account` and `add_account` is a point where
  another request may act and where the request may end.  *Correct if* an
  account has one user, a mapping names an existing user, the array and the
  mappings agree, and a lookup in any spelling finds what was acknowledged.
* **Routing.**  Two greedy passes over different balances share one running
  total; a balance may lack an estimate; a dollar of ETH is kept back.
  *Correct if* every dollar is accounted for, the token asked for is used up
  before another is touched, and the answer falls short only when nothing is left.
* **Settlement.**  An answer depends on allowances read while it is computed, is
  executed later, and competes with other requests of the same user.
  *Correct if* a bridge transaction of an answer reverts, and an approval lowers
  an allowance, only for reasons the code cannot see.
* **Token prices.**  Tasks of one process are serialised by a mutex that is held
  across HTTP requests; processes overwrite each other's entries in Redis.
  *Correct if* prices are not older than the configuration says, a miss is
  fetched once, and the mutex is always passed on.
* **Estimator construction.**  Buckets and, within them, observation points run
  as two nested bounded fan-outs that share the price mutex; points and buckets
  fail one by one.  *Correct if* an estimator is fitted to all the answered
  points of its bucket and to nothing else, and a run that stores nothing has a
  reason that concerns every bucket.
* **Configuration.**  The running program looks up chains, tokens, decimals,
  contracts and estimators, partly with `unwrap`, and relies on checks made once,
  in a certain order, at start-up.  *Correct if* those checks cover every lookup.
* **A request as a whole.**  `get_best_path` reads balances from accounts that
  may overlap, prices the target, prices every chosen balance again, and builds
  ten routes at a time, each taking the mutex that all requests share.  *Correct
  if* an answer neither overdraws a balance nor exceeds what was asked for, one
  request's failure is never due to another, and each request is served.
* **Lowest transfer amount.**  Any error counts as an amount too low.
  *Correct if* the bounds mean what they say and the search ends at the minimum.


## Modules

### EstimatorCache

From `Indexer::run` to `RoutingEngine::cache`.  An estimator is the number of
the `MSET` that wrote it (zero: no such key); a price key is live or expired.

| variable | code |
|---|---|
| `store`, `version`, `live` | the Redis database |
| `job[j]` | an indexer run between building, storing and publishing |
| `phase[s]`, `sub[s]`, `inbox[s]` | a solver process, its subscription thread, messages not yet handled by the callback |
| `refresh[s][t]` | a tokio task inside `refresh_cache`: about to list keys, reading batches (`left`, `acc`), about to take the write lock |
| `cache[s]` | the `HashMap` behind the `RwLock` |
| `base`, `excuse` | history only: what Redis held at boot; why a cache may be behind |

`BuildEstimators` chooses which buckets yield an estimator.  `StoreEstimators`,
`StoreReplyLost` and `StoreFails` are the outcomes of the `MSET`, the second being
a write whose reply never came; `PublishUpdate` and `PublishFails` those of the
`PUBLISH`.  A job that dies is a job that fails at that step.  `ListKeys`,
`FetchBatch`, `FetchExpired`, `RefreshFails` and `Install` are the steps of one
refresh.  `FetchExpired` is the subtle one: Redis answers `nil` for a price that
expired after `KEYS *` listed it, `nil` is not a `String`, and the whole refresh
is given up.  Solvers do not interact with one another except through Redis.

### AccountRegistry and AccountAggregation

`AccountAggregation` has one step per await of the account service; `req[p]` is
a request in progress with its payload (already lowercased), its position in it
and its local copy of the user's array.  The collections are `created` and
`accounts` (the user documents) and `mappings`.  `Absent` is `get_user_id` as
its callers see it: no mapping, or a failed read, which `unwrap_or(None)` turns
into the same answer.  `UpdateUser` is the `$set` of the whole array.
`Interrupt` ends a request anywhere: an error, a closed connection, a crash.
`acked` and `raced` are history: what was answered with success, and which
documents were overwritten from an old copy.

`AccountRegistry` is the abstract specification: portfolios only grow, and an
account is claimed at most once, by a user whose portfolio lists it.  With one
request at a time and readable collections, the service implements it
(`Refinement`, under the mapping of `Registry`), however requests are cut short.

### Routing

One `get_best_cost_paths` request.  `wallet` is the answer of the account
service; `queue` the balances still to be estimated in this pass; `fee` what the
estimators said and `asked` the amount they were asked about (`Share`); `left` the
balances of the pass not taken yet.  Values are integers in half dollars, so that a
balance below the dollar kept back exists.  `Before` compares `amount^x / fee^y`
exactly, by cross-multiplication, raised to the power that removes the root where
there is one, with division by zero as infinity and a negative power of a fee as a
negative score.  The bucket
lookup and the regression are one choice per balance, any fee or none: between
two estimates of one request the cache may be replaced, so nothing relates them.

The exponent of the fee is `Y` over `root`, with `root` a choice from `Roots`.  A score
is NaN (`NoScore`) when `root` does not divide `Y` and the estimate is negative, and
when the estimate and the number of tokens are both zero, since a balance may have a
quote and no tokens.  `Comparable` is `partial_cmp` of the scores that are compared
and `Panic` its `unwrap`: a single balance is compared with nothing and never panics.

### Settlement

Requests that share allowances.  A plan gives, per route, the key of the
allowance it needs (chain, token, owner and target *as spelled*) and the amount;
`Slot` parses a key, so that two spellings can stand for one allowance.
`Merged` is the grouping with its U256 sum (`% Modulus`).  `Suffices`,
`FallsShort` and `ReadFails` are the outcomes of one allowance read; reads happen
in any order.  The wallet and the chains are external: transactions are executed
in the order of the answer, an approval replaces an allowance, a bridge
transaction spends it or reverts.  `excuse` is history: why a revert may happen
although the answer was right when it was computed.

### TokenPrice

`get_token_price` under the mutex.  A price is the time at which CoinGecko
quoted it.  `holder[p]` is the mutex of process `p`, `stored` the entries of
Redis.  The guard returned by `lock().await` is a temporary of the calling
expression and lives until it ends, so `Release` is part of `Return`,
`FetchFails`, `StorePriceFails` and `Cancel` alike.  The code sets no timeouts;
`Delay` is the assumption on how long one request takes that freshness needs.

### Configuration

From the YAML file to a process that serves.  `Parse` and `ParseFails` are
serde with its custom deserializers and the one validation that is run
(`unique_items`; two buckets are the same when their *hash keys* are).  Then
`Config::build` in its order: `LoadChain` (with the RPC URL from the environment),
`LoadToken`, `CheckBucket`, `ReadServices`, each one entry at a time, the first
error ends it (`Refuse`).  `Start` is what `run_solver` and `run_indexer` build
and `expect`, with the ERC-20 bindings of the solver in `contracts`.  The lookups
the rest of the program makes are operators (`RouteBuilds`, `Converts`,
`QuoteRequestBuilds`, `Found`, `Admitted`, `BridgingRouteBuilds`, `HasContract`),
and the properties compare them with what was checked.  Text is abstracted to what
the checks tell apart: a key of `by_chain` is a spelling with the number it parses
to, an address a spelling with its form and its lower case.

### IndexerJob and IndexerBuild

`IndexerBuild` is one run of the indexer.  `status` is a bucket in the outer
`buffer_unordered`, `point` its observation points in the inner one, `lock` the
mutex of the price provider, held from `LockProvider` until the price arrives or
the request fails.  `PriceTooLow` is the division by a price that rounds to zero and
`AmountTooLow` the conversion of an amount below zero, which comes from a bucket with
a bound below zero, a thing the start-up checks declare and do not run: the
indexer is a single task, so either ends the whole run.  `Matches` is the lookup of the
routing engine, with which `SamplesAreOwn` compares the points.  `LeastFees` is the choice
of the cheapest well-formed route of an answer.  `MayFit` and `MayFail` are the
regression: it needs two points, and with all of them at one place the outcome
depends on rounding, which is a choice.  `Stored` is the one `MSET`.

`IndexerJob` is what a run promises to the rest of the system: it ends; it
replaces some estimators, all at once, each fitted to two observations or more;
it announces the change only after it is stored.  `ImplementsJob` is the
refinement.  `EstimatorCache!BuildEstimators` and the actions behind it are this
job with an estimator abstracted to a version.

### BestPath

The handlers of `get_best_path` and `get_balance` from request to answer, with
several requests at once sharing the price mutex: the account lookup, the Covalent
calls (any subset of which may fail), the price of the token asked for, the choice
of balances, and the routes, up to `RouteLimit` at a time: price, amount (capped by
the balance), quote and transaction.  `Choosable` is any choice `Routing` can make
for some fees; `ChoosePanics` is its panic, in the first pass or in the second, when
two balances are sorted one of which may have no score: its estimate may be negative
under a root (`Dipping`), or zero for a balance without tokens (`Free`). `Approve` is `Settlement` in one step.  A request that ends in the
middle gives the mutex back, a panicking one too.  A user may list an account
twice or hold a token that merely bears a configured symbol, an item may lack a
quote or a symbol; prices move between any two readings.

### LowestTransferAmount

The bisection.  25 dollars are 64 steps, so that every midpoint is an integer
and the threshold of half a dollar lies between one and two steps.  `minimum` is
what the source would accept; `Refused` happens below it, or anywhere when the
source fails for another reason; `ConvertPanics` is a price that rounds to zero.

The `MC...` modules give the constants of a component their values for TLC where
the configuration alone cannot.
Definitions whose comment begins with "Mutant" are plausible bugs: replacing the
definition that follows by one of them must violate the property `PROJECT.json`
pairs it with.


## Runs

| configuration | question | bounds and why they suffice |
|---|---|---|
| `EstimatorCache.cfg` | Can an update be lost without a cause that has a name?  Can a cache fall behind boot?  Does it settle? | One solver (solvers are independent), two jobs, the boot refresh and one other, two buckets and a price read one key per `MGET`, two `MSET`s: enough for overlapping jobs, overlapping refreshes, torn batches and a price that expires in between.  A message waits while the second task is busy; the theorems hold for any number of tasks. |
| `AccountsInterrupted.cfg` | Does the service implement the registry when requests end anywhere?  Is every lookup right? | One request at a time, four registrations and additions with lookups in between, payloads that are empty, repeat an account, spell it twice, overlap with others. |
| `AccountsConcurrent.cfg` | What survives overlapping, failing requests? | Two requests at once, four in all: two additions to one user, both after its registration, overlap. |
| `AccountsRegisterRace.cfg` | Violation: an account is mapped to two users. | Two overlapping registrations. |
| `Routing.cfg` | Is the selection accounted for, in the right order, and complete? | Two balances of the token asked for, one of ETH, one other; holdings below and above the reserve, one of no tokens; targets that one, two, all or no balances meet; fees of either sign and of zero; an exponent that is a whole number or not. |
| `RoutingBestCost.cfg` | Violation: the dearer of two balances is taken. | As above. |
| `Settlement.cfg` | When does an answer revert or lower an allowance? | Two requests, two allowances, one with two spellings, six plans with up to three routes, amounts modulo 5 so that sums wrap. |
| `TokenPrice.cfg` | How old are prices, how often are they fetched, is a waiting caller served? | Two requests of a solver, which compete for its mutex, and one job, which overwrites its prices; expiry 2, delay 1, six time units: a price is stored, overwritten, expires and is fetched again, with any failures. |
| `Configuration.cfg` | Which files are accepted, and do the checks cover every lookup of the running program? | Two chains, one or two tokens, up to two buckets, which is what a key, a lookup or a repetition can confuse: disabled, unknown and repeated ids, keys that are one number, addresses in two cases, embedded and malformed, buckets that abut, overlap, differ below the fifth decimal or run backwards; environments with one variable unset or unusable. |
| `IndexerBuild.cfg` | What does a run store, when does it store nothing, does it end? Does it do what a job promises? | Three buckets of one path: two that abut, the upper one listed first and the lower one beginning below zero, and one of a single amount inside another; none to three points; both limits two, so that each fan-out has something to wait for; prices on both sides of the one that rounds to zero; answers that are refused, malformed, mixed or have two fees. |
| `BestPath.cfg` | Can an answer overdraw or exceed? Whose fault is a failure? Is a request served? | Five users with up to two accounts and five items; two requests; estimates that may be negative or zero, a balance with a quote and no tokens; prices that double or vanish between readings; two routes at a time; an amount is off by at most one unit (`Rounding`). |
| `LowestTransferAmount.cfg` | Are bounds meaningful, and is the result tight? Does the search end? | The range of the code; minima at both ends, next to powers of two, in the middle, beyond the range; any probe may fail. |

Deadlock is checked except where the program really stops: `Routing`,
`Settlement`, `BestPath`, `IndexerBuild`, `Configuration` and
`LowestTransferAmount` model requests, runs and start-ups that end.  The type
invariants of `TokenPrice`, `Configuration` and `IndexerBuild` are not run, because
they are proved for every instance.

What the properties say, in short:

* `StalenessExplained`: a running solver that lacks the newest estimator of a
  bucket has a repair on its way (a job about to publish, a waiting message, a
  refresh that will read the new value), or one of five things happened:
  an `MSET` that was never announced, a message missed, a price that expired
  under a refresh, a Redis error, a refresh overtaken by an older one.
* `NeverOlderThanBoot`: a cache is empty or, bucket by bucket, at least what
  Redis held when the process started.
* `Settles`: a process that stays up ends with a cache equal to Redis, or one
  of the five stands.
* `MappingsReferToUsers`, `MappedIsListed`: the account service with requests
  that overlap and fail; the second pins the loss of a listed account on
  overlapping additions alone.
* `OneUserPerAccount`, `LookupComplete`, `Refinement`: the account service with
  one request at a time, cut short anywhere.
* `Balanced`, `DirectFirst`, `ShortOnlyIfSpent`, `OnlyLastIsPartial`: the two
  passes of routing as one computation.
* `RevertExplained`, `NeverLowered`: settlement against a moving chain.
* `Fresh`, `NoStampede`, `Answered`: token prices.
* `FeesFitRoutes`: the fees that add up to the cost were each estimated for at least
  what the route pays, and for no more than that and the dollar kept back unless the
  route is the last.
* `AcceptedIffValid`: the accepted files, restated without the order of the checks.
  `QuotableBuckets`, `RoutesConvert`, `ApprovalsHaveContract`: what was checked
  covers what is looked up, the unwraps included.  `QuoteReadsItsEstimator`: a
  truncated key never leads to the estimator of another bucket.
* `Bounded`, `OwnPointsDecide`, `FailureExplained`, `ImplementsJob`: one run of the
  indexer.  `SamplesAreOwn`: an amount an estimator is fitted to lies within both
  bounds of its bucket, and the routing engine uses that estimator for it, unless an
  earlier bucket overlaps or the amount is the one on which two buckets meet.
* `NotOverdrawn`: an answer spends more of a token than the account holds only by
  rounding, or where an item was counted twice or is not what its symbol says.
  `AnswerAsChosen`: an answer has all the routes that were chosen, and they are worth
  no more than the target.  `FailureExplained`, `Served`: whose fault it is, and that
  there is an end.
* `Bracketed`, `ResultIsTight`, `Ends`: the bisection.


## Fairness

* `EstimatorCache!FairSpec`: a job that stored its estimators publishes or dies;
  the runtime polls the callback of the subscription and every spawned refresh.
  Weak fairness on each.  No process has to start, stop, subscribe or fail, and
  Redis need not accept any request.
* `TokenPrice!PriceFairSpec`: requests that were sent are answered, with a result or
  an error (weak fairness on the steps of a caller).  Nothing in the code
  enforces this, because no request has a timeout: with one that hangs, every
  caller of the process waits forever.  The mutex is tokio's, which is granted in
  FIFO order; strong fairness on `Acquire` is what that gives.
* `IndexerBuild!Spec`: every request of the run is answered or fails (weak
  fairness on the next-state relation is enough, since every step brings one run
  nearer its end).
* `BestPath!Spec`: every await of a request that arrived returns or fails (weak
  fairness on the steps of each request).  Each request takes the mutex a bounded
  number of times, so granting it in turn needs no strong fairness.
* `LowestTransferAmount!SearchFairSpec`: every await of the loop returns.

The other specifications state safety only and assume no fairness.


## Proofs

TLAPS checks the following for every value of the constants that satisfies the
module's assumption.

Every invariant and every action property that a run checks is a theorem; TLC checks
the instance, the theorem holds for all.

**Redis_proofs** extends `EstimatorCache` and `TokenPrice`, whose processes share
Redis.  *Estimators.*  `TypeCorrect`: type correctness.  `LagExplained`:
`StalenessExplained` needs, besides types, that a process that is down holds
nothing (`BlankWhenDown`) and is then inductive: every action that makes a cache
lag creates a pending announcement, a message, a refresh or an excuse, and every
action that consumes one of these creates the next.  `BootIsFloor`:
`NeverOlderThanBoot` is not inductive, because `Install` writes what a refresh
gathered; the invariant `Floors` adds that `base` is below Redis and that what
each refresh gathered so far is above `base` on all keys it is done with.
*Prices.*  `PricesAreFresh` (`Fresh`) rests on an invariant that bounds the age of
a price at each stage of a call by `Delay` and of a stored price by its remaining
lifetime.  `FetchesAreSpaced` (`NoStampede`) rests on mutual exclusion and on the
fact that what a process stored is still in Redis, with at least as late an
expiry, until it expires.

**AccountAggregation_proofs.**  `TypeCorrect`; `NoDanglingMapping`
(`MappingsReferToUsers`) and `OnlyOverlapLosesAccounts` (`MappedIsListed`), with
any number of overlapping, failing requests.  The strengthening says what a
request in each stage has established: a request that creates mappings has a
user document, its accounts are in that user's array unless it raced, and the
part of the payload behind its index is mapped.  Assuming one request at a time
and readable collections, `SerialImplements` proves `Refinement`, `SerialUnique`
proves `OneUserPerAccount` and `SerialLookups` proves `LookupComplete`.  Their
strengthening (`Alone`) says that the accounts a request has checked are free,
that its local copy extends the stored array, and that the accounts it maps are
already listed.  For lookups `LookupOK` adds that no array loses a mapped account
and that the user a lookup goes on with owns the account it looked for.

**SumTheorems.**  Sums over finite sets, as `Functions` defines them by a fold: the
order of summation does not matter (`SumRemove`, and `SumAdd` from it), sums of
larger terms are larger (`SumMonotone`), of natural numbers natural (`SumNat`), and
over disjoint sets add up (`SumUnion`).  They say nothing of the program; the proofs
about routing, settlement and requests use them.  Induction over finite sets is done by
counterexample: of the subsets for which a fact fails, take one with the fewest
elements.

**Routing_proofs.**  `RoutingType`, `DirectBalancesFirst` (`DirectFirst`),
`ShortOnlyWhenSpent` (`ShortOnlyIfSpent`) and `OneSplit` (`OnlyLastIsPartial`), for
any balances, fees and exponents.  The invariant says which balances are open in each pass, that
every other balance of the pass has no estimate or is spent while the target is
not met, and that until then every route takes its balance whole.
`EveryDollarAccounted` proves `Balanced`, which becomes inductive with the fact
that a balance that was taken is neither open nor without a fee (`UsedOK`): no
later step changes a fee that is already part of the cost.  `FeesAreForTheirRoutes`
(`FeesFitRoutes`) adds, for each balance still to be taken, that its fee is for its
whole value or for no less than what is still missing (`AskedOK`).

**Settlement_proofs.**  `SettlementType`, `RevertsAreExplained`
(`RevertExplained`) and `ApprovalsNeverLower` (`NeverLowered`), for any requests,
plans, spellings and width of amounts.  The invariant of an answer in progress
says what its transactions are, approvals first and then a suffix of the routes
(`Shape`); that each key waits for one read or has at most one approval
(`OneApproval`); that an allowance nobody else touches covers, once read and
approved, what is left to be spent (`Covered`, a sum); that a pending approval is
of more than the allowance is (`Raising`); and that a revert has an excuse
(`Blamed`).

**BestPath_proofs.**  `RequestsAreTyped` (`TypeOK`, mutual exclusion included),
`NothingOverdrawn` (`NotOverdrawn`), `AnswersAreAsChosen` (`AnswerAsChosen`) and
`FailuresAreExplained` (`FailureExplained`), for any number of requests, users,
balances and routes in flight, any prices and any rounding.  `ChoiceSound` says of
every choice both passes may make that it is worth no more than the target.  The
invariant says of each request whose balances it has (`OwnOK`), that its routes
together are worth no more than the target and each amount no more than its share
and its balance (`MoneyOK`), that an answer has all its routes (`DoneOK`), how a
failure came about (`EndOK`), and that at most one task of it awaits a price, which
then holds the mutex (`MutexOK`).  The assumptions are those of the module: a token
has a unique item per account, chain and contract, and finitely many of them.

**Configuration_proofs.**  `ConfigurationType`, `BucketsAreQuotable`
(`QuotableBuckets`), `KeysAreOwn` (`QuoteReadsItsEstimator`),
`RoutesAreConvertible` (`RoutesConvert`) and `ApprovalsAreBound`
(`ApprovalsHaveContract`), for any files, environments and spellings.  The
invariant (`IInv`) follows the progress of the checks: the tokens and buckets
before `next` are loaded or have passed, the chains of a loaded token are enabled,
addresses are in lower case.  `KeysAreOwn` is the fact that keys of accepted
buckets are unique, whatever `Grain` is.  `AcceptanceIsValidity`
(`AcceptedIffValid`) adds the other direction: what was loaded is what the file
and the environment say, so a refusal is one that the file deserves (`Verdict`).

**IndexerBuild_proofs** extends `IndexerBuild` and `LowestTransferAmount`.
`FanOutIsBounded` (`Bounded`, by counting a finite set that gains or loses one
element), `PointsDecide` (`OwnPointsDecide`), `RunsFailForAReason`
(`FailureExplained`), and `BuildIsAJob`: initial states and steps of a run are
initial states and steps, or stutters, of `IndexerJob`.  The invariant says that a
finished bucket has only finished points, that a built one has two of them, what
the store holds at each stage, and which event excuses a run that ends early.
`SamplesStayInside` (`SamplesAreOwn`) is arithmetic on products, in lemmas of their
own, for bounds of either sign; that a panic is due to a bound below zero
(`NegativePoint`) is another of them.  `BoundsTried`
(`Bracketed`) and `TightResult` (`ResultIsTight`) are about the bisection, for any
range and any set of minima.

Where a proof module extends two components, the names they would share carry a
prefix in one of them (`Price`, `Search`).

Only model-checked: the liveness properties (`Settles`, `Answered`, `Ends`,
`Served`, and the liveness in `ImplementsJob`), which are out of the prover's
reach.


## Findings

Each is the counterexample of one run.

1. **Two registrations of one account** (`AccountsRegisterRace.cfg`) both pass
   the check, and the account is mapped to two users: `account_mappings` has no
   unique index.
2. **Ascending sort** (`RoutingBestCost.cfg`).  Balances are taken in ascending
   order of `amount^x / fee^y`, so of two equal balances the one with the higher
   fee pays.

What follows the models allow, and a property names it as a cause or states what
holds in spite of it:

* A refresh can be overtaken: one that read Redis before a newer one may take the
  write lock after it, and the cache stays behind until the next message
  (`StalenessExplained`).
* A failed lookup reads as a free account, so one request can map an account a
  second time (`Absent`; `OneUserPerAccount` is checked with readable collections).
* Of two overlapping additions to a user the later `$set` removes the account the
  earlier one acknowledged (`raced` in `MappedIsListed`).
* An account that a payload repeats, or that a client adds again after a failure,
  is listed and its balances counted twice (`NotOverdrawn`).
* A price mutex is held across requests without a timeout (`Answered`, `Served`).
* If every probe is refused, the search for the lowest transfer amount reports its
  upper bound, which was never tried (`Bracketed`).
* Of the validations the configuration types declare, only the uniqueness of the
  list entries runs; `minimum`, `min_length` and patterns of nested fields do not.  A
  bucket whose bounds are reversed is accepted.
* A disabled chain needs its RPC variable all the same, and a token that names a
  disabled chain, enabled or not, makes the whole file refused (`AcceptedIffValid`).
* Two buckets whose bounds differ below the fifth decimal are duplicates; `"1"` and
  `"01"` are one chain of a token, and the entry that survives is not determined.
* The pattern of an address is not anchored, so text around an address is accepted
  by the parser and makes the solver panic when it binds contracts; so does an RPC
  URL that does not parse (`StartFails`).
* The upper bound of a bucket is never sampled; of two buckets that meet, the engine
  uses the one listed first for the amount in common (`SamplesAreOwn`).
* One price that rounds to zero, or one bucket with a bound below zero, ends a whole
  indexer run (`FailureExplained`).
* Two balances one of which has no score end a request (`FailureExplained`); a fee is
  estimated before the dollar of ETH is kept back and, for the last route, possibly for
  more than it pays (`FeesFitRoutes`).
* ETH worth no more than the dollar kept back may be chosen with a value of zero; its
  route then fails and the request with it.
* A balance whose token entry is disabled is still spent: only the target is checked
  (`Admitted`, `Kept`).
* A balance passes through `f64`, so an answer may ask for slightly more than the
  account holds (`Rounding`).


## What is not modelled

* The regression and the statistics behind an estimator: arithmetic on floats.
  Estimators are opaque, their values any fee.
* JSON, YAML, BSON and HTTP encodings, logging, CORS, health and config routes:
  no state, no property.
* `delete` and `get_multiple` of the storage clients have no caller.
* `add_account` without a user id panics before it changes anything and ends that
  request only.
* Bungee's rate limiter only delays.  The formats of its requests and answers are
  left out; which answers count and which are errors is modelled.
* MongoDB and Redis are taken to execute single operations atomically and in
  order; replication and eviction are not modelled.


## Plan

Done, in the order in which a failure would hurt most: estimator distribution,
accounts, selection, settlement, prices, the lowest amount; then the start-up
checks, the construction of estimators, and whole requests.

Every invariant and action property of the runs is proved.  Left, in this order:

1. `Choosable` of `BestPath` justified by `Routing`: whatever fees the estimators
   say, the routes of a finished selection are one of the choices.
2. The safety part of a job as `EstimatorCache` sees it, from `IndexerJob`: the
   actions before and at the `MSET` as a refinement.
