--------------------------- MODULE Configuration ----------------------------
(***************************************************************************)
(* From the configuration file to a process that serves (config.rs, and    *)
(* the start of the solver and the indexer in main.rs): the file is parsed *)
(* and its lists checked for repetitions, chains take their RPC URL from   *)
(* the environment, the chains of every token and the chains and tokens of *)
(* every bucket are verified one after the other, the service settings are *)
(* read, and the process builds its clients.  The first failure ends it.   *)
(*                                                                         *)
(* The rest of the program looks up chains, tokens, buckets and contracts  *)
(* and relies on what was verified here; the lookups are operators below.  *)
(* An amount is an integer, Grain of which are the 10^-5 dollars to which  *)
(* a bucket's key is truncated.                                            *)
(***************************************************************************)
EXTENDS Integers, Sequences, FiniteSets, SequencesExt

CONSTANTS
    Files,         \* configuration files
    Environments,  \* environments: variable -> good, bad (set, but its use at
                   \* start-up fails) or unset
    ChainIds,      \* chain ids in use
    ParsedKey,     \* key of by_chain as written -> chain id, or NoChain
    NoChain,
    Form,          \* address as written -> address, embedded (text around an
                   \* address) or other (no address in it)
    Lower,         \* address as written -> in lower case
    Amounts,       \* amounts a request may ask a quote for
    Grain

Services ==
    <<"REDIS_URL", "MONGO_URL", "BUNGEE_API_KEY", "COVALENT_API_KEY",
      "COINGECKO_API_KEY">>

ASSUME ConfigurationAssumption ==
    /\ NoChain \notin ChainIds
    /\ Form \in [DOMAIN Lower -> {"address", "embedded", "other"}]
    /\ \A a \in DOMAIN Lower : Lower[a] \in DOMAIN Lower
                               /\ Lower[Lower[a]] = Lower[a]
    /\ \A k \in DOMAIN ParsedKey : ParsedKey[k] \in ChainIds \cup {NoChain}
    /\ \A f \in Files :
          /\ f.chains \in Seq([id : ChainIds, enabled : BOOLEAN, rpc : STRING])
          /\ f.tokens \in Seq(Range(f.tokens))
          /\ f.buckets \in Seq(Range(f.buckets))
          /\ \A i \in DOMAIN f.tokens :
                LET b == f.tokens[i].byChain
                IN  \A k \in DOMAIN b : /\ k \in DOMAIN ParsedKey
                                        /\ b[k].address \in DOMAIN Form
    /\ Amounts \subseteq Nat
    /\ Grain \in Nat \ {0}

VARIABLES
    file,       \* the file
    env,        \* the environment
    role,       \* what the command line asks for
    stage,      \* how far the process is
    next,       \* next entry of the list being worked on
    specific,   \* per token of the file, its chains once the keys are parsed
    chains,     \* chain id -> [enabled, rpc]
    tokens,     \* symbol -> [enabled, byChain]
    reason,     \* why the configuration was refused
    contracts   \* (chain, address) pairs the solver has an ERC-20 binding for

vars == <<file, env, role, stage, next, specific, chains, tokens, reason,
          contracts>>

Roles  == {"solver", "indexer", "both"}
Stages == {"parse", "chains", "tokens", "buckets", "services", "built",
           "running", "refused", "panicked"}

Errors == {"None", "SerdeError", "EnvVarNotFound", "ChainNotFound",
           "ChainNotSupported", "TokenNotFound", "TokenNotSupported",
           "TokenNotFoundOnChain", "TokenNotSupportedOnChain"}

Symbols(f) == {f.tokens[i].symbol : i \in DOMAIN f.tokens}

TypeOK ==
    /\ file \in Files
    /\ env \in Environments
    /\ role \in Roles
    /\ stage \in Stages
    /\ next \in Nat
    /\ DOMAIN specific \in {{}, DOMAIN file.tokens}
    /\ DOMAIN chains \subseteq {file.chains[i].id : i \in DOMAIN file.chains}
    /\ DOMAIN tokens \subseteq Symbols(file)
    /\ reason \in Errors
    /\ contracts \subseteq ChainIds \X {Lower[a] : a \in DOMAIN Lower}

Init ==
    /\ file \in Files
    /\ env \in Environments
    /\ role \in Roles
    /\ stage = "parse"
    /\ next = 1
    /\ specific = <<>>
    /\ chains = <<>>
    /\ tokens = <<>>
    /\ reason = "None"
    /\ contracts = {}

Refuse(error) ==
    /\ stage' = "refused"
    /\ reason' = error
    /\ UNCHANGED <<file, env, role, next, specific, chains, tokens, contracts>>

-----------------------------------------------------------------------------
(* Parsing *)

Unique(keys) == \A i, j \in DOMAIN keys : i # j => keys[i] # keys[j]

\* Amounts enter a key with five decimals; `as i64` cuts the rest off.
Truncated(amount) == amount \div Grain

\* get_hash: two buckets with one key are equal, whatever their amounts.
BucketKey(b) ==
    <<b.fromChain, b.toChain, b.fromToken, b.toToken, b.smartContract,
      Truncated(b.from), Truncated(b.to)>>

ChainIdsOf(f) == [i \in DOMAIN f.chains |-> f.chains[i].id]
SymbolsOf(f)  == [i \in DOMAIN f.tokens |-> f.tokens[i].symbol]
BucketKeys(f) == [i \in DOMAIN f.buckets |-> BucketKey(f.buckets[i])]

\* Mutant of UniqueItems: buckets may repeat.
UniqueNames(f) == Unique(ChainIdsOf(f)) /\ Unique(SymbolsOf(f))

UniqueItems(f) ==
    /\ Unique(BucketKeys(f))
    /\ Unique(ChainIdsOf(f))
    /\ Unique(SymbolsOf(f))

\* The pattern of an address is not anchored: text around it is kept.
AddressParses(a) == Form[a] \in {"address", "embedded"}

KeysParse(t) == \A k \in DOMAIN t.byChain : ParsedKey[k] # NoChain

Deserializes(f) ==
    \A i \in DOMAIN f.tokens :
       /\ KeysParse(f.tokens[i])
       /\ \A k \in DOMAIN f.tokens[i].byChain :
             AddressParses(f.tokens[i].byChain[k].address)

\* Mutant of Entry: the address keeps its spelling.
EntryAsSpelled(e) == [address |-> e.address, enabled |-> e.enabled]

\* An entry of by_chain with its address in lower case.
Entry(e) == [address |-> Lower[e.address], enabled |-> e.enabled]

\* Two keys may be one number ("1" and "01"); the hash map keeps either entry.
ByChain(t) ==
    LET ids == {ParsedKey[k] : k \in DOMAIN t.byChain}
        At(id) == {Entry(t.byChain[k]) :
                      k \in {l \in DOMAIN t.byChain : ParsedKey[l] = id}}
    IN  {m \in [ids -> UNION {At(id) : id \in ids}] :
            \A id \in ids : m[id] \in At(id)}

Merges(ts) ==
    {s \in [DOMAIN ts -> UNION {ByChain(ts[i]) : i \in DOMAIN ts}] :
        \A i \in DOMAIN ts : s[i] \in ByChain(ts[i])}

\* main: a command line that asks for both roles ends before the file is read.
AskedForBoth ==
    /\ stage = "parse"
    /\ role = "both"
    /\ stage' = "panicked"
    /\ UNCHANGED <<file, env, role, next, specific, chains, tokens, reason,
                   contracts>>

Parse ==
    /\ stage = "parse"
    /\ role # "both"
    /\ Deserializes(file)
    /\ UniqueItems(file)
    /\ specific' \in Merges(file.tokens)
    /\ stage' = "chains"
    /\ UNCHANGED <<file, env, role, next, chains, tokens, reason, contracts>>

ParseFails ==
    /\ stage = "parse"
    /\ role # "both"
    /\ ~(Deserializes(file) /\ UniqueItems(file))
    /\ Refuse("SerdeError")

-----------------------------------------------------------------------------
(* Config::build *)

\* f with k mapped to v
With(f, k, v) == [x \in DOMAIN f \cup {k} |-> IF x = k THEN v ELSE f[x]]

Goto(s) ==
    /\ stage' = s
    /\ next' = 1
    /\ UNCHANGED <<file, env, role, specific, chains, tokens, reason, contracts>>

\* A disabled chain needs its variable too.
LoadChain ==
    /\ stage = "chains"
    /\ next \in DOMAIN file.chains
    /\ LET c == file.chains[next]
       IN  IF env[c.rpc] = "unset"
           THEN Refuse("EnvVarNotFound")
           ELSE /\ chains' = With(chains, c.id,
                                  [enabled |-> c.enabled, rpc |-> c.rpc])
                /\ next' = next + 1
                /\ UNCHANGED <<file, env, role, stage, specific, tokens, reason,
                               contracts>>

ChainsLoaded ==
    /\ stage = "chains"
    /\ next \notin DOMAIN file.chains
    /\ Goto("tokens")

\* Mutant of ChainErrors: a disabled chain passes.
ChainErrorsUnlessKnown(id) ==
    IF id \notin DOMAIN chains THEN {"ChainNotFound"} ELSE {}

\* verify_chain: its error, none when the chain is known and enabled.
ChainErrors(id) ==
    IF id \notin DOMAIN chains THEN {"ChainNotFound"}
    ELSE IF ~chains[id].enabled THEN {"ChainNotSupported"}
    ELSE {}

\* Mutant of TokenErrors: any chain will do.
TokenErrorsUnlessKnown(symbol, id) ==
    IF symbol \notin DOMAIN tokens THEN {"TokenNotFound"}
    ELSE IF ~tokens[symbol].enabled THEN {"TokenNotSupported"}
    ELSE {}

\* verify_token
TokenErrors(symbol, id) ==
    IF symbol \notin DOMAIN tokens THEN {"TokenNotFound"}
    ELSE IF ~tokens[symbol].enabled THEN {"TokenNotSupported"}
    ELSE IF id \notin DOMAIN tokens[symbol].byChain THEN {"TokenNotFoundOnChain"}
    ELSE IF ~tokens[symbol].byChain[id].enabled
         THEN {"TokenNotSupportedOnChain"}
    ELSE {}

\* Every chain a token names is verified, whether the token or its entry is
\* enabled or not; a hash map decides which of several errors is reported.
LoadToken ==
    /\ stage = "tokens"
    /\ next \in DOMAIN file.tokens
    /\ LET t == file.tokens[next]
           m == specific[next]
           errors == UNION {ChainErrors(id) : id \in DOMAIN m}
       IN  \/ /\ errors = {}
              /\ tokens' = With(tokens, t.symbol,
                                [enabled |-> t.enabled, byChain |-> m])
              /\ next' = next + 1
              /\ UNCHANGED <<file, env, role, stage, specific, chains, reason,
                             contracts>>
           \/ \E e \in errors : Refuse(e)

TokensLoaded ==
    /\ stage = "tokens"
    /\ next \notin DOMAIN file.tokens
    /\ Goto("buckets")

\* Mutant of BucketErrors: the token of the destination is looked up on the
\* source.
BucketErrorsAtSource(b) ==
    <<ChainErrors(b.fromChain), ChainErrors(b.toChain),
      TokenErrors(b.fromToken, b.fromChain), TokenErrors(b.toToken, b.fromChain)>>

\* The verifications of a bucket, in order.
BucketErrors(b) ==
    <<ChainErrors(b.fromChain), ChainErrors(b.toChain),
      TokenErrors(b.fromToken, b.fromChain), TokenErrors(b.toToken, b.toChain)>>

CheckBucket ==
    /\ stage = "buckets"
    /\ next \in DOMAIN file.buckets
    /\ LET errors == BucketErrors(file.buckets[next])
       IN  \/ /\ \A i \in 1 .. 4 : errors[i] = {}
              /\ next' = next + 1
              /\ UNCHANGED <<file, env, role, stage, specific, chains, tokens,
                             reason, contracts>>
           \/ \E i \in 1 .. 4 :
                 /\ \A j \in 1 .. i - 1 : errors[j] = {}
                 /\ \E e \in errors[i] : Refuse(e)

BucketsChecked ==
    /\ stage = "buckets"
    /\ next \notin DOMAIN file.buckets
    /\ Goto("services")

ReadServices ==
    /\ stage = "services"
    /\ IF \E i \in DOMAIN Services : env[Services[i]] = "unset"
       THEN Refuse("EnvVarNotFound")
       ELSE Goto("built")

-----------------------------------------------------------------------------
(* Start of the process *)

\* Pairs (chain, entry) of every token, enabled or not.
Listed == UNION {{<<id, tokens[s].byChain[id]>> : id \in DOMAIN tokens[s].byChain} :
                    s \in DOMAIN tokens}

\* generate_erc20_instance_map fails on an RPC URL or an address that does
\* not parse.
BindingFails(pair) ==
    \/ pair[1] \notin DOMAIN chains
    \/ env[chains[pair[1]].rpc] = "bad"
    \/ Form[pair[2].address] # "address"

\* Clients the solver and the indexer build and expect to be built.
Expected(r) ==
    IF r = "solver"
    THEN {"MONGO_URL", "REDIS_URL", "COINGECKO_API_KEY", "BUNGEE_API_KEY"}
    ELSE {"REDIS_URL", "BUNGEE_API_KEY", "COINGECKO_API_KEY"}

Panic ==
    /\ stage' = "panicked"
    /\ UNCHANGED <<file, env, role, next, specific, chains, tokens, reason,
                   contracts>>

StartFails ==
    \/ \E v \in Expected(role) : env[v] = "bad"
    \/ role = "solver" /\ \E pair \in Listed : BindingFails(pair)

Start ==
    /\ stage = "built"
    /\ IF StartFails
       THEN Panic
       ELSE /\ stage' = "running"
            /\ contracts' = IF role = "solver"
                            THEN {<<pair[1], pair[2].address>> : pair \in Listed}
                            ELSE {}
            /\ UNCHANGED <<file, env, role, next, specific, chains, tokens,
                           reason>>

Next ==
    \/ AskedForBoth
    \/ Parse
    \/ ParseFails
    \/ LoadChain
    \/ ChainsLoaded
    \/ LoadToken
    \/ TokensLoaded
    \/ CheckBucket
    \/ BucketsChecked
    \/ ReadServices
    \/ Start

Spec == Init /\ [][Next]_vars

-----------------------------------------------------------------------------
(* What the running program looks up *)

Path == [fromChain : ChainIds, toChain : ChainIds,
         fromToken : Symbols(file), toToken : Symbols(file)]

PathOf(b) == [fromChain |-> b.fromChain, toChain |-> b.toChain,
              fromToken |-> b.fromToken, toToken |-> b.toToken]

\* Route::build
RouteBuilds(p) ==
    /\ {p.fromChain, p.toChain} \subseteq DOMAIN chains
    /\ {p.fromToken, p.toToken} \subseteq DOMAIN tokens

\* get_token_amount_from_value_in_usd finds the decimals of the token; so does
\* the settlement engine, which unwraps them.
Converts(symbol, id) ==
    /\ symbol \in DOMAIN tokens
    /\ id \in DOMAIN tokens[symbol].byChain

\* fetch_least_cost_route_and_cost_in_usd finds both token addresses.
QuoteRequestBuilds(p) ==
    /\ RouteBuilds(p)
    /\ p.fromChain \in DOMAIN tokens[p.fromToken].byChain
    /\ p.toChain \in DOMAIN tokens[p.toToken].byChain

\* The bucket a quote is read from: the first on the path whose bounds, both
\* included, hold the amount.  The smart contract flag is not looked at.
Matches(b, p, amount) ==
    /\ PathOf(b) = p
    /\ b.from <= amount
    /\ amount <= b.to

Found(i, p, amount) ==
    /\ Matches(file.buckets[i], p, amount)
    /\ \A j \in 1 .. i - 1 : ~Matches(file.buckets[j], p, amount)

\* get_best_path admits a target its map of tokens and chains has enabled; the
\* flag of the token itself is not in the map.
Admitted(symbol, id) ==
    /\ symbol \in DOMAIN tokens
    /\ id \in DOMAIN tokens[symbol].byChain
    /\ tokens[symbol].byChain[id].enabled

\* Balances get_user_balance_from_agg_service keeps.
Kept(symbol, id) == id \in DOMAIN chains /\ symbol \in DOMAIN tokens

\* build_bridging_route
BridgingRouteBuilds(p) ==
    /\ p.fromChain \in DOMAIN chains
    /\ p.toChain \in DOMAIN chains
    /\ p.fromToken \in DOMAIN tokens
    /\ p.toToken \in DOMAIN tokens

\* generate_transaction_for_approval finds the contract of an address the
\* source answers in its own spelling.
HasContract(id, address) == <<id, Lower[address]>> \in contracts

-----------------------------------------------------------------------------
(* Properties *)

Accepted == stage \in {"built", "running"}

HasChain(id) ==
    \E i \in DOMAIN file.chains :
       file.chains[i].id = id /\ file.chains[i].enabled

HasToken(symbol, id) ==
    \E i \in DOMAIN file.tokens :
       /\ file.tokens[i].symbol = symbol
       /\ file.tokens[i].enabled
       /\ id \in DOMAIN specific[i]
       /\ specific[i][id].enabled

Valid ==
    /\ Deserializes(file)
    /\ UniqueItems(file)
    /\ \A i \in DOMAIN file.chains : env[file.chains[i].rpc] # "unset"
    /\ \A i \in DOMAIN file.tokens :
          \A id \in DOMAIN specific[i] : HasChain(id)
    /\ \A i \in DOMAIN file.buckets :
          /\ HasToken(file.buckets[i].fromToken, file.buckets[i].fromChain)
          /\ HasToken(file.buckets[i].toToken, file.buckets[i].toChain)
    /\ \A i \in DOMAIN Services : env[Services[i]] # "unset"

\* Config::build accepts a file exactly when it parses, repeats nothing, finds
\* its variables, names no chain that is missing or disabled, and has buckets
\* of enabled tokens only, whatever the order of its checks.  That the chains
\* of a bucket are enabled needs no check of its own: its tokens' chains are.
AcceptedIffValid ==
    /\ Accepted => Valid
    /\ stage = "refused" => ~Valid

\* Every bucket of an accepted configuration can be indexed: its route builds,
\* its amounts convert, the quote request finds both addresses, and all of it
\* is enabled (Indexer::build_estimator relies on it for each point).
QuotableBuckets ==
    Accepted =>
       \A i \in DOMAIN file.buckets :
          LET b == file.buckets[i]
          IN  /\ QuoteRequestBuilds(PathOf(b))
              /\ Converts(b.fromToken, b.fromChain)
              /\ chains[b.fromChain].enabled /\ chains[b.toChain].enabled
              /\ Admitted(b.fromToken, b.fromChain)
              /\ Admitted(b.toToken, b.toChain)

\* A quote is read from an estimator of its own path and range: the key under
\* which it is stored belongs to one bucket only, although keys are hashes of
\* truncated amounts and the lookup compares amounts in full.
QuoteReadsItsEstimator ==
    Accepted =>
       \A i \in DOMAIN file.buckets, a \in Amounts :
          LET p == PathOf(file.buckets[i])
          IN  Found(i, p, a) =>
                 \A j \in DOMAIN file.buckets :
                    BucketKey(file.buckets[j]) = BucketKey(file.buckets[i]) =>
                       Matches(file.buckets[j], p, a)

\* Once a target is admitted and a balance kept, building its route cannot
\* fail, and a route that was given a cost has an amount in wei and a quote
\* request: the unwrap of the decimals in generate_transactions never panics.
RoutesConvert ==
    stage = "running" =>
       \A p \in Path :
          Admitted(p.toToken, p.toChain) /\ Kept(p.fromToken, p.fromChain) =>
             /\ BridgingRouteBuilds(p)
             /\ chains[p.toChain].enabled
             /\ (\E i \in DOMAIN file.buckets, a \in Amounts : Found(i, p, a)) =>
                   /\ Converts(p.fromToken, p.fromChain)
                   /\ QuoteRequestBuilds(p)

\* A running solver has a contract for every (chain, address) of the file that
\* survived parsing, in whatever case the source spells the address, so an
\* approval of a configured token never fails for want of one.
ApprovalsHaveContract ==
    stage = "running" /\ role = "solver" =>
       \A i \in DOMAIN file.tokens :
          \A id \in DOMAIN specific[i], a \in DOMAIN Lower :
             Lower[a] = Lower[specific[i][id].address] => HasContract(id, a)

=============================================================================
