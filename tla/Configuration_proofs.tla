----------------------- MODULE Configuration_proofs -------------------------
(* Proofs about Configuration, for any file and environment. *)
EXTENDS Configuration, TLAPS

Early  == {"parse", "chains"}
Parsed == {"chains", "tokens", "buckets", "services", "built", "running"}
Loaded == {"buckets", "services", "built", "running"}

\* What a token that was loaded says of its chains.
ChainsOfTokens ==
    \A s \in DOMAIN tokens :
       \A id \in DOMAIN tokens[s].byChain :
          id \in DOMAIN chains /\ chains[id].enabled

Passed(b) == \A k \in 1 .. 4 : BucketErrors(b)[k] = {}

IsLoaded(i) ==
    LET s == file.tokens[i].symbol
    IN  s \in DOMAIN tokens /\ tokens[s].byChain = specific[i]

\* The buckets before next have passed, the tokens before next are loaded, and
\* no token was loaded before the chains were.
Progress ==
    /\ file \in Files
    /\ next \in Nat \ {0}
    /\ stage \in Early => tokens = <<>>
    /\ stage \in Parsed => UniqueItems(file)
    /\ stage = "tokens" =>
          \A i \in DOMAIN file.tokens : i < next => IsLoaded(i)
    /\ stage \in Loaded => \A i \in DOMAIN file.tokens : IsLoaded(i)
    /\ stage = "buckets" =>
          \A i \in DOMAIN file.buckets : i < next => Passed(file.buckets[i])
    /\ stage \in {"services", "built", "running"} =>
          \A i \in DOMAIN file.buckets : Passed(file.buckets[i])

Bound ==
    stage = "running" /\ role = "solver" =>
       contracts = {<<pair[1], pair[2].address>> : pair \in Listed}

InLowerCase ==
    stage \in Parsed =>
       \A i \in DOMAIN file.tokens :
          \A id \in DOMAIN specific[i] :
             specific[i][id].address \in {Lower[a] : a \in DOMAIN Lower}

IInv == Progress /\ ChainsOfTokens /\ Bound /\ InLowerCase

USE ConfigurationAssumption

\* The entries of an exhausted list all come before next.
LEMMA Exhausted ==
    ASSUME NEW S, NEW l \in Seq(S), NEW n \in Nat \ {0}, n \notin DOMAIN l,
           NEW i \in DOMAIN l
    PROVE  i < n
  OBVIOUS

LEMMA SeqElement ==
    ASSUME NEW S, NEW q \in Seq(S), NEW i \in DOMAIN q
    PROVE  q[i] \in S
  OBVIOUS

LEMMA Lists ==
    ASSUME file \in Files
    PROVE  /\ file.chains \in Seq([id : ChainIds, enabled : BOOLEAN, rpc : STRING])
           /\ file.tokens \in Seq(Range(file.tokens))
           /\ file.buckets \in Seq(Range(file.buckets))
  OBVIOUS

LEMMA InitIInv == Init => IInv
  BY DEF Init, IInv, Progress, ChainsOfTokens, Bound, InLowerCase, Early,
            Parsed, Loaded

LEMMA RefuseIInv ==
    ASSUME IInv, NEW e, Refuse(e)
    PROVE  IInv'
  BY DEF Refuse, IInv, Progress, ChainsOfTokens, Bound, InLowerCase, Early,
            Parsed, Loaded

LEMMA StepIInv == IInv /\ [Next]_vars => IInv'
<1> SUFFICES ASSUME IInv, [Next]_vars PROVE IInv'
  OBVIOUS
<1> USE DEF IInv, Early, Parsed, Loaded
<1>1. CASE AskedForBoth
  BY <1>1 DEF AskedForBoth, Progress, ChainsOfTokens, Bound,
            InLowerCase
<1>2. CASE Parse
  <2>1. Progress'
    BY <1>2 DEF Parse, Progress
  <2>2. ChainsOfTokens' /\ Bound'
    BY <1>2 DEF Parse, ChainsOfTokens, Bound
  <2>3. ASSUME NEW i \in DOMAIN file.tokens, NEW id \in DOMAIN specific'[i]
        PROVE  specific'[i][id].address \in {Lower[a] : a \in DOMAIN Lower}
    <3>1. specific'[i] \in ByChain(file.tokens[i])
      BY <1>2 DEF Parse, Merges
    <3>2. PICK k \in DOMAIN file.tokens[i].byChain :
             specific'[i][id] = Entry(file.tokens[i].byChain[k])
      BY <3>1 DEF ByChain
    <3>3. file.tokens[i].byChain[k].address \in DOMAIN Lower
      BY DEF Progress
    <3>4. specific'[i][id].address = Lower[file.tokens[i].byChain[k].address]
      BY <3>2 DEF Entry
    <3> QED BY <3>3, <3>4
  <2>4. InLowerCase'
    BY <1>2, <2>3 DEF Parse, InLowerCase
  <2> QED BY <2>1, <2>2, <2>4
<1>3. CASE ParseFails
  BY <1>3, RefuseIInv DEF ParseFails
<1>4. CASE LoadChain
  <2>1. CASE env[file.chains[next].rpc] = "unset"
    BY <1>4, <2>1, RefuseIInv DEF LoadChain
  <2>2. CASE env[file.chains[next].rpc] # "unset"
    <3>1. next' = next + 1 /\ UNCHANGED <<file, role, stage, specific, tokens,
                                          contracts>>
      BY <1>4, <2>2 DEF LoadChain
    <3>2. stage = "chains"
      BY <1>4 DEF LoadChain
    <3>3. tokens = <<>>
      BY <3>2 DEF Progress
    <3>4. Progress'
      BY <3>1, <3>2 DEF Progress
    <3>5. ChainsOfTokens' /\ Bound' /\ InLowerCase'
      BY <3>1, <3>2, <3>3 DEF ChainsOfTokens, Bound, InLowerCase
    <3> QED BY <3>4, <3>5
  <2> QED BY <2>1, <2>2
<1>5. CASE ChainsLoaded
  <2>1. Progress'
    BY <1>5 DEF ChainsLoaded, Goto, Progress
  <2>2. ChainsOfTokens' /\ Bound' /\ InLowerCase'
    BY <1>5 DEF ChainsLoaded, Goto, ChainsOfTokens, Bound, InLowerCase
  <2> QED BY <2>1, <2>2
<1>6. CASE LoadToken
  <2> DEFINE t == file.tokens[next]
             m == specific[next]
             errors == UNION {ChainErrors(id) : id \in DOMAIN m}
  <2>1. CASE \E e \in errors : Refuse(e)
    BY <2>1, RefuseIInv
  <2>2. CASE /\ errors = {}
             /\ tokens' = With(tokens, t.symbol,
                               [enabled |-> t.enabled, byChain |-> m])
             /\ next' = next + 1
             /\ UNCHANGED <<file, env, role, stage, specific, chains, reason,
                            contracts>>
    <3>1. stage = "tokens" /\ next \in DOMAIN file.tokens
      BY <1>6 DEF LoadToken
    <3>2. \A id \in DOMAIN m : id \in DOMAIN chains /\ chains[id].enabled
      <4> SUFFICES ASSUME NEW id \in DOMAIN m
                   PROVE  id \in DOMAIN chains /\ chains[id].enabled
        OBVIOUS
      <4>1. \A e : e \notin ChainErrors(id)
        BY <2>2
      <4> QED BY <4>1 DEF ChainErrors
    <3>3. /\ DOMAIN tokens' = DOMAIN tokens \cup {t.symbol}
          /\ tokens'[t.symbol].byChain = m
          /\ \A s \in DOMAIN tokens : s # t.symbol => tokens'[s] = tokens[s]
      BY <2>2 DEF With
    <3>4. ChainsOfTokens'
      BY <2>2, <3>2, <3>3 DEF ChainsOfTokens
    <3>5. \A i \in DOMAIN file.tokens : i < next => IsLoaded(i)
      BY <3>1 DEF Progress
    <3>6. \A i \in DOMAIN file.tokens :
             i # next => file.tokens[i].symbol # t.symbol
      BY <3>1 DEF Progress, UniqueItems, Unique, SymbolsOf
    <3>7. ASSUME NEW i \in DOMAIN file.tokens, i < next + 1
          PROVE  /\ file.tokens[i].symbol \in DOMAIN tokens'
                 /\ tokens'[file.tokens[i].symbol].byChain = specific[i]
      <4>1. CASE i = next
        BY <3>3, <4>1
      <4>2. CASE i # next
        <5>1. i < next
          BY <3>7, <4>2, Lists DEF Progress
        <5> QED BY <5>1, <4>2, <3>3, <3>5, <3>6 DEF IsLoaded
      <4> QED BY <4>1, <4>2
    <3>8. Progress'
      BY <2>2, <3>1, <3>7 DEF Progress, IsLoaded
    <3>9. Bound' /\ InLowerCase'
      BY <2>2, <3>1 DEF Bound, InLowerCase
    <3> QED BY <3>4, <3>8, <3>9
  <2> QED BY <1>6, <2>1, <2>2 DEF LoadToken
<1>7. CASE TokensLoaded
  <2>1. \A i \in DOMAIN file.tokens : i < next
    BY <1>7, Exhausted, Lists DEF TokensLoaded, Progress
  <2>2. /\ \A i \in DOMAIN file.tokens : IsLoaded(i)
        /\ stage = "tokens" /\ stage' = "buckets" /\ next' = 1
        /\ UNCHANGED <<file, specific, chains, tokens>>
    BY <1>7, <2>1 DEF TokensLoaded, Goto, Progress
  <2>3. Progress'
    BY <1>7, <2>2, Lists DEF TokensLoaded, Progress, IsLoaded
  <2>4. ChainsOfTokens' /\ Bound' /\ InLowerCase'
    BY <2>2 DEF ChainsOfTokens, Bound, InLowerCase
  <2> QED BY <2>3, <2>4
<1>8. CASE CheckBucket
  <2> DEFINE errors == BucketErrors(file.buckets[next])
  <2>1. CASE \E i \in 1 .. 4 : \E e \in errors[i] : Refuse(e)
    BY <2>1, RefuseIInv
  <2>2. CASE /\ \A i \in 1 .. 4 : errors[i] = {}
             /\ next' = next + 1
             /\ UNCHANGED <<file, env, role, stage, specific, chains, tokens,
                            reason, contracts>>
    <3>1. stage = "buckets" /\ next \in DOMAIN file.buckets
      BY <1>8 DEF CheckBucket
    <3>2. \A i \in DOMAIN file.buckets :
             i < next + 1 => Passed(file.buckets[i])
      <4>1. Passed(file.buckets[next])
        BY <2>2 DEF Passed
      <4>2. next \in Nat /\ DOMAIN file.buckets \subseteq Nat
        BY Lists DEF Progress
      <4>3. \A i \in DOMAIN file.buckets : i < next => Passed(file.buckets[i])
        BY <3>1 DEF Progress
      <4> QED BY <4>1, <4>2, <4>3
    <3>3. \A b : Passed(b)' <=> Passed(b)
      BY <2>2 DEF Passed, BucketErrors, ChainErrors, TokenErrors
    <3>4. Progress'
      BY <2>2, <3>1, <3>2, <3>3 DEF Progress, IsLoaded
    <3>5. ChainsOfTokens' /\ Bound' /\ InLowerCase'
      BY <2>2, <3>1 DEF ChainsOfTokens, Bound, InLowerCase
    <3> QED BY <3>4, <3>5
  <2> QED BY <1>8, <2>1, <2>2 DEF CheckBucket
<1>9. CASE BucketsChecked
  <2>1. \A i \in DOMAIN file.buckets : i < next
    BY <1>9, Exhausted, Lists DEF BucketsChecked, Progress
  <2>2. /\ stage = "buckets" /\ stage' = "services" /\ next' = 1
        /\ UNCHANGED <<file, specific, chains, tokens>>
    BY <1>9 DEF BucketsChecked, Goto
  <2>3. \A b : Passed(b)' <=> Passed(b)
    BY <2>2 DEF Passed, BucketErrors, ChainErrors, TokenErrors
  <2>4. Progress'
    BY <2>1, <2>2, <2>3 DEF Progress, IsLoaded
  <2>5. ChainsOfTokens' /\ Bound' /\ InLowerCase'
    BY <2>2 DEF ChainsOfTokens, Bound, InLowerCase
  <2> QED BY <2>4, <2>5
<1>10. CASE ReadServices
  <2>1. CASE \E i \in DOMAIN Services : env[Services[i]] = "unset"
    BY <1>10, <2>1, RefuseIInv DEF ReadServices
  <2>2. CASE Goto("built")
    <3>1. /\ stage = "services" /\ stage' = "built" /\ next' = 1
          /\ UNCHANGED <<file, specific, chains, tokens>>
      BY <1>10, <2>2 DEF ReadServices, Goto
    <3>2. \A b : Passed(b)' <=> Passed(b)
      BY <3>1 DEF Passed, BucketErrors, ChainErrors, TokenErrors
    <3>3. Progress'
      BY <3>1, <3>2 DEF Progress, IsLoaded
    <3>4. ChainsOfTokens' /\ Bound' /\ InLowerCase'
      BY <3>1 DEF ChainsOfTokens, Bound, InLowerCase
    <3> QED BY <3>3, <3>4
  <2> QED BY <1>10, <2>1, <2>2 DEF ReadServices
<1>11. CASE Start
  <2>1. CASE Panic
    BY <2>1 DEF Panic, Progress, ChainsOfTokens, Bound, InLowerCase
  <2>2. CASE ~StartFails
    <3>1. /\ stage = "built" /\ stage' = "running"
          /\ UNCHANGED <<file, next, role, specific, chains, tokens>>
          /\ role = "solver" =>
                contracts' = {<<pair[1], pair[2].address>> : pair \in Listed}
      BY <1>11, <2>2 DEF Start
    <3>2. \A b : Passed(b)' <=> Passed(b)
      BY <3>1 DEF Passed, BucketErrors, ChainErrors, TokenErrors
    <3>3. Progress'
      BY <3>1, <3>2 DEF Progress, IsLoaded
    <3>4. Listed' = Listed
      BY <3>1 DEF Listed
    <3>5. ChainsOfTokens' /\ Bound' /\ InLowerCase'
      BY <3>1, <3>4 DEF ChainsOfTokens, Bound, InLowerCase
    <3> QED BY <3>3, <3>5
  <2> QED BY <1>11, <2>1, <2>2 DEF Start
<1>12. CASE UNCHANGED vars
  <2>1. \A b : Passed(b)' <=> Passed(b)
    BY <1>12 DEF vars, Passed, BucketErrors, ChainErrors, TokenErrors
  <2>2. Progress'
    BY <1>12, <2>1 DEF vars, Progress, IsLoaded
  <2>3. ChainsOfTokens' /\ Bound' /\ InLowerCase'
    BY <1>12 DEF vars, ChainsOfTokens, Bound, Listed, InLowerCase
  <2> QED BY <2>2, <2>3
<1> QED
  BY <1>1, <1>2, <1>3, <1>4, <1>5, <1>6, <1>7, <1>8, <1>9, <1>10, <1>11,
     <1>12 DEF Next

THEOREM ConfigurationInductive == Spec => []IInv
  BY InitIInv, StepIInv, PTL DEF Spec

\* Loaded tokens have the chains of some token of the file.
FromFile ==
    \A s \in DOMAIN tokens : \E i \in DOMAIN file.tokens : tokens[s].byChain = specific[i]

TypeInv == TypeOK /\ FromFile

LEMMA StartType == IInv /\ TypeInv /\ Start => TypeInv'
<1> SUFFICES ASSUME IInv, TypeInv, Start PROVE TypeInv'
  OBVIOUS
<1>1. stage = "built" /\ UNCHANGED <<file, env, role, next, specific, chains, tokens, reason>>
  BY DEF Start, Panic
<1>2. stage' \in Stages
  BY DEF Start, Panic, Stages
<1>3. \A pair \in Listed : <<pair[1], pair[2].address>> \in ChainIds \X {Lower[a] : a \in DOMAIN Lower}
  <2> SUFFICES ASSUME NEW s \in DOMAIN tokens, NEW id \in DOMAIN tokens[s].byChain
               PROVE  /\ id \in ChainIds
                      /\ tokens[s].byChain[id].address \in {Lower[a] : a \in DOMAIN Lower}
    BY DEF Listed
  <2>1. id \in ChainIds
    <3>1. id \in {file.chains[i].id : i \in DOMAIN file.chains}
      BY DEF IInv, ChainsOfTokens, TypeInv, TypeOK
    <3>2. PICK i \in DOMAIN file.chains : id = file.chains[i].id
      BY <3>1
    <3>3. file.chains[i] \in [id : ChainIds, enabled : BOOLEAN, rpc : STRING]
      <4>1. file \in Files
        BY DEF TypeInv, TypeOK
      <4>2. file.chains \in Seq([id : ChainIds, enabled : BOOLEAN, rpc : STRING])
        BY <4>1, ConfigurationAssumption
      <4> QED BY <4>2, SeqElement
    <3> QED BY <3>2, <3>3
  <2>2. PICK i \in DOMAIN file.tokens : tokens[s].byChain = specific[i]
    BY DEF TypeInv, FromFile
  <2> QED BY <1>1, <2>1, <2>2 DEF IInv, InLowerCase, Parsed
<1>4. contracts' \subseteq ChainIds \X {Lower[a] : a \in DOMAIN Lower}
  BY <1>3 DEF Start, Panic, TypeInv, TypeOK
<1>5. TypeOK'
  BY <1>1, <1>2, <1>4 DEF TypeInv, TypeOK
<1>6. FromFile'
  BY <1>1 DEF TypeInv, FromFile
<1> QED BY <1>5, <1>6 DEF TypeInv

LEMMA TypeStep == IInv /\ TypeInv /\ [Next]_vars => TypeInv'
<1> SUFFICES ASSUME IInv, TypeInv, [Next]_vars PROVE TypeInv'
  OBVIOUS
<1> USE DEF TypeInv, TypeOK, FromFile, Stages
<1>1. CASE \E e \in Errors : Refuse(e)
  BY <1>1 DEF Refuse
<1>2. CASE AskedForBoth
  BY <1>2 DEF AskedForBoth
<1>3. CASE Parse
  <2>1. DOMAIN specific' = DOMAIN file.tokens /\ tokens = <<>>
    BY <1>3 DEF Parse, Merges, IInv, Progress, Early
  <2> QED BY <1>3, <2>1 DEF Parse
<1>4. CASE /\ next \in DOMAIN file.chains
           /\ \E v : chains' = With(chains, file.chains[next].id, v)
           /\ next' = next + 1
           /\ UNCHANGED <<file, env, role, stage, specific, tokens, reason, contracts>>
  <2>1. DOMAIN chains' = DOMAIN chains \cup {file.chains[next].id}
    BY <1>4 DEF With
  <2> QED BY <1>4, <2>1
<1>5. CASE /\ next \in DOMAIN file.tokens
           /\ \E e : tokens' = With(tokens, file.tokens[next].symbol,
                                    [enabled |-> e, byChain |-> specific[next]])
           /\ next' = next + 1
           /\ UNCHANGED <<file, env, role, stage, specific, chains, reason, contracts>>
  <2>1. PICK e : tokens' = With(tokens, file.tokens[next].symbol,
                                [enabled |-> e, byChain |-> specific[next]])
    BY <1>5
  <2>2. /\ DOMAIN tokens' = DOMAIN tokens \cup {file.tokens[next].symbol}
        /\ \A s \in DOMAIN tokens' :
              tokens'[s].byChain \in {specific[next]} \cup
                 {tokens[r].byChain : r \in DOMAIN tokens \cap {s}}
    BY <2>1 DEF With
  <2>3. TypeOK'
    BY <1>5, <2>2 DEF Symbols
  <2>4. FromFile'
    BY <1>5, <2>2
  <2> QED BY <2>3, <2>4
<1>6. CASE \E s \in Stages : Goto(s)
  BY <1>6 DEF Goto
<1>7. CASE /\ next' = next + 1
           /\ UNCHANGED <<file, env, role, stage, specific, chains, tokens, reason, contracts>>
  BY <1>7
<1>8. CASE ParseFails
  BY <1>1, <1>8 DEF ParseFails, Errors
<1>9. CASE LoadChain
  BY <1>1, <1>4, <1>9 DEF LoadChain, Errors
<1>10. \A id : ChainErrors(id) \subseteq Errors
  BY DEF ChainErrors, Errors
<1>11. CASE LoadToken
  <2>1. CASE \E e \in UNION {ChainErrors(id) : id \in DOMAIN specific[next]} : Refuse(e)
    BY <1>1, <1>10, <2>1
  <2>2. CASE /\ tokens' = With(tokens, file.tokens[next].symbol,
                               [enabled |-> file.tokens[next].enabled,
                                byChain |-> specific[next]])
             /\ next' = next + 1
             /\ UNCHANGED <<file, env, role, stage, specific, chains, reason, contracts>>
    <3>1. next \in DOMAIN file.tokens
      BY <1>11 DEF LoadToken
    <3> HIDE DEF TypeInv, TypeOK, FromFile, Stages
    <3> QED BY <1>5, <2>2, <3>1
  <2> QED BY <1>11, <2>1, <2>2 DEF LoadToken
<1>12. \A b : \A i \in 1 .. 4 : BucketErrors(b)[i] \subseteq Errors
  BY <1>10 DEF BucketErrors, TokenErrors, Errors
<1>13. CASE CheckBucket
  BY <1>1, <1>7, <1>12, <1>13 DEF CheckBucket
<1>14. CASE ReadServices
  BY <1>1, <1>6, <1>14 DEF ReadServices, Errors
<1>15. CASE ChainsLoaded \/ TokensLoaded \/ BucketsChecked
  BY <1>6, <1>15 DEF ChainsLoaded, TokensLoaded, BucketsChecked
<1>16. CASE UNCHANGED vars
  BY <1>16 DEF vars
<1> QED
  BY <1>2, <1>3, <1>8, <1>9, <1>11, <1>13, <1>14, <1>15, <1>16, StartType DEF Next

\* A process works on the chains and tokens of its file and nothing else, and
\* binds contracts under lower-case addresses of known chains only (TypeOK).
THEOREM ConfigurationType == Spec => []TypeOK
<1>1. Init => TypeInv
  BY DEF Init, TypeInv, TypeOK, FromFile, Roles, Stages, Errors
<1>2. TypeInv => TypeOK
  BY DEF TypeInv
<1> QED BY <1>1, <1>2, TypeStep, ConfigurationInductive, PTL DEF Spec

\* Passed buckets have what a quote needs, and nothing of it is disabled.
LEMMA PassedQuotable ==
    ASSUME NEW b, Passed(b)
    PROVE  /\ QuoteRequestBuilds(PathOf(b))
           /\ Converts(b.fromToken, b.fromChain)
           /\ chains[b.fromChain].enabled /\ chains[b.toChain].enabled
           /\ Admitted(b.fromToken, b.fromChain)
           /\ Admitted(b.toToken, b.toChain)
<1>1. /\ ChainErrors(b.fromChain) = {} /\ ChainErrors(b.toChain) = {}
      /\ TokenErrors(b.fromToken, b.fromChain) = {}
      /\ TokenErrors(b.toToken, b.toChain) = {}
  BY DEF Passed, BucketErrors
<1>2. \A id : ChainErrors(id) = {} => id \in DOMAIN chains /\ chains[id].enabled
  BY DEF ChainErrors
<1>3. \A s, id : TokenErrors(s, id) = {} => Admitted(s, id)
  BY DEF TokenErrors, Admitted
<1>4. /\ Admitted(b.fromToken, b.fromChain) /\ Admitted(b.toToken, b.toChain)
      /\ b.fromChain \in DOMAIN chains /\ chains[b.fromChain].enabled
      /\ b.toChain \in DOMAIN chains /\ chains[b.toChain].enabled
  BY <1>1, <1>2, <1>3
<1>5. QuoteRequestBuilds(PathOf(b)) /\ Converts(b.fromToken, b.fromChain)
  BY <1>4 DEF Admitted, QuoteRequestBuilds, RouteBuilds, PathOf, Converts
<1> QED BY <1>4, <1>5

\* Every bucket of an accepted file can be indexed (QuotableBuckets).
THEOREM BucketsAreQuotable == Spec => []QuotableBuckets
<1>1. IInv => QuotableBuckets
  BY PassedQuotable DEF IInv, Progress, QuotableBuckets, Accepted
<1> QED BY <1>1, ConfigurationInductive, PTL

\* The key a quote is read under belongs to one bucket only
\* (QuoteReadsItsEstimator).
THEOREM KeysAreOwn == Spec => []QuoteReadsItsEstimator
<1>1. ASSUME UniqueItems(file), NEW i \in DOMAIN file.buckets,
             NEW j \in DOMAIN file.buckets,
             BucketKey(file.buckets[j]) = BucketKey(file.buckets[i])
      PROVE  j = i
  BY <1>1 DEF UniqueItems, Unique, BucketKeys
<1>2. ASSUME UniqueItems(file) PROVE QuoteReadsItsEstimator
  BY <1>1, <1>2 DEF QuoteReadsItsEstimator, Found
<1>3. IInv /\ Accepted => UniqueItems(file)
  BY DEF IInv, Progress, Accepted, Parsed
<1>4. IInv => QuoteReadsItsEstimator
  BY <1>2, <1>3 DEF QuoteReadsItsEstimator
<1> QED BY <1>4, ConfigurationInductive, PTL

\* A route that was given a cost can be priced and quoted (RoutesConvert).
THEOREM RoutesAreConvertible == Spec => []RoutesConvert
<1>1. ASSUME IInv, stage = "running", NEW p \in Path,
             Admitted(p.toToken, p.toChain), Kept(p.fromToken, p.fromChain)
      PROVE  /\ BridgingRouteBuilds(p) /\ chains[p.toChain].enabled
             /\ (\E i \in DOMAIN file.buckets, a \in Amounts : Found(i, p, a)) =>
                   Converts(p.fromToken, p.fromChain) /\ QuoteRequestBuilds(p)
  <2>1. BridgingRouteBuilds(p) /\ chains[p.toChain].enabled
    BY <1>1 DEF IInv, ChainsOfTokens, Admitted, Kept, BridgingRouteBuilds
  <2>2. ASSUME NEW i \in DOMAIN file.buckets, NEW a \in Amounts, Found(i, p, a)
        PROVE  Converts(p.fromToken, p.fromChain) /\ QuoteRequestBuilds(p)
    <3> DEFINE b == file.buckets[i]
    <3>1. PathOf(b) = p
      BY <2>2 DEF Found, Matches
    <3>2. Passed(b)
      BY <1>1 DEF IInv, Progress
    <3>3. QuoteRequestBuilds(PathOf(b)) /\ Converts(b.fromToken, b.fromChain)
      BY <3>2, PassedQuotable
    <3>4. p.fromToken = b.fromToken /\ p.fromChain = b.fromChain
      BY <3>1 DEF PathOf
    <3> QED BY <3>1, <3>3, <3>4
  <2> QED BY <2>1, <2>2
<1>2. IInv => RoutesConvert
  BY <1>1 DEF RoutesConvert
<1> QED BY <1>2, ConfigurationInductive, PTL

\* A running solver has the contract of every configured token, however its
\* address is spelled (ApprovalsHaveContract).
THEOREM ApprovalsAreBound == Spec => []ApprovalsHaveContract
<1>1. ASSUME IInv, stage = "running", role = "solver",
             NEW i \in DOMAIN file.tokens, NEW id \in DOMAIN specific[i],
             NEW a \in DOMAIN Lower,
             Lower[a] = Lower[specific[i][id].address]
      PROVE  HasContract(id, a)
  <2> DEFINE s == file.tokens[i].symbol
  <2>1. s \in DOMAIN tokens /\ tokens[s].byChain = specific[i]
    BY <1>1 DEF IInv, Progress, IsLoaded, Loaded
  <2>2. <<id, tokens[s].byChain[id]>> \in Listed
    BY <1>1, <2>1 DEF Listed
  <2>3. <<id, specific[i][id].address>> \in contracts
    BY <1>1, <2>1, <2>2 DEF IInv, Bound
  <2>4. Lower[a] = specific[i][id].address
    BY <1>1 DEF IInv, InLowerCase, Parsed
  <2> QED BY <2>3, <2>4 DEF HasContract
<1>2. IInv => ApprovalsHaveContract
  BY <1>1 DEF ApprovalsHaveContract
<1> QED BY <1>2, ConfigurationInductive, PTL

-----------------------------------------------------------------------------
(* What is refused and what is accepted.                                    *)

ChainRead(i) ==
    LET c == file.chains[i]
    IN  /\ env[c.rpc] # "unset"
        /\ c.id \in DOMAIN chains
        /\ chains[c.id].enabled = c.enabled

ChainsFromFile ==
    \A id \in DOMAIN chains : \E i \in DOMAIN file.chains :
       file.chains[i].id = id /\ file.chains[i].enabled = chains[id].enabled

TokensFromFile ==
    \A s \in DOMAIN tokens : \E i \in DOMAIN file.tokens :
       file.tokens[i].symbol = s /\ file.tokens[i].enabled = tokens[s].enabled

\* What has been checked when a stage is reached, beyond Progress.
Checked ==
    /\ stage = "parse" => next = 1
    /\ stage \in Parsed => Deserializes(file)
    /\ stage = "chains" => \A i \in DOMAIN file.chains : i < next => ChainRead(i)
    /\ stage \in Parsed \ Early => \A i \in DOMAIN file.chains : ChainRead(i)
    /\ stage \in {"built", "running"} =>
          \A i \in DOMAIN Services : env[Services[i]] # "unset"
    /\ stage = "refused" => ~Valid

Verdict == Checked /\ ChainsFromFile /\ TokensFromFile

\* An enabled chain of the file is one that verify_chain finds.
LEMMA ChainIsVerified ==
    ASSUME Verdict, stage \in Parsed \ Early, NEW id
    PROVE  /\ HasChain(id) <=> ChainErrors(id) = {}
           /\ ChainErrors(id) = {} <=> id \in DOMAIN chains /\ chains[id].enabled
<1>1. ChainErrors(id) = {} <=> id \in DOMAIN chains /\ chains[id].enabled
  BY DEF ChainErrors
<1>2. ASSUME HasChain(id) PROVE id \in DOMAIN chains /\ chains[id].enabled
  <2>1. PICK i \in DOMAIN file.chains : file.chains[i].id = id /\ file.chains[i].enabled
    BY <1>2 DEF HasChain
  <2>2. ChainRead(i)
    BY DEF Verdict, Checked
  <2> QED BY <2>1, <2>2 DEF ChainRead
<1>3. ASSUME id \in DOMAIN chains, chains[id].enabled PROVE HasChain(id)
  BY <1>3 DEF Verdict, ChainsFromFile, HasChain
<1> QED BY <1>1, <1>2, <1>3

\* An enabled token of the file, enabled on a chain, is one that verify_token
\* finds there once the tokens are loaded, and that chain is verified too.
LEMMA TokenIsVerified ==
    ASSUME IInv, Verdict, stage \in Loaded, NEW symbol, NEW id
    PROVE  /\ HasToken(symbol, id) <=> TokenErrors(symbol, id) = {}
           /\ TokenErrors(symbol, id) = {} => ChainErrors(id) = {}
<1>1. \A i \in DOMAIN file.tokens : IsLoaded(i)
  BY DEF IInv, Progress
<1>2. \A i, j \in DOMAIN file.tokens :
         file.tokens[i].symbol = file.tokens[j].symbol => i = j
  BY DEF IInv, Progress, Parsed, Loaded, UniqueItems, Unique, SymbolsOf
<1>3. TokenErrors(symbol, id) = {} <=>
         /\ symbol \in DOMAIN tokens /\ tokens[symbol].enabled
         /\ id \in DOMAIN tokens[symbol].byChain
         /\ tokens[symbol].byChain[id].enabled
  BY DEF TokenErrors
<1>4. ASSUME HasToken(symbol, id) PROVE TokenErrors(symbol, id) = {}
  <2>1. PICK i \in DOMAIN file.tokens :
           /\ file.tokens[i].symbol = symbol /\ file.tokens[i].enabled
           /\ id \in DOMAIN specific[i] /\ specific[i][id].enabled
    BY <1>4 DEF HasToken
  <2>2. symbol \in DOMAIN tokens /\ tokens[symbol].byChain = specific[i]
    BY <1>1, <2>1 DEF IsLoaded
  <2>3. tokens[symbol].enabled
    BY <1>2, <2>1, <2>2 DEF Verdict, TokensFromFile
  <2> QED BY <1>3, <2>1, <2>2, <2>3
<1>5. ASSUME TokenErrors(symbol, id) = {} PROVE HasToken(symbol, id) /\ ChainErrors(id) = {}
  <2>1. PICK i \in DOMAIN file.tokens :
           file.tokens[i].symbol = symbol /\ file.tokens[i].enabled = tokens[symbol].enabled
    BY <1>3, <1>5 DEF Verdict, TokensFromFile
  <2>2. tokens[symbol].byChain = specific[i]
    BY <1>1, <2>1 DEF IsLoaded
  <2>3. HasToken(symbol, id)
    BY <1>3, <1>5, <2>1, <2>2 DEF HasToken
  <2>4. ChainErrors(id) = {}
    BY <1>3, <1>5 DEF IInv, ChainsOfTokens, ChainErrors
  <2> QED BY <2>3, <2>4
<1> QED BY <1>4, <1>5

LEMMA RefusedRightly ==
    ASSUME Verdict, NEW e, Refuse(e), ~Valid
    PROVE  Verdict'
<1>1. stage' = "refused" /\ UNCHANGED <<file, env, specific, chains, tokens>>
  BY DEF Refuse
<1>2. ~Valid'
  BY <1>1 DEF Valid, HasChain, HasToken
<1> QED BY <1>1, <1>2 DEF Verdict, Checked, ChainsFromFile, TokensFromFile, Parsed, Early

\* Steps that load nothing, and check what their new stage promises.
LEMMA VerdictKept ==
    ASSUME Verdict, UNCHANGED <<file, env, specific, chains, tokens>>,
           stage' \notin {"parse", "chains", "refused"},
           stage' \in Parsed \ Early =>
              Deserializes(file) /\ \A i \in DOMAIN file.chains : ChainRead(i),
           stage' \in {"built", "running"} =>
              \A i \in DOMAIN Services : env[Services[i]] # "unset"
    PROVE  Verdict'
  BY DEF Verdict, Checked, ChainsFromFile, TokensFromFile, ChainRead, Parsed, Early

LEMMA StepVerdict == IInv /\ Verdict /\ [Next]_vars => Verdict'
<1> SUFFICES ASSUME IInv, Verdict, [Next]_vars PROVE Verdict'
  OBVIOUS
<1>0. Progress /\ ChainsOfTokens /\ Checked
  BY DEF IInv, Verdict
<1>1. CASE AskedForBoth
  BY <1>1, VerdictKept DEF AskedForBoth, Parsed
<1>2. CASE Parse
  <2>1. /\ stage' = "chains" /\ stage = "parse" /\ next' = next
        /\ UNCHANGED <<file, chains, tokens>>
        /\ Deserializes(file)
    BY <1>2 DEF Parse
  <2>2. \A i \in DOMAIN file.chains : ~(i < next)
    <3>1. next = 1
      BY <1>0, <2>1 DEF Checked
    <3> QED BY <1>0, <3>1, Lists DEF Progress
  <2> QED
    BY <2>1, <2>2 DEF Verdict, Checked, ChainsFromFile, TokensFromFile, Early
<1>3. CASE ParseFails
  BY <1>3, RefusedRightly DEF ParseFails, Valid
<1>4. CASE LoadChain
  <2> DEFINE c == file.chains[next]
  <2>1. stage = "chains" /\ next \in DOMAIN file.chains
    BY <1>4 DEF LoadChain
  <2>2. CASE env[c.rpc] = "unset"
    <3>1. ~Valid
      BY <2>1, <2>2 DEF Valid
    <3> QED BY <1>4, <2>2, <3>1, RefusedRightly DEF LoadChain
  <2>3. CASE env[c.rpc] # "unset"
    <3>1. /\ chains' = With(chains, c.id, [enabled |-> c.enabled, rpc |-> c.rpc])
          /\ next' = next + 1
          /\ UNCHANGED <<file, env, stage, specific, tokens>>
      BY <1>4, <2>3 DEF LoadChain
    <3>2. /\ DOMAIN chains' = DOMAIN chains \cup {c.id}
          /\ chains'[c.id].enabled = c.enabled
          /\ \A id \in DOMAIN chains : id # c.id => chains'[id] = chains[id]
      BY <3>1 DEF With
    <3>3. ASSUME NEW i \in DOMAIN file.chains, i < next + 1 PROVE ChainRead(i)'
      <4>1. CASE i = next
        BY <2>3, <3>1, <3>2, <4>1 DEF ChainRead
      <4>2. CASE i # next
        <5>1. i < next
          BY <3>3, <4>2, Lists, <1>0 DEF Progress
        <5>2. ChainRead(i)
          BY <1>0, <2>1, <5>1 DEF Checked
        <5>3. file.chains[i].id # c.id
          BY <1>0, <2>1, <4>2 DEF Progress, Parsed, UniqueItems, Unique, ChainIdsOf
        <5> QED BY <3>1, <3>2, <5>2, <5>3 DEF ChainRead
      <4> QED BY <4>1, <4>2
    <3>4. Checked'
      BY <1>0, <2>1, <3>1, <3>3 DEF Checked, Early, Parsed
    <3>5. ChainsFromFile'
      BY <2>1, <3>1, <3>2 DEF Verdict, ChainsFromFile
    <3>6. TokensFromFile'
      BY <3>1 DEF Verdict, TokensFromFile
    <3> QED BY <3>4, <3>5, <3>6 DEF Verdict
  <2> QED BY <2>2, <2>3
<1>5. CASE ChainsLoaded
  <2>1. /\ stage = "chains" /\ stage' = "tokens"
        /\ UNCHANGED <<file, env, specific, chains, tokens>>
    BY <1>5 DEF ChainsLoaded, Goto
  <2>2. \A i \in DOMAIN file.chains : i < next
    BY <1>0, <1>5, Exhausted, Lists DEF ChainsLoaded, Progress
  <2>3. Deserializes(file) /\ \A i \in DOMAIN file.chains : ChainRead(i)
    BY <1>0, <2>1, <2>2 DEF Checked, Parsed
  <2> QED BY <2>1, <2>3, VerdictKept
<1>6. CASE LoadToken
  <2> DEFINE t == file.tokens[next]
             m == specific[next]
             errors == UNION {ChainErrors(id) : id \in DOMAIN m}
  <2>1. stage = "tokens" /\ next \in DOMAIN file.tokens
    BY <1>6 DEF LoadToken
  <2>2. CASE \E e \in errors : Refuse(e)
    <3>1. PICK e \in errors : Refuse(e)
      BY <2>2
    <3>2. PICK id \in DOMAIN m : ChainErrors(id) # {}
      BY <3>1
    <3>3. ~HasChain(id)
      BY <2>1, <3>2, ChainIsVerified DEF Parsed, Early
    <3>4. ~Valid
      BY <2>1, <3>3 DEF Valid
    <3> QED BY <3>1, <3>4, RefusedRightly
  <2>3. CASE /\ tokens' = With(tokens, t.symbol,
                               [enabled |-> t.enabled, byChain |-> m])
             /\ UNCHANGED <<file, env, stage, specific, chains>>
    <3>1. /\ DOMAIN tokens' = DOMAIN tokens \cup {t.symbol}
          /\ tokens'[t.symbol].enabled = t.enabled
          /\ \A s \in DOMAIN tokens : s # t.symbol => tokens'[s] = tokens[s]
      BY <2>3 DEF With
    <3>2. TokensFromFile'
      BY <2>1, <2>3, <3>1 DEF Verdict, TokensFromFile
    <3>3. Checked' /\ ChainsFromFile'
      BY <2>1, <2>3 DEF Verdict, Checked, ChainsFromFile, ChainRead, Parsed, Early
    <3> QED BY <3>2, <3>3 DEF Verdict
  <2> QED BY <1>6, <2>2, <2>3 DEF LoadToken
<1>7. CASE TokensLoaded
  <2>1. /\ stage = "tokens" /\ stage' = "buckets"
        /\ UNCHANGED <<file, env, specific, chains, tokens>>
    BY <1>7 DEF TokensLoaded, Goto
  <2> QED BY <1>0, <2>1, VerdictKept DEF Checked, Parsed, Early
<1>8. CASE CheckBucket
  <2> DEFINE b == file.buckets[next]
  <2>1. stage = "buckets" /\ next \in DOMAIN file.buckets
    BY <1>8 DEF CheckBucket
  <2>2. CASE \E i \in 1 .. 4 : \E e \in BucketErrors(b)[i] : Refuse(e)
    <3>1. PICK i \in 1 .. 4 : \E e \in BucketErrors(b)[i] : Refuse(e)
      BY <2>2
    <3>2. PICK e \in BucketErrors(b)[i] : Refuse(e)
      BY <3>1
    <3>3. \/ ChainErrors(b.fromChain) # {} \/ ChainErrors(b.toChain) # {}
          \/ TokenErrors(b.fromToken, b.fromChain) # {}
          \/ TokenErrors(b.toToken, b.toChain) # {}
      BY <3>2 DEF BucketErrors
    <3>4. \/ ~HasToken(b.fromToken, b.fromChain) \/ ~HasToken(b.toToken, b.toChain)
      BY <2>1, <3>3, TokenIsVerified DEF Loaded
    <3>5. ~Valid
      BY <2>1, <3>4 DEF Valid
    <3> QED BY <3>2, <3>5, RefusedRightly
  <2>3. CASE UNCHANGED <<file, env, stage, specific, chains, tokens>>
    BY <1>0, <2>1, <2>3, VerdictKept DEF Checked, Parsed, Early
  <2> QED BY <1>8, <2>2, <2>3 DEF CheckBucket
<1>9. CASE BucketsChecked
  <2>1. /\ stage = "buckets" /\ stage' = "services"
        /\ UNCHANGED <<file, env, specific, chains, tokens>>
    BY <1>9 DEF BucketsChecked, Goto
  <2> QED BY <1>0, <2>1, VerdictKept DEF Checked, Parsed, Early
<1>10. CASE ReadServices
  <2>1. CASE \E i \in DOMAIN Services : env[Services[i]] = "unset"
    BY <1>10, <2>1, RefusedRightly DEF ReadServices, Valid
  <2>2. CASE ~\E i \in DOMAIN Services : env[Services[i]] = "unset"
    <3>1. /\ stage = "services" /\ stage' = "built"
          /\ UNCHANGED <<file, env, specific, chains, tokens>>
      BY <1>10, <2>2 DEF ReadServices, Goto
    <3> QED BY <1>0, <2>2, <3>1, VerdictKept DEF Checked, Parsed, Early
  <2> QED BY <2>1, <2>2
<1>11. CASE Start
  <2>1. /\ stage = "built" /\ stage' \in {"running", "panicked"}
        /\ UNCHANGED <<file, env, specific, chains, tokens>>
    BY <1>11 DEF Start, Panic
  <2> QED BY <1>0, <2>1, VerdictKept DEF Checked, Parsed, Early
<1>12. CASE UNCHANGED vars
  BY <1>12 DEF vars, Verdict, Checked, ChainsFromFile, TokensFromFile, ChainRead, Valid,
               HasChain, HasToken
<1> QED
  BY <1>1, <1>2, <1>3, <1>4, <1>5, <1>6, <1>7, <1>8, <1>9, <1>10, <1>11,
     <1>12 DEF Next

\* A file is accepted exactly when it is valid, whatever the order of the
\* checks (AcceptedIffValid; config.rs:45-155).
THEOREM AcceptanceIsValidity == Spec => []AcceptedIffValid
<1>1. Init => Verdict
  BY DEF Init, Verdict, Checked, ChainsFromFile, TokensFromFile, Parsed, Early
<1>2. IInv /\ Verdict => AcceptedIffValid
  <2> SUFFICES ASSUME IInv, Verdict, Accepted PROVE Valid
    BY DEF AcceptedIffValid, Verdict, Checked
  <2>1. stage \in Loaded /\ stage \in Parsed \ Early
    BY DEF Accepted, Loaded, Parsed, Early
  <2>2. /\ Deserializes(file) /\ UniqueItems(file)
        /\ \A i \in DOMAIN file.chains : env[file.chains[i].rpc] # "unset"
        /\ \A i \in DOMAIN Services : env[Services[i]] # "unset"
    BY <2>1 DEF IInv, Progress, Verdict, Checked, ChainRead, Accepted
  <2>3. ASSUME NEW i \in DOMAIN file.tokens, NEW id \in DOMAIN specific[i]
        PROVE  HasChain(id)
    <3>1. IsLoaded(i)
      BY <2>1 DEF IInv, Progress
    <3>2. id \in DOMAIN chains /\ chains[id].enabled
      BY <3>1 DEF IsLoaded, IInv, ChainsOfTokens
    <3> QED BY <2>1, <3>2, ChainIsVerified
  <2>4. ASSUME NEW i \in DOMAIN file.buckets
        PROVE  /\ HasToken(file.buckets[i].fromToken, file.buckets[i].fromChain)
               /\ HasToken(file.buckets[i].toToken, file.buckets[i].toChain)
    <3>1. Passed(file.buckets[i])
      BY DEF IInv, Progress, Accepted
    <3> QED BY <2>1, <3>1, TokenIsVerified DEF Passed, BucketErrors
  <2> QED BY <2>2, <2>3, <2>4 DEF Valid
<1> QED BY <1>1, <1>2, StepVerdict, ConfigurationInductive, PTL DEF Spec

=============================================================================
