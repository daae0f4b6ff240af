----------------------------- MODULE Settlement -----------------------------
(***************************************************************************)
(* From chosen routes to the transactions a user signs                     *)
(* (settlement_engine.rs): the source builds one bridge transaction per    *)
(* route and names the allowance it needs; needs with the same key are     *)
(* merged; the current allowance of each merged need is read from the      *)
(* chain, and an approval goes in front of the bridge transactions where   *)
(* it falls short.                                                         *)
(*                                                                         *)
(* Signing and the ERC-20 contracts are outside the repository.  They are  *)
(* modelled from what the code relies on: the transactions are executed in *)
(* the order of the answer, an approval sets the allowance, and a bridge   *)
(* transaction spends what it needs or reverts.                            *)
(***************************************************************************)
EXTENDS Integers, Sequences, FiniteSets, FiniteSetsExt, SequencesExt

CONSTANTS
    Requests,    \* get_best_path requests
    Keys,        \* (chain, token, owner, target), owner and target as spelled
    NoKey,       \* key of a route that needs no approval
    Slots,       \* allowances on the chains
    Slot,        \* key -> the allowance it stands for once it is parsed
    Plans,       \* routes a request may ask for: sequences of [key, amount]
    Allowances,  \* initial allowances
    Modulus,     \* amounts are modulo this (2^256)
    Fails        \* whether an allowance read may fail

ASSUME SettlementAssumption ==
    /\ NoKey \notin Keys
    /\ Slot \in [Keys -> Slots]
    /\ Plans \subseteq
          Seq([key : Keys \cup {NoKey}, amount : 0 .. Modulus - 1])
    /\ Modulus \in Nat \ {0}
    /\ Allowances \subseteq 0 .. Modulus - 1
    /\ Fails \in BOOLEAN

VARIABLES
    plan,        \* request -> its routes
    stage,       \* request -> build, check, sign, done or failed
    unread,      \* request -> merged needs whose allowance is yet to be read
    txs,         \* request -> transactions still to be executed
    allowance,   \* slot -> current allowance
    reverted,    \* history: request -> a bridge transaction reverted
    excuse       \* history: request -> reasons for a revert

vars == <<plan, stage, unread, txs, allowance, reverted, excuse>>

Amounts == 0 .. Modulus - 1
Needs   == [key : Keys, amount : Amounts]

Approve(n) == [type |-> "approve", key |-> n.key, amount |-> n.amount]
Bridge(n)  == [type |-> "bridge", key |-> n.key, amount |-> n.amount]

\* dropped: the read of an allowance failed; disturbed: another request
\* executed a transaction on an allowance this one had read or will spend;
\* wrapped: a merged amount passed the modulus; respelled: one allowance is
\* needed under two spellings.
Excuses == {"dropped", "disturbed", "wrapped", "respelled"}

TypeOK ==
    /\ plan \in [Requests -> Plans]
    /\ stage \in [Requests -> {"build", "check", "sign", "done", "failed"}]
    /\ unread \in [Requests -> SUBSET Needs]
    /\ txs \in [Requests -> Seq([type : {"approve", "bridge"},
                                 key : Keys \cup {NoKey}, amount : Amounts])]
    /\ allowance \in [Slots -> Amounts]
    /\ reverted \in [Requests -> BOOLEAN]
    /\ excuse \in [Requests -> SUBSET Excuses]

Init ==
    /\ plan \in [Requests -> Plans]
    /\ stage = [q \in Requests |-> "build"]
    /\ unread = [q \in Requests |-> {}]
    /\ txs = [q \in Requests |-> <<>>]
    /\ allowance \in [Slots -> Allowances]
    /\ reverted = [q \in Requests |-> FALSE]
    /\ excuse = [q \in Requests |-> {}]

-----------------------------------------------------------------------------
(* generate_transactions *)

KeysOf(q) == {plan[q][i].key : i \in DOMAIN plan[q]} \ {NoKey}

\* What the routes with key k need together.
NeededAmounts(q) == [i \in DOMAIN plan[q] |-> plan[q][i].amount]

Total(q, k) ==
    SumFunctionOnSet(NeededAmounts(q),
                     {i \in DOMAIN plan[q] : plan[q][i].key = k})

\* Mutants of Merged: the needs of a key are listed one by one; the largest
\* one stands for all; the sum outgrows its type.
Listed(q) == {[key |-> plan[q][i].key, amount |-> plan[q][i].amount] :
                 i \in {j \in DOMAIN plan[q] : plan[q][j].key # NoKey}}

Largest(q) ==
    {[key |-> k, amount |-> Max({plan[q][i].amount :
         i \in {j \in DOMAIN plan[q] : plan[q][j].key = k}})] : k \in KeysOf(q)}

Unbounded(q) == {[key |-> k, amount |-> Total(q, k)] : k \in KeysOf(q)}

\* One need per key, of the sum of its amounts; U256 addition wraps.
Merged(q) == {[key |-> k, amount |-> Total(q, k) % Modulus] : k \in KeysOf(q)}

Respelled(q) == \E k, l \in KeysOf(q) : k # l /\ Slot[k] = Slot[l]

BuildExcuses(q) ==
    (IF \E k \in KeysOf(q) : Total(q, k) >= Modulus THEN {"wrapped"} ELSE {})
    \cup (IF Respelled(q) THEN {"respelled"} ELSE {})

\* The source builds every route, in an order that does not matter here.
Build(q) ==
    /\ stage[q] = "build"
    /\ plan[q] # <<>>
    /\ stage' = [stage EXCEPT ![q] = "check"]
    /\ unread' = [unread EXCEPT ![q] = Merged(q)]
    /\ txs' = [txs EXCEPT ![q] =
                  [i \in DOMAIN plan[q] |-> Bridge(plan[q][i])]]
    /\ excuse' = [excuse EXCEPT ![q] = BuildExcuses(q)]
    /\ UNCHANGED <<plan, allowance, reverted>>

\* Without routes, or with one that fails, the whole request fails.
BuildFails(q) ==
    /\ stage[q] = "build"
    /\ stage' = [stage EXCEPT ![q] = "failed"]
    /\ UNCHANGED <<plan, unread, txs, allowance, reverted, excuse>>

\* Mutant of Put: approvals go behind the bridge transactions.
Behind(seq, tx) == Append(seq, tx)

\* Approvals go in front of the bridge transactions.
Put(seq, tx) == <<tx>> \o seq

\* generate_transaction_for_approval: nothing to do, or an approval of the
\* whole merged amount.
Suffices(q) ==
    /\ stage[q] = "check"
    /\ \E n \in unread[q] :
          /\ allowance[Slot[n.key]] >= n.amount
          /\ unread' = [unread EXCEPT ![q] = @ \ {n}]
    /\ UNCHANGED <<plan, stage, txs, allowance, reverted, excuse>>

FallsShort(q) ==
    /\ stage[q] = "check"
    /\ \E n \in unread[q] :
          /\ allowance[Slot[n.key]] < n.amount
          /\ unread' = [unread EXCEPT ![q] = @ \ {n}]
          /\ txs' = [txs EXCEPT ![q] = Put(@, Approve(n))]
    /\ UNCHANGED <<plan, stage, allowance, reverted, excuse>>

\* The token is not configured, an address does not parse or the call fails:
\* the error is logged and the approval is left out of the answer.
ReadFails(q) ==
    /\ Fails
    /\ stage[q] = "check"
    /\ \E n \in unread[q] : unread' = [unread EXCEPT ![q] = @ \ {n}]
    /\ excuse' = [excuse EXCEPT ![q] = @ \cup {"dropped"}]
    /\ UNCHANGED <<plan, stage, txs, allowance, reverted>>

Reply(q) ==
    /\ stage[q] = "check"
    /\ unread[q] = {}
    /\ stage' = [stage EXCEPT ![q] = "sign"]
    /\ UNCHANGED <<plan, unread, txs, allowance, reverted, excuse>>

-----------------------------------------------------------------------------
(* The wallet and the chains (external). *)

\* Requests other than q that count on the allowance of key k.
Disturbed(q, k) ==
    [r \in Requests |->
        IF /\ r # q /\ stage[r] \in {"check", "sign"}
           /\ \E l \in KeysOf(r) : Slot[l] = Slot[k]
        THEN excuse[r] \cup {"disturbed"} ELSE excuse[r]]

ExecuteApproval(q) ==
    /\ stage[q] = "sign"
    /\ txs[q] # <<>>
    /\ LET tx == Head(txs[q]) IN
       /\ tx.type = "approve"
       /\ allowance' = [allowance EXCEPT ![Slot[tx.key]] = tx.amount]
       /\ excuse' = Disturbed(q, tx.key)
    /\ txs' = [txs EXCEPT ![q] = Tail(@)]
    /\ UNCHANGED <<plan, stage, unread, reverted>>

ExecuteBridge(q) ==
    /\ stage[q] = "sign"
    /\ txs[q] # <<>>
    /\ LET tx == Head(txs[q]) IN
       /\ tx.type = "bridge"
       /\ IF tx.key = NoKey
          THEN UNCHANGED <<allowance, reverted, excuse>>
          ELSE IF allowance[Slot[tx.key]] >= tx.amount
          THEN /\ allowance' = [allowance EXCEPT ![Slot[tx.key]] =
                                   @ - tx.amount]
               /\ excuse' = Disturbed(q, tx.key)
               /\ UNCHANGED reverted
          ELSE /\ reverted' = [reverted EXCEPT ![q] = TRUE]
               /\ UNCHANGED <<allowance, excuse>>
    /\ txs' = [txs EXCEPT ![q] = Tail(@)]
    /\ UNCHANGED <<plan, stage, unread>>

Complete(q) ==
    /\ stage[q] = "sign"
    /\ txs[q] = <<>>
    /\ stage' = [stage EXCEPT ![q] = "done"]
    /\ UNCHANGED <<plan, unread, txs, allowance, reverted, excuse>>

\* The user may walk away from the rest.
WalkAway(q) ==
    /\ stage[q] = "sign"
    /\ stage' = [stage EXCEPT ![q] = "done"]
    /\ txs' = [txs EXCEPT ![q] = <<>>]
    /\ UNCHANGED <<plan, unread, allowance, reverted, excuse>>

-----------------------------------------------------------------------------
Next ==
    \E q \in Requests :
        \/ Build(q) \/ BuildFails(q) \/ Suffices(q) \/ FallsShort(q)
        \/ ReadFails(q) \/ Reply(q) \/ ExecuteApproval(q)
        \/ ExecuteBridge(q) \/ Complete(q) \/ WalkAway(q)

Spec == Init /\ [][Next]_vars

-----------------------------------------------------------------------------
(* Properties. *)

\* The allowances an answer was computed for carry all its bridge
\* transactions: one reverts only if an approval was dropped, a sum wrapped,
\* one allowance was needed under two spellings, or another request used an
\* allowance in between.
RevertExplained == \A q \in Requests : reverted[q] => excuse[q] # {}

\* An approval replaces an allowance by a larger one: it never takes from the
\* user what an earlier approval had granted, unless the allowance was used
\* since it was read or is needed under two spellings.
NeverLowered ==
    [][\A q \in Requests :
          ExecuteApproval(q) =>
             \/ excuse[q] \cap {"disturbed", "respelled"} # {}
             \/ \A s \in Slots : allowance'[s] >= allowance[s]]_vars
=============================================================================
