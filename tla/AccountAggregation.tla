------------------------- MODULE AccountAggregation -------------------------
(***************************************************************************)
(* The account service (service.rs) over its two MongoDB collections: the  *)
(* user documents, each with an array of accounts, and the mapping         *)
(* documents from an account to a user.  Neither the service nor MongoDB   *)
(* ties two operations together, so every await is a step of its own and   *)
(* requests interleave at each of them.                                    *)
(*                                                                         *)
(* An account is abstracted to its address; Lower is to_lowercase.  Two    *)
(* mapping documents with the same account and user read alike, so the     *)
(* collection is a set.                                                    *)
(***************************************************************************)
EXTENDS Integers, Sequences, FiniteSets, Functions

CONSTANTS
    Raw,          \* spellings of account addresses that clients send
    Lower,        \* Raw -> Raw, the lowercase spelling
    Users,        \* UUIDs drawn for new users
    NoUser,       \* no user, or an id no document has
    Procs,        \* requests that may be in progress at once
    Payloads,     \* account lists that clients send
    Interrupts,   \* whether a request may end between two awaits
    ReadsFail,    \* whether a lookup of a mapping may fail
    MaxRequests   \* register and add requests in a behaviour (bound)

ASSUME AccountAssumption ==
    /\ Lower \in [Raw -> Raw]
    /\ \A r \in Raw : Lower[Lower[r]] = Lower[r]
    /\ NoUser \notin Users
    /\ Payloads \subseteq Seq(Raw)
    /\ Interrupts \in BOOLEAN
    /\ ReadsFail \in BOOLEAN
    /\ MaxRequests \in Nat

VARIABLES
    created,      \* users: ids that have a document
    accounts,     \* users: the accounts array of each document
    mappings,     \* account_mappings: pairs <<account, user>>
    req,          \* requests: [pc, user, given, i, doc]
    sent,         \* register and add requests so far
    acked,        \* history: pairs <<account, user>> answered with success
    raced         \* history: users whose document was written from an old copy

db   == <<created, accounts, mappings>>
vars == <<created, accounts, mappings, req, sent, acked, raced>>

Addr == {Lower[r] : r \in Raw}

\* pc    where the request stands; given is its payload, already lowercased;
\*       i the next account of it to treat; doc the local copy of an array
New(pc, u, given) ==
    [pc |-> pc, user |-> u, given |-> given, i |-> 1, doc |-> <<>>]

Idle == New("idle", NoUser, <<>>)

\* Request r moved to stage pc, with account k of its payload next.
At(r, pc, k) == [pc |-> pc, user |-> r.user, given |-> r.given, i |-> k,
                 doc |-> r.doc]

\* Request r with local copy d.
Holding(r, d) == [r EXCEPT !.doc = d]

\* Mutant of Lowered: the payload is taken as it was spelled.
AsSpelled(payload) == [k \in DOMAIN payload |-> payload[k]]

Lowered(payload) == [k \in DOMAIN payload |-> Lower[payload[k]]]

Requests == [pc : {"idle", "check", "create", "map", "read", "collect",
                   "update", "find", "list", "answered"},
             user : Users \cup {NoUser}, given : Seq(Addr),
             i : Nat \ {0}, doc : Seq(Addr)]

TypeOK ==
    /\ created \subseteq Users
    /\ accounts \in [Users -> Seq(Addr)]
    /\ mappings \subseteq Addr \X Users
    /\ req \in [Procs -> Requests]
    /\ sent \in 0 .. MaxRequests
    /\ acked \subseteq Addr \X Users
    /\ raced \subseteq Users

Init ==
    /\ created = {}
    /\ accounts = [u \in Users |-> <<>>]
    /\ mappings = {}
    /\ req = [p \in Procs |-> Idle]
    /\ sent = 0
    /\ acked = {}
    /\ raced = {}

\* Request p moves on to r; the databases and the rest stay as they are.
Go(p, r) ==
    /\ req' = [req EXCEPT ![p] = r]
    /\ UNCHANGED <<created, accounts, mappings, sent, acked, raced>>

\* get_user_id: find_one returns a mapping of the account, none if it has
\* none, and none as well when the read fails (unwrap_or(None)).
Found(a) == {u \in Users : <<a, u>> \in mappings}
Absent(a) == Found(a) = {} \/ ReadsFail

-----------------------------------------------------------------------------
(* register_user_account *)

\* The id is drawn after the checks; being unique, it may as well be now.
Register(p) ==
    /\ req[p].pc = "idle"
    /\ sent < MaxRequests
    /\ \E u \in Users \ (created \cup {req[q].user : q \in Procs}),
          payload \in Payloads :
          req' = [req EXCEPT ![p] = New("check", u, Lowered(payload))]
    /\ sent' = sent + 1
    /\ UNCHANGED <<created, accounts, mappings, acked, raced>>

\* The next account is free, or the lookup failed, which counts as free.
CheckFree(p) ==
    LET r == req[p] IN
    /\ r.pc = "check"
    /\ r.i <= Len(r.given)
    /\ Absent(r.given[r.i])
    /\ Go(p, At(r, "check", r.i + 1))

CheckTaken(p) ==
    LET r == req[p] IN
    /\ r.pc = "check"
    /\ r.i <= Len(r.given)
    /\ Found(r.given[r.i]) # {}
    /\ Go(p, Idle)

\* Mutants of CheckDone: the index restarts one too low; the mappings are
\* created before the user.
CheckDoneFromZero(p) ==
    LET r == req[p] IN
    /\ r.pc = "check"
    /\ r.i > Len(r.given)
    /\ Go(p, At(r, "create", 0))

CheckDoneMapsFirst(p) ==
    LET r == req[p] IN
    /\ r.pc = "check"
    /\ r.i > Len(r.given)
    /\ Go(p, At(r, "map", 1))

CheckDone(p) ==
    LET r == req[p] IN
    /\ r.pc = "check"
    /\ r.i > Len(r.given)
    /\ Go(p, At(r, "create", 1))

CreateUser(p) ==
    LET r == req[p] IN
    /\ r.pc = "create"
    /\ created' = created \cup {r.user}
    /\ accounts' = [accounts EXCEPT ![r.user] = r.given]
    /\ req' = [req EXCEPT ![p] = At(r, "map", r.i)]
    /\ UNCHANGED <<mappings, sent, acked, raced>>

\* The loop at the end of both register_user_account and add_account.
CreateMapping(p) ==
    LET r == req[p] IN
    /\ r.pc = "map"
    /\ r.i <= Len(r.given)
    /\ mappings' = mappings \cup {<<r.given[r.i], r.user>>}
    /\ req' = [req EXCEPT ![p] = At(r, "map", r.i + 1)]
    /\ UNCHANGED <<created, accounts, sent, acked, raced>>

\* The handler answers 200.
Acknowledge(p) ==
    LET r == req[p] IN
    /\ r.pc = "map"
    /\ r.i > Len(r.given)
    /\ acked' = acked \cup {<<a, r.user>> : a \in Range(r.given)}
    /\ req' = [req EXCEPT ![p] = Idle]
    /\ UNCHANGED <<created, accounts, mappings, sent, raced>>

-----------------------------------------------------------------------------
(* add_account *)

\* Clients learn the id of a user from get_account, so from a mapping.
Known == {m[2] : m \in mappings}

Add(p) ==
    /\ req[p].pc = "idle"
    /\ sent < MaxRequests
    /\ \E u \in Known \cup {NoUser}, payload \in Payloads :
          req' = [req EXCEPT ![p] = New("read", u, Lowered(payload))]
    /\ sent' = sent + 1
    /\ UNCHANGED <<created, accounts, mappings, acked, raced>>

ReadUser(p) ==
    LET r == req[p] IN
    /\ r.pc = "read"
    /\ r.user \in created
    /\ Go(p, Holding(At(r, "collect", 1), accounts[r.user]))

\* Of add_account and of get_user_accounts alike.
UserNotFound(p) ==
    /\ req[p].pc \in {"read", "list"}
    /\ req[p].user \notin created
    /\ Go(p, Idle)

\* Mutant of CollectFree: the account is not looked up first.
CollectUnchecked(p) ==
    LET r == req[p] IN
    /\ r.pc = "collect"
    /\ r.i <= Len(r.given)
    /\ Go(p, Holding(At(r, "collect", r.i + 1), Append(r.doc, r.given[r.i])))

\* Check and push the accounts one by one, into the local copy only.
CollectFree(p) ==
    LET r == req[p] IN
    /\ r.pc = "collect"
    /\ r.i <= Len(r.given)
    /\ Absent(r.given[r.i])
    /\ Go(p, Holding(At(r, "collect", r.i + 1), Append(r.doc, r.given[r.i])))

CollectTaken(p) ==
    LET r == req[p] IN
    /\ r.pc = "collect"
    /\ r.i <= Len(r.given)
    /\ Found(r.given[r.i]) # {}
    /\ Go(p, Idle)

\* Mutant of CollectDone: the document is not written back.
CollectDoneNoUpdate(p) ==
    LET r == req[p] IN
    /\ r.pc = "collect"
    /\ r.i > Len(r.given)
    /\ Go(p, At(r, "map", 1))

CollectDone(p) ==
    LET r == req[p] IN
    /\ r.pc = "collect"
    /\ r.i > Len(r.given)
    /\ Go(p, At(r, "update", 1))

\* $set replaces the whole array by the local copy, whatever happened to the
\* document since it was read.
UpdateUser(p) ==
    LET r == req[p] IN
    /\ r.pc = "update"
    /\ accounts' = [accounts EXCEPT ![r.user] = r.doc]
    /\ raced' = IF r.doc = accounts[r.user] \o r.given
                THEN raced ELSE raced \cup {r.user}
    /\ req' = [req EXCEPT ![p] = At(r, "map", r.i)]
    /\ UNCHANGED <<created, mappings, sent, acked>>

-----------------------------------------------------------------------------
(* get_account and get_user_accounts_balance: the mapping, then the        *)
(* document it names.  Without a mapping the first answers 404 and the     *)
(* second goes on with the account as it was spelled.                      *)

\* Mutant of Lookup: the account is looked up as it was spelled.
LookupAsSpelled(p) ==
    /\ req[p].pc = "idle"
    /\ \E r \in Raw : Go(p, New("find", NoUser, <<r>>))

Lookup(p) ==
    /\ req[p].pc = "idle"
    /\ \E r \in Raw :
          Go(p, New("find", NoUser, <<Lower[r]>>))

FindMapping(p) ==
    LET r == req[p] IN
    /\ r.pc = "find"
    /\ \E u \in Found(r.given[1]) : Go(p, New("list", u, r.given))

FindNothing(p) ==
    LET r == req[p] IN
    /\ r.pc = "find"
    /\ Absent(r.given[1])
    /\ Go(p, At(r, "answered", 1))

\* get_user_accounts, when the document exists.
ListAccounts(p) ==
    LET r == req[p] IN
    /\ r.pc = "list"
    /\ r.user \in created
    /\ Go(p, Holding(At(r, "answered", 1), accounts[r.user]))

Answer(p) ==
    /\ req[p].pc = "answered"
    /\ Go(p, Idle)

\* An await returned an error that ends the request, the client closed the
\* connection, or the process died.  A write whose reply was lost is a write
\* followed by this step.
Interrupt(p) ==
    /\ Interrupts
    /\ req[p].pc # "idle"
    /\ Go(p, Idle)

-----------------------------------------------------------------------------
RegisterStep(p) ==
    \/ Register(p) \/ CheckFree(p) \/ CheckTaken(p) \/ CheckDone(p)
    \/ CreateUser(p)

AddStep(p) ==
    \/ Add(p) \/ ReadUser(p) \/ CollectFree(p) \/ CollectTaken(p)
    \/ CollectDone(p) \/ UpdateUser(p)

CommonStep(p) ==
    CreateMapping(p) \/ Acknowledge(p) \/ UserNotFound(p) \/ Interrupt(p)

LookupStep(p) ==
    \/ Lookup(p) \/ FindMapping(p) \/ FindNothing(p) \/ ListAccounts(p)
    \/ Answer(p)

Next ==
    \E p \in Procs :
        RegisterStep(p) \/ AddStep(p) \/ CommonStep(p) \/ LookupStep(p)

Spec == Init /\ [][Next]_vars

-----------------------------------------------------------------------------
(* Properties of every run, however requests interleave and fail. *)

\* A mapping names a user whose document exists, so a lookup that found one
\* never ends in "User not found".
MappingsReferToUsers == \A m \in mappings : m[2] \in created

\* A mapped account is in its user's array, and so is every account that was
\* acknowledged, unless two add requests for that user overlapped and the
\* later write put back an old copy.  Nothing else loses an account:
\* not register, not an error or a crash between any two steps.
MappedIsListed ==
    \A m \in mappings \cup acked :
        m \in mappings /\ (m[2] \notin raced => m[1] \in Range(accounts[m[2]]))

-----------------------------------------------------------------------------
(* Properties of one request at a time. *)

\* An account is mapped to one user, as the error "Account already mapped to
\* a user" (service.rs:160 and :218) says.
OneUserPerAccount ==
    \A m, n \in mappings : Lower[m[1]] = Lower[n[1]] => m[2] = n[2]

\* Requests one at a time, each free to fail anywhere, implement the registry.
Registry == INSTANCE AccountRegistry WITH
    Accounts  <- Addr,
    portfolio <- [u \in Users |-> Range(accounts[u])],
    owners    <- [a \in Addr |-> Found(a)]

Refinement == Registry!Spec

\* A lookup of an acknowledged account, in any spelling, finds its user and
\* an array that lists it, whatever requests were cut short since.
LookupComplete ==
    \A p \in Procs :
        LET r == req[p] IN
        r.pc = "answered" =>
            \A u \in Users :
                LET account == Lower[r.given[1]] IN
                <<account, u>> \in acked
                => r.user = u /\ account \in Range(r.doc)
=============================================================================
