---------------------- MODULE AccountAggregation_proofs ---------------------
(***************************************************************************)
(* Proofs about AccountAggregation, for any number of clients, accounts    *)
(* and users, with failures and interruptions anywhere.                    *)
(***************************************************************************)
EXTENDS AccountAggregation, TLAPS

-----------------------------------------------------------------------------
(* The inductive invariant: where a request stands determines what it may  *)
(* assume of the databases.                                                *)

\* The id a registration has drawn is unused and no other request holds it.
FreshId(p) ==
    req[p].pc \in {"check", "create"}
    => /\ req[p].user \in Users \ created
       /\ \A q \in Procs \ {p} : req[q].user # req[p].user

HasDocument(p) ==
    req[p].pc \in {"collect", "update", "map"} => req[p].user \in created

\* The index is back at the first account before anything is written.
Rewound(p) == req[p].pc \in {"create", "update"} => req[p].i = 1

\* A request that creates mappings has its accounts in the user's array,
\* unless another request wrote that array from an old copy ...
Listed(p) ==
    req[p].pc = "map" /\ req[p].user \notin raced
    => Range(req[p].given) \subseteq Range(accounts[req[p].user])

\* ... and has created the mappings it has passed.
Mapped(p) ==
    req[p].pc = "map" =>
        \A k \in DOMAIN req[p].given :
            k < req[p].i => <<req[p].given[k], req[p].user>> \in mappings

Stage(p) ==
    FreshId(p) /\ HasDocument(p) /\ Rewound(p) /\ Listed(p) /\ Mapped(p)

ReqOK == \A p \in Procs : Stage(p)

Inv == TypeOK /\ MappingsReferToUsers /\ MappedIsListed /\ ReqOK

-----------------------------------------------------------------------------
(* Lemmas about the data. *)

LEMMA LowerAddr ==
    ASSUME NEW payload \in Payloads
    PROVE  Lowered(payload) \in Seq(Addr)
BY AccountAssumption DEF AccountAssumption, Lowered, Addr

LEMMA RangeConcat ==
    ASSUME NEW S, NEW x \in Seq(S), NEW y \in Seq(S)
    PROVE  Range(x \o y) = Range(x) \cup Range(y)
<1>1. ASSUME NEW k \in DOMAIN x
      PROVE  x[k] \in Range(x \o y)
    <2>1. k \in DOMAIN (x \o y) /\ (x \o y)[k] = x[k]
        OBVIOUS
    <2> QED BY <2>1 DEF Range
<1>2. ASSUME NEW k \in DOMAIN y
      PROVE  y[k] \in Range(x \o y)
    <2>1. /\ Len(x) + k \in DOMAIN (x \o y)
          /\ (x \o y)[Len(x) + k] = y[k]
        OBVIOUS
    <2> QED BY <2>1 DEF Range
<1>3. ASSUME NEW k \in DOMAIN (x \o y)
      PROVE  (x \o y)[k] \in Range(x) \cup Range(y)
    <2>1. CASE k <= Len(x)
        BY <2>1 DEF Range
    <2>2. CASE k > Len(x)
        <3>1. /\ k - Len(x) \in DOMAIN y
              /\ (x \o y)[k] = y[k - Len(x)]
            BY <2>2
        <3> QED BY <3>1 DEF Range
    <2> QED BY <2>1, <2>2
<1> QED BY <1>1, <1>2, <1>3 DEF Range

LEMMA RangeSeq ==
    ASSUME NEW S, NEW x \in Seq(S)
    PROVE  Range(x) \subseteq S
BY DEF Range

LEMMA IdleType ==
    Idle \in Requests /\ Idle.pc = "idle" /\ Idle.user = NoUser
BY DEF Idle, New, Requests

LEMMA ReqType ==
    ASSUME TypeOK, NEW p \in Procs, NEW r \in Requests,
           req' = [req EXCEPT ![p] = r]
    PROVE  req' \in [Procs -> Requests]
BY DEF TypeOK

LEMMA GoType ==
    ASSUME TypeOK, NEW p \in Procs, NEW r \in Requests, Go(p, r)
    PROVE  TypeOK'
BY ReqType DEF TypeOK, Go

-----------------------------------------------------------------------------
(* Most steps only move one request to a stage that promises little. *)

LEMMA QuietStep ==
    ASSUME Inv, NEW p \in Procs, NEW r,
           req' = [req EXCEPT ![p] = r],
           UNCHANGED <<created, accounts, mappings, acked, raced>>,
           TypeOK',
           r.pc \notin {"check", "create", "map"},
           r.pc \in {"collect", "update"} => r.user \in created,
           r.pc = "update" => r.i = 1,
           r.user = req[p].user \/ r.user \in created \cup {NoUser}
    PROVE  Inv'
<1> USE DEF Inv, TypeOK
<1>1. req'[p] = r /\ \A q \in Procs \ {p} : req'[q] = req[q]
    OBVIOUS
<1>2. MappingsReferToUsers' /\ MappedIsListed'
    BY DEF MappingsReferToUsers, MappedIsListed
<1>3. ASSUME NEW q \in Procs
      PROVE  Stage(q)'
    <2>1. Stage(q)
        BY DEF ReqOK
    <2>2. CASE q = p
        BY <1>1, <2>2 DEF Stage, FreshId, HasDocument, Rewound, Listed, Mapped
    <2>3. CASE q # p
        <3>1. req'[q] = req[q]
            BY <1>1, <2>3
        <3>2. FreshId(q)'
            BY <1>1, <2>1, <2>3, <3>1, AccountAssumption
               DEF Stage, FreshId, AccountAssumption
        <3> QED BY <2>1, <3>1, <3>2
                DEF Stage, HasDocument, Rewound, Listed, Mapped
    <2> QED BY <2>2, <2>3
<1> QED BY <1>2, <1>3 DEF ReqOK

-----------------------------------------------------------------------------
(* One lemma per group of actions. *)

\* The requests other than p, when p changes nothing but itself and the
\* history variables.
LEMMA OthersKept ==
    ASSUME Inv, NEW p \in Procs, NEW q \in Procs \ {p}, NEW r,
           req' = [req EXCEPT ![p] = r],
           UNCHANGED <<created, accounts, mappings, raced>>,
           r.user = req[p].user \/ r.user \in created \cup {NoUser}
    PROVE  Stage(q)'
<1>1. req'[p].user = r.user /\ \A z \in Procs \ {p} : req'[z] = req[z]
    BY DEF Inv, TypeOK
<1>2. Stage(q)
    BY DEF Inv, ReqOK
<1>3. FreshId(q)'
    BY <1>1, <1>2, AccountAssumption DEF Stage, FreshId, AccountAssumption
<1> QED BY <1>1, <1>2, <1>3 DEF Stage, HasDocument, Rewound, Listed, Mapped

LEMMA RegisterInv ==
    ASSUME Inv, NEW p \in Procs, RegisterStep(p)
    PROVE  Inv'
<1> USE DEF Inv
<1> DEFINE r == req[p]
<1>0. r \in Requests
    BY DEF TypeOK
<1>1. CASE Register(p)
    <2>1. PICK u \in Users \ (created \cup {req[q].user : q \in Procs}),
               payload \in Payloads :
             req' = [req EXCEPT ![p] = New("check", u, Lowered(payload))]
        BY <1>1 DEF Register
    <2> DEFINE n == New("check", u, Lowered(payload))
    <2>2. n \in Requests /\ n.pc = "check" /\ n.user = u
        BY LowerAddr DEF New, Requests
    <2> HIDE DEF n
    <2>3. req'[p] = n /\ \A q \in Procs \ {p} : req'[q] = req[q]
        BY <2>1 DEF TypeOK, n
    <2>4. TypeOK'
        <3>1. sent' \in 0 .. MaxRequests
            BY <1>1, AccountAssumption
               DEF Register, TypeOK, AccountAssumption
        <3>2. req' = [req EXCEPT ![p] = n]
            BY <2>1 DEF n
        <3> QED BY <1>1, <2>2, <3>1, <3>2, ReqType DEF Register, TypeOK
    <2>5. MappingsReferToUsers' /\ MappedIsListed'
        BY <1>1 DEF Register, MappingsReferToUsers, MappedIsListed
    <2>6. ASSUME NEW q \in Procs
          PROVE  Stage(q)'
        <3>1. Stage(q)
            BY DEF ReqOK
        <3>2. CASE q = p
            BY <1>1, <2>2, <2>3, <3>2
               DEF Register, Stage, FreshId, HasDocument, Rewound, Listed,
                   Mapped
        <3>3. CASE q # p
            BY <1>1, <2>2, <2>3, <3>1, <3>3
               DEF Register, Stage, FreshId, HasDocument, Rewound, Listed,
                   Mapped
        <3> QED BY <3>2, <3>3
    <2> QED BY <2>4, <2>5, <2>6 DEF ReqOK
<1>2. CASE CheckFree(p) \/ CheckDone(p)
    <2>1. PICK k \in Nat \ {0}, pc \in {"check", "create"} :
             Go(p, At(r, pc, k)) /\ (pc = "create" => k = 1)
        BY <1>0, <1>2 DEF CheckFree, CheckDone, Requests
    <2> DEFINE n == At(r, pc, k)
    <2>2. /\ n \in Requests /\ n.pc = pc /\ n.i = k
          /\ n.user = r.user
        BY <1>0 DEF At, Requests
    <2> HIDE DEF n
    <2>3. Go(p, n)
        BY <2>1 DEF n
    <2>4. TypeOK'
        BY <2>2, <2>3, GoType
    <2>5. MappingsReferToUsers' /\ MappedIsListed'
        BY <2>3 DEF Go, MappingsReferToUsers, MappedIsListed
    <2>6. Stage(p)'
        <3>1. r.pc = "check" /\ Stage(p)
            BY <1>2 DEF CheckFree, CheckDone, ReqOK
        <3>2. req'[p] = n /\ \A q \in Procs \ {p} : req'[q] = req[q]
            BY <2>3 DEF Go, TypeOK
        <3> QED BY <2>1, <2>2, <2>3, <3>1, <3>2
                DEF Go, Stage, FreshId, HasDocument, Rewound, Listed, Mapped
    <2>7. \A q \in Procs \ {p} : Stage(q)'
        BY <2>2, <2>3, OthersKept DEF Go
    <2> QED BY <2>4, <2>5, <2>6, <2>7 DEF ReqOK
<1>3. CASE CheckTaken(p)
    <2>1. Go(p, Idle)
        BY <1>3 DEF CheckTaken
    <2>2. TypeOK'
        BY <2>1, IdleType, GoType
    <2> QED BY <2>1, <2>2, QuietStep, IdleType DEF Go
<1>4. CASE CreateUser(p)
    <2>1. /\ r.pc = "create" /\ r.user \in Users \ created
          /\ \A q \in Procs \ {p} : req[q].user # r.user
        BY <1>4 DEF CreateUser, ReqOK, Stage, FreshId
    <2>2. r.i = 1
        BY <2>1 DEF ReqOK, Stage, Rewound
    <2> DEFINE n == At(r, "map", 1)
    <2>3. /\ n \in Requests /\ n.pc = "map" /\ n.i = 1
          /\ n.user = r.user /\ n.given = r.given
        BY <1>0 DEF At, Requests
    <2> HIDE DEF n
    <2>4. req' = [req EXCEPT ![p] = n]
        BY <1>4, <2>2 DEF CreateUser, n
    <2>5. req'[p] = n /\ \A q \in Procs \ {p} : req'[q] = req[q]
        BY <2>4 DEF TypeOK
    <2>6. /\ created' = created \cup {r.user}
          /\ accounts'[r.user] = r.given
          /\ \A u \in Users \ {r.user} : accounts'[u] = accounts[u]
          /\ UNCHANGED <<mappings, sent, acked, raced>>
        BY <1>4, <2>1 DEF CreateUser, TypeOK
    <2>7. TypeOK'
        <3>1. r.given \in Seq(Addr)
            BY <1>0 DEF Requests
        <3>2. req' \in [Procs -> Requests]
            BY <2>3, <2>4, ReqType
        <3> QED BY <1>4, <2>1, <3>1, <3>2 DEF CreateUser, TypeOK
    <2>8. MappingsReferToUsers'
        BY <2>6 DEF MappingsReferToUsers
    <2>9. MappedIsListed'
        <3>1. \A m \in mappings : m[2] \in Users \ {r.user}
            BY <2>1 DEF MappingsReferToUsers, TypeOK
        <3>2. \A m \in mappings : accounts'[m[2]] = accounts[m[2]]
            BY <2>6, <3>1
        <3> QED BY <2>6, <3>2 DEF MappedIsListed
    <2>10. Stage(p)'
        <3>1. \A k \in DOMAIN n.given : ~(k < 1)
            BY <2>3 DEF Requests
        <3> QED BY <2>3, <2>5, <2>6, <3>1
                DEF Stage, FreshId, HasDocument, Rewound, Listed, Mapped
    <2>11. ASSUME NEW q \in Procs \ {p}
           PROVE  Stage(q)'
        <3>1. Stage(q) /\ req[q].user # r.user /\ req'[q] = req[q]
            BY <2>1, <2>5 DEF ReqOK
        <3>2. FreshId(q)'
            BY <2>3, <2>5, <2>6, <3>1 DEF Stage, FreshId
        <3>3. HasDocument(q)' /\ Rewound(q)' /\ Mapped(q)'
            BY <2>6, <3>1 DEF Stage, HasDocument, Rewound, Mapped
        <3>4. Listed(q)'
            <4>1. req[q].pc = "map" => req[q].user \in Users \ {r.user}
                BY <3>1 DEF Stage, HasDocument, TypeOK
            <4> QED BY <2>6, <3>1, <4>1 DEF Stage, Listed
        <3> QED BY <3>2, <3>3, <3>4 DEF Stage
    <2> QED BY <2>7, <2>8, <2>9, <2>10, <2>11 DEF ReqOK
<1> QED BY <1>1, <1>2, <1>3, <1>4 DEF RegisterStep

LEMMA AddInv ==
    ASSUME Inv, NEW p \in Procs, AddStep(p)
    PROVE  Inv'
<1> USE DEF Inv
<1> DEFINE r == req[p]
<1>0. /\ r \in Requests /\ Stage(p)
      /\ r.given \in Seq(Addr) /\ r.doc \in Seq(Addr) /\ r.i \in Nat \ {0}
    BY DEF TypeOK, ReqOK, Requests
<1>1. CASE Add(p)
    <2>1. PICK u \in Known \cup {NoUser}, payload \in Payloads :
             req' = [req EXCEPT ![p] = New("read", u, Lowered(payload))]
        BY <1>1 DEF Add
    <2> DEFINE n == New("read", u, Lowered(payload))
    <2>2. u \in created \cup {NoUser}
        BY DEF Known, MappingsReferToUsers
    <2>3. n \in Requests /\ n.pc = "read" /\ n.user = u
        BY <2>2, LowerAddr DEF New, Requests, TypeOK
    <2> HIDE DEF n
    <2>4. req' = [req EXCEPT ![p] = n]
        BY <2>1 DEF n
    <2>5. TypeOK'
        <3>1. sent' \in 0 .. MaxRequests
            BY <1>1, AccountAssumption DEF Add, TypeOK, AccountAssumption
        <3> QED BY <1>1, <2>3, <2>4, <3>1, ReqType DEF Add, TypeOK
    <2> QED BY <1>1, <2>2, <2>3, <2>4, <2>5, QuietStep DEF Add
<1>2. CASE ReadUser(p) \/ CollectFree(p)
    <2>1. PICK k \in Nat \ {0}, d \in Seq(Addr) :
             Go(p, Holding(At(r, "collect", k), d))
        <3>1. CASE ReadUser(p)
            BY <3>1 DEF ReadUser, TypeOK
        <3>2. CASE CollectFree(p)
            <4>1. /\ Append(r.doc, r.given[r.i]) \in Seq(Addr)
                  /\ r.i + 1 \in Nat \ {0}
                BY <1>0, <3>2 DEF CollectFree
            <4> QED BY <3>2, <4>1 DEF CollectFree
        <3> QED BY <1>2, <3>1, <3>2
    <2> DEFINE n == Holding(At(r, "collect", k), d)
    <2>2. n \in Requests /\ n.pc = "collect" /\ n.user = r.user
        BY <1>0 DEF At, Holding, Requests
    <2> HIDE DEF n
    <2>3. Go(p, n)
        BY <2>1 DEF n
    <2>4. r.user \in created
        BY <1>0, <1>2 DEF ReadUser, CollectFree, Stage, HasDocument
    <2>5. TypeOK'
        BY <2>2, <2>3, GoType
    <2> QED BY <2>2, <2>3, <2>4, <2>5, QuietStep DEF Go
<1>3. CASE CollectTaken(p)
    <2>1. Go(p, Idle)
        BY <1>3 DEF CollectTaken
    <2>2. TypeOK'
        BY <2>1, IdleType, GoType
    <2> QED BY <2>1, <2>2, QuietStep, IdleType DEF Go
<1>4. CASE CollectDone(p)
    <2> DEFINE n == At(r, "update", 1)
    <2>1. n \in Requests /\ n.pc = "update" /\ n.i = 1 /\ n.user = r.user
        BY <1>0 DEF At, Requests
    <2> HIDE DEF n
    <2>2. Go(p, n)
        BY <1>4 DEF CollectDone, n
    <2>3. r.user \in created
        BY <1>0, <1>4 DEF CollectDone, Stage, HasDocument
    <2>4. TypeOK'
        BY <2>1, <2>2, GoType
    <2> QED BY <2>1, <2>2, <2>3, <2>4, QuietStep DEF Go
<1>5. CASE UpdateUser(p)
    <2>1. r.pc = "update" /\ r.i = 1 /\ r.user \in created
        BY <1>0, <1>5 DEF UpdateUser, Stage, HasDocument, Rewound
    <2> DEFINE n == At(r, "map", 1)
    <2>2. /\ n \in Requests /\ n.pc = "map" /\ n.i = 1
          /\ n.user = r.user /\ n.given = r.given
        BY <1>0 DEF At, Requests
    <2> HIDE DEF n
    <2>3. req' = [req EXCEPT ![p] = n]
        BY <1>5, <2>1 DEF UpdateUser, n
    <2>4. req'[p] = n /\ \A q \in Procs \ {p} : req'[q] = req[q]
        BY <2>3 DEF TypeOK
    <2>5. /\ accounts'[r.user] = r.doc
          /\ \A u \in Users \ {r.user} : accounts'[u] = accounts[u]
          /\ UNCHANGED <<created, mappings, sent, acked>>
          /\ raced \subseteq raced'
        BY <1>5, <2>1 DEF UpdateUser, TypeOK
    <2>6. r.user \notin raced'
          => Range(r.doc) = Range(accounts[r.user]) \cup Range(r.given)
        <3>1. r.user \notin raced' => r.doc = accounts[r.user] \o r.given
            BY <1>5 DEF UpdateUser
        <3>2. accounts[r.user] \in Seq(Addr)
            BY <2>1 DEF TypeOK
        <3>3. Range(accounts[r.user] \o r.given)
              = Range(accounts[r.user]) \cup Range(r.given)
            BY <1>0, <3>2, RangeConcat
        <3> QED BY <3>1, <3>3
    <2>7. \A u \in Users :
             u \notin raced'
             => Range(accounts[u]) \subseteq Range(accounts'[u])
        BY <2>5, <2>6
    <2>8. TypeOK'
        <3>1. req' \in [Procs -> Requests]
            BY <2>2, <2>3, ReqType
        <3> QED BY <1>0, <1>5, <2>1, <3>1 DEF UpdateUser, TypeOK
    <2>9. MappingsReferToUsers'
        BY <2>5 DEF MappingsReferToUsers
    <2>10. MappedIsListed'
        <3>1. \A m \in mappings \cup acked : m[2] \in Users
            BY DEF TypeOK
        <3> QED BY <2>5, <2>7, <3>1 DEF MappedIsListed
    <2>11. Stage(p)'
        <3>1. \A k \in DOMAIN n.given : ~(k < 1)
            BY <2>2 DEF Requests
        <3>2. Listed(p)'
            BY <2>2, <2>4, <2>5, <2>6 DEF Listed
        <3> QED BY <2>1, <2>2, <2>4, <2>5, <3>1, <3>2
                DEF Stage, FreshId, HasDocument, Rewound, Mapped
    <2>12. ASSUME NEW q \in Procs \ {p}
           PROVE  Stage(q)'
        <3>1. Stage(q) /\ req'[q] = req[q]
            BY <2>4 DEF ReqOK
        <3>2. FreshId(q)'
            BY <2>1, <2>2, <2>4, <2>5, <3>1 DEF Stage, FreshId
        <3>3. HasDocument(q)' /\ Rewound(q)' /\ Mapped(q)'
            BY <2>5, <3>1 DEF Stage, HasDocument, Rewound, Mapped
        <3>4. Listed(q)'
            <4>1. req[q].pc = "map" => req[q].user \in Users
                BY <3>1 DEF Stage, HasDocument, TypeOK
            <4> QED BY <2>5, <2>7, <3>1, <4>1 DEF Stage, Listed
        <3> QED BY <3>2, <3>3, <3>4 DEF Stage
    <2> QED BY <2>8, <2>9, <2>10, <2>11, <2>12 DEF ReqOK
<1> QED BY <1>1, <1>2, <1>3, <1>4, <1>5 DEF AddStep

LEMMA CommonInv ==
    ASSUME Inv, NEW p \in Procs, CommonStep(p)
    PROVE  Inv'
<1> USE DEF Inv
<1> DEFINE r == req[p]
<1>0. /\ r \in Requests /\ Stage(p)
      /\ r.given \in Seq(Addr) /\ r.i \in Nat \ {0}
    BY DEF TypeOK, ReqOK, Requests
<1>1. CASE CreateMapping(p)
    <2>1. /\ r.pc = "map" /\ r.i \in DOMAIN r.given /\ r.user \in created
          /\ r.given[r.i] \in Addr /\ r.given[r.i] \in Range(r.given)
        BY <1>0, <1>1 DEF CreateMapping, Stage, HasDocument, Range
    <2> DEFINE n == At(r, "map", r.i + 1)
               m == <<r.given[r.i], r.user>>
    <2>2. /\ n \in Requests /\ n.pc = "map" /\ n.i = r.i + 1
          /\ n.user = r.user /\ n.given = r.given
        BY <1>0 DEF At, Requests
    <2> HIDE DEF n
    <2>3. req' = [req EXCEPT ![p] = n]
        BY <1>1 DEF CreateMapping, n
    <2>4. req'[p] = n /\ \A q \in Procs \ {p} : req'[q] = req[q]
        BY <2>3 DEF TypeOK
    <2>5. /\ mappings' = mappings \cup {m}
          /\ UNCHANGED <<created, accounts, sent, acked, raced>>
        BY <1>1 DEF CreateMapping
    <2>6. TypeOK'
        <3>1. req' \in [Procs -> Requests]
            BY <2>2, <2>3, ReqType
        <3> QED BY <2>1, <2>5, <3>1 DEF TypeOK
    <2>7. MappingsReferToUsers'
        BY <2>1, <2>5 DEF MappingsReferToUsers
    <2>8. MappedIsListed'
        <3>1. r.user \notin raced => r.given[r.i] \in Range(accounts[r.user])
            BY <1>0, <2>1 DEF Stage, Listed
        <3> QED BY <2>5, <3>1 DEF MappedIsListed
    <2>9. Stage(p)'
        <3>1. Mapped(p)'
            <4>1. \A k \in DOMAIN r.given :
                     k < r.i + 1 => k < r.i \/ k = r.i
                BY <1>0
            <4>2. \A k \in DOMAIN r.given :
                     k < r.i => <<r.given[k], r.user>> \in mappings
                BY <1>0, <2>1 DEF Stage, Mapped
            <4>3. \A k \in DOMAIN r.given :
                     k < r.i + 1 => <<r.given[k], r.user>> \in mappings'
                BY <2>5, <4>1, <4>2
            <4> QED BY <2>2, <2>4, <4>3 DEF Mapped
        <3> QED BY <1>0, <2>1, <2>2, <2>4, <2>5, <3>1
                DEF Stage, FreshId, HasDocument, Rewound, Listed
    <2>10. ASSUME NEW q \in Procs \ {p}
           PROVE  Stage(q)'
        <3>1. Stage(q) /\ req'[q] = req[q]
            BY <2>4 DEF ReqOK
        <3>2. FreshId(q)'
            BY <2>2, <2>4, <2>5, <3>1 DEF Stage, FreshId
        <3> QED BY <2>5, <3>1, <3>2
                DEF Stage, HasDocument, Rewound, Listed, Mapped
    <2> QED BY <2>6, <2>7, <2>8, <2>9, <2>10 DEF ReqOK
<1>2. CASE Acknowledge(p)
    <2> DEFINE new == {<<a, r.user>> : a \in Range(r.given)}
    <2>1. /\ r.pc = "map" /\ r.i > Len(r.given) /\ r.user \in created
        BY <1>0, <1>2 DEF Acknowledge, Stage, HasDocument
    <2>2. /\ acked' = acked \cup new
          /\ req' = [req EXCEPT ![p] = Idle]
          /\ UNCHANGED <<created, accounts, mappings, sent, raced>>
        BY <1>2 DEF Acknowledge
    <2>3. new \subseteq mappings
        <3>1. \A k \in DOMAIN r.given : <<r.given[k], r.user>> \in mappings
            <4>1. \A k \in DOMAIN r.given : k < r.i
                BY <1>0, <2>1
            <4> QED BY <1>0, <2>1, <4>1 DEF Stage, Mapped
        <3> QED BY <3>1 DEF Range
    <2>4. TypeOK'
        <3>1. req' \in [Procs -> Requests]
            BY <2>2, IdleType, ReqType
        <3> QED BY <2>2, <2>3, <3>1 DEF TypeOK
    <2>5. MappingsReferToUsers' /\ MappedIsListed'
        BY <2>2, <2>3 DEF MappingsReferToUsers, MappedIsListed
    <2>6. Stage(p)'
        BY <2>2, IdleType
           DEF TypeOK, Stage, FreshId, HasDocument, Rewound, Listed, Mapped
    <2>7. \A q \in Procs \ {p} : Stage(q)'
        BY <2>2, IdleType, OthersKept
    <2> QED BY <2>4, <2>5, <2>6, <2>7 DEF ReqOK
<1>3. CASE UserNotFound(p) \/ Interrupt(p)
    <2>1. Go(p, Idle)
        BY <1>3 DEF UserNotFound, Interrupt
    <2>2. TypeOK'
        BY <2>1, IdleType, GoType
    <2> QED BY <2>1, <2>2, QuietStep, IdleType DEF Go
<1> QED BY <1>1, <1>2, <1>3 DEF CommonStep

LEMMA LookupInv ==
    ASSUME Inv, NEW p \in Procs, LookupStep(p)
    PROVE  Inv'
<1> USE DEF Inv
<1> DEFINE r == req[p]
<1>0. r \in Requests /\ r.given \in Seq(Addr)
    BY DEF TypeOK, Requests
<1>1. SUFFICES \E n \in Requests :
                   /\ Go(p, n)
                   /\ n.pc \in {"idle", "find", "list", "answered"}
                   /\ n.user = r.user \/ n.user \in created \cup {NoUser}
    BY QuietStep, GoType DEF Go
<1>2. CASE Lookup(p)
    <2>1. PICK x \in Raw : Go(p, New("find", NoUser, <<Lower[x]>>))
        BY <1>2 DEF Lookup
    <2>2. Lower[x] \in Addr
        BY DEF Addr
    <2>3. /\ New("find", NoUser, <<Lower[x]>>) \in Requests
          /\ New("find", NoUser, <<Lower[x]>>).pc = "find"
          /\ New("find", NoUser, <<Lower[x]>>).user = NoUser
        BY <2>2 DEF New, Requests
    <2> QED BY <2>1, <2>3
<1>3. CASE FindMapping(p)
    <2>1. PICK u \in Found(r.given[1]) : Go(p, New("list", u, r.given))
        BY <1>3 DEF FindMapping
    <2>2. u \in created /\ u \in Users
        BY DEF Found, MappingsReferToUsers
    <2>3. /\ New("list", u, r.given) \in Requests
          /\ New("list", u, r.given).pc = "list"
          /\ New("list", u, r.given).user = u
        BY <1>0, <2>2 DEF New, Requests
    <2> QED BY <2>1, <2>2, <2>3
<1>4. CASE FindNothing(p)
    <2>1. /\ At(r, "answered", 1) \in Requests
          /\ At(r, "answered", 1).pc = "answered"
          /\ At(r, "answered", 1).user = r.user
        BY <1>0 DEF At, Requests
    <2> QED BY <1>4, <2>1 DEF FindNothing
<1>5. CASE ListAccounts(p)
    <2> DEFINE n == Holding(At(r, "answered", 1), accounts[r.user])
    <2>1. accounts[r.user] \in Seq(Addr)
        BY <1>5 DEF ListAccounts, TypeOK
    <2>2. n \in Requests /\ n.pc = "answered" /\ n.user = r.user
        BY <1>0, <2>1 DEF At, Holding, Requests
    <2> QED BY <1>5, <2>2 DEF ListAccounts
<1>6. CASE Answer(p)
    BY <1>6, IdleType DEF Answer
<1> QED BY <1>2, <1>3, <1>4, <1>5, <1>6 DEF LookupStep

-----------------------------------------------------------------------------
(* Theorems. *)

LEMMA InitInv == Init => Inv
<1> SUFFICES ASSUME Init
             PROVE  Inv
    OBVIOUS
<1>1. TypeOK
    BY IdleType, AccountAssumption DEF Init, TypeOK, AccountAssumption
<1>2. MappingsReferToUsers /\ MappedIsListed
    BY DEF Init, MappingsReferToUsers, MappedIsListed
<1>3. ReqOK
    BY IdleType
       DEF Init, ReqOK, Stage, FreshId, HasDocument, Rewound, Listed, Mapped
<1> QED BY <1>1, <1>2, <1>3 DEF Inv

LEMMA StepInv == Inv /\ [Next]_vars => Inv'
<1>1. ASSUME Inv, UNCHANGED vars
      PROVE  Inv'
    BY <1>1
       DEF vars, Inv, TypeOK, MappingsReferToUsers, MappedIsListed, ReqOK,
           Stage, FreshId, HasDocument, Rewound, Listed, Mapped
<1> QED BY <1>1, RegisterInv, AddInv, CommonInv, LookupInv DEF Next

LEMMA Invariant == Spec => []Inv
BY InitInv, StepInv, PTL DEF Spec

\* Documents, mappings and requests keep their types.
THEOREM TypeCorrect == Spec => []TypeOK
<1>1. Inv => TypeOK
    BY DEF Inv
<1> QED BY Invariant, <1>1, PTL

\* However requests interleave and wherever they are cut short, no mapping
\* ever names a user without a document.
THEOREM NoDanglingMapping == Spec => []MappingsReferToUsers
<1>1. Inv => MappingsReferToUsers
    BY DEF Inv
<1> QED BY Invariant, <1>1, PTL

\* The only way a mapped or acknowledged account goes missing from its user's
\* array is two overlapping add requests for that user.
THEOREM OnlyOverlapLosesAccounts == Spec => []MappedIsListed
<1>1. Inv => MappedIsListed
    BY DEF Inv
<1> QED BY Invariant, <1>1, PTL

-----------------------------------------------------------------------------
(***************************************************************************)
(* When requests come one at a time and lookups do not fail, the account   *)
(* service implements AccountRegistry: it may be cut short anywhere, but   *)
(* no account is ever claimed twice and no portfolio ever shrinks.         *)
(***************************************************************************)

OneAtATime == (\A p, q \in Procs : p = q) /\ ~ReadsFail

-----------------------------------------------------------------------------
(* What a request has established on its way, when it is alone. *)

Unregistered == \A u \in Users \ created : accounts[u] = <<>>

\* The accounts it has checked have no owner ...
Free(p) ==
    LET r == req[p] IN
    /\ r.pc \in {"check", "collect"} =>
          \A k \in DOMAIN r.given : k < r.i => Found(r.given[k]) = {}
    /\ r.pc \in {"create", "update"} =>
          \A k \in DOMAIN r.given : Found(r.given[k]) = {}

\* ... and none but its own user once it creates mappings.
Owned(p) ==
    req[p].pc = "map" =>
        \A k \in DOMAIN req[p].given :
            Found(req[p].given[k]) \subseteq {req[p].user}

\* Its local copy of an array extends the one in the database ...
Extends(p) ==
    req[p].pc \in {"collect", "update"} =>
        Range(accounts[req[p].user]) \subseteq Range(req[p].doc)

\* ... by the accounts collected so far.
Collected(p) ==
    LET r == req[p] IN
    /\ r.pc = "collect" =>
          \A k \in DOMAIN r.given : k < r.i => r.given[k] \in Range(r.doc)
    /\ r.pc = "update" => Range(r.given) \subseteq Range(r.doc)

\* A request that creates mappings has its accounts in the user's array.
Enrolled(p) ==
    req[p].pc = "map" =>
        Range(req[p].given) \subseteq Range(accounts[req[p].user])

Alone(p) ==
    Free(p) /\ Owned(p) /\ Extends(p) /\ Collected(p) /\ Enrolled(p)

SerialInv == Inv /\ Unregistered /\ \A p \in Procs : Alone(p)

-----------------------------------------------------------------------------
LEMMA RangeAppend ==
    ASSUME NEW S, NEW x \in Seq(S), NEW e \in S
    PROVE  Range(Append(x, e)) = Range(x) \cup {e}
<1>1. \A k \in DOMAIN x : k \in DOMAIN Append(x, e) /\ Append(x, e)[k] = x[k]
    OBVIOUS
<1>2. /\ Len(x) + 1 \in DOMAIN Append(x, e)
      /\ Append(x, e)[Len(x) + 1] = e
    OBVIOUS
<1>3. \A k \in DOMAIN Append(x, e) : k \in DOMAIN x \/ k = Len(x) + 1
    OBVIOUS
<1> QED BY <1>1, <1>2, <1>3 DEF Range

\* A step that touches neither arrays nor mappings stutters in the registry.
LEMMA RegistryStutter ==
    ASSUME UNCHANGED <<accounts, mappings>>
    PROVE  UNCHANGED Registry!vars
BY DEF Registry!vars, Found

\* Growing one user's array is an Enrol step.
LEMMA RegistryEnrol ==
    ASSUME NEW u \in Users, NEW d \in Seq(Addr),
           TypeOK, Range(accounts[u]) \subseteq Range(d),
           accounts' = [accounts EXCEPT ![u] = d], UNCHANGED mappings
    PROVE  Registry!Next
<1> DEFINE P == [x \in Users |-> Range(accounts[x])]
<1>1. Range(d) \in SUBSET Addr
    BY RangeSeq
<1>2. P' = [P EXCEPT ![u] = @ \cup Range(d)]
    <2>1. \A x \in Users :
             P'[x] = IF x = u THEN P[x] \cup Range(d) ELSE P[x]
        BY DEF TypeOK
    <2> QED BY <2>1
<1>3. [a \in Addr |-> Found(a)]' = [a \in Addr |-> Found(a)]
    BY DEF Found
<1>4. Registry!Enrol(u)
    BY <1>1, <1>2, <1>3 DEF Registry!Enrol
<1> QED BY <1>4 DEF Registry!Next

\* A new mapping of an enrolled account without an owner is a Claim step.
LEMMA RegistryClaim ==
    ASSUME NEW u \in Users, NEW a \in Addr,
           a \in Range(accounts[u]), Found(a) = {},
           mappings' = mappings \cup {<<a, u>>}, UNCHANGED accounts
    PROVE  Registry!Next
<1> DEFINE O == [x \in Addr |-> Found(x)]
           P == [x \in Users |-> Range(accounts[x])]
<1>1. \A x \in Addr : Found(x)' = IF x = a THEN {u} ELSE Found(x)
    BY DEF Found
<1>2. O' = [O EXCEPT ![a] = {u}]
    BY <1>1
<1>3. P' = P
    OBVIOUS
<1>4. a \in P[u] /\ O[a] = {}
    OBVIOUS
<1>5. Registry!Claim(u, a)
    BY <1>2, <1>3, <1>4 DEF Registry!Claim
<1> QED BY <1>5 DEF Registry!Next

-----------------------------------------------------------------------------
LEMMA InitSerial == Init => SerialInv
BY InitInv, IdleType
   DEF Init, SerialInv, Unregistered, Alone, Free, Owned, Extends, Collected,
       Enrolled

\* What stays of SerialInv to be shown after a step that only moves p to r.
LEMMA MoveSerial ==
    ASSUME OneAtATime, SerialInv, NEW p \in Procs, NEW r,
           req' = [req EXCEPT ![p] = r],
           UNCHANGED <<created, accounts, mappings>>,
           r.pc \in {"idle", "read", "find", "list", "answered"}
    PROVE  /\ Unregistered' /\ \A q \in Procs : Alone(q)'
           /\ UNCHANGED Registry!vars
<1>1. req'[p] = r /\ \A q \in Procs : q = p
    BY DEF OneAtATime, SerialInv, Inv, TypeOK
<1>2. Unregistered'
    BY DEF SerialInv, Unregistered
<1>3. Alone(p)'
    BY <1>1 DEF Alone, Free, Owned, Extends, Collected, Enrolled
<1> QED BY <1>1, <1>2, <1>3, RegistryStutter

LEMMA RegisterSerial ==
    ASSUME OneAtATime, SerialInv, NEW p \in Procs, RegisterStep(p)
    PROVE  /\ Unregistered' /\ \A q \in Procs : Alone(q)'
           /\ [Registry!Next]_(Registry!vars)
<1> USE DEF OneAtATime, SerialInv
<1> DEFINE r == req[p]
<1>0. /\ \A q \in Procs : q = p
      /\ r \in Requests /\ r.given \in Seq(Addr) /\ r.i \in Nat \ {0}
      /\ Free(p) /\ Stage(p)
    BY DEF Inv, TypeOK, Requests, Alone, ReqOK
<1>1. CASE Register(p)
    <2>1. PICK u \in Users, payload \in Payloads :
             req' = [req EXCEPT ![p] = New("check", u, Lowered(payload))]
        BY <1>1 DEF Register
    <2>2. req'[p] = New("check", u, Lowered(payload))
        BY <2>1 DEF Inv, TypeOK
    <2>3. \A k \in DOMAIN Lowered(payload) : ~(k < 1)
        BY LowerAddr
    <2>4. Alone(p)'
        BY <2>2, <2>3
           DEF New, Alone, Free, Owned, Extends, Collected, Enrolled
    <2>5. Unregistered' /\ UNCHANGED <<accounts, mappings>>
        BY <1>1 DEF Register, Unregistered
    <2> QED BY <1>0, <2>4, <2>5, RegistryStutter
<1>2. CASE CheckFree(p)
    <2>1. req'[p] = At(r, "check", r.i + 1)
        BY <1>2 DEF CheckFree, Go, Inv, TypeOK
    <2>2. /\ r.pc = "check" /\ Found(r.given[r.i]) = {}
          /\ UNCHANGED <<created, accounts, mappings>>
        BY <1>2 DEF CheckFree, Go, Absent
    <2>3. \A k \in DOMAIN r.given : k < r.i + 1 => k < r.i \/ k = r.i
        BY <1>0
    <2>4. \A k \in DOMAIN r.given : k < r.i + 1 => Found(r.given[k]) = {}
        BY <1>0, <2>2, <2>3 DEF Free
    <2>5. \A a : Found(a)' = Found(a)
        BY <2>2 DEF Found
    <2>6. Alone(p)'
        BY <2>1, <2>4, <2>5
           DEF At, Alone, Free, Owned, Extends, Collected, Enrolled
    <2> QED BY <1>0, <2>2, <2>6, RegistryStutter DEF Unregistered
<1>3. CASE CheckTaken(p)
    BY <1>3, IdleType, MoveSerial DEF CheckTaken, Go
<1>4. CASE CheckDone(p)
    <2>1. req'[p] = At(r, "create", 1)
        BY <1>4 DEF CheckDone, Go, Inv, TypeOK
    <2>2. /\ r.pc = "check" /\ r.i > Len(r.given)
          /\ UNCHANGED <<created, accounts, mappings>>
        BY <1>4 DEF CheckDone, Go
    <2>3. \A k \in DOMAIN r.given : k < r.i
        BY <1>0, <2>2
    <2>4. \A k \in DOMAIN r.given : Found(r.given[k]) = {}
        BY <1>0, <2>2, <2>3 DEF Free
    <2>5. \A a : Found(a)' = Found(a)
        BY <2>2 DEF Found
    <2>6. Alone(p)'
        BY <2>1, <2>4, <2>5
           DEF At, Alone, Free, Owned, Extends, Collected, Enrolled
    <2>7. Unregistered'
        BY <2>2 DEF Unregistered
    <2> QED BY <1>0, <2>2, <2>6, <2>7, RegistryStutter
<1>5. CASE CreateUser(p)
    <2>1. /\ r.pc = "create" /\ r.user \in Users \ created
          /\ accounts[r.user] = <<>>
        BY <1>0, <1>5 DEF CreateUser, Stage, FreshId, Unregistered
    <2>2. /\ req'[p] = At(r, "map", r.i)
          /\ accounts' = [accounts EXCEPT ![r.user] = r.given]
          /\ accounts'[r.user] = r.given
          /\ created' = created \cup {r.user} /\ UNCHANGED mappings
        BY <1>5, <2>1 DEF CreateUser, Inv, TypeOK
    <2>3. /\ \A k \in DOMAIN r.given : Found(r.given[k]) = {}
          /\ \A a : Found(a)' = Found(a)
        BY <1>0, <2>1, <2>2 DEF Free, Found
    <2>4. Alone(p)'
        BY <2>2, <2>3
           DEF At, Alone, Free, Owned, Extends, Collected, Enrolled
    <2>5. Unregistered'
        BY <2>2 DEF Unregistered, Inv, TypeOK
    <2>6. Range(accounts[r.user]) \subseteq Range(r.given)
        BY <2>1 DEF Range
    <2>7. Registry!Next
        BY <1>0, <2>1, <2>2, <2>6, RegistryEnrol DEF Inv
    <2> QED BY <1>0, <2>4, <2>5, <2>7
<1> QED BY <1>1, <1>2, <1>3, <1>4, <1>5 DEF RegisterStep

LEMMA AddSerial ==
    ASSUME OneAtATime, SerialInv, NEW p \in Procs, AddStep(p)
    PROVE  /\ Unregistered' /\ \A q \in Procs : Alone(q)'
           /\ [Registry!Next]_(Registry!vars)
<1> USE DEF OneAtATime, SerialInv
<1> DEFINE r == req[p]
<1>0. /\ \A q \in Procs : q = p
      /\ r \in Requests /\ r.given \in Seq(Addr) /\ r.i \in Nat \ {0}
      /\ r.doc \in Seq(Addr)
      /\ Free(p) /\ Extends(p) /\ Collected(p) /\ Stage(p)
    BY DEF Inv, TypeOK, Requests, Alone, ReqOK
<1>1. CASE Add(p)
    <2>1. PICK u \in Known \cup {NoUser}, payload \in Payloads :
             req' = [req EXCEPT ![p] = New("read", u, Lowered(payload))]
        BY <1>1 DEF Add
    <2>2. New("read", u, Lowered(payload)).pc = "read"
        BY DEF New
    <2> QED BY <1>1, <2>1, <2>2, MoveSerial DEF Add
<1>2. CASE ReadUser(p)
    <2> DEFINE n == Holding(At(r, "collect", 1), accounts[r.user])
    <2>1. req'[p] = n
        BY <1>2 DEF ReadUser, Go, Inv, TypeOK
    <2>2. /\ n.pc = "collect" /\ n.i = 1 /\ n.given = r.given
          /\ n.user = r.user /\ n.doc = accounts[r.user]
        BY DEF Holding, At
    <2> HIDE DEF n
    <2>3. UNCHANGED <<created, accounts, mappings>>
        BY <1>2 DEF ReadUser, Go
    <2>4. \A k \in DOMAIN r.given : ~(k < 1)
        BY <1>0
    <2>5. Alone(p)'
        BY <2>1, <2>2, <2>3, <2>4
           DEF Alone, Free, Owned, Extends, Collected, Enrolled
    <2>6. Unregistered'
        BY <2>3 DEF Unregistered
    <2> QED BY <1>0, <2>3, <2>5, <2>6, RegistryStutter
<1>3. CASE CollectFree(p)
    <2> DEFINE e == r.given[r.i]
               n == Holding(At(r, "collect", r.i + 1), Append(r.doc, e))
    <2>1. req'[p] = n
        BY <1>3 DEF CollectFree, Go, Inv, TypeOK
    <2>2. /\ n.pc = "collect" /\ n.i = r.i + 1 /\ n.given = r.given
          /\ n.user = r.user /\ n.doc = Append(r.doc, e)
        BY DEF Holding, At
    <2>3. /\ r.pc = "collect" /\ Found(e) = {} /\ e \in Addr
          /\ UNCHANGED <<created, accounts, mappings>>
        BY <1>0, <1>3 DEF CollectFree, Go, Absent
    <2> HIDE DEF n
    <2>4. \A k \in DOMAIN r.given : k < r.i + 1 => k < r.i \/ k = r.i
        BY <1>0
    <2>5. \A k \in DOMAIN r.given : k < r.i + 1 => Found(r.given[k]) = {}
        BY <1>0, <2>3, <2>4 DEF Free
    <2>6. \A a : Found(a)' = Found(a)
        BY <2>3 DEF Found
    <2>7. Range(n.doc) = Range(r.doc) \cup {e}
        BY <1>0, <2>2, <2>3, RangeAppend
    <2>8. Free(p)' /\ Owned(p)' /\ Enrolled(p)'
        BY <2>1, <2>2, <2>5, <2>6 DEF Free, Owned, Enrolled
    <2>9. Extends(p)'
        BY <1>0, <2>1, <2>2, <2>3, <2>7 DEF Extends
    <2>10. Collected(p)'
        <3>1. \A k \in DOMAIN r.given :
                 k < r.i + 1 => r.given[k] \in Range(n.doc)
            BY <1>0, <2>3, <2>4, <2>7 DEF Collected
        <3> QED BY <2>1, <2>2, <3>1 DEF Collected
    <2>11. Unregistered'
        BY <2>3 DEF Unregistered
    <2> QED BY <1>0, <2>3, <2>8, <2>9, <2>10, <2>11, RegistryStutter
            DEF Alone
<1>4. CASE CollectTaken(p)
    BY <1>4, IdleType, MoveSerial DEF CollectTaken, Go
<1>5. CASE CollectDone(p)
    <2> DEFINE n == At(r, "update", 1)
    <2>1. req'[p] = n
        BY <1>5 DEF CollectDone, Go, Inv, TypeOK
    <2>2. /\ n.pc = "update" /\ n.given = r.given
          /\ n.user = r.user /\ n.doc = r.doc
        BY DEF At
    <2> HIDE DEF n
    <2>3. /\ r.pc = "collect" /\ r.i > Len(r.given)
          /\ UNCHANGED <<created, accounts, mappings>>
        BY <1>5 DEF CollectDone, Go
    <2>4. \A k \in DOMAIN r.given : k < r.i
        BY <1>0, <2>3
    <2>5. \A k \in DOMAIN r.given :
             Found(r.given[k]) = {} /\ r.given[k] \in Range(r.doc)
        BY <1>0, <2>3, <2>4 DEF Free, Collected
    <2>6. \A a : Found(a)' = Found(a)
        BY <2>3 DEF Found
    <2>7. Range(r.given) \subseteq Range(r.doc)
        BY <2>5 DEF Range
    <2>8. Free(p)' /\ Owned(p)' /\ Enrolled(p)'
        BY <2>1, <2>2, <2>5, <2>6 DEF Free, Owned, Enrolled
    <2>9. Extends(p)' /\ Collected(p)'
        BY <1>0, <2>1, <2>2, <2>3, <2>7 DEF Extends, Collected
    <2>10. Unregistered'
        BY <2>3 DEF Unregistered
    <2> QED BY <1>0, <2>3, <2>8, <2>9, <2>10, RegistryStutter DEF Alone
<1>6. CASE UpdateUser(p)
    <2> DEFINE n == At(r, "map", r.i)
    <2>1. req'[p] = n
        BY <1>6 DEF UpdateUser, Inv, TypeOK
    <2>2. n.pc = "map" /\ n.given = r.given /\ n.user = r.user
        BY DEF At
    <2> HIDE DEF n
    <2>3. r.pc = "update" /\ r.user \in created /\ r.user \in Users
        BY <1>0, <1>6 DEF UpdateUser, Stage, HasDocument, Inv, TypeOK
    <2>4. /\ accounts' = [accounts EXCEPT ![r.user] = r.doc]
          /\ accounts'[r.user] = r.doc
          /\ UNCHANGED <<created, mappings>>
        BY <1>6, <2>3 DEF UpdateUser, Inv, TypeOK
    <2>5. /\ \A k \in DOMAIN r.given : Found(r.given[k]) = {}
          /\ \A a : Found(a)' = Found(a)
        BY <1>0, <2>3, <2>4 DEF Free, Found
    <2>6. /\ Range(accounts[r.user]) \subseteq Range(r.doc)
          /\ Range(r.given) \subseteq Range(r.doc)
        BY <1>0, <2>3 DEF Extends, Collected
    <2>7. Alone(p)'
        BY <2>1, <2>2, <2>4, <2>5, <2>6
           DEF Alone, Free, Owned, Extends, Collected, Enrolled
    <2>8. Unregistered'
        BY <2>3, <2>4 DEF Unregistered, Inv, TypeOK
    <2>9. Registry!Next
        BY <1>0, <2>3, <2>4, <2>6, RegistryEnrol DEF Inv
    <2> QED BY <1>0, <2>7, <2>8, <2>9
<1> QED BY <1>1, <1>2, <1>3, <1>4, <1>5, <1>6 DEF AddStep

LEMMA CommonSerial ==
    ASSUME OneAtATime, SerialInv, NEW p \in Procs, CommonStep(p)
    PROVE  /\ Unregistered' /\ \A q \in Procs : Alone(q)'
           /\ [Registry!Next]_(Registry!vars)
<1> USE DEF OneAtATime, SerialInv
<1> DEFINE r == req[p]
<1>0. /\ \A q \in Procs : q = p
      /\ r \in Requests /\ r.given \in Seq(Addr) /\ r.i \in Nat \ {0}
      /\ Owned(p) /\ Enrolled(p) /\ Stage(p)
    BY DEF Inv, TypeOK, Requests, Alone, ReqOK
<1>1. CASE CreateMapping(p)
    <2> DEFINE n == At(r, "map", r.i + 1)
               a == r.given[r.i]
    <2>1. req'[p] = n
        BY <1>1 DEF CreateMapping, Inv, TypeOK
    <2>2. n.pc = "map" /\ n.given = r.given /\ n.user = r.user
        BY DEF At
    <2> HIDE DEF n
    <2>3. /\ r.pc = "map" /\ r.i \in DOMAIN r.given /\ a \in Addr
          /\ a \in Range(r.given) /\ r.user \in Users
        BY <1>0, <1>1
           DEF CreateMapping, Stage, HasDocument, Inv, TypeOK, Range
    <2>4. /\ mappings' = mappings \cup {<<a, r.user>>}
          /\ UNCHANGED <<created, accounts>>
        BY <1>1 DEF CreateMapping
    <2>5. \A x : Found(x)' = IF x = a THEN Found(x) \cup {r.user} ELSE Found(x)
        BY <2>3, <2>4 DEF Found
    <2>6. Owned(p)'
        <3>1. \A k \in DOMAIN r.given : Found(r.given[k]) \subseteq {r.user}
            BY <1>0, <2>3 DEF Owned
        <3> QED BY <2>1, <2>2, <2>5, <3>1 DEF Owned
    <2>7. Free(p)' /\ Extends(p)' /\ Collected(p)'
        BY <2>1, <2>2 DEF Free, Extends, Collected
    <2>8. Enrolled(p)'
        BY <1>0, <2>1, <2>2, <2>3, <2>4 DEF Enrolled
    <2>9. Unregistered'
        BY <2>4 DEF Unregistered
    <2>10. [Registry!Next]_(Registry!vars)
        <3>1. CASE Found(a) = {}
            <4>1. a \in Range(accounts[r.user])
                BY <1>0, <2>3 DEF Enrolled
            <4>2. Registry!Next
                BY <2>3, <2>4, <3>1, <4>1, RegistryClaim
            <4> QED BY <4>2
        <3>2. CASE Found(a) # {}
            <4>1. r.user \in Found(a)
                BY <1>0, <2>3, <3>2 DEF Owned
            <4>2. mappings' = mappings
                BY <2>4, <4>1 DEF Found
            <4> QED BY <2>4, <4>2, RegistryStutter
        <3> QED BY <3>1, <3>2
    <2> QED BY <1>0, <2>6, <2>7, <2>8, <2>9, <2>10 DEF Alone
<1>2. CASE Acknowledge(p)
    BY <1>2, IdleType, MoveSerial DEF Acknowledge
<1>3. CASE UserNotFound(p) \/ Interrupt(p)
    BY <1>3, IdleType, MoveSerial DEF UserNotFound, Interrupt, Go
<1> QED BY <1>1, <1>2, <1>3 DEF CommonStep

LEMMA LookupSerial ==
    ASSUME OneAtATime, SerialInv, NEW p \in Procs, LookupStep(p)
    PROVE  /\ Unregistered' /\ \A q \in Procs : Alone(q)'
           /\ [Registry!Next]_(Registry!vars)
<1>1. PICK n : /\ Go(p, n)
               /\ n.pc \in {"idle", "find", "list", "answered"}
    <2>1. CASE Lookup(p)
        BY <2>1 DEF Lookup, New
    <2>2. CASE FindMapping(p)
        BY <2>2 DEF FindMapping, New
    <2>3. CASE FindNothing(p)
        BY <2>3 DEF FindNothing, At
    <2>4. CASE ListAccounts(p)
        BY <2>4 DEF ListAccounts, At, Holding
    <2>5. CASE Answer(p)
        BY <2>5, IdleType DEF Answer
    <2> QED BY <2>1, <2>2, <2>3, <2>4, <2>5 DEF LookupStep
<1> QED BY <1>1, MoveSerial DEF Go

LEMMA StepSerial ==
    ASSUME OneAtATime, SerialInv, [Next]_vars
    PROVE  SerialInv' /\ [Registry!Next]_(Registry!vars)
<1>1. Inv'
    BY StepInv DEF SerialInv
<1>2. ASSUME UNCHANGED vars
      PROVE  /\ Unregistered' /\ \A q \in Procs : Alone(q)'
             /\ UNCHANGED Registry!vars
    <2>1. UNCHANGED Registry!vars
        BY <1>2, RegistryStutter DEF vars
    <2> QED BY <1>2, <2>1
            DEF vars, SerialInv, Unregistered, Alone, Free, Owned, Extends,
                Collected, Enrolled, Found
<1> QED BY <1>1, <1>2, RegisterSerial, AddSerial, CommonSerial, LookupSerial
        DEF Next, SerialInv

-----------------------------------------------------------------------------
\* Requests that do not overlap, each free to end after any of its steps,
\* implement the registry: an account goes to at most one user, for good, and
\* only once that user's array lists it; arrays never lose an account.
THEOREM SerialImplements ==
    ASSUME OneAtATime
    PROVE  Spec => Refinement
<1>1. Init => Registry!Init
    BY DEF Init, Registry!Init, Found, Range
<1>2. SerialInv /\ [Next]_vars
      => SerialInv' /\ [Registry!Next]_(Registry!vars)
    BY OneAtATime, StepSerial
<1> QED BY <1>1, <1>2, InitSerial, PTL DEF Spec, Refinement, Registry!Spec

Unique == \A a \in Addr : \A u, v \in Found(a) : u = v

LEMMA StepUnique ==
    ASSUME SerialInv, Unique, [Next]_vars
    PROVE  Unique'
<1>1. CASE \E p \in Procs : CreateMapping(p)
    <2>1. PICK p \in Procs : CreateMapping(p)
        BY <1>1
    <2> DEFINE r == req[p]
    <2>2. /\ r.pc = "map" /\ r.i \in DOMAIN r.given
          /\ mappings' = mappings \cup {<<r.given[r.i], r.user>>}
        BY <2>1 DEF CreateMapping, SerialInv, Inv, TypeOK, Requests
    <2>3. Found(r.given[r.i]) \subseteq {r.user}
        BY <2>2 DEF SerialInv, Alone, Owned
    <2> QED BY <2>2, <2>3 DEF Unique, Found
<1>2. CASE UNCHANGED mappings
    BY <1>2 DEF Unique, Found
<1> QED BY <1>1, <1>2
        DEF Next, vars, RegisterStep, AddStep, CommonStep, LookupStep,
            Register, CheckFree, CheckTaken, CheckDone, CreateUser, Add,
            ReadUser, CollectFree, CollectTaken, CollectDone, UpdateUser,
            Acknowledge, UserNotFound, Interrupt, Lookup, FindMapping,
            FindNothing, ListAccounts, Answer, Go

\* Requests that do not overlap never map an account to two users, whatever
\* spelling they give it and wherever they are cut short.
THEOREM SerialUnique ==
    ASSUME OneAtATime
    PROVE  Spec => []OneUserPerAccount
<1>1. Init => Unique
    BY DEF Init, Unique, Found
<1>2. SerialInv /\ Unique /\ [Next]_vars => SerialInv' /\ Unique'
    BY OneAtATime, StepSerial, StepUnique
<1>3. SerialInv /\ Unique => OneUserPerAccount
    <2> SUFFICES ASSUME SerialInv, Unique,
                        NEW m \in mappings, NEW n \in mappings,
                        Lower[m[1]] = Lower[n[1]]
                 PROVE  m[2] = n[2]
        BY DEF OneUserPerAccount
    <2>1. /\ m = <<m[1], m[2]>> /\ m[1] \in Addr /\ m[2] \in Users
          /\ n = <<n[1], n[2]>> /\ n[1] \in Addr /\ n[2] \in Users
        BY DEF SerialInv, Inv, TypeOK
    <2>2. Lower[m[1]] = m[1] /\ Lower[n[1]] = n[1]
        BY <2>1, AccountAssumption DEF Addr, AccountAssumption
    <2>3. m[2] \in Found(m[1]) /\ n[2] \in Found(m[1])
        BY <2>1, <2>2 DEF Found
    <2> QED BY <2>1, <2>3 DEF Unique
<1> QED BY <1>1, <1>2, <1>3, InitSerial, PTL DEF Spec

-----------------------------------------------------------------------------
(* Lookups.  No array loses a mapped account, so the array a lookup reads   *)
(* for the user it found lists the account it looked for.                   *)

Kept == \A u \in Users, a \in Addr :
            u \in Found(a) => a \in Range(accounts[u])

LookedUp(p) ==
    LET r == req[p] IN
    /\ r.pc \in {"find", "list", "answered"} => 1 \in DOMAIN r.given
    /\ r.pc = "list" => r.user \in Found(r.given[1])
    /\ r.pc = "answered" =>
          \A u \in Found(r.given[1]) :
              u = r.user /\ r.given[1] \in Range(r.doc)

LookupOK == Unique /\ Kept /\ \A p \in Procs : LookedUp(p)

LEMMA StepKept ==
    ASSUME OneAtATime, SerialInv, Kept, [Next]_vars
    PROVE  Kept'
<1> USE DEF SerialInv, Inv
<1>1. CASE \E p \in Procs : CreateMapping(p)
    <2>1. PICK p \in Procs : CreateMapping(p)
        BY <1>1
    <2> DEFINE r == req[p]
    <2>2. /\ r.pc = "map" /\ r.i \in DOMAIN r.given
          /\ mappings' = mappings \cup {<<r.given[r.i], r.user>>}
          /\ UNCHANGED accounts
        BY <2>1 DEF CreateMapping, TypeOK, Requests
    <2>3. r.given[r.i] \in Range(accounts[r.user])
        BY <2>2 DEF Alone, Enrolled, Range
    <2> QED BY <2>2, <2>3 DEF Kept, Found
<1>2. CASE \E p \in Procs : CreateUser(p)
    <2>1. PICK p \in Procs : CreateUser(p)
        BY <1>2
    <2> DEFINE r == req[p]
    <2>2. /\ r.user \in Users \ created
          /\ accounts' = [accounts EXCEPT ![r.user] = r.given]
          /\ UNCHANGED mappings
        BY <2>1 DEF CreateUser, ReqOK, Stage, FreshId
    <2>3. \A a : r.user \notin Found(a)
        BY <2>2 DEF MappingsReferToUsers, Found
    <2> QED BY <2>2, <2>3 DEF Kept, Found, TypeOK
<1>3. CASE \E p \in Procs : UpdateUser(p)
    <2>1. PICK p \in Procs : UpdateUser(p)
        BY <1>3
    <2> DEFINE r == req[p]
    <2>2. /\ accounts' = [accounts EXCEPT ![r.user] = r.doc]
          /\ UNCHANGED mappings
          /\ Range(accounts[r.user]) \subseteq Range(r.doc)
        BY <2>1 DEF UpdateUser, Alone, Extends
    <2> QED BY <2>2 DEF Kept, Found, TypeOK
<1>4. CASE UNCHANGED <<accounts, mappings>>
    BY <1>4 DEF Kept, Found
<1> QED BY <1>1, <1>2, <1>3, <1>4
        DEF Next, vars, RegisterStep, AddStep, CommonStep, LookupStep,
            Register, CheckFree, CheckTaken, CheckDone, Add, ReadUser,
            CollectFree, CollectTaken, CollectDone, Acknowledge,
            UserNotFound, Interrupt, Lookup, FindMapping, FindNothing,
            ListAccounts, Answer, Go

\* A request that is not a lookup promises nothing about lookups.
LEMMA NoLookup ==
    ASSUME SerialInv, NEW p \in Procs,
           RegisterStep(p) \/ AddStep(p) \/ CommonStep(p)
    PROVE  LookedUp(p)'
<1>0. req \in [Procs -> Requests]
    BY DEF SerialInv, Inv, TypeOK
<1>1. ASSUME NEW n, req' = [req EXCEPT ![p] = n],
             n.pc \notin {"find", "list", "answered"}
      PROVE  LookedUp(p)'
    BY <1>0, <1>1 DEF LookedUp
<1>2. ASSUME NEW n, Go(p, n), n.pc \notin {"find", "list", "answered"}
      PROVE  LookedUp(p)'
    BY <1>1, <1>2 DEF Go
<1>3. /\ \A pc, u, given : New(pc, u, given).pc = pc
      /\ \A r, pc, k : At(r, pc, k).pc = pc
      /\ Idle.pc = "idle"
    BY DEF New, At, Idle
<1>4. \A r, pc, k, d : Holding(At(r, pc, k), d).pc = pc
    BY DEF Holding, At
<1>5. CASE Register(p) \/ Add(p)
    <2>1. \E pc \in {"check", "read"} : \E u, given :
              req' = [req EXCEPT ![p] = New(pc, u, given)]
        BY <1>5 DEF Register, Add
    <2> QED BY <1>1, <1>3, <2>1
<1>6. CASE \/ CheckFree(p) \/ CheckTaken(p) \/ CheckDone(p)
           \/ CollectTaken(p) \/ CollectDone(p)
           \/ UserNotFound(p) \/ Interrupt(p)
    <2>1. \/ Go(p, Idle)
          \/ \E pc \in {"check", "create", "update"} : \E k :
                 Go(p, At(req[p], pc, k))
        BY <1>6 DEF CheckFree, CheckTaken, CheckDone, CollectTaken,
                    CollectDone, UserNotFound, Interrupt
    <2> QED BY <1>2, <1>3, <2>1
<1>7. CASE ReadUser(p) \/ CollectFree(p)
    <2>1. \E k, d : Go(p, Holding(At(req[p], "collect", k), d))
        BY <1>7 DEF ReadUser, CollectFree
    <2> QED BY <1>2, <1>4, <2>1
<1>8. CASE \/ CreateUser(p) \/ UpdateUser(p) \/ CreateMapping(p)
           \/ Acknowledge(p)
    <2>1. \/ req' = [req EXCEPT ![p] = Idle]
          \/ \E k : req' = [req EXCEPT ![p] = At(req[p], "map", k)]
        BY <1>8 DEF CreateUser, UpdateUser, CreateMapping, Acknowledge
    <2> QED BY <1>1, <1>3, <2>1
<1> QED BY <1>5, <1>6, <1>7, <1>8 DEF RegisterStep, AddStep, CommonStep

LEMMA StepLookedUp ==
    ASSUME SerialInv, LookupOK, ~ReadsFail, NEW p \in Procs, LookupStep(p)
    PROVE  LookedUp(p)'
<1> DEFINE r == req[p]
<1>0. r \in Requests /\ LookedUp(p)
    BY DEF SerialInv, Inv, TypeOK, LookupOK
<1>1. UNCHANGED <<accounts, mappings>> /\ \A a : Found(a)' = Found(a)
    BY DEF LookupStep, Lookup, FindMapping, FindNothing, ListAccounts, Answer,
           Go, Found
<1>2. ASSUME NEW n, Go(p, n)
      PROVE  req'[p] = n
    BY <1>2 DEF Go, SerialInv, Inv, TypeOK
<1>3. CASE Lookup(p)
    <2>1. PICK x \in Raw : req'[p] = New("find", NoUser, <<Lower[x]>>)
        BY <1>2, <1>3 DEF Lookup
    <2> QED BY <2>1 DEF New, LookedUp
<1>4. CASE FindMapping(p)
    <2>1. PICK u \in Found(r.given[1]) : req'[p] = New("list", u, r.given)
        BY <1>2, <1>4 DEF FindMapping
    <2>2. 1 \in DOMAIN r.given
        BY <1>0, <1>4 DEF FindMapping, LookedUp
    <2> QED BY <1>1, <2>1, <2>2 DEF New, LookedUp
<1>5. CASE FindNothing(p)
    <2>1. req'[p] = At(r, "answered", 1)
        BY <1>2, <1>5 DEF FindNothing
    <2>2. Found(r.given[1]) = {} /\ 1 \in DOMAIN r.given
        BY <1>0, <1>5 DEF FindNothing, Absent, LookedUp
    <2> QED BY <1>1, <2>1, <2>2 DEF At, LookedUp
<1>6. CASE ListAccounts(p)
    <2> DEFINE n == Holding(At(r, "answered", 1), accounts[r.user])
    <2>1. req'[p] = n
        BY <1>2, <1>6 DEF ListAccounts
    <2>2. n.pc = "answered" /\ n.user = r.user /\ n.given = r.given
          /\ n.doc = accounts[r.user]
        BY DEF At, Holding
    <2> HIDE DEF n
    <2>3. r.user \in Found(r.given[1]) /\ 1 \in DOMAIN r.given
        BY <1>0, <1>6 DEF ListAccounts, LookedUp
    <2>4. r.given[1] \in Addr
        BY <1>0, <2>3 DEF Requests
    <2>5. \A u \in Found(r.given[1]) : u = r.user
        BY <2>3, <2>4 DEF LookupOK, Unique
    <2>6. r.given[1] \in Range(accounts[r.user])
        BY <2>3, <2>4 DEF LookupOK, Kept, Found
    <2> QED BY <1>1, <2>1, <2>2, <2>3, <2>5, <2>6 DEF LookedUp
<1>7. CASE Answer(p)
    <2>1. req'[p].pc = "idle"
        BY <1>2, <1>7, IdleType DEF Answer
    <2> QED BY <2>1 DEF LookedUp
<1> QED BY <1>3, <1>4, <1>5, <1>6, <1>7 DEF LookupStep

\* Between requests that do not overlap, a lookup finds every acknowledged
\* account in any spelling, and reads an array that lists it, whatever
\* requests were cut short before.
THEOREM SerialLookups ==
    ASSUME OneAtATime
    PROVE  Spec => []LookupComplete
<1>1. Init => LookupOK
    BY IdleType DEF Init, LookupOK, Unique, Kept, LookedUp, Found
<1>2. SerialInv /\ LookupOK /\ [Next]_vars => SerialInv' /\ LookupOK'
    <2> SUFFICES ASSUME SerialInv, LookupOK, [Next]_vars
                 PROVE  SerialInv' /\ LookupOK'
        OBVIOUS
    <2>1. SerialInv'
        BY OneAtATime, StepSerial
    <2>2. Unique' /\ Kept'
        BY OneAtATime, StepUnique, StepKept DEF LookupOK
    <2>3. CASE UNCHANGED vars
        BY <2>1, <2>2, <2>3 DEF vars, LookupOK, LookedUp, Found
    <2>4. ASSUME NEW p \in Procs,
                 \/ RegisterStep(p) \/ AddStep(p) \/ CommonStep(p)
                 \/ LookupStep(p)
          PROVE  LookupOK'
        <3>1. LookedUp(p)'
            BY <2>4, OneAtATime, NoLookup, StepLookedUp DEF OneAtATime
        <3>2. \A q \in Procs : q = p
            BY OneAtATime DEF OneAtATime
        <3> QED BY <2>2, <3>1, <3>2 DEF LookupOK
    <2> QED BY <2>1, <2>3, <2>4 DEF Next
<1>3. SerialInv /\ LookupOK => LookupComplete
    <2> SUFFICES ASSUME SerialInv, LookupOK, NEW p \in Procs, NEW u \in Users,
                        req[p].pc = "answered",
                        <<Lower[req[p].given[1]], u>> \in acked
                 PROVE  /\ req[p].user = u
                        /\ Lower[req[p].given[1]] \in Range(req[p].doc)
        BY DEF LookupComplete
    <2> DEFINE r == req[p]
    <2>1. r \in Requests /\ 1 \in DOMAIN r.given
        BY DEF SerialInv, Inv, TypeOK, LookupOK, LookedUp
    <2>2. r.given[1] \in Addr
        BY <2>1 DEF Requests
    <2>3. Lower[r.given[1]] = r.given[1]
        BY <2>2, AccountAssumption DEF Addr, AccountAssumption
    <2>4. u \in Found(r.given[1])
        BY <2>3 DEF SerialInv, Inv, MappedIsListed, Found
    <2> QED BY <2>3, <2>4 DEF LookupOK, LookedUp
<1> QED BY <1>1, <1>2, <1>3, InitSerial, PTL DEF Spec
=============================================================================
