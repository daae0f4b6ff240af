------------------------- MODULE Settlement_proofs --------------------------
(***************************************************************************)
(* Proofs about Settlement, for any number of requests, routes and         *)
(* allowances, and any width of amounts.                                   *)
(***************************************************************************)
EXTENDS Settlement, SumTheorems

-----------------------------------------------------------------------------
(* The inductive invariant. *)

\* How many more transactions there are than routes: the approvals that are
\* pending, or less the bridge transactions that were executed.
Surplus(q) == Len(txs[q]) - Len(plan[q])

Pending(q) == {j \in DOMAIN txs[q] : j <= Surplus(q)}

\* What the bridge transactions of q that are left need of key k.
RestOf(q, k) == {i \in DOMAIN plan[q] : plan[q][i].key = k /\ i + Surplus(q) >= 1}
Rest(q, k) == SumFunctionOnSet(NeededAmounts(q), RestOf(q, k))

Answering(q) == stage[q] \in {"check", "sign"}

Fresh(q) ==
    stage[q] = "build" => unread[q] = {} /\ txs[q] = <<>> /\ ~reverted[q]

\* Approvals of merged needs come first, then the bridge transactions of a
\* suffix of the routes.
Shape(q) ==
    Answering(q) =>
       /\ \A j \in DOMAIN txs[q] :
             IF j <= Surplus(q)
             THEN \E n \in Merged(q) : txs[q][j] = Approve(n)
             ELSE txs[q][j] = Bridge(plan[q][j - Surplus(q)])
       /\ stage[q] = "check" => Surplus(q) >= 0
       /\ stage[q] = "sign" => unread[q] = {}
       /\ unread[q] \subseteq Merged(q)
       /\ BuildExcuses(q) \subseteq excuse[q]

\* A key is waiting for its allowance to be read, or for one approval.
OneApproval(q) ==
    Answering(q) =>
       /\ \A i, j \in Pending(q) : txs[q][i].key = txs[q][j].key => i = j
       /\ \A n \in unread[q], j \in Pending(q) : txs[q][j].key # n.key

\* An allowance that nobody else touches and that is known under one name
\* carries what is left, once it was read and approved.
Covered(q) ==
    Answering(q) /\ excuse[q] = {} =>
       \A k \in KeysOf(q) :
          \/ \E n \in unread[q] : n.key = k
          \/ \E j \in Pending(q) : txs[q][j].key = k
          \/ allowance[Slot[k]] >= Rest(q, k)

\* A pending approval is of more than the allowance is.
Raising(q) ==
    Answering(q) /\ excuse[q] \cap {"disturbed", "respelled"} = {} =>
       \A j \in Pending(q) : txs[q][j].amount > allowance[Slot[txs[q][j].key]]

Blamed(q) == reverted[q] => excuse[q] # {} /\ stage[q] # "build"

Sound(q) == /\ Fresh(q) /\ Shape(q) /\ OneApproval(q)
            /\ Covered(q) /\ Raising(q) /\ Blamed(q)

IInv == TypeOK /\ \A q \in Requests : Sound(q)

-----------------------------------------------------------------------------
(* What the routes of a request need. *)

Txs == [type : {"approve", "bridge"}, key : Keys \cup {NoKey}, amount : Amounts]
Routes == [key : Keys \cup {NoKey}, amount : Amounts]

LEMMA SeqElement ==
    ASSUME NEW S, NEW s \in Seq(S)
    PROVE  /\ Len(s) \in Nat /\ DOMAIN s = 1 .. Len(s)
           /\ \A i \in DOMAIN s : s[i] \in S
  OBVIOUS

LEMMA RouteType ==
    ASSUME TypeOK, NEW q \in Requests
    PROVE  /\ Len(plan[q]) \in Nat /\ DOMAIN plan[q] = 1 .. Len(plan[q])
           /\ IsFiniteSet(DOMAIN plan[q])
           /\ \A i \in DOMAIN plan[q] :
                 /\ plan[q][i] \in Routes
                 /\ plan[q][i].key \in Keys \cup {NoKey}
                 /\ plan[q][i].amount \in Amounts
<1>1. plan[q] \in Seq(Routes)
  BY SettlementAssumption DEF SettlementAssumption, TypeOK, Routes, Amounts
<1>2. /\ Len(plan[q]) \in Nat /\ DOMAIN plan[q] = 1 .. Len(plan[q])
      /\ \A i \in DOMAIN plan[q] : plan[q][i] \in Routes
  BY <1>1, SeqElement
<1>3. IsFiniteSet(1 .. Len(plan[q]))
  BY <1>2, FS_Interval
<1>4. \A x \in Routes : x.key \in Keys \cup {NoKey} /\ x.amount \in Amounts
  BY DEF Routes
<1> QED BY <1>2, <1>3, <1>4

LEMMA ModulusType == Modulus \in Nat \ {0} /\ Amounts \subseteq Nat
  BY SettlementAssumption DEF SettlementAssumption, Amounts

\* Sums over some routes of a request.
LEMMA PartialSum ==
    ASSUME TypeOK, NEW q \in Requests, NEW S, S \subseteq DOMAIN plan[q]
    PROVE  /\ IsFiniteSet(S)
           /\ \A i \in S : NeededAmounts(q)[i] = plan[q][i].amount
                           /\ NeededAmounts(q)[i] \in Nat /\ NeededAmounts(q)[i] \in Int
           /\ SumFunctionOnSet(NeededAmounts(q), S) \in Nat
<1>1. IsFiniteSet(S)
  BY RouteType, FS_Subset
<1>2. \A i \in S : NeededAmounts(q)[i] = plan[q][i].amount /\ NeededAmounts(q)[i] \in Nat
  BY RouteType, ModulusType DEF NeededAmounts
<1>3. SumFunctionOnSet(NeededAmounts(q), S) \in Nat
  BY <1>1, <1>2, SumNat
<1> QED BY <1>1, <1>2, <1>3

LEMMA TotalType ==
    ASSUME TypeOK, NEW q \in Requests, NEW k
    PROVE  Total(q, k) \in Nat /\ Rest(q, k) \in Nat
<1>1. {i \in DOMAIN plan[q] : plan[q][i].key = k} \subseteq DOMAIN plan[q]
      /\ RestOf(q, k) \subseteq DOMAIN plan[q]
  BY DEF RestOf
<1> QED BY <1>1, PartialSum DEF Total, Rest

\* While no bridge transaction has been executed, all of it is left.
LEMMA RestIsTotal ==
    ASSUME TypeOK, NEW q \in Requests, Surplus(q) \in Int, Surplus(q) >= 0, NEW k
    PROVE  Rest(q, k) = Total(q, k)
<1>1. DOMAIN plan[q] \subseteq Nat \ {0}
  BY RouteType
<1>2. RestOf(q, k) = {i \in DOMAIN plan[q] : plan[q][i].key = k}
  BY <1>1 DEF RestOf
<1> QED BY <1>2 DEF Rest, Total

LEMMA MergedType ==
    ASSUME TypeOK, NEW q \in Requests
    PROVE  /\ KeysOf(q) \subseteq Keys
           /\ \A n \in Merged(q) :
                 /\ n \in Needs
                 /\ n.key \in KeysOf(q) /\ n.amount \in Amounts
                 /\ n.amount = Total(q, n.key) % Modulus
           /\ \A k \in KeysOf(q) : \E n \in Merged(q) : n.key = k
           /\ \A m, n \in Merged(q) : m.key = n.key => m = n
<1>1. KeysOf(q) \subseteq Keys
  BY RouteType DEF KeysOf
<1>2. \A k : Total(q, k) % Modulus \in Amounts
  BY TotalType, ModulusType DEF Amounts
<1>3. \A n \in Merged(q) : \E k \in KeysOf(q) :
         n = [key |-> k, amount |-> Total(q, k) % Modulus]
  BY DEF Merged
<1>4. \A k \in KeysOf(q) : [key |-> k, amount |-> Total(q, k) % Modulus] \in Merged(q)
  BY DEF Merged
<1>5. ASSUME NEW n \in Merged(q)
      PROVE  /\ n \in Needs /\ n.key \in KeysOf(q) /\ n.amount \in Amounts
             /\ n.amount = Total(q, n.key) % Modulus
             /\ n = [key |-> n.key, amount |-> Total(q, n.key) % Modulus]
  <2>1. PICK k \in KeysOf(q) : n = [key |-> k, amount |-> Total(q, k) % Modulus]
    BY <1>3
  <2>2. n.key = k /\ n.amount = Total(q, k) % Modulus
    BY <2>1
  <2>3. n \in [key : Keys, amount : Amounts]
    BY <1>1, <1>2, <2>1
  <2> QED BY <1>2, <2>1, <2>2, <2>3 DEF Needs
<1>6. \A k \in KeysOf(q) : \E n \in Merged(q) : n.key = k
  BY <1>4
<1>7. \A m, n \in Merged(q) : m.key = n.key => m = n
  BY <1>5
<1> QED BY <1>1, <1>5, <1>6, <1>7

\* What is approved is what is needed, unless the sum wrapped.
LEMMA MergedIsTotal ==
    ASSUME TypeOK, NEW q \in Requests, "wrapped" \notin BuildExcuses(q), NEW n \in Merged(q)
    PROVE  n.amount = Total(q, n.key)
<1>1. n.key \in KeysOf(q) /\ n.amount = Total(q, n.key) % Modulus
  BY MergedType
<1>2. Total(q, n.key) \in Nat /\ Total(q, n.key) < Modulus
  BY <1>1, TotalType, ModulusType DEF BuildExcuses
<1>3. \A x, m \in Nat : x < m => x % m = x
  OBVIOUS
<1> QED BY <1>1, <1>2, <1>3, ModulusType

LEMMA OneSlotEach ==
    ASSUME NEW q, "respelled" \notin BuildExcuses(q), NEW k \in KeysOf(q), NEW l \in KeysOf(q),
           Slot[k] = Slot[l]
    PROVE  k = l
  BY DEF BuildExcuses, Respelled

LEMMA SamePlan ==
    ASSUME plan' = plan
    PROVE  \A q : /\ KeysOf(q)' = KeysOf(q) /\ Merged(q)' = Merged(q)
                  /\ BuildExcuses(q)' = BuildExcuses(q)
                  /\ NeededAmounts(q)' = NeededAmounts(q)
  BY DEF KeysOf, Merged, BuildExcuses, NeededAmounts, Total, Respelled

-----------------------------------------------------------------------------
(* Transactions in and out of the queue of a request. *)

LEMMA TailOf ==
    ASSUME NEW S, NEW s \in Seq(S), s # <<>>
    PROVE  /\ Tail(s) \in Seq(S) /\ Len(Tail(s)) = Len(s) - 1
           /\ DOMAIN Tail(s) = 1 .. Len(s) - 1
           /\ \A j \in 1 .. Len(s) - 1 : Tail(s)[j] = s[j + 1]
  OBVIOUS

LEMMA InFront ==
    ASSUME NEW S, NEW s \in Seq(S), NEW x \in S
    PROVE  /\ <<x>> \o s \in Seq(S) /\ Len(<<x>> \o s) = Len(s) + 1
           /\ DOMAIN (<<x>> \o s) = 1 .. Len(s) + 1
           /\ (<<x>> \o s)[1] = x
           /\ \A j \in 2 .. Len(s) + 1 : (<<x>> \o s)[j] = s[j - 1]
<1>1. <<x>> \in Seq(S) /\ Len(<<x>>) = 1 /\ <<x>>[1] = x
  OBVIOUS
<1> DEFINE o == <<x>>
<1>2. \A a, b \in Seq(S) :
         /\ a \o b \in Seq(S) /\ Len(a \o b) = Len(a) + Len(b)
         /\ DOMAIN (a \o b) = 1 .. Len(a) + Len(b)
         /\ \A j \in 1 .. Len(a) + Len(b) :
               (a \o b)[j] = IF j <= Len(a) THEN a[j] ELSE b[j - Len(a)]
  OBVIOUS
<1>3. o \in Seq(S) /\ Len(o) = 1 /\ o[1] = x
  BY <1>1
<1> HIDE DEF o
<1>4. Len(s) \in Nat
  OBVIOUS
<1>5. /\ o \o s \in Seq(S) /\ Len(o \o s) = Len(s) + 1
      /\ DOMAIN (o \o s) = 1 .. Len(s) + 1
      /\ (o \o s)[1] = x
      /\ \A j \in 2 .. Len(s) + 1 : (o \o s)[j] = s[j - 1]
  BY <1>2, <1>3, <1>4
<1> QED BY <1>5 DEF o

LEMMA TxsType ==
    ASSUME TypeOK, NEW q \in Requests
    PROVE  /\ txs[q] \in Seq(Txs)
           /\ Len(txs[q]) \in Nat /\ DOMAIN txs[q] = 1 .. Len(txs[q])
           /\ \A j \in DOMAIN txs[q] : txs[q][j] \in Txs
           /\ Surplus(q) \in Int
           /\ Len(txs[q]) = Len(plan[q]) + Surplus(q)
<1>1. txs[q] \in Seq(Txs)
  BY DEF TypeOK, Txs
<1>2. Len(txs[q]) \in Nat /\ Len(plan[q]) \in Nat
  BY <1>1, RouteType, SeqElement
<1> QED BY <1>1, <1>2, SeqElement DEF Surplus

LEMMA ApproveType ==
    ASSUME TypeOK, NEW q \in Requests, NEW n \in Merged(q)
    PROVE  /\ Approve(n) \in Txs
           /\ Approve(n).type = "approve" /\ Approve(n).key = n.key
           /\ Approve(n).amount = n.amount
<1>1. n.key \in Keys \cup {NoKey} /\ n.amount \in Amounts
  BY MergedType
<1> QED BY <1>1 DEF Approve, Txs

LEMMA BridgeType ==
    ASSUME TypeOK, NEW q \in Requests, NEW i \in DOMAIN plan[q]
    PROVE  /\ Bridge(plan[q][i]) \in Txs
           /\ Bridge(plan[q][i]).type = "bridge"
           /\ Bridge(plan[q][i]).key = plan[q][i].key
           /\ Bridge(plan[q][i]).amount = plan[q][i].amount
<1>1. plan[q][i].key \in Keys \cup {NoKey} /\ plan[q][i].amount \in Amounts
  BY RouteType
<1> QED BY <1>1 DEF Bridge, Txs

\* Every pending approval is of a merged need, of a key of the request.
LEMMA PendingIsMerged ==
    ASSUME TypeOK, NEW q \in Requests, Answering(q), Shape(q), NEW j \in Pending(q)
    PROVE  \E n \in Merged(q) :
              /\ txs[q][j] = Approve(n)
              /\ txs[q][j].key = n.key /\ txs[q][j].amount = n.amount
              /\ n.key \in KeysOf(q) /\ n.key \in Keys
<1>1. PICK n \in Merged(q) : txs[q][j] = Approve(n)
  BY DEF Shape, Pending
<1> QED BY <1>1, ApproveType, MergedType

\* The first transaction tells whether approvals are pending.
LEMMA HeadOf ==
    ASSUME TypeOK, NEW q \in Requests, Answering(q), Shape(q), txs[q] # <<>>
    PROVE  /\ Head(txs[q]) = txs[q][1] /\ 1 \in DOMAIN txs[q]
           /\ Head(txs[q]).type = "approve" =>
                 Surplus(q) >= 1 /\ 1 \in Pending(q)
           /\ Head(txs[q]).type = "bridge" =>
                 /\ Surplus(q) <= 0 /\ Pending(q) = {}
                 /\ 1 - Surplus(q) \in DOMAIN plan[q]
                 /\ Head(txs[q]) = Bridge(plan[q][1 - Surplus(q)])
                 /\ Head(txs[q]).key = plan[q][1 - Surplus(q)].key
                 /\ Head(txs[q]).amount = plan[q][1 - Surplus(q)].amount
<1>1. Head(txs[q]) = txs[q][1] /\ 1 \in DOMAIN txs[q] /\ Len(txs[q]) >= 1
  BY TxsType
<1>2. Surplus(q) \in Int /\ Len(txs[q]) = Len(plan[q]) + Surplus(q)
      /\ Len(plan[q]) \in Nat /\ DOMAIN plan[q] = 1 .. Len(plan[q])
  BY TxsType, RouteType
<1>3. CASE Surplus(q) >= 1
  <2>1. 1 \in Pending(q)
    BY <1>1, <1>2, <1>3 DEF Pending
  <2>2. PICK n \in Merged(q) : txs[q][1] = Approve(n)
    BY <2>1, PendingIsMerged
  <2>3. Head(txs[q]).type = "approve"
    BY <1>1, <2>2, ApproveType
  <2> QED BY <1>1, <1>3, <2>1, <2>3
<1>4. CASE Surplus(q) <= 0
  <2> DEFINE i == 1 - Surplus(q)
  <2>1. i \in DOMAIN plan[q]
    BY <1>1, <1>2, <1>4
  <2>2. txs[q][1] = Bridge(plan[q][i])
    BY <1>1, <1>2, <1>4 DEF Shape
  <2>3. Pending(q) = {}
    BY <1>2, <1>4, TxsType DEF Pending
  <2> HIDE DEF i
  <2>4. /\ Head(txs[q]).type = "bridge" /\ Head(txs[q]) = Bridge(plan[q][i])
        /\ Head(txs[q]).key = plan[q][i].key
        /\ Head(txs[q]).amount = plan[q][i].amount
    BY <1>1, <2>1, <2>2, BridgeType
  <2> QED BY <1>1, <1>4, <2>1, <2>3, <2>4 DEF i
<1> QED BY <1>2, <1>3, <1>4

\* The first transaction leaves the queue.
LEMMA Dequeue ==
    ASSUME TypeOK, NEW q \in Requests, plan' = plan, txs[q] # <<>>,
           txs' = [txs EXCEPT ![q] = Tail(@)]
    PROVE  /\ Surplus(q)' = Surplus(q) - 1
           /\ txs'[q] \in Seq(Txs)
           /\ \A j \in DOMAIN txs'[q] : /\ j \in Nat \ {0} /\ j + 1 \in DOMAIN txs[q]
                                       /\ txs'[q][j] = txs[q][j + 1]
           /\ \A j \in Pending(q)' : j \in DOMAIN txs'[q] /\ j + 1 \in Pending(q)
           /\ \A j \in Pending(q) : j # 1 => j - 1 \in Pending(q)'
                                             /\ txs'[q][j - 1] = txs[q][j]
<1>1. txs[q] \in Seq(Txs) /\ txs'[q] = Tail(txs[q])
  BY TxsType DEF TypeOK
<1>2. /\ Len(txs'[q]) = Len(txs[q]) - 1 /\ txs'[q] \in Seq(Txs)
      /\ DOMAIN txs'[q] = 1 .. Len(txs[q]) - 1
      /\ \A j \in 1 .. Len(txs[q]) - 1 : txs'[q][j] = txs[q][j + 1]
  BY <1>1, TailOf
<1>3. /\ Len(txs[q]) \in Nat /\ DOMAIN txs[q] = 1 .. Len(txs[q])
      /\ Len(plan[q]) \in Nat /\ Len(plan[q])' = Len(plan[q])
      /\ Surplus(q) \in Int
  BY TxsType, RouteType
<1>4. Surplus(q)' = Surplus(q) - 1
  BY <1>2, <1>3 DEF Surplus
<1>5. \A j \in DOMAIN txs'[q] : /\ j \in Nat \ {0} /\ j + 1 \in DOMAIN txs[q]
                               /\ txs'[q][j] = txs[q][j + 1]
  BY <1>2, <1>3
<1>6. \A j \in Pending(q)' : j \in DOMAIN txs'[q] /\ j + 1 \in Pending(q)
  BY <1>2, <1>3, <1>4, <1>5 DEF Pending
<1>7. ASSUME NEW j \in Pending(q), j # 1
      PROVE  j - 1 \in Pending(q)' /\ txs'[q][j - 1] = txs[q][j]
  <2>1. j \in 1 .. Len(txs[q]) /\ j <= Surplus(q)
    BY <1>3 DEF Pending
  <2>2. j - 1 \in 1 .. Len(txs[q]) - 1 /\ j - 1 <= Surplus(q)' /\ (j - 1) + 1 = j
    BY <1>3, <1>4, <1>7, <2>1
  <2> QED BY <1>2, <2>2 DEF Pending
<1> QED BY <1>2, <1>4, <1>5, <1>6, <1>7

\* An approval enters it in front.
LEMMA Enqueue ==
    ASSUME TypeOK, NEW q \in Requests, plan' = plan, NEW n \in Merged(q),
           Surplus(q) >= 0, txs' = [txs EXCEPT ![q] = Put(@, Approve(n))]
    PROVE  /\ Surplus(q)' = Surplus(q) + 1
           /\ txs'[q] \in Seq(Txs)
           /\ txs'[q][1] = Approve(n) /\ 1 \in Pending(q)'
           /\ \A j \in DOMAIN txs'[q] \ {1} :
                 j - 1 \in DOMAIN txs[q] /\ txs'[q][j] = txs[q][j - 1]
           /\ \A j \in Pending(q)' \ {1} : j - 1 \in Pending(q)
           /\ \A j \in Pending(q) : j + 1 \in Pending(q)' /\ txs'[q][j + 1] = txs[q][j]
           /\ DOMAIN txs'[q] \subseteq Nat /\ Pending(q)' \subseteq DOMAIN txs'[q]
<1>1. txs[q] \in Seq(Txs) /\ Approve(n) \in Txs /\ txs'[q] = <<Approve(n)>> \o txs[q]
  BY TxsType, ApproveType DEF TypeOK, Put
<1>2. /\ Len(txs'[q]) = Len(txs[q]) + 1 /\ txs'[q] \in Seq(Txs)
      /\ DOMAIN txs'[q] = 1 .. Len(txs[q]) + 1
      /\ txs'[q][1] = Approve(n)
      /\ \A j \in 2 .. Len(txs[q]) + 1 : txs'[q][j] = txs[q][j - 1]
  <2> DEFINE a == Approve(n)
             t == txs[q]
             o == <<a>> \o t
  <2>1. a \in Txs /\ t \in Seq(Txs) /\ txs'[q] = o
    BY <1>1
  <2> HIDE DEF a, t
  <2>2. /\ o \in Seq(Txs) /\ Len(o) = Len(t) + 1 /\ DOMAIN o = 1 .. Len(t) + 1
        /\ o[1] = a /\ \A j \in 2 .. Len(t) + 1 : o[j] = t[j - 1]
    BY <2>1, InFront
  <2> HIDE DEF o
  <2>3. /\ Len(txs'[q]) = Len(t) + 1 /\ txs'[q] \in Seq(Txs)
        /\ DOMAIN txs'[q] = 1 .. Len(t) + 1
        /\ txs'[q][1] = a
        /\ \A j \in 2 .. Len(t) + 1 : txs'[q][j] = t[j - 1]
    BY <2>1, <2>2
  <2> QED BY <2>3 DEF a, t
<1>3. /\ Len(txs[q]) \in Nat /\ DOMAIN txs[q] = 1 .. Len(txs[q])
      /\ Len(plan[q]) \in Nat /\ Len(plan[q])' = Len(plan[q])
      /\ Surplus(q) \in Int
  BY TxsType, RouteType
<1>4. Surplus(q)' = Surplus(q) + 1
  BY <1>2, <1>3 DEF Surplus
<1>5. \A j \in DOMAIN txs'[q] \ {1} :
         j - 1 \in DOMAIN txs[q] /\ txs'[q][j] = txs[q][j - 1]
  BY <1>2, <1>3
<1>6. 1 \in Pending(q)' /\ Pending(q)' \subseteq DOMAIN txs'[q] /\ DOMAIN txs'[q] \subseteq Nat
  BY <1>2, <1>3, <1>4 DEF Pending
<1>7. \A j \in Pending(q)' \ {1} : j - 1 \in Pending(q)
  BY <1>3, <1>4, <1>5, <1>6 DEF Pending
<1>8. ASSUME NEW j \in Pending(q)
      PROVE  j + 1 \in Pending(q)' /\ txs'[q][j + 1] = txs[q][j]
  <2>1. j \in 1 .. Len(txs[q]) /\ j <= Surplus(q)
    BY <1>3 DEF Pending
  <2>2. j + 1 \in 2 .. Len(txs[q]) + 1 /\ j + 1 <= Surplus(q)' /\ (j + 1) - 1 = j
        /\ j + 1 \in 1 .. Len(txs[q]) + 1
    BY <1>3, <1>4, <2>1
  <2> QED BY <1>2, <2>2 DEF Pending
<1> QED BY <1>2, <1>4, <1>5, <1>6, <1>7, <1>8

-----------------------------------------------------------------------------
(* Types. *)

\* What another request's transaction leaves of the excuses of r.
LEMMA DisturbedType ==
    ASSUME TypeOK, NEW q \in Requests, NEW k
    PROVE  /\ Disturbed(q, k) \in [Requests -> SUBSET Excuses]
           /\ Disturbed(q, k)[q] = excuse[q]
           /\ \A r \in Requests :
                 /\ excuse[r] \subseteq Disturbed(q, k)[r]
                 /\ r # q /\ Answering(r) /\ "disturbed" \notin Disturbed(q, k)[r] =>
                       \A l \in KeysOf(r) : Slot[l] # Slot[k]
<1>1. "disturbed" \in Excuses /\ excuse \in [Requests -> SUBSET Excuses]
  BY DEF Excuses, TypeOK
<1> QED BY <1>1 DEF Disturbed, Answering

LEMMA TypeStep ==
    ASSUME TypeOK, NEW q \in Requests, Sound(q),
           \/ Build(q) \/ BuildFails(q) \/ Suffices(q) \/ FallsShort(q)
           \/ ReadFails(q) \/ Reply(q) \/ ExecuteApproval(q)
           \/ ExecuteBridge(q) \/ Complete(q) \/ WalkAway(q)
    PROVE  TypeOK'
<1>1. TypeOK <=>
        /\ plan \in [Requests -> Plans]
        /\ stage \in [Requests -> {"build", "check", "sign", "done", "failed"}]
        /\ unread \in [Requests -> SUBSET Needs]
        /\ txs \in [Requests -> Seq(Txs)]
        /\ allowance \in [Slots -> Amounts]
        /\ reverted \in [Requests -> BOOLEAN]
        /\ excuse \in [Requests -> SUBSET Excuses]
  BY DEF TypeOK, Txs
<1>2. TypeOK' <=>
        /\ plan' \in [Requests -> Plans]
        /\ stage' \in [Requests -> {"build", "check", "sign", "done", "failed"}]
        /\ unread' \in [Requests -> SUBSET Needs]
        /\ txs' \in [Requests -> Seq(Txs)]
        /\ allowance' \in [Slots -> Amounts]
        /\ reverted' \in [Requests -> BOOLEAN]
        /\ excuse' \in [Requests -> SUBSET Excuses]
  BY DEF TypeOK, Txs
<1>3. CASE Build(q)
  <2> DEFINE b == [i \in DOMAIN plan[q] |-> Bridge(plan[q][i])]
  <2>1. b \in Seq(Txs)
    <3>1. Len(plan[q]) \in Nat /\ DOMAIN plan[q] = 1 .. Len(plan[q])
      BY RouteType
    <3>2. \A i \in 1 .. Len(plan[q]) : b[i] \in Txs
      BY <3>1, BridgeType
    <3> HIDE DEF b
    <3>3. \A n \in Nat : \A f : DOMAIN f = 1 .. n /\ f = [i \in 1 .. n |-> f[i]]
             /\ (\A i \in 1 .. n : f[i] \in Txs) => f \in Seq(Txs)
      OBVIOUS
    <3>4. DOMAIN b = 1 .. Len(plan[q]) /\ b = [i \in 1 .. Len(plan[q]) |-> b[i]]
      BY <3>1 DEF b
    <3> QED BY <3>1, <3>2, <3>3, <3>4
  <2>2. Merged(q) \subseteq Needs
    BY MergedType
  <2>3. BuildExcuses(q) \subseteq Excuses
    BY DEF BuildExcuses, Excuses
  <2>4. /\ plan' = plan /\ allowance' = allowance /\ reverted' = reverted
        /\ stage' = [stage EXCEPT ![q] = "check"]
        /\ unread' = [unread EXCEPT ![q] = Merged(q)]
        /\ txs' = [txs EXCEPT ![q] = b]
        /\ excuse' = [excuse EXCEPT ![q] = BuildExcuses(q)]
    BY <1>3 DEF Build
  <2> HIDE DEF b
  <2> QED BY <1>1, <1>2, <2>1, <2>2, <2>3, <2>4
<1>4. CASE BuildFails(q) \/ Reply(q) \/ Complete(q)
  <2>1. /\ \E c \in {"failed", "sign", "done"} : stage' = [stage EXCEPT ![q] = c]
        /\ UNCHANGED <<plan, unread, txs, allowance, reverted, excuse>>
    BY <1>4 DEF BuildFails, Reply, Complete
  <2> QED BY <1>1, <1>2, <2>1
<1>5. CASE Suffices(q) \/ ReadFails(q)
  <2>1. /\ \E n \in unread[q] : unread' = [unread EXCEPT ![q] = @ \ {n}]
        /\ excuse' = excuse \/ excuse' = [excuse EXCEPT ![q] = @ \cup {"dropped"}]
        /\ UNCHANGED <<plan, stage, txs, allowance, reverted>>
    BY <1>5 DEF Suffices, ReadFails
  <2>2. "dropped" \in Excuses
    BY DEF Excuses
  <2>3. unread' \in [Requests -> SUBSET Needs]
    <3>1. PICK n \in unread[q] : unread' = [unread EXCEPT ![q] = @ \ {n}]
      BY <2>1
    <3>2. unread[q] \ {n} \in SUBSET Needs
      BY <1>1
    <3> QED BY <1>1, <3>1, <3>2
  <2>4. excuse' \in [Requests -> SUBSET Excuses]
    <3>1. excuse[q] \cup {"dropped"} \in SUBSET Excuses
      BY <1>1, <2>2
    <3> QED BY <1>1, <2>1, <3>1
  <2> QED BY <1>1, <1>2, <2>1, <2>3, <2>4
<1>6. CASE FallsShort(q)
  <2>1. PICK n \in unread[q] : /\ unread' = [unread EXCEPT ![q] = @ \ {n}]
                               /\ txs' = [txs EXCEPT ![q] = Put(@, Approve(n))]
    BY <1>6 DEF FallsShort
  <2>2. n \in Merged(q) /\ stage[q] = "check" /\ Surplus(q) >= 0
        /\ UNCHANGED <<plan, stage, allowance, reverted, excuse>>
    BY <1>6 DEF FallsShort, Sound, Shape, Answering
  <2>3. txs'[q] \in Seq(Txs)
    BY <2>1, <2>2, Enqueue
  <2>4. txs' = [txs EXCEPT ![q] = txs'[q]]
    BY <1>1, <2>1
  <2> QED BY <1>1, <1>2, <2>1, <2>2, <2>3, <2>4
<1>7. ASSUME ExecuteApproval(q) \/ ExecuteBridge(q)
      PROVE  txs' \in [Requests -> Seq(Txs)]
  <2>1. txs[q] # <<>> /\ txs' = [txs EXCEPT ![q] = Tail(@)] /\ plan' = plan
    BY <1>7 DEF ExecuteApproval, ExecuteBridge
  <2>2. txs'[q] \in Seq(Txs)
    BY <2>1, Dequeue
  <2>3. txs' = [txs EXCEPT ![q] = txs'[q]]
    BY <1>1, <2>1
  <2> QED BY <1>1, <2>2, <2>3
<1>8. ASSUME txs[q] # <<>>
      PROVE  Head(txs[q]).amount \in Amounts
  <2>1. Head(txs[q]) \in Txs
    BY <1>8, TxsType
  <2> QED BY <2>1 DEF Txs
<1>9. CASE ExecuteApproval(q)
  <2>1. /\ allowance' = [allowance EXCEPT ![Slot[Head(txs[q]).key]] = Head(txs[q]).amount]
        /\ excuse' = Disturbed(q, Head(txs[q]).key) /\ txs[q] # <<>>
        /\ UNCHANGED <<plan, stage, unread, reverted>>
    BY <1>9 DEF ExecuteApproval
  <2> QED BY <1>1, <1>2, <1>7, <1>8, <1>9, <2>1, DisturbedType
<1>10. CASE ExecuteBridge(q)
  <2> DEFINE h == Head(txs[q])
  <2>1. txs[q] # <<>> /\ UNCHANGED <<plan, stage, unread>>
    BY <1>10 DEF ExecuteBridge
  <2>2. \/ UNCHANGED <<allowance, reverted, excuse>>
        \/ /\ allowance[Slot[h.key]] >= h.amount
           /\ h.key # NoKey
           /\ allowance' = [allowance EXCEPT ![Slot[h.key]] = @ - h.amount]
           /\ excuse' = Disturbed(q, h.key) /\ reverted' = reverted
        \/ /\ reverted' = [reverted EXCEPT ![q] = TRUE]
           /\ UNCHANGED <<allowance, excuse>>
    BY <1>10 DEF ExecuteBridge
  <2>3. h.amount \in Amounts /\ h.key \in Keys \cup {NoKey}
    <3>1. h \in Txs
      BY <2>1, TxsType
    <3> QED BY <3>1 DEF Txs
  <2>4. \A x, y \in Amounts : x >= y => x - y \in Amounts
    BY ModulusType DEF Amounts
  <2>5. \A k \in Keys : allowance[Slot[k]] \in Amounts
    BY <1>1, SettlementAssumption DEF SettlementAssumption
  <2> HIDE DEF h
  <2>6. allowance' \in [Slots -> Amounts]
    <3>1. CASE allowance' = allowance
      BY <1>1, <3>1
    <3>2. CASE /\ allowance[Slot[h.key]] >= h.amount /\ h.key # NoKey
               /\ allowance' = [allowance EXCEPT ![Slot[h.key]] = @ - h.amount]
      <4>1. allowance[Slot[h.key]] - h.amount \in Amounts
        BY <2>3, <2>4, <2>5, <3>2
      <4> QED BY <1>1, <3>2, <4>1
    <3> QED BY <2>2, <3>1, <3>2
  <2>7. reverted' \in [Requests -> BOOLEAN] /\ excuse' \in [Requests -> SUBSET Excuses]
    <3>1. Disturbed(q, h.key) \in [Requests -> SUBSET Excuses]
      BY DisturbedType
    <3>2. reverted' = reverted \/ reverted' = [reverted EXCEPT ![q] = TRUE]
      BY <2>2
    <3>3. reverted' \in [Requests -> BOOLEAN]
      BY <1>1, <3>2
    <3>4. excuse' = excuse \/ excuse' = Disturbed(q, h.key)
      BY <2>2
    <3> QED BY <1>1, <3>1, <3>3, <3>4
  <2> QED BY <1>1, <1>2, <1>7, <1>10, <2>1, <2>6, <2>7
<1>11. CASE WalkAway(q)
  <2>1. /\ stage' = [stage EXCEPT ![q] = "done"] /\ txs' = [txs EXCEPT ![q] = <<>>]
        /\ UNCHANGED <<plan, unread, allowance, reverted, excuse>>
    BY <1>11 DEF WalkAway
  <2>2. <<>> \in Seq(Txs)
    OBVIOUS
  <2> QED BY <1>1, <1>2, <2>1, <2>2
<1> QED BY <1>3, <1>4, <1>5, <1>6, <1>9, <1>10, <1>11

-----------------------------------------------------------------------------
(* The steps of other requests. *)

LEMMA Others ==
    ASSUME TypeOK, NEW r \in Requests, Sound(r), plan' = plan,
           stage'[r] = stage[r], unread'[r] = unread[r], txs'[r] = txs[r],
           reverted'[r] = reverted[r], excuse[r] \subseteq excuse'[r],
           Answering(r) /\ "disturbed" \notin excuse'[r] =>
              \A k \in KeysOf(r) : allowance'[Slot[k]] = allowance[Slot[k]]
    PROVE  Sound(r)'
<1>1. /\ KeysOf(r)' = KeysOf(r) /\ Merged(r)' = Merged(r)
      /\ BuildExcuses(r)' = BuildExcuses(r) /\ NeededAmounts(r)' = NeededAmounts(r)
  BY SamePlan
<1>2. Surplus(r)' = Surplus(r) /\ Pending(r)' = Pending(r)
      /\ (Answering(r)' <=> Answering(r))
  BY DEF Surplus, Pending, Answering
<1>3. \A k : Rest(r, k)' = Rest(r, k)
  BY <1>1, <1>2 DEF Rest, RestOf
<1>4. Fresh(r)' /\ OneApproval(r)' /\ Blamed(r)'
  BY <1>2 DEF Sound, Fresh, OneApproval, Blamed
<1>5. Shape(r)'
  BY <1>1, <1>2 DEF Sound, Shape
<1>6. ASSUME Answering(r), excuse'[r] = {}, NEW k \in KeysOf(r)
      PROVE  \/ \E n \in unread'[r] : n.key = k
             \/ \E j \in Pending(r) : txs'[r][j].key = k
             \/ allowance'[Slot[k]] >= Rest(r, k)
  <2>1. excuse[r] = {} /\ allowance'[Slot[k]] = allowance[Slot[k]]
    BY <1>6
  <2> QED BY <1>6, <2>1 DEF Sound, Covered
<1>7. Covered(r)'
  BY <1>1, <1>2, <1>3, <1>6 DEF Covered
<1>8. ASSUME Answering(r), excuse'[r] \cap {"disturbed", "respelled"} = {},
             NEW j \in Pending(r)
      PROVE  txs'[r][j].amount > allowance'[Slot[txs'[r][j].key]]
  <2>1. excuse[r] \cap {"disturbed", "respelled"} = {} /\ "disturbed" \notin excuse'[r]
    BY <1>8
  <2>2. txs[r][j].key \in KeysOf(r)
    BY <1>8, PendingIsMerged DEF Sound
  <2> QED BY <1>8, <2>1, <2>2 DEF Sound, Raising
<1>9. Raising(r)'
  BY <1>2, <1>8 DEF Raising
<1> QED BY <1>4, <1>5, <1>7, <1>9 DEF Sound

-----------------------------------------------------------------------------
(* The steps of the request itself. *)

LEMMA BuildSound ==
    ASSUME TypeOK, NEW q \in Requests, Sound(q), Build(q) PROVE Sound(q)'
<1> DEFINE b == [i \in DOMAIN plan[q] |-> Bridge(plan[q][i])]
<1>1. /\ stage[q] = "build" /\ stage'[q] = "check" /\ unread'[q] = Merged(q)
      /\ txs'[q] = b /\ excuse'[q] = BuildExcuses(q)
      /\ UNCHANGED <<plan, allowance, reverted>>
  BY DEF Build, TypeOK
<1>2. /\ KeysOf(q)' = KeysOf(q) /\ Merged(q)' = Merged(q)
      /\ BuildExcuses(q)' = BuildExcuses(q)
  BY <1>1, SamePlan
<1>3. Len(plan[q]) \in Nat /\ DOMAIN plan[q] = 1 .. Len(plan[q])
  BY RouteType
<1>4. Len(b) = Len(plan[q]) /\ DOMAIN b = DOMAIN plan[q]
  <2> HIDE DEF b
  <2>1. DOMAIN b = 1 .. Len(plan[q]) /\ b \in [1 .. Len(plan[q]) -> {b[i] : i \in DOMAIN b}]
    BY <1>3 DEF b
  <2>2. \A n \in Nat : \A f : DOMAIN f = 1 .. n => Len(f) = n
    OBVIOUS
  <2> QED BY <1>3, <2>1, <2>2
<1>5. Surplus(q)' = 0
  BY <1>1, <1>3, <1>4 DEF Surplus
<1>6. Pending(q)' = {}
  BY <1>1, <1>3, <1>4, <1>5 DEF Pending
<1>7. Fresh(q)' /\ OneApproval(q)' /\ Raising(q)' /\ Blamed(q)'
  BY <1>1, <1>6 DEF Sound, Fresh, OneApproval, Raising, Blamed
<1>8. \A j \in DOMAIN txs'[q] : ~(j <= 0) /\ txs'[q][j] = Bridge(plan[q][j - 0])
  <2>1. \A j \in DOMAIN plan[q] : ~(j <= 0) /\ j - 0 = j
    BY <1>3
  <2> QED BY <1>1, <2>1
<1>9. Shape(q)'
  BY <1>1, <1>2, <1>5, <1>8 DEF Shape
<1>10. Covered(q)'
  BY <1>1, <1>2, MergedType DEF Covered
<1> QED BY <1>7, <1>9, <1>10 DEF Sound

\* A request that is over, or never was under way.
LEMMA OverSound ==
    ASSUME TypeOK, NEW q \in Requests, Sound(q),
           stage'[q] \in {"done", "failed"}, reverted'[q] = reverted[q],
           excuse'[q] = excuse[q]
    PROVE  Sound(q)'
  BY DEF Sound, Fresh, Shape, OneApproval, Covered, Raising, Blamed, Answering

\* A need leaves the list, because the allowance suffices or its read fails.
LEMMA ReadSound ==
    ASSUME TypeOK, NEW q \in Requests, Sound(q), Suffices(q) \/ ReadFails(q)
    PROVE  Sound(q)'
<1>1. PICK n \in unread[q] :
        /\ unread'[q] = unread[q] \ {n}
        /\ \/ allowance[Slot[n.key]] >= n.amount /\ excuse'[q] = excuse[q]
           \/ excuse'[q] = excuse[q] \cup {"dropped"}
  BY DEF Suffices, ReadFails, TypeOK
<1>2. stage[q] = "check" /\ UNCHANGED <<plan, stage, txs, allowance, reverted>>
  BY DEF Suffices, ReadFails
<1>3. /\ KeysOf(q)' = KeysOf(q) /\ Merged(q)' = Merged(q)
      /\ BuildExcuses(q)' = BuildExcuses(q) /\ NeededAmounts(q)' = NeededAmounts(q)
  BY <1>2, SamePlan
<1>4. Surplus(q)' = Surplus(q) /\ Pending(q)' = Pending(q) /\ Answering(q) /\ Answering(q)'
  BY <1>2 DEF Surplus, Pending, Answering
<1>5. \A k : Rest(q, k)' = Rest(q, k)
  BY <1>2, <1>3, <1>4 DEF Rest, RestOf
<1>6. Fresh(q)' /\ OneApproval(q)' /\ Blamed(q)'
  BY <1>1, <1>2, <1>4 DEF Sound, Fresh, OneApproval, Blamed
<1>7. Shape(q)'
  BY <1>1, <1>2, <1>3, <1>4 DEF Sound, Shape
<1>8. Raising(q)'
  BY <1>1, <1>2, <1>4 DEF Sound, Raising
<1>9. ASSUME excuse'[q] = {}, NEW k \in KeysOf(q)
      PROVE  \/ \E m \in unread'[q] : m.key = k
             \/ \E j \in Pending(q) : txs[q][j].key = k
             \/ allowance[Slot[k]] >= Rest(q, k)
  <2>1. excuse[q] = {} /\ allowance[Slot[n.key]] >= n.amount
    BY <1>1, <1>9
  <2>2. CASE k = n.key
    <3>1. n \in Merged(q) /\ "wrapped" \notin BuildExcuses(q) /\ Surplus(q) >= 0
      BY <1>2, <1>4, <2>1 DEF Sound, Shape
    <3>2. n.amount = Total(q, k) /\ Total(q, k) = Rest(q, k)
      BY <2>2, <3>1, MergedIsTotal, RestIsTotal, TxsType
    <3> QED BY <2>1, <2>2, <3>2
  <2>3. CASE k # n.key
    <3>1. \/ \E m \in unread[q] : m.key = k
          \/ \E j \in Pending(q) : txs[q][j].key = k
          \/ allowance[Slot[k]] >= Rest(q, k)
      BY <1>4, <2>1 DEF Sound, Covered
    <3> QED BY <1>1, <2>3, <3>1
  <2> QED BY <2>2, <2>3
<1>10. Covered(q)'
  BY <1>2, <1>3, <1>4, <1>5, <1>9 DEF Covered
<1> QED BY <1>6, <1>7, <1>8, <1>10 DEF Sound

LEMMA FallsShortSound ==
    ASSUME TypeOK, NEW q \in Requests, Sound(q), FallsShort(q) PROVE Sound(q)'
<1>1. PICK n \in unread[q] : /\ unread'[q] = unread[q] \ {n}
                             /\ allowance[Slot[n.key]] < n.amount
                             /\ txs' = [txs EXCEPT ![q] = Put(@, Approve(n))]
  BY DEF FallsShort, TypeOK
<1>2. stage[q] = "check" /\ UNCHANGED <<plan, stage, allowance, reverted, excuse>>
  BY DEF FallsShort
<1>3. /\ KeysOf(q)' = KeysOf(q) /\ Merged(q)' = Merged(q)
      /\ BuildExcuses(q)' = BuildExcuses(q) /\ NeededAmounts(q)' = NeededAmounts(q)
  BY <1>2, SamePlan
<1>4. Answering(q) /\ Answering(q)'
  BY <1>2 DEF Answering
<1>5. n \in Merged(q) /\ Surplus(q) >= 0 /\ unread[q] \subseteq Merged(q)
  BY <1>2, <1>4 DEF Sound, Shape
<1>6. /\ Surplus(q)' = Surplus(q) + 1
      /\ txs'[q][1] = Approve(n) /\ 1 \in Pending(q)'
      /\ \A j \in DOMAIN txs'[q] \ {1} :
            j - 1 \in DOMAIN txs[q] /\ txs'[q][j] = txs[q][j - 1]
      /\ \A j \in Pending(q)' \ {1} : j - 1 \in Pending(q)
      /\ \A j \in Pending(q) : j + 1 \in Pending(q)' /\ txs'[q][j + 1] = txs[q][j]
      /\ DOMAIN txs'[q] \subseteq Nat /\ Pending(q)' \subseteq DOMAIN txs'[q]
  BY <1>1, <1>2, <1>5, Enqueue
<1>7. /\ txs'[q][1].key = n.key /\ txs'[q][1].amount = n.amount
      /\ n.key \in KeysOf(q)
  BY <1>5, <1>6, ApproveType, MergedType
<1>8. Surplus(q) \in Int
  BY TxsType
<1>9. ASSUME NEW j \in Pending(q)', j # 1
      PROVE  j - 1 \in Pending(q) /\ txs'[q][j] = txs[q][j - 1]
  <2>1. j \in DOMAIN txs'[q] \ {1} /\ j \in Pending(q)' \ {1}
    BY <1>6, <1>9
  <2> QED BY <1>6, <2>1
<1>10. \A j \in Pending(q) : txs[q][j].key # n.key
  BY <1>4 DEF Sound, OneApproval
<1>11. Fresh(q)' /\ Blamed(q)'
  BY <1>2 DEF Sound, Fresh, Blamed
<1>12. Shape(q)'
  <2>1. ASSUME NEW j \in DOMAIN txs'[q]
        PROVE  IF j <= Surplus(q) + 1
               THEN \E m \in Merged(q) : txs'[q][j] = Approve(m)
               ELSE txs'[q][j] = Bridge(plan[q][j - (Surplus(q) + 1)])
    <3>1. CASE j = 1
      BY <1>5, <1>6, <1>8, <3>1
    <3>2. CASE j # 1
      <4>1. j - 1 \in DOMAIN txs[q] /\ txs'[q][j] = txs[q][j - 1] /\ j \in Nat
        BY <1>6, <3>2
      <4>2. IF j - 1 <= Surplus(q)
            THEN \E m \in Merged(q) : txs[q][j - 1] = Approve(m)
            ELSE txs[q][j - 1] = Bridge(plan[q][(j - 1) - Surplus(q)])
        BY <1>4, <4>1 DEF Sound, Shape
      <4>3. (j - 1 <= Surplus(q) <=> j <= Surplus(q) + 1)
            /\ (j - 1) - Surplus(q) = j - (Surplus(q) + 1)
        BY <1>8, <4>1
      <4> QED BY <4>1, <4>2, <4>3
    <3> QED BY <3>1, <3>2
  <2>2. BuildExcuses(q) \subseteq excuse[q]
    BY <1>4 DEF Sound, Shape
  <2>3. unread'[q] \subseteq Merged(q) /\ Surplus(q) + 1 >= 0 /\ stage'[q] # "sign"
    BY <1>1, <1>2, <1>5, <1>8
  <2> QED BY <1>2, <1>3, <1>6, <2>1, <2>2, <2>3 DEF Shape
<1>13. OneApproval(q)'
  <2>1. \A i, j \in Pending(q)' : txs'[q][i].key = txs'[q][j].key => i = j
    <3> SUFFICES ASSUME NEW i \in Pending(q)', NEW j \in Pending(q)',
                        txs'[q][i].key = txs'[q][j].key
                 PROVE  i = j
      OBVIOUS
    <3>1. CASE i = 1 \/ j = 1
      BY <1>7, <1>9, <1>10, <3>1
    <3>2. CASE i # 1 /\ j # 1
      <4>1. i - 1 = j - 1
        BY <1>4, <1>9, <3>2 DEF Sound, OneApproval
      <4> QED BY <1>6, <4>1
    <3> QED BY <3>1, <3>2
  <2>2. \A m \in unread'[q], j \in Pending(q)' : txs'[q][j].key # m.key
    <3> SUFFICES ASSUME NEW m \in unread'[q], NEW j \in Pending(q)'
                 PROVE  txs'[q][j].key # m.key
      OBVIOUS
    <3>1. m \in unread[q] /\ m \in Merged(q) /\ m # n
      BY <1>1, <1>5
    <3>2. m.key # n.key
      BY <1>5, <3>1, MergedType
    <3>3. \A i \in Pending(q) : txs[q][i].key # m.key
      BY <1>4, <3>1 DEF Sound, OneApproval
    <3> QED BY <1>7, <1>9, <3>2, <3>3
  <2> QED BY <2>1, <2>2 DEF OneApproval
<1>14. ASSUME excuse[q] = {}, NEW k \in KeysOf(q)
       PROVE  \/ \E m \in unread'[q] : m.key = k
              \/ \E j \in Pending(q)' : txs'[q][j].key = k
              \/ allowance[Slot[k]] >= Rest(q, k)'
  <2>1. CASE k = n.key
    BY <1>6, <1>7, <2>1
  <2>2. CASE k # n.key
    <3>1. \/ \E m \in unread[q] : m.key = k
          \/ \E j \in Pending(q) : txs[q][j].key = k
          \/ allowance[Slot[k]] >= Rest(q, k)
      BY <1>4, <1>14 DEF Sound, Covered
    <3>2. RestOf(q, k)' = RestOf(q, k)
      <4>1. DOMAIN plan[q] \subseteq Nat \ {0}
        BY RouteType
      <4> QED BY <1>2, <1>5, <1>6, <1>8, <4>1 DEF RestOf
    <3>3. Rest(q, k)' = Rest(q, k)
      BY <1>3, <3>2 DEF Rest
    <3> QED BY <1>1, <1>6, <2>2, <3>1, <3>3
  <2> QED BY <2>1, <2>2
<1>15. Covered(q)'
  BY <1>2, <1>3, <1>4, <1>14 DEF Covered
<1>16. ASSUME excuse[q] \cap {"disturbed", "respelled"} = {}, NEW j \in Pending(q)'
       PROVE  txs'[q][j].amount > allowance[Slot[txs'[q][j].key]]
  <2>1. \A i \in Pending(q) : txs[q][i].amount > allowance[Slot[txs[q][i].key]]
    BY <1>4, <1>16 DEF Sound, Raising
  <2>2. n.amount > allowance[Slot[n.key]]
    <3>1. n.amount \in Nat /\ n.key \in Keys
      BY <1>5, MergedType, ModulusType
    <3>2. allowance[Slot[n.key]] \in Nat
      BY <3>1, ModulusType, SettlementAssumption DEF TypeOK, SettlementAssumption
    <3> QED BY <1>1, <3>1, <3>2
  <2> QED BY <1>7, <1>9, <2>1, <2>2
<1>17. Raising(q)'
  BY <1>2, <1>4, <1>16 DEF Raising
<1> QED BY <1>11, <1>12, <1>13, <1>15, <1>17 DEF Sound

LEMMA ReplySound ==
    ASSUME TypeOK, NEW q \in Requests, Sound(q), Reply(q) PROVE Sound(q)'
<1>1. /\ stage[q] = "check" /\ unread[q] = {} /\ stage'[q] = "sign"
      /\ UNCHANGED <<plan, unread, txs, allowance, reverted, excuse>>
  BY DEF Reply, TypeOK
<1>2. /\ KeysOf(q)' = KeysOf(q) /\ Merged(q)' = Merged(q)
      /\ BuildExcuses(q)' = BuildExcuses(q) /\ NeededAmounts(q)' = NeededAmounts(q)
  BY <1>1, SamePlan
<1>3. Surplus(q)' = Surplus(q) /\ Pending(q)' = Pending(q) /\ Answering(q) /\ Answering(q)'
  BY <1>1 DEF Surplus, Pending, Answering
<1>4. \A k : Rest(q, k)' = Rest(q, k)
  BY <1>1, <1>2, <1>3 DEF Rest, RestOf
<1>5. Fresh(q)' /\ OneApproval(q)' /\ Blamed(q)' /\ Raising(q)'
  BY <1>1, <1>3 DEF Sound, Fresh, OneApproval, Blamed, Raising
<1>6. Shape(q)'
  BY <1>1, <1>2, <1>3 DEF Sound, Shape
<1>7. Covered(q)'
  BY <1>1, <1>2, <1>3, <1>4 DEF Sound, Covered
<1> QED BY <1>5, <1>6, <1>7 DEF Sound

\* The first approval is executed: it covers what it was made for, and no other
\* pending one is of the same allowance.
LEMMA ApprovalSound ==
    ASSUME TypeOK, NEW q \in Requests, Sound(q), ExecuteApproval(q) PROVE Sound(q)'
<1> DEFINE h == Head(txs[q])
<1>1. /\ stage[q] = "sign" /\ txs[q] # <<>> /\ h.type = "approve"
      /\ allowance' = [allowance EXCEPT ![Slot[h.key]] = h.amount]
      /\ excuse' = Disturbed(q, h.key)
      /\ txs' = [txs EXCEPT ![q] = Tail(@)]
      /\ UNCHANGED <<plan, stage, unread, reverted>>
  BY DEF ExecuteApproval
<1>2. /\ KeysOf(q)' = KeysOf(q) /\ Merged(q)' = Merged(q)
      /\ BuildExcuses(q)' = BuildExcuses(q) /\ NeededAmounts(q)' = NeededAmounts(q)
  BY <1>1, SamePlan
<1>3. Answering(q) /\ Answering(q)' /\ unread[q] = {}
  BY <1>1 DEF Answering, Sound, Shape
<1>4. h = txs[q][1] /\ Surplus(q) >= 1 /\ 1 \in Pending(q)
  BY <1>1, <1>3, HeadOf DEF Sound
<1>5. PICK n \in Merged(q) : /\ h.key = n.key /\ h.amount = n.amount
                            /\ n.key \in KeysOf(q) /\ n.key \in Keys
  BY <1>3, <1>4, PendingIsMerged DEF Sound
<1> HIDE DEF h
<1>6. excuse'[q] = excuse[q]
  BY <1>1, DisturbedType
<1>7. /\ Surplus(q)' = Surplus(q) - 1
      /\ \A j \in DOMAIN txs'[q] : /\ j \in Nat \ {0} /\ j + 1 \in DOMAIN txs[q]
                                  /\ txs'[q][j] = txs[q][j + 1]
      /\ \A j \in Pending(q)' : j \in DOMAIN txs'[q] /\ j + 1 \in Pending(q)
      /\ \A j \in Pending(q) : j # 1 => j - 1 \in Pending(q)'
                                        /\ txs'[q][j - 1] = txs[q][j]
  BY <1>1, Dequeue
<1>8. Surplus(q) \in Int /\ Surplus(q)' >= 0
  BY <1>4, <1>7, TxsType
<1>9. \A k : Rest(q, k) = Total(q, k) /\ Rest(q, k)' = Total(q, k)
  <2> TAKE k
  <2>1. Rest(q, k) = Total(q, k)
    BY <1>4, <1>8, RestIsTotal
  <2>2. RestOf(q, k)' = RestOf(q, k)
    <3>1. DOMAIN plan[q] \subseteq Nat \ {0}
      BY RouteType
    <3> QED BY <1>1, <1>4, <1>7, <1>8, <3>1 DEF RestOf
  <2> QED BY <1>2, <2>1, <2>2 DEF Rest
<1>10. /\ allowance'[Slot[n.key]] = n.amount
       /\ \A s \in Slots : s # Slot[n.key] => allowance'[s] = allowance[s]
       /\ \A k \in Keys : Slot[k] \in Slots
  BY <1>1, <1>5, SettlementAssumption DEF SettlementAssumption, TypeOK
<1>11. KeysOf(q) \subseteq Keys /\ BuildExcuses(q) \subseteq excuse[q]
  BY <1>3, MergedType DEF Sound, Shape
<1>12. ASSUME "respelled" \notin excuse[q], NEW k \in KeysOf(q), k # n.key
       PROVE  allowance'[Slot[k]] = allowance[Slot[k]]
  <2>1. "respelled" \notin BuildExcuses(q)
    BY <1>11, <1>12
  <2>2. Slot[k] # Slot[n.key]
    BY <1>5, <1>12, <2>1, OneSlotEach
  <2> QED BY <1>10, <1>11, <2>2
<1>13. Fresh(q)' /\ Blamed(q)'
  BY <1>1, <1>6 DEF Sound, Fresh, Blamed
<1>14. Shape(q)'
  <2>1. ASSUME NEW j \in DOMAIN txs'[q]
        PROVE  IF j <= Surplus(q) - 1
               THEN \E m \in Merged(q) : txs'[q][j] = Approve(m)
               ELSE txs'[q][j] = Bridge(plan[q][j - (Surplus(q) - 1)])
    <3>1. j + 1 \in DOMAIN txs[q] /\ txs'[q][j] = txs[q][j + 1] /\ j \in Nat
      BY <1>7
    <3>2. IF j + 1 <= Surplus(q)
          THEN \E m \in Merged(q) : txs[q][j + 1] = Approve(m)
          ELSE txs[q][j + 1] = Bridge(plan[q][(j + 1) - Surplus(q)])
      BY <1>3, <3>1 DEF Sound, Shape
    <3>3. (j + 1 <= Surplus(q) <=> j <= Surplus(q) - 1)
          /\ (j + 1) - Surplus(q) = j - (Surplus(q) - 1)
      BY <1>8, <3>1
    <3> QED BY <3>1, <3>2, <3>3
  <2> QED BY <1>1, <1>2, <1>3, <1>6, <1>7, <1>8, <1>11, <2>1 DEF Shape
<1>15. OneApproval(q)'
  <2>1. ASSUME NEW i \in Pending(q)', NEW j \in Pending(q)',
               txs'[q][i].key = txs'[q][j].key
        PROVE  i = j
    <3>1. /\ i \in Nat /\ j \in Nat /\ i + 1 \in Pending(q) /\ j + 1 \in Pending(q)
          /\ txs'[q][i] = txs[q][i + 1] /\ txs'[q][j] = txs[q][j + 1]
      BY <1>7
    <3>2. i + 1 = j + 1
      BY <1>3, <2>1, <3>1 DEF Sound, OneApproval
    <3> QED BY <3>1, <3>2
  <2> QED BY <1>1, <1>3, <2>1 DEF OneApproval
<1>16. ASSUME excuse[q] = {}, NEW k \in KeysOf(q)
       PROVE  \/ \E j \in Pending(q)' : txs'[q][j].key = k
              \/ allowance'[Slot[k]] >= Rest(q, k)'
  <2>1. CASE k = n.key
    <3>1. n.amount = Total(q, k)
      BY <1>11, <1>16, <2>1, MergedIsTotal
    <3>2. Total(q, k) \in Nat
      BY TotalType
    <3> QED BY <1>9, <1>10, <2>1, <3>1, <3>2
  <2>2. CASE k # n.key
    <3>1. \/ \E j \in Pending(q) : txs[q][j].key = k
          \/ allowance[Slot[k]] >= Rest(q, k)
      BY <1>3, <1>16 DEF Sound, Covered
    <3>2. CASE allowance[Slot[k]] >= Rest(q, k)
      BY <1>9, <1>12, <1>16, <2>2, <3>2
    <3>3. CASE \E j \in Pending(q) : txs[q][j].key = k
      <4>1. PICK j \in Pending(q) : txs[q][j].key = k
        BY <3>3
      <4>2. j # 1
        BY <1>4, <1>5, <2>2, <4>1
      <4> QED BY <1>7, <4>1, <4>2
    <3> QED BY <3>1, <3>2, <3>3
  <2> QED BY <2>1, <2>2
<1>17. Covered(q)'
  BY <1>2, <1>3, <1>6, <1>16 DEF Covered
<1>18. ASSUME excuse[q] \cap {"disturbed", "respelled"} = {}, NEW j \in Pending(q)'
       PROVE  txs'[q][j].amount > allowance'[Slot[txs'[q][j].key]]
  <2>1. j \in Nat \ {0} /\ j + 1 \in Pending(q) /\ txs'[q][j] = txs[q][j + 1]
    BY <1>7
  <2>2. txs[q][j + 1].amount > allowance[Slot[txs[q][j + 1].key]]
    BY <1>3, <1>18, <2>1 DEF Sound, Raising
  <2>3. txs[q][j + 1].key # n.key
    <3>1. j + 1 # 1
      BY <2>1
    <3> QED BY <1>3, <1>4, <1>5, <2>1, <3>1 DEF Sound, OneApproval
  <2>4. txs[q][j + 1].key \in KeysOf(q)
    BY <1>3, <2>1, PendingIsMerged DEF Sound
  <2> QED BY <1>12, <1>18, <2>1, <2>2, <2>3, <2>4
<1>19. Raising(q)'
  BY <1>3, <1>6, <1>18 DEF Raising
<1> QED BY <1>13, <1>14, <1>15, <1>17, <1>19 DEF Sound

\* The next bridge transaction is executed: what was left of its key included it.
LEMMA BridgeSound ==
    ASSUME TypeOK, NEW q \in Requests, Sound(q), ExecuteBridge(q) PROVE Sound(q)'
<1> DEFINE h == Head(txs[q])
           b == 1 - Surplus(q)
<1>1. /\ stage[q] = "sign" /\ txs[q] # <<>> /\ h.type = "bridge"
      /\ txs' = [txs EXCEPT ![q] = Tail(@)]
      /\ UNCHANGED <<plan, stage, unread>>
  BY DEF ExecuteBridge
<1>2. \/ /\ h.key = NoKey
         /\ UNCHANGED <<allowance, reverted, excuse>>
      \/ /\ h.key # NoKey /\ allowance[Slot[h.key]] >= h.amount
         /\ allowance' = [allowance EXCEPT ![Slot[h.key]] = @ - h.amount]
         /\ excuse' = Disturbed(q, h.key) /\ reverted' = reverted
      \/ /\ h.key # NoKey /\ ~(allowance[Slot[h.key]] >= h.amount)
         /\ reverted' = [reverted EXCEPT ![q] = TRUE]
         /\ UNCHANGED <<allowance, excuse>>
  BY DEF ExecuteBridge
<1>3. /\ KeysOf(q)' = KeysOf(q) /\ Merged(q)' = Merged(q)
      /\ BuildExcuses(q)' = BuildExcuses(q) /\ NeededAmounts(q)' = NeededAmounts(q)
  BY <1>1, SamePlan
<1>4. Answering(q) /\ Answering(q)' /\ unread[q] = {}
  BY <1>1 DEF Answering, Sound, Shape
<1>5. /\ Surplus(q) <= 0 /\ Pending(q) = {} /\ b \in DOMAIN plan[q]
      /\ h.key = plan[q][b].key /\ h.amount = plan[q][b].amount
  BY <1>1, <1>4, HeadOf DEF Sound
<1> HIDE DEF h
<1>6. excuse'[q] = excuse[q]
  BY <1>2, DisturbedType
<1>7. /\ Surplus(q)' = Surplus(q) - 1
      /\ \A j \in DOMAIN txs'[q] : /\ j \in Nat \ {0} /\ j + 1 \in DOMAIN txs[q]
                                  /\ txs'[q][j] = txs[q][j + 1]
      /\ \A j \in Pending(q)' : j \in DOMAIN txs'[q] /\ j + 1 \in Pending(q)
  BY <1>1, Dequeue
<1>8. Surplus(q) \in Int /\ Pending(q)' = {} /\ DOMAIN plan[q] \subseteq Nat \ {0}
  BY <1>5, <1>7, TxsType, RouteType
<1>9. KeysOf(q) \subseteq Keys /\ BuildExcuses(q) \subseteq excuse[q]
  BY <1>4, MergedType DEF Sound, Shape
\* What is left of each key
<1>10. ASSUME NEW k, k # h.key PROVE Rest(q, k)' = Rest(q, k)
  <2>1. RestOf(q, k)' = RestOf(q, k)
    <3>1. \A i \in DOMAIN plan[q] : plan[q][i].key = k =>
             (i + Surplus(q) >= 1 <=> i + (Surplus(q) - 1) >= 1)
      BY <1>5, <1>8, <1>10 DEF b
    <3> QED BY <1>1, <1>7, <3>1 DEF RestOf
  <2> QED BY <1>3, <2>1 DEF Rest
<1>11. ASSUME NEW k, k = h.key
       PROVE  /\ Rest(q, k) = h.amount + Rest(q, k)'
              /\ Rest(q, k) \in Nat /\ Rest(q, k)' \in Nat /\ h.amount \in Nat
  <2> DEFINE R == RestOf(q, k)
             N == NeededAmounts(q)
  <2>1. b \in R
    BY <1>5, <1>8, <1>11 DEF RestOf, b
  <2>2. RestOf(q, k)' = RestOf(q, k) \ {b}
    <3>1. \A i \in DOMAIN plan[q] :
             i + (Surplus(q) - 1) >= 1 <=> i + Surplus(q) >= 1 /\ i # b
      BY <1>8 DEF b
    <3> QED BY <1>1, <1>7, <3>1 DEF RestOf
  <2>3. R \subseteq DOMAIN plan[q] /\ R \ {b} \subseteq DOMAIN plan[q]
    BY DEF RestOf
  <2>4. Rest(q, k) = SumFunctionOnSet(N, R) /\ Rest(q, k)' = SumFunctionOnSet(N, R \ {b})
    BY <1>3, <2>2 DEF Rest
  <2> HIDE DEF R
  <2>5. /\ IsFiniteSet(R) /\ (\A i \in R : N[i] \in Int)
        /\ N[b] = h.amount /\ h.amount \in Nat
        /\ SumFunctionOnSet(N, R) \in Nat
        /\ SumFunctionOnSet(N, R \ {b}) \in Nat
    BY <1>5, <2>1, <2>3, PartialSum
  <2>6. SumFunctionOnSet(N, R) = N[b] + SumFunctionOnSet(N, R \ {b})
    BY <2>1, <2>5, SumRemove
  <2> QED BY <2>4, <2>5, <2>6
<1>12. ASSUME excuse[q] = {}, NEW k \in KeysOf(q)
       PROVE  allowance[Slot[k]] >= Rest(q, k)
  BY <1>4, <1>5, <1>12 DEF Sound, Covered
<1>13. \A k \in Keys : Slot[k] \in Slots /\ allowance[Slot[k]] \in Nat
  BY ModulusType, SettlementAssumption DEF SettlementAssumption, TypeOK
<1>14. h.key # NoKey => h.key \in KeysOf(q)
  BY <1>5 DEF KeysOf
<1>15. ASSUME excuse[q] = {}
       PROVE  /\ h.key # NoKey => allowance[Slot[h.key]] >= h.amount
              /\ \A k \in KeysOf(q) : allowance'[Slot[k]] >= Rest(q, k)'
  <2>1. h.key # NoKey => allowance[Slot[h.key]] >= h.amount
    BY <1>9, <1>11, <1>12, <1>13, <1>14, <1>15
  <2>2. ASSUME NEW k \in KeysOf(q) PROVE allowance'[Slot[k]] >= Rest(q, k)'
    <3>1. CASE h.key = NoKey
      <4>1. k # h.key
        BY <3>1 DEF KeysOf
      <4> QED BY <1>2, <1>10, <1>12, <1>15, <3>1, <4>1
    <3>2. CASE h.key # NoKey
      <4>1. allowance' = [allowance EXCEPT ![Slot[h.key]] = @ - h.amount]
        BY <1>2, <2>1, <3>2
      <4>2. h.key \in Keys /\ k \in Keys
        BY <1>9, <1>14, <3>2
      <4>3. CASE k = h.key
        <5>1. allowance'[Slot[k]] = allowance[Slot[k]] - h.amount
          BY <1>13, <4>1, <4>2, <4>3 DEF TypeOK
        <5> QED BY <1>11, <1>12, <1>13, <1>15, <4>2, <4>3, <5>1
      <4>4. CASE k # h.key
        <5>1. Slot[k] # Slot[h.key]
          BY <1>9, <1>14, <1>15, <3>2, <4>4, OneSlotEach
        <5>2. allowance'[Slot[k]] = allowance[Slot[k]]
          BY <1>13, <4>1, <4>2, <5>1 DEF TypeOK
        <5> QED BY <1>10, <1>12, <1>15, <4>4, <5>2
      <4> QED BY <4>3, <4>4
    <3> QED BY <3>1, <3>2
  <2> QED BY <2>1, <2>2
<1>16. Fresh(q)' /\ OneApproval(q)' /\ Raising(q)'
  BY <1>1, <1>4, <1>8 DEF Fresh, OneApproval, Raising
<1>17. Shape(q)'
  <2>1. ASSUME NEW j \in DOMAIN txs'[q]
        PROVE  ~(j <= Surplus(q) - 1) /\ txs'[q][j] = Bridge(plan[q][j - (Surplus(q) - 1)])
    <3>1. j + 1 \in DOMAIN txs[q] /\ txs'[q][j] = txs[q][j + 1] /\ j \in Nat \ {0}
      BY <1>7
    <3>2. ~(j + 1 <= Surplus(q)) /\ ~(j <= Surplus(q) - 1)
          /\ (j + 1) - Surplus(q) = j - (Surplus(q) - 1)
      BY <1>5, <1>8, <3>1
    <3>3. txs[q][j + 1] = Bridge(plan[q][(j + 1) - Surplus(q)])
      BY <1>4, <3>1, <3>2 DEF Sound, Shape
    <3> QED BY <3>1, <3>2, <3>3
  <2> QED BY <1>1, <1>3, <1>4, <1>6, <1>7, <1>9, <2>1 DEF Shape
<1>18. Covered(q)'
  BY <1>3, <1>6, <1>15 DEF Covered
<1>19. Blamed(q)'
  <2>1. CASE reverted' = reverted
    BY <1>1, <1>6, <2>1 DEF Sound, Blamed
  <2>2. CASE h.key # NoKey /\ ~(allowance[Slot[h.key]] >= h.amount)
    BY <1>1, <1>6, <1>15, <2>2 DEF Blamed
  <2> QED BY <1>2, <2>1, <2>2
<1> QED BY <1>16, <1>17, <1>18, <1>19 DEF Sound

-----------------------------------------------------------------------------
(* A step of one request keeps the invariant of every other one. *)

LEMMA OthersSound ==
    ASSUME TypeOK, NEW q \in Requests, NEW r \in Requests, r # q, Sound(q), Sound(r),
           \/ Build(q) \/ BuildFails(q) \/ Suffices(q) \/ FallsShort(q)
           \/ ReadFails(q) \/ Reply(q) \/ ExecuteApproval(q)
           \/ ExecuteBridge(q) \/ Complete(q) \/ WalkAway(q)
    PROVE  Sound(r)'
<1>1. CASE \/ Build(q) \/ BuildFails(q) \/ Suffices(q) \/ FallsShort(q)
           \/ ReadFails(q) \/ Reply(q) \/ Complete(q) \/ WalkAway(q)
  <2>1. /\ plan' = plan /\ stage'[r] = stage[r] /\ unread'[r] = unread[r]
        /\ txs'[r] = txs[r] /\ reverted'[r] = reverted[r] /\ excuse'[r] = excuse[r]
        /\ allowance' = allowance
    BY <1>1 DEF Build, BuildFails, Suffices, FallsShort, ReadFails, Reply, Complete,
                WalkAway, TypeOK
  <2> QED BY <2>1, Others
<1>2. ASSUME ExecuteApproval(q) \/ ExecuteBridge(q)
      PROVE  /\ plan' = plan /\ stage' = stage /\ unread' = unread
             /\ txs'[r] = txs[r] /\ reverted'[r] = reverted[r]
             /\ txs[q] # <<>> /\ Answering(q)
  BY <1>2 DEF ExecuteApproval, ExecuteBridge, TypeOK, Answering
<1>3. ASSUME NEW k \in Keys, excuse' = Disturbed(q, k),
             NEW a, allowance' = [allowance EXCEPT ![Slot[k]] = a]
      PROVE  /\ excuse[r] \subseteq excuse'[r]
             /\ Answering(r) /\ "disturbed" \notin excuse'[r] =>
                   \A l \in KeysOf(r) : allowance'[Slot[l]] = allowance[Slot[l]]
  <2>1. /\ excuse[r] \subseteq excuse'[r]
        /\ Answering(r) /\ "disturbed" \notin excuse'[r] =>
              \A l \in KeysOf(r) : Slot[l] # Slot[k]
    BY <1>3, DisturbedType
  <2>2. \A l \in KeysOf(r) : Slot[l] \in Slots
    BY MergedType, SettlementAssumption DEF SettlementAssumption
  <2> QED BY <1>3, <2>1, <2>2 DEF TypeOK
<1>4. CASE ExecuteApproval(q)
  <2>1. PICK k \in Keys : k = Head(txs[q]).key
    <3>1. Head(txs[q]).type = "approve" /\ 1 \in Pending(q) /\ Head(txs[q]) = txs[q][1]
      BY <1>2, <1>4, HeadOf DEF ExecuteApproval, Sound
    <3> QED BY <1>2, <1>4, <3>1, PendingIsMerged DEF Sound
  <2>2. /\ allowance' = [allowance EXCEPT ![Slot[k]] = Head(txs[q]).amount]
        /\ excuse' = Disturbed(q, k)
    BY <1>4, <2>1 DEF ExecuteApproval
  <2> QED BY <1>2, <1>3, <1>4, <2>2, Others
<1>5. CASE ExecuteBridge(q)
  <2>1. CASE UNCHANGED <<allowance, excuse>>
    BY <1>2, <1>5, <2>1, Others
  <2>2. CASE ~UNCHANGED <<allowance, excuse>>
    <3>1. PICK k \in Keys : k = Head(txs[q]).key
      <4>1. Head(txs[q]) \in Txs /\ Head(txs[q]).key # NoKey
        BY <1>2, <1>5, <2>2, TxsType DEF ExecuteBridge
      <4> QED BY <4>1 DEF Txs
    <3>2. /\ allowance' = [allowance EXCEPT ![Slot[k]] =
                              allowance[Slot[k]] - Head(txs[q]).amount]
          /\ excuse' = Disturbed(q, k)
      BY <1>5, <2>2, <3>1 DEF ExecuteBridge
    <3> QED BY <1>2, <1>3, <1>5, <3>2, Others
  <2> QED BY <2>1, <2>2
<1> QED BY <1>1, <1>4, <1>5

LEMMA OwnSound ==
    ASSUME TypeOK, NEW q \in Requests, Sound(q),
           \/ Build(q) \/ BuildFails(q) \/ Suffices(q) \/ FallsShort(q)
           \/ ReadFails(q) \/ Reply(q) \/ ExecuteApproval(q)
           \/ ExecuteBridge(q) \/ Complete(q) \/ WalkAway(q)
    PROVE  Sound(q)'
<1>1. CASE BuildFails(q) \/ Complete(q) \/ WalkAway(q)
  <2>1. /\ stage'[q] \in {"done", "failed"} /\ reverted'[q] = reverted[q]
        /\ excuse'[q] = excuse[q]
    BY <1>1 DEF BuildFails, Complete, WalkAway, TypeOK
  <2> QED BY <2>1, OverSound
<1> QED BY <1>1, BuildSound, ReadSound, FallsShortSound, ReplySound, ApprovalSound,
           BridgeSound

-----------------------------------------------------------------------------
(* The theorems. *)

LEMMA InvInit == Init => IInv
<1> SUFFICES ASSUME Init PROVE IInv
  OBVIOUS
<1>1. TypeOK
  <2>1. <<>> \in Seq([type : {"approve", "bridge"},
                      key : Keys \cup {NoKey}, amount : Amounts])
    OBVIOUS
  <2> QED BY <2>1, SettlementAssumption DEF SettlementAssumption, Init, TypeOK, Amounts
<1>2. ASSUME NEW q \in Requests PROVE Sound(q)
  <2>1. stage[q] = "build" /\ unread[q] = {} /\ txs[q] = <<>> /\ ~reverted[q]
    BY DEF Init
  <2> QED BY <2>1 DEF Sound, Fresh, Shape, OneApproval, Covered, Raising, Blamed, Answering
<1> QED BY <1>1, <1>2 DEF IInv

LEMMA InvStep == IInv /\ [Next]_vars => IInv'
<1> SUFFICES ASSUME IInv, [Next]_vars PROVE IInv'
  OBVIOUS
<1>1. CASE UNCHANGED vars
  <2>1. TypeOK'
    BY <1>1 DEF IInv, TypeOK, vars
  <2>2. ASSUME NEW r \in Requests PROVE Sound(r)'
    BY <1>1, <2>2, Others DEF IInv, vars
  <2> QED BY <2>1, <2>2 DEF IInv
<1>2. CASE Next
  <2>1. PICK q \in Requests :
           \/ Build(q) \/ BuildFails(q) \/ Suffices(q) \/ FallsShort(q)
           \/ ReadFails(q) \/ Reply(q) \/ ExecuteApproval(q)
           \/ ExecuteBridge(q) \/ Complete(q) \/ WalkAway(q)
    BY <1>2 DEF Next
  <2>2. TypeOK'
    BY <2>1, TypeStep DEF IInv
  <2>3. ASSUME NEW r \in Requests PROVE Sound(r)'
    <3>1. CASE r = q
      BY <2>1, <3>1, OwnSound DEF IInv
    <3>2. CASE r # q
      BY <2>1, <3>2, OthersSound DEF IInv
    <3> QED BY <3>1, <3>2
  <2> QED BY <2>2, <2>3 DEF IInv
<1> QED BY <1>1, <1>2

\* While answers are computed and signed in any order, the queue of every
\* request is its pending approvals, one per key at most, and then the bridge
\* transactions that are left, and its keys are covered as Covered says.
THEOREM Soundness == Spec => []IInv
<1> QED BY InvInit, InvStep, PTL DEF Spec

\* Amounts keep to their width and allowances to theirs, whatever wraps.
THEOREM SettlementType == Spec => []TypeOK
<1>1. IInv => TypeOK
  BY DEF IInv
<1> QED BY <1>1, Soundness, PTL

\* A bridge transaction of an answer reverts only if an approval was dropped,
\* a sum wrapped, an allowance has two spellings, or someone else used it.
THEOREM RevertsAreExplained == Spec => []RevertExplained
<1>1. IInv => RevertExplained
  BY DEF IInv, Sound, Blamed, RevertExplained
<1> QED BY <1>1, Soundness, PTL

\* An approval that is executed raises the allowance it sets, unless that was
\* used since it was read or is needed under two spellings.
THEOREM ApprovalsNeverLower == Spec => NeverLowered
<1>1. ASSUME IInv, NEW q \in Requests, ExecuteApproval(q),
             excuse[q] \cap {"disturbed", "respelled"} = {}, NEW s \in Slots
      PROVE  allowance'[s] >= allowance[s]
  <2> DEFINE h == Head(txs[q])
  <2>1. /\ stage[q] = "sign" /\ txs[q] # <<>> /\ h.type = "approve"
        /\ allowance' = [allowance EXCEPT ![Slot[h.key]] = h.amount]
    BY <1>1 DEF ExecuteApproval
  <2>2. TypeOK /\ Sound(q) /\ Answering(q)
    BY <1>1, <2>1 DEF IInv, Answering
  <2>3. h = txs[q][1] /\ 1 \in Pending(q)
    BY <2>1, <2>2, HeadOf DEF Sound
  <2>4. h.amount > allowance[Slot[h.key]]
    BY <1>1, <2>2, <2>3 DEF Sound, Raising
  <2>5. h.amount \in Nat /\ allowance[s] \in Nat /\ allowance[Slot[h.key]] \in Nat
    <3>1. h.key \in Keys /\ h.amount \in Amounts
      BY <2>2, <2>3, PendingIsMerged, MergedType DEF Sound
    <3> QED BY <2>2, <3>1, ModulusType, SettlementAssumption DEF SettlementAssumption, TypeOK
  <2>6. allowance'[s] = IF s = Slot[h.key] THEN h.amount ELSE allowance[s]
    BY <2>1, <2>2 DEF TypeOK
  <2> HIDE DEF h
  <2> QED BY <2>4, <2>5, <2>6
<1>2. IInv /\ [Next]_vars =>
        [\A q \in Requests :
            ExecuteApproval(q) =>
               \/ excuse[q] \cap {"disturbed", "respelled"} # {}
               \/ \A s \in Slots : allowance'[s] >= allowance[s]]_vars
  BY <1>1
<1> QED BY <1>2, Soundness, PTL DEF Spec, NeverLowered

=============================================================================
