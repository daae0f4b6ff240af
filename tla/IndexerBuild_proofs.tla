------------------------ MODULE IndexerBuild_proofs -------------------------
(* Proofs about IndexerBuild, for any buckets, limits, prices and answers;   *)
(* and, at the end, about LowestTransferAmount.                               *)
EXTENDS IndexerBuild, LowestTransferAmount, FiniteSetTheorems, TLAPS

Pcs == {"new", "lock", "price", "quote", "failed", "built"}

Empty == [b \in Buckets |-> <<>>]

\* A bucket that is decided has finished its points, and they allow what was decided.
Decided ==
    \A b \in Buckets :
       /\ status[b] = "built" => Finished(b) /\ MayFit(b)
       /\ status[b] = "failed" => Finished(b) /\ MayFail(b)

\* Nothing is stored before every bucket is decided, and then exactly what was built.
Written ==
    /\ stage \in {"build", "store"} => store = Empty
    /\ stage \in {"store", "publish", "done"} => Settled
    /\ stage = "store" => Built # {}
    /\ stage \in {"publish", "done"} =>
          store = [b \in Buckets |-> IF status[b] = "built" THEN Data(b) ELSE <<>>]

\* A point that counts has a fee of some route.
Answered == \A b \in Buckets, i \in Points : point[b][i] = "built" => fee[b][i] \in Fees

Excused ==
    /\ stage = "panicked" =>
          "cheap" \in seen \/ \E b \in OpenBuckets : Low[b] < 0 \/ High[b] < 0
    /\ stage = "failed" /\ "refused" \notin seen =>
          \A b \in Buckets : status[b] = "failed"

IInv == TypeOK /\ Bounded /\ Decided /\ Written /\ Answered /\ Excused

-----------------------------------------------------------------------------
(* Sets of points and buckets, and the functions over them. *)

LEMMA FinitePoints == TypeOK => IsFiniteSet(Points) /\ IsFiniteSet(Buckets)
<1> SUFFICES ASSUME TypeOK PROVE IsFiniteSet(Points) /\ IsFiniteSet(Buckets)
  OBVIOUS
<1>1. count \in Int /\ BucketCount \in Int
  BY IndexerBuildAssumption DEF IndexerBuildAssumption, TypeOK
<1> QED BY <1>1, FS_Interval DEF Points, Buckets

LEMMA OneMore ==
    ASSUME NEW S, NEW T, NEW x, NEW n \in Nat, IsFiniteSet(S),
           T \subseteq S \cup {x}, Cardinality(S) < n
    PROVE  Cardinality(T) <= n
<1>1. /\ IsFiniteSet(S \cup {x}) /\ Cardinality(S) \in Nat
      /\ Cardinality(S \cup {x}) <= Cardinality(S) + 1
  BY FS_AddElement, FS_CardinalityType
<1>2. Cardinality(T) \in Nat /\ Cardinality(T) <= Cardinality(S \cup {x})
  BY <1>1, FS_Subset, FS_CardinalityType
<1>3. Cardinality(S \cup {x}) \in Nat
  BY <1>1, FS_CardinalityType
<1> QED BY <1>1, <1>2, <1>3

LEMMA TwoOfMany ==
    ASSUME NEW S, IsFiniteSet(S), Cardinality(S) >= 2
    PROVE  \E x, y \in S : x # y
<1>1. S # {}
  BY FS_EmptySet
<1>2. PICK x \in S : TRUE
  BY <1>1
<1>3. S # {x}
  BY FS_Singleton
<1> QED BY <1>2, <1>3

LEMMA NoMore ==
    ASSUME NEW S, NEW T, NEW n \in Nat, IsFiniteSet(S),
           T \subseteq S, Cardinality(S) <= n
    PROVE  Cardinality(T) <= n
<1>1. Cardinality(T) <= Cardinality(S) /\ Cardinality(T) \in Nat /\ Cardinality(S) \in Nat
  BY FS_Subset, FS_CardinalityType
<1> QED BY <1>1

LEMMA Moved ==
    ASSUME TypeOK, NEW b \in Buckets, NEW i \in Points, NEW to \in Pcs, Move(b, i, to)
    PROVE  /\ point' \in [Buckets -> [Points -> Pcs]]
           /\ point'[b][i] = to
           /\ \A j \in Points \ {i} : point'[b][j] = point[b][j]
           /\ \A c \in Buckets \ {b} : point'[c] = point[c]
<1>1. point \in [Buckets -> [Points -> Pcs]]
  BY DEF TypeOK, Pcs
<1> QED BY <1>1 DEF Move

LEMMA LimitsAreNat == BucketLimit \in Nat /\ PointLimit \in Nat
BY IndexerBuildAssumption DEF IndexerBuildAssumption

-----------------------------------------------------------------------------
(* Steps of one point leave what is decided about other buckets alone. *)

LEMMA PointKeepsDecided ==
    ASSUME IInv, count' = count, status' = status, NEW b \in Buckets, NEW i \in Points,
           NEW to \in Pcs, Move(b, i, to), status[b] = "open"
    PROVE  Decided'
<1>1. \A c \in Buckets \ {b} : point'[c] = point[c]
  BY Moved DEF IInv
<1>2. Points' = Points
  BY DEF Points
<1>3. \A c \in Buckets \ {b} : \A pcs : In(c, pcs)' = In(c, pcs)
  BY <1>1, <1>2 DEF In
<1>4. \A c \in Buckets \ {b} :
         (Finished(c)' <=> Finished(c)) /\ (MayFit(c)' <=> MayFit(c))
         /\ (MayFail(c)' <=> MayFail(c))
  BY <1>2, <1>3 DEF Finished, MayFit, MayFail, Good
<1> QED BY <1>4 DEF IInv, Decided

\* The mutex, and the number of points under way, when a point moves on.
LEMMA PointKeepsBounded ==
    ASSUME IInv, count' = count, status' = status, NEW b \in Buckets, NEW i \in Points,
           NEW to \in Pcs, Move(b, i, to), status[b] = "open",
           to \in {"lock", "price", "quote"} =>
              i \in InFlight(b) \/ Room(InFlight(b), PointLimit),
           \A c \in Buckets, j \in Points :
              (lock' = <<c, j>>) <=> (IF c = b /\ j = i THEN to = "price"
                                      ELSE lock = <<c, j>>)
    PROVE  Bounded'
<1>0. TypeOK /\ Bounded
  BY DEF IInv
<1>1. /\ point'[b][i] = to
      /\ \A j \in Points \ {i} : point'[b][j] = point[b][j]
      /\ \A c \in Buckets \ {b} : point'[c] = point[c]
  BY <1>0, Moved
<1>2. Points' = Points /\ OpenBuckets' = OpenBuckets
  BY DEF Points, OpenBuckets
<1>3. \A c \in Buckets \ {b} : InFlight(c)' = InFlight(c)
  BY <1>1, <1>2 DEF In, InFlight
<1>4. InFlight(b)' \subseteq InFlight(b) \cup {i}
  BY <1>1, <1>2 DEF In, InFlight
<1>5. IsFiniteSet(InFlight(b))
  <2>1. InFlight(b) \subseteq Points
    BY DEF In, InFlight
  <2> QED BY <2>1, <1>0, FinitePoints, FS_Subset
<1>6. Cardinality(InFlight(b)') <= PointLimit
  <2>1. CASE Room(InFlight(b), PointLimit)
    BY <2>1, <1>4, <1>5, OneMore, LimitsAreNat DEF Room
  <2>2. CASE ~Room(InFlight(b), PointLimit)
    <3>1. InFlight(b)' \subseteq InFlight(b)
      BY <2>2, <1>1, <1>2 DEF In, InFlight
    <3>2. Cardinality(InFlight(b)) <= PointLimit
      BY <1>0 DEF Bounded
    <3> QED BY <3>1, <3>2, <1>5, NoMore, LimitsAreNat
  <2> QED BY <2>1, <2>2
<1>7. \A c \in Buckets : Cardinality(InFlight(c)') <= PointLimit
  BY <1>0, <1>3, <1>6 DEF Bounded
<1>8. \A c \in Buckets : InFlight(c)' # {} => status'[c] = "open"
  BY <1>0, <1>3 DEF Bounded
<1>9. \A c \in Buckets, j \in Points' : point'[c][j] = "price" <=> lock' = <<c, j>>
  BY <1>0, <1>1, <1>2 DEF Bounded
<1> QED BY <1>0, <1>2, <1>7, <1>8, <1>9 DEF Bounded

\* A point below zero is due to a bound below zero.
LEMMA NegativePoint ==
    ASSUME TypeOK, NEW b \in Buckets, NEW i \in Points, Low[b] >= 0, High[b] >= 0
    PROVE  ~(Observed(b, i) < 0)
<1>1. /\ count \in Nat /\ i \in Nat /\ i < count /\ Low[b] \in Nat /\ High[b] \in Nat
  <2>1. count \in Nat /\ Low[b] \in Int /\ High[b] \in Int
    BY IndexerBuildAssumption DEF IndexerBuildAssumption, TypeOK
  <2> QED BY <2>1 DEF Points
<1> DEFINE k == count - i
<1>2. k \in Nat /\ count = k + i
  BY <1>1
<1> HIDE DEF k
<1>3. Low[b] * count = Low[b] * k + Low[b] * i /\ Low[b] * k \in Nat /\ Low[b] * i \in Nat
  BY <1>1, <1>2
<1>4. i * (High[b] - Low[b]) = i * High[b] - Low[b] * i /\ i * High[b] \in Nat
  BY <1>1
<1>5. Observed(b, i) = Low[b] * k + i * High[b]
  BY <1>3, <1>4 DEF Observed
<1> QED BY <1>3, <1>4, <1>5

\* A point under way belongs to an open bucket.
LEMMA UnderWay ==
    ASSUME IInv, NEW b \in Buckets, NEW i \in Points,
           point[b][i] \in {"lock", "price", "quote"}
    PROVE  i \in InFlight(b) /\ status[b] = "open"
<1>1. i \in InFlight(b)
  BY DEF In, InFlight
<1> QED BY <1>1 DEF IInv, Bounded


-----------------------------------------------------------------------------
LEMMA InitInv == Init => IInv
<1> SUFFICES ASSUME Init PROVE IInv
  OBVIOUS
<1>1. TypeOK
  BY DEF Init, TypeOK
<1>2. Decided /\ Written /\ Answered /\ Excused
  BY DEF Init, Decided, Written, Answered, Excused, Empty
<1>3. Bounded
  <2>1. OpenBuckets = {} /\ \A b \in Buckets : InFlight(b) = {}
    BY DEF Init, OpenBuckets, InFlight, In
  <2>2. Cardinality({}) = 0 /\ 0 <= BucketLimit /\ 0 <= PointLimit
    BY FS_EmptySet, LimitsAreNat
  <2>3. \A b \in Buckets, i \in Points : point[b][i] # "price" /\ lock # <<b, i>>
    BY IndexerBuildAssumption DEF Init, Points, IndexerBuildAssumption
  <2> QED BY <2>1, <2>2, <2>3 DEF Bounded
<1> QED BY <1>1, <1>2, <1>3 DEF IInv

LEMMA TypeStep == TypeOK /\ Next => TypeOK'
<1> SUFFICES ASSUME TypeOK, Next PROVE TypeOK'
  OBVIOUS
<1> USE DEF TypeOK
<1>1. ASSUME NEW b \in Buckets, StartBucket(b) PROVE TypeOK'
  BY <1>1 DEF StartBucket, Points
<1>2. ASSUME NEW b \in Buckets, FinishBucket(b) PROVE TypeOK'
  BY <1>2 DEF FinishBucket, Points
<1>3. ASSUME NEW b \in Buckets, NEW i \in Points, PointStep(b, i) PROVE TypeOK'
  <2>0. <<b, i>> \in Buckets \X Points
    OBVIOUS
  <2>1. CASE StartPoint(b, i)
    BY <2>1, Moved DEF StartPoint, Points, Pcs
  <2>2. CASE LockProvider(b, i)
    BY <2>0, <2>2, Moved DEF LockProvider, Points, Pcs
  <2>3. CASE PriceFails(b, i)
    BY <2>3, Moved DEF PriceFails, Points, Pcs
  <2>4. CASE PriceArrives(b, i)
    BY <2>4, Moved DEF PriceArrives, Points, Pcs
  <2>5. CASE AmountTooLow(b, i) \/ PriceTooLow(b, i)
    BY <2>5 DEF AmountTooLow, PriceTooLow, Points
  <2>6. CASE QuoteArrives(b, i)
    <3>1. PICK a \in Answers : \E f \in LeastFees(a) : fee' = [fee EXCEPT ![b][i] = f]
      BY <2>6 DEF QuoteArrives
    <3>2. PICK f \in LeastFees(a) : fee' = [fee EXCEPT ![b][i] = f]
      BY <3>1
    <3>3. f \in Fees
      BY <3>2 DEF LeastFees, WellFormed, Fees
    <3>4. fee' \in [Buckets -> [Points -> Fees \cup {0}]]
      BY <3>2, <3>3
    <3> QED BY <2>6, <3>4, Moved DEF QuoteArrives, Points, Pcs
  <2>7. CASE QuoteFails(b, i)
    BY <2>7, Moved DEF QuoteFails, Points, Pcs
  <2> QED BY <1>3, <2>1, <2>2, <2>3, <2>4, <2>5, <2>6, <2>7 DEF PointStep
<1>4. CASE NoneBuilt \/ SomeBuilt \/ Publish \/ PublishFails
  BY <1>4 DEF NoneBuilt, SomeBuilt, Publish, PublishFails, End, Points
<1>5. \A b \in Buckets : DOMAIN Stored[b] \subseteq Points
  BY DEF Stored, Data, Good, In
<1>6. CASE SetMultiple \/ SetMultipleFails
  BY <1>5, <1>6 DEF SetMultiple, SetMultipleFails, End, Points
<1> QED BY <1>1, <1>2, <1>3, <1>4, <1>6 DEF Next

LEMMA AnsweredStep ==
    ASSUME IInv, NEW b \in Buckets, NEW i \in Points, PointStep(b, i)
    PROVE  Answered'
<1>0. TypeOK /\ Answered
  BY DEF IInv
<1>1. count' = count /\ Points' = Points
  BY DEF PointStep, StartPoint, LockProvider, PriceFails, PriceArrives, AmountTooLow, PriceTooLow,
         QuoteArrives, QuoteFails, Points
<1>2. ASSUME NEW to \in Pcs \ {"built"}, Move(b, i, to), fee' = fee PROVE Answered'
  BY <1>0, <1>1, <1>2, Moved DEF Answered
<1>3. CASE AmountTooLow(b, i) \/ PriceTooLow(b, i)
  BY <1>0, <1>1, <1>3 DEF AmountTooLow, PriceTooLow, Answered
<1>4. CASE QuoteArrives(b, i)
  <2>1. PICK a \in Answers : \E f \in LeastFees(a) : fee' = [fee EXCEPT ![b][i] = f]
    BY <1>4 DEF QuoteArrives
  <2>2. PICK f \in LeastFees(a) : fee' = [fee EXCEPT ![b][i] = f]
    BY <2>1
  <2>3. f \in Fees
    BY <2>2 DEF LeastFees, WellFormed, Fees
  <2>4. /\ fee'[b][i] = f
        /\ \A j \in Points \ {i} : fee'[b][j] = fee[b][j]
        /\ \A c \in Buckets \ {b} : fee'[c] = fee[c]
    BY <1>0, <2>2 DEF TypeOK
  <2>5. /\ \A j \in Points \ {i} : point'[b][j] = point[b][j]
        /\ \A c \in Buckets \ {b} : point'[c] = point[c]
    BY <1>0, <1>4, Moved DEF QuoteArrives, Pcs
  <2> QED BY <1>0, <1>1, <2>3, <2>4, <2>5 DEF Answered
<1>5. CASE StartPoint(b, i) \/ LockProvider(b, i) \/ PriceFails(b, i) \/ PriceArrives(b, i)
           \/ QuoteFails(b, i)
  <2>1. PICK to \in Pcs \ {"built"} : Move(b, i, to)
    BY <1>5 DEF StartPoint, LockProvider, PriceFails, PriceArrives, QuoteFails, Pcs
  <2>2. fee' = fee
    BY <1>5 DEF StartPoint, LockProvider, PriceFails, PriceArrives, QuoteFails
  <2> QED BY <1>2, <2>1, <2>2
<1> QED BY <1>3, <1>4, <1>5 DEF PointStep

LEMMA PointStepInv ==
    ASSUME IInv, TypeOK', NEW b \in Buckets, NEW i \in Points, PointStep(b, i)
    PROVE  IInv'
<1>0. TypeOK /\ Bounded /\ Decided /\ Written /\ Excused /\ Answered'
  BY AnsweredStep DEF IInv
<1>1. stage = "build"
  BY DEF PointStep, StartPoint, LockProvider, PriceFails, PriceArrives, AmountTooLow, PriceTooLow,
         QuoteArrives, QuoteFails
<1>2. CASE AmountTooLow(b, i) \/ PriceTooLow(b, i)
  <2>1. /\ UNCHANGED <<count, status, point, fee, lock, store>>
        /\ stage' = "panicked" /\ point[b][i] = "price"
        /\ "cheap" \in seen' \/ Observed(b, i) < 0
    BY <1>2 DEF AmountTooLow, PriceTooLow
  <2>2. Points' = Points /\ \A c, pcs : In(c, pcs)' = In(c, pcs)
    BY <2>1 DEF Points, In
  <2>3. Bounded'
    BY <1>0, <2>1, <2>2 DEF Bounded, OpenBuckets, InFlight
  <2>4. Decided'
    BY <1>0, <2>1, <2>2 DEF Decided, Finished, MayFit, MayFail, Good
  <2>5. OpenBuckets' = OpenBuckets /\ b \in OpenBuckets
    BY <2>1, UnderWay DEF OpenBuckets
  <2>6. Observed(b, i) < 0 => Low[b] < 0 \/ High[b] < 0
    <3>1. Low[b] \in Int /\ High[b] \in Int
      BY IndexerBuildAssumption DEF IndexerBuildAssumption
    <3> QED BY <1>0, <3>1, NegativePoint
  <2>7. Written' /\ Excused'
    BY <2>1, <2>5, <2>6 DEF Written, Excused
  <2> QED BY <1>0, <2>3, <2>4, <2>7 DEF IInv
<1>3. ASSUME NEW to \in Pcs, Move(b, i, to), status[b] = "open",
             UNCHANGED <<count, status, stage, store, seen>>,
             to \in {"lock", "price", "quote"} =>
                i \in InFlight(b) \/ Room(InFlight(b), PointLimit),
             \A c \in Buckets, j \in Points :
                (lock' = <<c, j>>) <=> (IF c = b /\ j = i THEN to = "price"
                                        ELSE lock = <<c, j>>)
      PROVE  IInv'
  <2>1. Decided'
    BY <1>3, PointKeepsDecided
  <2>2. Bounded'
    BY <1>3, PointKeepsBounded
  <2>3. Written'
    BY <1>0, <1>1, <1>3 DEF Written, Empty
  <2>4. Excused'
    BY <1>1, <1>3 DEF Excused
  <2> QED BY <1>0, <2>1, <2>2, <2>3, <2>4 DEF IInv
<1>4. \A c \in Buckets, j \in Points : Nobody # <<c, j>>
  BY IndexerBuildAssumption DEF IndexerBuildAssumption, Points
<1>5. \A c \in Buckets, j \in Points : point[c][j] = "price" <=> lock = <<c, j>>
  BY <1>0 DEF Bounded
<1>6. CASE StartPoint(b, i)
  <2>1. point[b][i] = "new" /\ Move(b, i, "lock") /\ status[b] = "open" /\ lock' = lock
        /\ UNCHANGED <<count, status, stage, store, seen>>
        /\ Room(InFlight(b), PointLimit)
    BY <1>6 DEF StartPoint
  <2> QED BY <1>3, <1>5, <2>1 DEF Pcs
<1>7. CASE LockProvider(b, i)
  <2>1. point[b][i] = "lock" /\ Move(b, i, "price") /\ lock = Nobody /\ lock' = <<b, i>>
        /\ UNCHANGED <<count, status, stage, store, seen>>
    BY <1>7 DEF LockProvider
  <2>2. i \in InFlight(b) /\ status[b] = "open"
    BY <2>1, UnderWay
  <2> QED BY <1>3, <1>4, <2>1, <2>2 DEF Pcs
<1>8. CASE PriceFails(b, i)
  <2>1. point[b][i] = "price" /\ Move(b, i, "failed") /\ lock' = Nobody
        /\ UNCHANGED <<count, status, stage, store, seen>>
    BY <1>8 DEF PriceFails
  <2>2. i \in InFlight(b) /\ status[b] = "open" /\ lock = <<b, i>>
    BY <1>5, <2>1, UnderWay
  <2> QED BY <1>3, <1>4, <2>1, <2>2 DEF Pcs
<1>9. CASE PriceArrives(b, i)
  <2>1. point[b][i] = "price" /\ Move(b, i, "quote") /\ lock' = Nobody
        /\ UNCHANGED <<count, status, stage, store, seen>>
    BY <1>9 DEF PriceArrives
  <2>2. i \in InFlight(b) /\ status[b] = "open" /\ lock = <<b, i>>
    BY <1>5, <2>1, UnderWay
  <2> QED BY <1>3, <1>4, <2>1, <2>2 DEF Pcs
<1>10. CASE QuoteArrives(b, i) \/ QuoteFails(b, i)
  <2>1. PICK to \in {"built", "failed"} : Move(b, i, to)
    BY <1>10 DEF QuoteArrives, QuoteFails
  <2>2. point[b][i] = "quote" /\ lock' = lock
        /\ UNCHANGED <<count, status, stage, store, seen>>
    BY <1>10 DEF QuoteArrives, QuoteFails
  <2>3. i \in InFlight(b) /\ status[b] = "open" /\ lock # <<b, i>>
    BY <1>5, <2>2, UnderWay
  <2> QED BY <1>3, <2>1, <2>2, <2>3 DEF Pcs
<1> QED
  BY <1>2, <1>6, <1>7, <1>8, <1>9, <1>10 DEF PointStep

LEMMA StartBucketInv ==
    ASSUME IInv, TypeOK', NEW b \in Buckets, StartBucket(b) PROVE IInv'
<1>0. TypeOK /\ Bounded /\ Decided /\ Written /\ Excused
  BY DEF IInv
<1>1. /\ stage = "build" /\ status[b] = "new" /\ Room(OpenBuckets, BucketLimit)
      /\ status' = [status EXCEPT ![b] = "open"]
      /\ UNCHANGED <<count, point, fee, lock, stage, store, seen>>
  BY DEF StartBucket
<1>2. status'[b] = "open" /\ \A c \in Buckets \ {b} : status'[c] = status[c]
  BY <1>0, <1>1 DEF TypeOK
<1>3. Points' = Points /\ \A c, pcs : In(c, pcs)' = In(c, pcs)
  BY <1>1 DEF Points, In
<1>4. Bounded'
  <2>1. OpenBuckets' \subseteq OpenBuckets \cup {b}
    BY <1>2 DEF OpenBuckets
  <2>2. IsFiniteSet(OpenBuckets)
    BY <1>0, FinitePoints, FS_Subset DEF OpenBuckets
  <2>3. Cardinality(OpenBuckets') <= BucketLimit
    BY <1>1, <2>1, <2>2, OneMore, LimitsAreNat DEF Room
  <2> QED BY <1>0, <1>1, <1>2, <1>3, <2>3 DEF Bounded, InFlight
<1>5. Decided'
  BY <1>0, <1>1, <1>2, <1>3 DEF Decided, Finished, MayFit, MayFail, Good
<1>6. Written' /\ Answered' /\ Excused'
  BY <1>0, <1>1, <1>3 DEF IInv, Written, Answered, Excused, Empty
<1> QED BY <1>4, <1>5, <1>6 DEF IInv

LEMMA FinishBucketInv ==
    ASSUME IInv, TypeOK', NEW b \in Buckets, FinishBucket(b) PROVE IInv'
<1>0. TypeOK /\ Bounded /\ Decided /\ Written /\ Excused
  BY DEF IInv
<1>1. /\ stage = "build" /\ status[b] = "open" /\ Finished(b)
      /\ UNCHANGED <<count, point, fee, lock, stage, store, seen>>
  BY DEF FinishBucket
<1>2. PICK s \in {"built", "failed"} :
          /\ status' = [status EXCEPT ![b] = s]
          /\ s = "built" => MayFit(b)
          /\ s = "failed" => MayFail(b)
  BY DEF FinishBucket
<1>3. status'[b] = s /\ \A c \in Buckets \ {b} : status'[c] = status[c]
  BY <1>0, <1>2 DEF TypeOK
<1>4. Points' = Points /\ \A c, pcs : In(c, pcs)' = In(c, pcs)
  BY <1>1 DEF Points, In
<1>5. Bounded'
  <2>1. OpenBuckets' \subseteq OpenBuckets
    BY <1>3 DEF OpenBuckets
  <2>2. IsFiniteSet(OpenBuckets)
    BY <1>0, FinitePoints, FS_Subset DEF OpenBuckets
  <2>3. Cardinality(OpenBuckets') <= BucketLimit
    BY <1>0, <2>1, <2>2, NoMore, LimitsAreNat DEF Bounded
  <2>4. InFlight(b) = {}
    BY <1>1 DEF Finished, InFlight, In
  <2> QED BY <1>0, <1>1, <1>3, <1>4, <2>3, <2>4 DEF Bounded, InFlight
<1>6. Decided'
  BY <1>0, <1>1, <1>2, <1>3, <1>4 DEF Decided, Finished, MayFit, MayFail, Good
<1>7. Written' /\ Answered' /\ Excused'
  BY <1>0, <1>1, <1>4 DEF IInv, Written, Answered, Excused, Empty
<1> QED BY <1>5, <1>6, <1>7 DEF IInv

\* The steps after the last bucket is decided.
LEMMA StageInv ==
    ASSUME IInv, TypeOK',
           NoneBuilt \/ SomeBuilt \/ SetMultiple \/ SetMultipleFails
              \/ Publish \/ PublishFails
    PROVE  IInv'
<1>0. TypeOK /\ Bounded /\ Decided /\ Written /\ Excused
  BY DEF IInv
<1>1. UNCHANGED <<count, status, point, fee, lock>>
  BY DEF NoneBuilt, SomeBuilt, SetMultiple, SetMultipleFails, Publish, PublishFails, End
<1>2. Points' = Points /\ \A c, pcs : In(c, pcs)' = In(c, pcs)
  BY <1>1 DEF Points, In
<1>3. Bounded'
  BY <1>0, <1>1, <1>2 DEF Bounded, OpenBuckets, InFlight
<1>4. Decided'
  BY <1>0, <1>1, <1>2 DEF Decided, Finished, MayFit, MayFail, Good
<1>5. /\ Settled' = Settled /\ Built' = Built /\ Answered'
      /\ \A b \in Buckets : Data(b)' = Data(b)
  BY <1>1, <1>2 DEF IInv, Settled, Built, Data, Good, Answered
<1>6. CASE NoneBuilt
  <2>1. stage' = "failed" /\ \A b \in Buckets : status'[b] = "failed"
    BY <1>0, <1>1, <1>6 DEF NoneBuilt, Settled, Built, End
  <2> QED BY <1>3, <1>4, <1>5, <2>1 DEF IInv, Written, Excused
<1>7. CASE SomeBuilt
  <2>1. stage' = "store" /\ stage = "build" /\ store' = store /\ Settled /\ Built # {}
    BY <1>7 DEF SomeBuilt, End
  <2> QED BY <1>0, <1>3, <1>4, <1>5, <2>1 DEF IInv, Written, Excused, Empty
<1>8. CASE SetMultiple
  <2>1. stage' = "publish" /\ stage = "store" /\ store' = Stored
    BY <1>8 DEF SetMultiple, End
  <2>2. Stored = [b \in Buckets |-> IF status[b] = "built" THEN Data(b) ELSE <<>>]
    BY <1>0, <2>1 DEF Stored, Built, Written, Empty
  <2>3. store' = [b \in Buckets |-> IF status'[b] = "built" THEN Data(b)' ELSE <<>>]
    BY <1>1, <1>5, <2>1, <2>2
  <2> QED BY <1>0, <1>3, <1>4, <1>5, <2>1, <2>3 DEF IInv, Written, Excused
<1>9. CASE SetMultipleFails \/ PublishFails
  <2>1. stage' = "failed" /\ "refused" \in seen'
    BY <1>9 DEF SetMultipleFails, PublishFails, End
  <2> QED BY <1>3, <1>4, <1>5, <2>1 DEF IInv, Written, Excused
<1>10. CASE Publish
  <2>1. stage' = "done" /\ stage = "publish" /\ store' = store
    BY <1>10 DEF Publish, End
  <2>2. store' = [b \in Buckets |-> IF status'[b] = "built" THEN Data(b)' ELSE <<>>]
    BY <1>0, <1>1, <1>5, <2>1 DEF Written
  <2> QED BY <1>0, <1>3, <1>4, <1>5, <2>1, <2>2 DEF IInv, Written, Excused
<1> QED BY <1>6, <1>7, <1>8, <1>9, <1>10

LEMMA StutterInv == IInv /\ UNCHANGED vars => IInv'
<1> SUFFICES ASSUME IInv, UNCHANGED vars PROVE IInv'
  OBVIOUS
<1>0. UNCHANGED <<count, status, point, fee, lock, stage, store, seen>>
  BY DEF vars
<1>1. /\ Points' = Points /\ OpenBuckets' = OpenBuckets /\ Settled' = Settled
      /\ Built' = Built
      /\ \A c, pcs : In(c, pcs)' = In(c, pcs)
  BY <1>0 DEF Points, In, OpenBuckets, Settled, Built
<1>2. TypeOK'
  BY <1>0, <1>1 DEF IInv, TypeOK
<1>3. Bounded'
  BY <1>0, <1>1 DEF IInv, Bounded, InFlight
<1>4. Decided'
  BY <1>0, <1>1 DEF IInv, Decided, Finished, MayFit, MayFail, Good
<1>5. Written' /\ Answered' /\ Excused'
  BY <1>0, <1>1 DEF IInv, Written, Answered, Excused, Empty, Data, Good
<1> QED BY <1>2, <1>3, <1>4, <1>5 DEF IInv

LEMMA NextInv == IInv /\ [Next]_vars => IInv'
<1> SUFFICES ASSUME IInv, Next PROVE IInv'
  BY StutterInv
<1>1. TypeOK'
  BY TypeStep DEF IInv
<1> QED
  BY <1>1, StartBucketInv, FinishBucketInv, PointStepInv, StageInv DEF Next

-----------------------------------------------------------------------------
\* IInv is an inductive invariant of a run of the indexer.
THEOREM BuildInductive == Spec => []IInv
BY InitInv, NextInv, PTL DEF Spec

\* The fan-outs keep to their limits and the mutex to one task, for any number
\* of buckets and points (indexer.rs:14-15, 80-141, 217-227).
THEOREM FanOutIsBounded == Spec => []Bounded
<1>1. IInv => Bounded
  BY DEF IInv
<1> QED BY <1>1, BuildInductive, PTL

\* What is stored for a bucket depends on its own points and nothing else
\* (indexer.rs:150-175).
THEOREM PointsDecide == Spec => []OwnPointsDecide
<1>1. IInv => OwnPointsDecide
  <2> SUFFICES ASSUME IInv, stage \in {"publish", "done"}, NEW b \in Buckets
               PROVE  /\ store[b] \in {<<>>, Data(b)}
                      /\ Cardinality(Good(b)) < 2 => store[b] = <<>>
                      /\ Cardinality(Good(b)) >= 2 /\ Low[b] < High[b] =>
                            store[b] = Data(b)
    BY DEF OwnPointsDecide
  <2>1. store[b] = IF status[b] = "built" THEN Data(b) ELSE <<>>
    BY DEF IInv, Written
  <2>2. status[b] \in {"built", "failed"}
    BY DEF IInv, Written, Settled
  <2>3. Cardinality(Good(b)) \in Nat
    <3>1. Good(b) \subseteq Points
      BY DEF Good, In
    <3> QED BY <3>1, FinitePoints, FS_Subset, FS_CardinalityType DEF IInv
  <2>4. Low[b] \in Int /\ High[b] \in Int
    BY IndexerBuildAssumption DEF IndexerBuildAssumption
  <2>5. CASE status[b] = "built"
    BY <2>1, <2>3, <2>5 DEF IInv, Decided, MayFit
  <2>6. CASE status[b] = "failed"
    BY <2>1, <2>3, <2>4, <2>6 DEF IInv, Decided, MayFail
  <2> QED BY <2>2, <2>5, <2>6
<1> QED BY <1>1, BuildInductive, PTL

LEMMA Products ==
    /\ \A x, y \in Int : x * y \in Int /\ x * y = y * x
    /\ \A x, y, z \in Int : (x + y) * z = x * z + y * z
    /\ \A x, y \in Nat : x * y \in Nat
    /\ \A x \in Int : 1 * x = x
  OBVIOUS

LEMMA Scales ==
    ASSUME NEW i \in Nat, NEW n \in Nat, NEW d \in Nat, i < n
    PROVE  /\ i * d \in Nat
           /\ i * d = 0 => i = 0 \/ d = 0
           /\ d > 0 => i * d < n * d
<1> DEFINE k == n - i - 1
<1>1. k \in Nat /\ k + 1 \in Nat /\ n = i + (k + 1)
  OBVIOUS
<1> HIDE DEF k
<1>2. k * d \in Nat /\ i * d \in Nat
  BY <1>1, Products
<1>3. n * d = i * d + (k * d + d)
  <2>1. (k + 1) * d = k * d + d
    BY <1>1, Products
  <2>2. (i + (k + 1)) * d = i * d + (k + 1) * d
    BY <1>1, Products
  <2> QED BY <1>1, <2>1, <2>2
<1>4. i * d = 0 => i = 0 \/ d = 0
  OBVIOUS
<1> QED BY <1>2, <1>3, <1>4

\* A point lies between the bounds of its bucket, and on the upper one only
\* in a bucket of one amount (indexer.rs:47-57).
LEMMA ObservedInRange ==
    ASSUME TypeOK, NEW b \in Buckets, NEW i \in Points, Low[b] <= High[b]
    PROVE  /\ Observed(b, i) \in Int
           /\ Low[b] * count <= Observed(b, i)
           /\ Observed(b, i) <= High[b] * count
           /\ Low[b] < High[b] => Observed(b, i) < High[b] * count
<1>1. /\ count \in Nat /\ i \in Nat /\ i < count
      /\ Low[b] \in Int /\ High[b] \in Int /\ High[b] - Low[b] \in Nat
  <2>1. count \in Nat /\ Low[b] \in Int /\ High[b] \in Int
    BY IndexerBuildAssumption DEF IndexerBuildAssumption, TypeOK
  <2> QED BY <2>1 DEF Points
<1> DEFINE d == High[b] - Low[b]
<1>2. i * d \in Nat /\ (d > 0 => i * d < count * d) /\ (d = 0 => i * d = 0)
  BY <1>1, Scales
<1>3. Low[b] * count \in Int /\ count * d \in Nat
      /\ Low[b] * count + count * d = High[b] * count
  <2>1. Low[b] + d = High[b] /\ d \in Int
    BY <1>1
  <2>2. (Low[b] + d) * count = Low[b] * count + d * count /\ d * count = count * d
        /\ Low[b] * count \in Int /\ count * d \in Nat
    BY <1>1, <2>1, Products
  <2> QED BY <2>1, <2>2
<1>4. Observed(b, i) = Low[b] * count + i * d
  BY DEF Observed
<1>5. (d > 0 <=> Low[b] < High[b]) /\ (d > 0 \/ d = 0)
  BY <1>1
<1> HIDE DEF d
<1>6. ASSUME NEW x \in Int, NEW y \in Nat, NEW z \in Nat, NEW o, o = x + y
      PROVE  o \in Int /\ x <= o /\ (y < z => o < x + z) /\ (y = 0 => o <= x + z)
  BY <1>6
<1>7. Observed(b, i) \in Int /\ Low[b] * count <= Observed(b, i)
      /\ (i * d < count * d => Observed(b, i) < Low[b] * count + count * d)
      /\ (i * d = 0 => Observed(b, i) <= Low[b] * count + count * d)
  BY <1>2, <1>3, <1>4, <1>6
<1>8. High[b] * count \in Int
  BY <1>3
<1> QED BY <1>2, <1>3, <1>5, <1>7, <1>8

\* Bounds can be compared by the amounts they are times the number of points.
LEMMA Scaling ==
    ASSUME NEW x \in Int, NEW y \in Int, NEW n \in Nat
    PROVE  /\ x * n \in Int /\ y * n \in Int
           /\ x <= y => x * n <= y * n
<1>1. ASSUME x <= y PROVE x * n <= y * n
  <2> DEFINE d == y - x
  <2>1. d \in Nat /\ d \in Int /\ x + d = y
    BY <1>1
  <2> HIDE DEF d
  <2>2. (x + d) * n = x * n + d * n /\ d * n \in Nat /\ x * n \in Int
    BY <2>1, Products
  <2> QED BY <2>1, <2>2
<1> QED BY <1>1, Products

\* Of the amounts an estimator is fitted to, a bucket that is listed earlier and
\* does not overlap its own takes no more than the lower bound, for any bounds
\* and any number of points (indexer.rs:47-57, routing_engine.rs:260-273).
THEOREM SamplesStayInside == Spec => []SamplesAreOwn
<1>1. TypeOK => SamplesAreOwn
  <2> SUFFICES ASSUME TypeOK, NEW b \in Buckets, Low[b] <= High[b],
                      NEW i \in DOMAIN store[b]
               PROVE  /\ Matches(b, Path[b], Observed(b, i))
                      /\ \A c \in Buckets :
                            c < b /\ Matches(c, Path[b], Observed(b, i)) =>
                               \/ Overlap(b, c)
                               \/ Observed(b, i) = Low[b] * count
    BY DEF SamplesAreOwn
  <2>1. Low[b] \in Int /\ High[b] \in Int /\ count \in Nat
    BY IndexerBuildAssumption DEF IndexerBuildAssumption, TypeOK
  <2>2. i \in Points
    BY DEF TypeOK
  <2>3. /\ Observed(b, i) \in Int
        /\ Low[b] * count <= Observed(b, i)
        /\ Observed(b, i) <= High[b] * count
        /\ Low[b] < High[b] => Observed(b, i) < High[b] * count
    BY <2>1, <2>2, ObservedInRange
  <2>4. Matches(b, Path[b], Observed(b, i))
    BY <2>3 DEF Matches
  <2>5. ASSUME NEW c \in Buckets, Matches(c, Path[b], Observed(b, i)), ~Overlap(b, c)
        PROVE  Observed(b, i) = Low[b] * count
    <3>1. Low[c] \in Int /\ High[c] \in Int
      BY IndexerBuildAssumption DEF IndexerBuildAssumption
    <3>2. Low[c] * count <= Observed(b, i) /\ Observed(b, i) <= High[c] * count
      BY <2>5 DEF Matches
    <3>3. High[c] <= Low[b] \/ High[b] <= Low[c]
      BY <2>1, <2>5, <3>1 DEF Overlap
    <3>4. CASE High[c] <= Low[b]
      <4>1. High[c] * count <= Low[b] * count
            /\ High[c] * count \in Int /\ Low[b] * count \in Int
        BY <2>1, <3>1, <3>4, Scaling
      <4> QED BY <2>3, <3>2, <4>1
    <3>5. CASE High[b] <= Low[c]
      <4>1. High[b] * count <= Low[c] * count
            /\ High[b] * count \in Int /\ Low[c] * count \in Int
        BY <2>1, <3>1, <3>5, Scaling
      <4>2. ~(Low[b] < High[b])
        BY <2>3, <3>2, <4>1
      <4>3. Low[b] = High[b]
        BY <2>1, <4>2
      <4> QED BY <2>3, <3>2, <4>1, <4>3
    <3> QED BY <3>3, <3>4, <3>5
  <2> QED BY <2>4, <2>5
<1>2. IInv => TypeOK
  BY DEF IInv
<1> QED BY <1>1, <1>2, BuildInductive, PTL

\* A run that stores nothing has a reason that concerns every bucket
\* (indexer.rs:229-257).
THEOREM RunsFailForAReason == Spec => []FailureExplained
<1>1. IInv => FailureExplained
  BY DEF IInv, FailureExplained, Excused, Decided
<1> QED BY <1>1, BuildInductive, PTL

-----------------------------------------------------------------------------
(* A run of the indexer is a job: every step of it is one of IndexerJob, or  *)
(* is not seen there.                                                        *)

LEMMA StoredIsNew ==
    ASSUME IInv, stage = "store", store' = Stored PROVE Job!Replace
<1>1. Built \in (SUBSET Buckets) \ {{}}
  BY DEF IInv, Written, Built
<1>2. DOMAIN store' = Buckets
  BY DEF Stored
<1>3. ASSUME NEW b \in Buckets
      PROVE  IF b \in Built THEN Job!IsEstimator(store'[b]) ELSE store'[b] = store[b]
  <2>1. CASE b \in Built
    <3>1. store'[b] = Data(b) /\ DOMAIN Data(b) = Good(b)
      BY <2>1 DEF Stored, Data
    <3>2. Good(b) \subseteq Nat
      BY DEF Good, In, Points
    <3>3. Cardinality(Good(b)) >= 2
      BY <2>1 DEF IInv, Decided, Built, MayFit
    <3>4. \A i \in Good(b) : Data(b)[i] \in Fees
      BY DEF IInv, Answered, Good, In, Data
    <3>5. \E i, j \in Good(b) : i # j
      <4>1. IsFiniteSet(Good(b))
        BY FinitePoints, FS_Subset DEF IInv, Good, In
      <4> QED BY <3>3, <4>1, TwoOfMany
    <3>6. Job!IsEstimator(Data(b))
      BY <3>1, <3>2, <3>4, <3>5 DEF Job!IsEstimator
    <3> QED BY <2>1, <3>1, <3>6
  <2>2. CASE b \notin Built
    BY <2>2 DEF Stored
  <2> QED BY <2>1, <2>2
<1> QED BY <1>1, <1>2, <1>3 DEF Job!Replace

LEMMA JobStep == IInv /\ [Next]_vars => [Job!Next]_(Job!vars)
<1> SUFFICES ASSUME IInv, [Next]_vars PROVE [Job!Next]_(Job!vars)
  OBVIOUS
<1> USE DEF Outcome
<1>1. CASE stage' = stage /\ store' = store
  BY <1>1 DEF Job!vars
<1>2. CASE stage = "build" /\ stage' \in {"failed", "panicked"} /\ store' = store
  BY <1>2 DEF Job!Next, Job!Fail
<1>3. CASE stage = "build" /\ stage' = "store" /\ store' = store
  BY <1>3 DEF Job!vars
<1>4. CASE SetMultiple
  <2>1. stage = "store" /\ stage' = "publish" /\ store' = Stored
    BY <1>4 DEF SetMultiple, End
  <2> QED BY <2>1, StoredIsNew DEF Job!Next, Job!Store
<1>5. CASE SetMultipleFails
  <2>1. stage = "store" /\ stage' = "failed" /\ store' \in {store, Stored}
    BY <1>5 DEF SetMultipleFails, End
  <2> QED BY <2>1, StoredIsNew DEF Job!Next, Job!Fail
<1>6. CASE Publish
  BY <1>6 DEF Publish, End, Job!Next, Job!Announce
<1>7. CASE PublishFails
  BY <1>7 DEF PublishFails, End, Job!Next, Job!Fail
<1>8. CASE NoneBuilt \/ SomeBuilt
  BY <1>2, <1>3, <1>8 DEF NoneBuilt, SomeBuilt, End
<1>9. ASSUME NEW b \in Buckets, StartBucket(b) \/ FinishBucket(b)
      PROVE  [Job!Next]_(Job!vars)
  BY <1>1, <1>9 DEF StartBucket, FinishBucket
<1>10. ASSUME NEW b \in Buckets, NEW i \in Points, PointStep(b, i)
       PROVE  [Job!Next]_(Job!vars)
  BY <1>1, <1>2, <1>10
  DEF PointStep, StartPoint, LockProvider, PriceFails, PriceArrives, AmountTooLow, PriceTooLow,
      QuoteArrives, QuoteFails
<1>11. CASE UNCHANGED vars
  BY <1>1, <1>11 DEF vars
<1> QED
  BY <1>4, <1>5, <1>6, <1>7, <1>8, <1>9, <1>10, <1>11 DEF Next

\* All buckets change at once and are announced after that, or the run fails:
\* what IndexerJob promises but for its end (indexer.rs:208-258).
THEOREM BuildIsAJob == Spec => Job!Init /\ [][Job!Next]_(Job!vars)
<1>1. Init => Job!Init
  BY DEF Init, Job!Init, Outcome
<1> QED BY <1>1, JobStep, BuildInductive, PTL DEF Spec

-----------------------------------------------------------------------------
(* The search for the lowest amount a route can transfer, for every range   *)
(* and every minimum (LowestTransferAmount.tla).                            *)

\* What a step needs: types and brackets, that each tried amount got the
\* answer it is recorded with, and that a search in the middle of a round has
\* a midpoint strictly between its bounds.
SearchInv ==
    /\ SearchTypeOK
    /\ Bracketed
    /\ pc = "found" => Converged
    /\ pc \in {"price", "quote"} => ~Converged
    /\ \A x \in quoted : x >= minimum
    /\ \A x \in refused \ flaky : x < minimum

\* While the bounds are a threshold apart, their midpoint lies strictly
\* between them.
LEMMA MidBetween ==
    ASSUME low \in Nat, high \in Nat, low < high, ~Converged
    PROVE  /\ mid \in Nat
           /\ low < mid
           /\ mid < high
  BY DEF Converged, Threshold, mid

LEMMA SearchInitInv == SearchInit => SearchInv
  BY SearchAssumption
     DEF SearchInit, SearchInv, SearchTypeOK, Bracketed, Amounts

LEMMA SearchStepInv == SearchInv /\ [SearchNext]_searchVars => SearchInv'
<1> SUFFICES ASSUME SearchInv, [SearchNext]_searchVars PROVE SearchInv'
  OBVIOUS
<1> USE SearchAssumption
<1> USE DEF SearchInv, SearchTypeOK, Bracketed, Amounts
<1>1. CASE RouteFails
  BY <1>1 DEF RouteFails, Converged
<1>2. CASE Found
  BY <1>2 DEF Found, Converged
<1>3. CASE Continue
  BY <1>3 DEF Continue, Converged
<1>4. CASE Convert \/ ConvertPanics
  BY <1>4 DEF Convert, ConvertPanics, Converged
<1>5. ASSUME pc = "quote"
      PROVE  mid \in Amounts /\ low < mid /\ mid < high
  BY <1>5, MidBetween
<1>6. CASE Quoted
  <2>1. pc = "quote" /\ pc' = "test" /\ mid >= minimum
    BY <1>6 DEF Quoted
  <2>2. /\ low' = low /\ high' = mid /\ minimum' = minimum
        /\ quoted' = quoted \cup {mid}
        /\ refused' = refused /\ flaky' = flaky
    BY <1>6 DEF Quoted
  <2>3. SearchTypeOK'
    BY <1>5, <2>1, <2>2
  <2>4. Bracketed'
    BY <1>5, <2>1, <2>2
  <2>5. \A x \in quoted' : x >= minimum'
    BY <2>1, <2>2
  <2> QED
    BY <2>1, <2>2, <2>3, <2>4, <2>5
<1>7. CASE Refused
  <2>1. pc = "quote" /\ pc' = "test"
    BY <1>7 DEF Refused
  <2>2. /\ low' = mid /\ high' = high /\ minimum' = minimum
        /\ quoted' = quoted /\ refused' = refused \cup {mid}
        /\ flaky' = IF mid < minimum THEN flaky ELSE flaky \cup {mid}
    BY <1>7 DEF Refused
  <2>3. SearchTypeOK'
    BY <1>5, <2>1, <2>2
  <2>4. Bracketed'
    BY <1>5, <2>1, <2>2
  <2>5. \A x \in refused' \ flaky' : x < minimum'
    BY <2>2
  <2> QED
    BY <2>1, <2>2, <2>3, <2>4, <2>5
<1>8. CASE UNCHANGED searchVars
  BY <1>8 DEF searchVars, Converged
<1> QED
  BY <1>1, <1>2, <1>3, <1>4, <1>6, <1>7, <1>8 DEF SearchNext

LEMMA SearchAlwaysInv == SearchSpec => []SearchInv
  BY SearchInitInv, SearchStepInv, PTL DEF SearchSpec

\* Each bound was tried with the outcome it stands for or is an end of the
\* range, and the two never meet nor leave the range.
THEOREM BoundsTried == SearchSpec => []Bracketed
  BY SearchAlwaysInv, PTL DEF SearchInv

\* A search that ends by convergence reports no less than the minimum, and
\* exactly the least amount accepted if no error was spurious.
THEOREM TightResult == SearchSpec => []ResultIsTight
<1>1. SearchInv => ResultIsTight
  <2> SUFFICES ASSUME SearchInv, pc = "found", minimum \in Lower + 1 .. Upper
               PROVE  minimum <= high /\ (flaky = {} => high = minimum)
    BY DEF ResultIsTight
  <2>1. low \in Nat /\ high \in Nat /\ high = low + 1
    BY SearchAssumption DEF SearchInv, SearchTypeOK, Bracketed, Amounts, Converged,
                            Threshold
  <2>2. minimum <= high
    BY <2>1, SearchAssumption DEF SearchInv, SearchTypeOK, Bracketed, Amounts
  <2>3. ASSUME flaky = {} PROVE low < minimum
    BY <2>1, <2>3, SearchAssumption DEF SearchInv, SearchTypeOK, Bracketed, Amounts
  <2> QED
    BY <2>1, <2>2, <2>3, SearchAssumption
<1> QED
  BY SearchAlwaysInv, <1>1, PTL
=============================================================================
