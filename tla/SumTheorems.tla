----------------------------- MODULE SumTheorems -----------------------------
(***************************************************************************)
(* SumFunctionOnSet of the community modules, over finite sets: it is      *)
(* defined by choosing a function that satisfies a recursive equation, and *)
(* what a sum is needed for here (it is a number, an element can be taken  *)
(* out of it or put into it, it depends on the values only, it grows with  *)
(* them) is proved from that by induction on finite sets.  An induction is *)
(* a set of subsets that is shown to be all of them, by a least            *)
(* counterexample.                                                         *)
(***************************************************************************)
EXTENDS Functions, FiniteSetTheorems, TLAPS

-----------------------------------------------------------------------------
(* The definition. *)

Pick(s) == CHOOSE x \in s : TRUE

IsSums(f, g, D) ==
    g = [s \in D |-> IF s = {} THEN 0 ELSE f[Pick(s)] + g[s \ {Pick(s)}]]

LEMMA PickIn ==
    ASSUME NEW s, s # {} PROVE Pick(s) \in s
  BY DEF Pick

LEMMA SumIsChoice ==
    ASSUME NEW f, NEW S
    PROVE  SumFunctionOnSet(f, S) = (CHOOSE g : IsSums(f, g, SUBSET S))[S]
  BY DEF SumFunctionOnSet, FoldFunctionOnSet, MapThenFoldSet, IsSums, Pick

-----------------------------------------------------------------------------
(* Induction on finite sets and on their sizes. *)

LEMMA SetInduction ==
    ASSUME NEW W, IsFiniteSet(W), NEW G \in SUBSET (SUBSET W),
           \A U \in SUBSET W : (\A V \in SUBSET U : V # U => V \in G) => U \in G
    PROVE  G = SUBSET W
<1> SUFFICES ASSUME G # SUBSET W PROVE FALSE
  OBVIOUS
<1> DEFINE T == (SUBSET W) \ G
<1>1. T # {} /\ T \subseteq SUBSET W
  OBVIOUS
<1>2. IsWellFoundedOn(StrictSubsetOrdering(W), SUBSET W)
  <2>1. IsWellFoundedOn(StrictSubsetOrdering(W), FiniteSubsetsOf(W))
    BY FS_StrictSubsetOrderingWellFounded
  <2>2. FiniteSubsetsOf(W) = SUBSET W
    BY FS_FiniteSubsetsOfFinite
  <2> QED BY <2>1, <2>2, Zenon
<1>3. \E U \in T : \A V \in T : <<V, U>> \notin StrictSubsetOrdering(W)
  <2> HIDE DEF T
  <2> QED BY <1>1, <1>2, WFMin
<1>4. PICK U \in T : \A V \in T : <<V, U>> \notin StrictSubsetOrdering(W)
  BY <1>3
<1>5. \A V \in SUBSET U : V # U => V \in G
  BY <1>4 DEF StrictSubsetOrdering
<1> QED BY <1>4, <1>5

LEMMA NatInductionOnSets ==
    ASSUME NEW N \in SUBSET Nat, 0 \in N, \A n \in N : n + 1 \in N
    PROVE  N = Nat
<1> SUFFICES ASSUME N # Nat PROVE FALSE
  OBVIOUS
<1> DEFINE T == Nat \ N
<1>1. T # {} /\ T \subseteq Nat
  OBVIOUS
<1>2. \E m \in T : \A n \in T : <<n, m>> \notin OpToRel(<, Nat)
  <2> HIDE DEF T
  <2> QED BY <1>1, NatLessThanWellFounded, WFMin
<1>3. PICK m \in T : \A n \in T : <<n, m>> \notin OpToRel(<, Nat)
  BY <1>2
<1>4. m - 1 \in T
  <2>1. m \in Nat /\ m \notin N /\ m # 0
    BY <1>3
  <2>2. m - 1 \in Nat /\ (m - 1) + 1 = m
    BY <2>1
  <2> QED BY <2>1, <2>2
<1>5. <<m - 1, m>> \in OpToRel(<, Nat)
  BY <1>3, <1>4 DEF OpToRel
<1> QED BY <1>3, <1>4, <1>5

\* Adding one element at a time reaches every subset.
LEMMA ElementInduction ==
    ASSUME NEW W, IsFiniteSet(W), NEW G \in SUBSET (SUBSET W), {} \in G,
           \A T \in G : \A x \in W \ T : T \cup {x} \in G
    PROVE  G = SUBSET W
<1>1. ASSUME NEW U \in SUBSET W, \A V \in SUBSET U : V # U => V \in G
      PROVE  U \in G
  <2>1. CASE U = {}
    BY <2>1
  <2>2. CASE U # {}
    <3>1. PICK x \in U : TRUE
      BY <2>2
    <3>2. U \ {x} \in G /\ x \in W \ (U \ {x}) /\ (U \ {x}) \cup {x} = U
      BY <1>1, <3>1
    <3>3. (U \ {x}) \cup {x} \in G
      BY <3>2
    <3> QED BY <3>2, <3>3
  <2> QED BY <2>1, <2>2
<1> QED BY <1>1, SetInduction

-----------------------------------------------------------------------------
(* Sums exist and are determined by their equation. *)

\* The subsets of W of at most n elements.
Small(W, n) == {s \in SUBSET W : Cardinality(s) <= n}

\* Sums of the subsets of W exist: they are built up by the size of the subset.
LEMMA SumsExist ==
    ASSUME NEW f, NEW W, IsFiniteSet(W)
    PROVE  \E g : IsSums(f, g, SUBSET W)
<1> DEFINE N == {n \in Nat : \E g : IsSums(f, g, Small(W, n))}
<1>1. 0 \in N
  <2> DEFINE g == [s \in Small(W, 0) |-> 0]
  <2>1. Small(W, 0) \subseteq {{}}
    BY FS_EmptySet, FS_Subset, FS_CardinalityType DEF Small
  <2>2. IsSums(f, g, Small(W, 0))
    BY <2>1 DEF IsSums
  <2> QED BY <2>2
<1>2. ASSUME NEW n \in N PROVE n + 1 \in N
  <2>1. PICK g : IsSums(f, g, Small(W, n))
    OBVIOUS
  <2> DEFINE h == [s \in Small(W, n + 1) |->
                      IF s = {} THEN 0 ELSE f[Pick(s)] + g[s \ {Pick(s)}]]
  <2>2. \A s \in Small(W, n) : s \in Small(W, n + 1) /\ h[s] = g[s]
    <3> SUFFICES ASSUME NEW s \in Small(W, n) PROVE s \in Small(W, n + 1) /\ h[s] = g[s]
      OBVIOUS
    <3>1. Cardinality(s) \in Nat /\ s \in SUBSET W
      BY FS_Subset, FS_CardinalityType DEF Small
    <3>2. s \in Small(W, n + 1)
      BY <3>1 DEF Small
    <3> QED BY <2>1, <3>2 DEF IsSums
  <2>3. \A s \in Small(W, n + 1) : s # {} => s \ {Pick(s)} \in Small(W, n)
    <3> SUFFICES ASSUME NEW s \in Small(W, n + 1), s # {}
                 PROVE  s \ {Pick(s)} \in Small(W, n)
      OBVIOUS
    <3>1. s \in SUBSET W /\ IsFiniteSet(s) /\ Cardinality(s) \in Nat
      BY FS_Subset, FS_CardinalityType DEF Small
    <3>2. Cardinality(s \ {Pick(s)}) = Cardinality(s) - 1
      BY <3>1, PickIn, FS_RemoveElement
    <3> QED BY <3>1, <3>2 DEF Small
  <2>4. IsSums(f, h, Small(W, n + 1))
    <3>1. \A s \in Small(W, n + 1) :
             h[s] = IF s = {} THEN 0 ELSE f[Pick(s)] + h[s \ {Pick(s)}]
      BY <2>2, <2>3
    <3> QED BY <3>1 DEF IsSums
  <2> QED BY <2>4
<1>3. N = Nat
  <2> HIDE DEF N
  <2>1. N \in SUBSET Nat
    BY DEF N
  <2> QED BY <1>1, <1>2, <2>1, NatInductionOnSets
<1>4. Cardinality(W) \in Nat /\ Small(W, Cardinality(W)) = SUBSET W
  BY FS_Subset, FS_CardinalityType DEF Small
<1>5. PICK g : IsSums(f, g, Small(W, Cardinality(W)))
  BY <1>3, <1>4
<1>6. IsSums(f, g, SUBSET W)
  BY <1>4, <1>5
<1> QED BY <1>6

LEMMA SumsUnique ==
    ASSUME NEW f, NEW S, NEW W, IsFiniteSet(W), S \subseteq W
    PROVE  \A g, h : IsSums(f, g, SUBSET S) /\ IsSums(f, h, SUBSET W) =>
                        \A s \in SUBSET S : g[s] = h[s]
<1> SUFFICES ASSUME NEW g, IsSums(f, g, SUBSET S), NEW h, IsSums(f, h, SUBSET W)
             PROVE  \A s \in SUBSET S : g[s] = h[s]
  OBVIOUS
<1> DEFINE G == {s \in SUBSET S : g[s] = h[s]}
<1>1. ASSUME NEW U \in SUBSET S, \A V \in SUBSET U : V # U => V \in G
      PROVE  U \in G
  <2>1. CASE U = {}
    BY <2>1 DEF IsSums
  <2>2. CASE U # {}
    <3>1. U \ {Pick(U)} \in G
      BY <1>1, <2>2, PickIn
    <3>2. g[U] = f[Pick(U)] + g[U \ {Pick(U)}] /\ h[U] = f[Pick(U)] + h[U \ {Pick(U)}]
      BY <2>2 DEF IsSums
    <3> QED BY <3>1, <3>2
  <2> QED BY <2>1, <2>2
<1>2. IsFiniteSet(S)
  BY FS_Subset
<1>3. G = SUBSET S
  <2> HIDE DEF G
  <2>1. G \in SUBSET (SUBSET S)
    BY DEF G
  <2> QED BY <1>1, <1>2, <2>1, SetInduction
<1> QED BY <1>3

LEMMA SumUnfold ==
    ASSUME NEW f, NEW S, IsFiniteSet(S)
    PROVE  SumFunctionOnSet(f, S) =
              IF S = {} THEN 0
              ELSE f[Pick(S)] + SumFunctionOnSet(f, S \ {Pick(S)})
<1> DEFINE T == S \ {Pick(S)}
           g == CHOOSE c : IsSums(f, c, SUBSET S)
           h == CHOOSE c : IsSums(f, c, SUBSET T)
<1>1. IsFiniteSet(T) /\ T \subseteq S
  BY FS_Subset
<1>2. IsSums(f, g, SUBSET S) /\ IsSums(f, h, SUBSET T)
  BY <1>1, SumsExist
<1>3. SumFunctionOnSet(f, S) = g[S] /\ SumFunctionOnSet(f, T) = h[T]
  BY SumIsChoice
<1> HIDE DEF g, h
<1>4. \A s \in SUBSET T : h[s] = g[s]
  <2> HIDE DEF T
  <2>1. \A c, d : IsSums(f, c, SUBSET T) /\ IsSums(f, d, SUBSET S) =>
                      \A s \in SUBSET T : c[s] = d[s]
    BY <1>1, SumsUnique
  <2> QED BY <1>2, <2>1
<1>5. g[S] = IF S = {} THEN 0 ELSE f[Pick(S)] + g[T]
  BY <1>2 DEF IsSums
<1> QED BY <1>3, <1>4, <1>5

-----------------------------------------------------------------------------
(* Laws of sums. *)

\* An empty sum is zero.
THEOREM SumEmpty == ASSUME NEW f PROVE SumFunctionOnSet(f, {}) = 0
  BY SumUnfold, FS_EmptySet

\* Any element may be taken out of a sum first: the order in which a set is
\* summed up does not matter.
LEMMA SumRemove ==
    ASSUME NEW f, NEW S, IsFiniteSet(S), \A i \in S : f[i] \in Int, NEW x \in S
    PROVE  /\ SumFunctionOnSet(f, S) = f[x] + SumFunctionOnSet(f, S \ {x})
           /\ SumFunctionOnSet(f, S) \in Int
<1> DEFINE G == {s \in SUBSET S :
                    /\ SumFunctionOnSet(f, s) \in Int
                    /\ \A y \in s : SumFunctionOnSet(f, s) =
                                       f[y] + SumFunctionOnSet(f, s \ {y})}
<1>1. ASSUME NEW U \in SUBSET S, \A V \in SUBSET U : V # U => V \in G
      PROVE  U \in G
  <2>1. IsFiniteSet(U)
    BY FS_Subset
  <2>2. CASE U = {}
    BY <2>2, SumEmpty
  <2>3. CASE U # {}
    <3> DEFINE p == Pick(U)
    <3>1. p \in U /\ f[p] \in Int
      BY <2>3, PickIn
    <3>2. SumFunctionOnSet(f, U) = f[p] + SumFunctionOnSet(f, U \ {p})
      BY <2>1, <2>3, SumUnfold
    <3> HIDE DEF p
    <3>3. U \ {p} \in G
      BY <1>1, <3>1
    <3>4. SumFunctionOnSet(f, U) \in Int
      BY <3>1, <3>2, <3>3
    <3>5. ASSUME NEW y \in U
          PROVE  SumFunctionOnSet(f, U) = f[y] + SumFunctionOnSet(f, U \ {y})
      <4>1. CASE y = p
        BY <3>2, <4>1
      <4>2. CASE y # p
        <5> DEFINE R == (U \ {p}) \ {y}
        <5>1. U \ {y} \in G /\ R \in G /\ (U \ {y}) \ {p} = R
          BY <1>1, <3>1, <4>2
        <5>2. SumFunctionOnSet(f, U \ {p}) = f[y] + SumFunctionOnSet(f, R)
          BY <3>3, <4>2
        <5>3. SumFunctionOnSet(f, U \ {y}) = f[p] + SumFunctionOnSet(f, R)
          BY <5>1, <3>1, <4>2
        <5>4. SumFunctionOnSet(f, R) \in Int /\ f[y] \in Int
          BY <5>1
        <5> QED BY <3>1, <3>2, <5>2, <5>3, <5>4
      <4> QED BY <4>1, <4>2
    <3> QED BY <3>4, <3>5
  <2> QED BY <2>2, <2>3
<1>2. G = SUBSET S
  <2> HIDE DEF G
  <2>1. G \in SUBSET (SUBSET S)
    BY DEF G
  <2> QED BY <1>1, <2>1, SetInduction
<1> QED BY <1>2

\* A sum of integers is an integer.
THEOREM SumInt ==
    ASSUME NEW f, NEW S, IsFiniteSet(S), \A i \in S : f[i] \in Int
    PROVE  SumFunctionOnSet(f, S) \in Int
<1>1. CASE S = {}
  BY <1>1, SumEmpty
<1>2. CASE S # {}
  <2>1. PICK x \in S : TRUE
    BY <1>2
  <2> QED BY <2>1, SumRemove
<1> QED BY <1>1, <1>2

\* An element may be put into a sum.
THEOREM SumAdd ==
    ASSUME NEW f, NEW S, IsFiniteSet(S), \A i \in S : f[i] \in Int,
           NEW x, x \notin S, f[x] \in Int
    PROVE  SumFunctionOnSet(f, S \cup {x}) = f[x] + SumFunctionOnSet(f, S)
<1> DEFINE U == S \cup {x}
<1>1. IsFiniteSet(U) /\ (\A i \in U : f[i] \in Int) /\ x \in U /\ U \ {x} = S
  BY FS_AddElement
<1> HIDE DEF U
<1>2. SumFunctionOnSet(f, U) = f[x] + SumFunctionOnSet(f, U \ {x})
  BY <1>1, SumRemove
<1> QED BY <1>1, <1>2 DEF U

\* A sum depends on the values in its set only, and grows with them.
LEMMA SumMonotone ==
    ASSUME NEW f, NEW g, NEW S, IsFiniteSet(S),
           \A i \in S : f[i] \in Int /\ g[i] \in Int /\ f[i] <= g[i]
    PROVE  SumFunctionOnSet(f, S) <= SumFunctionOnSet(g, S)
<1> DEFINE G == {s \in SUBSET S : SumFunctionOnSet(f, s) <= SumFunctionOnSet(g, s)}
<1>1. {} \in G
  BY SumEmpty
<1>2. ASSUME NEW T \in G, NEW x \in S \ T PROVE T \cup {x} \in G
  <2>1. IsFiniteSet(T) /\ T \subseteq S
    BY FS_Subset
  <2>2. SumFunctionOnSet(f, T) \in Int /\ SumFunctionOnSet(g, T) \in Int
    BY <2>1, SumInt
  <2>3. /\ SumFunctionOnSet(f, T \cup {x}) = f[x] + SumFunctionOnSet(f, T)
        /\ SumFunctionOnSet(g, T \cup {x}) = g[x] + SumFunctionOnSet(g, T)
    BY <2>1, SumAdd
  <2>4. f[x] \in Int /\ g[x] \in Int /\ f[x] <= g[x]
        /\ SumFunctionOnSet(f, T) <= SumFunctionOnSet(g, T)
    OBVIOUS
  <2>5. SumFunctionOnSet(f, T \cup {x}) <= SumFunctionOnSet(g, T \cup {x})
    BY <2>2, <2>3, <2>4
  <2> QED BY <2>1, <2>5
<1>3. G = SUBSET S
  <2> HIDE DEF G
  <2>1. G \in SUBSET (SUBSET S)
    BY DEF G
  <2> QED BY <1>1, <1>2, <2>1, ElementInduction
<1> QED BY <1>3

THEOREM SumSame ==
    ASSUME NEW f, NEW g, NEW S, IsFiniteSet(S),
           \A i \in S : f[i] \in Int /\ f[i] = g[i]
    PROVE  SumFunctionOnSet(f, S) = SumFunctionOnSet(g, S)
<1>1. SumFunctionOnSet(f, S) \in Int /\ SumFunctionOnSet(g, S) \in Int
  BY SumInt
<1>2. SumFunctionOnSet(f, S) <= SumFunctionOnSet(g, S)
  BY SumMonotone
<1>3. SumFunctionOnSet(g, S) <= SumFunctionOnSet(f, S)
  BY SumMonotone
<1> QED BY <1>1, <1>2, <1>3

\* A sum of natural numbers is one, and no less than any of them.
LEMMA SumNat ==
    ASSUME NEW f, NEW S, IsFiniteSet(S), \A i \in S : f[i] \in Nat
    PROVE  /\ SumFunctionOnSet(f, S) \in Nat
           /\ \A x \in S : f[x] <= SumFunctionOnSet(f, S)
<1> DEFINE G == {s \in SUBSET S : SumFunctionOnSet(f, s) \in Nat}
<1>1. {} \in G
  BY SumEmpty
<1>2. ASSUME NEW T \in G, NEW x \in S \ T PROVE T \cup {x} \in G
  <2>1. IsFiniteSet(T) /\ T \subseteq S
    BY FS_Subset
  <2>2. SumFunctionOnSet(f, T \cup {x}) = f[x] + SumFunctionOnSet(f, T)
    BY <2>1, SumAdd
  <2>3. SumFunctionOnSet(f, T \cup {x}) \in Nat
    BY <2>2
  <2> QED BY <2>1, <2>3
<1>3. G = SUBSET S
  <2> HIDE DEF G
  <2>1. G \in SUBSET (SUBSET S)
    BY DEF G
  <2> QED BY <1>1, <1>2, <2>1, ElementInduction
<1>4. ASSUME NEW x \in S PROVE f[x] <= SumFunctionOnSet(f, S)
  <2>1. SumFunctionOnSet(f, S) = f[x] + SumFunctionOnSet(f, S \ {x})
    BY SumRemove
  <2>2. S \ {x} \in G
    BY <1>3
  <2> QED BY <2>1, <2>2
<1> QED BY <1>3, <1>4

\* The sum over two sets that have nothing in common.
LEMMA SumUnion ==
    ASSUME NEW f, NEW S, NEW T, IsFiniteSet(S), IsFiniteSet(T), S \cap T = {},
           \A i \in S \cup T : f[i] \in Int
    PROVE  SumFunctionOnSet(f, S \cup T) = SumFunctionOnSet(f, S) + SumFunctionOnSet(f, T)
<1> DEFINE G == {s \in SUBSET T : SumFunctionOnSet(f, S \cup s) =
                                     SumFunctionOnSet(f, S) + SumFunctionOnSet(f, s)}
<1>0. SumFunctionOnSet(f, S) \in Int
  BY SumInt
<1>1. {} \in G
  <2>1. S \cup {} = S
    OBVIOUS
  <2> QED BY <1>0, <2>1, SumEmpty
<1>2. ASSUME NEW U \in G, NEW x \in T \ U PROVE U \cup {x} \in G
  <2>1. /\ IsFiniteSet(U) /\ IsFiniteSet(S \cup U)
        /\ x \notin S \cup U /\ x \notin U /\ f[x] \in Int
        /\ (\A i \in U : f[i] \in Int) /\ (\A i \in S \cup U : f[i] \in Int)
    BY FS_Subset, FS_Union
  <2>2. SumFunctionOnSet(f, U) \in Int /\ SumFunctionOnSet(f, S \cup U) \in Int
    BY <2>1, SumInt
  <2>3. SumFunctionOnSet(f, U \cup {x}) = f[x] + SumFunctionOnSet(f, U)
    BY <2>1, SumAdd
  <2>4. SumFunctionOnSet(f, (S \cup U) \cup {x}) = f[x] + SumFunctionOnSet(f, S \cup U)
    BY <2>1, SumAdd
  <2>5. SumFunctionOnSet(f, S \cup (U \cup {x})) = f[x] + SumFunctionOnSet(f, S \cup U)
    <3>1. (S \cup U) \cup {x} = S \cup (U \cup {x})
      OBVIOUS
    <3> QED BY <2>4, <3>1
  <2>6. SumFunctionOnSet(f, S \cup U) = SumFunctionOnSet(f, S) + SumFunctionOnSet(f, U)
    OBVIOUS
  <2>7. SumFunctionOnSet(f, S \cup (U \cup {x})) =
           SumFunctionOnSet(f, S) + SumFunctionOnSet(f, U \cup {x})
    <3> HIDE DEF G
    <3>1. \A a, c, d, e, y, u \in Int :
             a = y + c /\ c = d + e /\ u = y + e => a = d + u
      OBVIOUS
    <3>2. SumFunctionOnSet(f, S \cup (U \cup {x})) \in Int
          /\ SumFunctionOnSet(f, U \cup {x}) \in Int
      BY <2>1, <2>2, <2>3, <2>5
    <3> QED BY <1>0, <2>1, <2>2, <2>3, <2>5, <2>6, <3>1, <3>2
  <2> QED BY <2>7
<1>3. G = SUBSET T
  <2> HIDE DEF G
  <2>1. G \in SUBSET (SUBSET T)
    BY DEF G
  <2> QED BY <1>1, <1>2, <2>1, ElementInduction
<1> QED BY <1>3
=============================================================================
