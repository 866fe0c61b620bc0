--------------------------------- MODULE Sums ---------------------------------
(***************************************************************************)
(* Facts about SumFunctionOnSet of the community modules, which the ledger *)
(* uses for the total of an entry list and of all balances.  A claim about *)
(* every finite set is proved by the least counterexample: a set of finite *)
(* sets that is not empty has a member none of whose proper subsets is in  *)
(* it (MinimalMember).                                                     *)
(***************************************************************************)
EXTENDS Integers, Functions, FiniteSetTheorems, TLAPS

Pick(S) == CHOOSE x \in S : TRUE

(* g is the recursive function behind the sum of f over S. *)
SumStep(f, g, T) == IF T = {} THEN 0 ELSE f[Pick(T)] + g[T \ {Pick(T)}]
Unfolds(f, g, S) == g = [T \in SUBSET S |-> SumStep(f, g, T)]
PartialSums(f, S) == CHOOSE g : Unfolds(f, g, S)

-------------------------------------------------------------------------------
(* Induction on finite sets, as the existence of a least counterexample. *)
LEMMA MinimalMember ==
    ASSUME NEW S, IsFiniteSet(S), NEW C \in SUBSET SUBSET S, C # {}
    PROVE  \E T \in C : \A U \in C : U \subseteq T => U = T
  <1>1. C \subseteq FiniteSubsetsOf(S)
    BY FS_FiniteSubsetsOfFinite
  <1>2. IsWellFoundedOn(StrictSubsetOrdering(S), FiniteSubsetsOf(S))
    BY FS_StrictSubsetOrderingWellFounded
  <1>3. PICK T \in C : \A U \in C : ~(<<U, T>> \in StrictSubsetOrdering(S))
    BY <1>1, <1>2, WFMin
  <1>4. ASSUME NEW U \in C, U \subseteq T PROVE U = T
    BY <1>3, <1>4 DEF StrictSubsetOrdering
  <1>5. QED
    BY <1>4

(* CHOOSE picks a member of what is not empty. *)
LEMMA PickMember == \A S : S # {} => Pick(S) \in S
  BY DEF Pick

(* The fold of the community module is the last of its partial sums. *)
LEMMA SumIsPartialSum ==
    ASSUME NEW f, NEW S
    PROVE  SumFunctionOnSet(f, S) = PartialSums(f, S)[S]
  BY DEF SumFunctionOnSet, FoldFunctionOnSet, MapThenFoldSet, PartialSums,
         Unfolds, SumStep, Pick

(* Two functions that unfold the same sum agree wherever both are defined. *)
LEMMA UnfoldingsAgree ==
    ASSUME NEW f, NEW g, NEW h, NEW S, NEW T, Unfolds(f, g, S), Unfolds(f, h, T),
           NEW U, IsFiniteSet(U), U \subseteq S, U \subseteq T
    PROVE  g[U] = h[U]
  <1> DEFINE Bad == {V \in SUBSET U : g[V] # h[V]}
  <1>1. SUFFICES ASSUME Bad # {} PROVE FALSE
    OBVIOUS
  <1>2. PICK V \in Bad : \A W \in Bad : W \subseteq V => W = V
    <2>1. Bad \in SUBSET SUBSET U
      OBVIOUS
    <2> HIDE DEF Bad
    <2>2. QED
      BY <1>1, <2>1, MinimalMember
  <1>3. g[V] = SumStep(f, g, V) /\ h[V] = SumStep(f, h, V)
    BY DEF Unfolds
  <1>4. V # {}
    BY <1>3 DEF SumStep
  <1>5. g[V \ {Pick(V)}] = h[V \ {Pick(V)}]
    BY <1>2, <1>4, PickMember
  <1>6. QED
    BY <1>3, <1>4, <1>5 DEF SumStep

(* The recursive function that the fold chooses exists: no finite set is the least without. *)
LEMMA UnfoldingExists ==
    ASSUME NEW f, NEW S, IsFiniteSet(S)
    PROVE  Unfolds(f, PartialSums(f, S), S)
  <1> DEFINE Bad == {T \in SUBSET S : ~ \E g : Unfolds(f, g, T)}
  <1>1. SUFFICES ASSUME Bad # {} PROVE FALSE
    BY DEF PartialSums
  <1>2. PICK T \in Bad : \A U \in Bad : U \subseteq T => U = T
    <2>1. Bad \in SUBSET SUBSET S
      OBVIOUS
    <2> HIDE DEF Bad
    <2>2. QED
      BY <1>1, <2>1, MinimalMember
  <1>3. \A U \in SUBSET T : U # T => Unfolds(f, PartialSums(f, U), U)
    BY <1>2 DEF PartialSums
  <1>4. IsFiniteSet(T)
    BY FS_Subset
  <1> DEFINE last == [U \in SUBSET T |-> PartialSums(f, U)[U]]
             g    == [U \in SUBSET T |-> SumStep(f, last, U)]
  <1>5. ASSUME NEW U \in SUBSET T, U # T PROVE g[U] = last[U]
    <2>1. Unfolds(f, PartialSums(f, U), U)
      BY <1>3, <1>5
    <2>2. last[U] = SumStep(f, PartialSums(f, U), U)
      BY <2>1 DEF Unfolds
    <2>3. CASE U = {}
      BY <2>2, <2>3 DEF SumStep
    <2>4. CASE U # {}
      <3> DEFINE V == U \ {Pick(U)}
      <3>1. V \subseteq U /\ V # T /\ IsFiniteSet(V)
        BY <2>4, <1>4, PickMember, FS_Subset
      <3>2. Unfolds(f, PartialSums(f, V), V)
        BY <3>1, <1>3
      <3>3. PartialSums(f, U)[V] = PartialSums(f, V)[V]
        BY <2>1, <3>1, <3>2, UnfoldingsAgree
      <3>4. last[V] = PartialSums(f, U)[V]
        BY <3>1, <3>3
      <3>5. QED
        BY <2>2, <2>4, <3>4 DEF SumStep
    <2>5. QED
      BY <2>3, <2>4
  <1>6. ASSUME NEW U \in SUBSET T PROVE g[U] = SumStep(f, g, U)
    <2>1. CASE U = {}
      BY <2>1 DEF SumStep
    <2>2. CASE U # {}
      <3>1. /\ U \ {Pick(U)} \in SUBSET T
            /\ U \ {Pick(U)} # T
        BY <2>2, PickMember
      <3>2. g[U \ {Pick(U)}] = last[U \ {Pick(U)}]
        BY <1>5, <3>1
      <3>3. QED
        BY <2>2, <3>2 DEF SumStep
    <2>3. QED
      BY <2>1, <2>2
  <1>7. Unfolds(f, g, T)
    BY <1>6, Zenon DEF Unfolds
  <1>8. QED
    BY <1>7

(* A finite set of numbers has a greatest one. *)
LEMMA GreatestMember ==
    ASSUME NEW S, IsFiniteSet(S), S # {}
    PROVE  S \subseteq Nat => \E a \in S : \A b \in S : b <= a
  <1> DEFINE above(a) == {b \in S : a <= b}
             Tails == {above(a) : a \in S}
  <1>1. PICK T \in Tails : \A U \in Tails : U \subseteq T => U = T
    <2>1. Tails # {} /\ Tails \in SUBSET SUBSET S
      OBVIOUS
    <2> HIDE DEF Tails
    <2>2. QED
      BY <2>1, MinimalMember
  <1>2. PICK a \in S : T = above(a)
    OBVIOUS
  <1>3. ASSUME S \subseteq Nat, NEW b \in S, a < b PROVE FALSE
    <2>1. above(b) \in Tails /\ a \in above(a) /\ a \notin above(b)
      BY <1>3
    <2>2. \A x \in S : b <= x => a <= x
      BY <1>3
    <2>3. above(b) \subseteq above(a)
      BY <2>2, Zenon
    <2>4. QED
      BY <1>1, <1>2, <2>1, <2>3
  <1>4. QED
    BY <1>3

-------------------------------------------------------------------------------
(* A sum is one member and the sum of the others. *)
LEMMA SumUnfolds ==
    ASSUME NEW f, NEW S, IsFiniteSet(S)
    PROVE  SumFunctionOnSet(f, S) =
              IF S = {} THEN 0
              ELSE f[Pick(S)] + SumFunctionOnSet(f, S \ {Pick(S)})
  <1>1. SumFunctionOnSet(f, S) = SumStep(f, PartialSums(f, S), S)
    <2>1. Unfolds(f, PartialSums(f, S), S)
      BY UnfoldingExists
    <2>2. PartialSums(f, S)[S] = SumStep(f, PartialSums(f, S), S)
      BY <2>1 DEF Unfolds
    <2>3. QED
      BY <2>2, SumIsPartialSum
  <1>2. CASE S = {}
    BY <1>1, <1>2 DEF SumStep
  <1>3. CASE S # {}
    <2> DEFINE T == S \ {Pick(S)}
    <2>1. IsFiniteSet(T)
      BY FS_Subset
    <2>2. PartialSums(f, S)[T] = PartialSums(f, T)[T]
      BY <2>1, UnfoldingExists, UnfoldingsAgree
    <2>3. QED
      BY <1>1, <1>3, <2>2, SumIsPartialSum DEF SumStep
  <1>4. QED
    BY <1>2, <1>3

(* The sum over nothing is zero. *)
LEMMA SumOfNone == \A f : SumFunctionOnSet(f, {}) = 0
  BY SumUnfolds, FS_EmptySet

(* A sum of integers is an integer. *)
LEMMA SumType ==
    ASSUME NEW S, IsFiniteSet(S), NEW f, \A x \in S : f[x] \in Int
    PROVE  SumFunctionOnSet(f, S) \in Int
  <1> DEFINE Bad == {T \in SUBSET S : SumFunctionOnSet(f, T) \notin Int}
  <1>1. SUFFICES ASSUME Bad # {} PROVE FALSE
    OBVIOUS
  <1>2. PICK T \in Bad : \A U \in Bad : U \subseteq T => U = T
    <2>1. Bad \in SUBSET SUBSET S
      OBVIOUS
    <2> HIDE DEF Bad
    <2>2. QED
      BY <1>1, <2>1, MinimalMember
  <1>3. IsFiniteSet(T)
    BY FS_Subset
  <1>4. T # {}
    BY SumOfNone
  <1>5. SumFunctionOnSet(f, T \ {Pick(T)}) \in Int
    BY <1>2, <1>4, PickMember
  <1>6. f[Pick(T)] \in Int
    BY <1>4, PickMember
  <1>7. SumFunctionOnSet(f, T) = f[Pick(T)] + SumFunctionOnSet(f, T \ {Pick(T)})
    BY <1>3, <1>4, SumUnfolds
  <1>8. QED
    BY <1>5, <1>6, <1>7

(* Any element may be taken out first: the order of a sum is irrelevant. *)
LEMMA SumRemove ==
    ASSUME NEW S, IsFiniteSet(S), NEW f, \A x \in S : f[x] \in Int, NEW a \in S
    PROVE  SumFunctionOnSet(f, S) = f[a] + SumFunctionOnSet(f, S \ {a})
  <1> DEFINE Sum(T) == SumFunctionOnSet(f, T)
             Bad == {T \in SUBSET S : \E x \in T : Sum(T) # f[x] + Sum(T \ {x})}
  <1>1. SUFFICES ASSUME Bad # {} PROVE FALSE
    OBVIOUS
  <1>2. PICK T \in Bad : \A U \in Bad : U \subseteq T => U = T
    <2>1. Bad \in SUBSET SUBSET S
      OBVIOUS
    <2> HIDE DEF Bad
    <2>2. QED
      BY <1>1, <2>1, MinimalMember
  <1>3. PICK x \in T : Sum(T) # f[x] + Sum(T \ {x})
    OBVIOUS
  <1> DEFINE p == Pick(T)
             R == T \ {x, p}
  <1>4. p \in T /\ IsFiniteSet(T)
    BY <1>3, PickMember, FS_Subset
  <1>5. Sum(T) = f[p] + Sum(T \ {p})
    BY <1>3, <1>4, SumUnfolds
  <1>6. x # p
    BY <1>3, <1>5
  <1>7. T \ {x} \notin Bad /\ T \ {p} \notin Bad
    BY <1>2, <1>3, <1>4
  <1>8. (T \ {x}) \ {p} = R /\ (T \ {p}) \ {x} = R
    OBVIOUS
  <1>9. Sum(T \ {x}) = f[p] + Sum(R)
    BY <1>4, <1>6, <1>7, <1>8
  <1>10. Sum(T \ {p}) = f[x] + Sum(R)
    BY <1>3, <1>6, <1>7, <1>8
  <1>11. f[x] \in Int /\ f[p] \in Int
    BY <1>3, <1>4
  <1>12. Sum(R) \in Int
    <2>1. R \in SUBSET S /\ IsFiniteSet(R)
      BY FS_Subset
    <2>2. QED
      BY <2>1, SumType
  <1> HIDE DEF Sum, R, p
  <1>13. QED
    BY <1>3, <1>5, <1>9, <1>10, <1>11, <1>12

(* What is added and what is subtracted may be summed apart. *)
LEMMA SumOfChanges ==
    ASSUME NEW S, IsFiniteSet(S), NEW f, NEW g, NEW h, NEW k,
           \A x \in S : /\ f[x] \in Int /\ g[x] \in Int /\ h[x] \in Int
                        /\ k[x] = f[x] + g[x] - h[x]
    PROVE  SumFunctionOnSet(k, S) =
              SumFunctionOnSet(f, S) + SumFunctionOnSet(g, S)
                                     - SumFunctionOnSet(h, S)
  <1> DEFINE Differ(T) == SumFunctionOnSet(k, T) #
              SumFunctionOnSet(f, T) + SumFunctionOnSet(g, T)
                                     - SumFunctionOnSet(h, T)
             Bad == {T \in SUBSET S : Differ(T)}
  <1>1. SUFFICES ASSUME Bad # {} PROVE FALSE
    OBVIOUS
  <1>2. PICK T \in Bad : \A U \in Bad : U \subseteq T => U = T
    <2>1. Bad \in SUBSET SUBSET S
      OBVIOUS
    <2> HIDE DEF Bad
    <2>2. QED
      BY <1>1, <2>1, MinimalMember
  <1>3. IsFiniteSet(T)
    BY FS_Subset
  <1>4. T # {}
    BY SumOfNone
  <1> DEFINE p == Pick(T)
             R == T \ {p}
  <1>5. p \in T /\ p \in S
    BY <1>4, PickMember
  <1>6. R \notin Bad
    BY <1>2, <1>5
  <1>7. R \in SUBSET S /\ IsFiniteSet(R)
    BY <1>3, FS_Subset
  <1>8. /\ SumFunctionOnSet(f, R) \in Int
        /\ SumFunctionOnSet(g, R) \in Int
        /\ SumFunctionOnSet(h, R) \in Int
    BY <1>7, SumType
  <1>9. /\ SumFunctionOnSet(f, T) = f[p] + SumFunctionOnSet(f, R)
        /\ SumFunctionOnSet(g, T) = g[p] + SumFunctionOnSet(g, R)
        /\ SumFunctionOnSet(h, T) = h[p] + SumFunctionOnSet(h, R)
        /\ SumFunctionOnSet(k, T) = k[p] + SumFunctionOnSet(k, R)
    BY <1>3, <1>4, SumUnfolds
  <1>10. SumFunctionOnSet(k, R) = SumFunctionOnSet(f, R)
             + SumFunctionOnSet(g, R) - SumFunctionOnSet(h, R)
    BY <1>6, <1>7
  <1>11. Differ(T)
    OBVIOUS
  <1> HIDE DEF p, R
  <1>12. QED
    BY <1>5, <1>8, <1>9, <1>10, <1>11

(* Elements on which the function is zero do not count. *)
LEMMA SumOverPart ==
    ASSUME NEW S, IsFiniteSet(S), NEW P \in SUBSET S, NEW f, NEW g,
           \A x \in P : f[x] = g[x] /\ g[x] \in Int,
           \A x \in S \ P : f[x] = 0
    PROVE  SumFunctionOnSet(f, S) = SumFunctionOnSet(g, P)
  <1> DEFINE Bad == {T \in SUBSET S :
                        SumFunctionOnSet(f, T) # SumFunctionOnSet(g, T \cap P)}
  <1>1. SUFFICES ASSUME Bad # {} PROVE FALSE
    <2>1. S \cap P = P
      OBVIOUS
    <2>2. QED
      BY <2>1
  <1>2. PICK T \in Bad : \A U \in Bad : U \subseteq T => U = T
    <2>1. Bad \in SUBSET SUBSET S
      OBVIOUS
    <2> HIDE DEF Bad
    <2>2. QED
      BY <1>1, <2>1, MinimalMember
  <1>3. IsFiniteSet(T) /\ IsFiniteSet(T \cap P)
    BY FS_Subset
  <1>4. T # {}
    <2>1. T = {} => T \cap P = {}
      OBVIOUS
    <2>2. QED
      BY <2>1, SumOfNone
  <1> DEFINE p == Pick(T)
             R == T \ {p}
  <1>5. p \in T /\ p \in S
    BY <1>4, PickMember
  <1>6. SumFunctionOnSet(f, R) = SumFunctionOnSet(g, R \cap P)
    BY <1>2, <1>5
  <1>7. SumFunctionOnSet(f, T) = f[p] + SumFunctionOnSet(f, R)
    BY <1>3, <1>4, SumUnfolds
  <1>8. IsFiniteSet(R \cap P) /\ SumFunctionOnSet(g, R \cap P) \in Int
    <2>1. IsFiniteSet(R \cap P)
      BY <1>3, FS_Subset
    <2>2. QED
      BY <2>1, SumType
  <1>9. CASE p \in P
    <2>1. p \in T \cap P /\ (T \cap P) \ {p} = R \cap P
      BY <1>5, <1>9
    <2>2. \A x \in T \cap P : g[x] \in Int
      OBVIOUS
    <2>3. SumFunctionOnSet(g, T \cap P) = g[p] + SumFunctionOnSet(g, R \cap P)
      BY <1>3, <2>1, <2>2, SumRemove
    <2>4. QED
      BY <1>6, <1>7, <1>9, <2>3
  <1>10. CASE p \notin P
    <2>1. T \cap P = R \cap P /\ f[p] = 0
      BY <1>5, <1>10
    <2>2. SumFunctionOnSet(f, T) = SumFunctionOnSet(f, R)
      BY <1>6, <1>7, <1>8, <2>1
    <2>3. SumFunctionOnSet(f, T) # SumFunctionOnSet(g, T \cap P)
      OBVIOUS
    <2>4. QED
      BY <1>6, <2>1, <2>2, <2>3
  <1>11. QED
    BY <1>9, <1>10

(* A sum of zeros is zero. *)
LEMMA SumOfZeros ==
    ASSUME NEW S, IsFiniteSet(S), NEW f, \A x \in S : f[x] = 0
    PROVE  SumFunctionOnSet(f, S) = 0
  <1>1. SumFunctionOnSet(f, S) = SumFunctionOnSet(f, {})
    BY SumOverPart
  <1>2. QED
    BY <1>1, SumOfNone

(* A function that has one value everywhere. *)
LEMMA SumOfConstant ==
    ASSUME NEW S, IsFiniteSet(S), NEW f, NEW c \in Int, \A x \in S : f[x] = c
    PROVE  SumFunctionOnSet(f, S) = c * Cardinality(S)
  <1> DEFINE Bad == {T \in SUBSET S : SumFunctionOnSet(f, T) # c * Cardinality(T)}
  <1>1. SUFFICES ASSUME Bad # {} PROVE FALSE
    OBVIOUS
  <1>2. PICK T \in Bad : \A U \in Bad : U \subseteq T => U = T
    <2>1. Bad \in SUBSET SUBSET S
      OBVIOUS
    <2> HIDE DEF Bad
    <2>2. QED
      BY <1>1, <2>1, MinimalMember
  <1>3. IsFiniteSet(T)
    BY FS_Subset
  <1>4. T # {}
    BY SumOfNone, FS_EmptySet
  <1> DEFINE p == Pick(T)
             R == T \ {p}
  <1>5. p \in T /\ R # T
    BY <1>4, PickMember
  <1>6. SumFunctionOnSet(f, R) = c * Cardinality(R)
    BY <1>2, <1>5
  <1>7. SumFunctionOnSet(f, T) = c + SumFunctionOnSet(f, R)
    BY <1>3, <1>4, <1>5, SumUnfolds
  <1>8. Cardinality(R) = Cardinality(T) - 1 /\ Cardinality(T) \in Nat
    BY <1>3, <1>5, FS_RemoveElement, FS_CardinalityType
  <1> HIDE DEF R, p
  <1>9. SumFunctionOnSet(f, T) = c * Cardinality(T)
    <2>1. \A n \in Nat : c + c * (n - 1) = c * n
      OBVIOUS
    <2>2. QED
      BY <1>6, <1>7, <1>8, <2>1
  <1>10. QED
    BY <1>9
===============================================================================
