--------------------------------- MODULE Sums ---------------------------------
(***************************************************************************)
(* The sum of a function over finitely many of its arguments, as Reviews   *)
(* takes it of ratings and Recommendations of scores, with the fold        *)
(* SumFunctionOnSet.  The fold visits the arguments in an order CHOOSE     *)
(* fixes; the lemmas say that it visits each once and that the order does  *)
(* not matter.                                                             *)
(*                                                                         *)
(* Every proof is by induction on finite sets of arguments, in the form of *)
(* FiniteInduction: the sets with a property are themselves a set, G.      *)
(***************************************************************************)
EXTENDS Functions, FiniteSetTheorems, WellFoundedInduction, TLAPS

SumOver(w, S) == SumFunctionOnSet(w, S)

(* The fold is a recursive function on the subsets of a set.               *)
Pick(s) == CHOOSE p \in s : TRUE
IsFold(w, D, f) ==
  f = [s \in SUBSET D |-> IF s = {} THEN 0 ELSE w[Pick(s)] + f[s \ {Pick(s)}]]
Fold(w, D) == CHOOSE f : IsFold(w, D, f)

(* A set of subsets of a finite set contains them all if it contains each  *)
(* one of which it contains the strict subsets.                            *)
LEMMA FiniteInduction ==
  ASSUME NEW S, IsFiniteSet(S), NEW G,
         \A T \in SUBSET S : (\A U \in SUBSET T : U # T => U \in G) => T \in G
  PROVE  \A T \in SUBSET S : T \in G
  <1> DEFINE Bad == (SUBSET S) \ G
  <1> SUFFICES ASSUME Bad # {} PROVE FALSE
    OBVIOUS
  <1>1. IsWellFoundedOn(StrictSubsetOrdering(S), SUBSET S)
    <2>1. FiniteSubsetsOf(S) = SUBSET S
      BY FS_FiniteSubsetsOfFinite
    <2>2. IsWellFoundedOn(StrictSubsetOrdering(S), FiniteSubsetsOf(S))
      BY FS_StrictSubsetOrderingWellFounded
    <2> QED BY <2>1, <2>2
  <1>2. PICK T \in Bad : \A U \in Bad : <<U, T>> \notin StrictSubsetOrdering(S)
    <2>1. Bad \subseteq SUBSET S
      OBVIOUS
    <2> HIDE DEF Bad
    <2> QED BY <1>1, <2>1, WFMin
  <1>3. \A U \in SUBSET T : U # T => U \in G
    BY <1>2 DEF StrictSubsetOrdering
  <1> QED BY <1>2, <1>3

LEMMA Picked == ASSUME NEW s, s # {} PROVE Pick(s) \in s
  BY DEF Pick

(* Folds of two sets agree on the subsets they share.                      *)
LEMMA FoldUnique ==
  ASSUME NEW w, NEW D, NEW C \in SUBSET D, IsFiniteSet(C), NEW f, NEW g,
         IsFold(w, D, f), IsFold(w, C, g)
  PROVE  \A s \in SUBSET C : f[s] = g[s]
  <1> DEFINE G == {s \in SUBSET C : f[s] = g[s]}
  <1>1. ASSUME NEW T \in SUBSET C, \A U \in SUBSET T : U # T => U \in G
        PROVE  T \in G
    <2>1. CASE T = {}
      BY <2>1 DEF IsFold
    <2>2. CASE T # {}
      <3>1. T \ {Pick(T)} \in G
        BY <1>1, <2>2, Picked
      <3>2. /\ f[T] = w[Pick(T)] + f[T \ {Pick(T)}]
            /\ g[T] = w[Pick(T)] + g[T \ {Pick(T)}]
        BY <2>2 DEF IsFold
      <3> QED BY <3>1, <3>2
    <2> QED BY <2>1, <2>2
  <1>2. \A T \in SUBSET C : T \in G
    <2> HIDE DEF G
    <2> QED BY <1>1, FiniteInduction
  <1> QED BY <1>2

(* The recursion has a solution.                                           *)
LEMMA FoldExists ==
  ASSUME NEW w, NEW D, IsFiniteSet(D)
  PROVE  IsFold(w, D, Fold(w, D))
  <1> DEFINE G == {T \in SUBSET D : IsFold(w, T, Fold(w, T))}
  <1>1. ASSUME NEW T \in SUBSET D, \A U \in SUBSET T : U # T => U \in G
        PROVE  T \in G
    <2> DEFINE rest(s) == s \ {Pick(s)}
               h == [s \in SUBSET T |-> IF s = {} THEN 0
                                        ELSE w[Pick(s)] + Fold(w, rest(s))[rest(s)]]
    <2>1. ASSUME NEW s \in SUBSET T, s # {}
          PROVE  rest(s) \in SUBSET T /\ rest(s) # T /\ rest(s) \in G /\ rest(s) # s
      BY <1>1, <2>1, Picked
    <2>2. ASSUME NEW u \in SUBSET T, u \in G
          PROVE  h[u] = Fold(w, u)[u]
      <3> DEFINE F == Fold(w, u)
      <3>1. IsFold(w, u, F)
        BY <2>2
      <3>2. CASE u = {}
        BY <3>1, <3>2 DEF IsFold
      <3>3. CASE u # {}
        <4>1. F[u] = w[Pick(u)] + F[rest(u)]
          BY <3>1, <3>3 DEF IsFold
        <4>2. rest(u) \in G /\ rest(u) \in SUBSET u /\ IsFiniteSet(rest(u))
          BY <2>1, <3>3, FS_Subset
        <4>3. \A s \in SUBSET rest(u) : F[s] = Fold(w, rest(u))[s]
          BY <3>1, <4>2, FoldUnique
        <4>4. h[u] = w[Pick(u)] + Fold(w, rest(u))[rest(u)]
          BY <3>3
        <4> QED BY <4>1, <4>3, <4>4
      <3> QED BY <3>2, <3>3
    <2>3. \A s \in SUBSET T : s # {} => h[rest(s)] = Fold(w, rest(s))[rest(s)]
      BY <2>1, <2>2
    <2>4. h = [s \in SUBSET T |-> IF s = {} THEN 0 ELSE w[Pick(s)] + h[rest(s)]]
      BY <2>3
    <2>5. IsFold(w, T, h)
      BY <2>4 DEF IsFold
    <2> HIDE DEF h
    <2> QED BY <2>5 DEF Fold
  <1>2. \A T \in SUBSET D : T \in G
    <2> HIDE DEF G
    <2> QED BY <1>1, FiniteInduction
  <1> QED BY <1>2

-----------------------------------------------------------------------------
(* What a sum is, the order of CHOOSE still in it.                         *)
LEMMA SumOfPicked ==
  ASSUME NEW w, NEW S, IsFiniteSet(S)
  PROVE  SumOver(w, S) = IF S = {} THEN 0
                            ELSE w[Pick(S)] + SumOver(w, S \ {Pick(S)})
  <1>1. \A T : SumOver(w, T) = Fold(w, T)[T]
    BY DEF SumOver, Fold, IsFold, Pick, SumFunctionOnSet, FoldFunctionOnSet, MapThenFoldSet
  <1>2. IsFold(w, S, Fold(w, S))
    BY FoldExists
  <1>3. CASE S = {}
    BY <1>1, <1>2, <1>3 DEF IsFold
  <1>4. CASE S # {}
    <2> DEFINE R == S \ {Pick(S)}
    <2>1. R \in SUBSET S /\ IsFiniteSet(R)
      BY FS_Subset
    <2>2. \A s \in SUBSET R : Fold(w, S)[s] = Fold(w, R)[s]
      <3>1. IsFold(w, R, Fold(w, R))
        BY <2>1, FoldExists
      <3> DEFINE f == Fold(w, S)
                 g == Fold(w, R)
      <3> HIDE DEF R, f, g
      <3>2. IsFold(w, S, f) /\ IsFold(w, R, g)
        BY <1>2, <3>1 DEF f, g
      <3>3. \A s \in SUBSET R : f[s] = g[s]
        BY <2>1, <3>2, FoldUnique
      <3> QED BY <3>3, Zenon DEF f, g
    <2>3. Fold(w, S)[S] = w[Pick(S)] + Fold(w, S)[R]
      BY <1>2, <1>4 DEF IsFold
    <2> QED BY <1>1, <1>4, <2>2, <2>3
  <1> QED BY <1>3, <1>4

LEMMA SumOfNone == \A w : SumOver(w, {}) = 0
  BY SumOfPicked, FS_EmptySet

(* Sums are integers.                                                      *)
LEMMA SumIsInt ==
  ASSUME NEW w, NEW S, IsFiniteSet(S), \A p \in S : w[p] \in Int
  PROVE  SumOver(w, S) \in Int
  <1> DEFINE G == {T \in SUBSET S : SumOver(w, T) \in Int}
  <1>1. ASSUME NEW T \in SUBSET S, \A U \in SUBSET T : U # T => U \in G
        PROVE  T \in G
    <2>1. CASE T = {}
      BY <2>1, SumOfNone
    <2>2. CASE T # {}
      <3>1. T \ {Pick(T)} \in G /\ Pick(T) \in S /\ IsFiniteSet(T)
        BY <1>1, <2>2, Picked, FS_Subset
      <3>2. SumOver(w, T) = w[Pick(T)] + SumOver(w, T \ {Pick(T)})
        BY <2>2, <3>1, SumOfPicked
      <3> QED BY <3>1, <3>2
    <2> QED BY <2>1, <2>2
  <1>2. \A T \in SUBSET S : T \in G
    <2> HIDE DEF G
    <2> QED BY <1>1, FiniteInduction
  <1> QED BY <1>2

LEMMA Swap == \A a, b, c \in Int : a + (b + c) = b + (a + c) /\ (a + b) + c = b + (a + c)
  OBVIOUS

(* Any argument may be the one that is taken first.                        *)
LEMMA SumOfAny ==
  ASSUME NEW w, NEW S, IsFiniteSet(S), \A p \in S : w[p] \in Int, NEW x \in S
  PROVE  SumOver(w, S) = w[x] + SumOver(w, S \ {x})
  <1> DEFINE G == {T \in SUBSET S : \A y \in T :
                      SumOver(w, T) = w[y] + SumOver(w, T \ {y})}
  <1>1. ASSUME NEW T \in SUBSET S, \A U \in SUBSET T : U # T => U \in G
        PROVE  T \in G
    <2> SUFFICES ASSUME NEW y \in T
                 PROVE  SumOver(w, T) = w[y] + SumOver(w, T \ {y})
      OBVIOUS
    <2>1. PICK p \in T : SumOver(w, T) = w[p] + SumOver(w, T \ {p})
      BY Picked, FS_Subset, SumOfPicked
    <2>2. SumOver(w, T) = w[p] + SumOver(w, T \ {p})
      BY <2>1
    <2>3. CASE y = p
      BY <2>2, <2>3
    <2>4. CASE y # p
      <3>1. T \ {p} \in G /\ T \ {y} \in G
        BY <1>1, <2>1
      <3>2. SumOver(w, T \ {p}) = w[y] + SumOver(w, (T \ {p}) \ {y})
        BY <2>4, <3>1
      <3>3. SumOver(w, T \ {y}) = w[p] + SumOver(w, (T \ {y}) \ {p})
        BY <2>1, <2>4, <3>1
      <3>4. SumOver(w, (T \ {y}) \ {p}) = SumOver(w, (T \ {p}) \ {y})
        <4>1. (T \ {y}) \ {p} = (T \ {p}) \ {y}
          OBVIOUS
        <4> QED BY <4>1, Zenon
      <3>5. SumOver(w, (T \ {p}) \ {y}) \in Int /\ w[p] \in Int /\ w[y] \in Int
        BY FS_Subset, SumIsInt
      <3> HIDE DEF G
      <3> QED BY <2>2, <3>2, <3>3, <3>4, <3>5, Swap
    <2> QED BY <2>3, <2>4
  <1>2. \A T \in SUBSET S : T \in G
    <2> HIDE DEF G
    <2> QED BY <1>1, FiniteInduction
  <1> QED BY <1>2

(* The sum over two disjoint sets.                                         *)
LEMMA SumOfUnion ==
  ASSUME NEW w, NEW S, NEW T, IsFiniteSet(S), IsFiniteSet(T), S \cap T = {},
         \A p \in S \cup T : w[p] \in Int
  PROVE  SumOver(w, S \cup T) = SumOver(w, S) + SumOver(w, T)
  <1> DEFINE G == {U \in SUBSET T : SumOver(w, S \cup U) = SumOver(w, S) + SumOver(w, U)}
  <1>1. ASSUME NEW U \in SUBSET T, \A V \in SUBSET U : V # U => V \in G
        PROVE  U \in G
    <2>1. CASE U = {}
      <3>1. SumOver(w, S) \in Int /\ SumOver(w, {}) = 0 /\ S \cup {} = S
        BY SumIsInt, SumOfNone
      <3> QED BY <2>1, <3>1
    <2>2. CASE U # {}
      <3>0. PICK p \in U : p = Pick(U)
        BY <2>2, Picked
      <3> DEFINE V == U \ {p}
      <3>1. p \in U /\ V \in G /\ IsFiniteSet(U) /\ IsFiniteSet(V) /\ IsFiniteSet(S \cup U)
        BY <1>1, <2>2, Picked, FS_Subset, FS_Union
      <3>2. SumOver(w, (S \cup U) \ {p}) = SumOver(w, S \cup V)
        <4>1. (S \cup U) \ {p} = S \cup V
          BY <3>1
        <4> QED BY <4>1, Zenon
      <3>3. SumOver(w, S \cup U) = w[p] + SumOver(w, (S \cup U) \ {p})
        BY <3>1, SumOfAny
      <3>4. SumOver(w, U) = w[p] + SumOver(w, V)
        BY <3>1, SumOfAny
      <3>5. SumOver(w, S) \in Int /\ SumOver(w, V) \in Int /\ w[p] \in Int
        BY <3>1, SumIsInt
      <3>6. SumOver(w, S \cup V) = SumOver(w, S) + SumOver(w, V)
        BY <3>1
      <3>7. SumOver(w, S \cup U) = SumOver(w, S) + SumOver(w, U)
        <4> HIDE DEF V, G
        <4> QED BY <3>2, <3>3, <3>4, <3>5, <3>6, Swap
      <3> QED BY <3>7
    <2> QED BY <2>1, <2>2
  <1>2. \A U \in SUBSET T : U \in G
    <2> HIDE DEF G
    <2> QED BY <1>1, FiniteInduction
  <1> QED BY <1>2

(* Only the values that are summed matter.                                 *)
LEMMA SumOfSame ==
  ASSUME NEW w, NEW v, NEW S, IsFiniteSet(S), \A p \in S : w[p] = v[p]
  PROVE  SumOver(w, S) = SumOver(v, S)
  <1> DEFINE G == {T \in SUBSET S : SumOver(w, T) = SumOver(v, T)}
  <1>1. ASSUME NEW T \in SUBSET S, \A U \in SUBSET T : U # T => U \in G
        PROVE  T \in G
    <2>1. CASE T = {}
      BY <2>1, SumOfNone
    <2>2. CASE T # {}
      <3>1. T \ {Pick(T)} \in G /\ Pick(T) \in S /\ IsFiniteSet(T)
        BY <1>1, <2>2, Picked, FS_Subset
      <3>2. /\ SumOver(w, T) = w[Pick(T)] + SumOver(w, T \ {Pick(T)})
            /\ SumOver(v, T) = v[Pick(T)] + SumOver(v, T \ {Pick(T)})
        BY <2>2, <3>1, SumOfPicked
      <3> QED BY <3>1, <3>2
    <2> QED BY <2>1, <2>2
  <1>2. \A T \in SUBSET S : T \in G
    <2> HIDE DEF G
    <2> QED BY <1>1, FiniteInduction
  <1> QED BY <1>2

(* Arguments with the value 0 may be left out.                             *)
LEMMA SumOfZeros ==
  ASSUME NEW w, NEW S, IsFiniteSet(S), \A p \in S : w[p] = 0
  PROVE  SumOver(w, S) = 0
  <1> DEFINE G == {T \in SUBSET S : SumOver(w, T) = 0}
  <1>1. ASSUME NEW T \in SUBSET S, \A U \in SUBSET T : U # T => U \in G
        PROVE  T \in G
    <2>1. CASE T = {}
      BY <2>1, SumOfNone
    <2>2. CASE T # {}
      <3>1. T \ {Pick(T)} \in G /\ Pick(T) \in S /\ IsFiniteSet(T)
        BY <1>1, <2>2, Picked, FS_Subset
      <3>2. SumOver(w, T) = w[Pick(T)] + SumOver(w, T \ {Pick(T)})
        BY <2>2, <3>1, SumOfPicked
      <3> QED BY <3>1, <3>2
    <2> QED BY <2>1, <2>2
  <1>2. \A T \in SUBSET S : T \in G
    <2> HIDE DEF G
    <2> QED BY <1>1, FiniteInduction
  <1> QED BY <1>2

LEMMA SumOfSupport ==
  ASSUME NEW w, NEW S, IsFiniteSet(S), NEW T \in SUBSET S,
         \A p \in T : w[p] \in Int, \A p \in S \ T : w[p] = 0
  PROVE  SumOver(w, S) = SumOver(w, T)
  <1>1. IsFiniteSet(T) /\ IsFiniteSet(S \ T) /\ T \cap (S \ T) = {} /\ S = T \cup (S \ T)
    BY FS_Subset, FS_Difference
  <1>2. SumOver(w, S \ T) = 0 /\ SumOver(w, T) \in Int
    BY <1>1, SumOfZeros, SumIsInt
  <1>3. \A p \in T \cup (S \ T) : w[p] \in Int
    OBVIOUS
  <1> DEFINE U == S \ T
  <1> HIDE DEF U
  <1>4. SumOver(w, T \cup U) = SumOver(w, T) + SumOver(w, U)
    BY <1>1, <1>3, SumOfUnion DEF U
  <1>5. SumOver(w, S) = SumOver(w, T \cup U)
    BY <1>1, Zenon DEF U
  <1> QED BY <1>2, <1>4, <1>5 DEF U
=============================================================================
