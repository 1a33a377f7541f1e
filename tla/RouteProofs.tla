------------------------------ MODULE RouteProofs ------------------------------
(***************************************************************************)
(* Proofs about Routes: on every path, the prefix tree of the code and the *)
(* templates of the API description name the same operations, with the     *)
(* same parameters.                                                        *)
(*                                                                         *)
(* The tree works on the path from the front, the templates on its         *)
(* segments.  Both are brought to one form: the first segment of a path,   *)
(* First, and the rest from the next slash on, More.  In these terms the   *)
(* eighteen templates are fourteen kinds of path, of which a path has one  *)
(* at most; the templates are computed for each kind (Templated, Names),   *)
(* and so is the tree (Reached).                                           *)
(***************************************************************************)
EXTENDS Routes, FiniteSetTheorems, SequenceTheorems, FunctionTheorems, TLAPS

-----------------------------------------------------------------------------
(* Positions                                                               *)

(* The elements of a set of positions, and the end, are as many as the     *)
(* ranks they may have, so each rank belongs to exactly one of them.       *)
LEMMA Ranks ==
  ASSUME NEW n \in Nat, NEW S \in SUBSET (1 .. n)
  PROVE  /\ IsFiniteSet(S) /\ Cardinality(S) \in Nat
         /\ \A i, j \in S \cup {n + 1} :
              Cardinality({h \in S : h < i}) = Cardinality({h \in S : h < j}) => i = j
         /\ \A k \in 0 .. Cardinality(S) :
              \E i \in S \cup {n + 1} : Cardinality({h \in S : h < i}) = k
  <1> DEFINE E == S \cup {n + 1}
             below(i) == {h \in S : h < i}
             c == Cardinality(S)
             rank == [i \in E |-> Cardinality(below(i))]
  <1>1. IsFiniteSet(S) /\ c \in Nat
    <2>1. IsFiniteSet(1 .. n)
      BY FS_Interval
    <2> QED BY <2>1, FS_Subset, FS_CardinalityType
  <1>2. \A i : IsFiniteSet(below(i)) /\ Cardinality(below(i)) \in 0 .. c
    <2> TAKE i
    <2>1. below(i) \subseteq S
      OBVIOUS
    <2> HIDE DEF below
    <2> QED BY <1>1, <2>1, FS_Subset, FS_CardinalityType
  <1>3. ASSUME NEW i \in E, NEW j \in E, i < j
        PROVE  Cardinality(below(i)) < Cardinality(below(j))
    <2>1. i \in S
      BY <1>3
    <2>2. below(i) \subseteq below(j) /\ i \in below(j) /\ i \notin below(i)
      <3>1. i \in Int /\ j \in Int /\ \A h \in S : h \in Int
        OBVIOUS
      <3>2. \A h \in S : h < i => h < j
        BY <1>3, <3>1
      <3>3. ~(i < i)
        BY <3>1
      <3> QED BY <1>3, <2>1, <3>2, <3>3
    <2> HIDE DEF below
    <2>3. below(i) # below(j)
      BY <2>2
    <2> QED BY <1>2, <2>2, <2>3, FS_Subset
  <1>4. \A i, j \in E : Cardinality(below(i)) = Cardinality(below(j)) => i = j
    <2> TAKE i, j \in E
    <2>1. i \in Int /\ j \in Int
      OBVIOUS
    <2>2. i = j \/ i < j \/ j < i
      BY <2>1
    <2>3. Cardinality(below(i)) \in Nat /\ Cardinality(below(j)) \in Nat
      BY <1>1, <1>2
    <2> HIDE DEF E, below
    <2> QED BY <1>3, <2>2, <2>3
  <1>5. IsFiniteSet(E) /\ Cardinality(E) = c + 1
    BY <1>1, FS_AddElement
  <1>6. IsFiniteSet(0 .. c) /\ Cardinality(0 .. c) = c + 1
    BY <1>1, FS_Interval
  <1>7. rank \in Injection(E, 0 .. c)
    <2>1. rank \in [E -> 0 .. c]
      BY <1>2
    <2>2. \A i, j \in E : rank[i] = rank[j] => i = j
      BY <1>4
    <2> HIDE DEF rank, E, c
    <2> QED BY <2>1, <2>2 DEF Injection, IsInjective
  <1>8. rank \in Surjection(E, 0 .. c)
    <2> HIDE DEF rank, E, c
    <2> QED BY <1>5, <1>6, <1>7, FS_Injection
  <1>9. \A k \in 0 .. c : \E i \in E : Cardinality(below(i)) = k
    <2>1. \A k \in 0 .. c : \E i \in E : rank[i] = k
      <3> HIDE DEF rank, E, c
      <3> QED BY <1>8 DEF Surjection
    <2> QED BY <2>1
  <1> QED BY <1>1, <1>4, <1>9

(* The first slash, where a parameter ends.                                *)
LEMMA FirstSlash ==
  ASSUME NEW s \in Seq(STRING)
  PROVE  /\ Until(s) \in 0 .. Len(s)
         /\ Until(s) = 0 => \A i \in 1 .. Len(s) : s[i] # "/"
         /\ Until(s) # 0 => /\ s[Until(s)] = "/"
                            /\ \A i \in 1 .. Until(s) - 1 : s[i] # "/"
  <1> DEFINE I == {i \in 1 .. Len(s) : s[i] = "/"}
  <1>1. Until(s) = IF I # {} THEN Min(I) ELSE 0
    BY DEF Until, SelectInSeq
  <1>2. Len(s) \in Nat
    BY LenProperties
  <1>3. CASE I = {}
    BY <1>1, <1>2, <1>3
  <1>4. CASE I # {}
    <2>1. /\ IsFiniteSet(I) /\ Cardinality(I) \in Nat
          /\ \A k \in 0 .. Cardinality(I) :
               \E i \in I \cup {Len(s) + 1} : Cardinality({h \in I : h < i}) = k
      <3>1. I \in SUBSET (1 .. Len(s))
        OBVIOUS
      <3> HIDE DEF I
      <3>2. /\ IsFiniteSet(I) /\ Cardinality(I) \in Nat
            /\ \A i, j \in I \cup {Len(s) + 1} :
                 Cardinality({h \in I : h < i}) = Cardinality({h \in I : h < j}) => i = j
            /\ \A k \in 0 .. Cardinality(I) :
                 \E i \in I \cup {Len(s) + 1} : Cardinality({h \in I : h < i}) = k
        BY <1>2, <3>1, Ranks, Zenon
      <3> QED BY <3>2
    <2>2. PICK i \in I \cup {Len(s) + 1} : Cardinality({h \in I : h < i}) = 0
      <3>1. 0 \in 0 .. Cardinality(I)
        BY <2>1
      <3> HIDE DEF I
      <3> QED BY <2>1, <3>1
    <2>3. IsFiniteSet({h \in I : h < i})
      BY <2>1, FS_Subset
    <2>4. {h \in I : h < i} = {}
      BY <2>2, <2>3, FS_EmptySet
    <2>5. i \in I /\ \A h \in I : i <= h
      BY <1>2, <1>4, <2>4
    <2>6. Min(I) \in I /\ \A h \in I : Min(I) <= h
      <3> HIDE DEF I
      <3> QED BY <2>5 DEF Min
    <2>7. Until(s) = Min(I)
      BY <1>1, <1>4
    <2>8. Until(s) \in 1 .. Len(s) /\ s[Until(s)] = "/"
      BY <2>6, <2>7
    <2>9. ASSUME NEW h \in 1 .. Until(s) - 1, s[h] = "/"
          PROVE  FALSE
      <3>1. h \in I /\ h < Until(s)
        BY <1>2, <2>8, <2>9
      <3> QED BY <1>2, <2>6, <2>7, <2>8, <3>1
    <2> QED BY <1>2, <2>8, <2>9
  <1> QED BY <1>3, <1>4

(* A path is its first parameter, which holds no slash, and what follows,  *)
(* which is empty or begins with one.                                      *)
LEMMA Parted ==
  ASSUME NEW s \in Seq(STRING)
  PROVE  /\ Param(s) \in Seq(STRING) /\ After(s) \in Seq(STRING)
         /\ Len(s) = Len(Param(s)) + Len(After(s))
         /\ \A i \in 1 .. Len(Param(s)) : s[i] = Param(s)[i] /\ s[i] # "/"
         /\ \A i \in 1 .. Len(After(s)) : s[Len(Param(s)) + i] = After(s)[i]
         /\ After(s) # <<>> => After(s)[1] = "/"
  <1> DEFINE u == Until(s)
  <1>1. /\ u \in 0 .. Len(s) /\ Len(s) \in Nat
        /\ \A i \in 1 .. Len(s) : s[i] \in STRING
    BY FirstSlash, LenProperties, ElementOfSeq
  <1>2. CASE u = 0
    <2>1. Param(s) = s /\ After(s) = <<>>
      BY <1>2 DEF Param, After
    <2>2. \A i \in 1 .. Len(s) : s[i] # "/"
      BY <1>2, FirstSlash
    <2> QED BY <1>1, <2>1, <2>2
  <1>3. CASE u # 0
    <2>1. Param(s) = SubSeq(s, 1, u - 1) /\ After(s) = SubSeq(s, u, Len(s))
      BY <1>3 DEF Param, After
    <2>2. /\ \A i \in 1 .. u - 1 : s[i] \in STRING
          /\ \A i \in u .. Len(s) : s[i] \in STRING
      BY <1>1, <1>3
    <2>3. /\ Param(s) \in Seq(STRING) /\ Len(Param(s)) = u - 1
          /\ \A i \in 1 .. u - 1 : Param(s)[i] = s[i]
      <3>1. SubSeq(s, 1, u - 1) \in Seq(STRING)
        BY <1>1, <2>2, SubSeqProperties
      <3>2. Len(SubSeq(s, 1, u - 1)) = IF 1 <= u - 1 THEN (u - 1) - 1 + 1 ELSE 0
        BY <1>1, <2>2, SubSeqProperties
      <3>3. \A i \in 1 .. (u - 1) - 1 + 1 : SubSeq(s, 1, u - 1)[i] = s[1 + i - 1]
        BY <1>1, <2>2, SubSeqProperties
      <3> HIDE DEF u
      <3> QED BY <1>1, <1>3, <2>1, <3>1, <3>2, <3>3
    <2>4. /\ After(s) \in Seq(STRING) /\ Len(After(s)) = Len(s) - u + 1
          /\ \A i \in 1 .. Len(s) - u + 1 : After(s)[i] = s[u + i - 1]
      <3>1. SubSeq(s, u, Len(s)) \in Seq(STRING)
        BY <1>1, <2>2, SubSeqProperties
      <3>2. Len(SubSeq(s, u, Len(s))) = IF u <= Len(s) THEN Len(s) - u + 1 ELSE 0
        BY <1>1, <2>2, SubSeqProperties
      <3>3. \A i \in 1 .. Len(s) - u + 1 : SubSeq(s, u, Len(s))[i] = s[u + i - 1]
        BY <1>1, <2>2, SubSeqProperties
      <3> HIDE DEF u
      <3> QED BY <1>1, <1>3, <2>1, <3>1, <3>2, <3>3
    <2>5. s[u] = "/" /\ \A i \in 1 .. u - 1 : s[i] # "/"
      BY <1>3, FirstSlash
    <2> HIDE DEF u
    <2> QED BY <1>1, <1>3, <2>3, <2>4, <2>5
  <1> QED BY <1>2, <1>3

(* Positions moved along a path stay as many.                              *)
LEMMA Shifted ==
  ASSUME NEW W \in SUBSET Int, IsFiniteSet(W), NEW d \in Int
  PROVE  /\ IsFiniteSet({h + d : h \in W})
         /\ Cardinality({h + d : h \in W}) = Cardinality(W)
  <1> DEFINE U == {h + d : h \in W}
             f == [h \in W |-> h + d]
  <1>1. f \in [W -> U]
    OBVIOUS
  <1>2. \A g, h \in W : f[g] = f[h] => g = h
    <2> TAKE g, h \in W
    <2>1. g \in Int /\ h \in Int
      OBVIOUS
    <2> QED BY <2>1
  <1>3. \A i \in U : \E h \in W : f[h] = i
    OBVIOUS
  <1> HIDE DEF f, U
  <1>4. f \in Bijection(W, U)
    BY <1>1, <1>2, <1>3 DEF Bijection, Injection, Surjection, IsInjective
  <1>5. IsFiniteSet(U) /\ Cardinality(U) = Cardinality(W)
    BY <1>4, FS_Bijection DEF ExistsBijection
  <1> QED BY <1>5 DEF U

(* The number of slashes before a position.                                *)
Rank(s, i) == Cardinality({h \in Slashes(s) : h < i})
Edges(s) == Slashes(s) \cup {Len(s) + 1}

(* Each cut of a path is the one edge with its number of slashes before    *)
(* it.                                                                     *)
LEMMA Cuts ==
  ASSUME NEW s \in Seq(STRING)
  PROVE  /\ IsFiniteSet(Slashes(s)) /\ Cardinality(Slashes(s)) \in Nat
         /\ Slashes(s) \subseteq 1 .. Len(s) /\ Len(s) \in Nat
         /\ \A k \in 1 .. Cardinality(Slashes(s)) + 1 :
              Cut(s, k) \in Edges(s) /\ Rank(s, Cut(s, k)) = k - 1
         /\ \A i \in Edges(s), k \in Int : Rank(s, i) = k - 1 => Cut(s, k) = i
  <1> DEFINE T == Slashes(s)
  <1>1. Len(s) \in Nat /\ T \in SUBSET (1 .. Len(s))
    BY LenProperties DEF Slashes
  <1>2. /\ IsFiniteSet(T) /\ Cardinality(T) \in Nat
        /\ \A i, j \in T \cup {Len(s) + 1} :
             Cardinality({h \in T : h < i}) = Cardinality({h \in T : h < j}) => i = j
        /\ \A k \in 0 .. Cardinality(T) :
             \E i \in T \cup {Len(s) + 1} : Cardinality({h \in T : h < i}) = k
    <2> HIDE DEF T
    <2>1. Len(s) \in Nat
      BY <1>1
    <2>2. T \in SUBSET (1 .. Len(s))
      BY <1>1
    <2> QED BY <2>1, <2>2, Ranks, Zenon
  <1>3. ASSUME NEW k \in 1 .. Cardinality(T) + 1
        PROVE  Cut(s, k) \in Edges(s) /\ Rank(s, Cut(s, k)) = k - 1
    <2>1. k - 1 \in 0 .. Cardinality(T)
      BY <1>2
    <2>2. \E i \in T \cup {Len(s) + 1} : Cardinality({h \in T : h < i}) = k - 1
      BY <1>2, <2>1
    <2> QED BY <2>2 DEF Cut, Rank, Edges
  <1>4. ASSUME NEW i \in Edges(s), NEW k \in Int, Rank(s, i) = k - 1
        PROVE  Cut(s, k) = i
    <2>1. Cut(s, k) \in Edges(s) /\ Rank(s, Cut(s, k)) = k - 1
      BY <1>4 DEF Cut, Rank, Edges
    <2>2. \A g, h \in Edges(s) : Rank(s, g) = Rank(s, h) => g = h
      BY <1>2 DEF Edges, Rank
    <2> QED BY <1>4, <2>1, <2>2
  <1> QED BY <1>1, <1>2, <1>3, <1>4

(* The slashes of a path are the first and, further on, those of what      *)
(* follows its first segment; so are its segments.                         *)
LEMMA Peeled ==
  ASSUME NEW p \in Seq(STRING), p # <<>>, p[1] = "/"
  PROVE  LET a == Param(Tail(p))
             r == After(Tail(p))
         IN  /\ Cardinality(Slashes(p)) = Cardinality(Slashes(r)) + 1
             /\ Segments(p)[1] = a
             /\ \A k \in 1 .. Cardinality(Slashes(r)) : Segments(p)[k + 1] =
                  Segments(r)[k]
  <1> DEFINE q == Tail(p)
             a == Param(q)
             r == After(q)
             u == Len(a) + 1
  <1>1. /\ q \in Seq(STRING) /\ Len(p) = Len(q) + 1
        /\ \A i \in 1 .. Len(q) : q[i] = p[i + 1]
    BY HeadTailProperties
  <1>2. /\ a \in Seq(STRING) /\ r \in Seq(STRING)
        /\ Len(q) = Len(a) + Len(r)
        /\ \A i \in 1 .. Len(a) : q[i] = a[i] /\ q[i] # "/"
        /\ \A i \in 1 .. Len(r) : q[Len(a) + i] = r[i]
        /\ r # <<>> => r[1] = "/"
    BY <1>1, Parted
  <1>3. Len(a) \in Nat /\ Len(r) \in Nat /\ Len(p) \in Nat /\ u \in Nat
    BY <1>1, <1>2, LenProperties
  <1> HIDE DEF q, a, r
  <1>4. /\ Len(p) = u + Len(r)
        /\ \A i \in 1 .. Len(a) : p[i + 1] = a[i] /\ p[i + 1] # "/"
        /\ \A i \in 1 .. Len(r) : p[i + u] = r[i]
    <2>1. Len(p) = u + Len(r)
      BY <1>1, <1>2, <1>3
    <2>2. ASSUME NEW i \in 1 .. Len(a)
          PROVE  p[i + 1] = a[i] /\ p[i + 1] # "/"
      BY <1>1, <1>2, <1>3
    <2>3. ASSUME NEW i \in 1 .. Len(r)
          PROVE  p[i + u] = r[i]
      <3>1. Len(a) + i \in 1 .. Len(q) /\ (Len(a) + i) + 1 = i + u
        BY <1>2, <1>3
      <3>2. q[Len(a) + i] = p[(Len(a) + i) + 1]
        BY <1>1, <3>1
      <3> HIDE DEF u
      <3> QED BY <1>2, <3>1, <3>2
    <2> QED BY <2>1, <2>2, <2>3
  <1> HIDE DEF u
  <1>5. Len(a) = u - 1 /\ u >= 1
    BY <1>3 DEF u
  <1>6. Slashes(p) = {1} \cup {h + u : h \in Slashes(r)}
    <2>1. ASSUME NEW i \in Slashes(p), i # 1
          PROVE  i \in {h + u : h \in Slashes(r)}
      <3>1. i \in 1 .. Len(p) /\ p[i] = "/"
        BY DEF Slashes
      <3>2. CASE i <= u
        <4>1. i - 1 \in 1 .. Len(a) /\ (i - 1) + 1 = i
          BY <1>3, <1>5, <2>1, <3>1, <3>2
        <4> QED BY <1>4, <3>1, <4>1
      <3>3. CASE i > u
        <4>1. i - u \in 1 .. Len(r) /\ (i - u) + u = i
          BY <1>3, <1>4, <3>1, <3>3
        <4>2. i - u \in Slashes(r)
          BY <1>4, <3>1, <4>1 DEF Slashes
        <4> QED BY <4>1, <4>2
      <3> QED BY <1>3, <3>1, <3>2, <3>3
    <2>2. ASSUME NEW h \in Slashes(r)
          PROVE  h + u \in Slashes(p)
      <3>1. h \in 1 .. Len(r) /\ r[h] = "/"
        BY DEF Slashes
      <3>2. h + u \in 1 .. Len(p)
        BY <1>3, <1>4, <3>1
      <3> QED BY <1>4, <3>1, <3>2 DEF Slashes
    <2>3. 1 \in Slashes(p)
      <3>1. 1 \in 1 .. Len(p)
        BY <1>3, <1>4, <1>5
      <3> QED BY <3>1 DEF Slashes
    <2> QED BY <2>1, <2>2, <2>3
  <1>7. /\ IsFiniteSet(Slashes(r)) /\ Cardinality(Slashes(r)) \in Nat
        /\ Slashes(r) \subseteq 1 .. Len(r)
        /\ \A k \in 1 .. Cardinality(Slashes(r)) + 1 :
             Cut(r, k) \in Edges(r) /\ Rank(r, Cut(r, k)) = k - 1
    BY <1>2, Cuts
  <1>8. \A T \in SUBSET Slashes(r) :
          /\ IsFiniteSet({1} \cup {h + u : h \in T})
          /\ Cardinality({1} \cup {h + u : h \in T}) = Cardinality(T) + 1
          /\ Cardinality(T) \in Nat
    <2> TAKE T \in SUBSET Slashes(r)
    <2>1. T \in SUBSET Int /\ IsFiniteSet(T)
      BY <1>7, FS_Subset
    <2>2. /\ IsFiniteSet({h + u : h \in T})
          /\ Cardinality({h + u : h \in T}) = Cardinality(T)
      <3>1. u \in Int
        BY <1>3
      <3> QED BY <2>1, <3>1, Shifted, Zenon
    <2>3. 1 \notin {h + u : h \in T}
      <3>1. \A h \in T : h \in 1 .. Len(r)
        BY <1>7
      <3> QED BY <1>3, <1>5, <3>1
    <2>4. {1} \cup {h + u : h \in T} = {h + u : h \in T} \cup {1}
      OBVIOUS
    <2> QED BY <2>1, <2>2, <2>3, <2>4, FS_AddElement, FS_CardinalityType
  <1>9. Cardinality(Slashes(p)) = Cardinality(Slashes(r)) + 1
    BY <1>6, <1>8
  <1>10. \A i \in Edges(r) : i \in 1 .. Len(r) + 1 /\ i + u \in Edges(p)
    <2> TAKE i \in Edges(r)
    <2>1. i \in Slashes(r) \/ i = Len(r) + 1
      BY DEF Edges
    <2>2. i \in 1 .. Len(r) + 1
      BY <1>3, <1>7, <2>1
    <2>3. i = Len(r) + 1 => i + u = Len(p) + 1
      BY <1>3, <1>4
    <2> QED BY <1>6, <2>1, <2>2, <2>3 DEF Edges
  <1>11. ASSUME NEW i \in Edges(r)
         PROVE  Rank(p, i + u) = Rank(r, i) + 1
    <2> DEFINE T == {h \in Slashes(r) : h < i}
    <2>1. {h \in Slashes(p) : h < i + u} = {1} \cup {h + u : h \in T}
      <3>1. i \in Int /\ i >= 1
        BY <1>3, <1>10
      <3>2. \A h \in Slashes(r) : h \in Int /\ (h + u < i + u <=> h < i)
        BY <1>3, <1>7, <3>1
      <3>3. 1 < i + u
        BY <1>3, <1>5, <3>1
      <3> QED BY <1>6, <3>2, <3>3
    <2>2. Cardinality({1} \cup {h + u : h \in T}) = Cardinality(T) + 1
      BY <1>8
    <2> QED BY <2>1, <2>2 DEF Rank
  <1>12. Cut(p, 1) = 1
    <2>1. {h \in Slashes(p) : h < 1} = {}
      BY DEF Slashes
    <2>2. Rank(p, 1) = 1 - 1
      <3>1. Rank(p, 1) = 0
        BY <2>1, FS_EmptySet, Zenon DEF Rank
      <3> QED BY <3>1
    <2>3. 1 \in Edges(p)
      BY <1>6 DEF Edges
    <2> QED BY <2>2, <2>3, Cuts
  <1>13. ASSUME NEW k \in 1 .. Cardinality(Slashes(r)) + 1
         PROVE  Cut(p, k + 1) = Cut(r, k) + u /\ Cut(r, k) \in 1 .. Len(r) + 1
    <2>1. Cut(r, k) \in Edges(r) /\ Rank(r, Cut(r, k)) = k - 1
      BY <1>7
    <2>2. Rank(p, Cut(r, k) + u) = (k + 1) - 1
      BY <1>7, <1>11, <2>1
    <2>3. Cut(r, k) + u \in Edges(p)
      BY <1>10, <2>1
    <2>4. k + 1 \in Int
      BY <1>7
    <2> QED BY <1>10, <2>1, <2>2, <2>3, <2>4, Cuts
  <1>14. Cut(r, 1) = 1
    <2>1. {h \in Slashes(r) : h < 1} = {}
      BY DEF Slashes
    <2>2. Rank(r, 1) = 1 - 1
      <3>1. Rank(r, 1) = 0
        BY <2>1, FS_EmptySet, Zenon DEF Rank
      <3> QED BY <3>1
    <2>3. 1 \in Edges(r)
      <3>1. CASE r = <<>>
        BY <3>1 DEF Edges
      <3>2. CASE r # <<>>
        <4>1. 1 \in 1 .. Len(r)
          BY <1>2, <1>3, <3>2, EmptySeq
        <4> QED BY <1>2, <3>2, <4>1 DEF Edges, Slashes
      <3> QED BY <3>1, <3>2
    <2> QED BY <1>2, <2>2, <2>3, Cuts
  <1>15. Segments(p)[1] = a
    <2>1. Cut(p, 2) = 1 + u
      <3>1. 1 \in 1 .. Cardinality(Slashes(r)) + 1
        BY <1>7
      <3>2. Cut(p, 1 + 1) = Cut(r, 1) + u
        BY <1>13, <3>1
      <3> QED BY <1>14, <3>2
    <2>2. 1 \in 1 .. Cardinality(Slashes(p))
      BY <1>7, <1>9
    <2>3. Segments(p)[1] = SubSeq(p, 1 + 1, (1 + u) - 1)
      <3>1. Segments(p)[1] = SubSeq(p, Cut(p, 1) + 1, Cut(p, 1 + 1) - 1)
        BY <2>2, Zenon DEF Segments
      <3>2. 1 + 1 = 2
        OBVIOUS
      <3> QED BY <1>12, <2>1, <3>1, <3>2, Zenon
    <2>4. SubSeq(p, 2, u) = a
      <3>1. \A i \in 2 .. u : p[i] \in STRING
        BY <1>3, <1>4, ElementOfSeq
      <3>2. /\ SubSeq(p, 2, u) \in Seq(STRING)
            /\ Len(SubSeq(p, 2, u)) = IF 2 <= u THEN u - 2 + 1 ELSE 0
            /\ \A i \in 1 .. u - 2 + 1 : SubSeq(p, 2, u)[i] = p[2 + i - 1]
        BY <1>3, <3>1, SubSeqProperties
      <3>3. Len(SubSeq(p, 2, u)) = Len(a)
        BY <1>3, <1>5, <3>2
      <3>4. ASSUME NEW i \in 1 .. Len(a)
            PROVE  SubSeq(p, 2, u)[i] = a[i]
        <4>1. i \in 1 .. u - 2 + 1 /\ 2 + i - 1 = i + 1
          BY <1>3, <1>5
        <4> QED BY <1>4, <3>2, <4>1
      <3> QED BY <1>2, <3>2, <3>3, <3>4, SeqEqual
    <2>5. (1 + u) - 1 = u /\ 1 + 1 = 2
      BY <1>3
    <2> QED BY <2>3, <2>4, <2>5
  <1>16. ASSUME NEW k \in 1 .. Cardinality(Slashes(r))
         PROVE  Segments(p)[k + 1] = Segments(r)[k]
    <2> DEFINE m == Cut(r, k)  n == Cut(r, k + 1)
    <2>1. /\ k \in 1 .. Cardinality(Slashes(r)) + 1
          /\ k + 1 \in 1 .. Cardinality(Slashes(r)) + 1
          /\ k + 1 \in 1 .. Cardinality(Slashes(p))
      BY <1>7, <1>9
    <2>2. /\ Cut(p, k + 1) = m + u /\ Cut(p, (k + 1) + 1) = n + u
          /\ m \in 1 .. Len(r) + 1 /\ n \in 1 .. Len(r) + 1
      BY <1>13, <2>1
    <2> HIDE DEF m, n
    <2>3. Segments(p)[k + 1] = SubSeq(p, (m + u) + 1, (n + u) - 1)
      BY <2>1, <2>2 DEF Segments
    <2>4. Segments(r)[k] = SubSeq(r, m + 1, n - 1)
      BY DEF Segments, m, n
    <2>5. /\ SubSeq(r, m + 1, n - 1) \in Seq(STRING)
          /\ Len(SubSeq(r, m + 1, n - 1)) =
               IF m + 1 <= n - 1 THEN (n - 1) - (m + 1) + 1 ELSE 0
          /\ \A i \in 1 .. (n - 1) - (m + 1) + 1 :
               SubSeq(r, m + 1, n - 1)[i] = r[(m + 1) + i - 1]
      <3>1. \A i \in m + 1 .. n - 1 : r[i] \in STRING
        BY <1>2, <1>3, <2>2, ElementOfSeq
      <3>2. m + 1 \in Int /\ n - 1 \in Int
        BY <2>2
      <3> QED BY <3>1, <3>2, SubSeqProperties
    <2>6. /\ SubSeq(p, (m + u) + 1, (n + u) - 1) \in Seq(STRING)
          /\ Len(SubSeq(p, (m + u) + 1, (n + u) - 1)) =
               IF (m + u) + 1 <= (n + u) - 1 THEN ((n + u) - 1) - ((m + u) + 1) + 1 ELSE 0
          /\ \A i \in 1 .. ((n + u) - 1) - ((m + u) + 1) + 1 :
               SubSeq(p, (m + u) + 1, (n + u) - 1)[i] = p[((m + u) + 1) + i - 1]
      <3>1. \A i \in (m + u) + 1 .. (n + u) - 1 : p[i] \in STRING
        BY <1>3, <1>4, <2>2, ElementOfSeq
      <3>2. (m + u) + 1 \in Int /\ (n + u) - 1 \in Int
        BY <1>3, <2>2
      <3> QED BY <3>1, <3>2, SubSeqProperties
    <2>7. Len(SubSeq(p, (m + u) + 1, (n + u) - 1)) = Len(SubSeq(r, m + 1, n - 1))
      BY <1>3, <2>2, <2>5, <2>6
    <2>8. ASSUME NEW i \in 1 .. Len(SubSeq(r, m + 1, n - 1))
          PROVE  SubSeq(p, (m + u) + 1, (n + u) - 1)[i] = SubSeq(r, m + 1, n - 1)[i]
      <3>1. /\ i \in 1 .. (n - 1) - (m + 1) + 1
            /\ i \in 1 .. ((n + u) - 1) - ((m + u) + 1) + 1
            /\ (m + 1) + i - 1 = m + i /\ ((m + u) + 1) + i - 1 = (m + i) + u
            /\ m + i \in 1 .. Len(r)
        BY <1>3, <2>2, <2>5
      <3>2. p[(m + i) + u] = r[m + i]
        BY <1>4, <3>1
      <3> QED BY <2>5, <2>6, <3>1, <3>2
    <2> QED BY <2>3, <2>4, <2>5, <2>6, <2>7, <2>8, SeqEqual
  <1> QED BY <1>9, <1>15, <1>16 DEF q, a, r
-----------------------------------------------------------------------------
(* The description, a segment at a time                                    *)

Starts(p) == p # <<>> /\ Head(p) = "/"
First(p) == Param(Tail(p))
More(p) == After(Tail(p))
Matches(pattern, segment) == pattern = Open \/ pattern = segment

(* The segments of a path are its first one and those of the rest.         *)
LEMMA Segmented ==
  ASSUME NEW p \in Seq(STRING), Starts(p)
  PROVE  LET n == Len(Segments(More(p)))
         IN  /\ n \in Nat /\ (n = 0 <=> More(p) = <<>>)
             /\ Len(Segments(p)) = n + 1 /\ Segments(p)[1] = First(p)
             /\ \A k \in 1 .. n : Segments(p)[k + 1] = Segments(More(p))[k]
             /\ First(p) \in Seq(STRING) /\ More(p) \in Seq(STRING)
             /\ More(p) # <<>> => Starts(More(p))
  <1> DEFINE r == More(p)
  <1>1. \A s \in Seq(STRING) : /\ Cardinality(Slashes(s)) \in Nat
                               /\ Len(Segments(s)) = Cardinality(Slashes(s))
    <2> TAKE s \in Seq(STRING)
    <2>1. Cardinality(Slashes(s)) \in Nat
      BY Cuts
    <2> QED BY <2>1 DEF Segments
  <1>2. p # <<>> /\ p[1] = "/" /\ Tail(p) \in Seq(STRING)
    BY HeadTailProperties DEF Starts
  <1>3. /\ First(p) \in Seq(STRING) /\ r \in Seq(STRING)
        /\ r # <<>> => r[1] = "/"
    BY <1>2, Parted DEF First, More
  <1>4. /\ Cardinality(Slashes(p)) = Cardinality(Slashes(r)) + 1
        /\ Segments(p)[1] = First(p)
        /\ \A k \in 1 .. Cardinality(Slashes(r)) : Segments(p)[k + 1] = Segments(r)[k]
    BY <1>2, Peeled DEF First, More
  <1>5. r = <<>> => Cardinality(Slashes(r)) = 0
    <2>1. Slashes(<<>>) = {}
      BY DEF Slashes
    <2> QED BY <2>1, FS_EmptySet
  <1>6. ASSUME r # <<>>
        PROVE  Cardinality(Slashes(r)) # 0
    <2>1. Cardinality(Slashes(r)) = Cardinality(Slashes(After(Tail(r)))) + 1
      BY <1>3, <1>6, Peeled
    <2>2. After(Tail(r)) \in Seq(STRING)
      BY <1>3, <1>6, HeadTailProperties, Parted
    <2>3. Cardinality(Slashes(After(Tail(r)))) \in Nat
      BY <2>2, <1>1
    <2> QED BY <2>1, <2>3
  <1>7. r # <<>> => Starts(r)
    BY <1>3 DEF Starts
  <1> HIDE DEF r
  <1>8. Len(Segments(r)) = Cardinality(Slashes(r)) /\ Cardinality(Slashes(r)) \in Nat
        /\ Len(Segments(p)) = Cardinality(Slashes(p))
    BY <1>1, <1>3
  <1> QED BY <1>3, <1>4, <1>5, <1>6, <1>7, <1>8 DEF r

(* A path fits a template if its first segment fits the first of the       *)
(* template and the rest of the one fits the rest of the other.            *)
LEMMA Fitting ==
  ASSUME NEW p \in Seq(STRING), Starts(p), NEW a, NEW b, NEW c, NEW d
  PROVE  LET r == More(p)
             ok == Matches(a, First(p))
         IN  /\ Fits(p, <<a>>) <=> ok /\ r = <<>>
             /\ Fits(p, <<a, b>>) <=> ok /\ Fits(r, <<b>>)
             /\ Fits(p, <<a, b, c>>) <=> ok /\ Fits(r, <<b, c>>)
             /\ Fits(p, <<a, b, c, d>>) <=> ok /\ Fits(r, <<b, c, d>>)
  <1> DEFINE r == More(p)
             n == Len(Segments(r))
             ok == Matches(a, First(p))
             S == Segments(p)
             T == Segments(r)
  <1>1. /\ n \in Nat /\ (n = 0 <=> r = <<>>)
        /\ Len(S) = n + 1 /\ S[1] = First(p)
        /\ \A k \in 1 .. n : S[k + 1] = T[k]
        /\ r # <<>> => Starts(r)
    BY Segmented
  <1>2. \A t : Fits(p, t) <=>
          Len(S) = Len(t) /\ \A k \in 1 .. Len(t) : Matches(t[k], S[k])
    BY DEF Fits, Starts, Matches
  <1>3. \A t : Fits(r, t) <=> /\ r # <<>> /\ n = Len(t)
                              /\ \A k \in 1 .. Len(t) : Matches(t[k], T[k])
    BY <1>1 DEF Fits, Starts, Matches
  <1> HIDE DEF r, S, T, n
  <1> USE DEF Matches
  <1>4. /\ n >= 1 => S[2] = T[1]
        /\ n >= 2 => S[3] = T[2]
        /\ n >= 3 => S[4] = T[3]
    <2>1. /\ n >= 1 => S[1 + 1] = T[1]
          /\ n >= 2 => S[2 + 1] = T[2]
          /\ n >= 3 => S[3 + 1] = T[3]
      BY <1>1
    <2> QED BY <2>1
  <1>5. Fits(p, <<a>>) <=> ok /\ r = <<>>
    <2>1. Fits(p, <<a>>) <=> n + 1 = 1 /\ Matches(a, S[1])
      <3>1. Fits(p, <<a>>) <=>
              Len(S) = 1 /\ \A k \in 1 .. 1 : Matches(<<a>>[k], S[k])
        <4>1. Len(<<a>>) = 1
          OBVIOUS
        <4> HIDE DEF Matches
        <4> QED BY <1>2, <4>1, Zenon
      <3> QED BY <1>1, <3>1
    <2> QED BY <1>1, <2>1
  <1>6. Fits(p, <<a, b>>) <=> ok /\ Fits(r, <<b>>)
    <2>1. Fits(p, <<a, b>>) <=> n + 1 = 2 /\ Matches(a, S[1]) /\ Matches(b, S[2])
      <3>1. Fits(p, <<a, b>>) <=>
              Len(S) = 2 /\ \A k \in 1 .. 2 : Matches(<<a, b>>[k], S[k])
        <4>1. Len(<<a, b>>) = 2
          OBVIOUS
        <4> HIDE DEF Matches
        <4> QED BY <1>2, <4>1, Zenon
      <3> QED BY <1>1, <3>1
    <2>2. Fits(r, <<b>>) <=> r # <<>> /\ n = 1 /\ Matches(b, T[1])
      <3>1. Fits(r, <<b>>) <=>
              r # <<>> /\ n = 1 /\ \A k \in 1 .. 1 : Matches(<<b>>[k], T[k])
        <4>1. Len(<<b>>) = 1
          OBVIOUS
        <4> HIDE DEF Matches
        <4> QED BY <1>3, <4>1, Zenon
      <3> QED BY <3>1
    <2> QED BY <1>1, <1>4, <2>1, <2>2
  <1>7. Fits(p, <<a, b, c>>) <=> ok /\ Fits(r, <<b, c>>)
    <2>1. Fits(p, <<a, b, c>>) <=>
            n + 1 = 3 /\ Matches(a, S[1]) /\ Matches(b, S[2]) /\ Matches(c, S[3])
      <3>1. Fits(p, <<a, b, c>>) <=>
              Len(S) = 3 /\ \A k \in 1 .. 3 : Matches(<<a, b, c>>[k], S[k])
        <4>1. Len(<<a, b, c>>) = 3
          OBVIOUS
        <4> HIDE DEF Matches
        <4> QED BY <1>2, <4>1, Zenon
      <3> QED BY <1>1, <3>1
    <2>2. Fits(r, <<b, c>>) <=> r # <<>> /\ n = 2 /\ Matches(b, T[1]) /\ Matches(c, T[2])
      <3>1. Fits(r, <<b, c>>) <=>
              r # <<>> /\ n = 2 /\ \A k \in 1 .. 2 : Matches(<<b, c>>[k], T[k])
        <4>1. Len(<<b, c>>) = 2
          OBVIOUS
        <4> HIDE DEF Matches
        <4> QED BY <1>3, <4>1, Zenon
      <3> QED BY <3>1
    <2> QED BY <1>1, <1>4, <2>1, <2>2
  <1>8. Fits(p, <<a, b, c, d>>) <=> ok /\ Fits(r, <<b, c, d>>)
    <2>1. Fits(p, <<a, b, c, d>>) <=>
            /\ n + 1 = 4 /\ Matches(a, S[1]) /\ Matches(b, S[2])
            /\ Matches(c, S[3]) /\ Matches(d, S[4])
      <3>1. Fits(p, <<a, b, c, d>>) <=>
              Len(S) = 4 /\ \A k \in 1 .. 4 : Matches(<<a, b, c, d>>[k], S[k])
        <4>1. Len(<<a, b, c, d>>) = 4
          OBVIOUS
        <4> HIDE DEF Matches
        <4> QED BY <1>2, <4>1, Zenon
      <3> QED BY <1>1, <3>1
    <2>2. Fits(r, <<b, c, d>>) <=>
            r # <<>> /\ n = 3 /\ Matches(b, T[1]) /\ Matches(c, T[2]) /\ Matches(d, T[3])
      <3>1. Fits(r, <<b, c, d>>) <=>
              r # <<>> /\ n = 3 /\ \A k \in 1 .. 3 : Matches(<<b, c, d>>[k], T[k])
        <4>1. Len(<<b, c, d>>) = 3
          OBVIOUS
        <4> HIDE DEF Matches
        <4> QED BY <1>3, <4>1, Zenon
      <3> QED BY <3>1
    <2> QED BY <1>1, <1>4, <2>1, <2>2
  <1> QED BY <1>5, <1>6, <1>7, <1>8 DEF r

(* The paths of the description.  The names of the operations stand for    *)
(* what they share.                                                        *)
Is(segment, rest, word) == segment = <<word>> /\ rest = <<>>
Under(segment, rest, word) == segment = <<word>> /\ rest # <<>>

IsLog(p, word) ==
  Under(First(p), More(p), "auth") /\ First(More(p)) = <<"log", word>>
    /\ More(More(p)) = <<>>
IsTop(p, word) == Is(First(p), More(p), word)
IsOne(p, word) == Under(First(p), More(p), word) /\ More(More(p)) = <<>>
IsPart(p, word, part) ==
  /\ Under(First(p), More(p), word) /\ More(More(p)) # <<>>
  /\ Is(First(More(More(p))), More(More(More(p))), part)
IsReview(p) ==
  /\ Under(First(p), More(p), "events") /\ More(More(p)) # <<>>
  /\ Under(First(More(More(p))), More(More(More(p))), "reviews")
  /\ More(More(More(More(p)))) = <<>>

(* The templates of the API description, written as the kinds of path.     *)
LEMMA Templated ==
  ASSUME NEW p \in Seq(STRING), Starts(p)
  PROVE  /\ \A w : Fits(p, <<<<"auth">>, <<"log", w>>>>) <=> IsLog(p, w)
         /\ \A w : w # "{}" => (Fits(p, <<<<w>>>>) <=> IsTop(p, w))
         /\ \A w : w # "{}" => (Fits(p, <<<<w>>, Open>>) <=> IsOne(p, w))
         /\ \A w, v : w # "{}" /\ v # "{}" =>
              (Fits(p, <<<<w>>, Open, <<v>>>>) <=> IsPart(p, w, v))
         /\ Fits(p, <<<<"events">>, Open, <<"reviews">>, Open>>) <=> IsReview(p)
  <1> DEFINE p1 == More(p)  p2 == More(p1)  p3 == More(p2)
  <1>1. p1 \in Seq(STRING) /\ (p1 # <<>> => Starts(p1))
    BY Segmented
  <1>2. p1 # <<>> => p2 \in Seq(STRING) /\ (p2 # <<>> => Starts(p2))
    BY <1>1, Segmented
  <1>3. p1 # <<>> /\ p2 # <<>> => p3 \in Seq(STRING) /\ (p3 # <<>> => Starts(p3))
    BY <1>1, <1>2, Segmented
  <1>4. \A s, t : s = <<>> => ~Fits(s, t)
    BY DEF Fits
  <1>5. \A a, b, c, d :
          /\ Fits(p, <<a>>) <=> Matches(a, First(p)) /\ p1 = <<>>
          /\ Fits(p, <<a, b>>) <=> Matches(a, First(p)) /\ Fits(p1, <<b>>)
          /\ Fits(p, <<a, b, c>>) <=> Matches(a, First(p)) /\ Fits(p1, <<b, c>>)
          /\ Fits(p, <<a, b, c, d>>) <=> Matches(a, First(p)) /\ Fits(p1, <<b, c, d>>)
    BY Fitting
  <1>6. \A a, b, c :
          /\ Fits(p1, <<a>>) <=> p1 # <<>> /\ Matches(a, First(p1)) /\ p2 = <<>>
          /\ Fits(p1, <<a, b>>) <=> p1 # <<>> /\ Matches(a, First(p1)) /\ Fits(p2, <<b>>)
          /\ Fits(p1, <<a, b, c>>) <=>
               p1 # <<>> /\ Matches(a, First(p1)) /\ Fits(p2, <<b, c>>)
    <2> TAKE a, b, c
    <2>1. CASE p1 = <<>>
      BY <1>4, <2>1
    <2>2. CASE p1 # <<>>
      BY <1>1, <2>2, Fitting
    <2> QED BY <2>1, <2>2
  <1>7. \A a, b : p1 # <<>> =>
          /\ Fits(p2, <<a>>) <=> p2 # <<>> /\ Matches(a, First(p2)) /\ p3 = <<>>
          /\ Fits(p2, <<a, b>>) <=> p2 # <<>> /\ Matches(a, First(p2)) /\ Fits(p3, <<b>>)
    <2> TAKE a, b
    <2>1. CASE p2 = <<>>
      BY <1>4, <2>1
    <2>2. CASE p1 # <<>> /\ p2 # <<>>
      BY <1>2, <2>2, Fitting
    <2> QED BY <2>1, <2>2
  <1>8. \A a : p1 # <<>> /\ p2 # <<>> =>
          (Fits(p3, <<a>>) <=> p3 # <<>> /\ Matches(a, First(p3)) /\ More(p3) = <<>>)
    <2> TAKE a
    <2>1. CASE p3 = <<>>
      BY <1>4, <2>1
    <2>2. CASE p1 # <<>> /\ p2 # <<>> /\ p3 # <<>>
      BY <1>3, <2>2, Fitting
    <2> QED BY <2>1, <2>2
  <1>9. \A s : Matches(Open, s)
    BY DEF Matches
  <1>10. \A w, s : w # "{}" => (Matches(<<w>>, s) <=> s = <<w>>)
    BY DEF Matches, Open
  <1>11. \A w, s : Matches(<<"log", w>>, s) <=> s = <<"log", w>>
    BY DEF Matches, Open
  <1> HIDE DEF p1, p2, p3
  <1>12. \A w : Fits(p, <<<<"auth">>, <<"log", w>>>>) <=> IsLog(p, w)
    <2> TAKE w
    <2>1. Fits(p, <<<<"auth">>, <<"log", w>>>>) <=>
            Matches(<<"auth">>, First(p)) /\ Fits(p1, <<<<"log", w>>>>)
      BY <1>5, Zenon
    <2>2. Fits(p1, <<<<"log", w>>>>) <=>
            p1 # <<>> /\ Matches(<<"log", w>>, First(p1)) /\ p2 = <<>>
      BY <1>6, Zenon
    <2>3. Matches(<<"auth">>, First(p)) <=> First(p) = <<"auth">>
      BY DEF Matches, Open
    <2>4. Matches(<<"log", w>>, First(p1)) <=> First(p1) = <<"log", w>>
      BY <1>11, Zenon
    <2> QED BY <2>1, <2>2, <2>3, <2>4, Zenon DEF IsLog, Under, p1, p2
  <1>13. \A w : w # "{}" => (Fits(p, <<<<w>>>>) <=> IsTop(p, w))
    BY <1>5, <1>10 DEF IsTop, Is, p1
  <1>14. \A w : w # "{}" => (Fits(p, <<<<w>>, Open>>) <=> IsOne(p, w))
    <2> TAKE w
    <2> HAVE w # "{}"
    <2>1. Fits(p, <<<<w>>, Open>>) <=> Matches(<<w>>, First(p)) /\ Fits(p1, <<Open>>)
      BY <1>5, Zenon
    <2>2. Fits(p1, <<Open>>) <=> p1 # <<>> /\ p2 = <<>>
      BY <1>6, <1>9, Zenon
    <2>3. Matches(<<w>>, First(p)) <=> First(p) = <<w>>
      BY <1>10, Zenon
    <2> QED BY <2>1, <2>2, <2>3, Zenon DEF IsOne, Under, p1, p2
  <1>15. \A w, v : w # "{}" /\ v # "{}" =>
           (Fits(p, <<<<w>>, Open, <<v>>>>) <=> IsPart(p, w, v))
    <2> TAKE w, v
    <2> HAVE w # "{}" /\ v # "{}"
    <2>1. Fits(p, <<<<w>>, Open, <<v>>>>) <=>
            Matches(<<w>>, First(p)) /\ Fits(p1, <<Open, <<v>>>>)
      BY <1>5, Zenon
    <2>2. Fits(p1, <<Open, <<v>>>>) <=> p1 # <<>> /\ Fits(p2, <<<<v>>>>)
      BY <1>6, <1>9, Zenon
    <2>3. p1 # <<>> =>
            (Fits(p2, <<<<v>>>>) <=> p2 # <<>> /\ Matches(<<v>>, First(p2)) /\ p3 = <<>>)
      BY <1>7, Zenon
    <2>4. /\ Matches(<<w>>, First(p)) <=> First(p) = <<w>>
          /\ Matches(<<v>>, First(p2)) <=> First(p2) = <<v>>
      BY <1>10, Zenon
    <2> QED BY <2>1, <2>2, <2>3, <2>4, Zenon DEF IsPart, Under, Is, p1, p2, p3
  <1>16. Fits(p, <<<<"events">>, Open, <<"reviews">>, Open>>) <=> IsReview(p)
    <2>1. Fits(p, <<<<"events">>, Open, <<"reviews">>, Open>>) <=>
            Matches(<<"events">>, First(p)) /\ Fits(p1, <<Open, <<"reviews">>, Open>>)
      BY <1>5, Zenon
    <2>2. Fits(p1, <<Open, <<"reviews">>, Open>>) <=>
            p1 # <<>> /\ Fits(p2, <<<<"reviews">>, Open>>)
      BY <1>6, <1>9, Zenon
    <2>3. p1 # <<>> =>
            (Fits(p2, <<<<"reviews">>, Open>>) <=>
               p2 # <<>> /\ Matches(<<"reviews">>, First(p2)) /\ Fits(p3, <<Open>>))
      BY <1>7, Zenon
    <2>4. p1 # <<>> /\ p2 # <<>> => (Fits(p3, <<Open>>) <=> p3 # <<>> /\ More(p3) = <<>>)
      BY <1>8, <1>9, Zenon
    <2>5. /\ Matches(<<"events">>, First(p)) <=> First(p) = <<"events">>
          /\ Matches(<<"reviews">>, First(p2)) <=> First(p2) = <<"reviews">>
      BY DEF Matches, Open
    <2> QED BY <2>1, <2>2, <2>3, <2>4, <2>5, Zenon DEF IsReview, Under, p1, p2, p3
  <1> QED BY <1>12, <1>13, <1>14, <1>15, <1>16
-----------------------------------------------------------------------------
(* The tree                                                                *)

(* A word that begins what is left of a path is its segment or not, and    *)
(* what is left behind the word then ends or begins with a slash.          *)
LEMMA Words ==
  ASSUME NEW tokens \in Seq(STRING), NEW word, word # "/"
  PROVE  /\ Is(Param(tokens), After(tokens), word) <=> tokens = <<word>>
         /\ Is(Param(tokens), After(tokens), word) <=>
              IsPrefix(<<word>>, tokens) /\ Tail(tokens) = <<>>
         /\ Under(Param(tokens), After(tokens), word) <=>
              IsPrefix(<<word>>, tokens) /\ IsPrefix(<<"/">>, Tail(tokens))
         /\ Under(Param(tokens), After(tokens), word) => Tail(tokens) = After(tokens)
         /\ IsPrefix(<<word>>, tokens) =>
              tokens # <<>> /\ tokens[1] = word /\ Tail(tokens) \in Seq(STRING)
  <1> DEFINE a == Param(tokens)  r == After(tokens)
  <1>1. /\ a \in Seq(STRING) /\ r \in Seq(STRING)
        /\ Len(tokens) = Len(a) + Len(r)
        /\ \A i \in 1 .. Len(a) : tokens[i] = a[i] /\ tokens[i] # "/"
        /\ \A i \in 1 .. Len(r) : tokens[Len(a) + i] = r[i]
        /\ r # <<>> => r[1] = "/"
    BY Parted
  <1>2. /\ Len(a) \in Nat /\ Len(r) \in Nat /\ Len(tokens) \in Nat
        /\ r = <<>> <=> Len(r) = 0
        /\ tokens = <<>> <=> Len(tokens) = 0
    BY <1>1, LenProperties, EmptySeq
  <1>3. \A v, t : t \in Seq(STRING) =>
          (IsPrefix(<<v>>, t) <=> Len(t) >= 1 /\ t[1] = v)
    <2> TAKE v, t
    <2> SUFFICES ASSUME t \in Seq(STRING)
                 PROVE  IsPrefix(<<v>>, t) <=> Len(t) >= 1 /\ t[1] = v
      OBVIOUS
    <2>1. Len(t) \in Nat /\ Len(<<v>>) = 1
      BY LenProperties
    <2>2. SubSeq(<<v>>, 1, 1) = <<v>>
      BY SubSeqFull, <<v>> \in Seq({v}), Len(<<v>>) = 1
    <2>3. ASSUME Len(t) >= 1
          PROVE  SubSeq(t, 1, 1) \in Seq(STRING) /\ Len(SubSeq(t, 1, 1)) = 1
                   /\ SubSeq(t, 1, 1)[1] = t[1]
      <3>1. \A i \in 1 .. 1 : t[i] \in STRING
        BY <2>1, <2>3, ElementOfSeq
      <3>2. /\ SubSeq(t, 1, 1) \in Seq(STRING)
            /\ Len(SubSeq(t, 1, 1)) = IF 1 <= 1 THEN 1 - 1 + 1 ELSE 0
            /\ \A i \in 1 .. 1 - 1 + 1 : SubSeq(t, 1, 1)[i] = t[1 + i - 1]
        BY <3>1, SubSeqProperties
      <3> QED BY <3>2
    <2>4. IsPrefix(<<v>>, t) <=> 1 <= Len(t) /\ <<v>> = SubSeq(t, 1, 1)
      BY <2>1, <2>2 DEF IsPrefix
    <2>5. Len(t) >= 1 => (<<v>> = SubSeq(t, 1, 1) <=> v = t[1])
      BY <2>3
    <2> QED BY <2>1, <2>4, <2>5
  <1> HIDE DEF a, r
  <1>4. tokens # <<>> =>
          /\ Tail(tokens) \in Seq(STRING) /\ Len(Tail(tokens)) = Len(tokens) - 1
                    /\ \A i \in 1 .. Len(Tail(tokens)) : Tail(tokens)[i] = tokens[i + 1]
    BY HeadTailProperties
  <1>5. IsPrefix(<<word>>, tokens) =>
          tokens # <<>> /\ tokens[1] = word /\ Tail(tokens) \in Seq(STRING)
    BY <1>2, <1>3, <1>4
  <1>6. a = <<word>> <=> Len(a) = 1 /\ a[1] = word
    BY <1>1
  <1>7. Len(tokens) >= 1 /\ tokens[1] = word => Len(a) >= 1 /\ a[1] = word
    <2> SUFFICES ASSUME Len(tokens) >= 1, tokens[1] =
      word PROVE Len(a) >= 1 /\ a[1] = word
      OBVIOUS
    <2>1. CASE Len(a) = 0
      <3>1. 1 \in 1 .. Len(r) /\ Len(a) + 1 = 1
        BY <1>1, <1>2, <2>1
      <3>2. tokens[Len(a) + 1] = r[1]
        BY <1>1, <3>1
      <3>3. r[1] = "/"
        BY <1>1, <1>2, <3>1
      <3> QED BY <3>1, <3>2, <3>3
    <2>2. CASE Len(a) >= 1
      BY <1>1, <1>2, <2>2
    <2> QED BY <1>2, <2>1, <2>2
  <1>8. Is(a, r, word) <=> Len(tokens) = 1 /\ tokens[1] = word
    <2>1. Is(a, r, word) <=> Len(a) = 1 /\ a[1] = word /\ Len(r) = 0
      BY <1>2, <1>6 DEF Is
    <2>2. Len(a) >= 1 => tokens[1] = a[1]
      BY <1>1, <1>2
    <2>3. Is(a, r, word) => Len(tokens) = 1 /\ tokens[1] = word
      BY <1>1, <1>2, <2>1, <2>2
    <2>4. ASSUME Len(tokens) = 1, tokens[1] = word
          PROVE  Len(a) = 1 /\ a[1] = word /\ Len(r) = 0
      <3>1. Len(a) >= 1 /\ a[1] = word
        BY <1>7, <2>4
      <3> QED BY <1>1, <1>2, <2>4, <3>1
    <2> QED BY <2>1, <2>3, <2>4
  <1>9. Is(a, r, word) <=> tokens = <<word>>
    <2>1. tokens = <<word>> <=> Len(tokens) = 1 /\ tokens[1] = word
      OBVIOUS
    <2> QED BY <1>8, <2>1
  <1>10. Is(a, r, word) <=> IsPrefix(<<word>>, tokens) /\ Tail(tokens) = <<>>
    <2>1. tokens # <<>> => (Tail(tokens) = <<>> <=> Len(tokens) - 1 = 0)
      BY <1>2, <1>4, EmptySeq
    <2> QED BY <1>2, <1>3, <1>8, <2>1
  <1>11. Under(a, r, word) =>
           Tail(tokens) = r /\ IsPrefix(<<word>>, tokens) /\ IsPrefix(<<"/">>, Tail(tokens))
    <2> SUFFICES ASSUME Under(a, r, word)
                 PROVE  Tail(tokens) =
                          r /\ IsPrefix(<<word>>, tokens) /\ IsPrefix(<<"/">>, Tail(tokens))
      OBVIOUS
    <2>1. Len(a) = 1 /\ a[1] = word /\ r # <<>> /\ Len(r) >= 1
      BY <1>2, <1>6 DEF Under
    <2>2. Len(tokens) = 1 + Len(r) /\ tokens[1] = word /\ tokens # <<>>
      BY <1>1, <1>2, <2>1
    <2>3. Tail(tokens) \in Seq(STRING) /\ Len(Tail(tokens)) = Len(r)
      BY <1>2, <1>4, <2>2
    <2>4. ASSUME NEW i \in 1 .. Len(Tail(tokens))
          PROVE  Tail(tokens)[i] = r[i]
      <3>1. Tail(tokens)[i] =
              tokens[i + 1] /\ tokens[Len(a) + i] = r[i] /\ Len(a) + i = i + 1
        BY <1>1, <1>2, <1>4, <2>1, <2>2, <2>3
      <3> QED BY <3>1
    <2>5. Tail(tokens) = r
      BY <1>1, <2>3, <2>4, SeqEqual
    <2>6. IsPrefix(<<word>>, tokens)
      BY <1>2, <1>3, <2>2
    <2>7. IsPrefix(<<"/">>, r)
      BY <1>1, <1>3, <2>1
    <2> QED BY <2>5, <2>6, <2>7
  <1>12. IsPrefix(<<word>>, tokens) /\ IsPrefix(<<"/">>, Tail(tokens)) =>
           Under(a, r, word)
    <2> SUFFICES ASSUME IsPrefix(<<word>>, tokens), IsPrefix(<<"/">>, Tail(tokens))
                 PROVE  Under(a, r, word)
      OBVIOUS
    <2>1. Len(tokens) >= 1 /\ tokens[1] = word /\ tokens # <<>>
      BY <1>2, <1>3
    <2>2. Len(Tail(tokens)) >= 1 /\ Tail(tokens)[1] = "/"
      <3>1. Tail(tokens) \in Seq(STRING)
        BY <1>4, <2>1
      <3> QED BY <1>3, <3>1
    <2>3. Len(tokens) >= 2 /\ tokens[2] = "/"
      <3>1. Len(tokens) - 1 >= 1 /\ Tail(tokens)[1] = tokens[1 + 1]
        BY <1>2, <1>4, <2>1, <2>2
      <3> QED BY <1>2, <2>2, <3>1
    <2>4. Len(a) >= 1 /\ a[1] = word
      BY <1>7, <2>1
    <2>5. ~(Len(a) >= 2)
      BY <1>1, <1>2, <2>3
    <2> QED BY <1>1, <1>2, <1>6, <2>3, <2>4, <2>5 DEF Under
  <1> QED BY <1>5, <1>9, <1>10, <1>11, <1>12 DEF a, r

(* A parameter that runs to the end of the path is all of it.              *)
LEMMA Whole ==
  ASSUME NEW s \in Seq(STRING)
  PROVE  /\ Until(s) = 0 <=> After(s) = <<>>
         /\ After(s) = <<>> => Param(s) = s
  <1>1. Until(s) \in 0 .. Len(s) /\ Len(s) \in Nat
    BY FirstSlash, LenProperties
  <1>2. Until(s) = 0 => After(s) = <<>> /\ Param(s) = s
    BY DEF After, Param
  <1>3. ASSUME Until(s) # 0 PROVE After(s) # <<>>
    <2>1. After(s) = SubSeq(s, Until(s), Len(s))
      BY <1>3 DEF After
    <2>2. \A i \in Until(s) .. Len(s) : s[i] \in STRING
      BY <1>1, <1>3, ElementOfSeq
    <2>3. Len(SubSeq(s, Until(s), Len(s))) =
            IF Until(s) <= Len(s) THEN Len(s) - Until(s) + 1 ELSE 0
      BY <1>1, <2>2, SubSeqProperties
    <2>4. Len(After(s)) # 0
      BY <1>1, <2>1, <2>3
    <2> QED BY <2>4
  <1> QED BY <1>2, <1>3

(* What the tree reaches below /events/{event_id}/.                        *)
LEMMA EventRoutes ==
  ASSUME NEW p \in Seq(STRING), Starts(p), NEW id
  PROVE  LET node == EventTree(id, Tail(p))
             s == First(p)
             r == More(p)
         IN  /\ Is(s, r, "dislike") => node = Node([POST |-> "DislikeEvent"], <<id>>)
             /\ Is(s, r, "like") => node = Node([POST |-> "LikeEvent"], <<id>>)
             /\ Is(s, r, "reviews") =>
                  node =
                    Node([GET |-> "GetEventReviews", POST |-> "CreateEventReview"], <<id>>)
             /\ Under(s, r, "reviews") /\ More(r) = <<>> =>
                  node = Node([PATCH |-> "UpdateEventReview"], <<id, First(r)>>)
             /\ \/ Is(s, r, "dislike") \/ Is(s, r, "like") \/ Is(s, r, "reviews")
                \/ Under(s, r, "reviews") /\ More(r) = <<>>
                \/ node = NoNode
  <1> DEFINE z == Tail(p)  s == Param(z)  r == After(z)
  <1>1. z \in Seq(STRING)
    BY HeadTailProperties DEF Starts
  <1>2. /\ Is(s, r, "dislike") <=> z = <<"dislike">>
        /\ Is(s, r, "like") <=> z = <<"like">>
    BY <1>1, Words
  <1>3. /\ Is(s, r, "reviews") <=> IsPrefix(<<"reviews">>, z) /\ Tail(z) = <<>>
        /\ Under(s, r, "reviews") <=>
             IsPrefix(<<"reviews">>, z) /\ IsPrefix(<<"/">>, Tail(z))
        /\ Under(s, r, "reviews") => Tail(z) = r
        /\ IsPrefix(<<"reviews">>, z) => z # <<>> /\ z[1] = "reviews"
    BY <1>1, Words
  <1>4. s = First(p) /\ r = More(p)
    BY DEF First, More
  <1>5. r # <<>> => Starts(r) /\ r \in Seq(STRING)
    BY <1>4, Segmented
  <1> HIDE DEF z, s, r
  <1>6. ~IsPrefix(<<"/">>, <<>>)
    BY DEF IsPrefix
  <1>7. /\ z = <<"dislike">> => EventTree(id, z) = Node([POST |-> "DislikeEvent"], <<id>>)
        /\ z = <<"like">> => EventTree(id, z) = Node([POST |-> "LikeEvent"], <<id>>)
    <2>1. <<"dislike">> # <<"like">> /\ ~IsPrefix(<<"reviews">>, <<"dislike">>)
          /\ ~IsPrefix(<<"reviews">>, <<"like">>)
      BY DEF IsPrefix
    <2>2. ASSUME z = <<"dislike">>
          PROVE  EventTree(id, z) = Node([POST |-> "DislikeEvent"], <<id>>)
      BY <2>1, <2>2 DEF EventTree
    <2>3. ASSUME z = <<"like">>
          PROVE  EventTree(id, z) = Node([POST |-> "LikeEvent"], <<id>>)
      BY <2>1, <2>3 DEF EventTree
    <2> QED BY <2>2, <2>3
  <1>8. z # <<"dislike">> /\ z # <<"like">> =>
          EventTree(id, z) = IF IsPrefix(<<"reviews">>, z) THEN ReviewsTree(id, Tail(z))
                             ELSE NoNode
    BY DEF EventTree
  <1>9. IsPrefix(<<"reviews">>, z) => z # <<"dislike">> /\ z # <<"like">>
    BY <1>3
  <1>10. Is(s, r, "reviews") =>
           EventTree(id, z) =
             Node([GET |-> "GetEventReviews", POST |-> "CreateEventReview"], <<id>>)
    <2> SUFFICES ASSUME Is(s, r, "reviews")
                 PROVE  EventTree(id, z) = Node([GET |-> "GetEventReviews", POST |-> "CreateEventReview"], <<id>>)
      OBVIOUS
    <2>1. EventTree(id, z) = ReviewsTree(id, <<>>)
      BY <1>3, <1>8, <1>9
    <2>2. ReviewsTree(id, <<>>) =
            Node([GET |-> "GetEventReviews", POST |-> "CreateEventReview"], <<id>>)
      BY <1>6 DEF ReviewsTree
    <2> QED BY <2>1, <2>2
  <1>11. ASSUME Under(s, r, "reviews")
         PROVE  EventTree(id, z) = IF More(r) = <<>>
                  THEN Node([PATCH |-> "UpdateEventReview"], <<id, First(r)>>) ELSE NoNode
    <2>1. EventTree(id, z) = ReviewTree(id, Tail(r))
      BY <1>3, <1>6, <1>8, <1>9, <1>11 DEF ReviewsTree
    <2>2. Tail(r) \in Seq(STRING)
      BY <1>5, <1>11, HeadTailProperties DEF Under
    <2>3. /\ Until(Tail(r)) = 0 <=> More(r) = <<>>
          /\ More(r) = <<>> => First(r) = Tail(r)
      BY <2>2, Whole DEF More, First
    <2> QED BY <2>1, <2>3 DEF ReviewTree
  <1>12. IsPrefix(<<"reviews">>, z) /\ ~Is(s, r, "reviews") /\ ~Under(s, r, "reviews") =>
           EventTree(id, z) = NoNode
    BY <1>3, <1>8, <1>9 DEF ReviewsTree
  <1> QED BY <1>2, <1>4, <1>7, <1>8, <1>10, <1>11, <1>12 DEF z

(* What it reaches from /events, and where it goes on.                     *)
LEMMA EventsRoutes ==
  ASSUME NEW p \in Seq(STRING), Starts(p), IsPrefix(<<"events">>, Tail(p))
  PROVE  LET node == EventsTree(Tail(Tail(p)))
             s == First(p)
             r == More(p)
         IN  /\ Is(s, r, "events") =>
                  node = Node([GET |-> "GetEvents", POST |-> "CreateEvent"], <<>>)
             /\ Under(s, r, "events") /\ More(r) = <<>> =>
                  node = Node([GET |-> "GetEvent", PATCH |-> "PatchEvent"], <<First(r)>>)
             /\ Under(s, r, "events") /\ More(r) # <<>> =>
                  node = EventTree(First(r), Tail(More(r)))
             /\ Is(s, r, "events") \/ Under(s, r, "events") \/ node = NoNode
  <1>1. Tail(p) \in Seq(STRING)
    BY HeadTailProperties DEF Starts
  <1>2. /\ Is(First(p), More(p), "events") <=> Tail(Tail(p)) = <<>>
        /\ Under(First(p), More(p), "events") <=> IsPrefix(<<"/">>, Tail(Tail(p)))
        /\ Under(First(p), More(p), "events") => Tail(Tail(p)) = More(p)
    BY <1>1, Words DEF First, More
  <1>3. ~IsPrefix(<<"/">>, <<>>)
    BY DEF IsPrefix
  <1> QED BY <1>2, <1>3 DEF EventsTree, First, More

(* What it reaches from /users.                                            *)
LEMMA UsersRoutes ==
  ASSUME NEW p \in Seq(STRING), Starts(p), IsPrefix(<<"users">>, Tail(p))
  PROVE  LET node == UsersTree(Tail(Tail(p)))
             s == First(p)
             r == More(p)
         IN  /\ Is(s, r, "users") =>
                  node = Node([GET |-> "GetUsers", POST |-> "Register"], <<>>)
             /\ Under(s, r, "users") /\ More(r) = <<>> =>
                  node = Node([GET |-> "GetUser"], <<First(r)>>)
             /\ Under(s, r, "users") /\ More(r) # <<>> =>
                  node = IF Is(First(More(r)), More(More(r)), "events")
                         THEN Node([GET |-> "GetUserEvents"], <<First(r)>>) ELSE NoNode
             /\ Is(s, r, "users") \/ Under(s, r, "users") \/ node = NoNode
  <1>1. Tail(p) \in Seq(STRING)
    BY HeadTailProperties DEF Starts
  <1>2. /\ Is(First(p), More(p), "users") <=> Tail(Tail(p)) = <<>>
        /\ Under(First(p), More(p), "users") <=> IsPrefix(<<"/">>, Tail(Tail(p)))
        /\ Under(First(p), More(p), "users") => Tail(Tail(p)) = More(p)
    BY <1>1, Words DEF First, More
  <1>3. ~IsPrefix(<<"/">>, <<>>)
    BY DEF IsPrefix
  <1>4. ASSUME Under(First(p), More(p), "users"), More(More(p)) # <<>>
        PROVE  More(More(p)) = <<"/", "events">> <=>
                 Is(First(More(More(p))), More(More(More(p))), "events")
    <2> DEFINE m == More(More(p))
    <2>1. m \in Seq(STRING) /\ Starts(m)
      BY <1>4, Segmented DEF Under
    <2> HIDE DEF m
    <2>2. m # <<>> /\ m[1] = "/" /\ Tail(m) \in Seq(STRING)
      BY <2>1, HeadTailProperties DEF Starts
    <2>3. Is(First(m), More(m), "events") <=> Tail(m) = <<"events">>
      BY <2>2, Words DEF First, More
    <2>4. m = <<"/", "events">> <=> Tail(m) = <<"events">>
      <3>1. Len(m) \in Nat /\ Len(m) >= 1 /\ Len(Tail(m)) = Len(m) - 1
            /\ \A i \in 1 .. Len(Tail(m)) : Tail(m)[i] = m[i + 1]
        BY <2>1, <2>2, HeadTailProperties, LenProperties, EmptySeq
      <3>2. m = <<"/", "events">> <=> Len(m) = 2 /\ m[2] = "events"
        BY <2>1, <2>2
      <3>3. Tail(m) = <<"events">> <=> Len(Tail(m)) = 1 /\ Tail(m)[1] = "events"
        <4> DEFINE t == Tail(m)
        <4>1. t \in Seq(STRING)
          BY <2>2
        <4> HIDE DEF t
        <4>2. t = <<"events">> <=> Len(t) = 1 /\ t[1] = "events"
          BY <4>1
        <4> QED BY <4>2 DEF t
      <3> QED BY <3>1, <3>2, <3>3
    <2> QED BY <2>3, <2>4 DEF m
  <1> DEFINE z == Tail(Tail(p))  s == First(p)  r == More(p)
  <1>5. Is(s, r, "users") =>
          UsersTree(z) = Node([GET |-> "GetUsers", POST |-> "Register"], <<>>)
    BY <1>2, <1>3 DEF UsersTree
  <1>6. ASSUME Under(s, r, "users")
        PROVE  UsersTree(z) =
                 CASE More(r) = <<>> -> Node([GET |-> "GetUser"], <<First(r)>>)
                   [] More(r) = <<"/", "events">> ->
                     Node([GET |-> "GetUserEvents"], <<First(r)>>)
                   [] OTHER -> NoNode
    <2>1. z = r /\ IsPrefix(<<"/">>, z) /\ z # <<>>
      BY <1>2, <1>3, <1>6
    <2> HIDE DEF z, r
    <2> QED BY <2>1, Zenon DEF UsersTree, First, More
  <1>7. <<>> # <<"/", "events">>
    OBVIOUS
  <1>8. Under(s, r, "users") /\ More(r) = <<>> =>
          UsersTree(z) = Node([GET |-> "GetUser"], <<First(r)>>)
    <2> HIDE DEF z, r, s
    <2> QED BY <1>6, <1>7
  <1>9. Under(s, r, "users") /\ More(r) # <<>> =>
          UsersTree(z) = IF Is(First(More(r)), More(More(r)), "events")
                         THEN Node([GET |-> "GetUserEvents"], <<First(r)>>) ELSE NoNode
    <2>1. Under(s, r, "users") /\ More(r) # <<>> =>
            (More(r) = <<"/", "events">> <=> Is(First(More(r)), More(More(r)), "events"))
      BY <1>4
    <2> HIDE DEF z, r, s
    <2> QED BY <1>6, <2>1
  <1>10. Is(s, r, "users") \/ Under(s, r, "users") \/ UsersTree(z) = NoNode
    BY <1>2 DEF UsersTree
  <1> QED BY <1>5, <1>8, <1>9, <1>10

(* A prefix is compared token by token, and what is left of the path is    *)
(* what follows it.                                                        *)
LEMMA Prefixed ==
  ASSUME NEW S, NEW prefix \in Seq(S), NEW path \in Seq(STRING), prefix # <<>>
  PROVE  /\ IsPrefix(prefix, path) <=>
              Len(prefix) <= Len(path) /\ \A i \in 1 .. Len(prefix) : prefix[i] = path[i]
         /\ Len(prefix) <= Len(path) =>
              /\ Rest(prefix, path) \in Seq(STRING)
              /\ Len(Rest(prefix, path)) = Len(path) - Len(prefix)
              /\ \A i \in 1 .. Len(path) - Len(prefix) :
                   Rest(prefix, path)[i] = path[Len(prefix) + i]
  <1> DEFINE l == Len(prefix)  m == Len(path)
  <1>1. l \in Nat /\ m \in Nat /\ l >= 1
    BY LenProperties, EmptySeq
  <1>2. \A i \in 1 .. m : path[i] \in STRING
    BY ElementOfSeq
  <1>3. SubSeq(prefix, 1, l) = prefix
    BY SubSeqFull
  <1>4. ASSUME l <= m
        PROVE  /\ SubSeq(path, 1, l) \in Seq(STRING)
               /\ Len(SubSeq(path, 1, l)) = l
               /\ \A i \in 1 .. l : SubSeq(path, 1, l)[i] = path[i]
    <2>1. \A i \in 1 .. l : path[i] \in STRING
      BY <1>1, <1>2, <1>4
    <2>2. /\ SubSeq(path, 1, l) \in Seq(STRING)
          /\ Len(SubSeq(path, 1, l)) = IF 1 <= l THEN l - 1 + 1 ELSE 0
          /\ \A i \in 1 .. l - 1 + 1 : SubSeq(path, 1, l)[i] = path[1 + i - 1]
      BY <1>1, <2>1, SubSeqProperties
    <2> QED BY <1>1, <2>2
  <1>5. ASSUME l <= m
        PROVE  prefix = SubSeq(path, 1, l) <=> \A i \in 1 .. l : prefix[i] = path[i]
    BY <1>1, <1>4, <1>5, SeqEqual
  <1>6. ASSUME l <= m
        PROVE  /\ Rest(prefix, path) \in Seq(STRING)
               /\ Len(Rest(prefix, path)) = m - l
               /\ \A i \in 1 .. m - l : Rest(prefix, path)[i] = path[l + i]
    <2>1. \A i \in l + 1 .. m : path[i] \in STRING
      BY <1>1, <1>2, <1>6
    <2>2. /\ SubSeq(path, l + 1, m) \in Seq(STRING)
          /\ Len(SubSeq(path, l + 1, m)) = IF l + 1 <= m THEN m - (l + 1) + 1 ELSE 0
          /\ \A i \in 1 .. m - (l + 1) + 1 : SubSeq(path, l + 1, m)[i] =
               path[l + 1 + i - 1]
      BY <1>1, <2>1, SubSeqProperties
    <2> QED BY <1>1, <1>6, <2>2 DEF Rest
  <1>7. IsPrefix(prefix, path) <=> l <= m /\ prefix = SubSeq(path, 1, l)
    BY <1>3 DEF IsPrefix
  <1> QED BY <1>5, <1>6, <1>7

(* The prefix of a branch of the tree, a slash and a word, and the rest it *)
(* leaves.                                                                 *)
LEMMA Branched ==
  ASSUME NEW p \in Seq(STRING), Starts(p), NEW word
  PROVE  /\ IsPrefix(<<"/", word>>, p) <=> IsPrefix(<<word>>, Tail(p))
         /\ IsPrefix(<<"/", word>>, p) => Rest(<<"/", word>>, p) = Tail(Tail(p))
         /\ p = <<"/", word>> <=> Tail(p) = <<word>>
  <1> DEFINE t == Tail(p)  two == <<"/", word>>  one == <<word>>
  <1>1. /\ t \in Seq(STRING) /\ p # <<>> /\ p[1] = "/" /\ Len(t) = Len(p) - 1
        /\ \A i \in 1 .. Len(t) : t[i] = p[i + 1]
    BY HeadTailProperties DEF Starts
  <1>2. Len(p) \in Nat /\ Len(p) >= 1 /\ Len(t) \in Nat
    BY <1>1, LenProperties, EmptySeq
  <1>3. /\ two \in Seq({"/", word}) /\ Len(two) =
             2 /\ two[1] = "/" /\ two[2] = word /\ two # <<>>
        /\ one \in Seq({word}) /\ Len(one) = 1 /\ one[1] = word /\ one # <<>>
    OBVIOUS
  <1>4. t # <<>> => /\ Tail(t) \in Seq(STRING) /\ Len(Tail(t)) = Len(t) - 1
                    /\ \A i \in 1 .. Len(Tail(t)) : Tail(t)[i] = t[i + 1]
    BY <1>1, HeadTailProperties
  <1>5. t = <<>> <=> Len(t) = 0
    BY <1>1, EmptySeq
  <1> HIDE DEF t, two, one
  <1>6. IsPrefix(two, p) <=> Len(two) <= Len(p) /\ \A i \in 1 .. Len(two) : two[i] = p[i]
    BY <1>3, Prefixed
  <1>7. IsPrefix(one, t) <=> Len(one) <= Len(t) /\ \A i \in 1 .. Len(one) : one[i] = t[i]
    BY <1>1, <1>3, Prefixed
  <1>8. Len(p) >= 2 => t[1] = p[2]
    <2>1. Len(p) >= 2 => 1 \in 1 .. Len(t)
      BY <1>1, <1>2
    <2>2. Len(p) >= 2 => t[1] = p[1 + 1]
      BY <1>1, <2>1
    <2> QED BY <2>2
  <1>9. IsPrefix(two, p) <=> Len(p) >= 2 /\ p[2] = word
    BY <1>1, <1>2, <1>3, <1>6
  <1>10. IsPrefix(one, t) <=> Len(p) >= 2 /\ t[1] = word
    BY <1>1, <1>2, <1>3, <1>7
  <1>11. ASSUME Len(p) >= 2
         PROVE  Rest(two, p) = Tail(t)
    <2>1. /\ Rest(two, p) \in Seq(STRING)
          /\ Len(Rest(two, p)) = Len(p) - 2
          /\ \A i \in 1 .. Len(p) - 2 : Rest(two, p)[i] = p[2 + i]
      <3>1. Len(two) <= Len(p) =>
              /\ Rest(two, p) \in Seq(STRING)
              /\ Len(Rest(two, p)) = Len(p) - Len(two)
              /\ \A i \in 1 .. Len(p) - Len(two) : Rest(two, p)[i] = p[Len(two) + i]
        BY <1>3, Prefixed, Zenon
      <3> QED BY <1>3, <1>11, <3>1
    <2>2. Tail(t) \in Seq(STRING) /\ Len(Tail(t)) = Len(p) - 2
      BY <1>1, <1>2, <1>4, <1>5, <1>11
    <2>3. ASSUME NEW i \in 1 .. Len(p) - 2
          PROVE  Tail(t)[i] = p[2 + i]
      <3>1. Tail(t)[i] = t[i + 1]
        BY <1>1, <1>2, <1>4, <1>5, <1>11, <2>2
      <3>2. t[i + 1] = p[i + 1 + 1] /\ i + 1 + 1 = 2 + i
        BY <1>1, <1>2
      <3> QED BY <3>1, <3>2
    <2> QED BY <2>1, <2>2, <2>3, SeqEqual
  <1>12. p = two <=> Len(p) = 2 /\ p[2] = word
    <2>1. ASSUME Len(p) = 2, p[2] = word
          PROVE  p = two
      <3>1. \A i \in 1 .. Len(p) : p[i] = two[i]
        BY <1>1, <1>3, <2>1
      <3> QED BY <1>3, <2>1, <3>1, SeqEqual
    <2> QED BY <1>3, <2>1
  <1>13. t = one <=> Len(t) = 1 /\ t[1] = word
    <2>1. ASSUME Len(t) = 1, t[1] = word
          PROVE  t = one
      <3>1. \A i \in 1 .. Len(t) : t[i] = one[i]
        BY <1>3, <2>1
      <3> QED BY <1>1, <1>3, <2>1, <3>1, SeqEqual
    <2> QED BY <1>3, <2>1
  <1>14. p = two <=> t = one
    BY <1>1, <1>2, <1>8, <1>12, <1>13
  <1>15. IsPrefix(two, p) <=> IsPrefix(one, t)
    BY <1>8, <1>9, <1>10
  <1>16. IsPrefix(two, p) => Rest(two, p) = Tail(t)
    BY <1>9, <1>11
  <1> QED BY <1>14, <1>15, <1>16, Zenon DEF t, two, one

(* A word between two slashes is a segment.                                *)
LEMMA Headed ==
  ASSUME NEW p \in Seq(STRING), Starts(p), NEW word, word # "/",
         Len(p) >= 3, p[2] = word, p[3] = "/"
  PROVE  Under(First(p), More(p), word)
  <1> DEFINE q == Tail(p)  one == <<word>>  slash == <<"/">>
  <1>1. /\ q \in Seq(STRING) /\ p # <<>> /\ p[1] = "/" /\ Len(q) = Len(p) - 1
        /\ \A i \in 1 .. Len(q) : q[i] = p[i + 1]
    BY HeadTailProperties DEF Starts
  <1>2. /\ Len(p) \in Nat /\ Len(q) \in Nat /\ (q = <<>> <=> Len(q) = 0)
    <2>1. q \in Seq(STRING)
      BY <1>1
    <2> HIDE DEF q
    <2> QED BY <2>1, LenProperties, EmptySeq
  <1>3. /\ one \in Seq({word}) /\ Len(one) = 1 /\ one[1] = word /\ one # <<>>
        /\ slash \in Seq({"/"}) /\ Len(slash) = 1 /\ slash[1] = "/" /\ slash # <<>>
    OBVIOUS
  <1> HIDE DEF q, one, slash
  <1>4. q[1] = p[1 + 1] /\ q[2] = p[2 + 1] /\ Len(q) >= 2 /\ q # <<>>
    BY <1>1, <1>2
  <1>5. Tail(q) \in Seq(STRING) /\ Len(Tail(q)) >= 1 /\ Tail(q)[1] = "/"
    <2>1. /\ Tail(q) \in Seq(STRING) /\ Len(Tail(q)) = Len(q) - 1
          /\ \A i \in 1 .. Len(Tail(q)) : Tail(q)[i] = q[i + 1]
      BY <1>1, <1>4, HeadTailProperties
    <2>2. Len(Tail(q)) >= 1 /\ Tail(q)[1] = q[1 + 1]
      BY <1>2, <1>4, <2>1
    <2> QED BY <1>4, <2>1, <2>2
  <1>6. IsPrefix(one, q) <=> Len(one) <= Len(q) /\ \A i \in 1 .. Len(one) : one[i] = q[i]
    BY <1>1, <1>3, Prefixed
  <1>7. IsPrefix(slash, Tail(q)) <=>
          Len(slash) <= Len(Tail(q)) /\ \A i \in 1 .. Len(slash) : slash[i] = Tail(q)[i]
    BY <1>3, <1>5, Prefixed
  <1>8. \A i \in 1 .. 1 : i = 1
    OBVIOUS
  <1>9. IsPrefix(one, q)
    BY <1>2, <1>3, <1>4, <1>6, <1>8
  <1>10. IsPrefix(slash, Tail(q))
    BY <1>3, <1>5, <1>7, <1>8
  <1>11. Under(Param(q), After(q), word) <=> IsPrefix(one, q) /\ IsPrefix(slash, Tail(q))
    BY <1>1, Words DEF one, slash
  <1> QED BY <1>9, <1>10, <1>11 DEF q, First, More

(* The branch of the two paths of /auth ends inside their last segment.    *)
LEMMA Logged ==
  ASSUME NEW p \in Seq(STRING), Starts(p), NEW word, word # "/"
  PROVE  IsPrefix(<<"/", "auth", "/", "log">>, p) /\ Rest(<<"/", "auth", "/", "log">>, p) =
           <<word>>
           <=> IsLog(p, word)
  <1> DEFINE log == <<"/", "auth", "/", "log">>
             q == Tail(p)  m == More(p)  t == Tail(m)  x == Rest(log, p)
  <1>1. /\ q \in Seq(STRING) /\ p # <<>> /\ p[1] = "/" /\ Len(q) = Len(p) - 1
        /\ \A i \in 1 .. Len(q) : q[i] = p[i + 1]
    BY HeadTailProperties DEF Starts
  <1>2. Len(p) \in Nat /\ Len(p) >= 1 /\ Len(q) \in Nat /\ (q = <<>> <=> Len(q) = 0)
    BY <1>1, LenProperties, EmptySeq
  <1>3. /\ Under(First(p), m, "auth") <=>
             IsPrefix(<<"auth">>, q) /\ IsPrefix(<<"/">>, Tail(q))
        /\ Under(First(p), m, "auth") => Tail(q) = m
        /\ IsPrefix(<<"auth">>, q) => q # <<>> /\ q[1] = "auth" /\ Tail(q) \in Seq(STRING)
    BY <1>1, Words DEF First, More
  <1>4. /\ log \in Seq({"/", "auth", "log"}) /\ log # <<>> /\ Len(log) = 4
        /\ log[1] = "/" /\ log[2] = "auth" /\ log[3] = "/" /\ log[4] = "log"
    OBVIOUS
  <1> HIDE DEF log, m, q, x
  <1>5. IsPrefix(log, p) /\ x = <<word>> <=>
          /\ Len(p) = 5 /\ p[2] = "auth" /\ p[3] = "/" /\ p[4] = "log" /\ p[5] = word
    <2>1. IsPrefix(log, p) <=>
            Len(log) <= Len(p) /\ \A i \in 1 .. Len(log) : log[i] = p[i]
      BY <1>4, Prefixed
    <2>2. IsPrefix(log, p) <=>
            Len(p) >= 4 /\ p[2] = "auth" /\ p[3] = "/" /\ p[4] = "log"
      <3>1. \A i \in 1 .. 4 : i = 1 \/ i = 2 \/ i = 3 \/ i = 4
        OBVIOUS
      <3> QED BY <1>1, <1>2, <1>4, <2>1, <3>1
    <2>3. Len(p) >= 4 =>
            /\ x \in Seq(STRING) /\ Len(x) = Len(p) - 4
            /\ \A i \in 1 .. Len(p) - 4 : x[i] = p[4 + i]
      <3>1. Len(log) <= Len(p) =>
              /\ Rest(log, p) \in Seq(STRING)
              /\ Len(Rest(log, p)) = Len(p) - Len(log)
              /\ \A i \in 1 .. Len(p) - Len(log) : Rest(log, p)[i] = p[Len(log) + i]
        BY <1>4, Prefixed, Zenon
      <3> QED BY <1>2, <1>4, <3>1 DEF x
    <2>4. Len(p) = 5 => x[1] = p[5]
      <3>1. Len(p) = 5 => x[1] = p[4 + 1]
        BY <2>3
      <3> QED BY <3>1
    <2>5. ASSUME Len(p) = 5, p[5] = word
          PROVE  x = <<word>>
      <3>1. x \in Seq(STRING) /\ Len(x) = 1 /\ x[1] = word
        BY <2>3, <2>4, <2>5
      <3> QED BY <3>1
    <2>6. ASSUME Len(p) >= 4, x = <<word>>
          PROVE  Len(p) = 5 /\ p[5] = word
      <3>1. Len(x) = 1 /\ x[1] = word
        BY <2>6
      <3> QED BY <1>2, <2>3, <2>4, <2>6, <3>1
    <2> QED BY <2>2, <2>5, <2>6
  <1>6. ASSUME Under(First(p), m, "auth")
        PROVE  /\ First(m) = <<"log", word>> /\ More(m) = <<>> <=> t = <<"log", word>>
               /\ Len(p) >= 3 /\ p[2] = "auth" /\ p[3] = "/" /\ t \in Seq(STRING)
               /\ Len(t) = Len(p) - 3 /\ \A i \in 1 .. Len(t) : t[i] = p[i + 3]
    <2>1. m \in Seq(STRING) /\ Starts(m)
      BY <1>6, Segmented DEF m, Under
    <2>2. /\ t \in Seq(STRING) /\ m # <<>> /\ m[1] = "/" /\ Len(t) = Len(m) - 1
          /\ \A i \in 1 .. Len(t) : t[i] = m[i + 1]
      BY <2>1, HeadTailProperties DEF Starts
    <2>3. Len(m) \in Nat /\ Len(m) >= 1 /\ Len(t) \in Nat
      BY <2>1, <2>2, LenProperties, EmptySeq
    <2>4. q # <<>> /\ q[1] = "auth" /\ Tail(q) = m
      BY <1>3, <1>6
    <2>5. Len(m) = Len(q) - 1 /\ \A i \in 1 .. Len(m) : m[i] = q[i + 1]
      BY <1>1, <2>4, HeadTailProperties
    <2>6. t = <<"log", word>> => First(m) = <<"log", word>> /\ More(m) = <<>>
      <3> SUFFICES ASSUME t = <<"log", word>>
                   PROVE  First(m) = <<"log", word>> /\ More(m) = <<>>
        OBVIOUS
      <3>1. Len(t) = 2 /\ t[1] = "log" /\ t[2] = word
        <4> HIDE DEF t
        <4> QED OBVIOUS
      <3>2. Until(t) \in 0 .. Len(t) /\ (Until(t) # 0 => t[Until(t)] = "/")
        BY <2>2, FirstSlash
      <3>3. Until(t) = 0
        BY <3>1, <3>2
      <3> QED BY <3>3 DEF First, More, Param, After
    <2>7. First(m) = <<"log", word>> /\ More(m) = <<>> => t = <<"log", word>>
      BY <2>2, Whole DEF First, More
    <2>8. Len(p) >= 3 /\ Len(t) = Len(p) - 3
      BY <1>1, <1>2, <2>2, <2>3, <2>5
    <2>9. p[2] = "auth" /\ p[3] = "/"
      <3>1. q[1] = p[1 + 1] /\ q[2] = p[2 + 1] /\ m[1] = q[1 + 1]
        BY <1>1, <1>2, <2>3, <2>5, <2>8
      <3> QED BY <2>2, <2>4, <3>1
    <2>10. ASSUME NEW i \in 1 .. Len(t)
           PROVE  t[i] = p[i + 3]
      <3>1. t[i] = m[i + 1]
        BY <2>2
      <3>2. m[i + 1] = q[i + 1 + 1]
        BY <2>2, <2>3, <2>5
      <3>3. q[i + 1 + 1] = p[i + 1 + 1 + 1]
        BY <1>1, <1>2, <2>3, <2>8
      <3>4. i + 1 + 1 + 1 = i + 3
        BY <2>3
      <3> QED BY <3>1, <3>2, <3>3, <3>4
    <2> QED BY <2>2, <2>6, <2>7, <2>8, <2>9, <2>10
  <1>7. ASSUME Len(p) >= 3, p[2] = "auth", p[3] = "/"
        PROVE  Under(First(p), m, "auth")
    BY <1>7, Headed DEF m
  <1> HIDE DEF t
  <1>8. ASSUME Under(First(p), m, "auth")
        PROVE  t = <<"log", word>> <=> Len(p) = 5 /\ p[4] = "log" /\ p[5] = word
    <2>1. t \in Seq(STRING) /\ Len(t) = Len(p) - 3 /\ Len(p) >= 3
          /\ \A i \in 1 .. Len(t) : t[i] = p[i + 3]
      BY <1>6, <1>8
    <2>2. t = <<"log", word>> <=> Len(t) = 2 /\ t[1] = "log" /\ t[2] = word
      <3>1. t \in Seq(STRING)
        BY <2>1
      <3> QED BY <3>1
    <2>3. Len(p) = 5 => t[1] = p[1 + 3] /\ t[2] = p[2 + 3]
      BY <2>1
    <2> QED BY <1>2, <2>1, <2>2, <2>3
  <1>9. IsLog(p, word) <=> Under(First(p), m, "auth") /\ t = <<"log", word>>
    BY <1>6 DEF IsLog, m
  <1> QED BY <1>5, <1>6, <1>7, <1>8, <1>9 DEF log, x

(* The operations the templates give a path, by its kind.                  *)
LEMMA Names ==
  ASSUME NEW p \in Seq(STRING), Starts(p), NEW x
  PROVE  x \in Described(p) <=>
           \/ IsLog(p, "in") /\ x = <<"POST", "Login">>
           \/ IsLog(p, "out") /\ x = <<"POST", "Logout">>
           \/ IsTop(p, "events") /\ x \in {<<"GET", "GetEvents">>, <<"POST", "CreateEvent">>}
           \/ IsOne(p, "events") /\ x \in {<<"GET", "GetEvent">>, <<"PATCH", "PatchEvent">>}
           \/ IsPart(p, "events", "like") /\ x = <<"POST", "LikeEvent">>
           \/ IsPart(p, "events", "dislike") /\ x = <<"POST", "DislikeEvent">>
           \/ IsPart(p, "events", "reviews")
                /\ x \in {<<"GET", "GetEventReviews">>, <<"POST", "CreateEventReview">>}
           \/ IsReview(p) /\ x = <<"PATCH", "UpdateEventReview">>
           \/ IsTop(p, "health") /\ x = <<"GET", "Health">>
           \/ IsTop(p, "recommendations") /\ x = <<"GET", "GetRecommendations">>
           \/ IsTop(p, "session") /\ x = <<"POST", "Session">>
           \/ IsTop(p, "users") /\ x \in {<<"GET", "GetUsers">>, <<"POST", "Register">>}
           \/ IsOne(p, "users") /\ x = <<"GET", "GetUser">>
           \/ IsPart(p, "users", "events") /\ x = <<"GET", "GetUserEvents">>
  <1> DEFINE Gives(t) == Fits(p, t[3]) /\ x = <<t[1], t[2]>>
             Named(method, name, template) == Fits(p, template) /\ x = <<method, name>>
  <1>1. x \in Described(p) <=> \E t \in Templates : Gives(t)
    BY DEF Described
  <1>2. \A a, b, c : Gives(<<a, b, c>>) <=> Named(a, b, c)
    OBVIOUS
  <1> HIDE DEF Gives
  <1>3. (\E t \in Templates : Gives(t)) <=>
          \/ Named("POST",  "Login",              <<<<"auth">>, <<"log", "in">>>>)
          \/ Named("POST",  "Logout",             <<<<"auth">>, <<"log", "out">>>>)
          \/ Named("GET",   "GetEvents",          <<<<"events">>>>)
          \/ Named("POST",  "CreateEvent",        <<<<"events">>>>)
          \/ Named("GET",   "GetEvent",           <<<<"events">>, Open>>)
          \/ Named("PATCH", "PatchEvent",         <<<<"events">>, Open>>)
          \/ Named("POST",  "LikeEvent",          <<<<"events">>, Open, <<"like">>>>)
          \/ Named("POST",  "DislikeEvent",       <<<<"events">>, Open, <<"dislike">>>>)
          \/ Named("GET",   "GetEventReviews",    <<<<"events">>, Open, <<"reviews">>>>)
          \/ Named("POST",  "CreateEventReview",  <<<<"events">>, Open, <<"reviews">>>>)
          \/ Named("PATCH", "UpdateEventReview",  <<<<"events">>, Open, <<"reviews">>, Open>>)
          \/ Named("GET",   "Health",             <<<<"health">>>>)
          \/ Named("GET",   "GetRecommendations", <<<<"recommendations">>>>)
          \/ Named("POST",  "Session",            <<<<"session">>>>)
          \/ Named("GET",   "GetUsers",           <<<<"users">>>>)
          \/ Named("POST",  "Register",           <<<<"users">>>>)
          \/ Named("GET",   "GetUser",            <<<<"users">>, Open>>)
          \/ Named("GET",   "GetUserEvents",      <<<<"users">>, Open, <<"events">>>>)
    <2> HIDE DEF Named
    <2>1. (\E t \in Templates : Gives(t)) <=>
            \/ Gives(<<"POST", "Login", <<<<"auth">>, <<"log", "in">>>>>>)
            \/ Gives(<<"POST", "Logout", <<<<"auth">>, <<"log", "out">>>>>>)
            \/ Gives(<<"GET", "GetEvents", <<<<"events">>>>>>)
            \/ Gives(<<"POST", "CreateEvent", <<<<"events">>>>>>)
            \/ Gives(<<"GET", "GetEvent", <<<<"events">>, Open>>>>)
            \/ Gives(<<"PATCH", "PatchEvent", <<<<"events">>, Open>>>>)
            \/ Gives(<<"POST", "LikeEvent", <<<<"events">>, Open, <<"like">>>>>>)
            \/ Gives(<<"POST", "DislikeEvent", <<<<"events">>, Open, <<"dislike">>>>>>)
            \/ Gives(<<"GET", "GetEventReviews", <<<<"events">>, Open, <<"reviews">>>>>>)
            \/ Gives(<<"POST", "CreateEventReview", <<<<"events">>, Open, <<"reviews">>>>>>)
            \/ Gives(<<"PATCH", "UpdateEventReview", <<<<"events">>, Open, <<"reviews">>, Open>>>>)
            \/ Gives(<<"GET", "Health", <<<<"health">>>>>>)
            \/ Gives(<<"GET", "GetRecommendations", <<<<"recommendations">>>>>>)
            \/ Gives(<<"POST", "Session", <<<<"session">>>>>>)
            \/ Gives(<<"GET", "GetUsers", <<<<"users">>>>>>)
            \/ Gives(<<"POST", "Register", <<<<"users">>>>>>)
            \/ Gives(<<"GET", "GetUser", <<<<"users">>, Open>>>>)
            \/ Gives(<<"GET", "GetUserEvents", <<<<"users">>, Open, <<"events">>>>>>)
      BY Zenon DEF Templates
    <2> QED BY <1>2, <2>1, Zenon
  <1>4. /\ \A w : Fits(p, <<<<"auth">>, <<"log", w>>>>) <=> IsLog(p, w)
        /\ \A w : w # "{}" => (Fits(p, <<<<w>>>>) <=> IsTop(p, w))
        /\ \A w : w # "{}" => (Fits(p, <<<<w>>, Open>>) <=> IsOne(p, w))
        /\ \A w, v : w # "{}" /\ v # "{}" =>
             (Fits(p, <<<<w>>, Open, <<v>>>>) <=> IsPart(p, w, v))
        /\ Fits(p, <<<<"events">>, Open, <<"reviews">>, Open>>) <=> IsReview(p)
    BY Templated
  <1>5. /\ Fits(p, <<<<"auth">>, <<"log", "in">>>>) <=> IsLog(p, "in")
        /\ Fits(p, <<<<"auth">>, <<"log", "out">>>>) <=> IsLog(p, "out")
    BY <1>4, Zenon
  <1>6. /\ Fits(p, <<<<"events">>>>) <=> IsTop(p, "events")
        /\ Fits(p, <<<<"health">>>>) <=> IsTop(p, "health")
        /\ Fits(p, <<<<"recommendations">>>>) <=> IsTop(p, "recommendations")
        /\ Fits(p, <<<<"session">>>>) <=> IsTop(p, "session")
        /\ Fits(p, <<<<"users">>>>) <=> IsTop(p, "users")
    BY <1>4
  <1>7. /\ Fits(p, <<<<"events">>, Open>>) <=> IsOne(p, "events")
        /\ Fits(p, <<<<"users">>, Open>>) <=> IsOne(p, "users")
    BY <1>4
  <1>8. /\ Fits(p, <<<<"events">>, Open, <<"like">>>>) <=> IsPart(p, "events", "like")
        /\ Fits(p, <<<<"events">>, Open, <<"dislike">>>>) <=>
             IsPart(p, "events", "dislike")
        /\ Fits(p, <<<<"events">>, Open, <<"reviews">>>>) <=>
             IsPart(p, "events", "reviews")
        /\ Fits(p, <<<<"users">>, Open, <<"events">>>>) <=> IsPart(p, "users", "events")
    BY <1>4
  <1>9. Named("POST", "Login", <<<<"auth">>, <<"log", "in">>>>)
           <=> IsLog(p, "in") /\ x = <<"POST", "Login">>
    <2>1. Fits(p, <<<<"auth">>, <<"log", "in">>>>) <=> IsLog(p, "in")
      BY <1>5
    <2> QED BY <2>1
  <1>10. Named("POST", "Logout", <<<<"auth">>, <<"log", "out">>>>)
           <=> IsLog(p, "out") /\ x = <<"POST", "Logout">>
    <2>1. Fits(p, <<<<"auth">>, <<"log", "out">>>>) <=> IsLog(p, "out")
      BY <1>5
    <2> QED BY <2>1
  <1>11. (\/ Named("GET", "GetEvents", <<<<"events">>>>)
           \/ Named("POST", "CreateEvent", <<<<"events">>>>))
           <=> IsTop(p, "events") /\ x \in {<<"GET", "GetEvents">>, <<"POST", "CreateEvent">>}
    <2>1. Fits(p, <<<<"events">>>>) <=> IsTop(p, "events")
      BY <1>6
    <2> QED BY <2>1
  <1>12. (\/ Named("GET", "GetEvent", <<<<"events">>, Open>>)
           \/ Named("PATCH", "PatchEvent", <<<<"events">>, Open>>))
           <=> IsOne(p, "events") /\ x \in {<<"GET", "GetEvent">>, <<"PATCH", "PatchEvent">>}
    <2>1. Fits(p, <<<<"events">>, Open>>) <=> IsOne(p, "events")
      BY <1>7
    <2> QED BY <2>1
  <1>13. Named("POST", "LikeEvent", <<<<"events">>, Open, <<"like">>>>)
           <=> IsPart(p, "events", "like") /\ x = <<"POST", "LikeEvent">>
    <2>1. Fits(p, <<<<"events">>, Open, <<"like">>>>) <=> IsPart(p, "events", "like")
      BY <1>8
    <2> QED BY <2>1
  <1>14. Named("POST", "DislikeEvent", <<<<"events">>, Open, <<"dislike">>>>)
           <=> IsPart(p, "events", "dislike") /\ x = <<"POST", "DislikeEvent">>
    <2>1. Fits(p, <<<<"events">>, Open, <<"dislike">>>>) <=>
            IsPart(p, "events", "dislike")
      BY <1>8
    <2> QED BY <2>1
  <1>15. (\/ Named("GET", "GetEventReviews", <<<<"events">>, Open, <<"reviews">>>>)
           \/ Named("POST", "CreateEventReview", <<<<"events">>, Open, <<"reviews">>>>))
           <=> IsPart(p, "events", "reviews") /\ x \in {<<"GET", "GetEventReviews">>, <<"POST", "CreateEventReview">>}
    <2>1. Fits(p, <<<<"events">>, Open, <<"reviews">>>>) <=>
            IsPart(p, "events", "reviews")
      BY <1>8
    <2> QED BY <2>1
  <1>16. Named("PATCH", "UpdateEventReview", <<<<"events">>, Open, <<"reviews">>, Open>>)
           <=> IsReview(p) /\ x = <<"PATCH", "UpdateEventReview">>
    <2>1. Fits(p, <<<<"events">>, Open, <<"reviews">>, Open>>) <=> IsReview(p)
      BY <1>4
    <2> QED BY <2>1
  <1>17. Named("GET", "Health", <<<<"health">>>>)
           <=> IsTop(p, "health") /\ x = <<"GET", "Health">>
    <2>1. Fits(p, <<<<"health">>>>) <=> IsTop(p, "health")
      BY <1>6
    <2> QED BY <2>1
  <1>18. Named("GET", "GetRecommendations", <<<<"recommendations">>>>)
           <=> IsTop(p, "recommendations") /\ x = <<"GET", "GetRecommendations">>
    <2>1. Fits(p, <<<<"recommendations">>>>) <=> IsTop(p, "recommendations")
      BY <1>6
    <2> QED BY <2>1
  <1>19. Named("POST", "Session", <<<<"session">>>>)
           <=> IsTop(p, "session") /\ x = <<"POST", "Session">>
    <2>1. Fits(p, <<<<"session">>>>) <=> IsTop(p, "session")
      BY <1>6
    <2> QED BY <2>1
  <1>20. (\/ Named("GET", "GetUsers", <<<<"users">>>>)
           \/ Named("POST", "Register", <<<<"users">>>>))
           <=> IsTop(p, "users") /\ x \in {<<"GET", "GetUsers">>, <<"POST", "Register">>}
    <2>1. Fits(p, <<<<"users">>>>) <=> IsTop(p, "users")
      BY <1>6
    <2> QED BY <2>1
  <1>21. Named("GET", "GetUser", <<<<"users">>, Open>>)
           <=> IsOne(p, "users") /\ x = <<"GET", "GetUser">>
    <2>1. Fits(p, <<<<"users">>, Open>>) <=> IsOne(p, "users")
      BY <1>7
    <2> QED BY <2>1
  <1>22. Named("GET", "GetUserEvents", <<<<"users">>, Open, <<"events">>>>)
           <=> IsPart(p, "users", "events") /\ x = <<"GET", "GetUserEvents">>
    <2>1. Fits(p, <<<<"users">>, Open, <<"events">>>>) <=> IsPart(p, "users", "events")
      BY <1>8
    <2> QED BY <2>1
  <1> HIDE DEF Named
  <1> QED BY <1>1, <1>3, <1>9, <1>10, <1>11, <1>12, <1>13, <1>14, <1>15, <1>16, <1>17,
             <1>18, <1>19, <1>20, <1>21, <1>22, Zenon

(* The node the tree gives it.                                             *)
LEMMA Reached ==
  ASSUME NEW p \in Seq(STRING), Starts(p)
  PROVE  LET id == First(More(p))
         IN  /\ IsLog(p, "in") => Route(p) = Node([POST |-> "Login"], <<>>)
             /\ IsLog(p, "out") => Route(p) = Node([POST |-> "Logout"], <<>>)
             /\ IsTop(p, "events") =>
                  Route(p) = Node([GET |-> "GetEvents", POST |-> "CreateEvent"], <<>>)
             /\ IsOne(p, "events") =>
                  Route(p) = Node([GET |-> "GetEvent", PATCH |-> "PatchEvent"], <<id>>)
             /\ IsPart(p, "events", "like") =>
                  Route(p) = Node([POST |-> "LikeEvent"], <<id>>)
             /\ IsPart(p, "events", "dislike") =>
                  Route(p) = Node([POST |-> "DislikeEvent"], <<id>>)
             /\ IsPart(p, "events", "reviews") =>
                  Route(p) =
                    Node([GET |-> "GetEventReviews", POST |-> "CreateEventReview"], <<id>>)
             /\ IsReview(p) =>
                  Route(p) = Node([PATCH |-> "UpdateEventReview"],
                                  <<id, First(More(More(More(p))))>>)
             /\ IsTop(p, "health") => Route(p) = Node([GET |-> "Health"], <<>>)
             /\ IsTop(p, "recommendations") =>
                  Route(p) = Node([GET |-> "GetRecommendations"], <<>>)
             /\ IsTop(p, "session") => Route(p) = Node([POST |-> "Session"], <<>>)
             /\ IsTop(p, "users") =>
                  Route(p) = Node([GET |-> "GetUsers", POST |-> "Register"], <<>>)
             /\ IsOne(p, "users") => Route(p) = Node([GET |-> "GetUser"], <<id>>)
             /\ IsPart(p, "users", "events") =>
                  Route(p) = Node([GET |-> "GetUserEvents"], <<id>>)
             /\ \/ IsLog(p, "in") \/ IsLog(p, "out") \/ IsReview(p)
                \/ IsTop(p, "events") \/ IsTop(p, "health") \/ IsTop(p, "recommendations")
                \/ IsTop(p, "session") \/ IsTop(p, "users")
                \/ IsOne(p, "events") \/ IsOne(p, "users")
                \/ IsPart(p, "events", "like") \/ IsPart(p, "events", "dislike")
                \/ IsPart(p, "events", "reviews") \/ IsPart(p, "users", "events")
                \/ Route(p) = NoNode
  <1> DEFINE q == Tail(p)
             log == IsPrefix(<<"/", "auth", "/", "log">>, p)
             rest == Rest(<<"/", "auth", "/", "log">>, p)
             r == More(p)
             s == First(p)
  <1>1. q \in Seq(STRING) /\ p # <<>> /\ p[1] = "/"
    BY HeadTailProperties DEF Starts
  <1>2. /\ log /\ rest = <<"in">> <=> IsLog(p, "in")
        /\ log /\ rest = <<"out">> <=> IsLog(p, "out")
    BY Logged
  <1>3. \A w : /\ IsPrefix(<<"/", w>>, p) <=> IsPrefix(<<w>>, q)
               /\ IsPrefix(<<"/", w>>, p) => Rest(<<"/", w>>, p) = Tail(q)
               /\ p = <<"/", w>> <=> q = <<w>>
    BY Branched
  <1>4. \A w : w # "/" => (IsTop(p, w) <=> q = <<w>>)
    BY <1>1, Words DEF IsTop, First, More
  <1>5. \A w : w # "/" => (s = <<w>> => q # <<>> /\ q[1] = w /\ IsPrefix(<<w>>, q))
    <2> TAKE w
    <2> HAVE w # "/"
    <2>1. Is(s, r, w) \/ Under(s, r, w) <=> s = <<w>>
      BY DEF Is, Under
    <2>2. /\ Is(s, r, w) => IsPrefix(<<w>>, q)
          /\ Under(s, r, w) => IsPrefix(<<w>>, q)
          /\ IsPrefix(<<w>>, q) => q # <<>> /\ q[1] = w
      BY <1>1, Words DEF First, More
    <2> QED BY <2>1, <2>2
  <1>6. /\ log => p[2] = "auth"
        /\ \A w : IsPrefix(<<"/", w>>, p) => p[2] = w
        /\ \A w : p = <<"/", w>> => p[2] = w
    <2> DEFINE four == <<"/", "auth", "/", "log">>
    <2>1. four \in Seq({"/", "auth", "log"}) /\ Len(four) =
            4 /\ four[2] = "auth" /\ four # <<>>
      OBVIOUS
    <2> HIDE DEF four
    <2>2. IsPrefix(four, p) => p[2] = "auth"
      <3>1. IsPrefix(four, p) => \A i \in 1 .. Len(four) : four[i] = p[i]
        BY <2>1, Prefixed
      <3> QED BY <2>1, <3>1
    <2>3. \A w : IsPrefix(<<"/", w>>, p) => p[2] = w
      <3> TAKE w
      <3> DEFINE two == <<"/", w>>
      <3>1. two \in Seq({"/", w}) /\ Len(two) = 2 /\ two[2] = w /\ two # <<>>
        OBVIOUS
      <3> HIDE DEF two
      <3>2. IsPrefix(two, p) => \A i \in 1 .. Len(two) : two[i] = p[i]
        BY <3>1, Prefixed
      <3>3. IsPrefix(two, p) => p[2] = w
        BY <3>1, <3>2
      <3> QED BY <3>3 DEF two
    <2>4. \A w : p = <<"/", w>> => p[2] = w
      OBVIOUS
    <2> QED BY <2>2, <2>3, <2>4 DEF four
  <1> DEFINE events == IsPrefix(<<"/", "events">>, p)
             users == IsPrefix(<<"/", "users">>, p)
             eventsRest == Rest(<<"/", "events">>, p)
             usersRest == Rest(<<"/", "users">>, p)
  <1>7. /\ log => Route(p) = LogTree(rest)
        /\ events => Route(p) = EventsTree(eventsRest)
        /\ users => Route(p) = UsersTree(usersRest)
        /\ p = <<"/", "health">> => Route(p) = Node([GET |-> "Health"], <<>>)
        /\ p = <<"/", "recommendations">> =>
             Route(p) = Node([GET |-> "GetRecommendations"], <<>>)
        /\ p = <<"/", "session">> => Route(p) = Node([POST |-> "Session"], <<>>)
        /\ \/ log \/ events \/ users \/ p = <<"/", "health">>
           \/ p = <<"/", "recommendations">> \/ p = <<"/", "session">>
           \/ Route(p) = NoNode
    <2>1. /\ events => p[2] = "events"
          /\ users => p[2] = "users"
          /\ p = <<"/", "health">> => p[2] = "health"
          /\ p = <<"/", "recommendations">> => p[2] = "recommendations"
          /\ p = <<"/", "session">> => p[2] = "session"
      BY <1>6, Zenon
    <2>2. log => p[2] = "auth"
      BY <1>6
    <2> DEFINE word == p[2]
               health == p = <<"/", "health">>
               recommendations == p = <<"/", "recommendations">>
               main == p = <<"/", "session">>
    <2>3. Route(p) = CASE log -> LogTree(rest)
                       [] events -> EventsTree(eventsRest)
                       [] health -> Node([GET |-> "Health"], <<>>)
                       [] recommendations -> Node([GET |-> "GetRecommendations"], <<>>)
                       [] main -> Node([POST |-> "Session"], <<>>)
                       [] users -> UsersTree(usersRest)
                       [] OTHER -> NoNode
      BY Zenon DEF Route
    <2>4. /\ events => word = "events"
          /\ users => word = "users"
          /\ health => word = "health"
          /\ recommendations => word = "recommendations"
          /\ main => word = "session"
          /\ log => word = "auth"
      BY <2>1, <2>2
    <2> HIDE DEF log, rest, events, eventsRest, users, usersRest, word,
                 health, recommendations, main
    <2>5. /\ log => Route(p) = LogTree(rest)
          /\ events => Route(p) = EventsTree(eventsRest)
          /\ users => Route(p) = UsersTree(usersRest)
          /\ health => Route(p) = Node([GET |-> "Health"], <<>>)
          /\ recommendations => Route(p) = Node([GET |-> "GetRecommendations"], <<>>)
          /\ main => Route(p) = Node([POST |-> "Session"], <<>>)
          /\ log \/ events \/ users \/ health \/ recommendations \/ main \/ Route(p) =
               NoNode
      BY <2>3, <2>4
    <2> QED BY <2>5, Zenon DEF health, recommendations, main
  <1>8. /\ IsTop(p, "health") <=> p = <<"/", "health">>
        /\ IsTop(p, "recommendations") <=> p = <<"/", "recommendations">>
        /\ IsTop(p, "session") <=> p = <<"/", "session">>
    BY <1>3, <1>4
  <1>9. /\ IsLog(p, "in") => Route(p) = Node([POST |-> "Login"], <<>>)
        /\ IsLog(p, "out") => Route(p) = Node([POST |-> "Logout"], <<>>)
        /\ log => IsLog(p, "in") \/ IsLog(p, "out") \/ Route(p) = NoNode
    <2> HIDE DEF log, rest
    <2>1. /\ rest = <<"in">> => LogTree(rest) = Node([POST |-> "Login"], <<>>)
          /\ rest = <<"out">> => LogTree(rest) = Node([POST |-> "Logout"], <<>>)
          /\ rest = <<"in">> \/ rest = <<"out">> \/ LogTree(rest) = NoNode
      BY DEF LogTree
    <2> QED BY <1>2, <1>7, <2>1
  <1>10. /\ s = <<"events">> => events
         /\ s = <<"users">> => users
    BY <1>3, <1>5
  <1> DEFINE m == More(r)
  <1>11. (Under(s, r, "events") \/ Under(s, r, "users")) /\ m # <<>> =>
           m \in Seq(STRING) /\ Starts(m)
    <2>1. r # <<>> => r \in Seq(STRING) /\ Starts(r)
      BY Segmented
    <2>2. r # <<>> /\ m # <<>> => m \in Seq(STRING) /\ Starts(m)
      BY <2>1, Segmented
    <2> QED BY <2>2 DEF Under
  <1>12. ASSUME events
         PROVE  /\ Is(s, r, "events") =>
                     Route(p) = Node([GET |-> "GetEvents", POST |-> "CreateEvent"], <<>>)
                /\ Under(s, r, "events") /\ m = <<>> =>
                     Route(p) =
                       Node([GET |-> "GetEvent", PATCH |-> "PatchEvent"], <<First(r)>>)
                /\ Under(s, r, "events") /\ m # <<>> =>
                     Route(p) = EventTree(First(r), Tail(m))
                /\ Is(s, r, "events") \/ Under(s, r, "events") \/ Route(p) = NoNode
    <2>1. IsPrefix(<<"events">>, Tail(p)) /\ eventsRest = Tail(Tail(p))
      BY <1>3, <1>12
    <2>2. Route(p) = EventsTree(Tail(Tail(p)))
      BY <1>7, <1>12, <2>1
    <2> QED BY <2>1, <2>2, EventsRoutes
  <1>13. ASSUME users
         PROVE  /\ Is(s, r, "users") =>
                     Route(p) = Node([GET |-> "GetUsers", POST |-> "Register"], <<>>)
                /\ Under(s, r, "users") /\ m = <<>> =>
                     Route(p) = Node([GET |-> "GetUser"], <<First(r)>>)
                /\ Under(s, r, "users") /\ m # <<>> =>
                     Route(p) = IF Is(First(m), More(m), "events")
                                THEN Node([GET |-> "GetUserEvents"], <<First(r)>>) ELSE NoNode
                /\ Is(s, r, "users") \/ Under(s, r, "users") \/ Route(p) = NoNode
    <2>1. IsPrefix(<<"users">>, Tail(p)) /\ usersRest = Tail(Tail(p))
      BY <1>3, <1>13
    <2>2. Route(p) = UsersTree(Tail(Tail(p)))
      BY <1>7, <1>13, <2>1
    <2> QED BY <2>1, <2>2, UsersRoutes
  <1>14. ASSUME m \in Seq(STRING), Starts(m)
         PROVE  LET node == EventTree(First(r), Tail(m))
                IN  /\ Is(First(m), More(m), "dislike") =>
                         node = Node([POST |-> "DislikeEvent"], <<First(r)>>)
                    /\ Is(First(m), More(m), "like") =>
                         node = Node([POST |-> "LikeEvent"], <<First(r)>>)
                    /\ Is(First(m), More(m), "reviews") =>
                         node =
                           Node([GET |-> "GetEventReviews", POST |-> "CreateEventReview"],
                                     <<First(r)>>)
                    /\ Under(First(m), More(m), "reviews") /\ More(More(m)) = <<>> =>
                         node = Node([PATCH |-> "UpdateEventReview"], <<First(r), First(More(m))>>)
                    /\ \/ Is(First(m), More(m), "dislike") \/ Is(First(m), More(m), "like")
                       \/ Is(First(m), More(m), "reviews")
                       \/ Under(First(m), More(m), "reviews") /\ More(More(m)) = <<>>
                       \/ node = NoNode
    BY <1>14, EventRoutes
  <1> HIDE DEF q, log, rest, events, users, eventsRest, usersRest
  <1>15. /\ \A w : IsTop(p, w) <=> Is(s, r, w)
         /\ \A w : IsOne(p, w) <=> Under(s, r, w) /\ m = <<>>
         /\ \A w, v : IsPart(p, w, v) <=>
              Under(s, r, w) /\ m # <<>> /\ Is(First(m), More(m), v)
         /\ IsReview(p) <=> /\ Under(s, r, "events") /\ m # <<>>
                            /\ Under(First(m), More(m), "reviews") /\ More(More(m)) = <<>>
    BY Zenon DEF IsTop, IsOne, IsPart, IsReview
  <1>16. /\ Is(s, r, "events") \/ Under(s, r, "events") => events
         /\ Is(s, r, "users") \/ Under(s, r, "users") => users
    BY <1>10 DEF Is, Under
  <1> HIDE DEF r, s, m
  <1>17. /\ IsTop(p, "events") =>
              Route(p) = Node([GET |-> "GetEvents", POST |-> "CreateEvent"], <<>>)
         /\ IsOne(p, "events") =>
              Route(p) = Node([GET |-> "GetEvent", PATCH |-> "PatchEvent"], <<First(r)>>)
    BY <1>12, <1>15, <1>16
  <1>18. /\ IsTop(p, "users") =>
              Route(p) = Node([GET |-> "GetUsers", POST |-> "Register"], <<>>)
         /\ IsOne(p, "users") => Route(p) = Node([GET |-> "GetUser"], <<First(r)>>)
         /\ IsPart(p, "users", "events") =>
              Route(p) = Node([GET |-> "GetUserEvents"], <<First(r)>>)
    BY <1>13, <1>15, <1>16
  <1>19. /\ IsPart(p, "events", "like") =>
              Route(p) = Node([POST |-> "LikeEvent"], <<First(r)>>)
         /\ IsPart(p, "events", "dislike") =>
              Route(p) = Node([POST |-> "DislikeEvent"], <<First(r)>>)
         /\ IsPart(p, "events", "reviews") =>
              Route(p) = Node([GET |-> "GetEventReviews", POST |-> "CreateEventReview"],
                              <<First(r)>>)
         /\ IsReview(p) => Route(p) = Node([PATCH |-> "UpdateEventReview"],
                                           <<First(r), First(More(m))>>)
    BY <1>11, <1>12, <1>14, <1>15, <1>16
  <1>20. events => \/ IsTop(p, "events") \/ IsOne(p, "events") \/ IsReview(p)
                   \/ IsPart(p, "events", "like") \/ IsPart(p, "events", "dislike")
                   \/ IsPart(p, "events", "reviews") \/ Route(p) = NoNode
    BY <1>11, <1>12, <1>14, <1>15
  <1>21. users => \/ IsTop(p, "users") \/ IsOne(p, "users")
                  \/ IsPart(p, "users", "events") \/ Route(p) = NoNode
    BY <1>13, <1>15
  <1>22. \/ log \/ events \/ users \/ IsTop(p, "health") \/ IsTop(p, "recommendations")
         \/ IsTop(p, "session") \/ Route(p) = NoNode
    BY <1>7, <1>8, Zenon
  <1>23. /\ IsTop(p, "health") => Route(p) = Node([GET |-> "Health"], <<>>)
         /\ IsTop(p, "recommendations") =>
              Route(p) = Node([GET |-> "GetRecommendations"], <<>>)
         /\ IsTop(p, "session") => Route(p) = Node([POST |-> "Session"], <<>>)
    BY <1>7, <1>8, Zenon
  <1>24. \/ IsLog(p, "in") \/ IsLog(p, "out") \/ IsReview(p)
         \/ IsTop(p, "events") \/ IsTop(p, "health") \/ IsTop(p, "recommendations")
         \/ IsTop(p, "session") \/ IsTop(p, "users")
         \/ IsOne(p, "events") \/ IsOne(p, "users")
         \/ IsPart(p, "events", "like") \/ IsPart(p, "events", "dislike")
         \/ IsPart(p, "events", "reviews") \/ IsPart(p, "users", "events")
         \/ Route(p) = NoNode
    BY <1>9, <1>20, <1>21, <1>22, Zenon
  <1> QED BY <1>9, <1>17, <1>18, <1>19, <1>23, <1>24, Zenon DEF r, m

(* A path is of one kind, and has the operations of that kind.             *)
LEMMA OneKind ==
  ASSUME NEW p \in Seq(STRING), Starts(p)
  PROVE  /\ IsLog(p, "in") => Described(p) = {<<"POST", "Login">>}
         /\ IsLog(p, "out") => Described(p) = {<<"POST", "Logout">>}
         /\ IsTop(p, "events") =>
              Described(p) = {<<"GET", "GetEvents">>, <<"POST", "CreateEvent">>}
         /\ IsOne(p, "events") =>
              Described(p) = {<<"GET", "GetEvent">>, <<"PATCH", "PatchEvent">>}
         /\ IsPart(p, "events", "like") => Described(p) = {<<"POST", "LikeEvent">>}
         /\ IsPart(p, "events", "dislike") => Described(p) = {<<"POST", "DislikeEvent">>}
         /\ IsPart(p, "events", "reviews") =>
              Described(p) = {<<"GET", "GetEventReviews">>, <<"POST", "CreateEventReview">>}
         /\ IsReview(p) => Described(p) = {<<"PATCH", "UpdateEventReview">>}
         /\ IsTop(p, "health") => Described(p) = {<<"GET", "Health">>}
         /\ IsTop(p, "recommendations") =>
              Described(p) = {<<"GET", "GetRecommendations">>}
         /\ IsTop(p, "session") => Described(p) = {<<"POST", "Session">>}
         /\ IsTop(p, "users") =>
              Described(p) = {<<"GET", "GetUsers">>, <<"POST", "Register">>}
         /\ IsOne(p, "users") => Described(p) = {<<"GET", "GetUser">>}
         /\ IsPart(p, "users", "events") => Described(p) = {<<"GET", "GetUserEvents">>}
         /\ \/ IsLog(p, "in")
            \/ IsLog(p, "out")
            \/ IsTop(p, "events")
            \/ IsOne(p, "events")
            \/ IsPart(p, "events", "like")
            \/ IsPart(p, "events", "dislike")
            \/ IsPart(p, "events", "reviews")
            \/ IsReview(p)
            \/ IsTop(p, "health")
            \/ IsTop(p, "recommendations")
            \/ IsTop(p, "session")
            \/ IsTop(p, "users")
            \/ IsOne(p, "users")
            \/ IsPart(p, "users", "events")
            \/ Described(p) = {}
  <1> DEFINE s == First(p)  r == More(p)  m == More(r)  t == First(m)  w == More(m)
  <1>1. /\ \A a : IsTop(p, a) <=> s = <<a>> /\ r = <<>>
        /\ \A a : IsLog(p, a) <=>
             s = <<"auth">> /\ r # <<>> /\ First(r) = <<"log", a>> /\ m = <<>>
        /\ \A a : IsOne(p, a) <=> s = <<a>> /\ r # <<>> /\ m = <<>>
        /\ \A a, b : IsPart(p, a, b) <=>
             s = <<a>> /\ r # <<>> /\ m # <<>> /\ t = <<b>> /\ w = <<>>
        /\ IsReview(p) <=> /\ s = <<"events">> /\ r # <<>> /\ m # <<>>
                           /\ t = <<"reviews">> /\ w # <<>> /\ More(w) = <<>>
    BY Zenon DEF IsTop, IsLog, IsOne, IsPart, IsReview, Is, Under
  <1>2. /\ \A a, b : <<a>> = <<b>> => a = b
        /\ \A a, b, c, d : <<a, b>> = <<c, d>> => b = d
    OBVIOUS
  <1> HIDE DEF s, r, m, t, w
  <1>3. \A a, b, c :
          /\ IsLog(p, a) => /\ ~IsTop(p, b) /\ (IsLog(p, b) => a = b) /\ ~IsReview(p)
                            /\ b # "auth" => ~IsOne(p, b) /\ ~IsPart(p, b, c)
          /\ IsTop(p, a) => /\ (IsTop(p, b) => a = b) /\ ~IsLog(p, b)
                            /\ ~IsOne(p, b) /\ ~IsPart(p, b, c) /\ ~IsReview(p)
          /\ IsOne(p, a) => /\ (IsOne(p, b) => a = b) /\ ~IsTop(p, b)
                            /\ ~IsPart(p, b, c) /\ ~IsReview(p)
                            /\ a # "auth" => ~IsLog(p, b)
          /\ IsReview(p) =>
               ~IsTop(p, b) /\ ~IsOne(p, b) /\ ~IsPart(p, b, c) /\ ~IsLog(p, b)
    BY <1>1, <1>2
  <1>4. \A a, b, c, d : IsPart(p, a, b) =>
          /\ (IsPart(p, c, d) => a = c /\ b = d)
          /\ ~IsTop(p, c) /\ ~IsOne(p, c) /\ ~IsReview(p) /\ ~IsLog(p, c)
    BY <1>1, <1>2
  <1>5. ASSUME IsLog(p, "in")
        PROVE  Described(p) = {<<"POST", "Login">>}
    <2>1. \A x : x \in Described(p) <=> x \in {<<"POST", "Login">>}
      BY <1>5, <1>3, Names
    <2> QED BY <2>1, Zenon
  <1>6. ASSUME IsLog(p, "out")
        PROVE  Described(p) = {<<"POST", "Logout">>}
    <2>1. \A x : x \in Described(p) <=> x \in {<<"POST", "Logout">>}
      BY <1>6, <1>3, Names
    <2> QED BY <2>1, Zenon
  <1>7. ASSUME IsTop(p, "events")
        PROVE  Described(p) = {<<"GET", "GetEvents">>, <<"POST", "CreateEvent">>}
    <2>1. \A x : x \in Described(p) <=>
            x \in {<<"GET", "GetEvents">>, <<"POST", "CreateEvent">>}
      BY <1>7, <1>3, Names
    <2> QED BY <2>1, Zenon
  <1>8. ASSUME IsOne(p, "events")
        PROVE  Described(p) = {<<"GET", "GetEvent">>, <<"PATCH", "PatchEvent">>}
    <2>1. \A x : x \in Described(p) <=>
            x \in {<<"GET", "GetEvent">>, <<"PATCH", "PatchEvent">>}
      BY <1>8, <1>3, Names
    <2> QED BY <2>1, Zenon
  <1>9. ASSUME IsPart(p, "events", "like")
        PROVE  Described(p) = {<<"POST", "LikeEvent">>}
    <2>1. \A x : x \in Described(p) <=> x \in {<<"POST", "LikeEvent">>}
      BY <1>9, <1>4, Names
    <2> QED BY <2>1, Zenon
  <1>10. ASSUME IsPart(p, "events", "dislike")
        PROVE  Described(p) = {<<"POST", "DislikeEvent">>}
    <2>1. \A x : x \in Described(p) <=> x \in {<<"POST", "DislikeEvent">>}
      BY <1>10, <1>4, Names
    <2> QED BY <2>1, Zenon
  <1>11. ASSUME IsPart(p, "events", "reviews")
        PROVE  Described(p) =
                 {<<"GET", "GetEventReviews">>, <<"POST", "CreateEventReview">>}
    <2>1. \A x : x \in Described(p) <=>
            x \in {<<"GET", "GetEventReviews">>, <<"POST", "CreateEventReview">>}
      BY <1>11, <1>4, Names
    <2> QED BY <2>1, Zenon
  <1>12. ASSUME IsReview(p)
        PROVE  Described(p) = {<<"PATCH", "UpdateEventReview">>}
    <2>1. \A x : x \in Described(p) <=> x \in {<<"PATCH", "UpdateEventReview">>}
      BY <1>12, <1>3, Names
    <2> QED BY <2>1, Zenon
  <1>13. ASSUME IsTop(p, "health")
        PROVE  Described(p) = {<<"GET", "Health">>}
    <2>1. \A x : x \in Described(p) <=> x \in {<<"GET", "Health">>}
      BY <1>13, <1>3, Names
    <2> QED BY <2>1, Zenon
  <1>14. ASSUME IsTop(p, "recommendations")
        PROVE  Described(p) = {<<"GET", "GetRecommendations">>}
    <2>1. \A x : x \in Described(p) <=> x \in {<<"GET", "GetRecommendations">>}
      BY <1>14, <1>3, Names
    <2> QED BY <2>1, Zenon
  <1>15. ASSUME IsTop(p, "session")
        PROVE  Described(p) = {<<"POST", "Session">>}
    <2>1. \A x : x \in Described(p) <=> x \in {<<"POST", "Session">>}
      BY <1>15, <1>3, Names
    <2> QED BY <2>1, Zenon
  <1>16. ASSUME IsTop(p, "users")
        PROVE  Described(p) = {<<"GET", "GetUsers">>, <<"POST", "Register">>}
    <2>1. \A x : x \in Described(p) <=>
            x \in {<<"GET", "GetUsers">>, <<"POST", "Register">>}
      BY <1>16, <1>3, Names
    <2> QED BY <2>1, Zenon
  <1>17. ASSUME IsOne(p, "users")
        PROVE  Described(p) = {<<"GET", "GetUser">>}
    <2>1. \A x : x \in Described(p) <=> x \in {<<"GET", "GetUser">>}
      BY <1>17, <1>3, Names
    <2> QED BY <2>1, Zenon
  <1>18. ASSUME IsPart(p, "users", "events")
        PROVE  Described(p) = {<<"GET", "GetUserEvents">>}
    <2>1. \A x : x \in Described(p) <=> x \in {<<"GET", "GetUserEvents">>}
      BY <1>18, <1>4, Names
    <2> QED BY <2>1, Zenon
  <1>19. \/ IsLog(p, "in")
         \/ IsLog(p, "out")
         \/ IsTop(p, "events")
         \/ IsOne(p, "events")
         \/ IsPart(p, "events", "like")
         \/ IsPart(p, "events", "dislike")
         \/ IsPart(p, "events", "reviews")
         \/ IsReview(p)
         \/ IsTop(p, "health")
         \/ IsTop(p, "recommendations")
         \/ IsTop(p, "session")
         \/ IsTop(p, "users")
         \/ IsOne(p, "users")
         \/ IsPart(p, "users", "events")
         \/ Described(p) = {}
    BY Names, Zenon
  <1> QED BY <1>5, <1>6, <1>7, <1>8, <1>9, <1>10, <1>11, <1>12, <1>13, <1>14, <1>15,
             <1>16, <1>17, <1>18, <1>19, Zenon

(* The operations of a node, with the methods they answer.                 *)
Offered(node) == {<<m, node.ops[m]>> : m \in DOMAIN node.ops}

(* The operations of a node are the fields of its record.                  *)
LEMMA Offers ==
  /\ \A a, args : Offered(Node([GET |-> a], args)) = {<<"GET", a>>}
  /\ \A a, args : Offered(Node([POST |-> a], args)) = {<<"POST", a>>}
  /\ \A a, args : Offered(Node([PATCH |-> a], args)) = {<<"PATCH", a>>}
  /\ \A a, b, args :
       Offered(Node([GET |-> a, POST |-> b], args)) = {<<"GET", a>>, <<"POST", b>>}
  /\ \A a, b, args :
       Offered(Node([GET |-> a, PATCH |-> b], args)) = {<<"GET", a>>, <<"PATCH", b>>}
  /\ Offered(NoNode) = {}
  BY DEF Offered, Node, NoNode

(* The tree reaches the operations of the description.                     *)
LEMMA OfferedAsDescribed ==
  ASSUME NEW p \in Seq(STRING), Starts(p)
  PROVE  Offered(Route(p)) = Described(p)
  <1> DEFINE id == First(More(p))
  <1>1. /\ IsLog(p, "in") => Route(p) = Node([POST |-> "Login"], <<>>)
        /\ IsLog(p, "out") => Route(p) = Node([POST |-> "Logout"], <<>>)
        /\ IsTop(p, "events") =>
             Route(p) = Node([GET |-> "GetEvents", POST |-> "CreateEvent"], <<>>)
        /\ IsOne(p, "events") =>
             Route(p) = Node([GET |-> "GetEvent", PATCH |-> "PatchEvent"], <<id>>)
        /\ IsPart(p, "events", "like") => Route(p) = Node([POST |-> "LikeEvent"], <<id>>)
        /\ IsPart(p, "events", "dislike") =>
             Route(p) = Node([POST |-> "DislikeEvent"], <<id>>)
        /\ IsPart(p, "events", "reviews") => Route(p) = Node([GET |-> "GetEventReviews", POST |-> "CreateEventReview"], <<id>>)
        /\ IsReview(p) => Route(p) = Node([PATCH |-> "UpdateEventReview"], <<id, First(More(More(More(p))))>>)
        /\ IsTop(p, "health") => Route(p) = Node([GET |-> "Health"], <<>>)
        /\ IsTop(p, "recommendations") =>
             Route(p) = Node([GET |-> "GetRecommendations"], <<>>)
        /\ IsTop(p, "session") => Route(p) = Node([POST |-> "Session"], <<>>)
        /\ IsTop(p, "users") =>
             Route(p) = Node([GET |-> "GetUsers", POST |-> "Register"], <<>>)
        /\ IsOne(p, "users") => Route(p) = Node([GET |-> "GetUser"], <<id>>)
        /\ IsPart(p, "users", "events") =>
             Route(p) = Node([GET |-> "GetUserEvents"], <<id>>)
        /\ \/ IsLog(p, "in")
           \/ IsLog(p, "out")
           \/ IsTop(p, "events")
           \/ IsOne(p, "events")
           \/ IsPart(p, "events", "like")
           \/ IsPart(p, "events", "dislike")
           \/ IsPart(p, "events", "reviews")
           \/ IsReview(p)
           \/ IsTop(p, "health")
           \/ IsTop(p, "recommendations")
           \/ IsTop(p, "session")
           \/ IsTop(p, "users")
           \/ IsOne(p, "users")
           \/ IsPart(p, "users", "events")
           \/ Route(p) = NoNode
    BY Reached, Zenon
  <1>2. /\ IsLog(p, "in") => Described(p) = {<<"POST", "Login">>}
        /\ IsLog(p, "out") => Described(p) = {<<"POST", "Logout">>}
        /\ IsTop(p, "events") =>
             Described(p) = {<<"GET", "GetEvents">>, <<"POST", "CreateEvent">>}
        /\ IsOne(p, "events") =>
             Described(p) = {<<"GET", "GetEvent">>, <<"PATCH", "PatchEvent">>}
        /\ IsPart(p, "events", "like") => Described(p) = {<<"POST", "LikeEvent">>}
        /\ IsPart(p, "events", "dislike") => Described(p) = {<<"POST", "DislikeEvent">>}
        /\ IsPart(p, "events", "reviews") =>
             Described(p) = {<<"GET", "GetEventReviews">>, <<"POST", "CreateEventReview">>}
        /\ IsReview(p) => Described(p) = {<<"PATCH", "UpdateEventReview">>}
        /\ IsTop(p, "health") => Described(p) = {<<"GET", "Health">>}
        /\ IsTop(p, "recommendations") => Described(p) = {<<"GET", "GetRecommendations">>}
        /\ IsTop(p, "session") => Described(p) = {<<"POST", "Session">>}
        /\ IsTop(p, "users") =>
             Described(p) = {<<"GET", "GetUsers">>, <<"POST", "Register">>}
        /\ IsOne(p, "users") => Described(p) = {<<"GET", "GetUser">>}
        /\ IsPart(p, "users", "events") => Described(p) = {<<"GET", "GetUserEvents">>}
        /\ \/ IsLog(p, "in")
           \/ IsLog(p, "out")
           \/ IsTop(p, "events")
           \/ IsOne(p, "events")
           \/ IsPart(p, "events", "like")
           \/ IsPart(p, "events", "dislike")
           \/ IsPart(p, "events", "reviews")
           \/ IsReview(p)
           \/ IsTop(p, "health")
           \/ IsTop(p, "recommendations")
           \/ IsTop(p, "session")
           \/ IsTop(p, "users")
           \/ IsOne(p, "users")
           \/ IsPart(p, "users", "events")
           \/ Described(p) = {}
    BY OneKind, Zenon
  <1>3. CASE IsLog(p, "in")
    <2>1. Route(p) = Node([POST |-> "Login"], <<>>)
      BY <1>1, <1>3, Zenon
    <2>2. Described(p) = {<<"POST", "Login">>}
      BY <1>2, <1>3, Zenon
    <2> QED BY <2>1, <2>2, Offers
  <1>4. CASE IsLog(p, "out")
    <2>1. Route(p) = Node([POST |-> "Logout"], <<>>)
      BY <1>1, <1>4, Zenon
    <2>2. Described(p) = {<<"POST", "Logout">>}
      BY <1>2, <1>4, Zenon
    <2> QED BY <2>1, <2>2, Offers
  <1>5. CASE IsTop(p, "events")
    <2>1. Route(p) = Node([GET |-> "GetEvents", POST |-> "CreateEvent"], <<>>)
      BY <1>1, <1>5, Zenon
    <2>2. Described(p) = {<<"GET", "GetEvents">>, <<"POST", "CreateEvent">>}
      BY <1>2, <1>5, Zenon
    <2> QED BY <2>1, <2>2, Offers
  <1>6. CASE IsOne(p, "events")
    <2>1. Route(p) = Node([GET |-> "GetEvent", PATCH |-> "PatchEvent"], <<id>>)
      BY <1>1, <1>6, Zenon
    <2>2. Described(p) = {<<"GET", "GetEvent">>, <<"PATCH", "PatchEvent">>}
      BY <1>2, <1>6, Zenon
    <2> QED BY <2>1, <2>2, Offers
  <1>7. CASE IsPart(p, "events", "like")
    <2>1. Route(p) = Node([POST |-> "LikeEvent"], <<id>>)
      BY <1>1, <1>7, Zenon
    <2>2. Described(p) = {<<"POST", "LikeEvent">>}
      BY <1>2, <1>7, Zenon
    <2> QED BY <2>1, <2>2, Offers
  <1>8. CASE IsPart(p, "events", "dislike")
    <2>1. Route(p) = Node([POST |-> "DislikeEvent"], <<id>>)
      BY <1>1, <1>8, Zenon
    <2>2. Described(p) = {<<"POST", "DislikeEvent">>}
      BY <1>2, <1>8, Zenon
    <2> QED BY <2>1, <2>2, Offers
  <1>9. CASE IsPart(p, "events", "reviews")
    <2>1. Route(p) =
            Node([GET |-> "GetEventReviews", POST |-> "CreateEventReview"], <<id>>)
      BY <1>1, <1>9, Zenon
    <2>2. Described(p) = {<<"GET", "GetEventReviews">>, <<"POST", "CreateEventReview">>}
      BY <1>2, <1>9, Zenon
    <2> QED BY <2>1, <2>2, Offers
  <1>10. CASE IsReview(p)
    <2>1. Route(p) =
            Node([PATCH |-> "UpdateEventReview"], <<id, First(More(More(More(p))))>>)
      BY <1>1, <1>10, Zenon
    <2>2. Described(p) = {<<"PATCH", "UpdateEventReview">>}
      BY <1>2, <1>10, Zenon
    <2> QED BY <2>1, <2>2, Offers
  <1>11. CASE IsTop(p, "health")
    <2>1. Route(p) = Node([GET |-> "Health"], <<>>)
      BY <1>1, <1>11, Zenon
    <2>2. Described(p) = {<<"GET", "Health">>}
      BY <1>2, <1>11, Zenon
    <2> QED BY <2>1, <2>2, Offers
  <1>12. CASE IsTop(p, "recommendations")
    <2>1. Route(p) = Node([GET |-> "GetRecommendations"], <<>>)
      BY <1>1, <1>12, Zenon
    <2>2. Described(p) = {<<"GET", "GetRecommendations">>}
      BY <1>2, <1>12, Zenon
    <2> QED BY <2>1, <2>2, Offers
  <1>13. CASE IsTop(p, "session")
    <2>1. Route(p) = Node([POST |-> "Session"], <<>>)
      BY <1>1, <1>13, Zenon
    <2>2. Described(p) = {<<"POST", "Session">>}
      BY <1>2, <1>13, Zenon
    <2> QED BY <2>1, <2>2, Offers
  <1>14. CASE IsTop(p, "users")
    <2>1. Route(p) = Node([GET |-> "GetUsers", POST |-> "Register"], <<>>)
      BY <1>1, <1>14, Zenon
    <2>2. Described(p) = {<<"GET", "GetUsers">>, <<"POST", "Register">>}
      BY <1>2, <1>14, Zenon
    <2> QED BY <2>1, <2>2, Offers
  <1>15. CASE IsOne(p, "users")
    <2>1. Route(p) = Node([GET |-> "GetUser"], <<id>>)
      BY <1>1, <1>15, Zenon
    <2>2. Described(p) = {<<"GET", "GetUser">>}
      BY <1>2, <1>15, Zenon
    <2> QED BY <2>1, <2>2, Offers
  <1>16. CASE IsPart(p, "users", "events")
    <2>1. Route(p) = Node([GET |-> "GetUserEvents"], <<id>>)
      BY <1>1, <1>16, Zenon
    <2>2. Described(p) = {<<"GET", "GetUserEvents">>}
      BY <1>2, <1>16, Zenon
    <2> QED BY <2>1, <2>2, Offers
  <1>17. CASE Route(p) = NoNode /\ Described(p) = {}
    BY <1>17, Offers
  <1> QED BY <1>1, <1>2, <1>3, <1>4, <1>5, <1>6, <1>7, <1>8, <1>9, <1>10, <1>11, <1>12,
             <1>13, <1>14, <1>15, <1>16, <1>17, Zenon

(* The parameters of a node are the segments a template leaves open.       *)
Filled(template, args, segments) ==
  LET open == {k \in 1..Len(template) : template[k] = Open}
  IN  /\ Len(args) = Cardinality(open)
      /\ \A k \in open : args[Cardinality(open \cap 1..k)] = segments[k]

(* Which segments the templates of each shape leave open.                  *)
LEMMA Fills ==
  ASSUME NEW segments
  PROVE  /\ \A a : a # Open => Filled(<<a>>, <<>>, segments)
         /\ \A a, b : a # Open /\ b # Open => Filled(<<a, b>>, <<>>, segments)
         /\ \A a : a # Open => Filled(<<a, Open>>, <<segments[2]>>, segments)
         /\ \A a, c : a # Open /\ c # Open =>
              Filled(<<a, Open, c>>, <<segments[2]>>, segments)
         /\ \A a, c : a # Open /\ c # Open =>
              Filled(<<a, Open, c, Open>>, <<segments[2], segments[4]>>, segments)
  <1>1. Cardinality({}) = 0 /\ \A e : Cardinality({e}) = 1
    BY FS_EmptySet, FS_Singleton
  <1>2. Cardinality({2, 4}) = 2
    <2>1. Cardinality({4} \cup {2}) = 1 + 1
      <3>1. IsFiniteSet({4}) /\ Cardinality({4}) = 1
        BY FS_Singleton, Zenon
      <3>2. 2 \notin {4}
        OBVIOUS
      <3> QED BY <3>1, <3>2, FS_AddElement
    <2>2. {4} \cup {2} = {2, 4}
      OBVIOUS
    <2> QED BY <2>1, <2>2
  <1>3. ASSUME NEW a, a # Open
        PROVE  Filled(<<a>>, <<>>, segments)
    <2>1. {k \in 1..Len(<<a>>) : <<a>>[k] = Open} = {}
      BY <1>3
    <2> QED BY <1>1, <2>1 DEF Filled
  <1>4. ASSUME NEW a, NEW b, a # Open, b # Open
        PROVE  Filled(<<a, b>>, <<>>, segments)
    <2>1. {k \in 1..Len(<<a, b>>) : <<a, b>>[k] = Open} = {}
      BY <1>4
    <2> QED BY <1>1, <2>1 DEF Filled
  <1>5. {2} \cap 1..2 = {2} /\ {2, 4} \cap 1..2 = {2} /\ {2, 4} \cap 1..4 = {2, 4}
    OBVIOUS
  <1>6. \A g : /\ Len(<<segments[2], g>>) = 2 /\ <<segments[2], g>>[1] = segments[2]
               /\ <<segments[2], g>>[2] = g
               /\ Len(<<segments[2]>>) = 1 /\ <<segments[2]>>[1] = segments[2]
    OBVIOUS
  <1>7. ASSUME NEW template, Len(template) \in Nat, Len(template) >= 2,
               \A k \in 1..Len(template) : template[k] = Open <=> k = 2
        PROVE  Filled(template, <<segments[2]>>, segments)
    <2> DEFINE open == {k \in 1..Len(template) : template[k] = Open}
    <2>1. open = {2}
      BY <1>7
    <2> HIDE DEF open
    <2>2. Len(<<segments[2]>>) = Cardinality(open)
      BY <1>1, <1>6, <2>1
    <2>3. Cardinality(open \cap 1..2) = 1
      BY <1>1, <1>5, <2>1
    <2>4. <<segments[2]>>[Cardinality(open \cap 1..2)] = segments[2]
      BY <1>6, <2>3
    <2>5. \A k \in open : <<segments[2]>>[Cardinality(open \cap 1..k)] = segments[k]
      BY <2>1, <2>4
    <2> QED BY <2>2, <2>5 DEF Filled, open
  <1>8. ASSUME NEW a, a # Open
        PROVE  Filled(<<a, Open>>, <<segments[2]>>, segments)
    <2> DEFINE template == <<a, Open>>
    <2>1. /\ Len(template) \in Nat /\ Len(template) >= 2
          /\ \A k \in 1..Len(template) : template[k] = Open <=> k = 2
      BY <1>8
    <2> HIDE DEF template
    <2>2. Filled(template, <<segments[2]>>, segments)
      BY <1>7, <2>1, Zenon
    <2> QED BY <2>2 DEF template
  <1>9. ASSUME NEW a, NEW c, a # Open, c # Open
        PROVE  Filled(<<a, Open, c>>, <<segments[2]>>, segments)
    <2> DEFINE template == <<a, Open, c>>
    <2>1. /\ Len(template) \in Nat /\ Len(template) >= 2
          /\ \A k \in 1..Len(template) : template[k] = Open <=> k = 2
      BY <1>9
    <2> HIDE DEF template
    <2>2. Filled(template, <<segments[2]>>, segments)
      BY <1>7, <2>1, Zenon
    <2> QED BY <2>2 DEF template
  <1>10. ASSUME NEW a, NEW c, a # Open, c # Open
         PROVE  Filled(<<a, Open, c, Open>>, <<segments[2], segments[4]>>, segments)
    <2> DEFINE template == <<a, Open, c, Open>>
               args == <<segments[2], segments[4]>>
               open == {k \in 1..Len(template) : template[k] = Open}
    <2>1. open = {2, 4}
      BY <1>10
    <2>2. Len(args) = 2 /\ args[1] = segments[2] /\ args[2] = segments[4]
      OBVIOUS
    <2> HIDE DEF open, args
    <2>3. Len(args) = Cardinality(open)
      BY <1>2, <2>1, <2>2
    <2>4. args[Cardinality(open \cap 1..2)] = segments[2]
      BY <1>1, <1>5, <2>1, <2>2
    <2>5. args[Cardinality(open \cap 1..4)] = segments[4]
      BY <1>2, <1>5, <2>1, <2>2
    <2>6. \A k \in open : args[Cardinality(open \cap 1..k)] = segments[k]
      BY <2>1, <2>4, <2>5
    <2> QED BY <2>3, <2>6 DEF Filled, open, args
  <1> QED BY <1>3, <1>4, <1>8, <1>9, <1>10

(* Which segments of a path these are.                                     *)
LEMMA Located ==
  ASSUME NEW p \in Seq(STRING), Starts(p), More(p) # <<>>
  PROVE  /\ Segments(p)[2] = First(More(p))
         /\ More(More(p)) # <<>> /\ More(More(More(p))) # <<>> =>
              Segments(p)[4] = First(More(More(More(p))))
  <1> DEFINE r == More(p)  m == More(r)  w == More(m)
             S == Segments(p)  T == Segments(r)  U == Segments(m)  W == Segments(w)
  <1>1. /\ Len(T) \in Nat /\ (Len(T) = 0 <=> r = <<>>)
        /\ \A k \in 1 .. Len(T) : S[k + 1] = T[k]
        /\ r \in Seq(STRING) /\ Starts(r)
    BY Segmented
  <1>2. /\ Len(U) \in Nat /\ (Len(U) = 0 <=> m = <<>>)
        /\ Len(T) = Len(U) + 1 /\ T[1] = First(r)
        /\ \A k \in 1 .. Len(U) : T[k + 1] = U[k]
        /\ m \in Seq(STRING) /\ (m # <<>> => Starts(m))
    BY <1>1, Segmented
  <1>3. m # <<>> =>
          /\ Len(W) \in Nat /\ (Len(W) = 0 <=> w = <<>>)
          /\ Len(U) = Len(W) + 1
          /\ \A k \in 1 .. Len(W) : U[k + 1] = W[k]
          /\ w \in Seq(STRING) /\ (w # <<>> => Starts(w))
    BY <1>2, Segmented
  <1>4. m # <<>> /\ w # <<>> => W[1] = First(w)
    BY <1>3, Segmented
  <1> HIDE DEF r, m, w, S, T, U, W
  <1>5. S[2] = First(r)
    <2>1. S[1 + 1] = T[1]
      BY <1>1, <1>2
    <2> QED BY <1>2, <2>1
  <1>6. ASSUME m # <<>>, w # <<>>
        PROVE  S[4] = First(w)
    <2>1. Len(W) >= 1 /\ Len(U) >= 2 /\ Len(T) >= 3
      BY <1>2, <1>3, <1>6
    <2>2. U[1 + 1] = W[1]
      BY <1>3, <1>6, <2>1
    <2>3. T[2 + 1] = U[2]
      BY <1>2, <2>1
    <2>4. S[3 + 1] = T[3]
      BY <1>1, <2>1
    <2> QED BY <1>4, <1>6, <2>2, <2>3, <2>4
  <1> QED BY <1>5, <1>6 DEF r, m, w, S

(* The parameters the tree cuts out are the open segments of the template. *)
LEMMA FilledAsDescribed ==
  ASSUME NEW p \in Seq(STRING), Starts(p), NEW t \in Templates, Fits(p, t[3])
  PROVE  Filled(t[3], Route(p).args, Segments(p))
  <1> DEFINE id == First(More(p))  S == Segments(p)
  <1>1. \/ t[3] = <<<<"auth">>, <<"log", "in">>>>
        \/ t[3] = <<<<"auth">>, <<"log", "out">>>>
        \/ t[3] = <<<<"events">>>>
        \/ t[3] = <<<<"events">>, Open>>
        \/ t[3] = <<<<"events">>, Open, <<"like">>>>
        \/ t[3] = <<<<"events">>, Open, <<"dislike">>>>
        \/ t[3] = <<<<"events">>, Open, <<"reviews">>>>
        \/ t[3] = <<<<"events">>, Open, <<"reviews">>, Open>>
        \/ t[3] = <<<<"health">>>>
        \/ t[3] = <<<<"recommendations">>>>
        \/ t[3] = <<<<"session">>>>
        \/ t[3] = <<<<"users">>>>
        \/ t[3] = <<<<"users">>, Open>>
        \/ t[3] = <<<<"users">>, Open, <<"events">>>>
    BY DEF Templates
  <1>2. /\ IsLog(p, "in") => Route(p).args = <<>>
        /\ IsLog(p, "out") => Route(p).args = <<>>
        /\ IsTop(p, "events") => Route(p).args = <<>>
        /\ IsOne(p, "events") => Route(p).args = <<id>>
        /\ IsPart(p, "events", "like") => Route(p).args = <<id>>
        /\ IsPart(p, "events", "dislike") => Route(p).args = <<id>>
        /\ IsPart(p, "events", "reviews") => Route(p).args = <<id>>
        /\ IsReview(p) => Route(p).args = <<id, First(More(More(More(p))))>>
        /\ IsTop(p, "health") => Route(p).args = <<>>
        /\ IsTop(p, "recommendations") => Route(p).args = <<>>
        /\ IsTop(p, "session") => Route(p).args = <<>>
        /\ IsTop(p, "users") => Route(p).args = <<>>
        /\ IsOne(p, "users") => Route(p).args = <<id>>
        /\ IsPart(p, "users", "events") => Route(p).args = <<id>>
    <2> DEFINE node == Route(p)
    <2>1. /\ IsLog(p, "in") => node = Node([POST |-> "Login"], <<>>)
          /\ IsLog(p, "out") => node = Node([POST |-> "Logout"], <<>>)
          /\ IsTop(p, "events") =>
               node = Node([GET |-> "GetEvents", POST |-> "CreateEvent"], <<>>)
          /\ IsOne(p, "events") =>
               node = Node([GET |-> "GetEvent", PATCH |-> "PatchEvent"], <<id>>)
          /\ IsPart(p, "events", "like") => node = Node([POST |-> "LikeEvent"], <<id>>)
          /\ IsPart(p, "events", "dislike") =>
               node = Node([POST |-> "DislikeEvent"], <<id>>)
          /\ IsPart(p, "events", "reviews") =>
               node = Node([GET |-> "GetEventReviews", POST |-> "CreateEventReview"], <<id>>)
          /\ IsReview(p) => node = Node([PATCH |-> "UpdateEventReview"], <<id, First(More(More(More(p))))>>)
          /\ IsTop(p, "health") => node = Node([GET |-> "Health"], <<>>)
          /\ IsTop(p, "recommendations") =>
               node = Node([GET |-> "GetRecommendations"], <<>>)
          /\ IsTop(p, "session") => node = Node([POST |-> "Session"], <<>>)
          /\ IsTop(p, "users") =>
               node = Node([GET |-> "GetUsers", POST |-> "Register"], <<>>)
          /\ IsOne(p, "users") => node = Node([GET |-> "GetUser"], <<id>>)
          /\ IsPart(p, "users", "events") =>
               node = Node([GET |-> "GetUserEvents"], <<id>>)
      BY Reached, Zenon
    <2>2. \A ops, args : Node(ops, args).args = args
      BY DEF Node
    <2> HIDE DEF node, id
    <2>3. IsLog(p, "in") => node.args = <<>>
      BY <2>1, <2>2
    <2>4. IsLog(p, "out") => node.args = <<>>
      BY <2>1, <2>2
    <2>5. IsTop(p, "events") => node.args = <<>>
      BY <2>1, <2>2
    <2>6. IsOne(p, "events") => node.args = <<id>>
      BY <2>1, <2>2
    <2>7. IsPart(p, "events", "like") => node.args = <<id>>
      BY <2>1, <2>2
    <2>8. IsPart(p, "events", "dislike") => node.args = <<id>>
      BY <2>1, <2>2
    <2>9. IsPart(p, "events", "reviews") => node.args = <<id>>
      BY <2>1, <2>2
    <2>10. IsReview(p) => node.args = <<id, First(More(More(More(p))))>>
      BY <2>1, <2>2
    <2>11. IsTop(p, "health") => node.args = <<>>
      BY <2>1, <2>2
    <2>12. IsTop(p, "recommendations") => node.args = <<>>
      BY <2>1, <2>2
    <2>13. IsTop(p, "session") => node.args = <<>>
      BY <2>1, <2>2
    <2>14. IsTop(p, "users") => node.args = <<>>
      BY <2>1, <2>2
    <2>15. IsOne(p, "users") => node.args = <<id>>
      BY <2>1, <2>2
    <2>16. IsPart(p, "users", "events") => node.args = <<id>>
      BY <2>1, <2>2
    <2> QED BY <2>3, <2>4, <2>5, <2>6, <2>7, <2>8, <2>9, <2>10, <2>11, <2>12, <2>13,
               <2>14, <2>15, <2>16, Zenon DEF node, id
  <1>4. /\ \A w : Fits(p, <<<<"auth">>, <<"log", w>>>>) <=> IsLog(p, w)
        /\ \A w : w # "{}" => (Fits(p, <<<<w>>>>) <=> IsTop(p, w))
        /\ \A w : w # "{}" => (Fits(p, <<<<w>>, Open>>) <=> IsOne(p, w))
        /\ \A w, v : w # "{}" /\ v # "{}" =>
             (Fits(p, <<<<w>>, Open, <<v>>>>) <=> IsPart(p, w, v))
        /\ Fits(p, <<<<"events">>, Open, <<"reviews">>, Open>>) <=> IsReview(p)
    BY Templated
  <1>5. /\ \A w : IsOne(p, w) => id = S[2]
        /\ \A w, v : IsPart(p, w, v) => id = S[2]
        /\ IsReview(p) => id = S[2] /\ First(More(More(More(p)))) = S[4]
    BY Located DEF IsOne, IsPart, IsReview, Under
  <1>6. /\ \A a : a # Open => Filled(<<a>>, <<>>, S)
        /\ \A a, b : a # Open /\ b # Open => Filled(<<a, b>>, <<>>, S)
        /\ \A a : a # Open => Filled(<<a, Open>>, <<S[2]>>, S)
        /\ \A a, c : a # Open /\ c # Open => Filled(<<a, Open, c>>, <<S[2]>>, S)
        /\ \A a, c : a # Open /\ c # Open =>
             Filled(<<a, Open, c, Open>>, <<S[2], S[4]>>, S)
    BY Fills
  <1>7. /\ \A w : w # "{}" => <<w>> # Open
        /\ \A w : <<"log", w>> # Open
    BY DEF Open
  <1> HIDE DEF id, S
  <1>8. CASE t[3] = <<<<"auth">>, <<"log", "in">>>>
    <2>1. IsLog(p, "in")
      BY <1>4, <1>8
    <2>2. Route(p).args = <<>>
      BY <1>2, <1>5, <2>1
    <2>3. Filled(<<<<"auth">>, <<"log", "in">>>>, <<>>, S)
      BY <1>6, <1>7
    <2> QED BY <1>8, <2>2, <2>3, Zenon DEF S
  <1>9. CASE t[3] = <<<<"auth">>, <<"log", "out">>>>
    <2>1. IsLog(p, "out")
      BY <1>4, <1>9
    <2>2. Route(p).args = <<>>
      BY <1>2, <1>5, <2>1
    <2>3. Filled(<<<<"auth">>, <<"log", "out">>>>, <<>>, S)
      BY <1>6, <1>7
    <2> QED BY <1>9, <2>2, <2>3, Zenon DEF S
  <1>10. CASE t[3] = <<<<"events">>>>
    <2>1. IsTop(p, "events")
      BY <1>4, <1>10
    <2>2. Route(p).args = <<>>
      BY <1>2, <1>5, <2>1
    <2>3. Filled(<<<<"events">>>>, <<>>, S)
      BY <1>6, <1>7
    <2> QED BY <1>10, <2>2, <2>3, Zenon DEF S
  <1>11. CASE t[3] = <<<<"events">>, Open>>
    <2>1. IsOne(p, "events")
      BY <1>4, <1>11
    <2>2. Route(p).args = <<S[2]>>
      BY <1>2, <1>5, <2>1
    <2>3. Filled(<<<<"events">>, Open>>, <<S[2]>>, S)
      BY <1>6, <1>7
    <2> QED BY <1>11, <2>2, <2>3, Zenon DEF S
  <1>12. CASE t[3] = <<<<"events">>, Open, <<"like">>>>
    <2>1. IsPart(p, "events", "like")
      BY <1>4, <1>12
    <2>2. Route(p).args = <<S[2]>>
      BY <1>2, <1>5, <2>1
    <2>3. Filled(<<<<"events">>, Open, <<"like">>>>, <<S[2]>>, S)
      BY <1>6, <1>7
    <2> QED BY <1>12, <2>2, <2>3, Zenon DEF S
  <1>13. CASE t[3] = <<<<"events">>, Open, <<"dislike">>>>
    <2>1. IsPart(p, "events", "dislike")
      BY <1>4, <1>13
    <2>2. Route(p).args = <<S[2]>>
      BY <1>2, <1>5, <2>1
    <2>3. Filled(<<<<"events">>, Open, <<"dislike">>>>, <<S[2]>>, S)
      BY <1>6, <1>7
    <2> QED BY <1>13, <2>2, <2>3, Zenon DEF S
  <1>14. CASE t[3] = <<<<"events">>, Open, <<"reviews">>>>
    <2>1. IsPart(p, "events", "reviews")
      BY <1>4, <1>14
    <2>2. Route(p).args = <<S[2]>>
      BY <1>2, <1>5, <2>1
    <2>3. Filled(<<<<"events">>, Open, <<"reviews">>>>, <<S[2]>>, S)
      BY <1>6, <1>7
    <2> QED BY <1>14, <2>2, <2>3, Zenon DEF S
  <1>15. CASE t[3] = <<<<"events">>, Open, <<"reviews">>, Open>>
    <2>1. IsReview(p)
      BY <1>4, <1>15
    <2>2. Route(p).args = <<S[2], S[4]>>
      BY <1>2, <1>5, <2>1
    <2>3. Filled(<<<<"events">>, Open, <<"reviews">>, Open>>, <<S[2], S[4]>>, S)
      BY <1>6, <1>7
    <2> QED BY <1>15, <2>2, <2>3, Zenon DEF S
  <1>16. CASE t[3] = <<<<"health">>>>
    <2>1. IsTop(p, "health")
      BY <1>4, <1>16
    <2>2. Route(p).args = <<>>
      BY <1>2, <1>5, <2>1
    <2>3. Filled(<<<<"health">>>>, <<>>, S)
      BY <1>6, <1>7
    <2> QED BY <1>16, <2>2, <2>3, Zenon DEF S
  <1>17. CASE t[3] = <<<<"recommendations">>>>
    <2>1. IsTop(p, "recommendations")
      BY <1>4, <1>17
    <2>2. Route(p).args = <<>>
      BY <1>2, <1>5, <2>1
    <2>3. Filled(<<<<"recommendations">>>>, <<>>, S)
      BY <1>6, <1>7
    <2> QED BY <1>17, <2>2, <2>3, Zenon DEF S
  <1>18. CASE t[3] = <<<<"session">>>>
    <2>1. IsTop(p, "session")
      BY <1>4, <1>18
    <2>2. Route(p).args = <<>>
      BY <1>2, <1>5, <2>1
    <2>3. Filled(<<<<"session">>>>, <<>>, S)
      BY <1>6, <1>7
    <2> QED BY <1>18, <2>2, <2>3, Zenon DEF S
  <1>19. CASE t[3] = <<<<"users">>>>
    <2>1. IsTop(p, "users")
      BY <1>4, <1>19
    <2>2. Route(p).args = <<>>
      BY <1>2, <1>5, <2>1
    <2>3. Filled(<<<<"users">>>>, <<>>, S)
      BY <1>6, <1>7
    <2> QED BY <1>19, <2>2, <2>3, Zenon DEF S
  <1>20. CASE t[3] = <<<<"users">>, Open>>
    <2>1. IsOne(p, "users")
      BY <1>4, <1>20
    <2>2. Route(p).args = <<S[2]>>
      BY <1>2, <1>5, <2>1
    <2>3. Filled(<<<<"users">>, Open>>, <<S[2]>>, S)
      BY <1>6, <1>7
    <2> QED BY <1>20, <2>2, <2>3, Zenon DEF S
  <1>21. CASE t[3] = <<<<"users">>, Open, <<"events">>>>
    <2>1. IsPart(p, "users", "events")
      BY <1>4, <1>21
    <2>2. Route(p).args = <<S[2]>>
      BY <1>2, <1>5, <2>1
    <2>3. Filled(<<<<"users">>, Open, <<"events">>>>, <<S[2]>>, S)
      BY <1>6, <1>7
    <2> QED BY <1>21, <2>2, <2>3, Zenon DEF S
  <1> QED BY <1>1, <1>8, <1>9, <1>10, <1>11, <1>12, <1>13, <1>14, <1>15, <1>16, <1>17,
             <1>18, <1>19, <1>20, <1>21, Zenon

(* A page of the documentation, whose paths begin with /api/.              *)
LEMMA DocsUndescribed ==
  ASSUME NEW p \in Seq(STRING), NEW method, IsDocsPage(p, method)
  PROVE  Described(p) = {}
  <1> DEFINE trimmed == IF p # <<>> /\ Last(p) = "/" THEN Front(p) ELSE p
  <1>1. trimmed \in DocsPages
    BY DEF IsDocsPage
  <1>2. Len(trimmed) >= 4 /\ trimmed[1] = "/" /\ trimmed[2] = "api" /\ trimmed[3] = "/"
    <2> DEFINE Api(page) == Len(page) >= 4 /\ page[1] =
      "/" /\ page[2] = "api" /\ page[3] = "/"
    <2>1. /\ Api(<<"/", "api", "/", "docs">>) /\ Api(<<"/", "api", "/", "swagger">>)
          /\ Api(<<"/", "api", "/", "docs", "/", "openapi.yaml">>)
          /\ Api(<<"/", "api", "/", "swagger", "/", "openapi.yaml">>)
      OBVIOUS
    <2> HIDE DEF trimmed, Api
    <2>2. Api(trimmed)
      BY <1>1, <2>1, Zenon DEF DocsPages
    <2> QED BY <2>2 DEF Api
  <1>3. Len(p) \in Nat /\ (p = <<>> <=> Len(p) = 0)
    BY LenProperties, EmptySeq
  <1>4. Len(p) >= 4 /\ p[1] = "/" /\ p[2] = "api" /\ p[3] = "/"
    <2>1. CASE trimmed = p
      <3> HIDE DEF trimmed
      <3> QED BY <1>2, <2>1
    <2>2. CASE p # <<>> /\ trimmed = Front(p)
      <3>1. \A i \in 1 .. Len(p) - 1 : p[i] \in STRING
        BY <1>3, ElementOfSeq
      <3>2. /\ Len(SubSeq(p, 1, Len(p) - 1)) =
                 IF 1 <= Len(p) - 1 THEN Len(p) - 1 - 1 + 1 ELSE 0
            /\ \A i \in 1 .. Len(p) - 1 - 1 + 1 : SubSeq(p, 1, Len(p) - 1)[i] =
                 p[1 + i - 1]
        BY <1>3, <2>2, <3>1, SubSeqProperties
      <3>3. trimmed = SubSeq(p, 1, Len(p) - 1)
        BY <2>2, Zenon DEF Front
      <3> HIDE DEF trimmed
      <3>4. Len(p) >= 5
        BY <1>2, <1>3, <3>2, <3>3
      <3>5. \A i \in 1 .. 3 : trimmed[i] = p[i]
        BY <1>3, <3>2, <3>3, <3>4
      <3> QED BY <1>2, <3>4, <3>5
    <2> QED BY <2>1, <2>2
  <1>5. Starts(p)
    BY <1>3, <1>4 DEF Starts
  <1>6. First(p) = <<"api">>
    BY <1>4, <1>5, Headed DEF Under
  <1>7. /\ \A w : IsTop(p, w) \/ IsOne(p, w) => First(p) = <<w>>
        /\ \A w, v : IsPart(p, w, v) => First(p) = <<w>>
        /\ \A w : IsLog(p, w) => First(p) = <<"auth">>
        /\ IsReview(p) => First(p) = <<"events">>
    BY DEF IsTop, IsOne, IsPart, IsLog, IsReview, Is, Under
  <1>8. \A w : <<"api">> = <<w>> => w = "api"
    OBVIOUS
  <1>9. \/ IsLog(p, "in")
        \/ IsLog(p, "out")
        \/ IsTop(p, "events")
        \/ IsOne(p, "events")
        \/ IsPart(p, "events", "like")
        \/ IsPart(p, "events", "dislike")
        \/ IsPart(p, "events", "reviews")
        \/ IsReview(p)
        \/ IsTop(p, "health")
        \/ IsTop(p, "recommendations")
        \/ IsTop(p, "session")
        \/ IsTop(p, "users")
        \/ IsOne(p, "users")
        \/ IsPart(p, "users", "events")
        \/ Described(p) = {}
    BY <1>5, OneKind, Zenon
  <1> HIDE DEF trimmed
  <1> QED BY <1>6, <1>7, <1>8, <1>9

(* The tree of the code and the templates of the description agree on a    *)
(* path, whatever it is, and no documentation page is a described path.    *)
LEMMA Agreed ==
  ASSUME NEW p \in Seq(STRING)
  PROVE  /\ RoutesAsDescribed(p)
         /\ \A method : IsDocsPage(p, method) => Described(p) = {}
  <1>1. \A method : IsDocsPage(p, method) => Described(p) = {}
    BY DocsUndescribed
  <1>2. CASE Starts(p)
    <2>1. Offered(Route(p)) = Described(p)
      BY <1>2, OfferedAsDescribed
    <2>2. \A t \in Templates : Fits(p, t[3]) => Filled(t[3], Route(p).args, Segments(p))
      BY <1>2, FilledAsDescribed
    <2>3. RoutesAsDescribed(p)
      BY <2>1, <2>2, Zenon DEF RoutesAsDescribed, Offered, Filled
    <2> QED BY <1>1, <2>3
  <1>3. CASE ~Starts(p)
    <2>1. Described(p) = {} /\ \A t : ~Fits(p, t)
      BY <1>3 DEF Described, Fits, Starts
    <2>2. \A w, v, z : ~IsPrefix(<<"/", w>>, p) /\ p # <<"/", w>> /\ ~IsPrefix(<<"/", w, v, z>>, p)
      <3> TAKE w, v, z
      <3> DEFINE two == <<"/", w>>  four == <<"/", w, v, z>>
      <3>1. /\ two \in Seq({"/", w}) /\ Len(two) = 2 /\ two[1] = "/" /\ two # <<>>
            /\ four \in Seq({"/", w, v, z}) /\ Len(four) =
                 4 /\ four[1] = "/" /\ four # <<>>
        OBVIOUS
      <3>2. Len(p) \in Nat /\ (p = <<>> <=> Len(p) = 0)
        BY LenProperties, EmptySeq
      <3>3. ~(Len(p) >= 1 /\ p[1] = "/")
        BY <1>3, <3>2 DEF Starts
      <3> HIDE DEF two, four
      <3>4. IsPrefix(two, p) <=>
              Len(two) <= Len(p) /\ \A i \in 1 .. Len(two) : two[i] = p[i]
        BY <3>1, Prefixed
      <3>5. IsPrefix(four, p) <=>
              Len(four) <= Len(p) /\ \A i \in 1 .. Len(four) : four[i] = p[i]
        BY <3>1, Prefixed
      <3>6. ~IsPrefix(two, p) /\ ~IsPrefix(four, p) /\ p # two
        BY <3>1, <3>2, <3>3, <3>4, <3>5
      <3> QED BY <3>6 DEF two, four
    <2>3. Route(p) = NoNode
      BY <2>2 DEF Route
    <2>4. Offered(Route(p)) = {}
      BY <2>3, Offers
    <2>5. RoutesAsDescribed(p)
      BY <2>1, <2>4, Zenon DEF RoutesAsDescribed, Offered
    <2> QED BY <1>1, <2>5
  <1> QED BY <1>2, <1>3
===============================================================================
