------------------------- MODULE RecommendationsProofs -------------------------
(***************************************************************************)
(* Proofs about Recommendations, for every set of users, spellings and     *)
(* requests, with and without faults.                                      *)
(*                                                                         *)
(* LikesReachGraph is not inductive alone: a transaction that commits adds *)
(* an edge only because its MERGE clauses bound at least one node of its   *)
(* user and one of its event, and nodes of nothing else (BindOK).  That a  *)
(* MERGE that creates a node finds a copy nobody holds needs a count: each *)
(* transaction holds at most one new copy of an id.                        *)
(*                                                                         *)
(* What the query returns (RecommendsFromLikes, OwnLikeHasCause) then      *)
(* follows from the graph and the likes alone.                             *)
(*                                                                         *)
(* The answered list is a computation on the query's rows: InOrder sorts a *)
(* finite set (InOrderSorts), and the score of a title is a sum over its   *)
(* events (Sums).                                                          *)
(***************************************************************************)
EXTENDS Recommendations, Sums, SequenceTheorems

Nodes == (Users \cup Names) \X Copies
Copied(id) == {id} \X Copies

PCs == {"idle", "merge user", "merge event", "commit", "get", "query", "load", "set"}

RowType == [id : Names, score : Nat]

RequestType ==
  [pc : PCs, user : Users \cup {None}, name : Names \cup {None},
   us : SUBSET Nodes, es : SUBSET Nodes, recs : Seq(RowType),
   loaded : SUBSET Names, list : Seq(Events)]

(* A request that serves somebody knows whom and what: a user that has an  *)
(* account, a name of an event that exists.                                *)
SlotOK(q, accs, evs) ==
  /\ q.pc = "idle" => q = Idle
  /\ q.pc \in {"merge user", "get", "query", "load", "set"} => q.user # None
  /\ q.pc = "merge event" => q.name # None
  /\ q.user # None => q.user \in accs
  /\ q.name # None => Denotes[q.name] \in evs
  /\ \A i \in DOMAIN q.recs : Denotes[q.recs[i].id] \in evs
  /\ Range(q.list) \subseteq evs

(* The nodes a transaction has bound are of its user and its event, and    *)
(* more than one only if the graph has nodes of that id already.           *)
Bound(id, held, nodes) ==
  /\ id = None => held = {}
  /\ held \subseteq Copied(id)
  /\ \A n, m \in held : n # m => \E x \in nodes : x[1] = id

BindOK(q, nodes) ==
  /\ Bound(q.user, q.us, nodes) /\ Bound(q.name, q.es, nodes)
  /\ q.pc = "merge user" => q.us = {}
  /\ q.pc \in {"merge user", "merge event"} => q.es = {}
  /\ q.pc \in {"merge event", "commit"} /\ q.user # None => q.us # {}
  /\ q.pc = "commit" /\ q.name # None => q.es # {}

RequestsOK ==
  /\ req \in [Requests -> RequestType]
  /\ \A r \in Requests : SlotOK(req[r], accounts, events) /\ BindOK(req[r], graph.nodes)

(* The graph holds finitely many nodes, each of a user or of an event that *)
(* is in the store.                                                        *)
GraphOK ==
  /\ IsFiniteSet(graph.nodes)
  /\ \A n \in graph.nodes : n[1] \in Names => Denotes[n[1]] \in events
  /\ graph.nodes \subseteq Nodes

CacheOK == cache \in [Users -> Seq(Events) \cup {None}]

Inv == TypeOK /\ RequestsOK /\ GraphOK /\ CacheOK /\ LikesReachGraph

-----------------------------------------------------------------------------
(* Sorting                                                                 *)

TotalOrder(S, before) ==
  /\ \A a \in S : <<a, a>> \notin before
  /\ \A a, b, c \in S : <<a, b>> \in before /\ <<b, c>> \in before => <<a, c>> \in before
  /\ \A a, b \in S : a # b => <<a, b>> \in before \/ <<b, a>> \in before

(* InOrder lists every element of a finite set once, in the given order:   *)
(* the element with k - 1 elements before it is the k-th.                  *)
LEMMA InOrderSorts ==
  ASSUME NEW S, IsFiniteSet(S), NEW before, TotalOrder(S, before)
  PROVE  LET s == InOrder(S, before)
             n == Cardinality(S)
         IN  /\ n \in Nat /\ s \in [1 .. n -> S]
             /\ \A a \in S : \E k \in 1 .. n : s[k] = a
             /\ \A i, j \in 1 .. n : i < j => s[i] # s[j] /\ <<s[i], s[j]>> \in before
  <1> DEFINE n == Cardinality(S)
             Before(a) == {b \in S : <<b, a>> \in before}
             rank == [a \in S |-> Cardinality(Before(a)) + 1]
             s == InOrder(S, before)
  <1>1. n \in Nat /\ \A a \in S : Cardinality(Before(a)) \in Nat /\ IsFiniteSet(Before(a))
    <2>1. \A a \in S : Before(a) \in SUBSET S
      OBVIOUS
    <2> HIDE DEF Before
    <2> QED BY <2>1, FS_Subset, FS_CardinalityType
  <1>2. ASSUME NEW a \in S PROVE Cardinality(Before(a)) < n
    <2>1. Before(a) \in SUBSET S /\ a \notin Before(a)
      BY DEF TotalOrder
    <2>2. Before(a) # S
      BY <2>1
    <2> HIDE DEF Before
    <2> QED BY <1>1, <2>1, <2>2, FS_Subset
  <1>3. ASSUME NEW a \in S, NEW b \in S, <<a, b>> \in before
        PROVE  Cardinality(Before(a)) < Cardinality(Before(b))
    <2>1. Before(a) \in SUBSET Before(b) /\ a \in Before(b) /\ a \notin Before(a)
      BY <1>3 DEF TotalOrder
    <2>2. Before(a) # Before(b)
      BY <2>1
    <2> HIDE DEF Before
    <2> QED BY <1>1, <2>1, <2>2, FS_Subset
  <1>4. \A a \in S : rank[a] = Cardinality(Before(a)) + 1 /\ rank[a] \in 1 .. n
    BY <1>1, <1>2
  <1>5. \A a, b \in S : <<a, b>> \in before => rank[a] < rank[b]
    <2> HIDE DEF Before
    <2> QED BY <1>1, <1>3
  <1>6. rank \in Injection(S, 1 .. n)
    <2>1. rank \in [S -> 1 .. n]
      BY <1>4
    <2>2. ASSUME NEW a \in S, NEW b \in S, a # b PROVE rank[a] # rank[b]
      <3>1. <<a, b>> \in before \/ <<b, a>> \in before
        BY <2>2 DEF TotalOrder
      <3>2. rank[a] \in Int /\ rank[b] \in Int
        BY <1>1, <1>4
      <3>3. rank[a] < rank[b] \/ rank[b] < rank[a]
        BY <1>5, <3>1
      <3> HIDE DEF rank
      <3> QED BY <3>2, <3>3
    <2> HIDE DEF rank
    <2> QED BY <2>1, <2>2 DEF Injection, IsInjective
  <1>7. \A k \in 1 .. n : \E a \in S : rank[a] = k
    <2>1. IsFiniteSet(1 .. n) /\ Cardinality(1 .. n) = n
      BY <1>1, FS_Interval
    <2>2. rank \in Surjection(S, 1 .. n)
      <3> HIDE DEF rank, n
      <3>1. n = Cardinality(S)
        BY DEF n
      <3> QED BY <1>6, <2>1, <3>1, FS_Injection
    <2> HIDE DEF rank
    <2> QED BY <2>2 DEF Surjection
  <1>8. /\ s = [k \in 1 .. n |-> CHOOSE a \in S : Cardinality(Before(a)) = k - 1]
    BY DEF InOrder
  <1>9. ASSUME NEW k \in 1 .. n PROVE s[k] \in S /\ rank[s[k]] = k
    <2>1. PICK a \in S : rank[a] = k
      BY <1>7
    <2>2. Cardinality(Before(a)) = k - 1
      BY <1>1, <1>4, <2>1
    <2>3. s[k] \in S /\ Cardinality(Before(s[k])) = k - 1
      <3> HIDE DEF Before, rank, n, s
      <3> QED BY <1>8, <2>2
    <2> HIDE DEF Before, rank, s
    <2> QED BY <1>1, <1>4, <2>3
  <1>10. s \in [1 .. n -> S]
    <2> HIDE DEF Before, n
    <2> QED BY <1>8, <1>9
  <1> HIDE DEF rank, s, n, Before
  <1>11. ASSUME NEW a \in S PROVE \E k \in 1 .. n : s[k] = a
    BY <1>4, <1>6, <1>9 DEF Injection, IsInjective
  <1>12. ASSUME NEW i \in 1 .. n, NEW j \in 1 .. n, i < j
         PROVE  s[i] # s[j] /\ <<s[i], s[j]>> \in before
    <2>1. s[i] \in S /\ s[j] \in S /\ rank[s[i]] = i /\ rank[s[j]] = j
      BY <1>9
    <2>2. i \in Int /\ j \in Int /\ ~(j < i)
      BY <1>1, <1>12
    <2>3. s[i] # s[j] /\ <<s[j], s[i]>> \notin before
      BY <1>5, <1>12, <2>1, <2>2
    <2> QED BY <2>1, <2>3 DEF TotalOrder
  <1> QED BY <1>1, <1>10, <1>11, <1>12 DEF s, n

LEMMA AscendingSorts ==
  ASSUME NEW S \in SUBSET Int, IsFiniteSet(S)
  PROVE  LET s == Ascending(S)
             n == Cardinality(S)
         IN  /\ n \in Nat /\ s \in [1 .. n -> S]
             /\ \A a \in S : \E k \in 1 .. n : s[k] = a
             /\ \A i, j \in 1 .. n : i < j => s[i] < s[j]
  <1> DEFINE less == {p \in S \X S : p[1] < p[2]}
  <1>1. TotalOrder(S, less)
    BY DEF TotalOrder
  <1>2. \A a, b \in S : <<a, b>> \in less => a < b
    OBVIOUS
  <1>3. Ascending(S) = InOrder(S, less)
    BY DEF Ascending
  <1> HIDE DEF less
  <1> DEFINE s == InOrder(S, less)
             n == Cardinality(S)
  <1>4. /\ n \in Nat /\ s \in [1 .. n -> S]
        /\ \A a \in S : \E k \in 1 .. n : s[k] = a
        /\ \A i, j \in 1 .. n : i < j => s[i] # s[j] /\ <<s[i], s[j]>> \in less
    BY <1>1, InOrderSorts, Zenon
  <1> HIDE DEF s, n
  <1>5. \A i, j \in 1 .. n : i < j => s[i] < s[j]
    BY <1>2, <1>4
  <1> QED BY <1>3, <1>4, <1>5, Zenon DEF s, n

-----------------------------------------------------------------------------
(* The nodes of a MERGE                                                    *)

LEMMA CopiedFinite == ASSUME NEW id PROVE IsFiniteSet(Copied(id)) /\ IsFiniteSet(Copies)
  <1>1. IsFiniteSet(Requests)
    BY ConstantsAssumption
  <1>2. Cardinality(Requests) \in Nat
    BY <1>1, FS_CardinalityType
  <1>3. IsFiniteSet(Copies)
    BY <1>2, FS_Interval DEF Copies
  <1>4. IsFiniteSet({id})
    BY FS_Singleton
  <1>5. IsFiniteSet({id} \X Copies)
    BY <1>3, <1>4, FS_Product
  <1> QED BY <1>3, <1>5 DEF Copied

(* A MERGE that creates a node of an id finds a copy that nobody holds:    *)
(* there are as many copies as requests, every other request holds at most *)
(* one of this id, and the request itself none.                            *)
LEMMA FreshIsFree ==
  ASSUME RequestsOK, NEW r \in Requests, NEW id, NodesOf(id) = {},
         \A n \in req[r].us \cup req[r].es : n[1] # id
  PROVE  Fresh(id) \in Copied(id)
  <1> DEFINE held(q) == req[q].us \cup req[q].es
             taken == [k \in Copies |-> CHOOSE q \in Requests : <<id, k>> \in held(q)]
  <1>1. ASSUME \A k \in Copies : \E q \in Requests : <<id, k>> \in held(q)
        PROVE  FALSE
    <2>1. IsFiniteSet(Requests) /\ IsFiniteSet(Copies) /\ Cardinality(Requests) \in Nat
      BY ConstantsAssumption, FS_CardinalityType, CopiedFinite
    <2>2. Cardinality(Copies) = Cardinality(Requests)
      BY <2>1, FS_Interval DEF Copies
    <2>3. IsFiniteSet(Requests \ {r}) /\ Cardinality(Requests \ {r}) = Cardinality(Requests) - 1
      BY <2>1, FS_RemoveElement
    <2>4. \A k \in Copies : taken[k] \in Requests /\ <<id, k>> \in held(taken[k])
      BY <1>1
    <2>5. taken \in [Copies -> Requests \ {r}]
      BY <2>4
    <2> HIDE DEF taken
    <2>6. PICK j \in Copies, k \in Copies : j # k /\ taken[j] = taken[k]
      <3>1. Cardinality(Requests \ {r}) < Cardinality(Copies)
        BY <2>1, <2>2, <2>3
      <3> QED BY <2>1, <2>3, <2>5, <3>1, FS_PigeonHole
    <2>7. PICK q \in Requests : q = taken[j]
      BY <2>4
    <2>8. <<id, j>> \in held(q) /\ <<id, k>> \in held(q)
      BY <2>4, <2>6, <2>7
    <2>9. /\ Bound(req[q].user, req[q].us, graph.nodes)
          /\ Bound(req[q].name, req[q].es, graph.nodes)
          /\ req[q].user \in Users \cup {None} /\ req[q].name \in Names \cup {None}
      BY DEF RequestsOK, BindOK, RequestType
    <2>10. \A x \in graph.nodes : x[1] # id
      BY DEF NodesOf
    <2>11. \/ <<id, j>> \in req[q].us /\ <<id, k>> \in req[q].us /\ req[q].user = id
           \/ <<id, j>> \in req[q].es /\ <<id, k>> \in req[q].es /\ req[q].name = id
      BY <2>8, <2>9, ConstantsAssumption DEF Bound, Copied
    <2> QED BY <2>6, <2>9, <2>10, <2>11 DEF Bound
  <1>2. PICK k \in Copies : <<id, k>> \notin graph.nodes
                            /\ \A q \in Requests : <<id, k>> \notin held(q)
    BY <1>1 DEF NodesOf
  <1> QED BY <1>2 DEF Fresh, Copied

LEMMA MergedBinds ==
  ASSUME RequestsOK, GraphOK, NEW r \in Requests, NEW id \in Users \cup Names,
         \A n \in req[r].us \cup req[r].es : n[1] # id
  PROVE  /\ Bound(id, Merged(id), graph.nodes) /\ Merged(id) # {}
         /\ Merged(id) \in SUBSET Nodes
  <1>1. id # None
    BY ConstantsAssumption
  <1>2. CASE NodesOf(id) = {}
    BY <1>1, <1>2, FreshIsFree DEF Merged, Bound, Copied, Nodes
  <1>3. CASE NodesOf(id) # {}
    <2>1. NodesOf(id) \subseteq Copied(id) /\ NodesOf(id) \subseteq Nodes
      BY DEF NodesOf, GraphOK, Copied, Nodes
    <2>2. \E x \in graph.nodes : x[1] = id
      BY <1>3 DEF NodesOf
    <2> QED BY <1>1, <1>3, <2>1, <2>2 DEF Merged, Bound
  <1> QED BY <1>2, <1>3

-----------------------------------------------------------------------------
(* The shape of a step                                                     *)

(* Slots of requests stay as they should when the stores and the graph     *)
(* grow.                                                                   *)
LEMMA SlotStays ==
  ASSUME NEW q \in RequestType, NEW A, NEW B, NEW E, NEW F, NEW M, NEW N,
         SlotOK(q, A, E), BindOK(q, M), A \subseteq B, E \subseteq F, M \subseteq N
  PROVE  SlotOK(q, B, F) /\ BindOK(q, N)
  <1>1. SlotOK(q, B, F)
    BY DEF SlotOK
  <1>2. ASSUME NEW id, NEW held, Bound(id, held, M) PROVE Bound(id, held, N)
    BY <1>2 DEF Bound
  <1>3. BindOK(q, N)
    BY <1>2 DEF BindOK
  <1> QED BY <1>1, <1>3

Merging(q, u, n) ==
  q.user = u /\ q.name = n /\ q.pc \in {"merge user", "merge event", "commit"}

(* A step that replaces one slot by z and lets stores and graph grow.      *)
Replaces(r, z) ==
  /\ req' = [req EXCEPT ![r] = z]
  /\ accounts \subseteq accounts' /\ events \subseteq events'
  /\ graph.nodes \subseteq graph'.nodes

LEMMA SlotInv ==
  ASSUME Inv, NEW r \in Requests, NEW z \in RequestType, Replaces(r, z),
         SlotOK(z, accounts', events'), BindOK(z, graph'.nodes)
  PROVE  /\ RequestsOK'
         /\ req'[r] = z /\ \A q \in Requests : q # r => req'[q] = req[q]
         /\ \A q \in Requests :
              /\ req'[q].pc \in PCs
              /\ req'[q].user \in Users \cup {None} /\ req'[q].name \in Names \cup {None}
              /\ Range(req'[q].list) \subseteq events'
  <1>1. /\ req' \in [Requests -> RequestType] /\ req \in [Requests -> RequestType]
        /\ req'[r] = z /\ \A q \in Requests : q # r => req'[q] = req[q]
    BY DEF Inv, RequestsOK, Replaces
  <1>2. ASSUME NEW q \in Requests
        PROVE  SlotOK(req'[q], accounts', events') /\ BindOK(req'[q], graph'.nodes)
    <2>1. CASE q = r
      BY <1>1, <2>1
    <2>2. CASE q # r
      <3>1. SlotOK(req[q], accounts, events) /\ BindOK(req[q], graph.nodes)
        BY DEF Inv, RequestsOK
      <3>2. req'[q] = req[q] /\ req[q] \in RequestType
        BY <1>1, <2>2
      <3> QED BY <3>1, <3>2, SlotStays DEF Replaces
    <2> QED BY <2>1, <2>2
  <1>3. RequestsOK'
    BY <1>1, <1>2 DEF RequestsOK
  <1>4. ASSUME NEW q \in Requests
        PROVE  /\ req'[q].pc \in PCs
               /\ req'[q].user \in Users \cup {None} /\ req'[q].name \in Names \cup {None}
               /\ Range(req'[q].list) \subseteq events'
    BY <1>1, <1>2 DEF RequestType, SlotOK
  <1> QED BY <1>1, <1>3, <1>4

(* A like that was on its way, or there, still is.                         *)
Reaches(l) ==
  \/ \E edge \in graph.edges : edge[1][1] = l[1] /\ edge[2][1] = l[2]
  \/ Pending(l[1], l[2])
  \/ l \in lost

LEMMA LikeStays ==
  ASSUME NEW r \in Requests, NEW z,
         req'[r] = z, \A q \in Requests : q # r => req'[q] = req[q],
         graph.edges \subseteq graph'.edges, lost \subseteq lost',
         NEW l, Reaches(l),
         Merging(req[r], l[1], l[2]) => Merging(z, l[1], l[2])
  PROVE  Reaches(l)'
  <1>1. CASE Pending(l[1], l[2])
    <2>1. PICK q \in Requests : Merging(req[q], l[1], l[2])
      BY <1>1 DEF Pending, Merging
    <2>2. Merging(req'[q], l[1], l[2])
      BY <2>1
    <2> QED BY <2>2 DEF Merging, Pending, Reaches
  <1> QED BY <1>1 DEF Reaches

LEMMA EmptyRange == Range(<<>>) = {}
  BY DEF Range

LEMMA EmptyDomain == \A i \in DOMAIN <<>> : FALSE
  OBVIOUS

LEMMA IdleOK ==
  ASSUME NEW A, NEW E, NEW N
  PROVE  Idle \in RequestType /\ SlotOK(Idle, A, E) /\ BindOK(Idle, N) /\ Idle.pc = "idle"
  <1>1. /\ Idle.pc = "idle" /\ Idle.user = None /\ Idle.name = None /\ Idle.us = {}
        /\ Idle.es = {} /\ Idle.recs = <<>> /\ Idle.loaded = {} /\ Idle.list = <<>>
    BY DEF Idle
  <1>2. Idle \in RequestType
    BY DEF Idle, RequestType, PCs
  <1>4. SlotOK(Idle, A, E)
    <2> HIDE DEF Idle
    <2> QED BY <1>1, EmptyRange DEF SlotOK
  <1>5. BindOK(Idle, N)
    <2> HIDE DEF Idle
    <2> QED BY <1>1 DEF BindOK, Bound
  <1> QED BY <1>1, <1>2, <1>4, <1>5

-----------------------------------------------------------------------------
(* One lemma per action                                                    *)

LEMMA InitInv == Init => Inv
  <1> SUFFICES ASSUME Init PROVE Inv
    OBVIOUS
  <1>1. PICK likes \in SUBSET (OldUsers \X OldNames) : rows = likes /\ graph = Old(likes)
    BY DEF Init
  <1>2. /\ graph.nodes = (OldUsers \cup OldEvents \cup {l[2] : l \in likes}) \X {1}
        /\ graph.edges = {<<<<l[1], 1>>, <<l[2], 1>>>> : l \in likes}
    BY <1>1 DEF Old
  <1>3. 1 \in Copies
    <2>1. IsFiniteSet(Requests) /\ Requests # {}
      BY ConstantsAssumption
    <2>2. Cardinality(Requests) \in Nat /\ Cardinality(Requests) # 0
      BY <2>1, FS_CardinalityType, FS_EmptySet
    <2> QED BY <2>2 DEF Copies
  <1>4. /\ OldUsers \subseteq Users /\ OldEvents \subseteq Names /\ OldNames \subseteq Names
        /\ {l[2] : l \in likes} \subseteq OldNames /\ Users \cap Names = {}
        /\ accounts = OldUsers /\ events = OldEvents /\ OldEvents \subseteq Events
        /\ \A r \in Requests : req[r] = Idle
        /\ \A u \in Users : cache[u] = None
        /\ cache \in [Users -> Seq(Events) \cup {None}]
        /\ made = 0 /\ lost = {} /\ MaxWrites \in Nat
    BY ConstantsAssumption DEF Init
  <1>5. GraphOK
    <2>1. IsFiniteSet(graph.nodes)
      <3>1. IsFiniteSet(OldUsers) /\ IsFiniteSet(OldEvents) /\ IsFiniteSet(OldNames)
        BY ConstantsAssumption
      <3>2. IsFiniteSet({l[2] : l \in likes})
        BY <1>4, <3>1, FS_Subset
      <3>3. IsFiniteSet(OldUsers \cup OldEvents \cup {l[2] : l \in likes})
        BY <3>1, <3>2, FS_Union
      <3>4. IsFiniteSet({1})
        BY FS_Singleton
      <3>5. IsFiniteSet((OldUsers \cup OldEvents \cup {l[2] : l \in likes}) \X {1})
        BY <3>3, <3>4, FS_Product
      <3> QED BY <1>2, <3>5, Zenon
    <2>2. graph.nodes \subseteq Nodes
      BY <1>2, <1>3, <1>4 DEF Nodes
    <2>3. \A n \in graph.nodes : n[1] \in OldUsers \cup OldEvents \cup OldNames
      BY <1>2, <1>4
    <2>4. \A n \in OldNames \cup OldEvents : Denotes[n] \in events
      BY <1>4, ConstantsAssumption
    <2> QED BY <1>4, <2>1, <2>2, <2>3, <2>4 DEF GraphOK
  <1>6. TypeOK
    <2>1. rows \subseteq accounts \X Names
      BY <1>1, <1>4
    <2>2. graph.edges \subseteq UserNodes \X (graph.nodes \ UserNodes)
      <3> SUFFICES ASSUME NEW l \in likes
                   PROVE  <<l[1], 1>> \in UserNodes /\ <<l[2], 1>> \in graph.nodes \ UserNodes
        BY <1>2
      <3> QED BY <1>2, <1>4 DEF UserNodes
    <2>3. \A r \in Requests :
            /\ req[r].pc = "idle" /\ req[r].user = None /\ req[r].name = None
            /\ Range(req[r].list) \subseteq events
      BY <1>4 DEF Idle, Range
    <2>4. /\ accounts \subseteq Users /\ events \subseteq Events
          /\ graph.nodes \subseteq (Users \cup Names) \X Copies
          /\ \A u \in Users : cache[u] = None \/ Range(cache[u]) \subseteq events
          /\ made \in 0 .. MaxWrites
      BY <1>4, <1>5 DEF GraphOK, Nodes
    <2>5. lost \subseteq Users \X Names
      BY <1>4
    <2> QED BY <2>1, <2>2, <2>3, <2>4, <2>5 DEF TypeOK
  <1>7. RequestsOK
    BY <1>4, IdleOK DEF RequestsOK, Init
  <1>8. LikesReachGraph
    <2> SUFFICES ASSUME NEW l \in likes
                 PROVE  \E edge \in graph.edges : edge[1][1] = l[1] /\ edge[2][1] = l[2]
      BY <1>1 DEF LikesReachGraph
    <2>1. <<<<l[1], 1>>, <<l[2], 1>>>> \in graph.edges
      BY <1>2
    <2> QED BY <2>1
  <1> QED BY <1>4, <1>5, <1>6, <1>7, <1>8 DEF Inv, CacheOK

(* Steps of a request that change nothing but its slot.                    *)
LEMMA QuietInv ==
  ASSUME Inv, NEW r \in Requests, NEW z \in RequestType, req' = [req EXCEPT ![r] = z],
         SlotOK(z, accounts, events), BindOK(z, graph.nodes),
         UNCHANGED <<accounts, events, rows, graph, cache, made, lost>>,
         \A u \in Users, n \in Names : Merging(req[r], u, n) => Merging(z, u, n)
  PROVE  Inv'
  <1>1. Replaces(r, z)
    BY DEF Replaces
  <1>2. /\ RequestsOK'
        /\ req'[r] = z /\ \A q \in Requests : q # r => req'[q] = req[q]
        /\ \A q \in Requests :
             /\ req'[q].pc \in PCs
             /\ req'[q].user \in Users \cup {None} /\ req'[q].name \in Names \cup {None}
             /\ Range(req'[q].list) \subseteq events'
    BY <1>1, SlotInv
  <1>3. TypeOK'
    BY <1>2 DEF Inv, TypeOK, PCs, UserNodes
  <1>4. GraphOK' /\ CacheOK'
    BY DEF Inv, GraphOK, CacheOK
  <1>5. LikesReachGraph'
    <2> SUFFICES ASSUME NEW l \in rows PROVE Reaches(l)'
      BY DEF LikesReachGraph, Reaches
    <2>1. Reaches(l) /\ l[1] \in Users /\ l[2] \in Names
      BY DEF Inv, LikesReachGraph, Reaches, TypeOK
    <2> QED BY <1>2, <2>1, LikeStays
  <1> QED BY <1>2, <1>3, <1>4, <1>5 DEF Inv

(* A request that takes a free slot, and may enter its user, its event or  *)
(* its like into a store.                                                  *)
Began(z, pc, u, n) ==
  /\ z \in RequestType
  /\ z.pc = pc /\ z.user = u /\ z.name = n /\ z.us = {} /\ z.es = {}
  /\ z.recs = <<>> /\ z.list = <<>>

Begins(r, z) == At(r, "idle") /\ req' = [req EXCEPT ![r] = z]

LEMMA BeginInv ==
  ASSUME Inv, NEW r \in Requests, NEW u \in Users \cup {None}, NEW n \in Names \cup {None},
         NEW pc \in {"merge user", "merge event", "get"}, NEW z,
         Began(z, pc, u, n), Begins(r, z),
         pc \in {"merge user", "get"} => u # None,
         pc = "merge event" => n # None /\ u = None,
         u # None => u \in accounts', n # None => Denotes[n] \in events',
         accounts \subseteq accounts', events \subseteq events',
         accounts' \subseteq Users, events' \subseteq Events,
         rows' \subseteq rows \cup {<<u, n>>}, rows' # rows => u # None /\ n # None /\ pc # "get",
         made' \in 0 .. MaxWrites, UNCHANGED <<graph, cache, lost>>
  PROVE  Inv'
  <1>1. /\ z.pc = pc /\ z.user = u /\ z.name = n /\ z.us = {} /\ z.es = {}
        /\ z.recs = <<>> /\ z.list = <<>> /\ z \in RequestType
    BY DEF Began
  <1>2. Replaces(r, z)
    BY DEF Replaces, Begins
  <1>4. SlotOK(z, accounts', events')
    <2>1. Range(z.list) = {} /\ \A i \in DOMAIN z.recs : FALSE
      BY <1>1, EmptyRange, EmptyDomain, Zenon
    <2> QED BY <1>1, <2>1 DEF SlotOK
  <1>5. BindOK(z, graph'.nodes)
    BY <1>1 DEF BindOK, Bound
  <1>6. /\ RequestsOK'
        /\ req'[r] = z /\ \A q \in Requests : q # r => req'[q] = req[q]
        /\ \A q \in Requests :
             /\ req'[q].pc \in PCs
             /\ req'[q].user \in Users \cup {None} /\ req'[q].name \in Names \cup {None}
             /\ Range(req'[q].list) \subseteq events'
    BY <1>2, <1>1, <1>4, <1>5, SlotInv
  <1>7. rows' \subseteq accounts' \X Names
    <2>1. rows \subseteq accounts \X Names
      BY DEF Inv, TypeOK
    <2>2. rows' # rows => <<u, n>> \in accounts' \X Names
      OBVIOUS
    <2> QED BY <2>1, <2>2
  <1>8. TypeOK'
    BY <1>6, <1>7 DEF Inv, TypeOK, PCs, UserNodes
  <1>9. GraphOK' /\ CacheOK'
    BY DEF Inv, GraphOK, CacheOK
  <1>10. LikesReachGraph'
    <2> SUFFICES ASSUME NEW l \in rows' PROVE Reaches(l)'
      BY DEF LikesReachGraph, Reaches
    <2>1. CASE l \in rows
      <3>1. Reaches(l)
        BY <2>1 DEF Inv, LikesReachGraph, Reaches
      <3>2. ~Merging(req[r], l[1], l[2])
        BY DEF Merging, Begins, At
      <3> QED BY <1>6, <3>1, <3>2, LikeStays
    <2>2. CASE l \notin rows
      <3>1. l = <<u, n>> /\ pc # "get"
        BY <2>2
      <3> QED BY <1>1, <1>6, <3>1 DEF Reaches, Pending
    <2> QED BY <2>1, <2>2
  <1> QED BY <1>6, <1>8, <1>9, <1>10 DEF Inv

LEMMA BeganOK ==
  ASSUME NEW pc \in PCs, NEW u \in Users \cup {None}, NEW n \in Names \cup {None}
  PROVE  /\ Began([Idle EXCEPT !.pc = pc, !.user = u], pc, u, None)
         /\ Began([Idle EXCEPT !.pc = pc, !.name = n], pc, None, n)
         /\ Began([Idle EXCEPT !.pc = pc, !.user = u, !.name = n], pc, u, n)
  <1>1. /\ Idle \in RequestType /\ Idle.user = None /\ Idle.name = None /\ Idle.us = {}
        /\ Idle.es = {} /\ Idle.recs = <<>> /\ Idle.list = <<>>
    BY IdleOK DEF Idle
  <1> DEFINE y == [Idle EXCEPT !.pc = pc, !.user = u]
             z == [Idle EXCEPT !.pc = pc, !.name = n]
             x == [Idle EXCEPT !.pc = pc, !.user = u, !.name = n]
  <1> HIDE DEF Idle
  <1>2. y \in RequestType /\ z \in RequestType /\ x \in RequestType
    BY <1>1 DEF RequestType
  <1>3. Began(y, pc, u, None)
    BY <1>1, <1>2 DEF RequestType, Began
  <1>4. Began(z, pc, None, n)
    BY <1>1, <1>2 DEF RequestType, Began
  <1>5. Began(x, pc, u, n)
    BY <1>1, <1>2 DEF RequestType, Began
  <1> QED BY <1>3, <1>4, <1>5

LEMMA OneMoreWrite ==
  ASSUME Inv, made < MaxWrites
  PROVE  made + 1 \in 0 .. MaxWrites
  <1>1. made \in 0 .. MaxWrites /\ MaxWrites \in Nat
    BY ConstantsAssumption DEF Inv, TypeOK
  <1> QED BY <1>1

(* The upsert of a like reports an error: the row, if it was stored, is    *)
(* all that is left of the request.                                        *)
LEMMA FailedLikeInv ==
  ASSUME Inv, NEW u \in Users, NEW n \in Names, u \in accounts,
         rows' = rows \cup {<<u, n>>}, lost' = lost \cup {<<u, n>>},
         made' \in 0 .. MaxWrites, UNCHANGED <<accounts, events, graph, cache, req>>
  PROVE  Inv'
  <1>1. TypeOK'
    <2>1. rows' \subseteq accounts' \X Names /\ lost' \subseteq Users \X Names
      <3>1. rows \subseteq accounts \X Names /\ lost \subseteq Users \X Names
        BY DEF Inv, TypeOK
      <3>2. <<u, n>> \in accounts \X Names /\ <<u, n>> \in Users \X Names
        OBVIOUS
      <3> QED BY <3>1, <3>2
    <2> QED BY <2>1 DEF Inv, TypeOK, UserNodes
  <1>2. RequestsOK' /\ GraphOK' /\ CacheOK'
    BY DEF Inv, RequestsOK, GraphOK, CacheOK
  <1>3. LikesReachGraph'
    BY DEF Inv, LikesReachGraph, Pending
  <1> QED BY <1>1, <1>2, <1>3 DEF Inv

LEMMA BeginsInv ==
  ASSUME Inv, NEW r \in Requests,
         \/ \E u \in Users : Register(r, u) \/ Ask(r, u)
         \/ \E e \in Events : CreateEvent(r, e)
         \/ \E u \in Users, n \in Names : LikeEvent(r, u, n)
  PROVE  Inv'
  <1>1. /\ made \in 0 .. MaxWrites /\ None \notin Users \cup Names
        /\ \A e \in Events : e \in Names /\ Denotes[e] = e
        /\ accounts \subseteq Users /\ events \subseteq Events
    BY ConstantsAssumption DEF Inv, TypeOK
  <1>2. \A pc \in {"merge user", "merge event", "get"} : pc \in PCs
    BY DEF PCs
  <1>3. ASSUME NEW u \in Users, Register(r, u) PROVE Inv'
    <2> DEFINE z == [Idle EXCEPT !.pc = "merge user", !.user = u]
    <2>1. Began(z, "merge user", u, None)
      BY <1>2, BeganOK
    <2>2. Begins(r, z)
      BY <1>3 DEF Register, Begins
    <2> HIDE DEF z
    <2>3. /\ accounts' = accounts \cup {u} /\ made' \in 0 .. MaxWrites
          /\ UNCHANGED <<events, rows, graph, cache, lost>>
      BY <1>3, OneMoreWrite DEF Register
    <2> QED BY <1>1, <2>1, <2>2, <2>3, BeginInv
  <1>4. ASSUME NEW e \in Events, CreateEvent(r, e) PROVE Inv'
    <2> DEFINE z == [Idle EXCEPT !.pc = "merge event", !.name = e]
    <2>1. Began(z, "merge event", None, e)
      BY <1>1, <1>2, BeganOK
    <2>2. Begins(r, z)
      BY <1>4 DEF CreateEvent, Begins
    <2> HIDE DEF z
    <2>3. /\ events' = events \cup {e} /\ made' \in 0 .. MaxWrites
          /\ UNCHANGED <<accounts, rows, graph, cache, lost>>
      BY <1>4, OneMoreWrite DEF CreateEvent
    <2> QED BY <1>1, <2>1, <2>2, <2>3, BeginInv
  <1>5. ASSUME NEW u \in Users, NEW n \in Names, LikeEvent(r, u, n) PROVE Inv'
    <2> DEFINE z == [Idle EXCEPT !.pc = "merge user", !.user = u, !.name = n]
    <2>1. Began(z, "merge user", u, n)
      BY <1>2, BeganOK
    <2>2. \/ Begins(r, z) /\ UNCHANGED lost
          \/ lost' = lost \cup {<<u, n>>} /\ UNCHANGED req
      BY <1>5 DEF LikeEvent, Begins
    <2> HIDE DEF z
    <2>3. /\ u \in accounts /\ Denotes[n] \in events /\ rows' = rows \cup {<<u, n>>}
          /\ made' \in 0 .. MaxWrites /\ UNCHANGED <<accounts, events, graph, cache>>
      BY <1>5, OneMoreWrite DEF LikeEvent
    <2>4. CASE Begins(r, z) /\ UNCHANGED lost
      BY <1>1, <2>1, <2>3, <2>4, BeginInv
    <2>5. CASE lost' = lost \cup {<<u, n>>} /\ UNCHANGED req
      BY <2>3, <2>5, FailedLikeInv
    <2> QED BY <2>2, <2>4, <2>5
  <1>6. ASSUME NEW u \in Users, Ask(r, u) PROVE Inv'
    <2> DEFINE z == [Idle EXCEPT !.pc = "get", !.user = u]
    <2>1. Began(z, "get", u, None)
      BY <1>2, BeganOK
    <2>2. Begins(r, z)
      BY <1>6 DEF Ask, Begins
    <2> HIDE DEF z
    <2> QED BY <1>1, <1>6, <2>1, <2>2, BeginInv DEF Ask
  <1> QED BY <1>3, <1>4, <1>5, <1>6

(* The MERGE clauses of a transaction.                                     *)
LEMMA SlotOf ==
  ASSUME Inv, NEW r \in Requests
  PROVE  /\ req \in [Requests -> RequestType] /\ req[r] \in RequestType
         /\ SlotOK(req[r], accounts, events) /\ BindOK(req[r], graph.nodes)
  BY DEF Inv, RequestsOK

LEMMA MergeUserInv ==
  ASSUME Inv, NEW r \in Requests, MergeUser(r)
  PROVE  Inv'
  <1> DEFINE q == req[r]
             nodes == Merged(q.user)
             pc == IF q.name = None THEN "commit" ELSE "merge event"
             z == [q EXCEPT !.us = nodes, !.pc = pc]
  <1>1. /\ req \in [Requests -> RequestType] /\ q \in RequestType /\ q.pc = "merge user"
        /\ SlotOK(q, accounts, events) /\ BindOK(q, graph.nodes)
    BY SlotOf DEF MergeUser, At
  <1>2. /\ q.user \in Users /\ q.user # None /\ q.us = {} /\ q.es = {}
        /\ q.name \in Names \cup {None} /\ pc \in PCs
    BY <1>1 DEF RequestType, SlotOK, BindOK, PCs
  <1>3. Bound(q.user, nodes, graph.nodes) /\ nodes # {} /\ nodes \in SUBSET Nodes
    BY <1>2, MergedBinds DEF Inv
  <1>4. req' = [req EXCEPT ![r] = z]
    BY <1>1 DEF MergeUser
  <1> HIDE DEF nodes, pc, q
  <1>5. /\ z \in RequestType /\ z.pc = pc /\ z.user = q.user /\ z.name = q.name
        /\ z.us = nodes /\ z.es = q.es /\ z.recs = q.recs /\ z.list = q.list
    <2>1. z \in RequestType
      BY <1>1, <1>2, <1>3 DEF RequestType
    <2> QED BY <1>1, <2>1 DEF RequestType
  <1> HIDE DEF z
  <1>6. pc = (IF q.name = None THEN "commit" ELSE "merge event")
    BY DEF pc
  <1>7. SlotOK(z, accounts, events)
    BY <1>1, <1>5, <1>6 DEF SlotOK
  <1>8. BindOK(z, graph.nodes)
    BY <1>1, <1>2, <1>3, <1>5, <1>6 DEF BindOK
  <1>9. UNCHANGED <<accounts, events, rows, graph, cache, made, lost>>
    BY DEF MergeUser
  <1>10. \A u \in Users, n \in Names : Merging(q, u, n) => Merging(z, u, n)
    BY <1>5, <1>6 DEF Merging
  <1> QED BY <1>4, <1>5, <1>7, <1>8, <1>9, <1>10, QuietInv DEF q

LEMMA MergeEventInv ==
  ASSUME Inv, NEW r \in Requests, MergeEvent(r)
  PROVE  Inv'
  <1> DEFINE q == req[r]
             nodes == Merged(q.name)
             pc == "commit"
             z == [q EXCEPT !.es = nodes, !.pc = pc]
  <1>1. /\ req \in [Requests -> RequestType] /\ q \in RequestType /\ q.pc = "merge event"
        /\ SlotOK(q, accounts, events) /\ BindOK(q, graph.nodes)
    BY SlotOf DEF MergeEvent, At
  <1>2. /\ q.name \in Names /\ q.name # None /\ q.es = {} /\ pc \in PCs
        /\ q.user \in Users \cup {None}
    BY <1>1 DEF RequestType, SlotOK, BindOK, PCs
  <1>3. \A n \in q.us \cup q.es : n[1] # q.name
    BY <1>1, <1>2, ConstantsAssumption DEF BindOK, Bound, Copied
  <1>4. Bound(q.name, nodes, graph.nodes) /\ nodes # {} /\ nodes \in SUBSET Nodes
    BY <1>2, <1>3, MergedBinds DEF Inv
  <1>5. req' = [req EXCEPT ![r] = z]
    BY <1>1 DEF MergeEvent
  <1> HIDE DEF nodes, q
  <1>6. /\ z \in RequestType /\ z.pc = pc /\ z.user = q.user /\ z.name = q.name
        /\ z.us = q.us /\ z.es = nodes /\ z.recs = q.recs /\ z.list = q.list
    <2>1. z \in RequestType
      BY <1>1, <1>2, <1>4 DEF RequestType
    <2> QED BY <1>1, <2>1 DEF RequestType
  <1> HIDE DEF z
  <1>7. SlotOK(z, accounts, events)
    BY <1>1, <1>6 DEF SlotOK
  <1>8. BindOK(z, graph.nodes)
    BY <1>1, <1>4, <1>6 DEF BindOK
  <1>9. UNCHANGED <<accounts, events, rows, graph, cache, made, lost>>
    BY DEF MergeEvent
  <1>10. \A u \in Users, n \in Names : Merging(q, u, n) => Merging(z, u, n)
    BY <1>6 DEF Merging
  <1> QED BY <1>5, <1>6, <1>7, <1>8, <1>9, <1>10, QuietInv DEF q

(* A commit adds what the transaction has bound: an edge from each user    *)
(* node to each event node, so the like it is for is there.                *)
LEMMA CommitInv ==
  ASSUME Inv, NEW r \in Requests, Commit(r)
  PROVE  Inv'
  <1> DEFINE q == req[r]
  <1>1. /\ req \in [Requests -> RequestType] /\ q \in RequestType /\ q.pc = "commit"
        /\ SlotOK(q, accounts, events) /\ BindOK(q, graph.nodes)
        /\ req' = [req EXCEPT ![r] = Idle]
        /\ UNCHANGED <<accounts, events, rows, cache, made>>
    BY SlotOf DEF Commit, At, Done
  <1>2. /\ q.us \subseteq Copied(q.user) /\ q.es \subseteq Copied(q.name)
        /\ q.us \subseteq Nodes /\ q.es \subseteq Nodes
        /\ q.user = None => q.us = {}
        /\ q.name = None => q.es = {}
        /\ q.user # None => q.us # {} /\ q.user \in Users
        /\ q.name # None => q.es # {} /\ q.name \in Names /\ Denotes[q.name] \in events
    BY <1>1 DEF BindOK, Bound, SlotOK, RequestType
  <1>3. IsFiniteSet(q.us) /\ IsFiniteSet(q.es)
    BY <1>2, CopiedFinite, FS_Subset
  <1>4. /\ \A n \in q.us : n[1] \in Users /\ n[1] = q.user
        /\ \A n \in q.es : n[1] \in Names /\ n[1] \notin Users /\ n[1] = q.name
                           /\ Denotes[n[1]] \in events
    BY <1>2, ConstantsAssumption DEF Copied
  <1>5. \/ /\ graph'.nodes = graph.nodes \cup q.us \cup q.es
           /\ graph'.edges = graph.edges \cup (q.us \X q.es)
           /\ lost' = lost
        \/ graph' = graph /\ lost' = lost \cup LikeOf(q)
    BY DEF Commit, NewEdges
  <1> HIDE DEF q
  <1>6. graph.nodes \subseteq graph'.nodes /\ graph.edges \subseteq graph'.edges
    BY <1>5
  <1>7. /\ RequestsOK'
        /\ req'[r] = Idle /\ \A p \in Requests : p # r => req'[p] = req[p]
        /\ \A p \in Requests :
             /\ req'[p].pc \in PCs
             /\ req'[p].user \in Users \cup {None} /\ req'[p].name \in Names \cup {None}
             /\ Range(req'[p].list) \subseteq events'
    BY <1>1, <1>6, IdleOK, SlotInv DEF Replaces
  <1>8. GraphOK'
    <2>1. CASE graph' = graph
      BY <1>1, <2>1 DEF Inv, GraphOK
    <2>2. CASE graph'.nodes = graph.nodes \cup q.us \cup q.es
      <3>1. IsFiniteSet(graph.nodes \cup q.us \cup q.es)
        BY <1>3, FS_Union DEF Inv, GraphOK
      <3>2. IsFiniteSet(graph'.nodes)
        BY <2>2, <3>1, Zenon
      <3>3. \A n \in graph.nodes : n[1] \in Names => Denotes[n[1]] \in events
        BY DEF Inv, GraphOK
      <3>4. \A n \in graph'.nodes : n[1] \in Names => Denotes[n[1]] \in events'
        BY <1>1, <1>4, <2>2, <3>3, ConstantsAssumption
      <3>5. graph'.nodes \subseteq Nodes
        BY <1>2, <2>2 DEF Inv, GraphOK
      <3> QED BY <3>2, <3>4, <3>5 DEF GraphOK
    <2> QED BY <1>5, <2>1, <2>2
  <1>9. graph'.edges \subseteq UserNodes' \X (graph'.nodes \ UserNodes')
    <2>1. graph.edges \subseteq UserNodes \X (graph.nodes \ UserNodes)
      BY DEF Inv, TypeOK
    <2>2. CASE graph' = graph
      BY <2>1, <2>2 DEF UserNodes
    <2>3. CASE /\ graph'.nodes = graph.nodes \cup q.us \cup q.es
               /\ graph'.edges = graph.edges \cup (q.us \X q.es)
      BY <1>4, <2>1, <2>3 DEF UserNodes
    <2> QED BY <1>5, <2>2, <2>3
  <1>10. lost' \subseteq Users \X Names
    BY <1>5 DEF Inv, TypeOK, LikeOf
  <1>11. /\ accounts' \subseteq Users /\ events' \subseteq Events /\ rows' \subseteq accounts' \X Names
         /\ \A u \in Users : cache'[u] = None \/ Range(cache'[u]) \subseteq events'
         /\ made' \in 0 .. MaxWrites
         /\ graph'.nodes \subseteq (Users \cup Names) \X Copies
    BY <1>1, <1>8 DEF Inv, TypeOK, GraphOK, Nodes
  <1>12. TypeOK'
    BY <1>7, <1>9, <1>10, <1>11 DEF TypeOK, PCs
  <1>13. LikesReachGraph'
    <2> SUFFICES ASSUME NEW l \in rows PROVE Reaches(l)'
      BY <1>1 DEF LikesReachGraph, Reaches
    <2>1. Reaches(l) /\ l[1] \in Users /\ l[2] \in Names
      BY DEF Inv, LikesReachGraph, Reaches, TypeOK
    <2>2. lost \subseteq lost'
      BY <1>5
    <2>3. CASE ~Merging(q, l[1], l[2])
      BY <1>6, <1>7, <2>1, <2>2, <2>3, LikeStays DEF q
    <2>4. CASE Merging(q, l[1], l[2])
      <3>1. q.user = l[1] /\ q.name = l[2] /\ l[1] # None /\ l[2] # None
        BY <2>1, <2>4, ConstantsAssumption DEF Merging
      <3>2. PICK m \in q.us, n \in q.es : TRUE
        BY <1>2, <3>1
      <3>3. m[1] = l[1] /\ n[1] = l[2]
        BY <1>4, <3>1
      <3>4. CASE lost' = lost \cup LikeOf(q)
        <4>1. l = <<l[1], l[2]>>
          <5>1. rows \subseteq accounts \X Names
            BY DEF Inv, TypeOK
          <5> QED BY <5>1
        <4>2. l \in LikeOf(q)
          BY <2>1, <3>1, <4>1 DEF LikeOf
        <4> QED BY <3>4, <4>2 DEF Reaches
      <3>5. CASE graph'.edges = graph.edges \cup (q.us \X q.es)
        <4>1. <<m, n>> \in graph'.edges
          BY <3>2, <3>5
        <4> QED BY <3>3, <4>1 DEF Reaches
      <3> QED BY <1>5, <3>4, <3>5
    <2> QED BY <2>3, <2>4
  <1> QED BY <1>1, <1>7, <1>8, <1>12, <1>13 DEF Inv, CacheOK

-----------------------------------------------------------------------------
(* The list of a request, from the answer of the query                     *)

LEMMA Least ==
  ASSUME NEW S \in SUBSET Nat, S # {}
  PROVE  \E x \in S : \A y \in S : x <= y
  <1>1. PICK x \in S : \A y \in S : <<y, x>> \notin OpToRel(<, Nat)
    BY NatLessThanWellFounded, WFMin
  <1>2. \A y \in S : ~(y < x)
    BY <1>1 DEF OpToRel
  <1> QED BY <1>2

LEMMA Listed ==
  ASSUME NEW S, NEW n \in Nat, NEW f \in [1 .. n -> S]
  PROVE  f \in Seq(S) /\ Len(f) = n /\ DOMAIN f = 1 .. n
  <1>1. f \in Seq(S)
    BY SeqDef
  <1> QED BY <1>1, LenProperties

LEMMA Places ==
  ASSUME NEW S, NEW s \in Seq(S)
  PROVE  /\ Len(s) \in Nat /\ s \in [1 .. Len(s) -> S] /\ DOMAIN s = 1 .. Len(s)
         /\ IsFiniteSet(DOMAIN s) /\ DOMAIN s \in SUBSET Nat
         /\ \A T \in SUBSET DOMAIN s : IsFiniteSet(T) /\ T \in SUBSET Int
  <1>1. /\ Len(s) \in Nat /\ s \in [1 .. Len(s) -> S] /\ DOMAIN s = 1 .. Len(s)
    BY LenProperties
  <1>2. IsFiniteSet(DOMAIN s)
    BY <1>1, FS_Interval
  <1>3. \A T \in SUBSET DOMAIN s : IsFiniteSet(T)
    BY <1>2, FS_Subset
  <1> QED BY <1>1, <1>2, <1>3

LEMMA EntryOf ==
  ASSUME NEW S, NEW s \in Seq(S)
  PROVE  \A i \in DOMAIN s : s[i] \in S
  BY Places

(* A title's score is the sum of the scores of its events.                 *)
LEMMA ScoreIsSum ==
  ASSUME NEW recs \in Seq(RowType), NEW title
  PROVE  TitleScore(recs, title) = SumOfScores(recs, title) /\ TitleScore(recs, title) \in Int
  <1> DEFINE all == DOMAIN recs
             of == {i \in all : TitleOf[Denotes[recs[i].id]] = title}
             w == [i \in all |-> IF TitleOf[Denotes[recs[i].id]] = title THEN recs[i].score ELSE 0]
             v == [i \in of |-> recs[i].score]
  <1>1. /\ IsFiniteSet(all) /\ of \in SUBSET all /\ IsFiniteSet(of)
        /\ \A i \in all : recs[i].score \in Int
    <2>1. \A i \in all : recs[i] \in RowType
      BY EntryOf, Zenon
    <2> QED BY <2>1, Places DEF RowType
  <1>2. TitleScore(recs, title) = SumOver(w, all)
    BY DEF TitleScore, SumFunction, SumOver
  <1>3. SumOfScores(recs, title) = SumOver(v, of)
    BY DEF SumOfScores, SumFunction, SumOver
  <1>4. /\ \A i \in all : w[i] \in Int
        /\ \A i \in all \ of : w[i] = 0
        /\ \A i \in of : w[i] = v[i] /\ w[i] \in Int
    BY <1>1
  <1> HIDE DEF w, v, all, of
  <1>5. SumOver(w, all) \in Int
    BY <1>1, <1>4, SumIsInt
  <1>6. SumOver(w, all) = SumOver(w, of)
    BY <1>1, <1>4, SumOfSupport
  <1>7. SumOver(w, of) = SumOver(v, of)
    BY <1>1, <1>4, SumOfSame
  <1> QED BY <1>2, <1>3, <1>5, <1>6, <1>7

(* One event per title, the one that starts first.                         *)
LEMMA DeduplicatedKeeps ==
  ASSUME NEW found \in Seq(Events)
  PROVE  LET d == Deduplicated(found)
         IN  /\ d \in Seq(Events)
             /\ \A k \in DOMAIN d : \E i \in DOMAIN found : d[k] = found[i]
             /\ \A i \in DOMAIN found : \E k \in DOMAIN d : TitleOf[d[k]] = TitleOf[found[i]]
             /\ \A j, k \in DOMAIN d : j < k => TitleOf[d[j]] # TitleOf[d[k]]
             /\ \A k \in DOMAIN d, i \in DOMAIN found :
                  TitleOf[found[i]] = TitleOf[d[k]] => StartOf[d[k]] <= StartOf[found[i]]
  <1> DEFINE dom == DOMAIN found
             First(i) == \A j \in 1 .. (i - 1) : TitleOf[found[j]] # TitleOf[found[i]]
             F == {i \in dom : First(i)}
             places == Ascending(F)
             Alike(k) == {j \in dom : TitleOf[found[j]] = TitleOf[found[places[k]]]}
             Best(k, j) == \A i \in Alike(k) :
                             \/ StartOf[found[j]] < StartOf[found[i]]
                             \/ StartOf[found[j]] = StartOf[found[i]] /\ j <= i
             Earliest(k) == CHOOSE j \in Alike(k) : Best(k, j)
             d == Deduplicated(found)
             m == Cardinality(F)
  <1>1. /\ Len(found) \in Nat /\ dom = 1 .. Len(found) /\ \A i \in dom : found[i] \in Events
        /\ dom \in SUBSET Nat /\ F \in SUBSET Int /\ IsFiniteSet(F)
    BY Places
  <1>2. \A e \in Events : StartOf[e] \in Nat
    BY ConstantsAssumption
  <1>3. d = [k \in DOMAIN places |-> found[Earliest(k)]]
    BY DEF Deduplicated
  <1>4. /\ m \in Nat /\ places \in [1 .. m -> F]
        /\ \A a \in F : \E k \in 1 .. m : places[k] = a
        /\ \A i, j \in 1 .. m : i < j => places[i] < places[j]
    <2> HIDE DEF F
    <2> QED BY <1>1, AscendingSorts, Zenon
  <1>5. \A i \in F : i \in dom /\ First(i)
    OBVIOUS
  <1>6. ASSUME NEW i \in dom PROVE \E a \in F : TitleOf[found[a]] = TitleOf[found[i]]
    <2> DEFINE T == {j \in dom : TitleOf[found[j]] = TitleOf[found[i]]}
    <2>1. T \in SUBSET Nat /\ T # {}
      BY <1>1
    <2>2. PICK a \in T : \A b \in T : a <= b
      <3> HIDE DEF T
      <3> QED BY <2>1, Least
    <2>3. \A j \in 1 .. (a - 1) : j \in dom /\ ~(a <= j)
      BY <1>1
    <2>4. First(a)
      BY <2>2, <2>3
    <2> QED BY <2>4
  <1> HIDE DEF places, d, m, F
  <1>7. ASSUME NEW k \in 1 .. m PROVE Earliest(k) \in Alike(k) /\ Best(k, Earliest(k))
    <2> DEFINE starts == {StartOf[found[j]] : j \in Alike(k)}
    <2>1. places[k] \in Alike(k)
      BY <1>4, <1>5
    <2>2. starts \in SUBSET Nat /\ starts # {}
      BY <1>1, <1>2, <2>1
    <2>3. PICK x \in starts : \A y \in starts : x <= y
      <3> HIDE DEF starts
      <3> QED BY <2>2, Least
    <2> DEFINE T == {j \in Alike(k) : StartOf[found[j]] = x}
    <2>4. T \in SUBSET Nat /\ T # {}
      BY <1>1
    <2>5. PICK j \in T : \A i \in T : j <= i
      <3> HIDE DEF T
      <3> QED BY <2>4, Least
    <2>6. Best(k, j)
      <3> SUFFICES ASSUME NEW i \in Alike(k)
                   PROVE  \/ StartOf[found[j]] < StartOf[found[i]]
                          \/ StartOf[found[j]] = StartOf[found[i]] /\ j <= i
        OBVIOUS
      <3>1. StartOf[found[i]] \in starts /\ StartOf[found[j]] = x
        OBVIOUS
      <3>2. x <= StartOf[found[i]] /\ StartOf[found[i]] \in Nat /\ x \in Nat
        BY <2>2, <2>3, <3>1
      <3>3. StartOf[found[i]] = x => j <= i
        BY <2>5
      <3> HIDE DEF starts
      <3> QED BY <3>1, <3>2, <3>3
    <2> HIDE DEF Best, Alike
    <2> QED BY <2>5, <2>6
  <1>8. DOMAIN places = 1 .. m
    BY <1>4
  <1>9. /\ d \in [1 .. m -> Events] /\ DOMAIN d = 1 .. m
        /\ \A k \in 1 .. m : d[k] = found[Earliest(k)]
    <2> HIDE DEF Best, Earliest
    <2>1. \A k \in 1 .. m : found[Earliest(k)] \in Events
      BY <1>1, <1>7
    <2> QED BY <1>3, <1>8, <2>1
  <1>10. d \in Seq(Events)
    BY <1>4, <1>9, Listed
  <1>11. \A k \in 1 .. m : TitleOf[d[k]] = TitleOf[found[places[k]]]
    <2> HIDE DEF Best, Earliest
    <2> QED BY <1>7, <1>9
  <1>12. \A k \in 1 .. m : \E i \in dom : d[k] = found[i]
    <2> HIDE DEF Best, Earliest
    <2> QED BY <1>7, <1>9
  <1>13. ASSUME NEW i \in dom PROVE \E k \in 1 .. m : TitleOf[d[k]] = TitleOf[found[i]]
    <2>1. PICK a \in F : TitleOf[found[a]] = TitleOf[found[i]]
      BY <1>6
    <2>2. PICK k \in 1 .. m : places[k] = a
      BY <1>4
    <2> QED BY <1>11, <2>1, <2>2
  <1>14. ASSUME NEW j \in 1 .. m, NEW k \in 1 .. m, j < k
         PROVE  TitleOf[d[j]] # TitleOf[d[k]]
    <2>1. /\ places[j] < places[k] /\ places[j] \in dom /\ places[k] \in dom /\ First(places[k])
      BY <1>4, <1>5, <1>14
    <2>2. places[j] \in 1 .. (places[k] - 1)
      BY <1>1, <2>1
    <2> QED BY <1>11, <2>1, <2>2
  <1>15. ASSUME NEW k \in 1 .. m, NEW i \in dom, TitleOf[found[i]] = TitleOf[d[k]]
         PROVE  StartOf[d[k]] <= StartOf[found[i]]
    <2>1. i \in Alike(k)
      BY <1>11, <1>15
    <2>2. \/ StartOf[d[k]] < StartOf[found[i]]
          \/ StartOf[d[k]] = StartOf[found[i]]
      <3> HIDE DEF Alike, Earliest
      <3> QED BY <1>7, <1>9, <2>1
    <2>3. StartOf[d[k]] \in Nat /\ StartOf[found[i]] \in Nat
      BY <1>1, <1>2, <1>9
    <2> QED BY <2>2, <2>3
  <1> HIDE DEF First, Alike, Best, Earliest
  <1>16. DOMAIN d = 1 .. m
    BY <1>9
  <1>17. /\ d \in Seq(Events)
         /\ \A k \in DOMAIN d : \E i \in dom : d[k] = found[i]
         /\ \A i \in dom : \E k \in DOMAIN d : TitleOf[d[k]] = TitleOf[found[i]]
         /\ \A j, k \in DOMAIN d : j < k => TitleOf[d[j]] # TitleOf[d[k]]
         /\ \A k \in DOMAIN d, i \in dom :
              TitleOf[found[i]] = TitleOf[d[k]] => StartOf[d[k]] <= StartOf[found[i]]
    BY <1>10, <1>12, <1>13, <1>14, <1>15, <1>16
  <1> QED BY <1>17, Zenon DEF d

(* The same events, titles in the order of their scores.                   *)
IsSorting(d, found, recs) ==
  /\ d \in Seq(Events)
  /\ \E at \in [DOMAIN d -> DOMAIN found] :
       /\ \A k \in DOMAIN d : d[k] = found[at[k]]
       /\ \A i \in DOMAIN found : \E k \in DOMAIN d : at[k] = i
       /\ \A j, k \in DOMAIN d : j < k => at[j] # at[k]
  /\ \A j, k \in DOMAIN d : j < k =>
       TitleScore(recs, TitleOf[d[j]]) >= TitleScore(recs, TitleOf[d[k]])

LEMMA SortedRanks ==
  ASSUME NEW found \in Seq(Events), NEW recs \in Seq(RowType)
  PROVE  IsSorting(Sorted(found, recs), found, recs)
  <1> DEFINE dom == DOMAIN found
             score(i) == TitleScore(recs, TitleOf[found[i]])
             before == {p \in dom \X dom : \/ score(p[1]) > score(p[2])
                                           \/ score(p[1]) = score(p[2]) /\ p[1] < p[2]}
             at == InOrder(dom, before)
             d == Sorted(found, recs)
             m == Cardinality(dom)
  <1>1. IsFiniteSet(dom) /\ dom \in SUBSET Nat /\ \A i \in dom : found[i] \in Events
    BY Places
  <1>2. \A i : score(i) \in Int
    BY ScoreIsSum
  <1>3. TotalOrder(dom, before)
    <2> HIDE DEF dom, score
    <2> QED BY <1>1, <1>2 DEF TotalOrder
  <1>4. \A p \in before : score(p[1]) >= score(p[2])
    <2> HIDE DEF score
    <2> QED BY <1>2
  <1>5. d = [k \in DOMAIN at |-> found[at[k]]]
    BY DEF Sorted
  <1> HIDE DEF before, score, d, dom
  <1>6. /\ m \in Nat /\ at \in [1 .. m -> dom]
        /\ \A a \in dom : \E k \in 1 .. m : at[k] = a
        /\ \A j, k \in 1 .. m : j < k => at[j] # at[k] /\ <<at[j], at[k]>> \in before
    BY <1>1, <1>3, InOrderSorts, Zenon
  <1> HIDE DEF at, m
  <1>7. /\ d \in [1 .. m -> Events] /\ DOMAIN d = 1 .. m /\ DOMAIN at = 1 .. m
        /\ \A k \in 1 .. m : d[k] = found[at[k]]
    <2>1. DOMAIN at = 1 .. m
      BY <1>6
    <2>2. d = [k \in 1 .. m |-> found[at[k]]]
      BY <1>5, <2>1
    <2>3. \A k \in 1 .. m : found[at[k]] \in Events
      BY <1>1, <1>6
    <2> QED BY <2>1, <2>2, <2>3
  <1>8. d \in Seq(Events)
    BY <1>6, <1>7, Listed
  <1>9. ASSUME NEW j \in 1 .. m, NEW k \in 1 .. m, j < k
        PROVE  TitleScore(recs, TitleOf[d[j]]) >= TitleScore(recs, TitleOf[d[k]])
    <2>1. score(at[j]) >= score(at[k])
      BY <1>4, <1>6, <1>9
    <2> QED BY <1>7, <2>1 DEF score
  <1>10. /\ at \in [DOMAIN d -> dom]
         /\ \A k \in DOMAIN d : d[k] = found[at[k]]
         /\ \A i \in dom : \E k \in DOMAIN d : at[k] = i
         /\ \A j, k \in DOMAIN d : j < k => at[j] # at[k]
         /\ \A j, k \in DOMAIN d : j < k =>
              TitleScore(recs, TitleOf[d[j]]) >= TitleScore(recs, TitleOf[d[k]])
    BY <1>6, <1>7, <1>9
  <1>11. IsSorting(d, found, recs)
    BY <1>8, <1>10, Zenon DEF dom, IsSorting
  <1> QED BY <1>11 DEF d

(* What ListIsRanking says of one request.                                 *)
Ranked(q) ==
  LET list == q.list
      found == {Denotes[n] : n \in q.loaded}
      sum(i) == SumOfScores(q.recs, TitleOf[list[i]])
  IN  /\ Range(list) \subseteq found
      /\ {TitleOf[list[i]] : i \in DOMAIN list} = {TitleOf[e] : e \in found}
      /\ \A i, j \in DOMAIN list : i < j =>
           TitleOf[list[i]] # TitleOf[list[j]] /\ sum(i) >= sum(j)
      /\ \A i \in DOMAIN list : \A e \in found :
           TitleOf[e] = TitleOf[list[i]] => StartOf[list[i]] <= StartOf[e]

(* The whole of it: the events that could be looked up, in the order of    *)
(* the query, one per title, titles in order.                              *)
Found(recs, loaded) ==
  LET kept == Ascending({i \in DOMAIN recs : recs[i].id \in loaded})
  IN  [k \in DOMAIN kept |-> Denotes[recs[kept[k]].id]]

LEMMA FoundOK ==
  ASSUME NEW recs \in Seq(RowType),
         NEW loaded \in SUBSET {x.id : x \in Range(recs)}
  PROVE  /\ Found(recs, loaded) \in Seq(Events)
         /\ Range(Found(recs, loaded)) = {Denotes[n] : n \in loaded}
  <1> DEFINE K == {i \in DOMAIN recs : recs[i].id \in loaded}
             kept == Ascending(K)
             f == Found(recs, loaded)
             m == Cardinality(K)
  <1>1. /\ IsFiniteSet(K) /\ K \in SUBSET Int /\ \A i \in DOMAIN recs : recs[i].id \in Names
    <2>1. \A i \in DOMAIN recs : recs[i] \in RowType
      BY EntryOf, Zenon
    <2>2. K \in SUBSET DOMAIN recs
      OBVIOUS
    <2> QED BY <2>1, <2>2, Places DEF RowType
  <1>2. /\ \A n \in loaded : \E i \in K : recs[i].id = n
        /\ \A i \in K : recs[i].id \in loaded /\ i \in DOMAIN recs
    BY DEF Range
  <1>3. f = [k \in DOMAIN kept |-> Denotes[recs[kept[k]].id]]
    BY DEF Found
  <1> HIDE DEF K, f
  <1>4. /\ m \in Nat /\ kept \in [1 .. m -> K]
        /\ \A a \in K : \E k \in 1 .. m : kept[k] = a
    BY <1>1, AscendingSorts, Zenon
  <1> HIDE DEF kept, m
  <1>5. /\ f \in [1 .. m -> Events] /\ DOMAIN f = 1 .. m
        /\ \A k \in 1 .. m : f[k] = Denotes[recs[kept[k]].id]
    BY <1>1, <1>2, <1>3, <1>4 DEF Events
  <1>6. f \in Seq(Events)
    BY <1>4, <1>5, Listed
  <1>7. ASSUME NEW n \in loaded PROVE \E k \in 1 .. m : f[k] = Denotes[n]
    <2>1. PICK i \in K : recs[i].id = n
      BY <1>2
    <2>2. PICK k \in 1 .. m : kept[k] = i
      BY <1>4
    <2> QED BY <1>5, <2>1, <2>2
  <1>8. \A k \in 1 .. m : \E n \in loaded : f[k] = Denotes[n]
    BY <1>2, <1>4, <1>5
  <1>9. Range(f) = {Denotes[n] : n \in loaded}
    <2>1. Range(f) = {f[k] : k \in 1 .. m}
      BY <1>5, Zenon DEF Range
    <2> QED BY <1>7, <1>8, <2>1
  <1> QED BY <1>6, <1>9 DEF f

LEMMA LoadRanks ==
  ASSUME NEW recs \in Seq(RowType),
         NEW loaded \in SUBSET {x.id : x \in Range(recs)}, NEW z,
         z.recs = recs, z.loaded = loaded,
         z.list = Sorted(Deduplicated(Found(recs, loaded)), recs)
  PROVE  z.list \in Seq(Events) /\ Ranked(z)
  <1> DEFINE f == Found(recs, loaded)
             found == {Denotes[n] : n \in loaded}
             d == Deduplicated(f)
             list == Sorted(d, recs)
  <1>1. f \in Seq(Events) /\ Range(f) = found
    BY FoundOK
  <1>2. z.list = list
    OBVIOUS
  <1> HIDE DEF f, list, found
  <1>3. /\ d \in Seq(Events)
        /\ \A k \in DOMAIN d : \E i \in DOMAIN f : d[k] = f[i]
        /\ \A i \in DOMAIN f : \E k \in DOMAIN d : TitleOf[d[k]] = TitleOf[f[i]]
        /\ \A j, k \in DOMAIN d : j < k => TitleOf[d[j]] # TitleOf[d[k]]
        /\ \A k \in DOMAIN d, i \in DOMAIN f :
             TitleOf[f[i]] = TitleOf[d[k]] => StartOf[d[k]] <= StartOf[f[i]]
    BY <1>1, DeduplicatedKeeps, Zenon
  <1> HIDE DEF d
  <1>4. /\ list \in Seq(Events)
        /\ \E at \in [DOMAIN list -> DOMAIN d] :
             /\ \A k \in DOMAIN list : list[k] = d[at[k]]
             /\ \A i \in DOMAIN d : \E k \in DOMAIN list : at[k] = i
             /\ \A j, k \in DOMAIN list : j < k => at[j] # at[k]
        /\ \A j, k \in DOMAIN list : j < k =>
             TitleScore(recs, TitleOf[list[j]]) >= TitleScore(recs, TitleOf[list[k]])
    <2>1. IsSorting(list, d, recs)
      BY <1>3, SortedRanks DEF list
    <2> QED BY <2>1, Zenon DEF IsSorting
  <1>5. PICK at \in [DOMAIN list -> DOMAIN d] :
             /\ \A k \in DOMAIN list : list[k] = d[at[k]]
             /\ \A i \in DOMAIN d : \E k \in DOMAIN list : at[k] = i
             /\ \A j, k \in DOMAIN list : j < k => at[j] # at[k]
    BY <1>4
  <1>6. \A i \in DOMAIN f : f[i] \in found
    BY <1>1 DEF Range
  <1>7. \A e \in found : \E i \in DOMAIN f : f[i] = e
    BY <1>1 DEF Range
  <1>8. \A k \in DOMAIN list : list[k] \in found
    BY <1>3, <1>5, <1>6
  <1>9. {TitleOf[list[i]] : i \in DOMAIN list} = {TitleOf[e] : e \in found}
    <2>1. \A e \in found : \E k \in DOMAIN list : TitleOf[list[k]] = TitleOf[e]
      BY <1>3, <1>5, <1>7
    <2> QED BY <1>8, <2>1
  <1>10. ASSUME NEW i \in DOMAIN list, NEW j \in DOMAIN list, i < j
         PROVE  TitleOf[list[i]] # TitleOf[list[j]]
    <2>1. DOMAIN d \in SUBSET Int
      BY <1>3, Places
    <2>2. at[i] # at[j] /\ at[i] \in DOMAIN d /\ at[j] \in DOMAIN d
      BY <1>5, <1>10
    <2>3. at[i] < at[j] \/ at[j] < at[i]
      BY <2>1, <2>2
    <2> QED BY <1>3, <1>5, <2>2, <2>3
  <1>11. ASSUME NEW i \in DOMAIN list, NEW e \in found, TitleOf[e] = TitleOf[list[i]]
         PROVE  StartOf[list[i]] <= StartOf[e]
    BY <1>3, <1>5, <1>7, <1>11
  <1>12. \A i, j \in DOMAIN list : i < j =>
           SumOfScores(recs, TitleOf[list[i]]) >= SumOfScores(recs, TitleOf[list[j]])
    <2>1. \A t : TitleScore(recs, t) = SumOfScores(recs, t)
      BY ScoreIsSum
    <2> QED BY <1>4, <2>1
  <1>13. Range(list) \subseteq found
    BY <1>8 DEF Range
  <1>14. Ranked(z)
    <2> USE DEF found
    <2> QED BY <1>2, <1>9, <1>10, <1>11, <1>12, <1>13, Zenon DEF Ranked
  <1> QED BY <1>2, <1>4, <1>14

-----------------------------------------------------------------------------
(* The paths of the query                                                  *)

LEMMA Images ==
  ASSUME NEW S, IsFiniteSet(S), NEW T, NEW f \in [S -> T], \A y \in T : \E x \in S : f[x] = y
  PROVE  IsFiniteSet(T)
  <1>1. f \in Surjection(S, T)
    BY DEF Surjection
  <1> QED BY <1>1, FS_Surjection

LEMMA PathIs ==
  ASSUME NEW user, NEW p
  PROVE  p \in Paths(user) <=>
           \E u \in NodesOf(user), other \in UserNodes :
             \E e \in Liked(u) \cap Liked(other), rec \in Liked(other) \ Liked(u) :
               other # u /\ p = <<u, e, other, rec>>
  BY DEF Paths

(* What a user likes is of an event, and in the graph.                     *)
LEMMA LikedNodes ==
  ASSUME TypeOK, NEW node, NEW x \in Liked(node)
  PROVE  x \in graph.nodes /\ x[1] \in Names /\ <<node, x>> \in graph.edges /\ node \in UserNodes
  <1>1. PICK edge \in graph.edges : edge[1] = node /\ edge[2] = x
    BY DEF Liked
  <1>2. /\ graph.edges \subseteq UserNodes \X (graph.nodes \ UserNodes)
        /\ graph.nodes \subseteq (Users \cup Names) \X Copies
    BY DEF TypeOK
  <1>3. edge = <<node, x>> /\ x \in graph.nodes \ UserNodes
    BY <1>1, <1>2
  <1>4. x[1] \in Names
    BY <1>2, <1>3 DEF UserNodes
  <1> QED BY <1>1, <1>2, <1>3, <1>4

(* The query has finitely many rows, of events that are in the store.      *)
LEMMA PathsOK ==
  ASSUME TypeOK, GraphOK, NEW user
  PROVE  /\ IsFiniteSet(Paths(user)) /\ IsFiniteSet(Recommended(user))
         /\ Recommended(user) \subseteq Names
         /\ \A n \in Recommended(user) : Denotes[n] \in events
  <1> DEFINE N == graph.nodes
             D == (N \X N) \X (N \X N)
             path == [p \in D |-> <<p[1][1], p[1][2], p[2][1], p[2][2]>>]
             image == {path[p] : p \in D}
             id == [n \in N |-> n[1]]
             ids == {id[n] : n \in N}
  <1>1. IsFiniteSet(N)
    BY DEF GraphOK
  <1>2. ASSUME NEW p \in Paths(user)
        PROVE  /\ p[1] \in N /\ p[2] \in N /\ p[3] \in N /\ p[4] \in N /\ p[4][1] \in Names
               /\ p = <<p[1], p[2], p[3], p[4]>>
    <2>1. PICK u \in NodesOf(user), other \in UserNodes :
             \E e \in Liked(u) \cap Liked(other), rec \in Liked(other) \ Liked(u) :
               p = <<u, e, other, rec>>
      BY PathIs
    <2>2. PICK e \in Liked(u) \cap Liked(other), rec \in Liked(other) \ Liked(u) :
               p = <<u, e, other, rec>>
      BY <2>1
    <2>3. e \in N /\ rec \in N /\ rec[1] \in Names
      BY LikedNodes
    <2> QED BY <2>2, <2>3 DEF NodesOf, UserNodes
  <1>3. IsFiniteSet(D)
    BY <1>1, FS_Product
  <1>4. IsFiniteSet(image)
    <2>1. path \in [D -> image] /\ \A y \in image : \E p \in D : path[p] = y
      OBVIOUS
    <2> HIDE DEF path, D, image
    <2> QED BY <1>3, <2>1, Images
  <1>5. Paths(user) \in SUBSET image
    <2> SUFFICES ASSUME NEW p \in Paths(user) PROVE \E q \in D : path[q] = p
      OBVIOUS
    <2> DEFINE q == <<<<p[1], p[2]>>, <<p[3], p[4]>>>>
    <2>1. q \in D
      BY <1>2
    <2>2. path[q] = <<p[1], p[2], p[3], p[4]>>
      BY <2>1
    <2> HIDE DEF q, path, D
    <2> QED BY <1>2, <2>1, <2>2
  <1>6. IsFiniteSet(Paths(user))
    BY <1>4, <1>5, FS_Subset
  <1>7. IsFiniteSet(ids)
    <2>1. id \in [N -> ids] /\ \A y \in ids : \E n \in N : id[n] = y
      OBVIOUS
    <2> HIDE DEF id, ids
    <2> QED BY <1>1, <2>1, Images
  <1>8. Recommended(user) \in SUBSET ids /\ Recommended(user) \subseteq Names
    BY <1>2 DEF Recommended
  <1>9. IsFiniteSet(Recommended(user))
    BY <1>7, <1>8, FS_Subset
  <1>10. \A n \in Recommended(user) : Denotes[n] \in events
    BY <1>2 DEF Recommended, GraphOK
  <1> QED BY <1>6, <1>8, <1>9, <1>10

LEMMA RowsOK ==
  ASSUME TypeOK, GraphOK, NEW user, NEW recs \in Rows(user)
  PROVE  /\ recs \in Seq(RowType)
         /\ \A i \in DOMAIN recs : Denotes[recs[i].id] \in events
  <1> DEFINE R == Recommended(user)
             n == Cardinality(R)
  <1>1. /\ IsFiniteSet(R) /\ R \subseteq Names /\ n \in Nat
        /\ \A a \in R : Denotes[a] \in events
    BY PathsOK, FS_CardinalityType
  <1>2. \A a : Score(user, a) \in Nat
    <2> TAKE a
    <2>1. {m \in Paths(user) : m[4][1] = a} \in SUBSET Paths(user)
      OBVIOUS
    <2>2. IsFiniteSet({m \in Paths(user) : m[4][1] = a})
      BY <2>1, PathsOK, FS_Subset
    <2> QED BY <2>2, FS_CardinalityType DEF Score
  <1>3. PICK s \in [1 .. n -> R] :
          recs = [i \in DOMAIN s |-> [id |-> s[i], score |-> Score(user, s[i])]]
    BY DEF Rows, Orders
  <1> HIDE DEF n, R
  <1>4. /\ recs \in [1 .. n -> RowType] /\ DOMAIN recs = 1 .. n
        /\ \A i \in 1 .. n : recs[i].id = s[i]
    BY <1>1, <1>2, <1>3 DEF RowType
  <1>5. recs \in Seq(RowType)
    BY <1>1, <1>4, Listed
  <1> QED BY <1>1, <1>4, <1>5

-----------------------------------------------------------------------------
(* The steps of GetRecommendations                                         *)

(* A request that reads ends, or goes on with fields of its own.           *)
Reads(q) == q.pc \in {"get", "query", "load", "set"}

LEMMA DoneInv ==
  ASSUME Inv, NEW r \in Requests, Reads(req[r]), Done(r),
         UNCHANGED <<accounts, events, rows, graph, cache, made, lost>>
  PROVE  Inv'
  <1>1. \A u, n : ~Merging(req[r], u, n)
    BY DEF Reads, Merging
  <1> HIDE DEF Idle
  <1> QED BY <1>1, IdleOK, QuietInv DEF Done

LEMMA GoesOnInv ==
  ASSUME Inv, NEW r \in Requests, Reads(req[r]), NEW z \in RequestType, Reads(z),
         req' = [req EXCEPT ![r] = z], z.user = req[r].user, z.name = req[r].name,
         z.us = req[r].us, z.es = req[r].es,
         \A i \in DOMAIN z.recs : Denotes[z.recs[i].id] \in events,
         Range(z.list) \subseteq events,
         UNCHANGED <<accounts, events, rows, graph, cache, made, lost>>
  PROVE  Inv'
  <1>1. SlotOK(req[r], accounts, events) /\ BindOK(req[r], graph.nodes)
    BY SlotOf
  <1>2. \A u, n : ~Merging(req[r], u, n)
    BY DEF Reads, Merging
  <1>3. SlotOK(z, accounts, events)
    BY <1>1 DEF SlotOK, Reads
  <1>4. BindOK(z, graph.nodes)
    BY <1>1 DEF BindOK, Reads
  <1> QED BY <1>2, <1>3, <1>4, QuietInv

LEMMA GetCachedInv ==
  ASSUME Inv, NEW r \in Requests, GetCached(r)
  PROVE  Inv'
  <1> DEFINE q == req[r]
             z == [q EXCEPT !.pc = "query"]
  <1>1. /\ req \in [Requests -> RequestType] /\ q \in RequestType /\ q.pc = "get"
        /\ SlotOK(q, accounts, events) /\ Reads(q)
        /\ UNCHANGED <<accounts, events, rows, graph, cache, made, lost>>
    BY SlotOf DEF GetCached, At, Reads
  <1>2. CASE Done(r)
    BY <1>1, <1>2, DoneInv
  <1>3. CASE Go(r, "query")
    <2>1. req' = [req EXCEPT ![r] = z]
      BY <1>1, <1>3 DEF Go
    <2> HIDE DEF q
    <2>2. /\ z \in RequestType /\ z.pc = "query" /\ z.user = q.user /\ z.name = q.name
          /\ z.us = q.us /\ z.es = q.es /\ z.recs = q.recs /\ z.list = q.list
      <3>1. z \in RequestType
        BY <1>1 DEF RequestType, PCs
      <3> QED BY <1>1, <3>1 DEF RequestType
    <2> HIDE DEF z
    <2>3. /\ Reads(z) /\ Range(z.list) \subseteq events
          /\ \A i \in DOMAIN z.recs : Denotes[z.recs[i].id] \in events
      BY <1>1, <2>2 DEF Reads, SlotOK
    <2> QED BY <1>1, <2>1, <2>2, <2>3, GoesOnInv DEF q
  <1> QED BY <1>2, <1>3 DEF GetCached

LEMMA QueryInv ==
  ASSUME Inv, NEW r \in Requests, Query(r)
  PROVE  Inv'
  <1> DEFINE q == req[r]
  <1>1. /\ req \in [Requests -> RequestType] /\ q \in RequestType /\ q.pc = "query"
        /\ SlotOK(q, accounts, events) /\ Reads(q)
        /\ UNCHANGED <<accounts, events, rows, graph, cache, made, lost>>
    BY SlotOf DEF Query, At, Reads
  <1>2. CASE Done(r)
    BY <1>1, <1>2, DoneInv
  <1>3. ASSUME NEW recs \in Rows(q.user), req' = [req EXCEPT ![r].recs = recs, ![r].pc = "load"]
        PROVE  Inv'
    <2> DEFINE z == [q EXCEPT !.recs = recs, !.pc = "load"]
    <2>1. req' = [req EXCEPT ![r] = z]
      BY <1>1, <1>3
    <2>2. /\ recs \in Seq(RowType)
          /\ \A i \in DOMAIN recs : Denotes[recs[i].id] \in events
      BY RowsOK DEF Inv
    <2> HIDE DEF q
    <2>3. /\ z \in RequestType /\ z.pc = "load" /\ z.user = q.user /\ z.name = q.name
          /\ z.us = q.us /\ z.es = q.es /\ z.recs = recs /\ z.list = q.list
      <3>1. z \in RequestType
        BY <1>1, <2>2 DEF RequestType, PCs
      <3> QED BY <1>1, <3>1 DEF RequestType
    <2> HIDE DEF z
    <2>4. /\ Reads(z) /\ Range(z.list) \subseteq events
          /\ \A i \in DOMAIN z.recs : Denotes[z.recs[i].id] \in events
      BY <1>1, <2>2, <2>3 DEF Reads, SlotOK
    <2> QED BY <1>1, <2>1, <2>3, <2>4, GoesOnInv DEF q
  <1> QED BY <1>2, <1>3 DEF Query

(* The list of a request that has loaded its events.                       *)
LEMMA Loads ==
  ASSUME Inv, NEW r \in Requests, Load(r)
  PROVE  \E z \in RequestType :
           /\ req' = [req EXCEPT ![r] = z] /\ z.pc = "set" /\ Ranked(z)
           /\ z.user = req[r].user /\ z.name = req[r].name
           /\ z.us = req[r].us /\ z.es = req[r].es /\ z.recs = req[r].recs
           /\ Range(z.list) \subseteq {Denotes[n] : n \in {x.id : x \in Range(z.recs)}}
  <1> DEFINE q == req[r]
             ids == {x.id : x \in Range(q.recs)}
  <1>1. req \in [Requests -> RequestType] /\ q \in RequestType
    BY SlotOf
  <1>2. q.recs \in Seq(RowType)
    BY <1>1 DEF RequestType
  <1>3. PICK loaded \in SUBSET ids :
          req' = [req EXCEPT ![r].loaded = loaded, ![r].pc = "set",
                             ![r].list = Sorted(Deduplicated(Found(q.recs, loaded)), q.recs)]
    BY DEF Load, Found
  <1> DEFINE list == Sorted(Deduplicated(Found(q.recs, loaded)), q.recs)
             z == [q EXCEPT !.loaded = loaded, !.pc = "set", !.list = list]
  <1>4. req' = [req EXCEPT ![r] = z]
    BY <1>1, <1>3
  <1>5. loaded \in SUBSET Names
    <2>1. \A i \in DOMAIN q.recs : q.recs[i].id \in Names
      <3>1. \A i \in DOMAIN q.recs : q.recs[i] \in RowType
        BY <1>2, EntryOf, Zenon
      <3> QED BY <3>1 DEF RowType
    <2> QED BY <2>1 DEF Range
  <1> HIDE DEF q
  <1>6. list \in Seq(Events)
    <2> DEFINE y == [recs |-> q.recs, loaded |-> loaded, list |-> list]
    <2>1. y.recs = q.recs /\ y.loaded = loaded /\ y.list = list
      OBVIOUS
    <2> HIDE DEF y, list
    <2>2. y.list \in Seq(Events)
      BY <1>2, <2>1, LoadRanks DEF list
    <2> QED BY <2>1, <2>2
  <1> HIDE DEF list
  <1>7. /\ z \in RequestType /\ z.pc = "set" /\ z.user = q.user /\ z.name = q.name
        /\ z.us = q.us /\ z.es = q.es /\ z.recs = q.recs /\ z.list = list
        /\ z.loaded = loaded
    <2>1. z \in RequestType
      BY <1>1, <1>5, <1>6 DEF RequestType, PCs
    <2> QED BY <1>1, <2>1 DEF RequestType
  <1> HIDE DEF z
  <1>8. Ranked(z)
    BY <1>2, <1>7, LoadRanks DEF list
  <1>9. Range(z.list) \subseteq {Denotes[n] : n \in loaded}
    BY <1>7, <1>8 DEF Ranked
  <1> QED BY <1>4, <1>7, <1>8, <1>9 DEF q

LEMMA LoadInv ==
  ASSUME Inv, NEW r \in Requests, Load(r)
  PROVE  Inv'
  <1> DEFINE q == req[r]
  <1>1. /\ SlotOK(q, accounts, events) /\ Reads(q) /\ q \in RequestType
        /\ UNCHANGED <<accounts, events, rows, graph, cache, made, lost>>
    BY SlotOf DEF Load, At, Reads
  <1>2. PICK z \in RequestType :
           /\ req' = [req EXCEPT ![r] = z] /\ z.pc = "set"
           /\ z.user = q.user /\ z.name = q.name
           /\ z.us = q.us /\ z.es = q.es /\ z.recs = q.recs
           /\ Range(z.list) \subseteq {Denotes[n] : n \in {x.id : x \in Range(z.recs)}}
    BY Loads
  <1>3. \A i \in DOMAIN z.recs : Denotes[z.recs[i].id] \in events
    BY <1>1, <1>2 DEF SlotOK
  <1>4. Range(z.list) \subseteq events
    BY <1>2, <1>3 DEF Range
  <1>5. Reads(z)
    BY <1>2 DEF Reads
  <1> QED BY <1>1, <1>2, <1>3, <1>4, <1>5, GoesOnInv

LEMMA SetInv ==
  ASSUME Inv, NEW r \in Requests, Set(r)
  PROVE  Inv'
  <1> DEFINE q == req[r]
  <1>1. /\ SlotOK(q, accounts, events) /\ Reads(q) /\ q.pc = "set" /\ q \in RequestType
        /\ UNCHANGED <<accounts, events, rows, graph, made, lost>> /\ Done(r)
    BY SlotOf DEF Set, At, Reads
  <1>2. CASE UNCHANGED cache
    BY <1>1, <1>2, DoneInv
  <1>3. CASE cache' = [cache EXCEPT ![q.user] = q.list]
    <2>1. q.list \in Seq(Events) /\ Range(q.list) \subseteq events
      BY <1>1 DEF SlotOK, RequestType
    <2>2. Replaces(r, Idle)
      BY <1>1 DEF Replaces, Done
    <2> HIDE DEF Idle, q
    <2>3. /\ RequestsOK'
          /\ req'[r] = Idle /\ \A p \in Requests : p # r => req'[p] = req[p]
          /\ \A p \in Requests :
               /\ req'[p].pc \in PCs
               /\ req'[p].user \in Users \cup {None} /\ req'[p].name \in Names \cup {None}
               /\ Range(req'[p].list) \subseteq events'
      BY <2>2, IdleOK, SlotInv
    <2>4. CacheOK'
      BY <1>3, <2>1 DEF Inv, CacheOK
    <2>5. \A u \in Users : cache'[u] = None \/ Range(cache'[u]) \subseteq events'
      BY <1>1, <1>3, <2>1 DEF Inv, CacheOK, TypeOK
    <2>6. TypeOK'
      BY <1>1, <2>3, <2>5 DEF Inv, TypeOK, PCs, UserNodes
    <2>7. GraphOK'
      BY <1>1 DEF Inv, GraphOK
    <2>8. LikesReachGraph'
      <3> SUFFICES ASSUME NEW l \in rows PROVE Reaches(l)'
        BY <1>1 DEF LikesReachGraph, Reaches
      <3>1. Reaches(l)
        BY DEF Inv, LikesReachGraph, Reaches
      <3>2. ~Merging(req[r], l[1], l[2])
        BY <1>1 DEF Merging, q
      <3> QED BY <1>1, <2>3, <3>1, <3>2, LikeStays
    <2> QED BY <2>3, <2>4, <2>6, <2>7, <2>8 DEF Inv
  <1> QED BY <1>2, <1>3 DEF Set

(* Steps that leave the requests alone.                                    *)
LEMMA OtherInv ==
  ASSUME Inv,
         \/ UNCHANGED vars
         \/ \E u \in Users : Expire(u)
         \/ \E u \in Users, n \in Names : DislikeEvent(u, n)
  PROVE  Inv'
  <1>1. UNCHANGED <<accounts, events, graph, req, lost>>
    BY DEF vars, Expire, DislikeEvent
  <1>2. RequestsOK' /\ GraphOK'
    BY <1>1 DEF Inv, RequestsOK, GraphOK
  <1>3. rows' \subseteq rows
    BY DEF vars, Expire, DislikeEvent
  <1>4. made' \in 0 .. MaxWrites
    <2>1. made' = made \/ (made < MaxWrites /\ made' = made + 1)
      <3>1. CASE UNCHANGED vars
        BY <3>1 DEF vars
      <3>2. CASE \E u \in Users : Expire(u)
        BY <3>2 DEF Expire
      <3>3. CASE \E u \in Users, n \in Names : DislikeEvent(u, n)
        BY <3>3 DEF DislikeEvent
      <3> QED BY <3>1, <3>2, <3>3
    <2>2. made \in 0 .. MaxWrites
      BY DEF Inv, TypeOK
    <2> QED BY <2>1, <2>2, OneMoreWrite
  <1>5. /\ CacheOK' /\ \A u \in Users : cache'[u] = None \/ Range(cache'[u]) \subseteq events
    BY DEF Inv, CacheOK, TypeOK, vars, Expire, DislikeEvent
  <1>6. TypeOK'
    BY <1>1, <1>3, <1>4, <1>5 DEF Inv, TypeOK, UserNodes
  <1>7. LikesReachGraph'
    BY <1>1, <1>3 DEF Inv, LikesReachGraph, Pending
  <1> QED BY <1>2, <1>5, <1>6, <1>7 DEF Inv

LEMMA NextInv == Inv /\ [Next]_vars => Inv'
  <1> SUFFICES ASSUME Inv, [Next]_vars PROVE Inv'
    OBVIOUS
  <1>1. CASE \/ UNCHANGED vars
             \/ \E u \in Users : Expire(u)
             \/ \E u \in Users, n \in Names : DislikeEvent(u, n)
    BY <1>1, OtherInv
  <1>2. ASSUME NEW r \in Requests,
               \/ \E u \in Users : Register(r, u) \/ Ask(r, u)
               \/ \E e \in Events : CreateEvent(r, e)
               \/ \E u \in Users, n \in Names : LikeEvent(r, u, n)
        PROVE  Inv'
    BY <1>2, BeginsInv
  <1>3. ASSUME NEW r \in Requests, MergeUser(r) \/ MergeEvent(r) \/ Commit(r)
        PROVE  Inv'
    BY <1>3, MergeUserInv, MergeEventInv, CommitInv
  <1>4. ASSUME NEW r \in Requests, GetCached(r) \/ Query(r) \/ Load(r) \/ Set(r)
        PROVE  Inv'
    BY <1>4, GetCachedInv, QueryInv, LoadInv, SetInv
  <1> QED BY <1>1, <1>2, <1>3, <1>4 DEF Next

(* The inductive invariant.                                                *)
THEOREM InvInvariant == Spec => []Inv
  <1>1. Init => Inv
    BY InitInv
  <1>2. Inv /\ [Next]_vars => Inv'
    BY NextInv
  <1> QED BY <1>1, <1>2, PTL DEF Spec

(* The variables have their types; an edge has nodes at its ends, and two  *)
(* transactions that create a node of one id create two copies.            *)
THEOREM TypeCorrect == Spec => []TypeOK
  <1>1. Inv => TypeOK
    BY DEF Inv
  <1> QED BY <1>1, InvInvariant, PTL

(* A like that is stored is an edge of the graph, or its request is on its *)
(* way there, or this like's upsert or write to the graph reported an      *)
(* error.                                                                  *)
THEOREM LikesGetThere == Spec => []LikesReachGraph
  <1>1. Inv => LikesReachGraph
    BY DEF Inv
  <1> QED BY <1>1, InvInvariant, PTL

-----------------------------------------------------------------------------
(* What the query says of the likes                                        *)

LEMMA OneNode ==
  ASSUME GraphOK, NEW id, ~Twins(id), NEW m \in graph.nodes, NEW n \in graph.nodes,
         m[1] = id, n[1] = id
  PROVE  m = n
  <1> SUFFICES ASSUME m # n PROVE FALSE
    OBVIOUS
  <1>1. IsFiniteSet(NodesOf(id))
    <2>1. NodesOf(id) \in SUBSET graph.nodes
      BY DEF NodesOf
    <2> QED BY <2>1, FS_Subset DEF GraphOK
  <1>2. {m} \in SUBSET NodesOf(id) /\ {m} # NodesOf(id)
    BY DEF NodesOf
  <1>3. Cardinality({m}) = 1 /\ Cardinality(NodesOf(id)) \in Nat
    BY <1>1, FS_Singleton, FS_CardinalityType
  <1>4. Cardinality({m}) <= Cardinality(NodesOf(id)) /\ Cardinality({m}) # Cardinality(NodesOf(id))
    BY <1>1, <1>2, FS_Subset
  <1> QED BY <1>3, <1>4 DEF Twins

(* The nodes and edges of a path.                                          *)
LEMMA PathEdges ==
  ASSUME TypeOK, NEW user \in Users, NEW p \in Paths(user)
  PROVE  /\ p = <<p[1], p[2], p[3], p[4]>>
         /\ {p[1], p[2], p[3], p[4]} \subseteq graph.nodes
         /\ {<<p[1], p[2]>>, <<p[3], p[2]>>, <<p[3], p[4]>>} \subseteq graph.edges
         /\ <<p[1], p[4]>> \notin graph.edges
         /\ p[1] # p[3] /\ p[1][1] = user /\ p[3][1] \in Users
         /\ p[2][1] \in Names /\ p[4][1] \in Names
  <1>1. PICK u \in NodesOf(user), other \in UserNodes :
             \E e \in Liked(u) \cap Liked(other), rec \in Liked(other) \ Liked(u) :
               other # u /\ p = <<u, e, other, rec>>
    BY PathIs
  <1>2. PICK e \in Liked(u) \cap Liked(other), rec \in Liked(other) \ Liked(u) :
               other # u /\ p = <<u, e, other, rec>>
    BY <1>1
  <1>3. p[1] = u /\ p[2] = e /\ p[3] = other /\ p[4] = rec
    BY <1>2
  <1>4. /\ <<u, e>> \in graph.edges /\ <<other, e>> \in graph.edges
        /\ <<other, rec>> \in graph.edges
        /\ e \in graph.nodes /\ rec \in graph.nodes /\ e[1] \in Names /\ rec[1] \in Names
    BY LikedNodes
  <1>5. <<u, rec>> \notin graph.edges
    <2> SUFFICES ASSUME <<u, rec>> \in graph.edges PROVE rec \in Liked(u)
      BY <1>2
    <2>1. <<u, rec>>[1] = u /\ <<u, rec>>[2] = rec
      OBVIOUS
    <2> QED BY <2>1 DEF Liked
  <1>6. u \in graph.nodes /\ other \in graph.nodes /\ u[1] = user /\ other[1] \in Users
    BY DEF NodesOf, UserNodes
  <1> QED BY <1>2, <1>3, <1>4, <1>5, <1>6

LEMMA EdgesPath ==
  ASSUME TypeOK, NEW user \in Users, NEW u, NEW e, NEW o, NEW x,
         {<<u, e>>, <<o, e>>, <<o, x>>} \subseteq graph.edges, <<u, x>> \notin graph.edges,
         u[1] = user, u # o
  PROVE  <<u, e, o, x>> \in Paths(user)
  <1>1. graph.edges \subseteq UserNodes \X (graph.nodes \ UserNodes)
    BY DEF TypeOK
  <1>2. u \in NodesOf(user) /\ o \in UserNodes
    BY <1>1 DEF NodesOf, UserNodes
  <1>3. \A m, n : <<m, n>> \in graph.edges => n \in Liked(m)
    <2> TAKE m, n
    <2>1. <<m, n>>[1] = m /\ <<m, n>>[2] = n
      OBVIOUS
    <2> QED BY <2>1 DEF Liked
  <1>4. x \notin Liked(u)
    BY LikedNodes
  <1> QED BY <1>2, <1>3, <1>4, PathIs

(* An edge for each like that is stored.                                   *)
LEMMA EdgeOf ==
  ASSUME TypeOK, LikesReachGraph, NEW u, NEW n, <<u, n>> \in rows, ~Pending(u, n), <<u, n>> \notin lost
  PROVE  \E edge \in graph.edges :
           /\ edge = <<edge[1], edge[2]>> /\ edge[1][1] = u /\ edge[2][1] = n
           /\ edge[1] \in graph.nodes /\ edge[2] \in graph.nodes
  <1>1. <<u, n>>[1] = u /\ <<u, n>>[2] = n
    OBVIOUS
  <1>2. PICK edge \in graph.edges : edge[1][1] = u /\ edge[2][1] = n
    BY <1>1 DEF LikesReachGraph
  <1>3. edge \in UserNodes \X (graph.nodes \ UserNodes)
    BY DEF TypeOK
  <1> QED BY <1>2, <1>3 DEF UserNodes

(* Paths to an event and reasons to recommend it are as many.              *)
LEMMA PathsAreReasons ==
  ASSUME TypeOK, GraphOK, LikesReachGraph, Clean, NEW u \in Users, NEW n \in Names
  PROVE  LET P == {p \in Paths(u) : p[4][1] = n}
         IN  ExistsBijection(P, Reasons(u, n))
  <1> DEFINE P == {p \in Paths(u) : p[4][1] = n}
             R == Reasons(u, n)
             f == [p \in P |-> <<p[2][1], p[3][1]>>]
  <1>1. \A a, b \in graph.nodes : a[1] = b[1] => a = b
    BY OneNode DEF Clean, GraphOK, Nodes
  <1>2. \A a, b : <<a, b>> \in rows =>
          \E edge \in graph.edges :
            /\ edge = <<edge[1], edge[2]>> /\ edge[1][1] = a /\ edge[2][1] = b
            /\ edge[1] \in graph.nodes /\ edge[2] \in graph.nodes
    <2> SUFFICES ASSUME NEW a, NEW b, <<a, b>> \in rows
                 PROVE  ~Pending(a, b) /\ <<a, b>> \notin lost
      BY EdgeOf
    <2>1. <<a, b>>[1] = a /\ <<a, b>>[2] = b
      OBVIOUS
    <2> QED BY <2>1 DEF Clean
  <1>3. \A a, b : <<a, b>> \in graph.edges => <<a[1], b[1]>> \in rows
    <2> SUFFICES ASSUME NEW a, NEW b, <<a, b>> \in graph.edges
                 PROVE  <<a[1], b[1]>> \in rows
      OBVIOUS
    <2>1. <<a, b>>[1] = a /\ <<a, b>>[2] = b
      OBVIOUS
    <2>2. \A edge \in graph.edges : <<edge[1][1], edge[2][1]>> \in rows
      BY DEF Clean
    <2> QED BY <2>1, <2>2
  <1>4. ASSUME NEW p \in P PROVE <<p[2][1], p[3][1]>> \in R
    <2>1. /\ {p[1], p[2], p[3], p[4]} \subseteq graph.nodes
          /\ {<<p[1], p[2]>>, <<p[3], p[2]>>, <<p[3], p[4]>>} \subseteq graph.edges
          /\ <<p[1], p[4]>> \notin graph.edges
          /\ p[1] # p[3] /\ p[1][1] = u /\ p[3][1] \in Users
          /\ p[2][1] \in Names /\ p[4][1] = n
      BY PathEdges
    <2>2. p[3][1] \in Users \ {u}
      BY <1>1, <2>1
    <2>3. {<<u, p[2][1]>>, <<p[3][1], p[2][1]>>, <<p[3][1], n>>} \subseteq rows
      BY <1>3, <2>1
    <2>4. <<u, n>> \notin rows
      <3> SUFFICES ASSUME <<u, n>> \in rows PROVE FALSE
        OBVIOUS
      <3>1. PICK edge \in graph.edges :
              /\ edge = <<edge[1], edge[2]>> /\ edge[1][1] = u /\ edge[2][1] = n
              /\ edge[1] \in graph.nodes /\ edge[2] \in graph.nodes
        BY <1>2
      <3>2. edge[1] = p[1] /\ edge[2] = p[4]
        BY <1>1, <2>1, <3>1
      <3> QED BY <2>1, <3>1, <3>2
    <2> QED BY <2>1, <2>2, <2>3, <2>4 DEF Reasons
  <1>5. ASSUME NEW p \in P, NEW q \in P, f[p] = f[q] PROVE p = q
    <2>1. p[2][1] = q[2][1] /\ p[3][1] = q[3][1]
      BY <1>5
    <2>2. /\ p = <<p[1], p[2], p[3], p[4]>> /\ {p[1], p[2], p[3], p[4]} \subseteq graph.nodes
          /\ p[1][1] = u /\ p[4][1] = n
      BY PathEdges
    <2>3. /\ q = <<q[1], q[2], q[3], q[4]>> /\ {q[1], q[2], q[3], q[4]} \subseteq graph.nodes
          /\ q[1][1] = u /\ q[4][1] = n
      BY PathEdges
    <2>4. p[1] = q[1] /\ p[2] = q[2] /\ p[3] = q[3] /\ p[4] = q[4]
      BY <1>1, <2>1, <2>2, <2>3
    <2> QED BY <2>2, <2>3, <2>4, Zenon
  <1>6. ASSUME NEW why \in R PROVE \E p \in P : f[p] = why
    <2>1. /\ why = <<why[1], why[2]>> /\ why[2] # u
          /\ <<u, why[1]>> \in rows /\ <<why[2], why[1]>> \in rows /\ <<why[2], n>> \in rows
          /\ <<u, n>> \notin rows
      BY DEF Reasons
    <2>2. PICK a \in graph.edges :
              /\ a = <<a[1], a[2]>> /\ a[1][1] = u /\ a[2][1] = why[1]
              /\ a[1] \in graph.nodes /\ a[2] \in graph.nodes
      BY <1>2, <2>1
    <2>3. PICK b \in graph.edges :
              /\ b = <<b[1], b[2]>> /\ b[1][1] = why[2] /\ b[2][1] = why[1]
              /\ b[1] \in graph.nodes /\ b[2] \in graph.nodes
      BY <1>2, <2>1
    <2>4. PICK c \in graph.edges :
              /\ c = <<c[1], c[2]>> /\ c[1][1] = why[2] /\ c[2][1] = n
              /\ c[1] \in graph.nodes /\ c[2] \in graph.nodes
      BY <1>2, <2>1
    <2>5. a[2] = b[2] /\ b[1] = c[1]
      BY <1>1, <2>2, <2>3, <2>4
    <2> DEFINE p == <<a[1], a[2], c[1], c[2]>>
    <2>6. p \in Paths(u)
      <3>1. {<<a[1], a[2]>>, <<c[1], a[2]>>, <<c[1], c[2]>>} \subseteq graph.edges
        BY <2>2, <2>3, <2>4, <2>5
      <3>2. <<a[1], c[2]>> \notin graph.edges
        BY <1>3, <2>1, <2>2, <2>4
      <3> QED BY <2>1, <2>2, <2>4, <3>1, <3>2, EdgesPath
    <2>7. p[2] = a[2] /\ p[3] = c[1] /\ p[4] = c[2]
      OBVIOUS
    <2> HIDE DEF p
    <2>8. p \in P
      BY <2>4, <2>6, <2>7
    <2> QED BY <2>1, <2>2, <2>4, <2>7, <2>8
  <1> HIDE DEF P, R
  <1>7. f \in Bijection(P, R)
    BY <1>4, <1>5, <1>6 DEF Bijection, Injection, Surjection, IsInjective
  <1> QED BY <1>7 DEF ExistsBijection, P, R

(* While the graph holds the likes of the stores (none of these was lost   *)
(* or is pending, none was withdrawn) and no id has two nodes, the query   *)
(* recommends what another user with a like in common likes and the user   *)
(* does not, with the number of the reasons as its score.                  *)
THEOREM RecommendationsFollow == Spec => []RecommendsFromLikes
  <1>1. ASSUME Inv PROVE RecommendsFromLikes
    <2> SUFFICES ASSUME Clean, NEW u \in accounts
                 PROVE  /\ Recommended(u) = {n \in Names : Reasons(u, n) # {}}
                        /\ \A n \in Recommended(u) : Score(u, n) = Cardinality(Reasons(u, n))
      BY DEF RecommendsFromLikes
    <2>1. TypeOK /\ GraphOK /\ LikesReachGraph /\ u \in Users
      BY <1>1 DEF Inv, TypeOK
    <2> DEFINE P(n) == {p \in Paths(u) : p[4][1] = n}
    <2>2. \A n \in Names : ExistsBijection(P(n), Reasons(u, n))
      BY <2>1, PathsAreReasons
    <2>3. Recommended(u) \subseteq Names
      BY <2>1, PathsOK
    <2>4. \A n : n \in Recommended(u) <=> P(n) # {}
      BY DEF Recommended
    <2>5. \A n : IsFiniteSet(P(n)) /\ Score(u, n) = Cardinality(P(n))
      <3> TAKE n
      <3>1. P(n) \in SUBSET Paths(u)
        OBVIOUS
      <3>2. IsFiniteSet(P(n))
        BY <2>1, <3>1, PathsOK, FS_Subset
      <3> QED BY <3>2 DEF Score
    <2> HIDE DEF P
    <2>6. \A n \in Names : P(n) # {} <=> Reasons(u, n) # {}
      BY <2>2 DEF ExistsBijection, Bijection, Injection, Surjection
    <2>7. \A n \in Names : Cardinality(P(n)) = Cardinality(Reasons(u, n))
      BY <2>2, <2>5, FS_Bijection
    <2>8. Recommended(u) = {n \in Names : Reasons(u, n) # {}}
      BY <2>3, <2>4, <2>6
    <2>9. \A n \in Recommended(u) : Score(u, n) = Cardinality(Reasons(u, n))
      BY <2>3, <2>5, <2>7
    <2> QED BY <2>8, <2>9
  <1> QED BY <1>1, InvInvariant, PTL

(* An event its user likes is recommended only for a cause: the like is    *)
(* under another spelling, this very like was lost on its way to the graph *)
(* or is pending, or the user's or the event's id got two nodes.           *)
THEOREM OwnLikesHaveACause == Spec => []OwnLikeHasCause
  <1>1. ASSUME Inv PROVE OwnLikeHasCause
    <2> SUFFICES ASSUME NEW u \in accounts, NEW n \in Recommended(u), <<u, n>> \in rows,
                        <<u, n>> \notin lost, ~Pending(u, n), ~Twins(u), ~Twins(n)
                 PROVE  FALSE
      BY DEF OwnLikeHasCause
    <2>1. TypeOK /\ GraphOK /\ LikesReachGraph /\ u \in Users
      BY <1>1 DEF Inv, TypeOK
    <2>2. PICK p \in Paths(u) : p[4][1] = n
      BY DEF Recommended
    <2>3. /\ p[1] \in graph.nodes /\ p[4] \in graph.nodes /\ p[1][1] = u
          /\ <<p[1], p[4]>> \notin graph.edges
      BY <2>1, PathEdges
    <2>4. PICK edge \in graph.edges :
           /\ edge = <<edge[1], edge[2]>> /\ edge[1][1] = u /\ edge[2][1] = n
           /\ edge[1] \in graph.nodes /\ edge[2] \in graph.nodes
      BY <2>1, EdgeOf
    <2>5. edge[1] = p[1]
      BY <2>1, <2>3, <2>4, OneNode
    <2>6. edge[2] = p[4]
      BY <2>1, <2>2, <2>3, <2>4, OneNode
    <2> QED BY <2>3, <2>4, <2>5, <2>6
  <1> QED BY <1>1, InvInvariant, PTL

-----------------------------------------------------------------------------
(* The list that is answered                                               *)

LEMMA RankedIs == ListIsRanking <=> \A r \in Requests : At(r, "set") => Ranked(req[r])
  BY DEF ListIsRanking, Ranked

(* A slot at "set" was there before, or has just loaded its list.          *)
LEMMA SetIsFromLoad ==
  ASSUME req \in [Requests -> RequestType], [Next]_vars, NEW r \in Requests,
         req'[r].pc = "set"
  PROVE  req'[r] = req[r] \/ Load(r)
  <1>1. ASSUME NEW p \in Requests, NEW z, req' = [req EXCEPT ![p] = z], z.pc # "set"
        PROVE  req'[r] = req[r]
    BY <1>1
  <1>2. Idle.pc = "idle"
    BY DEF Idle
  <1>3. ASSUME NEW p \in Requests,
               \/ \E u \in Users : Register(p, u) \/ Ask(p, u)
               \/ \E e \in Events : CreateEvent(p, e)
               \/ \E u \in Users, n \in Names : LikeEvent(p, u, n)
        PROVE  req'[r] = req[r]
    <2>1. \A x, u, n : /\ [Idle EXCEPT !.pc = x, !.user = u].pc = x
                       /\ [Idle EXCEPT !.pc = x, !.name = n].pc = x
                       /\ [Idle EXCEPT !.pc = x, !.user = u, !.name = n].pc = x
      BY DEF Idle
    <2> HIDE DEF Idle
    <2>2. ASSUME NEW u \in Users, Register(p, u) \/ Ask(p, u) PROVE req'[r] = req[r]
      <3>1. CASE Register(p, u)
        BY <1>1, <2>1, <3>1 DEF Register
      <3>2. CASE Ask(p, u)
        BY <1>1, <2>1, <3>2 DEF Ask
      <3> QED BY <2>2, <3>1, <3>2
    <2>3. ASSUME NEW e \in Events, CreateEvent(p, e) PROVE req'[r] = req[r]
      BY <1>1, <2>1, <2>3 DEF CreateEvent
    <2>4. ASSUME NEW u \in Users, NEW n \in Names, LikeEvent(p, u, n) PROVE req'[r] = req[r]
      <3> DEFINE z == [Idle EXCEPT !.pc = "merge user", !.user = u, !.name = n]
      <3>1. req' = [req EXCEPT ![p] = z] \/ req' = req
        BY <2>4 DEF LikeEvent
      <3>2. z.pc # "set"
        BY <2>1
      <3> HIDE DEF z
      <3> QED BY <1>1, <3>1, <3>2
    <2> QED BY <1>3, <2>2, <2>3, <2>4
  <1>4. ASSUME NEW p \in Requests, MergeUser(p) \/ MergeEvent(p)
        PROVE  req'[r] = req[r]
    <2>1. req[p] \in RequestType
      OBVIOUS
    <2>2. p = r => req'[r].pc \in {"commit", "merge event"}
      BY <1>4, <2>1 DEF MergeUser, MergeEvent, RequestType
    <2> QED BY <1>4, <2>2 DEF MergeUser, MergeEvent
  <1>5. ASSUME NEW p \in Requests, Commit(p) \/ Set(p) \/ Done(p)
        PROVE  req'[r] = req[r]
    <2> HIDE DEF Idle
    <2> QED BY <1>1, <1>2, <1>5 DEF Commit, Set, Done
  <1>6. ASSUME NEW p \in Requests, GetCached(p) \/ Query(p)
        PROVE  req'[r] = req[r]
    <2>1. CASE Done(p)
      BY <1>5, <2>1
    <2>2. CASE ~Done(p)
      <3>1. req[p] \in RequestType
        OBVIOUS
      <3>2. p = r => req'[r].pc \in {"query", "load"}
        BY <1>6, <2>2, <3>1 DEF GetCached, Query, Go, RequestType
      <3> QED BY <1>6, <2>2, <3>2 DEF GetCached, Query, Go
    <2> QED BY <2>1, <2>2
  <1>7. ASSUME NEW p \in Requests, Load(p)
        PROVE  req'[r] = req[r] \/ Load(r)
    <2>1. PICK x, y : req' = [req EXCEPT ![p].loaded = x, ![p].pc = "set", ![p].list = y]
      BY <1>7 DEF Load
    <2>2. p # r => req'[r] = req[r]
      BY <2>1
    <2> QED BY <1>7, <2>2
  <1>8. CASE \/ UNCHANGED vars
             \/ \E u \in Users : Expire(u)
             \/ \E u \in Users, n \in Names : DislikeEvent(u, n)
    BY <1>8 DEF vars, Expire, DislikeEvent
  <1> QED BY <1>3, <1>4, <1>5, <1>6, <1>7, <1>8 DEF Next

(* The list that is answered and cached ranks the events that could be     *)
(* looked up, one per title, titles by the sum of their scores.            *)
THEOREM ListRanks == Spec => []ListIsRanking
  <1>1. Init => ListIsRanking
    BY RankedIs DEF Init, At, Idle
  <1>2. Inv /\ ListIsRanking /\ [Next]_vars => ListIsRanking'
    <2> SUFFICES ASSUME Inv, ListIsRanking, [Next]_vars, NEW r \in Requests, req'[r].pc = "set"
                 PROVE  Ranked(req'[r])
      BY RankedIs DEF ListIsRanking, Ranked, At
    <2>1. req \in [Requests -> RequestType]
      BY DEF Inv, RequestsOK
    <2>2. CASE req'[r] = req[r]
      BY <2>2, RankedIs DEF At
    <2>3. CASE Load(r)
      BY <2>1, <2>3, Loads
    <2> QED BY <2>1, <2>2, <2>3, SetIsFromLoad
  <1> QED BY <1>1, <1>2, InvInvariant, PTL DEF Spec
=============================================================================
