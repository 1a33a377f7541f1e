---------------------------- MODULE Recommendations ----------------------------
(***************************************************************************)
(* Recommendations and the graph they are read from: the writes of         *)
(* Register, CreateEvent and LikeEvent to Neo4j                            *)
(* (internal/storage/neo4j/graph.go), GetRecommendations                   *)
(* (internal/service/recommendation.go) and its cache                      *)
(* (internal/storage/redis/recommendation.go).                             *)
(*                                                                         *)
(* A write to the graph is a transaction of MERGE clauses.  No code makes  *)
(* `id` unique in the graph, so a MERGE that finds no node creates one,    *)
(* whatever a transaction that has not committed yet is creating: an id    *)
(* may get several nodes, its copies.  A MERGE matches all copies there    *)
(* are, and an edge is made from every matched user to every matched       *)
(* event.                                                                  *)
(* A dislike takes no edge away.                                           *)
(*                                                                         *)
(* An event is found under every spelling of its id (idAlternatives of     *)
(* internal/storage/mongodb), while a reaction and the graph use the       *)
(* spelling of the request: a name below is a spelling.                    *)
(***************************************************************************)
EXTENDS Naturals, FiniteSets, Sequences, Functions

CONSTANTS
  Users,       \* user ids
  Names,       \* spellings of event ids
  Denotes,     \* the event a spelling denotes; a denoted event is a name too
  TitleOf,     \* the title of an event
  StartOf,     \* when an event starts
  OldUsers,    \* the users and the events that are in all stores at the
  OldEvents,   \* start, with any likes among them under OldNames
  OldNames,
  Requests,    \* request slots: how many requests may be in flight
  MaxWrites,   \* how many requests that write are made, and how many that
  MaxReaders,  \* read run at a time (bounds of a run)
  None,        \* no cached list, no user, no name
  Faults       \* may calls to the stores fail

Events == {Denotes[n] : n \in Names}

ASSUME ConstantsAssumption ==
  /\ OldUsers \subseteq Users /\ OldEvents \subseteq Events /\ Events \subseteq Names
  /\ \A e \in Events : Denotes[e] = e /\ StartOf[e] \in Nat
  /\ None \notin Users \cup Names
  /\ Users \cap Names = {}
  /\ \A S \in {OldUsers, OldNames, OldEvents, Requests} : IsFiniteSet(S)
  /\ Requests # {}
  /\ OldNames \subseteq Names /\ \A n \in OldNames : Denotes[n] \in OldEvents
  /\ MaxWrites \in Nat /\ MaxReaders \in Nat /\ Faults \in BOOLEAN

VARIABLES
  accounts,    \* users in MongoDB
  events,      \* events in MongoDB
  rows,        \* likes stored in Cassandra: <<user, name>>
  graph,       \* nodes <<id, copy>> and LIKED edges <<user node, event node>>
  cache,       \* the list cached per user, or None
  req,         \* the requests in flight
  made,        \* how many writing requests were begun
  lost         \* history: likes whose upsert reported an error, which ends
               \* the request, or whose write to the graph failed

vars == <<accounts, events, rows, graph, cache, req, made, lost>>

Copies == 1 .. Cardinality(Requests)

Idle == [pc |-> "idle", user |-> None, name |-> None, us |-> {}, es |-> {},
         recs |-> <<>>, loaded |-> {}, list |-> <<>>]

At(r, pc) == req[r].pc = pc
Go(r, pc) == req' = [req EXCEPT ![r].pc = pc]
Done(r) == req' = [req EXCEPT ![r] = Idle]

NodesOf(id) == {n \in graph.nodes : n[1] = id}
Twins(id) == Cardinality(NodesOf(id)) > 1

-----------------------------------------------------------------------------
(* Writes                                                                  *)

(* The account or the event is in MongoDB, or the like in Cassandra,       *)
(* before the transaction on the graph begins.                             *)
Register(r, u) ==
  /\ At(r, "idle") /\ u \notin accounts /\ made < MaxWrites
  /\ accounts' = accounts \cup {u}
  /\ req' = [req EXCEPT ![r] = [Idle EXCEPT !.pc = "merge user", !.user = u]]
  /\ made' = made + 1
  /\ UNCHANGED <<events, rows, graph, cache, lost>>

CreateEvent(r, e) ==
  /\ At(r, "idle") /\ e \notin events /\ made < MaxWrites
  /\ events' = events \cup {e}
  /\ req' = [req EXCEPT ![r] = [Idle EXCEPT !.pc = "merge event", !.name = e]]
  /\ made' = made + 1
  /\ UNCHANGED <<accounts, rows, graph, cache, lost>>

(* An upsert that reports an error after it stored the row ends the        *)
(* request with a 500, before the graph.                                   *)
MutLikeEvent(r, u, n) ==
  /\ At(r, "idle") /\ u \in accounts /\ Denotes[n] \in events /\ made < MaxWrites
  /\ rows' = rows \cup {<<u, n>>}
  /\ req' = [req EXCEPT ![r] = [Idle EXCEPT !.pc = "merge event", !.user = u, !.name = n]]
  /\ made' = made + 1
  /\ UNCHANGED <<accounts, events, graph, cache, lost>>

LikeEvent(r, u, n) ==
  /\ At(r, "idle") /\ u \in accounts /\ Denotes[n] \in events /\ made < MaxWrites
  /\ rows' = rows \cup {<<u, n>>}
  /\ \/ /\ req' = [req EXCEPT ![r] = [Idle EXCEPT !.pc = "merge user", !.user = u, !.name = n]]
        /\ UNCHANGED lost
     \/ Faults /\ lost' = lost \cup {<<u, n>>} /\ UNCHANGED req
  /\ made' = made + 1
  /\ UNCHANGED <<accounts, events, graph, cache>>

(* DislikeEvent puts its row in the place of the like and leaves the graph *)
(* as it is, whether or not its upsert reports an error after storing.     *)
DislikeEvent(u, n) ==
  /\ <<u, n>> \in rows /\ made < MaxWrites
  /\ rows' = rows \ {<<u, n>>}
  /\ made' = made + 1
  /\ UNCHANGED <<accounts, events, graph, cache, req, lost>>

(* The nodes a MERGE binds: all that match, or a new copy.                 *)
Fresh(id) == <<id, CHOOSE k \in Copies : <<id, k>> \notin graph.nodes
                                 /\ \A r \in Requests : <<id, k>> \notin req[r].us \cup req[r].es>>
Merged(id) == IF NodesOf(id) = {} THEN {Fresh(id)} ELSE NodesOf(id)

MergeUser(r) ==
  /\ At(r, "merge user")
  /\ req' = [req EXCEPT ![r].us = Merged(req[r].user),
                        ![r].pc = IF req[r].name = None THEN "commit" ELSE "merge event"]
  /\ UNCHANGED <<accounts, events, rows, graph, cache, made, lost>>

MergeEvent(r) ==
  /\ At(r, "merge event")
  /\ req' = [req EXCEPT ![r].es = Merged(req[r].name), ![r].pc = "commit"]
  /\ UNCHANGED <<accounts, events, rows, graph, cache, made, lost>>

MutNewEdges(r) == {<<req[r].user, 1>>} \X req[r].es
NewEdges(r) == req[r].us \X req[r].es

(* The like a request carries: none if it registers or creates.            *)
LikeOf(q) == {<<q.user, q.name>>} \cap (Users \X Names)

(* The transaction commits, all of it or nothing; an error is only logged. *)
Commit(r) ==
  /\ At(r, "commit")
  /\ \/ /\ graph' = [nodes |-> graph.nodes \cup req[r].us \cup req[r].es,
                     edges |-> graph.edges \cup NewEdges(r)]
        /\ UNCHANGED lost
     \/ Faults /\ lost' = lost \cup LikeOf(req[r]) /\ UNCHANGED graph
  /\ Done(r)
  /\ UNCHANGED <<accounts, events, rows, cache, made>>

-----------------------------------------------------------------------------
(* GetRecommendedEventIDs                                                  *)

Liked(node) == {edge[2] : edge \in {d \in graph.edges : d[1] = node}}
UserNodes == {n \in graph.nodes : n[1] \in Users}

(* One path of the query per copy u of the user, event e that u and        *)
(* another node `other` like, and event `rec` that other likes and u not.  *)
MutPaths(user) ==
  UNION {{<<u, e, other, rec>> : e \in Liked(u) \cap Liked(other), rec \in Liked(other)}
         : u \in NodesOf(user), other \in {n \in UserNodes : n[1] # user}}

Paths(user) ==
  UNION {UNION {{<<u, e, other, rec>> : e \in Liked(u) \cap Liked(other),
                                        rec \in Liked(other) \ Liked(u)}
                : other \in UserNodes \ {u}} : u \in NodesOf(user)}

(* The number of paths per id, in descending order, ties in any order.     *)
MutScore(user, name) == Cardinality({m[3] : m \in {p \in Paths(user) : p[4][1] = name}})
Score(user, name) == Cardinality({m \in Paths(user) : m[4][1] = name})
Recommended(user) == {m[4][1] : m \in Paths(user)}

Orders(user) ==
  {s \in [1 .. Cardinality(Recommended(user)) -> Recommended(user)] :
     \A i, j \in DOMAIN s : i < j => s[i] # s[j] /\ Score(user, s[i]) >= Score(user, s[j])}

Rows(user) == {[i \in DOMAIN s |-> [id |-> s[i], score |-> Score(user, s[i])]]
                : s \in Orders(user)}

-----------------------------------------------------------------------------
(* GetRecommendations                                                      *)

(* The elements of S, each once, as the order `before` (a set of pairs)     *)
(* has them.                                                               *)
InOrder(S, before) ==
  [k \in 1 .. Cardinality(S) |->
     CHOOSE a \in S : Cardinality({b \in S : <<b, a>> \in before}) = k - 1]

Ascending(S) == InOrder(S, {p \in S \X S : p[1] < p[2]})

(* deduplicateByTitle keeps of each title the event that starts first, in  *)
(* the place of the title's first event.                                   *)
MutDeduplicated(found) ==
  LET First(i) == \A j \in 1 .. (i - 1) : TitleOf[found[j]] # TitleOf[found[i]]
      places == Ascending({i \in DOMAIN found : First(i)})
  IN  [k \in DOMAIN places |-> found[places[k]]]

Deduplicated(found) ==
  LET First(i) == \A j \in 1 .. (i - 1) : TitleOf[found[j]] # TitleOf[found[i]]
      places == Ascending({i \in DOMAIN found : First(i)})
      Alike(k) == {j \in DOMAIN found : TitleOf[found[j]] = TitleOf[found[places[k]]]}
      Earliest(k) == CHOOSE j \in Alike(k) : \A i \in Alike(k) :
                       \/ StartOf[found[j]] < StartOf[found[i]]
                       \/ StartOf[found[j]] = StartOf[found[i]] /\ j <= i
  IN  [k \in DOMAIN places |-> found[Earliest(k)]]

(* titleScore: the scores of all recommended events of a title.            *)
TitleScore(recs, title) ==
  SumFunction([i \in DOMAIN recs |->
                 IF TitleOf[Denotes[recs[i].id]] = title THEN recs[i].score ELSE 0])

(* The stable sort by title score.                                         *)
Sorted(found, recs) ==
  LET score(i) == TitleScore(recs, TitleOf[found[i]])
      places == InOrder(DOMAIN found, {p \in (DOMAIN found) \X DOMAIN found :
                  \/ score(p[1]) > score(p[2])
                  \/ score(p[1]) = score(p[2]) /\ p[1] < p[2]})
  IN  [k \in DOMAIN places |-> found[places[k]]]

Reading(r) == req[r].pc \in {"get", "query", "load", "set"}

Ask(r, u) ==
  /\ At(r, "idle") /\ u \in accounts
  /\ Cardinality({q \in Requests : Reading(q)}) < MaxReaders
  /\ req' = [req EXCEPT ![r] = [Idle EXCEPT !.pc = "get", !.user = u]]
  /\ UNCHANGED <<accounts, events, rows, graph, cache, made, lost>>

(* A hit, an empty list too, is the answer; an error is a 500.             *)
GetCached(r) ==
  /\ At(r, "get")
  /\ IF cache[req[r].user] = None THEN Go(r, "query") \/ (Faults /\ Done(r))
                                  ELSE Done(r)
  /\ UNCHANGED <<accounts, events, rows, graph, cache, made, lost>>

Query(r) ==
  /\ At(r, "query")
  /\ \/ \E recs \in Rows(req[r].user) :
          req' = [req EXCEPT ![r].recs = recs, ![r].pc = "load"]
     \/ Faults /\ Done(r)
  /\ UNCHANGED <<accounts, events, rows, graph, cache, made, lost>>

(* The events are looked up one by one and never change; one that cannot   *)
(* be looked up is left out.                                               *)
Load(r) ==
  /\ At(r, "load")
  /\ \E loaded \in IF Faults THEN SUBSET {x.id : x \in Range(req[r].recs)}
                             ELSE {{x.id : x \in Range(req[r].recs)}} :
       LET kept  == Ascending({i \in DOMAIN req[r].recs : req[r].recs[i].id \in loaded})
           found == [k \in DOMAIN kept |-> Denotes[req[r].recs[kept[k]].id]]
       IN  req' = [req EXCEPT ![r].loaded = loaded, ![r].pc = "set",
                              ![r].list = Sorted(Deduplicated(found), req[r].recs)]
  /\ UNCHANGED <<accounts, events, rows, graph, cache, made, lost>>

(* The answer is the list, whether or not it could be cached.              *)
Set(r) ==
  /\ At(r, "set")
  /\ \/ cache' = [cache EXCEPT ![req[r].user] = req[r].list]
     \/ Faults /\ UNCHANGED cache
  /\ Done(r)
  /\ UNCHANGED <<accounts, events, rows, graph, made, lost>>

Expire(u) ==
  /\ cache[u] # None
  /\ cache' = [cache EXCEPT ![u] = None]
  /\ UNCHANGED <<accounts, events, rows, graph, req, made, lost>>

Old(likes) ==
  [nodes |-> (OldUsers \cup OldEvents \cup {l[2] : l \in likes}) \X {1},
   edges |-> {<<<<l[1], 1>>, <<l[2], 1>>>> : l \in likes}]

Init ==
  /\ accounts = OldUsers /\ events = OldEvents
  /\ \E likes \in SUBSET (OldUsers \X OldNames) : rows = likes /\ graph = Old(likes)
  /\ cache = [u \in Users |-> None]
  /\ req = [r \in Requests |-> Idle]
  /\ made = 0 /\ lost = {}

Next ==
  \/ \E r \in Requests :
       \/ \E u \in Users : Register(r, u) \/ Ask(r, u)
       \/ \E e \in Events : CreateEvent(r, e)
       \/ \E u \in Users, n \in Names : LikeEvent(r, u, n)
       \/ MergeUser(r) \/ MergeEvent(r) \/ Commit(r)
       \/ GetCached(r) \/ Query(r) \/ Load(r) \/ Set(r)
  \/ \E u \in Users : Expire(u)
  \/ \E u \in Users, n \in Names : DislikeEvent(u, n)

Spec == Init /\ [][Next]_vars
-----------------------------------------------------------------------------
(* Properties                                                              *)

(* The variables have their types; an edge has nodes at its ends, and a    *)
(* copy that two transactions create is two copies.                        *)
TypeOK ==
  /\ accounts \subseteq Users /\ events \subseteq Events
  /\ rows \subseteq accounts \X Names
  /\ graph.nodes \subseteq (Users \cup Names) \X Copies
  /\ graph.edges \subseteq UserNodes \X (graph.nodes \ UserNodes)
  /\ \A u \in Users : cache[u] = None \/ Range(cache[u]) \subseteq events
  /\ \A r \in Requests :
       /\ req[r].pc \in {"idle", "merge user", "merge event", "commit",
                         "get", "query", "load", "set"}
       /\ req[r].user \in Users \cup {None} /\ req[r].name \in Names \cup {None}
       /\ Range(req[r].list) \subseteq events
  /\ made \in 0 .. MaxWrites /\ lost \subseteq Users \X Names

Pending(u, n) ==
  \E r \in Requests : req[r].user = u /\ req[r].name = n
                      /\ req[r].pc \in {"merge user", "merge event", "commit"}

(* A like that is stored reaches the graph, as an edge from a node of its  *)
(* user to one of its event, unless it is this like whose upsert reported  *)
(* an error or whose write to the graph failed; before that, its request   *)
(* is still on its way there.                                              *)
LikesReachGraph ==
  \A l \in rows :
    \/ \E edge \in graph.edges : edge[1][1] = l[1] /\ edge[2][1] = l[2]
    \/ Pending(l[1], l[2])
    \/ l \in lost

(* The graph and the likes of the stores say the same: no stored like was  *)
(* lost on its way or is under way, none was withdrawn, no id has two      *)
(* nodes.                                                                  *)
Clean ==
  /\ rows \cap lost = {}
  /\ \A edge \in graph.edges : <<edge[1][1], edge[2][1]>> \in rows
  /\ \A l \in rows : ~Pending(l[1], l[2])
  /\ \A id \in Users \cup Names : ~Twins(id)

(* What a recommendation is to be counted from, the likes themselves: a    *)
(* name u likes, with another user who likes that and n.                   *)
Reasons(u, n) ==
  {why \in Names \X (Users \ {u}) :
     /\ {<<u, why[1]>>, <<why[2], why[1]>>, <<why[2], n>>} \subseteq rows
     /\ <<u, n>> \notin rows}

(* While the graph has one node per id and an edge for each like that is   *)
(* stored and no other, the query returns exactly the events that another  *)
(* user with a like in common likes and the user does not, each with the   *)
(* number of such pairs.                                                   *)
RecommendsFromLikes ==
  Clean => \A u \in accounts :
    /\ Recommended(u) = {n \in Names : Reasons(u, n) # {}}
    /\ \A n \in Recommended(u) : Score(u, n) = Cardinality(Reasons(u, n))

(* A user is recommended an event it likes only if this like is under      *)
(* another spelling of the id, was lost on its way to the graph (its       *)
(* upsert or its write to the graph failed) or is not there yet, or the    *)
(* node of the user or of the event was created twice.                     *)
OwnLikeHasCause ==
  \A u \in accounts : \A n \in Recommended(u) : \A m \in Names :
    <<u, m>> \in rows /\ Denotes[m] = Denotes[n] =>
      m # n \/ <<u, m>> \in lost \/ Pending(u, m) \/ Twins(u) \/ Twins(n)

SumOfScores(recs, title) ==
  LET of == {i \in DOMAIN recs : TitleOf[Denotes[recs[i].id]] = title}
  IN  SumFunction([i \in of |-> recs[i].score])

(* The list that is answered and cached is the ranking of the events that  *)
(* could be looked up: one event per title, the one that starts first,     *)
(* titles by the sum of the scores of all their recommended events, those  *)
(* of events that could not be looked up included.                         *)
ListIsRanking ==
  \A r \in Requests : At(r, "set") =>
    LET list == req[r].list
        found == {Denotes[n] : n \in req[r].loaded}
        sum(i) == SumOfScores(req[r].recs, TitleOf[list[i]])
    IN  /\ Range(list) \subseteq found
        /\ {TitleOf[list[i]] : i \in DOMAIN list} = {TitleOf[e] : e \in found}
        /\ \A i, j \in DOMAIN list : i < j =>
             TitleOf[list[i]] # TitleOf[list[j]] /\ sum(i) >= sum(j)
        /\ \A i \in DOMAIN list : \A e \in found :
             TitleOf[e] = TitleOf[list[i]] => StartOf[list[i]] <= StartOf[e]
=============================================================================
