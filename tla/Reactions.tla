------------------------------ MODULE Reactions ------------------------------
(***************************************************************************)
(* Likes and dislikes: EventService.reactToEvent and reactionsByTitle      *)
(* (internal/service/event.go) with the Cassandra table of reactions, the  *)
(* LIKED edges of the Neo4j graph and the Redis cache of counts per title. *)
(*                                                                         *)
(* Counts are shown per title, over all events that share it.  A writer    *)
(* stores its row, adds the edge, recounts and overwrites the cache; a     *)
(* reader that misses the cache counts and fills it.  Counting reads one   *)
(* event after the other, no two calls of a request are atomic together,   *)
(* and nothing orders the writers of one cache entry.                      *)
(*                                                                         *)
(* An event is found under every spelling of its id (idAlternatives of     *)
(* internal/storage/mongodb reads hexadecimal digits of either case), but  *)
(* the reaction is stored under the spelling of the request, and a count   *)
(* asks for the id as MongoDB returns it.  A name below is a spelling; a   *)
(* reaction under any other than the event's id is stored, answered with   *)
(* 204 and never counted.                                                  *)
(***************************************************************************)
EXTENDS Naturals, FiniteSets

CONSTANTS
  Events,      \* event ids that may be created (bounds a run)
  Names,       \* the spellings of event ids; an id is a spelling of itself
  Denotes,     \* the event a spelling is found as
  Titles,
  TitleOf,     \* the title each event is created with; no handler changes it
  Users,       \* users that react
  Requests,    \* request slots: how many requests may be in flight
  None,        \* no row, no cache entry, no value
  Faults       \* may calls to the stores fail

ASSUME ReactionsAssumption ==
  /\ TitleOf \in [Events -> Titles]
  /\ Events \subseteq Names /\ Denotes \in [Names -> Events]
  /\ \A e \in Events : Denotes[e] = e
  /\ IsFiniteSet(Names) /\ IsFiniteSet(Users)
  /\ None \notin Names \cup Titles \cup Users \cup {"Like", "Dislike"}
  /\ None \notin [likes : Nat, dislikes : Nat]
  /\ Faults \in BOOLEAN

VARIABLES
  events,      \* the events collection (MongoDB); events are never deleted
  rows,        \* event_reactions: per (event_id, created_by) the like_value;
               \* event_id is a spelling
  liked,       \* LIKED edges <<user, name>> of the graph
  cache,       \* event:<title hash>:reactions, the counts or None
  req,         \* requests in flight
  \* History variable; no action reads it.
  tainted      \* titles whose entry was written late or left behind

vars == <<events, rows, liked, cache, req, tainted>>

-----------------------------------------------------------------------------
Kinds == {"Like", "Dislike"}
Counts == [likes : Nat, dislikes : Nat]

(* The slots of requests.  `todo` is what CountByEventIDs still has to     *)
(* query, `sum` what it has counted; `late` is history: a reaction to the  *)
(* title was stored after the request had listed the events.               *)
Idle == [pc |-> "idle", op |-> "Read", user |-> None, name |-> None, title |-> None,
         todo |-> {}, sum |-> [likes |-> 0, dislikes |-> 0], late |-> FALSE]

RequestType ==
  [pc : {"idle", "upsert", "graph", "get", "list", "count", "set"},
   op : Kinds \cup {"Read"}, user : Users \cup {None}, name : Names \cup {None},
   title : Titles \cup {None}, todo : SUBSET Events, sum : Counts, late : BOOLEAN]

Active(r) == req[r].pc # "idle"
Listed(r) == req[r].pc \in {"count", "set"}

(* A reaction past its upsert.                                             *)
Writing(r) == req[r].op \in Kinds /\ req[r].pc \in {"graph", "list", "count", "set"}

Done(r) == req' = [req EXCEPT ![r] = Idle]
Goto(r, label) == req' = [req EXCEPT ![r].pc = label]

(* A handler that returns 500: after its upsert it leaves the cache behind.*)
Fail(r) ==
  /\ Faults
  /\ Done(r)
  /\ tainted' = IF Writing(r) THEN tainted \cup {req[r].title} ELSE tainted

-----------------------------------------------------------------------------
(* GetEventsByTitle: the events that share a title.                        *)
EventsOf(t) == {e \in events : TitleOf[e] = t}

(* The rows under some names, and those with one like_value.               *)
Rows(N) == {p \in N \X Users : rows[p] # None}
MutEveryRow(N, kind) == Rows(N)
RowsOf(N, kind) == {p \in N \X Users : rows[p] = kind}

Tally(N) == [likes    |-> Cardinality(RowsOf(N, "Like")),
             dislikes |-> Cardinality(RowsOf(N, "Dislike"))]

Plus(c, d) == [likes |-> c.likes + d.likes, dislikes |-> c.dislikes + d.dislikes]

-----------------------------------------------------------------------------
Init ==
  /\ events = {}
  /\ rows = [p \in Names \X Users |-> None]
  /\ liked = {}
  /\ cache = [t \in Titles |-> None]
  /\ req = [r \in Requests |-> Idle]
  /\ tainted = {}

(* EventService.CreateEvent, as far as reactions see it: the new id is in  *)
(* the collection and has no rows.                                         *)
CreateEvent(e) ==
  /\ e \notin events
  /\ events' = events \cup {e}
  /\ UNCHANGED <<rows, liked, cache, req, tainted>>

(* LikeEvent and DislikeEvent find the event first, under any spelling;    *)
(* one that is not found, or cannot be looked up, ends the request with    *)
(* nothing changed.  The request goes on with its own spelling.            *)
React(r, u, n, kind) ==
  /\ ~Active(r)
  /\ Denotes[n] \in events
  /\ req' = [req EXCEPT ![r] = [Idle EXCEPT !.pc = "upsert", !.op = kind, !.user = u,
                                            !.name = n, !.title = TitleOf[Denotes[n]]]]
  /\ UNCHANGED <<events, rows, liked, cache, tainted>>

(* GetEvent and GetEvents with reactions ask for the title of an event     *)
(* they found, each title once.                                            *)
Read(r, e) ==
  /\ ~Active(r)
  /\ e \in events
  /\ req' = [req EXCEPT ![r] = [Idle EXCEPT !.pc = "get", !.title = TitleOf[e]]]
  /\ UNCHANGED <<events, rows, liked, cache, tainted>>

(* INSERT by primary key: one row per user and spelling of the event's id, *)
(* the last value wins.  Storing makes every count of the title that      *)
(* already listed its events late.                                         *)
StoreRow(r) ==
  rows' = [rows EXCEPT ![<<req[r].name, req[r].user>>] = req[r].op]

MarkLate(r, next) ==
  req' = [q \in Requests |->
            IF q = r THEN next
            ELSE IF Listed(q) /\ req[q].title = req[r].title THEN [req[q] EXCEPT !.late = TRUE]
            ELSE req[q]]

MutRecountThroughCache(r) == IF req[r].op = "Like" THEN "graph" ELSE "get"
AfterUpsert(r) == IF req[r].op = "Like" THEN "graph" ELSE "list"

MutIgnoreFailedUpsert(r) == Goto(r, AfterUpsert(r))
FailedUpsert(r) == Done(r)

Upsert(r) ==
  /\ req[r].pc = "upsert"
  /\ \/ /\ StoreRow(r)
        /\ MarkLate(r, [req[r] EXCEPT !.pc = AfterUpsert(r)])
        /\ UNCHANGED tainted
     \/ /\ Faults                       \* an error, the row stored all the same
        /\ StoreRow(r)
        /\ MarkLate(r, Idle)
        /\ tainted' = tainted \cup {req[r].title}
     \/ Faults /\ FailedUpsert(r) /\ UNCHANGED <<rows, tainted>>
  /\ UNCHANGED <<events, liked, cache>>

(* GraphStorage.AddLike merges the edge; an error is logged and the        *)
(* request goes on.  A dislike removes no edge.                            *)
MutEdge(r) == {<<req[r].name, req[r].user>>}
Edge(r) == {<<req[r].user, req[r].name>>}

AddLike(r) ==
  /\ req[r].pc = "graph"
  /\ liked' = liked \cup Edge(r) \/ (Faults /\ UNCHANGED liked)
  /\ Goto(r, "list")
  /\ UNCHANGED <<events, rows, cache, tainted>>

(* reactionsByTitle: a hit answers, a miss counts, an error is a 500.      *)
Hit(r) == cache[req[r].title] # None

GetCached(r) ==
  /\ req[r].pc = "get"
  /\ \/ Hit(r) /\ Done(r) /\ UNCHANGED tainted
     \/ ~Hit(r) /\ Goto(r, "list") /\ UNCHANGED tainted
     \/ Fail(r)
  /\ UNCHANGED <<events, rows, liked, cache>>

(* GetEventsByTitle.                                                       *)
ListEvents(r) ==
  /\ req[r].pc = "list"
  /\ \/ /\ req' = [req EXCEPT ![r].pc = "count", ![r].todo = EventsOf(req[r].title)]
        /\ UNCHANGED tainted
     \/ Fail(r)
  /\ UNCHANGED <<events, rows, liked, cache>>

(* A reader fills the cache only with a count that is not zero, a writer   *)
(* with any.                                                               *)
MutFillAlways(r) == TRUE
Fills(r) == req[r].op \in Kinds \/ req[r].sum.likes > 0 \/ req[r].sum.dislikes > 0

(* CountByEventIDs queries one event; the order of the ids is that of an   *)
(* unsorted find.                                                          *)
CountEvent(r, e) ==
  /\ req[r].pc = "count"
  /\ e \in req[r].todo
  /\ \/ /\ req' = [req EXCEPT ![r].todo = @ \ {e},
                              ![r].sum = Plus(@, Tally({e}))]
        /\ UNCHANGED tainted
     \/ Fail(r)
  /\ UNCHANGED <<events, rows, liked, cache>>

CountEnds(r) ==
  /\ req[r].pc = "count"
  /\ req[r].todo = {}
  /\ IF Fills(r) THEN Goto(r, "set") ELSE Done(r)
  /\ UNCHANGED <<events, rows, liked, cache, tainted>>

(* HSET and EXPIRE in one transaction.  A count that is late may write     *)
(* what is no longer true over what is.                                    *)
Set(r) ==
  /\ req[r].pc = "set"
  /\ Done(r)
  /\ \/ /\ cache' = [cache EXCEPT ![req[r].title] = req[r].sum]
        /\ tainted' = IF req[r].late THEN tainted \cup {req[r].title}
                                     ELSE tainted \ {req[r].title}
     \/ /\ Faults
        /\ \/ UNCHANGED cache
           \/ cache' = [cache EXCEPT ![req[r].title] = req[r].sum]
        /\ tainted' = tainted \cup {req[r].title}
  /\ UNCHANGED <<events, rows, liked>>

(* The EXPIRE that Set sends with its HSET.                                *)
MutNoTTL(t) == FALSE
HasTTL(t) == cache[t] # None

Expire(t) ==
  /\ HasTTL(t)
  /\ cache' = [cache EXCEPT ![t] = None]
  /\ tainted' = tainted \ {t}
  /\ UNCHANGED <<events, rows, liked, req>>

-----------------------------------------------------------------------------
Step(r) ==
  \/ Upsert(r) \/ AddLike(r) \/ GetCached(r) \/ ListEvents(r)
  \/ \E e \in Events : CountEvent(r, e)
  \/ CountEnds(r) \/ Set(r)

Next ==
  \/ \E r \in Requests : Step(r)
  \/ \E r \in Requests, u \in Users, n \in Names, kind \in Kinds : React(r, u, n, kind)
  \/ \E r \in Requests, e \in Events : Read(r, e)
  \/ \E e \in Events : CreateEvent(e)
  \/ \E t \in Titles : Expire(t)

Spec == Init /\ [][Next]_vars

(* Requests run to their end, and the TTL of an entry runs out.  An entry  *)
(* that is rewritten has its TTL renewed; what is proved under the second  *)
(* assumption concerns the time after the last reaction, when nothing      *)
(* rewrites it.                                                            *)
FairSpec ==
  /\ Spec
  /\ \A r \in Requests : WF_vars(Step(r))
  /\ \A t \in Titles : WF_vars(Expire(t))

-----------------------------------------------------------------------------
(* Properties                                                              *)

(* Type invariant.  A count visits events of its own title only.           *)
TypeOK ==
  /\ events \in SUBSET Events
  /\ rows \in [Names \X Users -> Kinds \cup {None}]
  /\ liked \in SUBSET (Users \X Names)
  /\ cache \in [Titles -> Counts \cup {None}]
  /\ req \in [Requests -> RequestType]
  /\ tainted \in SUBSET Titles
  /\ \A r \in Requests : \A e \in req[r].todo : e \in events /\ TitleOf[e] = req[r].title

(* The cache of a title never shows more reactions than users gave to its  *)
(* events, however counts and writers overlap: no event is counted twice   *)
(* and no reaction is ever withdrawn.                                      *)
Total(c) == c.likes + c.dislikes
NeverOvercounts ==
  \A t \in Titles : cache[t] # None =>
    Total(cache[t]) <= Cardinality(Rows(EventsOf(t)))

(* The spellings of a title's events, and the reactions that were stored   *)
(* under one that is not the id and that no count will find.               *)
NamesOf(t) == {n \in Names : Denotes[n] \in EventsOf(t)}
Uncounted(t) == Rows(NamesOf(t) \ Events)

(* An entry shows all reactions to the title or, if some were stored under *)
(* another spelling, exactly the others.                                   *)
Truthful(t) ==
  \/ cache[t] \in {None, Tally(NamesOf(t))}
  \/ Uncounted(t) # {} /\ cache[t] = Tally(EventsOf(t))

(* An entry that is not the truth has a cause: reactions were stored under *)
(* another spelling of the id, and they are all it lacks; or a reaction to *)
(* the title is still on its way to the cache, or the last word on the     *)
(* entry was from a count that a reaction overlapped, or from a request    *)
(* that failed.                                                            *)
StaleHasCause ==
  \A t \in Titles :
    Truthful(t) \/ t \in tainted \/ \E r \in Requests : Writing(r) /\ req[r].title = t

(* An entry that shows no reactions was not filled by a reader, which      *)
(* counts a title without reactions anew every time, so that the first one *)
(* needs no invalidation to be seen: it is what a reaction under another   *)
(* spelling left behind.                                                   *)
EmptyEntryHasCause ==
  \A t \in Titles : cache[t] # None /\ Total(cache[t]) = 0 => Uncounted(t) # {}

(* The graph never knows a like of a user that gave the event no reaction  *)
(* (a failed upsert must not reach it; a later dislike leaves the edge).   *)
GraphBacked == \A u \in Users, n \in Names : <<u, n>> \in liked => rows[<<n, u>>] # None

(* The cache counts like TitleTotals: a reaction of a new user under the   *)
(* event's id makes the total grow by one; a change of mind, or a reaction *)
(* under another spelling, not at all.                                     *)
Totals == INSTANCE TitleTotals WITH
  Absent <- None,
  total <- [t \in Titles |-> Cardinality(Rows(EventsOf(t)))],
  shown <- [t \in Titles |-> IF cache[t] = None THEN None ELSE Total(cache[t])]
ImplementsTotals == Totals!Spec

(* Once reactions cease, what the caches show becomes true and stays so,   *)
(* but for reactions under other spellings, whatever races and failures    *)
(* went before.                                                            *)
NoReaction == \A r \in Requests : req[r].op \notin Kinds
Fresh == \A t \in Titles : Truthful(t)
EventuallyFresh == <>[]NoReaction => <>[]Fresh
=============================================================================
