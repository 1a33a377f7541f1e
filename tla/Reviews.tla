------------------------------- MODULE Reviews -------------------------------
(***************************************************************************)
(* Reviews of events: ReviewService (internal/service/review.go) with the  *)
(* Cassandra table of reviews (internal/storage/cassandra/review.go) and   *)
(* the Redis cache of count and average per title                          *)
(* (internal/storage/redis/review.go).                                     *)
(*                                                                         *)
(* A user has one row per event, as its id is spelled: the event is found  *)
(* under every spelling (idAlternatives of internal/storage/mongodb), the  *)
(* rows are looked up and stored under that of the request, and a count    *)
(* asks for the id as MongoDB returns it.  A name below is a spelling.     *)
(*                                                                         *)
(* Creating looks for the row and then inserts, updating reads the row and *)
(* then writes all of it; neither pair is atomic.  Both then recount the   *)
(* title and overwrite its cache entry, and answer with success even when  *)
(* that fails.                                                             *)
(***************************************************************************)
EXTENDS Integers, FiniteSets, Functions

CONSTANTS
  Events,      \* event ids that may be created (bounds a run)
  Names,       \* the spellings of event ids; an id is a spelling of itself
  Denotes,     \* the event a spelling is found as
  Titles,
  TitleOf,     \* the title each event is created with; no handler changes it
  Users,
  Ids,         \* the review ids uuid.New may draw (bounds a run)
  Ratings,     \* the int32 ratings clients send
  Comments,
  Requests,    \* request slots: how many requests may be in flight
  None,        \* no row, no cache entry, an absent field
  Pipelined,   \* may a user send a request before its last one is answered
  Faults       \* may calls to the stores fail

ASSUME ReviewsAssumption ==
  /\ TitleOf \in [Events -> Titles]
  /\ Events \subseteq Names /\ Denotes \in [Names -> Events]
  /\ \A e \in Events : Denotes[e] = e
  /\ IsFiniteSet(Names) /\ IsFiniteSet(Users)
  /\ Ratings \subseteq Int
  /\ None \notin Names \cup Titles \cup Users \cup Ids \cup Comments
  /\ None \notin Int
  /\ Pipelined \in BOOLEAN /\ Faults \in BOOLEAN

VARIABLES
  events,      \* the events collection (MongoDB); events are never deleted
  rows,        \* event_reviews: per (event_id, created_by) the review or None;
               \* event_id is a spelling
  cache,       \* event:<title hash>:reviews, count and average, or None
  req,         \* requests in flight
  given,       \* the ids drawn so far, per row key they were drawn for
  \* History variable; no action reads it.
  tainted      \* titles whose entry was written late or left behind

vars == <<events, rows, cache, req, given, tainted>>

-----------------------------------------------------------------------------
Keys == Names \X Users

(* int8(req.Rating.Value)                                                  *)
MutNoConversion(n) == n
Int8(n) == ((n + 128) % 256) - 128

Review == [id : Ids, rating : -128 .. 127, comment : Comments]
Summary == [count : Nat, rating : Int]
Stats == [count : Nat, sum : Int]

(* A row and a cache entry are told from their absence.                    *)
ASSUME NoneAssumption == None \notin Review \cup Summary

(* math.Round(float64(sum)/float64(count)*10) / 10, in tenths; Round goes  *)
(* away from zero at a half.                                               *)
Average(stats) ==
  LET tenths(s) == (20 * s + stats.count) \div (2 * stats.count) IN
  CASE stats.count = 0 -> 0
    [] stats.count > 0 /\ stats.sum >= 0 -> tenths(stats.sum)
    [] stats.count > 0 /\ stats.sum < 0 -> -tenths(-stats.sum)

Summarise(stats) == [count |-> stats.count, rating |-> Average(stats)]

(* `review` is the id an update names, `rating` and `comment` the body of  *)
(* the request, `seen` the row UpdateReview read; `todo`, `sum` and `late` *)
(* belong to the count of the title, as in Reactions.                      *)
Idle == [pc |-> "idle", op |-> "Read", user |-> None, name |-> None, title |-> None,
         review |-> None, rating |-> None, comment |-> None, seen |-> None,
         todo |-> {}, sum |-> [count |-> 0, sum |-> 0], late |-> FALSE]

RequestType ==
  [pc : {"idle", "look", "insert", "find", "read", "write", "get", "list", "count", "set"},
   op : {"Create", "Update", "Read"}, user : Users \cup {None}, name : Names \cup {None},
   title : Titles \cup {None}, review : Ids \cup {None}, rating : -128 .. 127 \cup {None},
   comment : Comments \cup {None}, seen : Review \cup {None}, todo : SUBSET Events,
   sum : Stats, late : BOOLEAN]

Active(r) == req[r].pc # "idle"
Listed(r) == req[r].pc \in {"count", "set"}
Key(r) == <<req[r].name, req[r].user>>

(* A request that has stored its row and has yet to refresh the cache.     *)
Refreshing(r) == req[r].op \in {"Create", "Update"} /\ req[r].pc \in {"list", "count", "set"}

Done(r) == req' = [req EXCEPT ![r] = Idle]
Goto(r, label) == req' = [req EXCEPT ![r].pc = label]

(* A call fails.  The request ends: with a 500, or, when it was refreshing *)
(* the cache, with a log line and success.                                 *)
Fail(r) ==
  /\ Faults
  /\ Done(r)
  /\ tainted' = IF Refreshing(r) THEN tainted \cup {req[r].title} ELSE tainted

-----------------------------------------------------------------------------
(* GetEventsByTitle, and the rows under some names.                        *)
EventsOf(t) == {e \in events : TitleOf[e] = t}
Rows(N) == {p \in N \X Users : rows[p] # None}

(* GetReviewStatsByEventIDs for the ids N.                                 *)
StatsOf(N) == [count |-> Cardinality(Rows(N)),
               sum   |-> SumFunction([p \in Rows(N) |-> rows[p].rating])]

Plus(c, d) == [count |-> c.count + d.count, sum |-> c.sum + d.sum]

(* uuid.New draws an id that was never drawn before.                       *)
Drawn == UNION {given[p] : p \in Keys}
FreshIds == Ids \ Drawn

-----------------------------------------------------------------------------
Init ==
  /\ events = {}
  /\ rows = [p \in Keys |-> None]
  /\ cache = [t \in Titles |-> None]
  /\ req = [r \in Requests |-> Idle]
  /\ given = [p \in Keys |-> {}]
  /\ tainted = {}

CreateEvent(e) ==
  /\ e \notin events
  /\ events' = events \cup {e}
  /\ UNCHANGED <<rows, cache, req, given, tainted>>

(* A request of user u that spells the id of an event that exists as n; an *)
(* unknown event ends it with nothing changed.  The request goes on with   *)
(* its own spelling.                                                       *)
Begin(r, u, n, q) ==
  /\ ~Active(r)
  /\ Pipelined \/ \A p \in Requests : req[p].user # u
  /\ Denotes[n] \in events
  /\ req' = [req EXCEPT ![r] = [q EXCEPT !.user = u, !.name = n, !.title = TitleOf[Denotes[n]]]]
  /\ UNCHANGED <<events, rows, cache, given, tainted>>

(* APICreateEventReview requires both fields.  The first conjunct bounds a *)
(* run: there are ids left for the creations under way.                    *)
Create(r, u, n) ==
  /\ Cardinality({q \in Requests : req[q].pc \in {"look", "insert"}}) < Cardinality(FreshIds)
  /\ \E stars \in Ratings, text \in Comments :
       Begin(r, u, n, [Idle EXCEPT !.pc = "look", !.op = "Create", !.rating = Int8(stars),
                                   !.comment = text])

(* APIUpdateEventReview takes either field, both or none, and names a      *)
(* review of the event by its id, any user's and under any spelling.       *)
(* Another id is refused with nothing changed.                             *)
Update(r, u, n) ==
  \E id \in UNION {given[p] : p \in {p \in Keys : Denotes[p[1]] = Denotes[n]}},
     stars \in Ratings \cup {None}, text \in Comments \cup {None} :
    Begin(r, u, n, [Idle EXCEPT !.pc = "find", !.op = "Update", !.review = id,
                                !.rating = IF stars = None THEN None ELSE Int8(stars),
                                !.comment = text])

(* GetEvent and GetEvents with reviews ask for the title of an event they  *)
(* found, each title once.                                                 *)
Read(r, e) ==
  /\ ~Active(r)
  /\ e \in events
  /\ req' = [req EXCEPT ![r] = [Idle EXCEPT !.pc = "get", !.title = TitleOf[e]]]
  /\ UNCHANGED <<events, rows, cache, given, tainted>>

-----------------------------------------------------------------------------
(* A row is stored.  Counts of the title that have listed its events are   *)
(* late from then on.                                                      *)
StoreRow(r, row) == rows' = [rows EXCEPT ![Key(r)] = row]

MarkLate(r, next) ==
  req' = [q \in Requests |->
            IF q = r THEN next
            ELSE IF Listed(q) /\ req[q].title = req[r].title THEN [req[q] EXCEPT !.late = TRUE]
            ELSE req[q]]

(* Storing succeeds and the request goes on to refresh the cache, of which *)
(* it passes on the title only; or fails and ends it, the row stored or    *)
(* not.                                                                    *)
MutRefreshThroughCache(r) == [Idle EXCEPT !.pc = "get", !.op = req[r].op,
                                          !.user = req[r].user, !.title = req[r].title]
Refresh(r) == [Idle EXCEPT !.pc = "list", !.op = req[r].op, !.user = req[r].user,
                           !.title = req[r].title]

Store(r, row) ==
  \/ /\ StoreRow(r, row)
     /\ MarkLate(r, Refresh(r))
     /\ UNCHANGED tainted
  \/ /\ Faults
     /\ StoreRow(r, row)
     /\ MarkLate(r, Idle)
     /\ tainted' = tainted \cup {req[r].title}
  \/ Faults /\ Done(r) /\ UNCHANGED <<rows, tainted>>

(* CreateReview looks for the id of the user's row.  Only a row that was   *)
(* found makes it a conflict: any error counts as "no row".                *)
MutNoLookup(row) == FALSE
Exists(row) == row # None

Look(r) ==
  /\ req[r].pc = "look"
  /\ \/ Exists(rows[Key(r)]) /\ Done(r)
     \/ ~Exists(rows[Key(r)]) /\ Goto(r, "insert")
     \/ Faults /\ Goto(r, "insert")
  /\ UNCHANGED <<events, rows, cache, given, tainted>>

Insert(r) ==
  /\ req[r].pc = "insert"
  /\ \E id \in FreshIds :
       /\ Store(r, [id |-> id, rating |-> req[r].rating, comment |-> req[r].comment])
       /\ given' = [given EXCEPT ![Key(r)] = @ \cup {id}]
  /\ UNCHANGED <<events, cache>>

(* GetReview scans the reviews under the request's spelling for the id;    *)
(* the review must be the user's own, else nothing is changed either.      *)
MutAnyAuthor(r) == \E u \in Users : LET row == rows[<<req[r].name, u>>] IN
                     row # None /\ row.id = req[r].review
OwnReview(r) == LET row == rows[Key(r)] IN row # None /\ row.id = req[r].review

Find(r) ==
  /\ req[r].pc = "find"
  /\ \/ OwnReview(r) /\ Goto(r, "read") /\ UNCHANGED tainted
     \/ ~OwnReview(r) /\ Done(r) /\ UNCHANGED tainted
     \/ Fail(r)
  /\ UNCHANGED <<events, rows, cache, given>>

(* EventReviewStorage.UpdateReview reads the row by its key.               *)
ReadRow(r) ==
  /\ req[r].pc = "read"
  /\ \/ /\ rows[Key(r)] # None
        /\ req' = [req EXCEPT ![r].pc = "write", ![r].seen = rows[Key(r)]]
        /\ UNCHANGED tainted
     \/ rows[Key(r)] = None /\ Done(r) /\ UNCHANGED tainted
     \/ Fail(r)
  /\ UNCHANGED <<events, rows, cache, given>>

(* The fields of the body over those that were read.                       *)
MutBodyOnly(q) == [id |-> q.seen.id, rating |-> IF q.rating = None THEN 0 ELSE q.rating,
                   comment |-> IF q.comment = None THEN q.seen.comment ELSE q.comment]
Merged(q) == [id |-> q.seen.id,
              rating |-> IF q.rating = None THEN q.seen.rating ELSE q.rating,
              comment |-> IF q.comment = None THEN q.seen.comment ELSE q.comment]

WriteRow(r) ==
  /\ req[r].pc = "write"
  /\ Store(r, Merged(req[r]))
  /\ UNCHANGED <<events, cache, given>>

-----------------------------------------------------------------------------
(* The cache: GetReviewsByTitle, reviewsByTitleNoCache, updateReviewCache. *)

Hit(r) == cache[req[r].title] # None

GetCached(r) ==
  /\ req[r].pc = "get"
  /\ \/ Hit(r) /\ Done(r) /\ UNCHANGED tainted
     \/ ~Hit(r) /\ Goto(r, "list") /\ UNCHANGED tainted
     \/ Fail(r)
  /\ UNCHANGED <<events, rows, cache, given>>

(* updateReviewCache looks the event up once more before it lists; titles  *)
(* do not change, and either call may fail.                                *)
ListEvents(r) ==
  /\ req[r].pc = "list"
  /\ \/ /\ req' = [req EXCEPT ![r].pc = "count", ![r].todo = EventsOf(req[r].title)]
        /\ UNCHANGED tainted
     \/ Fail(r)
  /\ UNCHANGED <<events, rows, cache, given>>

CountEvent(r, e) ==
  /\ req[r].pc = "count"
  /\ e \in req[r].todo
  /\ \/ /\ req' = [req EXCEPT ![r].todo = @ \ {e},
                              ![r].sum = Plus(@, StatsOf({e}))]
        /\ UNCHANGED tainted
     \/ Fail(r)
  /\ UNCHANGED <<events, rows, cache, given>>

(* A reader fills the cache only with a count that is not zero.            *)
Fills(r) == req[r].op # "Read" \/ req[r].sum.count > 0

CountEnds(r) ==
  /\ req[r].pc = "count"
  /\ req[r].todo = {}
  /\ IF Fills(r) THEN Goto(r, "set") ELSE Done(r)
  /\ UNCHANGED <<events, rows, cache, given, tainted>>

(* What Set writes replaces the entry.                                     *)
MutAddToEntry(r) ==
  LET old == cache[req[r].title] IN
  [Summarise(req[r].sum) EXCEPT !.count = @ + IF old = None THEN 0 ELSE old.count]
Entry(r) == Summarise(req[r].sum)

Set(r) ==
  /\ req[r].pc = "set"
  /\ Done(r)
  /\ \/ /\ cache' = [cache EXCEPT ![req[r].title] = Entry(r)]
        /\ tainted' = IF req[r].late THEN tainted \cup {req[r].title}
                                     ELSE tainted \ {req[r].title}
     \/ /\ Faults
        /\ \/ UNCHANGED cache
           \/ cache' = [cache EXCEPT ![req[r].title] = Entry(r)]
        /\ tainted' = tainted \cup {req[r].title}
  /\ UNCHANGED <<events, rows, given>>

Expire(t) ==
  /\ cache[t] # None
  /\ cache' = [cache EXCEPT ![t] = None]
  /\ tainted' = tainted \ {t}
  /\ UNCHANGED <<events, rows, req, given>>

-----------------------------------------------------------------------------
Step(r) ==
  \/ Look(r) \/ Insert(r) \/ Find(r) \/ ReadRow(r) \/ WriteRow(r)
  \/ GetCached(r) \/ ListEvents(r) \/ CountEnds(r) \/ Set(r)
  \/ \E e \in Events : CountEvent(r, e)

Next ==
  \/ \E r \in Requests : Step(r)
  \/ \E r \in Requests, u \in Users, n \in Names : Create(r, u, n) \/ Update(r, u, n)
  \/ \E r \in Requests, e \in Events : Read(r, e)
  \/ \E e \in Events : CreateEvent(e)
  \/ \E t \in Titles : Expire(t)

Spec == Init /\ [][Next]_vars

-----------------------------------------------------------------------------
(* Properties                                                              *)

(* Type invariant.  Whatever int32 a client sends, a stored rating fits    *)
(* the tinyint column; a count visits events of its own title only.        *)
TypeOK ==
  /\ events \in SUBSET Events
  /\ rows \in [Keys -> Review \cup {None}]
  /\ cache \in [Titles -> Summary \cup {None}]
  /\ req \in [Requests -> RequestType]
  /\ given \in [Keys -> SUBSET Ids]
  /\ tainted \in SUBSET Titles
  /\ \A r \in Requests : \A e \in req[r].todo : e \in events /\ TitleOf[e] = req[r].title

(* The cached count of a title never exceeds the reviews of its events.    *)
NeverOvercounts ==
  \A t \in Titles : cache[t] # None => cache[t].count <= Cardinality(Rows(EventsOf(t)))

(* The spellings of a title's events, and the reviews that were stored     *)
(* under one that is not the id and that no count will find.               *)
NamesOf(t) == {n \in Names : Denotes[n] \in EventsOf(t)}
Uncounted(t) == Rows(NamesOf(t) \ Events)

(* A cached count or average that is not that of all reviews has a cause:  *)
(* reviews were stored under another spelling, and it is exactly that of   *)
(* the others; or a request that stored a review is still on its way to    *)
(* the cache, or the last word on the entry was from a count that a review *)
(* overlapped, or from a request that failed.                              *)
StaleHasCause ==
  \A t \in Titles :
    \/ cache[t] \in {None, Summarise(StatsOf(NamesOf(t)))}
    \/ Uncounted(t) # {} /\ cache[t] = Summarise(StatsOf(EventsOf(t)))
    \/ t \in tainted
    \/ \E r \in Requests : Refreshing(r) /\ req[r].title = t

(* "review already exists": under one spelling of an event's id a user has *)
(* one review, the one whose id creation returned, for good: no later      *)
(* create or update replaces it.  (Under another spelling the same user is *)
(* given a second review of the event.)                                    *)
OneReviewPerUser ==
  \A p \in Keys : given[p] # {} => rows[p] # None /\ given[p] = {rows[p].id}

(* An update changes what its body contains and leaves the rest of the     *)
(* review as it is stored when the update is written, not as it was when   *)
(* the update read it.                                                     *)
PartialUpdate ==
  [][\A r \in Requests : req[r].pc = "write" /\ rows' # rows =>
       /\ req[r].rating = None => rows'[Key(r)].rating = rows[Key(r)].rating
       /\ req[r].comment = None => rows'[Key(r)].comment = rows[Key(r)].comment]_vars

(* An update that is carried out changes the review that its request names *)
(* although the row is found by its key and not by that id.                *)
UpdateHitsNamedReview ==
  [][\A r \in Requests : req[r].pc = "write" /\ req'[r].pc = "list" =>
       rows[Key(r)].id = req[r].review /\ rows'[Key(r)].id = req[r].review]_vars

(* "rating is validated (1-5)": the ratings of stored reviews are stars.   *)
RatingsInRange == \A p \in Keys : rows[p] # None => rows[p].rating \in 1 .. 5

(* The cached count behaves like TitleTotals: a creation makes the total   *)
(* grow by one or, over a row or under another spelling, not at all;       *)
(* updates never change it.                                                *)
Totals == INSTANCE TitleTotals WITH
  Absent <- None,
  total <- [t \in Titles |-> Cardinality(Rows(EventsOf(t)))],
  shown <- [t \in Titles |-> IF cache[t] = None THEN None ELSE cache[t].count]
ImplementsTotals == Totals!Spec
=============================================================================
