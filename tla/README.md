# Event hub: a verification project

TLA+ models, model-checking runs and machine-checked proofs for the event hub
in `src/`: a Go HTTP service with which users publish events, like and dislike
them, review them and get recommendations. Its state lives in four stores,
and no operation that touches two of them, or one of them twice, is atomic.

## The system

A request is one goroutine of the HTTP server. The handler
(`internal/router/handler.go`) reads the session id from the cookie, calls a
service (`internal/service`), and the service calls the stores
(`internal/storage`). Nothing is shared in memory but one mutex and the files of
the documentation pages. Between the socket and the handler lies generated code
(`internal/router/ogen`): a prefix tree that routes, the decoding of parameters and
bodies, the encoding of the answer.

| component | state | operations | what is hard |
|---|---|---|---|
| sessions (`service/session.go`, `storage/redis/session.go`) | Redis hash `sid:<id>` (user, timestamps, TTL), the mutex `SessionStorage.mu`, the browser's cookie | create, get, create-or-extend, delete | extend is HGET then HSETEX under the mutex, delete does not take it; handlers write back the user they read earlier; responses overtake each other |
| reactions (`service/event.go`, `storage/cassandra/reaction.go`, `storage/redis/reaction.go`) | Cassandra row per event and user, Redis counts per title | like, dislike, counts of a title through the cache | write, count and set are separate; counting visits one event after another; readers fill the same entry |
| graph (`storage/neo4j/graph.go`) | nodes for users and events, LIKED edges | create user, create event, add like, recommend | errors are logged only; a dislike removes nothing; no constraint keeps two MERGE from creating one node each |
| reviews (`service/review.go`, `storage/cassandra/review.go`, `storage/redis/review.go`) | Cassandra row per event and user, Redis count and average per title | create, update, list, summary of a title | check then insert; read then write the whole row; the refresh of the cache may fail silently |
| recommendations (`service/recommendation.go`, `storage/redis/recommendation.go`) | Redis list per user | get | cached answers, events that cannot be loaded, one event per title |
| users (`service/user.go`, `storage/mongodb/user.go`) | Mongo collection with a unique username | register, authenticate, list, look up | a registration whose session cannot be created, and its retry |
| events (`service/event.go`, `storage/mongodb/event.go`) | Mongo collection, ids with several spellings | create, patch, find | filters that combine, pages of an unsorted query, a retried insert |
| handlers (`internal/router/handler.go`) | none | eighteen, each a sequence of checks and calls | the order of checks, look at the session and write; the status and cookie of every way out |
| generated API (`internal/router/ogen`) | none | route, decode, encode | a tree that never backtracks; what is refused before the handler |
| middleware (`pkg/httpserver`) | the documentation files, loaded once | serve a page or pass on | must not hide an operation |
| lifecycle (`internal/app/app.go`, `pkg/httpserver/server.go`) | the HTTP server, the clients of the stores | start, run, shutdown | shutdown before run; clients closed under requests; the exit status |

Interactions: every handler that changes something reads the session first and
extends it last; likes write Cassandra, then Neo4j, then Redis; recommendations
read what likes left in Neo4j; counts and summaries are per *title*, and several
events may have the same title (the index on titles is not unique).

`PROJECT.json` lists every component with its status, and under `hazards` what
is hard to test, each at its line with the properties that cover it.

One thing runs through reactions, reviews and the graph: **an event's id has several
spellings**. `idAlternatives` (`storage/mongodb/mongodb.go`) reads hexadecimal digits of
either case, so `GetEvent` finds an event under any of them, but the reaction, the
review and the edge are stored under the spelling of the request (`service/event.go:215`
and 220, `service/review.go:67` and 133), and counts ask for the ids MongoDB returns. The
three modules have `Names`, the spellings, and `Denotes`, the event each is found as.

## Modules

| module | models |
|---|---|
| `Session` | sessions, the handlers as far as sessions go, the mutex, the cookie jar of each client |
| `MCSession` | symmetry and view for its runs |
| `SessionProofs` | its theorems |
| `TitleTotals` | abstract: per title a total that grows and a shown number, zero included, that was once no more than the total |
| `Reactions` | likes, dislikes and the cached counts; implements `TitleTotals` |
| `MCReactions` | two titles, an event with two spellings of its id, symmetry and views for its runs |
| `ReactionsProofs` | its theorems |
| `Reviews` | creating and updating reviews, count and average per title; implements `TitleTotals` |
| `MCReviews` | two titles, an event with two spellings of its id, symmetry and view for its runs |
| `ReviewsProofs` | its theorems |
| `Recommendations` | the graph and its writers, the query, the ranking, the cached list |
| `MCRecommendations` | two titles, an event with two spellings, symmetry and view |
| `RecommendationsProofs` | its theorems |
| `Sums` | lemmas on finite sums, used by the two modules above |
| `Routes` | pure: the router's prefix tree, and the path templates of the API description as its reference |
| `RouteProofs` | lemmas on paths: the tree and the templates agree; used by `ApiProofs` |
| `Handlers` | pure: the eighteen handlers as sequences of steps |
| `Operations` | pure: what each operation decodes, in which order it runs, how its replies are encoded; extends `Handlers` |
| `Queries` | pure: filters, pages, look-ups and the patch of MongoDB; extends `Operations` |
| `Api` | a request from the socket to the answer: composes the four above with the session and a client that retries |
| `MCApi` | the requests of its run |
| `ApiProofs` | its theorems |
| `Lifecycle` | the process: start, goroutines, signal, shutdown, exit |
| `LifecycleProofs` | its theorems |

### Session

One action per store call of a handler; between two any other request may run.

| state | code |
|---|---|
| `sessions[s]` | the `user_id` of `sid:s`; `Anon` is the empty string, `None` no such key |
| `mu` | `SessionStorage.mu` and who holds it |
| `req[r]` | a goroutine: `pc` the call it makes next, `sid` from the cookie, `newSid` what `MustSID` drew, `user` what it passes on, `found` what HGET said, `out` the Set-Cookie of its answer |
| `cookie[c]` | the `X-Session-Id` cookie of browser `c` |
| `accounts` | registered users |
| `owner`, `authAs`, `loggedOut`, `view` | history, read by properties only |

`Submit` is the beginning of a handler up to its first call. `Act` stands for the
six handlers of the form *check session, call service, extend session*;
`Recommend` checks only; `Read` only echoes the cookie. `GetSession` is HMGET
without the mutex; `Lock`, `HGet` and `HSetEX` are `SetOrUpdate`; `Delete` is
DEL without the mutex; `Reply` is the answer reaching the browser, in any order
with others. With `Faults` every call may fail, a write that fails may have been
applied, and an answer may be lost. `Expire` and `DropCookie` are the two TTLs.

Abstracted: timestamps, TTL lengths, bodies of requests, the text of cookies.
Session ids are 32 random bytes; the model takes one that was never drawn, and
`SIDs` bounds how many a run draws.

### Reactions

| state | code |
|---|---|
| `events` | the events collection; titles never change |
| `rows[<<n, u>>]` | `event_reactions`, primary key (event id as it was spelled, user): `like_value` or no row |
| `liked` | LIKED edges, of a user and a spelling |
| `cache[t]` | `event:<md5 of title>:reactions`, or `None` |
| `req[r]` | a request: `todo` the events still to count, `sum` what was counted |
| `tainted` | history: titles whose entry was last written by a late count or left behind by a failure |

`React` and `Read` begin a request, then `Upsert`, `AddLike`, (`GetCached`),
`ListEvents`, `CountEvent` once per event in any order, `CountEnds` and `Set`
follow the code call by call. A read of several titles is several reads: the
code handles one title completely before the next. MD5 is taken to be injective
on titles.

A reaction under another spelling than the event's id is stored and answered 204,
and never counted; its writer may cache a zero. `StaleHasCause` and `EventuallyFresh`
therefore let an entry lack these reactions, exactly these and no others (`Truthful`), and
`EmptyEntryHasCause` says that nothing else leaves an entry that shows zero: a reader fills
the cache only with a count that is not zero.

### Reviews

| state | code |
|---|---|
| `rows[<<n, u>>]` | `event_reviews`, primary key (event id as it was spelled, user): id, rating and comment, or no row |
| `cache[t]` | `event:<md5 of title>:reviews`: count and average, in tenths as the code rounds it, or `None` |
| `req[r]` | a request: `review` the id an update names, `seen` the row it read, the body, and the count of the title as in `Reactions` |
| `given[p]` | the ids drawn for creations of a row |
| `tainted` | history, as in `Reactions` |

Look, insert, find and write are by the spelling of the request, so a user has one review
under each spelling (`OneReviewPerUser`), and the summary is over those under the id.
A creation is `Create`, `Look` (any error counts as "no review"), `Insert`; an
update is `Update`, `Find` (by id, author checked), `ReadRow` (by event and user),
`WriteRow` (the whole row). Both go on with `ListEvents`, `CountEvent`,
`CountEnds`, `Set`, and a failure there is success for the client; a reader comes
in through `GetCached`. `Int8` is the conversion of the client's int32. The
rounding of the average is modelled exactly on integers; the double arithmetic
of the code agrees with it for every sum of ratings 1 to 5 of up to 399
reviews. `Ids` bounds the reviews a run creates.

### Recommendations

| state | code |
|---|---|
| `accounts`, `events` | the collections of MongoDB |
| `rows` | the likes in `event_reactions`, with the spelling of the event's id the request used |
| `graph` | nodes `<<id, copy>>` and LIKED edges; two copies of an id are two nodes |
| `cache[u]` | `user:<id>:recomms`, or `None` |
| `req[r]` | a request: `us` and `es` the nodes its MERGE clauses bound, `recs` the rows of the query, `loaded` the events found, `list` the answer |
| `lost` | history: the likes whose upsert reported an error, or whose write to the graph failed |

`Register`, `CreateEvent` and `LikeEvent` are these operations up to their write in
MongoDB or Cassandra, then `MergeUser`, `MergeEvent` and `Commit` are the
transaction on the graph: a MERGE does not see what an uncommitted one creates. An upsert
of a like that stored its row and reported an error ends the request before the graph.
`DislikeEvent` is one step, since it leaves the graph alone. A reader is `Ask`,
`GetCached`, `Query`, `Load`, `Set`. `Paths` is the Cypher query row by row before
it is counted; rows of equal score come in any order. Events never change here (a
patch changes neither title nor start), so `Load` is one step in which any subset
of the look-ups may fail. An event is found under every spelling of its id
(`Denotes`), the row and the graph keep the spelling of the request.

### Api and the modules it composes

`Handlers` writes a handler as the code reads, step after step: `Check` of a value,
`NeedSid`, `NeedUser`, `Call` of a service with the refusals the handler
distinguishes, `OpenSession`, `Extend`, `Delete`, `Answer`. `Operations` adds the
generated code around it, `Routes` what is in front. `Api` interprets them:

| state | code |
|---|---|
| `request`, `attempt`, `docs` | what the client sends and how often, the documentation files of the process |
| `pc`, `op`, `input`, `at`, `user` | where the request is, its decoded values, the handler's next step, the user it acts for |
| `response` | status and Set-Cookie: keep the id, drop it, take the new one, the empty header of a 500, none |
| `session`, `opened`, `orphan` | the session under the request's id; whether the handler opened one, and whether one was stored that no answer names |
| `taken`, `events`, `created`, `page` | the name of a registration, the events, how many were inserted, what a listing found |
| `writes`, `holders`, `ended`, `failed`, `lost`, `known`, `rival` | history, read by properties only |

`SessionChanges` lets the session of the request end or change hands between any
two steps (other requests of the client, the TTL): what `Session` shows of the calls
one by one is here an environment. `NameTaken` is the registration of another client that takes
the name before this one's call. `FailCall` is a call that fails, before or after
it stored; `Retry` is the client that was answered 500. What a like does to counts,
and a review to summaries, is in `Reactions` and `Reviews`: here they are one write.
Texts are abstract values; a pattern matches the text it equals, or is one that
MongoDB does not compile; a path is a sequence of tokens cut at the slashes, and a
piece of text that continues a keyword (`eventsx`) is two tokens.

### Lifecycle

| state | code |
|---|---|
| `main`, `begun`, `open` | where `Run` is, how many clients and indexes are made, how many clients are open |
| `web`, `server`, `running` | the goroutine of the HTTP server, the field `Server.httpServer`, the requests it runs |
| `prof`, `profiling`, `profDown` | the pprof goroutine, whether a request of it runs, whether it was shut down |
| `stopper` | the goroutine behind `<-ctx.Done()` |
| `signalled`, `err` | the cancellation of the context and the first error of the group |
| `overtaken`, `expired` | history: `Shutdown` found no server; its two seconds ended first |

## Runs

All runs use breadth-first search over the complete state space of the instance.

| run | instance | shows |
|---|---|---|
| `session_pipelined` | 2 clients, 2 requests that overlap, 1 user, 3 ids, faults | `TypeOK`, `MutualExclusion`, `NoForeignUser`, `GoneForGood` |
| `session_sequential` | 2 clients that wait for their answers, 1 user, 2 ids, faults | `LogoutEndsSession`, `LoginSticks`, `ExtendKeepsUser`, and under `FairSpec` `RequestsTerminate` |
| `session_logout_race` | a client with 2 requests in flight | expected violation of `LogoutEndsSession` |
| `reactions_faults` | 2 events of one title, one with a second spelling, 1 user, 2 requests, faults; 167,370 states | `NeverOvercounts`, `StaleHasCause`, `EmptyEntryHasCause`, `ImplementsTotals` |
| `reactions_settle` | 1 event with two spellings, 1 user, 2 requests, faults; 75,902 states | `TypeOK`, `GraphBacked`, and under `FairSpec` `EventuallyFresh` |
| `reviews_faults` | 2 events of one title, one with a second spelling, 1 user, 2 reviews, 2 requests that overlap, faults; 521,116 states | `NeverOvercounts`, `StaleHasCause`, `ImplementsTotals` |
| `reviews_sequential` | 1 event with two spellings, 2 users that wait for their answers, 2 reviews, ratings 1 and 300; 602,668 states | `TypeOK`, `OneReviewPerUser`, `PartialUpdate`, `UpdateHitsNamedReview` |
| `reviews_double_create` | 1 user, 2 requests in flight | expected violation of `OneReviewPerUser` |
| `reviews_ratings` | 1 request | expected violation of `RatingsInRange` |
| `recommendations` | 2 users (one registers), 4 events (one is created) of two titles, a second spelling of one id, 3 writes, 1 reader, faults; 1,758,378 states | `TypeOK`, `LikesReachGraph`, `RecommendsFromLikes`, `OwnLikeHasCause`, `ListIsRanking` |
| `api` | every operation's ordinary request with up to two values changed, every described path and its neighbours one token away, bodies that do not decode; 2 accounts, 2 events, 2 attempts, another client that registers the name; 468,140 states | `TypeOK`, `RoutesAgree`, `ActsForHolder`, `AnswerTellsTheWrite`, `CookieFollowsSession`, `RetryHasCause`, `PageOfMatches`, `OrphanHasCause`, `PatchesOwnEvent` |
| `lifecycle` | 2 requests; the process stops, so deadlock is not checked | `TypeOK`, `EndHasCause`, `OvertakenServes`, and under `FairSpec` `Stops` |

Most runs of safety properties use symmetry in clients, users, ids and requests. The
views (`WithoutLogins`, `WithoutGraph`, `Condensed`) leave out what no guard and no
property of the run reads any more, and say so at their definition.

Why the bounds are enough: the races of a session need one request inside
`SetOrUpdate` and one that deletes, or one that waits for the mutex; a new id is
drawn when an old one is gone, and three ids let one client see two of its
sessions end while the other has one. A stale count needs one slow and one fast
request on one title, a torn one two events, an uncounted one a second spelling; one user
is enough for these, since users and spellings alike only make up the keys of rows, and the
three keys of a title (two counted, one not) can each be written by either request. An
overwritten review needs two requests of its user; two users are taken where properties of
single reviews are checked. Two copies of a node need two transactions that overlap; a path of the
query needs two users and two events, a ranking two titles and a title with two
events. In `api` the filters of a listing are conjuncts, so a wrong combination
shows with two of them (`user` over `user_id`, a price range, a date range, limit
and offset); a handler's steps depend on one request at a time, and the two attempts
are what a retry needs. The tree of the router cuts at most seven tokens, and a
branch it confuses with another differs from a described path by one token. Every action is fired by some passing run, and each property is shown
to fail when a mapped definition is changed the way a plausible bug would
(`mutants`, the operators named `Mut...`).

Three disagreements between the code and what is written about it, each a run that
ends in a counterexample:

* **Logout can be undone** (`session_logout_race`). An extension finds the session,
  the logout deletes it, the extension writes it back, with its user and a full
  TTL. The proved `GoneForGood` says this is the only way: an id that is gone
  while no extension is between its two calls stays gone. `LogoutEndsSession`
  holds when a client does not overlap its requests (`session_sequential`).
* **Two reviews of one user** (`reviews_double_create`). Two creations that overlap
  both find nothing and both insert: each is answered with an id, and only the
  second id exists. A user that waits for its answers has one review under each spelling
  of the event's id (`reviews_sequential`).
* **Ratings outside one to five** (`reviews_ratings`). Both handlers rely on a check
  that nobody makes.

More that the models show and the documents leave open:

* A reaction or review sent with the id in upper-case hexadecimal is accepted and stored,
  and is in no count and no summary; it may leave a cached zero until the TTL ends
  (`EmptyEntryHasCause`). A user can review an event once under each spelling.
* A like whose upsert stored its row and reported an error, or whose write to the graph
  failed, is stored but recommends nothing until it is given again (`LikesReachGraph` names
  these likes).
* Of two registrations of one name one is stored. The other is answered 409, and so is a
  client whose own first attempt was stored and answered 500 (`RetryHasCause`).
* `POST /session` writes an empty user into a session that is logged in. The API
  description calls it extending the user's session, the repository's README speaks of
  anonymous ones.
* An extension after a write whose session has ended meanwhile stores the user under
  an id nobody is told (`OrphanHasCause`: only then, or after a failed call).
* The 409 of `POST /events` can never be given: no index of the events collection is
  unique. A creation that was stored and answered 500 is stored twice by the retry,
  a registration is answered 409 (`RetryHasCause`).
* A dislike does not withdraw the like from recommendations; two copies of a node, or
  a second spelling of an id, make the query recommend what the user likes already
  (`OwnLikeHasCause` lists the causes, `RecommendsFromLikes` holds without them).
* A signal before the server was stored leaves a process that no further signal ends
  (`OvertakenServes`); requests that outlast the two seconds lose their clients and the
  exit status is still 0 (`EndHasCause`).
* `GET /events/{id}/reviews` checks `limit` and `offset` and then reads all reviews.

## Fairness

`Session!FairSpec`: weak fairness of each request's steps, because a runnable
goroutine runs and its store calls return (each client has timeouts, and the
failing outcome is a step); strong fairness of `Lock`, because `sync.Mutex`
enters starvation mode and hands itself to a waiter that has waited 1 ms.
`Reactions!FairSpec`: weak fairness of each request's steps, and of the expiry of
a cache entry, which needs nothing to happen but time to pass; entries are
rewritten by reactions and by readers that missed, and what is claimed concerns
the time after the last reaction. `Lifecycle!FairSpec`: weak fairness of the start, of
each goroutine and of the end, because calls to the stores and the two seconds end and
runnable goroutines run; no request has to end, and no failure has to come. Nothing is
assumed of clients.

## Proofs

Everything below holds for all values of the constants that satisfy the
assumptions stated in the modules, that is for any number of clients, sessions,
events, reviews, transactions and concurrent requests, with or without failures. The
assumptions say that `None`, `Anon` and `Keep` differ from the values they are mixed
with, that the ids of users and events differ, that the collections at the
start are finite and agree with each other (a stored like is of a stored event), that
an event's own id is a spelling of it, and that times and bounds are numbers.

| module | theorem | property |
|---|---|---|
| `SessionProofs` | `TypeCorrect`, `SetOrUpdateExclusive`, `SessionsStayOwn`, `EndedSessionsStayEnded` | `TypeOK`, `MutualExclusion`, `NoForeignUser`, `GoneForGood` |
| | `LogoutEnds`, `LoginsStick`, `ExtensionKeepsUser`, for clients that wait | `LogoutEndsSession`, `LoginSticks`, `ExtendKeepsUser` |
| `ReactionsProofs` | `TypeCorrect`, `CacheNeverOvercounts`, `StalenessHasCause`, `EmptyEntriesHaveACause`, `GraphFollowsRows`, `CacheRefinesTotals` | `TypeOK`, `NeverOvercounts`, `StaleHasCause`, `EmptyEntryHasCause`, `GraphBacked`, `ImplementsTotals` |
| `ReviewsProofs` | `TypeCorrect`, `CacheNeverOvercounts`, `StalenessHasCause`, `CacheRefinesTotals` | `TypeOK`, `NeverOvercounts`, `StaleHasCause`, `ImplementsTotals` |
| | `ReviewsAreUnique`, `UpdatesArePartial`, `UpdatesHitTheirReview`, for users that wait | `OneReviewPerUser`, `PartialUpdate`, `UpdateHitsNamedReview` |
| `RecommendationsProofs` | `TypeCorrect`, `LikesGetThere`, `RecommendationsFollow`, `OwnLikesHaveACause`, `ListRanks` | `TypeOK`, `LikesReachGraph`, `RecommendsFromLikes`, `OwnLikeHasCause`, `ListIsRanking` |
| `ApiProofs` | `TypeCorrect`, `ActsForTheHolder`, `AnswersTell`, `CookiesFollow`, `RetriesHaveACause`, `OrphansHaveACause`, `PatchesOwn` | `TypeOK`, `ActsForHolder`, `AnswerTellsTheWrite`, `CookieFollowsSession`, `RetryHasCause`, `OrphanHasCause`, `PatchesOwnEvent` |
| | `RoutesMatch`, `PagesMatch`, about the pure parts | `RoutesAgree`, `PageOfMatches` |
| `LifecycleProofs` | `TypeCorrect`, `EndsForACause`, `OvertakenServerServes` | `TypeOK`, `EndHasCause`, `OvertakenServes` |

Each rests on an inductive invariant, `Inv`, of its module (`InvInvariant`).

*Sessions.* Properties like `NoForeignUser` are not inductive: the invariant
`Inv` adds that an id is known to one client only (its owner, in the cookie and
in every request that carries it), that a new id is in one request only until it
is stored, that what a request holds as `user` is one its client authenticated
as, and who is between HGET and HSETEX.

`LogoutEndsSession` and `LoginSticks` are false when a client overlaps its requests
(`session_logout_race`), so their theorems have the hypothesis `~Pipelined`, which is
what the run `session_sequential` sets. The invariant of these clients, `SeqInv`, is
that a client has one request in flight, that no extension is about to write an id
that was logged out, and that whoever extends a session carries the user the session
has (`SlotSeq`): ids belong to one client, so nobody else can have changed it.

*Reactions and reviews.* The parts of `Inv` take the slot, the events and the table as
arguments, so that facts about them hold before and after a step. The central
one is what a count knows while it runs: rows are never removed, so what was
counted is a lower bound of what is stored (`TallyBound`, `CountBound`), and it is
exact unless a write to the title overtook it (`TallyExact`, `StatsExact`). What a
finished count writes inherits both. A count asks for ids, so both facts are about the rows
under the events' ids; the rows under other spellings are what an entry may lack. The lemmas on counting rows rest on the library's
facts on finite sets. Reviews also add up ratings: `Sums` proves that the sum over a
set is what the sums over its parts make, from which the exact sum of a count follows
event by event. That the caches implement `TitleTotals` is a step simulation: a row
that is added under an event's id is the abstract growth of its title, an entry that is set is the abstract
showing of a number that is no more than the total (that is `NeverOvercounts`; it may be zero), every
other step is a stutter.

What is promised of single reviews needs users that wait, again as a hypothesis:
between the look and the store of a request nobody else writes its row (`Fresh`).
`OneReviewPerUser` is stated of each spelling of an event's id; it needs in addition that no call fails, because a creation takes
any failure of its look for "no review", and has `~Faults` as its second hypothesis;
the run `reviews_sequential` sets both. These theorems, and those of sessions under
`~Pipelined`, say nothing of a client that overlaps its requests: there an update may be
lost (`cassandra/review.go:114`) and a late extension may bind a session back to an earlier
user of the same client (`handler.go:266`; `NoForeignUser` bounds it to those).

*Recommendations.* A commit adds the edge of a like only because its MERGE clauses
bound at least one node of the user and one of the event, and bound nodes of nothing
else (`BindOK`); that is what `LikesReachGraph` needs to be inductive. A like is an edge, or on
its way, or in `lost`, and `lost` names it, so one failure excuses one like only. `TypeOK` also
says that the copy of a node a MERGE creates is a fresh one, and copies are bounded by
the number of requests: a transaction holds at most one uncommitted copy of an id, so
one is always left (a count of `Copies` against `Requests`). While no id has two nodes and the
edges are the likes, the paths of the Cypher query are in bijection with the pairs of a
user and an event that are a reason, so the score is their number
(`RecommendationsFollow`). `ListRanks` is about the pure part: `InOrder` lists the
elements of a finite set each once and sorted (`InOrderSorts`), hence a
deduplicated list has one event per title, and the loop that adds up the scores of a
title computes the sum over its events.

*Api.* Handlers are data, and the argument has two halves. `GoodScript` says of a list
of steps in which order they come and what each may answer: every refusal comes before
the first step that stores, a write in a user's name after the look at the session, the
only success is the last step or, in `APISession`, the one after the session was opened.
It is checked for each of the eighteen handlers and its encoder, step by step (`Plans`).
The invariant says what the steps a request has passed have left true (`Kept`), that
whatever was stored was stored by one of them (`RunInv`), and how the events and names
in the store follow from this attempt, the lost ones and the rival (`StoredInv`); that it is kept is
shown for each kind of step, from `GoodScript` alone. A change of a handler that keeps
`GoodScript` keeps every theorem. Besides what is said above, the assumptions are that
a request's body is of one of the five forms the decoders distinguish, and that the
creator of every event has an account.

*Listings.* `PagesMatch` compares two readings of a query: the filter the storage
builds, where an empty text means "no condition", dates are bounds in seconds and `user`
overrides `user_id`, and the conditions of the description taken one by one. They agree
(`EventsPromised`) only for input without a malformed date, an empty category or an
empty id in the path (`GoodFilters`), so `ListingInv` is about where the input came from
and what refused the rest: an operation's input is the path's parameters and the
request's values (`OpInv`), the decoding has accepted it, both dates were parsed before
the answer, and the page is the one the call found in this input (`Sought`). Events do
not change under a listing, because a request that patches is never one (`EventsInv`).
What it assumes of the documents (`DocumentsAssumption`): the two collections are finite,
no two accounts have one username (the collection's unique index), no account or category
is the empty text, a price is a natural number or missing, and a date is a day, empty or
malformed.

*Routes.* `RoutesMatch` says of every path, not only those of the run, that the prefix
tree reaches what the description names. The tree consumes a path from the front and
the templates look at all its segments, so `RouteProofs` brings both to one form: the
first segment of a path and the rest from the next slash on. Peeling off a segment takes
one slash away and moves the cuts (`Peeled`, from the ranks of the slashes, `Ranks`),
whence the templates can be read segment by segment (`Fitting`). They turn out to be
fourteen kinds of path that exclude each other (`Templated`, `OneKind`). For each the
branch the tree takes is followed (`Reached`), for any other path it is shown to end
without a node, and operations and parameters are compared (`OfferedAsDescribed`,
`FilledAsDescribed`). What is assumed is that a path is a sequence of texts.

*Lifecycle.* How far the start came decides what runs (`MainInv`); what state the
server is in tells what the stopper did (`ServerInv`); and an error that was
recorded stays (`ErrInv`).

Model-checked only: the liveness properties (`RequestsTerminate`,
`EventuallyFresh`, `Stops`): liveness under fairness is out of the prover's reach. No
theorem needs the induction theorems of the library, whose operator parameters the
provers cannot instantiate: the sums are argued about by induction on finite sets in a
form without such a parameter (`Sums!FiniteInduction`), sorted lists and the segments of
a path through cardinalities.

## Not modelled

The client half of the generated package (no code of the repository calls it), its
tracing, metrics, accessors and the JSON of answers; the clients of the stores, logging
and configuration; the CORS headers, which a library writes; BSON conversion and the
making of indexes. Texts, regular expressions beyond "equal or does not compile", and
percent-encoding in paths are abstracted. Replication inside Cassandra is left out: the
keyspace has replication factor 1 (`scripts/cassandra`). That `loadStatic` reads three
files is one outcome, loaded or failed.

## Plan

Every safety property and every action property the runs check is proved, and both
refinements. What a further step could add is depth in the parts modelled partly: the
remaining decoders of the generated code, and the replies' JSON.
