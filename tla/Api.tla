---------------------------------- MODULE Api ----------------------------------
(***************************************************************************)
(* One client's request from the socket to the answer: the documentation   *)
(* middleware, the router (Routes), the decoding and encoding of the       *)
(* generated code (Operations), the handler step by step (Handlers), the   *)
(* queries (Queries), and the client that sends the request again when it  *)
(* is answered 500.                                                        *)
(*                                                                         *)
(* The session of the request's cookie may end, or be bound to somebody    *)
(* else, between any two steps: other requests of the client share it and  *)
(* its key has a TTL.  Another client may register the name the request is *)
(* about.  Any call of a service may fail, before or after it has done its *)
(* work.                                                                   *)
(***************************************************************************)
EXTENDS Routes, Queries

CONSTANTS
  Requests,     \* what clients send: [path, method, body, given]
  Events,       \* the events collection at the start
  Me,           \* the account a registration makes and a login proves
  Attempts      \* how often a client sends one request (bounds a run)

ASSUME ConstantsAssumption ==
  /\ Attempts \in Nat \ {0}
  /\ Day \in Nat \ {0}
  /\ Cardinality({Blank, Bad, None}) = 3
  /\ {None, "gone", "nobody"} \cap DOMAIN Accounts = {} /\ Me \in DOMAIN Accounts
  /\ \A e \in DOMAIN Events : Events[e].by \in DOMAIN Accounts
  /\ \A r \in Requests : r.path \in Seq(STRING) /\ r.body \in Bodies

ASSUME DocumentsAssumption ==
  /\ IsFiniteSet(DOMAIN Events) /\ IsFiniteSet(DOMAIN Accounts)
  /\ None \notin Int /\ Blank \notin Categories \cup DOMAIN Accounts
  /\ \A u, v \in DOMAIN Accounts : Accounts[u].username = Accounts[v].username => u = v
  /\ \A e \in DOMAIN Events :
       Events[e].price \in Nat \cup {None} /\ Events[e].started \in Int
  /\ \A r \in Requests : \A f \in {"date_from", "date_to"} \cap DOMAIN r.given :
       r.given[f] \in Int \cup {Blank, Bad}

VARIABLES
  request,    \* what the client sent
  attempt,    \* how many times it has sent it
  pc,         \* "docs", "route", "decode", "run" or "done"
  op,         \* the operation, once routed
  input,      \* the values the operation reads
  at,         \* the handler's next step
  user,       \* the user the handler acts for
  response,   \* [status, cookie] when done
  session,    \* the session under the request's id: "gone", "nobody" or a user
  opened,     \* the handler opened a session under a new id, for its answer
  orphan,     \* one was stored under an id no answer carries
  taken,      \* the name of a registration is in the users collection
  events,     \* the events collection
  created,    \* how many events CreateEvent inserted
  page,       \* what a listing found
  docs,       \* the documentation pages: "unloaded", "loaded" or "failed"
  \* History variables; no action reads them.
  writes,     \* <<service, user>> of the writes of this attempt
  holders,    \* the users the session was bound to in this attempt
  ended,      \* the session ended during this attempt
  failed,     \* a call of this attempt failed
  lost,       \* writes of earlier attempts that were answered 500
  known,      \* the name of the registration was taken at the start
  rival       \* another client registered it since

record == <<writes, holders, ended, failed, lost, known, rival>>
store == <<session, opened, orphan, taken, events, created, page>>
vars == <<request, attempt, pc, op, input, at, user, response, store, docs, record>>

Users == DOMAIN Accounts
NoAnswer == [status |-> 0, cookie |-> "none"]

Plan == Handle(op, request.body, input)
Step == Plan.steps[at]
Do(kind) == pc = "run" /\ Step.do = kind

HasSid == Text(input, "Cookie") # Blank

(* formSetCookie orders the client to drop an empty id.                    *)
Echo == IF HasSid THEN "keep" ELSE "drop"

SetCookie(cookie) ==
  CASE cookie = "echo"   -> Echo
    [] cookie = "opened" -> IF opened THEN "new" ELSE Echo
    [] cookie = "header" -> IF Has(input, "Cookie") THEN Echo ELSE "none"
    [] OTHER             -> cookie

Encoded(reply) ==
  LET form == Plan.encode[reply.type]
  IN  [status |-> IF form.status = 0 THEN reply.code ELSE form.status,
       cookie |-> IF form.cookie THEN SetCookie(reply.cookie) ELSE "none"]

Respond(status) == /\ response' = [status |-> status, cookie |-> "none"]
                   /\ pc' = "done"

End(reply) == /\ response' = Encoded(reply)
              /\ pc' = "done"
              /\ UNCHANGED at

Proceed == at' = at + 1 /\ UNCHANGED <<pc, response>>

(* What no step of a handler changes.                                      *)
Sent == <<request, attempt, op, input, docs, lost, known, rival>>

-----------------------------------------------------------------------------
(* Before the handler                                                      *)

(* loadStatic runs once per process: a failure is never retried.           *)
ServeDocs ==
  /\ pc = "docs"
  /\ docs' \in IF docs = "unloaded" THEN {"loaded", "failed"} ELSE {docs}
  /\ IF docs' = "loaded" /\ IsDocsPage(request.path, request.method)
     THEN Respond(200)
     ELSE pc' = "route" /\ UNCHANGED response
  /\ UNCHANGED <<request, attempt, op, input, at, user, store, record>>

PathNames(name) ==
  CASE name = "UpdateEventReview" -> <<"event_id", "review_id">>
    [] name \in {"CreateEventReview", "GetEventReviews"} -> <<"event_id">>
    [] OTHER -> <<"id">>

(* The values the operation reads: those of the path's parameters, and     *)
(* what else the request gives.                                            *)
Inputs(name, args, given) ==
  LET names == {PathNames(name)[k] : k \in DOMAIN args}
      arg(n) == args[CHOOSE k \in DOMAIN args : PathNames(name)[k] = n]
  IN  [n \in names \cup DOMAIN given |->
         IF n \notin names THEN given[n]
         ELSE IF arg(n) = <<>> THEN Blank ELSE Head(arg(n))]

RouteRequest ==
  /\ pc = "route"
  /\ LET node == Route(request.path)
     IN  IF request.method \in DOMAIN node.ops
         THEN LET name == node.ops[request.method]
              IN  /\ op' = name
                  /\ input' = Inputs(name, node.args, request.given)
                  /\ pc' = "decode"
                  /\ UNCHANGED response
         ELSE /\ Respond(IF DOMAIN node.ops = {} THEN NotFound
                         ELSE NotAllowed(request.method))
              /\ UNCHANGED <<op, input>>
  /\ UNCHANGED <<request, attempt, at, user, store, docs, record>>

(* Parameters first, then the body; either is refused without a cookie.    *)
Decode ==
  /\ pc = "decode"
  /\ CASE ~Plan.params                  -> Respond(400)
       [] Plan.params /\ Plan.body # 0  -> Respond(Plan.body)
       [] Plan.params /\ Plan.body = 0  -> pc' = "run" /\ UNCHANGED response
  /\ UNCHANGED <<request, attempt, op, input, at, user, store, docs, record>>

-----------------------------------------------------------------------------
(* The handler                                                             *)

RunCheck ==
  /\ Do("check")
  /\ IF Wrong(Step.test, Step.field, input) THEN End(Step.reply) ELSE Proceed
  /\ UNCHANGED <<Sent, user, store, writes, holders, ended, failed>>

RunNeedSid ==
  /\ Do("sid")
  /\ IF HasSid THEN Proceed ELSE End(Step.reply)
  /\ UNCHANGED <<Sent, user, store, writes, holders, ended, failed>>

(* A call that fails: NewInternalError.                                    *)
Fails == failed' = TRUE /\ End(InternalError)

RunNeedUser ==
  /\ Do("session")
  /\ \/ /\ session \in Users
        /\ user' = session
        /\ Proceed
        /\ UNCHANGED failed
     \/ /\ session \notin Users
        /\ End(Step.reply)
        /\ UNCHANGED <<user, failed>>
     \/ Fails /\ UNCHANGED user
  /\ UNCHANGED <<Sent, store, writes, holders, ended>>

Writing == {"Register", "CreateEvent", "PatchEvent", "LikeEvent", "DislikeEvent",
            "CreateReview", "UpdateReview"}

EventOf == IF Has(input, "id") THEN input["id"] ELSE Text(input, "event_id")

MutMayRefuse(service, why) == TRUE

(* Whether a service may find this reason to refuse.  No unique index of   *)
(* the events collection makes CreateEvent's insert fail.                  *)
MayRefuse(service, why) ==
  CASE why = "missing" /\ service = "GetUser"    -> FoundUsers(input["id"]) = {}
    [] why = "missing" /\ service = "PatchEvent" -> Patchable(EventOf, user, events) = {}
    [] why = "missing" /\ service = "UpdateReview" -> TRUE
    [] why = "missing"     -> FoundEvents(EventOf, events) = {}
    [] service = "Register"    -> taken
    [] service = "CreateEvent" -> FALSE
    [] OTHER -> TRUE

(* Whether it may succeed.                                                 *)
MayServe(service) ==
  CASE service = "GetUser"      -> FoundUsers(input["id"]) # {}
    [] service = "PatchEvent"   -> Patchable(EventOf, user, events) # {}
    [] service = "Register"     -> ~taken
    [] service = "Authenticate" -> taken
    [] service \in {"GetEvent", "LikeEvent", "DislikeEvent", "CreateReview",
                    "UpdateReview", "GetReviews"} -> FoundEvents(EventOf, events) # {}
    [] OTHER -> ~Uncompilable(service, input)

(* What the call stores.                                                   *)
Apply(service) ==
  /\ taken' = (taken \/ service = "Register")
  /\ created' = IF service = "CreateEvent" THEN created + 1 ELSE created
  /\ events' = IF service = "PatchEvent"
               THEN PatchEvent(EventOf, user, input, events) ELSE events
  /\ writes' = IF service \in Writing THEN writes \cup {<<service, user>>} ELSE writes
  /\ UNCHANGED <<session, opened, orphan>>

Finds(service) ==
  CASE service = "GetUsers"                     -> GetUsers(input)
    [] service \in {"GetEvents", "GetUserEvents"} -> GetEvents(service, input, events)
    [] OTHER                                    -> {page}

ServeCall ==
  /\ Do("call") /\ MayServe(Step.service)
  /\ Apply(Step.service)
  /\ page' \in Finds(Step.service)
  /\ user' = IF Step.service \in {"Register", "Authenticate"} THEN Me ELSE user
  /\ Proceed
  /\ UNCHANGED <<Sent, holders, ended, failed>>

RefuseCall ==
  /\ Do("call")
  /\ \E why \in DOMAIN Step.refusals :
       MayRefuse(Step.service, why) /\ End(Step.refusals[why])
  /\ UNCHANGED <<Sent, user, store, writes, holders, ended, failed>>

(* The call fails, and what it was to store may be stored all the same.    *)
FailCall ==
  /\ Do("call")
  /\ \/ UNCHANGED <<store, writes>>
     \/ MayServe(Step.service) /\ Apply(Step.service) /\ UNCHANGED page
  /\ Fails
  /\ UNCHANGED <<Sent, user, holders, ended>>

(* CreateSession without an id, else CreateOrExtendSession, which binds    *)
(* the id's session anew, or stores one under a new id if it is gone.      *)
Bind(who) ==
  /\ session' = IF HasSid /\ session # "gone" THEN who ELSE session
  /\ holders' = IF HasSid /\ session # "gone" THEN holders \cup {who} ELSE holders

MutOpens == ~HasSid \/ session \in {"gone", "nobody"}
Opens == ~HasSid \/ session = "gone"

RunOpenSession ==
  /\ Do("open")
  /\ LET who == IF Step.who = "account" THEN user ELSE "nobody"
     IN  \/ /\ Step.kept /\ HasSid
            /\ Proceed
            /\ UNCHANGED <<store, holders, failed>>
         \/ /\ ~(Step.kept /\ HasSid)
            /\ Bind(who)
            /\ opened' = Opens
            /\ Proceed
            /\ UNCHANGED <<orphan, taken, events, created, page, failed>>
         \/ /\ ~(Step.kept /\ HasSid)
            /\ \/ UNCHANGED <<session, holders, orphan>>
               \/ Bind(who) /\ orphan' = (orphan \/ Opens)
            /\ Fails
            /\ UNCHANGED <<opened, taken, events, created, page>>
  /\ UNCHANGED <<Sent, user, writes, ended>>

(* The extension after a write; its error is only logged.                  *)
RunExtend ==
  /\ Do("extend")
  /\ \/ /\ Bind(user)
        /\ orphan' = (orphan \/ Opens)
        /\ failed' \in {failed, TRUE}
     \/ failed' = TRUE /\ UNCHANGED <<session, holders, orphan>>
  /\ Proceed
  /\ UNCHANGED <<Sent, user, opened, taken, events, created, page, writes, ended>>

RunDelete ==
  /\ Do("delete")
  /\ \/ /\ session' = "gone"
        /\ writes' = writes \cup {<<"Delete", None>>}
        /\ Proceed /\ UNCHANGED failed
     \/ /\ session' \in {session, "gone"}
        /\ Fails /\ UNCHANGED writes
  /\ UNCHANGED <<Sent, user, opened, orphan, taken, events, created, page, holders,
                 ended>>

RunAnswer ==
  /\ \/ Do("opened") /\ IF opened THEN End(Step.reply) ELSE Proceed
     \/ Do("answer") /\ End(Step.reply)
  /\ UNCHANGED <<Sent, user, store, writes, holders, ended, failed>>

-----------------------------------------------------------------------------
(* Around the request                                                      *)

(* Another request of the client, or the TTL.                              *)
SessionChanges ==
  /\ pc = "run" /\ HasSid /\ session # "gone"
  /\ session' \in ({"gone", "nobody"} \cup Users) \ {session}
  /\ ended' = (ended \/ session' = "gone")
  /\ holders' = holders \cup {session'}
  /\ UNCHANGED <<request, attempt, pc, op, input, at, user, response, opened, orphan,
                 taken, events, created, page, docs, writes, failed, lost, known,
                 rival>>

(* Another client's registration of the name is stored.  Only the call of  *)
(* a registration or a login reads the collection, so this is early enough *)
(* for all that happened since the request was first sent.                 *)
NameTaken ==
  /\ pc = "run" /\ op \in {"Register", "Login"} /\ ~taken
  /\ taken' = TRUE /\ rival' = TRUE
  /\ UNCHANGED <<request, attempt, pc, op, input, at, user, response, session, opened,
                 orphan, events, created, page, docs, writes, holders, ended, failed,
                 lost, known>>

(* The client sends the request again after a server error.                *)
Retry ==
  /\ pc = "done" /\ response.status = 500 /\ attempt < Attempts
  /\ attempt' = attempt + 1
  /\ pc' = "docs" /\ at' = 1 /\ user' = None /\ response' = NoAnswer
  /\ op' = "none" /\ input' = request.given
  /\ lost' = lost \cup {w[1] : w \in writes}
  /\ writes' = {} /\ holders' = {session} /\ ended' = FALSE /\ failed' = FALSE
  /\ UNCHANGED <<request, store, docs, known, rival>>

Answered == pc = "done" /\ (response.status # 500 \/ attempt = Attempts)
Stop == Answered /\ UNCHANGED vars

Init ==
  /\ request \in Requests
  /\ attempt = 1 /\ pc = "docs" /\ op = "none" /\ at = 1 /\ user = None
  /\ input = request.given
  /\ response = NoAnswer
  /\ session \in IF HasSid THEN {"gone", "nobody"} \cup Users ELSE {"gone"}
  /\ taken \in IF request.method = "POST" THEN BOOLEAN ELSE {TRUE}
  /\ opened = FALSE /\ orphan = FALSE
  /\ events = Events /\ created = 0 /\ page = {} /\ docs = "unloaded"
  /\ writes = {} /\ holders = {session} /\ ended = FALSE /\ failed = FALSE
  /\ lost = {} /\ known = taken /\ rival = FALSE

Next ==
  \/ ServeDocs \/ RouteRequest \/ Decode
  \/ RunCheck \/ RunNeedSid \/ RunNeedUser
  \/ ServeCall \/ RefuseCall \/ FailCall
  \/ RunOpenSession \/ RunExtend \/ RunDelete \/ RunAnswer
  \/ SessionChanges \/ NameTaken \/ Retry \/ Stop

Spec == Init /\ [][Next]_vars

-----------------------------------------------------------------------------
(* Properties                                                              *)

(* The variables have their types; `at` stays inside the handler.          *)
TypeOK ==
  /\ attempt \in 1..Attempts
  /\ pc \in {"docs", "route", "decode", "run", "done"}
  /\ pc = "run" => at \in DOMAIN Plan.steps
  /\ user \in Users \cup {None}
  /\ response \in [status : {0, 200, 201, 204, 400, 401, 404, 405, 409, 415, 500},
                   cookie : {"keep", "drop", "new", "blank", "none"}]
  /\ session \in {"gone", "nobody"} \cup Users
  /\ opened \in BOOLEAN /\ orphan \in BOOLEAN /\ taken \in BOOLEAN
  /\ DOMAIN events = DOMAIN Events
  /\ created \in 0..Attempts
  /\ page \subseteq DOMAIN Events \cup Users
  /\ docs \in {"unloaded", "loaded", "failed"}

(* Whatever the path, the prefix tree of ServeHTTP reaches the operations  *)
(* of the API description and no others, with the described parameters,    *)
(* and the documentation pages hide none of them.                          *)
RoutesAgree ==
  pc = "docs" =>
    /\ RoutesAsDescribed(request.path)
    /\ IsDocsPage(request.path, request.method) => Described(request.path) = {}

(* Every write of an event, a reaction or a review is made in the name of  *)
(* a user the request's session was bound to while the request ran, and    *)
(* nothing is read or stored for a client whose session had no user: the   *)
(* handlers that act for a user all look at the session first.             *)
ActsForHolder ==
  /\ \A w \in writes : w[1] \notin {"Register", "Delete"} => w[2] \in holders \cap Users
  /\ op = "GetRecommendations" /\ response.status = 200 => user \in holders \cap Users

(* A client can tell from the answer whether its write was made: 2xx if it *)
(* was, 4xx if nothing was stored.  Only after a 500 it cannot know.       *)
AnswerTellsTheWrite ==
  pc = "done" /\ op \in {"Register", "CreateEvent", "PatchEvent", "LikeEvent",
                         "DislikeEvent", "CreateEventReview", "UpdateEventReview"} =>
    /\ response.status < 300 => Cardinality(writes) = 1
    /\ response.status \in 400..499 => writes = {}

(* The cookie follows the session: a client is told to drop its id only if *)
(* it sent none or this request deleted its session, gets a new id exactly *)
(* if the handler opened a session for it, and is never told to go on with *)
(* an id by a request that deleted the session.                            *)
CookieFollowsSession ==
  pc = "done" =>
    /\ response.cookie = "drop" /\ HasSid => <<"Delete", None>> \in writes
    /\ response.cookie = "new" <=> opened
    /\ response.cookie = "keep" => HasSid /\ <<"Delete", None>> \notin writes

(* A session nobody is told of is left in the store, bound to a user, only *)
(* if the request's session ended while it ran, or a call failed: the      *)
(* extension after a write then stores one under a new id, and the answer  *)
(* still names the old.                                                    *)
OrphanHasCause ==
  [][orphan' # orphan => ended \/ failed']_vars

(* A retry stores nothing twice but an event, and that only after the      *)
(* first attempt was stored and answered 500.  A registration is told that *)
(* its name exists only if it did, if another client took it meanwhile, or *)
(* if the client's own lost attempt made it; and whoever comes first keeps *)
(* the name: an attempt stores it only if nobody had it.                   *)
Registered == "Register" \in lost \/ \E w \in writes : w[1] = "Register"

RetryHasCause ==
  /\ created > 1 => "CreateEvent" \in lost
  /\ op = "Register" /\ response.status = 409 => known \/ rival \/ "Register" \in lost
  /\ Registered => ~known /\ ~rival

(* What the listings promise: with each condition of the description read  *)
(* on its own, a page holds only documents that meet all of them, and all  *)
(* of these when it is not cut.  `user` replaces user_id, and the events   *)
(* of a user are those of the id as it is written in the path.             *)
AlsoSpelled == {<<s, Spelled[s]>> : s \in DOMAIN Spelled}

Promised(e) ==
  LET doc == events[e]
      given(f) == Has(input, f) /\ input[f] # Blank
  IN  /\ \A f \in {"title", "address", "city"} : given(f) => doc[f] = input[f]
      /\ Has(input, "category") => doc.category = input["category"]
      /\ Has(input, "price_from") => doc.price \in Nat /\ doc.price >= input["price_from"]
      /\ Has(input, "price_to") => doc.price \in Nat /\ doc.price <= input["price_to"]
      /\ given("date_from") => doc.started \div Day >= input["date_from"]
      /\ given("date_to") => doc.started \div Day <= input["date_to"]
      /\ CASE op = "GetUserEvents" -> doc.by = input["id"]
           [] OTHER ->
             /\ given("id") => e = input["id"] \/ <<input["id"], e>> \in AlsoSpelled
             /\ given("user") => Accounts[doc.by].username = input["user"]
             /\ given("user_id") /\ ~given("user") => doc.by = input["user_id"]

PromisedUser(u) ==
  /\ Has(input, "name") => input["name"] \in {Blank, Accounts[u].name}
  /\ Has(input, "id") => input["id"] \in {Blank, u} \/ <<input["id"], u>> \in AlsoSpelled

PageOfMatches ==
  pc = "done" /\ op \in {"GetEvents", "GetUserEvents", "GetUsers"}
              /\ response.status = 200 =>
    LET all == IF op = "GetUsers" THEN {u \in Users : PromisedUser(u)}
               ELSE {e \in DOMAIN events : Promised(e)}
        limit == IF Has(input, "limit") THEN input["limit"] ELSE DefaultLimit
        cut == (limit # 0 /\ limit < Cardinality(all))
                 \/ (Has(input, "offset") /\ input["offset"] # 0)
    IN  page \subseteq all /\ (cut \/ page = all)

(* No step changes an event but a patch by the user who created it, and it *)
(* changes only the fields the patch gives.                                *)
PatchesOwnEvent ==
  [][\A e \in DOMAIN events : events'[e] # events[e] =>
       /\ op = "PatchEvent" /\ events[e].by = user
       /\ \A f \in DOMAIN events[e] : events'[e][f] # events[e][f] =>
            f \in DOMAIN input /\ f \in {"category", "city", "price"}]_vars
=============================================================================
