------------------------------- MODULE Session -------------------------------
(***************************************************************************)
(* Sessions of the event hub: the HTTP handlers that read or change a      *)
(* session (internal/router/handler.go), the session service               *)
(* (internal/service/session.go) and the Redis session storage             *)
(* (internal/storage/redis/session.go), with the browsers that keep the    *)
(* session id in a cookie.                                                 *)
(*                                                                         *)
(* A request is one goroutine of the HTTP server.  Its steps are the calls *)
(* it makes to a store, each atomic at the store; between two steps any    *)
(* other request may run.  SetOrUpdate holds the process-wide mutex `mu`   *)
(* across its two Redis calls; Get, Set and Delete do not take it.         *)
(***************************************************************************)
EXTENDS Naturals, FiniteSets

CONSTANTS
  Clients,     \* browsers, each with one cookie jar
  Users,       \* user ids
  SIDs,        \* the session ids cryptic.MustSID may draw (bounds a run)
  Requests,    \* request slots: how many requests may be in flight
  Anon,        \* the empty user_id of an anonymous session
  None,        \* "nothing": no session, no cookie, no holder, no id
  Keep,        \* a response without a Set-Cookie value
  Pipelined,   \* may a client send a request before its last one is answered
  Faults       \* may calls to the stores fail, responses get lost

ASSUME ConstantsAssumption ==
  /\ None \notin Clients \cup Users \cup SIDs \cup Requests \cup {Anon}
  /\ Anon \notin Users
  /\ Keep \notin SIDs \cup {None}
  /\ Pipelined \in BOOLEAN
  /\ Faults \in BOOLEAN

VARIABLES
  sessions,    \* Redis "sid:*" hashes: the user_id bound to a session, or None
  mu,          \* the request holding SessionStorage.mu, or None
  req,         \* the requests in flight
  cookie,      \* the X-Session-Id cookie each client holds
  accounts,    \* registered users (users collection)
  \* History variables; no action reads them.
  owner,       \* the client a session id was drawn for, once it was stored
  authAs,      \* the users each client has authenticated or registered as
  loggedOut,   \* session ids whose logout succeeded
  view         \* the user a client was last told it is logged in as

history == <<owner, authAs, loggedOut, view>>
vars == <<sessions, mu, req, cookie, accounts, owner, authAs, loggedOut, view>>

-----------------------------------------------------------------------------
(* Requests                                                                *)

(* Act stands for the six handlers that check the session, call a service  *)
(* and extend the session (create and patch event, like, dislike, create   *)
(* and update review); Recommend checks without extending; Read is every   *)
(* handler that only echoes the cookie.                                    *)
Ops == {"Session", "Register", "Login", "Logout", "Act", "Recommend", "Read"}

PCs == {"idle", "get", "auth", "body", "set", "lock", "hget", "write",
        "delete", "reply"}

Idle == [pc |-> "idle", op |-> "Read", client |-> None, sid |-> None,
         newSid |-> None, user |-> Anon, found |-> FALSE, out |-> Keep,
         told |-> None]

RequestType ==
  [pc : PCs, op : Ops, client : Clients \cup {None}, sid : SIDs \cup {None},
   newSid : SIDs \cup {None}, user : Users \cup {Anon}, found : BOOLEAN,
   out : SIDs \cup {None, Keep}, told : Users \cup {None}]

Active(r) == req[r].pc # "idle"

(* MustSID with a predictable generator.                                   *)
MutPredictableSIDs == SIDs

(* MustSID draws 32 random bytes: an id never drawn before.  The draw is   *)
(* placed at the start of the request, the id being known to nobody until  *)
(* it is stored.                                                           *)
FreshSIDs == {s \in SIDs : owner[s] = None /\ \A r \in Requests : req[r].newSid # s}

(* The answer of a handler: what the client will see of it, which is the   *)
(* Set-Cookie and, for a login that succeeded, the user it is now.         *)
Answered(client, setCookie, told) ==
  [Idle EXCEPT !.pc = "reply", !.client = client, !.out = setCookie, !.told = told]

AnswerLogin(r, setCookie, told) ==
  req' = [req EXCEPT ![r] = Answered(@.client, setCookie, told)]

Answer(r, setCookie) == AnswerLogin(r, setCookie, None)

AnswerSession(r, s) ==
  AnswerLogin(r, s, IF req[r].user \in Users THEN req[r].user ELSE None)

(* NewInternalError carries no Set-Cookie.                                 *)
InternalError(r) == Answer(r, Keep)

Goto(r, label) == req' = [req EXCEPT ![r].pc = label]

-----------------------------------------------------------------------------
Init ==
  /\ sessions = [s \in SIDs |-> None]
  /\ mu = None
  /\ req = [r \in Requests |-> Idle]
  /\ cookie = [c \in Clients |-> None]
  /\ accounts = {}
  /\ owner = [s \in SIDs |-> None]
  /\ authAs = [c \in Clients |-> {}]
  /\ loggedOut = {}
  /\ view = [c \in Clients |-> None]

(* The possible first steps of a handler that found session id sid in the  *)
(* cookie.  Act answers at once when it has no session id, or when it      *)
(* rejects the request body or does not find the event before it looks at  *)
(* the session.                                                            *)
SessionSteps(sid) == {IF sid = None THEN "set" ELSE "lock"}
LogoutSteps(sid) == {IF sid = None THEN "reply" ELSE "delete"}
ActSteps(sid) == {"reply"} \cup (IF sid = None THEN {} ELSE {"get"})
RecommendSteps(sid) == {IF sid = None THEN "reply" ELSE "get"}

FirstSteps(op, sid) ==
  CASE op = "Session"               -> SessionSteps(sid)
    [] op \in {"Register", "Login"} -> {"auth"}
    [] op = "Logout"                -> LogoutSteps(sid)
    [] op = "Act"                   -> ActSteps(sid)
    [] op = "Recommend"             -> RecommendSteps(sid)
    [] op = "Read"                  -> {"reply"}

MayCreate(op) == op \in {"Session", "Register", "Login", "Act"}

(* A client sends a request with the cookie it holds.  A handler that      *)
(* answers at once echoes the cookie, an absent id clearing it; a 401 of   *)
(* the reaction, review and recommendation handlers has no Set-Cookie.     *)
Submit(r, c, op) ==
  LET sid == cookie[c] IN
  /\ ~Active(r)
  /\ Pipelined \/ \A q \in Requests : req[q].client # c
  /\ \E pc \in FirstSteps(op, sid) :
       IF pc = "reply"
       THEN \E setCookie \in IF op \in {"Act", "Recommend"} THEN {Keep, sid} ELSE {sid} :
              req' = [req EXCEPT ![r] = Answered(c, setCookie, None)]
       ELSE \E new \in IF MayCreate(op) THEN FreshSIDs ELSE {None} :
              req' = [req EXCEPT ![r] = [Idle EXCEPT !.pc = pc, !.op = op, !.client = c,
                                                     !.sid = sid, !.newSid = new]]
  /\ view' = IF op \in {"Session", "Login", "Logout"} \/ (op = "Register" /\ sid = None)
             THEN [view EXCEPT ![c] = None] ELSE view
  /\ UNCHANGED <<sessions, mu, cookie, accounts, owner, authAs, loggedOut>>

-----------------------------------------------------------------------------
(* GetSession: HMGET outside the mutex                                     *)

MutSkipNotFound(v) == v = Anon
Unauthorized(v) == v \in {None, Anon}

(* The 401 of the reaction and review handlers has no Set-Cookie, that of  *)
(* the event handlers echoes the cookie.                                   *)
GetSession(r) ==
  /\ req[r].pc = "get"
  /\ LET v == sessions[req[r].sid] IN
       \/ /\ ~Unauthorized(v)
          /\ req' = [req EXCEPT ![r].pc = "body", ![r].user = v]
       \/ /\ Unauthorized(v)
          /\ \E setCookie \in {Keep, req[r].sid} : Answer(r, setCookie)
       \/ Faults /\ InternalError(r)
  /\ UNCHANGED <<sessions, mu, cookie, accounts, history>>

(* The service call of an authorised handler; what it does to events,      *)
(* reactions and reviews is the subject of other modules.  A client error  *)
(* (400, 403, 404, 409) echoes the cookie, an internal error does not.     *)
Body(r) ==
  /\ req[r].pc = "body"
  /\ \/ req[r].op = "Act" /\ Goto(r, "lock")
     \/ Answer(r, req[r].sid)
     \/ Faults /\ InternalError(r)
  /\ UNCHANGED <<sessions, mu, cookie, accounts, history>>

-----------------------------------------------------------------------------
(* Register and Login: the user service                                    *)

(* After the user service vouched for u: a request without session id      *)
(* creates a session; Login with one rebinds it; Register with one leaves  *)
(* the session alone and echoes the cookie.                                *)
Authenticated(r, u) ==
  /\ authAs' = [authAs EXCEPT ![req[r].client] = @ \cup {u}]
  /\ \/ /\ req[r].sid = None
        /\ req' = [req EXCEPT ![r].pc = "set", ![r].user = u]
     \/ /\ req[r].sid # None /\ req[r].op = "Login"
        /\ req' = [req EXCEPT ![r].pc = "lock", ![r].user = u]
     \/ /\ req[r].sid # None /\ req[r].op = "Register"
        /\ Answer(r, req[r].sid)

Register(r) ==
  /\ req[r].pc = "auth" /\ req[r].op = "Register"
  /\ \/ \E u \in Users \ accounts :
          /\ accounts' = accounts \cup {u}
          /\ Authenticated(r, u)
     \/ /\ Answer(r, req[r].sid)          \* bad request or username taken
        /\ UNCHANGED <<accounts, authAs>>
     \/ /\ Faults /\ InternalError(r)
        /\ accounts' = accounts \/ \E u \in Users \ accounts : accounts' = accounts \cup {u}
        /\ UNCHANGED authAs
  /\ UNCHANGED <<sessions, mu, cookie, owner, loggedOut, view>>

Authenticate(r) ==
  /\ req[r].pc = "auth" /\ req[r].op = "Login"
  /\ \/ \E u \in accounts : Authenticated(r, u)
     \/ Answer(r, req[r].sid) /\ UNCHANGED authAs   \* invalid credentials
     \/ Faults /\ InternalError(r) /\ UNCHANGED authAs
  /\ UNCHANGED <<sessions, mu, cookie, accounts, owner, loggedOut, view>>

-----------------------------------------------------------------------------
(* Redis writes.  A failed call may or may not have taken effect.          *)

(* HSETEX writes the three fields and the TTL as one command.              *)
SetValue(r, s, u) ==
  /\ sessions' = [sessions EXCEPT ![s] = u]
  /\ owner' = [owner EXCEPT ![s] = req[r].client]

NotWritten == UNCHANGED <<sessions, owner>>

CreateSession(r) ==
  /\ req[r].pc = "set"
  /\ \/ SetValue(r, req[r].newSid, req[r].user) /\ AnswerSession(r, req[r].newSid)
     \/ /\ Faults
        /\ SetValue(r, req[r].newSid, req[r].user) \/ NotWritten
        /\ InternalError(r)
  /\ UNCHANGED <<mu, cookie, accounts, authAs, loggedOut, view>>

MutNoMutex == TRUE
MutexFree == mu = None

(* SetOrUpdate: s.mu.Lock()                                                *)
Lock(r) ==
  /\ req[r].pc = "lock"
  /\ MutexFree
  /\ mu' = r
  /\ Goto(r, "hget")
  /\ UNCHANGED <<sessions, cookie, accounts, history>>

MutForgottenUnlock == UNCHANGED mu
UnlockOnError == mu' = None

(* What the handler answers once SetOrUpdate returned: Session and Login   *)
(* send the id that was stored and fail with it; Act ignores both the      *)
(* error and the id, and echoes the cookie.                                *)
ExtendReturns(r, stored, succeeded) ==
  IF req[r].op = "Act" THEN Answer(r, req[r].sid)
  ELSE IF succeeded    THEN AnswerSession(r, stored)
                       ELSE InternalError(r)

(* HGET created_at; any error but "no such key" returns, the deferred      *)
(* Unlock running.                                                         *)
HGet(r) ==
  /\ req[r].pc = "hget"
  /\ \/ /\ req' = [req EXCEPT ![r].pc = "write",
                              ![r].found = sessions[req[r].sid] # None]
        /\ UNCHANGED mu
     \/ /\ Faults
        /\ ExtendReturns(r, None, FALSE)
        /\ UnlockOnError
  /\ UNCHANGED <<sessions, cookie, accounts, history>>

MutReuseId(q) == q.sid
ExtendTarget(q) == IF q.found THEN q.sid ELSE q.newSid

(* CreateOrExtendSessionReq.UserID: "" from the session handler, the user  *)
(* read before the service call from Act, the user just authenticated      *)
(* from Login.                                                             *)
MutExtendAnonymous(q) == IF q.op = "Act" THEN Anon ELSE q.user
MutLoginKeepsAnonymous(q) == IF q.op = "Login" /\ q.found THEN Anon ELSE q.user
ExtendUser(q) == q.user

(* HSETEX on the id that was found, or on the new one; then the deferred   *)
(* Unlock.                                                                 *)
HSetEX(r) ==
  LET s == ExtendTarget(req[r]) IN
  /\ req[r].pc = "write"
  /\ \/ SetValue(r, s, ExtendUser(req[r])) /\ ExtendReturns(r, s, TRUE) /\ mu' = None
     \/ /\ Faults
        /\ SetValue(r, s, ExtendUser(req[r])) \/ NotWritten
        /\ ExtendReturns(r, s, FALSE)
        /\ UnlockOnError
  /\ UNCHANGED <<cookie, accounts, authAs, loggedOut, view>>

MutDeleteNothing(s) == sessions' = sessions
Del(s) == sessions' = [sessions EXCEPT ![s] = None]

(* DEL, without the mutex.                                                 *)
Delete(r) ==
  /\ req[r].pc = "delete"
  /\ \/ /\ Del(req[r].sid)
        /\ loggedOut' = loggedOut \cup {req[r].sid}
        /\ Answer(r, None)
     \/ /\ Faults
        /\ Del(req[r].sid) \/ UNCHANGED sessions
        /\ UNCHANGED loggedOut
        /\ InternalError(r)
  /\ UNCHANGED <<mu, cookie, accounts, owner, authAs, view>>

-----------------------------------------------------------------------------
(* The client and the clock                                                *)

(* The response arrives, in any order with the others of the same client,  *)
(* and the browser applies its Set-Cookie; or it is lost.                  *)
Reply(r) ==
  LET q == req[r] IN
  /\ q.pc = "reply"
  /\ req' = [req EXCEPT ![r] = Idle]
  /\ \/ /\ cookie' = IF q.out = Keep THEN cookie ELSE [cookie EXCEPT ![q.client] = q.out]
        /\ view' = IF q.told = None THEN view ELSE [view EXCEPT ![q.client] = q.told]
     \/ Faults /\ UNCHANGED <<cookie, view>>
  /\ UNCHANGED <<sessions, mu, accounts, owner, authAs, loggedOut>>

(* The TTL of a session runs out.                                          *)
Expire(s) ==
  /\ sessions[s] # None
  /\ sessions' = [sessions EXCEPT ![s] = None]
  /\ UNCHANGED <<mu, req, cookie, accounts, history>>

(* Max-Age of the cookie runs out, or the browser forgets it.              *)
DropCookie(c) ==
  /\ cookie[c] # None
  /\ cookie' = [cookie EXCEPT ![c] = None]
  /\ UNCHANGED <<sessions, mu, req, accounts, history>>

-----------------------------------------------------------------------------
Step(r) == GetSession(r) \/ Body(r) \/ Register(r) \/ Authenticate(r)
           \/ CreateSession(r) \/ Lock(r) \/ HGet(r) \/ HSetEX(r) \/ Delete(r)
           \/ Reply(r)

Next ==
  \/ \E r \in Requests : Step(r)
  \/ \E r \in Requests, c \in Clients, op \in Ops : Submit(r, c, op)
  \/ \E s \in SIDs : Expire(s)
  \/ \E c \in Clients : DropCookie(c)

Spec == Init /\ [][Next]_vars

(* A goroutine that can run does run, and its store calls return (the      *)
(* clients have timeouts): weak fairness of its steps.  sync.Mutex hands   *)
(* itself over to a waiter that waits longer than 1ms, so a waiter cannot  *)
(* be overtaken for ever: strong fairness of Lock.  Nothing is assumed of  *)
(* clients and of the clock.                                               *)
Fairness == \A r \in Requests : WF_vars(Step(r)) /\ SF_vars(Lock(r))

FairSpec == Spec /\ Fairness

-----------------------------------------------------------------------------
(* Properties                                                              *)

(* Type invariant.  A handler body runs only for a real user: a session    *)
(* that is missing or anonymous has been turned away before.               *)
TypeOK ==
  /\ sessions \in [SIDs -> Users \cup {Anon, None}]
  /\ mu \in Requests \cup {None}
  /\ req \in [Requests -> RequestType]
  /\ cookie \in [Clients -> SIDs \cup {None}]
  /\ accounts \in SUBSET Users
  /\ owner \in [SIDs -> Clients \cup {None}]
  /\ authAs \in [Clients -> SUBSET Users]
  /\ loggedOut \in SUBSET SIDs
  /\ view \in [Clients -> Users \cup {None}]
  /\ \A r \in Requests : req[r].pc = "body" => req[r].user \in Users

(* A client's session never speaks for a user the client did not           *)
(* authenticate as: neither the session its cookie names, nor the user a   *)
(* handler is acting for.  Sessions cross clients only if ids collide or a *)
(* user read for one session is written to another.                        *)
NoForeignUser ==
  /\ \A c \in Clients : cookie[c] # None =>
        sessions[cookie[c]] \in authAs[c] \cup {Anon, None}
  /\ \A r \in Requests : req[r].pc = "body" => req[r].user \in authAs[req[r].client]

(* SetOrUpdate is a critical section: from HGET to HSETEX no other         *)
(* extension is between its own, and the holder of the mutex is the one    *)
(* inside, on every error path too.                                        *)
InSection(r) == req[r].pc \in {"hget", "write"}
MutualExclusion == \A r \in Requests : InSection(r) <=> mu = r

(* A session that is gone, by logout or by expiry, while no extension that *)
(* has already found it is between HGET and HSETEX, is gone for good: a    *)
(* request that presents its id gets another id, never the old one back.   *)
Gone(s) ==
  /\ owner[s] # None /\ sessions[s] = None
  /\ ~\E r \in Requests : req[r].pc = "write" /\ req[r].found /\ req[r].sid = s
GoneStays == \A s \in SIDs : Gone(s) => Gone(s)'
GoneForGood == [][GoneStays]_vars

(* "POST /auth/logout" ends the user's session (README.md:83): once the    *)
(* logout succeeded, the session does not exist any more.                  *)
LogoutEndsSession == \A s \in loggedOut : sessions[s] = None

(* Extending a session after an action only moves its TTL: the user bound  *)
(* to a live session stays who it was.                                     *)
ExtendKeepsUser ==
  [][\A r \in Requests : \A s \in SIDs :
       (req[r].pc = "write" /\ req[r].op = "Act" /\ req'[r].pc = "reply"
         /\ sessions[s] # None) => sessions'[s] = sessions[s]]_vars

(* A client that was told 204 by login (or 201 by a registration that      *)
(* opened a session) and has since sent neither session, login nor logout  *)
(* request is still that user, or its session has ended.                   *)
LoginSticks ==
  \A c \in Clients : view[c] # None /\ cookie[c] # None =>
    sessions[cookie[c]] \in {view[c], None}

(* Every request is answered: no error path keeps the mutex, no chain of   *)
(* extensions starves another one.                                         *)
RequestsTerminate == \A r \in Requests : Active(r) ~> ~Active(r)
=============================================================================
