---------------------------- MODULE SessionProofs ----------------------------
(***************************************************************************)
(* Proofs about Session, for every set of clients, users, session ids and  *)
(* requests, with and without faults and pipelining.                       *)
(*                                                                         *)
(* TypeOK, MutualExclusion and NoForeignUser are not inductive alone: what *)
(* keeps a session inside one client is that an id is stored once for one  *)
(* client, and that every place an id or a user can rest in (cookie,       *)
(* request, answer on its way) belongs to that client.  Inv says so.       *)
(*                                                                         *)
(* The second part is about clients that wait for an answer before they    *)
(* send again (~Pipelined): then a logout, a login and an extension of one *)
(* client's session cannot overlap, and SeqInv adds to Inv what a request  *)
(* and a client can rely on while it waits.                                *)
(***************************************************************************)
EXTENDS Session, TLAPS

(* What a request needs to have at each of its steps.                      *)
StepsOK ==
  \A r \in Requests :
    /\ IF Active(r) THEN req[r].client \in Clients ELSE req[r] = Idle
    /\ req[r].pc \in {"get", "lock", "hget", "write", "delete"} => req[r].sid # None
    /\ req[r].pc \in {"auth", "set", "lock", "hget", "write"} => req[r].newSid # None
    /\ req[r].pc \in {"get", "body"} /\ req[r].op = "Act" =>
         req[r].newSid # None /\ req[r].sid # None
    /\ req[r].pc \in {"get", "body"} => req[r].op \in {"Act", "Recommend"}

(* A drawn session id is in nobody else's hands.                           *)
FreshOK ==
  \A r \in Requests : req[r].newSid # None =>
    /\ owner[req[r].newSid] = None
    /\ \A q \in Requests : q # r => req[q].newSid # req[r].newSid

(* A stored id is only ever held by its client.                            *)
OwnedOK ==
  /\ \A c \in Clients : cookie[c] # None => owner[cookie[c]] = c
  /\ \A r \in Requests : req[r].sid # None => owner[req[r].sid] = req[r].client
  /\ \A r \in Requests : req[r].out \in SIDs => owner[req[r].out] = req[r].client

(* A user is only ever bound, or acted for, by a client that authenticated *)
(* as that user.                                                           *)
AuthOK ==
  /\ \A s \in SIDs : sessions[s] # None =>
       /\ owner[s] # None
       /\ sessions[s] \in Users => sessions[s] \in authAs[owner[s]]
  /\ \A r \in Requests : req[r].user \in Users => req[r].user \in authAs[req[r].client]

Inv == TypeOK /\ StepsOK /\ MutualExclusion /\ FreshOK /\ OwnedOK /\ AuthOK

-----------------------------------------------------------------------------
(* The shapes of a step                                                    *)

(* A step that replaces the record of request r by rec and stores nothing: *)
(* rec may drop ids and may name an answer or a user only if they are the  *)
(* client's.                                                               *)
LocalStep(r, rec) ==
  /\ req' = [req EXCEPT ![r] = rec]
  /\ rec \in RequestType
  /\ rec.client = req[r].client
  /\ rec.sid \in {req[r].sid, None}
  /\ rec.newSid \in {req[r].newSid, None}
  /\ rec.out \in SIDs => owner[rec.out] = rec.client
  /\ rec.user \in Users => rec.user \in authAs'[rec.client]
  /\ authAs' \in [Clients -> SUBSET Users]
  /\ \A c \in Clients : authAs[c] \subseteq authAs'[c]

LEMMA LocalStepKeeps ==
  ASSUME Inv, NEW r \in Requests, NEW rec, LocalStep(r, rec), Active(r),
         UNCHANGED <<sessions, cookie, owner>>
  PROVE  FreshOK' /\ OwnedOK' /\ AuthOK'
  <1>1. req' \in [Requests -> RequestType] /\ req'[r] = rec
        /\ \A q \in Requests \ {r} : req'[q] = req[q]
    BY DEF LocalStep, Inv, TypeOK
  <1>2. FreshOK'
    BY <1>1 DEF LocalStep, Inv, TypeOK, FreshOK, RequestType
  <1>3. OwnedOK'
    BY <1>1 DEF LocalStep, Inv, TypeOK, OwnedOK, RequestType
  <1>4. AuthOK'
    <2>1. ASSUME NEW s \in SIDs, sessions'[s] # None
          PROVE  owner'[s] # None /\ (sessions'[s] \in Users => sessions'[s] \in authAs'[owner'[s]])
      BY <2>1 DEF LocalStep, Inv, TypeOK, AuthOK
    <2>2. ASSUME NEW q \in Requests, req'[q].user \in Users
          PROVE  req'[q].user \in authAs'[req'[q].client]
      <3>1. CASE q = r
        BY <3>1, <2>2, <1>1 DEF LocalStep
      <3>2. CASE q # r
        <4>1. req[q].client \in Clients
          BY <3>2, <2>2, <1>1, ConstantsAssumption DEF Inv, StepsOK, Idle
        <4> QED BY <4>1, <3>2, <2>2, <1>1 DEF LocalStep, Inv, AuthOK
      <3> QED BY <3>1, <3>2
    <2> QED BY <2>1, <2>2 DEF AuthOK
  <1> QED BY <1>2, <1>3, <1>4

(* A step that stores user u of request r under the id of its session or   *)
(* under the id drawn for it, and answers.                                 *)
StoreStep(r, s, rec) ==
  /\ req' = [req EXCEPT ![r] = rec]
  /\ s \in SIDs
  /\ s \in {req[r].sid, req[r].newSid}
  /\ SetValue(r, s, req[r].user)
  /\ rec \in RequestType
  /\ rec.client = req[r].client
  /\ rec.sid = None /\ rec.newSid = None /\ rec.user = Anon
  /\ rec.out \in {s, req[r].sid, None, Keep}

LEMMA StoreStepKeeps ==
  ASSUME Inv, NEW r \in Requests, NEW s, NEW rec, StoreStep(r, s, rec), Active(r),
         UNCHANGED <<cookie, authAs>>
  PROVE  owner' \in [SIDs -> Clients \cup {None}] /\ sessions' \in [SIDs -> Users \cup {Anon, None}]
         /\ FreshOK' /\ OwnedOK' /\ AuthOK'
  <1>1. /\ req' \in [Requests -> RequestType] /\ req'[r] = rec
        /\ \A q \in Requests \ {r} : req'[q] = req[q]
    BY DEF StoreStep, Inv, TypeOK
  <1>2. req[r].client \in Clients /\ req[r].client # None
    BY ConstantsAssumption DEF Inv, StepsOK
  <1>3. req[r].user \in Users \cup {Anon}
    BY DEF Inv, TypeOK, RequestType
  <1>4. /\ owner' \in [SIDs -> Clients \cup {None}]
        /\ sessions' \in [SIDs -> Users \cup {Anon, None}]
        /\ owner'[s] = req[r].client /\ sessions'[s] = req[r].user
        /\ \A t \in SIDs \ {s} : owner'[t] = owner[t] /\ sessions'[t] = sessions[t]
    BY <1>2, <1>3 DEF StoreStep, SetValue, Inv, TypeOK
  <1>5. owner[s] \in {None, req[r].client}
    BY <1>2, ConstantsAssumption DEF StoreStep, Inv, FreshOK, OwnedOK
  <1>6. FreshOK'
    <2> SUFFICES ASSUME NEW q \in Requests, req'[q].newSid # None
                 PROVE  /\ owner'[req'[q].newSid] = None
                        /\ \A p \in Requests : p # q => req'[p].newSid # req'[q].newSid
      BY DEF FreshOK
    <2>1. q # r /\ req'[q] = req[q] /\ req[q].newSid \in SIDs
      BY <1>1 DEF StoreStep, Inv, TypeOK, RequestType
    <2>2. owner[req[q].newSid] = None /\ \A p \in Requests : p # q => req[p].newSid # req[q].newSid
      BY <2>1 DEF Inv, FreshOK
    <2>3. s # req[q].newSid
      BY <2>1, <2>2, <1>2, ConstantsAssumption DEF StoreStep, Inv, OwnedOK
    <2> QED BY <2>1, <2>2, <2>3, <1>1, <1>4 DEF StoreStep
  <1>7. OwnedOK'
    <2>1. ASSUME NEW c \in Clients, cookie'[c] # None PROVE owner'[cookie'[c]] = c
      <3>1. cookie[c] \in SIDs /\ owner[cookie[c]] = c
        BY <2>1 DEF Inv, TypeOK, OwnedOK
      <3> QED BY <3>1, <1>4, <1>5, ConstantsAssumption
    <2>2. ASSUME NEW q \in Requests, req'[q].sid # None PROVE owner'[req'[q].sid] = req'[q].client
      <3>1. q # r /\ req'[q] = req[q]
        BY <2>2, <1>1 DEF StoreStep
      <3>2. req[q].sid \in SIDs /\ owner[req[q].sid] = req[q].client /\ req[q].client # None
        BY <3>1, <2>2, ConstantsAssumption DEF Inv, TypeOK, RequestType, OwnedOK, StepsOK, Idle
      <3> QED BY <3>1, <3>2, <1>4, <1>5
    <2>3. ASSUME NEW q \in Requests, req'[q].out \in SIDs PROVE owner'[req'[q].out] = req'[q].client
      <3>1. CASE q = r
        BY <3>1, <2>3, <1>1, <1>2, <1>4, ConstantsAssumption DEF StoreStep, Inv, OwnedOK
      <3>2. CASE q # r
        <4>1. req'[q] = req[q] /\ owner[req[q].out] = req[q].client /\ req[q].client # None
          BY <3>2, <2>3, <1>1, ConstantsAssumption DEF Inv, OwnedOK, StepsOK, Idle
        <4> QED BY <4>1, <2>3, <1>4, <1>5
      <3> QED BY <3>1, <3>2
    <2> QED BY <2>1, <2>2, <2>3 DEF OwnedOK
  <1>8. AuthOK'
    <2>1. ASSUME NEW t \in SIDs, sessions'[t] # None
          PROVE  owner'[t] # None /\ (sessions'[t] \in Users => sessions'[t] \in authAs'[owner'[t]])
      <3>1. CASE t = s
        BY <3>1, <1>2, <1>4 DEF Inv, AuthOK
      <3>2. CASE t # s
        BY <3>2, <2>1, <1>4 DEF Inv, AuthOK
      <3> QED BY <3>1, <3>2
    <2>2. ASSUME NEW q \in Requests, req'[q].user \in Users
          PROVE  req'[q].user \in authAs'[req'[q].client]
      <3>1. q # r
        BY <2>2, <1>1, ConstantsAssumption DEF StoreStep
      <3> QED BY <3>1, <2>2, <1>1 DEF Inv, AuthOK
    <2> QED BY <2>1, <2>2 DEF AuthOK
  <1> QED BY <1>4, <1>6, <1>7, <1>8
-----------------------------------------------------------------------------
(* The answers a handler builds are local steps.                           *)
LEMMA AnswerStep ==
  ASSUME Inv, NEW r \in Requests, Active(r), NEW out \in SIDs \cup {None, Keep},
         NEW told \in Users \cup {None}, AnswerLogin(r, out, told),
         out \in SIDs => owner[out] = req[r].client,
         authAs' \in [Clients -> SUBSET Users],
         \A c \in Clients : authAs[c] \subseteq authAs'[c],
         UNCHANGED <<sessions, cookie, owner>>
  PROVE  FreshOK' /\ OwnedOK' /\ AuthOK'
  <1> DEFINE rec == Answered(req[r].client, out, told)
  <1>1. req[r].client \in Clients
    BY DEF Inv, StepsOK
  <1>2. req' = [req EXCEPT ![r] = rec]
    BY DEF AnswerLogin
  <1>3. rec \in RequestType /\ rec.client = req[r].client /\ rec.sid = None
        /\ rec.newSid = None /\ rec.out = out /\ rec.user = Anon
    BY <1>1 DEF Answered, Idle, RequestType, PCs, Ops
  <1> HIDE DEF rec
  <1>4. LocalStep(r, rec)
    BY <1>2, <1>3, ConstantsAssumption DEF LocalStep
  <1> QED BY <1>4, LocalStepKeeps

(* An answer keeps the types and puts the request in its last step.        *)
LEMMA AnswerTypes ==
  ASSUME Inv, NEW r \in Requests, Active(r), NEW out \in SIDs \cup {None, Keep},
         NEW told \in Users \cup {None}, AnswerLogin(r, out, told)
  PROVE  /\ req' \in [Requests -> RequestType]
         /\ \A q \in Requests : req'[q].pc = "body" => req'[q].user \in Users
         /\ StepsOK'
         /\ req'[r].pc = "reply"
         /\ \A q \in Requests \ {r} : req'[q] = req[q]
  <1> DEFINE rec == Answered(req[r].client, out, told)
  <1>1. req[r].client \in Clients
    BY DEF Inv, StepsOK
  <1>2. rec \in RequestType /\ rec.client = req[r].client /\ rec.pc = "reply"
    BY <1>1 DEF Answered, Idle, RequestType, PCs, Ops
  <1>3. req' = [req EXCEPT ![r] = rec]
    BY DEF AnswerLogin
  <1> HIDE DEF rec
  <1>4. req' \in [Requests -> RequestType] /\ req'[r] = rec
        /\ \A q \in Requests \ {r} : req'[q] = req[q]
    BY <1>2, <1>3 DEF Inv, TypeOK
  <1>5. \A q \in Requests : req'[q].pc = "body" => req'[q].user \in Users
    BY <1>2, <1>4 DEF Inv, TypeOK
  <1>6. StepsOK'
    BY <1>1, <1>2, <1>4 DEF Inv, StepsOK, Active
  <1> QED BY <1>2, <1>4, <1>5, <1>6

(* A request outside the critical section that answers without the mutex.  *)
LEMMA AnswerInv ==
  ASSUME Inv, NEW r \in Requests, Active(r), ~InSection(r),
         NEW out \in SIDs \cup {None, Keep},
         NEW told \in Users \cup {None}, AnswerLogin(r, out, told),
         out \in SIDs => owner[out] = req[r].client,
         accounts' \in SUBSET Users,
         authAs' \in [Clients -> SUBSET Users],
         \A c \in Clients : authAs[c] \subseteq authAs'[c],
         UNCHANGED <<sessions, mu, cookie, owner, loggedOut, view>>
  PROVE  Inv'
  <1>1. FreshOK' /\ OwnedOK' /\ AuthOK'
    BY AnswerStep
  <1>2. TypeOK'
    BY AnswerTypes DEF Inv, TypeOK
  <1>3. MutualExclusion'
    BY AnswerTypes DEF Inv, MutualExclusion, InSection
  <1> QED BY <1>1, <1>2, <1>3, AnswerTypes DEF Inv

(* A request that moves on with the user it may act for.                   *)
Moved(r, l, u, f) == req' = [req EXCEPT ![r].pc = l, ![r].user = u, ![r].found = f]

LEMMA MoveStep ==
  ASSUME Inv, NEW r \in Requests, Active(r), NEW l \in PCs, NEW u \in Users \cup {Anon},
         NEW f \in BOOLEAN,
         Moved(r, l, u, f),
         u \in Users => u \in authAs'[req[r].client],
         authAs' \in [Clients -> SUBSET Users],
         \A c \in Clients : authAs[c] \subseteq authAs'[c],
         UNCHANGED <<sessions, cookie, owner>>
  PROVE  /\ FreshOK' /\ OwnedOK' /\ AuthOK'
         /\ req' \in [Requests -> RequestType]
         /\ \A q \in Requests \ {r} : req'[q] = req[q]
         /\ req'[r].pc = l /\ req'[r].user = u /\ req'[r].found = f
         /\ req'[r].sid = req[r].sid /\ req'[r].newSid = req[r].newSid
         /\ req'[r].client = req[r].client /\ req'[r].op = req[r].op
  <1> DEFINE rec == [req[r] EXCEPT !.pc = l, !.user = u, !.found = f]
  <1>1. req[r] \in RequestType
    BY DEF Inv, TypeOK
  <1>2. rec \in RequestType /\ rec.client = req[r].client /\ rec.sid = req[r].sid
        /\ rec.newSid = req[r].newSid /\ rec.out = req[r].out /\ rec.user = u
        /\ rec.op = req[r].op /\ rec.pc = l /\ rec.found = f
    BY <1>1 DEF RequestType
  <1>3. req' = [req EXCEPT ![r] = rec]
    BY DEF Moved, Inv, TypeOK
  <1> HIDE DEF rec
  <1>4. LocalStep(r, rec)
    BY <1>2, <1>3 DEF LocalStep, Inv, OwnedOK
  <1>5. FreshOK' /\ OwnedOK' /\ AuthOK'
    BY <1>4, LocalStepKeeps
  <1>6. req' \in [Requests -> RequestType] /\ req'[r] = rec
        /\ \A q \in Requests \ {r} : req'[q] = req[q]
    BY <1>2, <1>3 DEF Inv, TypeOK
  <1> QED BY <1>2, <1>5, <1>6
-----------------------------------------------------------------------------
(* One lemma per action                                                    *)

LEMMA InitInv == Init => Inv
  <1> SUFFICES ASSUME Init PROVE Inv
    OBVIOUS
  <1>1. Idle \in RequestType
    BY DEF Idle, RequestType, PCs, Ops
  <1>2. TypeOK
    BY <1>1 DEF Init, TypeOK, Idle
  <1>3. StepsOK
    BY DEF Init, StepsOK, Active, Idle
  <1>4. MutualExclusion
    BY ConstantsAssumption DEF Init, MutualExclusion, InSection, Idle
  <1>5. FreshOK /\ OwnedOK /\ AuthOK
    BY ConstantsAssumption DEF Init, FreshOK, OwnedOK, AuthOK, Idle
  <1> QED BY <1>2, <1>3, <1>4, <1>5 DEF Inv

LEMMA SubmitInv ==
  ASSUME Inv, NEW r \in Requests, NEW c \in Clients, NEW op \in Ops, Submit(r, c, op)
  PROVE  Inv'
  <1> DEFINE sid == cookie[c]
  <1>1. sid \in SIDs \cup {None} /\ (sid # None => owner[sid] = c)
    BY DEF Inv, TypeOK, OwnedOK
  <1>2. req[r] = Idle
    BY DEF Inv, StepsOK, Submit
  <1>3. PICK rec :
          /\ req' = [req EXCEPT ![r] = rec]
          /\ rec \in RequestType /\ rec.client = c /\ rec.sid \in {sid, None}
          /\ rec.newSid \in FreshSIDs \cup {None}
          /\ rec.out \in {sid, None, Keep} /\ rec.user = Anon
          /\ rec.pc \in {"set", "lock", "auth", "delete", "get", "reply"}
          /\ rec.pc \in {"get", "lock", "delete"} => rec.sid # None
          /\ rec.pc \in {"auth", "set", "lock"} => rec.newSid # None
          /\ rec.pc = "get" => rec.op \in {"Act", "Recommend"}
          /\ rec.pc = "get" /\ rec.op = "Act" => rec.newSid # None
    <2>1. PICK pc \in FirstSteps(op, sid) :
            IF pc = "reply"
            THEN \E setCookie \in IF op \in {"Act", "Recommend"} THEN {Keep, sid} ELSE {sid} :
                   req' = [req EXCEPT ![r] = Answered(c, setCookie, None)]
            ELSE \E new \in IF MayCreate(op) THEN FreshSIDs ELSE {None} :
                   req' = [req EXCEPT ![r] = [Idle EXCEPT !.pc = pc, !.op = op, !.client = c,
                                                          !.sid = sid, !.newSid = new]]
      BY DEF Submit
    <2>2. CASE pc = "reply"
      <3>1. PICK setCookie \in {Keep, sid} : req' = [req EXCEPT ![r] = Answered(c, setCookie, None)]
        BY <2>1, <2>2
      <3>2. setCookie \in SIDs \cup {None, Keep}
        BY <1>1
      <3> DEFINE rec == Answered(c, setCookie, None)
      <3>3. rec \in RequestType /\ rec.client = c /\ rec.sid = None /\ rec.newSid = None
            /\ rec.out = setCookie /\ rec.user = Anon /\ rec.pc = "reply"
        BY <3>2 DEF Answered, Idle, RequestType, PCs, Ops
      <3> HIDE DEF rec
      <3> QED BY <3>1, <3>3 DEF rec
    <2>3. CASE pc # "reply"
      <3>1. PICK new \in IF MayCreate(op) THEN FreshSIDs ELSE {None} :
              req' = [req EXCEPT ![r] = [Idle EXCEPT !.pc = pc, !.op = op, !.client = c,
                                                     !.sid = sid, !.newSid = new]]
        BY <2>1, <2>3
      <3>2. /\ pc \in {"set", "lock", "auth", "delete", "get"}
            /\ pc \in {"get", "lock", "delete"} => sid # None
            /\ pc \in {"auth", "set", "lock"} => MayCreate(op)
            /\ pc = "get" => op \in {"Act", "Recommend"}
        BY <2>3 DEF FirstSteps, SessionSteps, LogoutSteps, ActSteps, RecommendSteps, MayCreate, Ops
      <3>3. new \in FreshSIDs \cup {None} /\ new \in SIDs \cup {None}
            /\ (MayCreate(op) => new # None)
        BY ConstantsAssumption DEF FreshSIDs
      <3>4. op = "Act" => MayCreate(op)
        BY DEF MayCreate
      <3> DEFINE rec == [Idle EXCEPT !.pc = pc, !.op = op, !.client = c, !.sid = sid, !.newSid = new]
      <3>5. rec \in RequestType /\ rec.pc = pc /\ rec.op = op /\ rec.client = c
            /\ rec.sid = sid /\ rec.newSid = new /\ rec.out = Keep /\ rec.user = Anon
        BY <1>1, <3>2, <3>3 DEF Idle, RequestType, PCs
      <3> HIDE DEF rec
      <3> QED BY <3>1, <3>2, <3>3, <3>4, <3>5 DEF rec
    <2> QED BY <2>2, <2>3
  <1>4. req' \in [Requests -> RequestType] /\ req'[r] = rec
        /\ \A q \in Requests \ {r} : req'[q] = req[q]
    BY <1>3 DEF Inv, TypeOK
  <1>5. UNCHANGED <<sessions, mu, cookie, accounts, owner, authAs, loggedOut>>
        /\ view' \in [Clients -> Users \cup {None}]
    BY DEF Submit, Inv, TypeOK
  <1>6. TypeOK'
    BY <1>3, <1>4, <1>5 DEF Inv, TypeOK
  <1>7. StepsOK'
    BY <1>3, <1>4 DEF Inv, StepsOK, Active
  <1>8. MutualExclusion'
    BY <1>2, <1>3, <1>4, <1>5 DEF Inv, MutualExclusion, InSection, Idle
  <1>9. FreshOK'
    BY <1>3, <1>4, <1>5, ConstantsAssumption DEF Inv, FreshOK, FreshSIDs
  <1>10. OwnedOK'
    BY <1>1, <1>3, <1>4, <1>5, ConstantsAssumption DEF Inv, OwnedOK
  <1>11. AuthOK'
    BY <1>3, <1>4, <1>5, ConstantsAssumption DEF Inv, AuthOK
  <1> QED BY <1>6, <1>7, <1>8, <1>9, <1>10, <1>11 DEF Inv

LEMMA GetSessionInv ==
  ASSUME Inv, NEW r \in Requests, GetSession(r)
  PROVE  Inv'
  <1> DEFINE v == sessions[req[r].sid]
  <1>1. Active(r) /\ ~InSection(r) /\ req[r].sid \in SIDs /\ v \in Users \cup {Anon, None}
    BY DEF GetSession, Active, InSection, Inv, StepsOK, TypeOK, RequestType
  <1>2. UNCHANGED <<sessions, mu, cookie, accounts, owner, authAs, loggedOut, view>>
    BY DEF GetSession, history
  <1>3. CASE ~Unauthorized(v) /\ req' = [req EXCEPT ![r].pc = "body", ![r].user = v]
    <2>1. v \in Users
      BY <1>1, <1>3 DEF Unauthorized
    <2>2. v \in authAs'[req[r].client]
      BY <1>1, <1>2, <2>1, ConstantsAssumption DEF Inv, OwnedOK, AuthOK
    <2>3. Moved(r, "body", v, req[r].found)
      BY <1>3 DEF Moved, Inv, TypeOK, RequestType
    <2>4. "body" \in PCs /\ req[r].found \in BOOLEAN
      BY DEF PCs, Inv, TypeOK, RequestType
    <2>5. /\ FreshOK' /\ OwnedOK' /\ AuthOK'
          /\ req' \in [Requests -> RequestType]
          /\ \A q \in Requests \ {r} : req'[q] = req[q]
          /\ req'[r].pc = "body" /\ req'[r].user = v
          /\ req'[r].sid = req[r].sid /\ req'[r].newSid = req[r].newSid
          /\ req'[r].client = req[r].client /\ req'[r].op = req[r].op
      BY <1>1, <1>2, <2>1, <2>2, <2>3, <2>4, MoveStep DEF Inv, TypeOK
    <2> HIDE DEF v
    <2>6. TypeOK'
      BY <1>2, <2>1, <2>5 DEF Inv, TypeOK
    <2>7. StepsOK'
      BY <1>1, <2>5 DEF Inv, StepsOK, Active, GetSession
    <2>8. MutualExclusion'
      BY <1>1, <1>2, <2>5 DEF Inv, MutualExclusion, InSection
    <2> QED BY <2>5, <2>6, <2>7, <2>8 DEF Inv
  <1>4. CASE \E setCookie \in {Keep, req[r].sid} : Answer(r, setCookie)
    BY <1>1, <1>2, <1>4, AnswerInv, ConstantsAssumption DEF Answer, Inv, TypeOK, OwnedOK
  <1>5. CASE InternalError(r)
    BY <1>1, <1>2, <1>5, AnswerInv, ConstantsAssumption DEF InternalError, Answer, Inv, TypeOK
  <1> QED BY <1>3, <1>4, <1>5 DEF GetSession
LEMMA BodyInv ==
  ASSUME Inv, NEW r \in Requests, Body(r)
  PROVE  Inv'
  <1>1. Active(r) /\ ~InSection(r) /\ req[r].sid \in SIDs \cup {None}
    BY DEF Body, Active, InSection, Inv, TypeOK, RequestType
  <1>2. UNCHANGED <<sessions, mu, cookie, accounts, owner, authAs, loggedOut, view>>
    BY DEF Body, history
  <1>3. CASE req[r].op = "Act" /\ Goto(r, "lock")
    <2>1. /\ "lock" \in PCs /\ req[r].user \in Users /\ req[r].found \in BOOLEAN
          /\ req[r].user \in authAs'[req[r].client]
          /\ Moved(r, "lock", req[r].user, req[r].found)
      BY <1>2, <1>3 DEF PCs, Moved, Goto, Body, Inv, TypeOK, RequestType, AuthOK
    <2>2. /\ FreshOK' /\ OwnedOK' /\ AuthOK'
          /\ req' \in [Requests -> RequestType]
          /\ \A q \in Requests \ {r} : req'[q] = req[q]
          /\ req'[r].pc = "lock" /\ req'[r].op = req[r].op
          /\ req'[r].sid = req[r].sid /\ req'[r].newSid = req[r].newSid
          /\ req'[r].client = req[r].client
      BY <1>1, <1>2, <2>1, MoveStep DEF Inv, TypeOK
    <2>3. TypeOK'
      BY <1>2, <2>2 DEF Inv, TypeOK
    <2>4. StepsOK'
      BY <1>1, <1>3, <2>2 DEF Inv, StepsOK, Active, Body
    <2>5. MutualExclusion'
      BY <1>1, <1>2, <2>2 DEF Inv, MutualExclusion, InSection
    <2> QED BY <2>2, <2>3, <2>4, <2>5 DEF Inv
  <1>4. CASE Answer(r, req[r].sid)
    BY <1>1, <1>2, <1>4, AnswerInv, ConstantsAssumption DEF Answer, Inv, TypeOK, OwnedOK
  <1>5. CASE InternalError(r)
    BY <1>1, <1>2, <1>5, AnswerInv, ConstantsAssumption DEF InternalError, Answer, Inv, TypeOK
  <1> QED BY <1>3, <1>4, <1>5 DEF Body

(* Once the user service vouched for u.                                    *)
LEMMA AuthenticatedInv ==
  ASSUME Inv, NEW r \in Requests, req[r].pc = "auth", NEW u \in Users, Authenticated(r, u),
         accounts' \in SUBSET Users,
         UNCHANGED <<sessions, mu, cookie, owner, loggedOut, view>>
  PROVE  Inv'
  <1>1. Active(r) /\ ~InSection(r) /\ req[r].sid \in SIDs \cup {None} /\ req[r].client \in Clients
    BY DEF Active, InSection, Inv, TypeOK, RequestType, StepsOK
  <1>2. /\ authAs' \in [Clients -> SUBSET Users] /\ u \in authAs'[req[r].client]
        /\ \A c \in Clients : authAs[c] \subseteq authAs'[c]
    BY <1>1 DEF Authenticated, Inv, TypeOK
  <1>3. ASSUME NEW l \in {"set", "lock"}, l = "lock" => req[r].sid # None,
               req' = [req EXCEPT ![r].pc = l, ![r].user = u]
        PROVE  Inv'
    <2>1. /\ l \in PCs /\ req[r].found \in BOOLEAN
          /\ Moved(r, l, u, req[r].found)
      BY <1>3 DEF PCs, Moved, Inv, TypeOK, RequestType
    <2>2. /\ FreshOK' /\ OwnedOK' /\ AuthOK'
          /\ req' \in [Requests -> RequestType]
          /\ \A q \in Requests \ {r} : req'[q] = req[q]
          /\ req'[r].pc = l /\ req'[r].op = req[r].op
          /\ req'[r].sid = req[r].sid /\ req'[r].newSid = req[r].newSid
          /\ req'[r].client = req[r].client
      BY <1>1, <1>2, <2>1, MoveStep
    <2>3. TypeOK'
      BY <1>2, <2>2 DEF Inv, TypeOK
    <2>4. StepsOK'
      BY <1>1, <1>3, <2>2 DEF Inv, StepsOK, Active
    <2>5. MutualExclusion'
      BY <1>1, <2>2 DEF Inv, MutualExclusion, InSection
    <2> QED BY <2>2, <2>3, <2>4, <2>5 DEF Inv
  <1>4. CASE Answer(r, req[r].sid)
    BY <1>1, <1>2, <1>4, AnswerInv, ConstantsAssumption DEF Answer, Inv, TypeOK, OwnedOK
  <1> QED BY <1>3, <1>4 DEF Authenticated

LEMMA AuthInv ==
  ASSUME Inv, NEW r \in Requests, Register(r) \/ Authenticate(r)
  PROVE  Inv'
  <1>1. req[r].pc = "auth" /\ Active(r) /\ ~InSection(r) /\ req[r].sid \in SIDs \cup {None}
    BY DEF Register, Authenticate, Active, InSection, Inv, TypeOK, RequestType
  <1>2. /\ UNCHANGED <<sessions, mu, cookie, owner, loggedOut, view>>
        /\ accounts' \in SUBSET Users
    BY DEF Register, Authenticate, Inv, TypeOK
  <1>3. CASE \E u \in Users : Authenticated(r, u)
    BY <1>1, <1>2, <1>3, AuthenticatedInv
  <1>4. CASE Answer(r, req[r].sid) /\ UNCHANGED authAs
    BY <1>1, <1>2, <1>4, AnswerInv, ConstantsAssumption DEF Answer, Inv, TypeOK, OwnedOK
  <1>5. CASE InternalError(r) /\ UNCHANGED authAs
    BY <1>1, <1>2, <1>5, AnswerInv, ConstantsAssumption DEF InternalError, Answer, Inv, TypeOK
  <1>6. (\E u \in Users : Authenticated(r, u)) \/ (Answer(r, req[r].sid) /\ UNCHANGED authAs)
        \/ (InternalError(r) /\ UNCHANGED authAs)
    BY DEF Register, Authenticate, Inv, TypeOK
  <1> QED BY <1>3, <1>4, <1>5, <1>6

(* A request outside the section, or the one that leaves it, that stores   *)
(* and answers.                                                            *)
LEMMA StoreInv ==
  ASSUME Inv, NEW r \in Requests, Active(r),
         NEW s \in SIDs, s \in {req[r].sid, req[r].newSid}, SetValue(r, s, req[r].user),
         NEW out \in SIDs \cup {None, Keep}, out \in {s, req[r].sid, None, Keep},
         NEW told \in Users \cup {None}, AnswerLogin(r, out, told),
         mu' = IF InSection(r) THEN None ELSE mu,
         UNCHANGED <<cookie, accounts, authAs, loggedOut, view>>
  PROVE  Inv'
  <1> DEFINE rec == Answered(req[r].client, out, told)
  <1>1. req[r].client \in Clients
    BY DEF Inv, StepsOK
  <1>2. rec \in RequestType /\ rec.client = req[r].client /\ rec.sid = None
        /\ rec.newSid = None /\ rec.out = out /\ rec.user = Anon
    BY <1>1 DEF Answered, Idle, RequestType, PCs, Ops
  <1>3. req' = [req EXCEPT ![r] = rec]
    BY DEF AnswerLogin
  <1> HIDE DEF rec
  <1>4. StoreStep(r, s, rec)
    BY <1>2, <1>3 DEF StoreStep
  <1>5. /\ owner' \in [SIDs -> Clients \cup {None}] /\ sessions' \in [SIDs -> Users \cup {Anon, None}]
        /\ FreshOK' /\ OwnedOK' /\ AuthOK'
    BY <1>4, StoreStepKeeps
  <1>6. /\ req' \in [Requests -> RequestType]
        /\ \A q \in Requests : req'[q].pc = "body" => req'[q].user \in Users
        /\ StepsOK' /\ req'[r].pc = "reply"
        /\ \A q \in Requests \ {r} : req'[q] = req[q]
    BY AnswerTypes
  <1>7. TypeOK'
    BY <1>5, <1>6 DEF Inv, TypeOK
  <1>8. MutualExclusion'
    BY <1>6, ConstantsAssumption DEF Inv, MutualExclusion, InSection
  <1> QED BY <1>5, <1>6, <1>7, <1>8 DEF Inv

(* An answer that only leaves the section.                                 *)
LEMMA LeaveInv ==
  ASSUME Inv, NEW r \in Requests, InSection(r), mu' = None,
         NEW out \in {req[r].sid, Keep}, Answer(r, out),
         UNCHANGED <<sessions, cookie, accounts, owner, authAs, loggedOut, view>>
  PROVE  Inv'
  <1>1. Active(r) /\ req[r].sid \in SIDs
    BY DEF Active, InSection, Inv, TypeOK, RequestType, StepsOK
  <1>2. AnswerLogin(r, out, None) /\ out \in SIDs \cup {None, Keep}
        /\ (out \in SIDs => owner[out] = req[r].client)
    BY <1>1, ConstantsAssumption DEF Answer, Inv, OwnedOK
  <1>3. FreshOK' /\ OwnedOK' /\ AuthOK'
    BY <1>1, <1>2, AnswerStep DEF Inv, TypeOK
  <1>4. /\ req' \in [Requests -> RequestType]
        /\ \A q \in Requests : req'[q].pc = "body" => req'[q].user \in Users
        /\ StepsOK' /\ req'[r].pc = "reply"
        /\ \A q \in Requests \ {r} : req'[q] = req[q]
    BY <1>1, <1>2, AnswerTypes
  <1>5. TypeOK'
    BY <1>4 DEF Inv, TypeOK
  <1>6. MutualExclusion'
    BY <1>4, ConstantsAssumption DEF Inv, MutualExclusion, InSection
  <1> QED BY <1>3, <1>4, <1>5, <1>6 DEF Inv

LEMMA CreateSessionInv ==
  ASSUME Inv, NEW r \in Requests, CreateSession(r)
  PROVE  Inv'
  <1>1. Active(r) /\ ~InSection(r) /\ req[r].newSid \in SIDs
    BY DEF CreateSession, Active, InSection, Inv, TypeOK, RequestType, StepsOK
  <1>2. UNCHANGED <<mu, cookie, accounts, authAs, loggedOut, view>>
    BY DEF CreateSession
  <1>3. CASE SetValue(r, req[r].newSid, req[r].user) /\ AnswerSession(r, req[r].newSid)
    BY <1>1, <1>2, <1>3, StoreInv DEF AnswerSession
  <1>4. CASE SetValue(r, req[r].newSid, req[r].user) /\ InternalError(r)
    BY <1>1, <1>2, <1>4, StoreInv DEF InternalError, Answer
  <1>5. CASE NotWritten /\ InternalError(r)
    BY <1>1, <1>2, <1>5, AnswerInv, ConstantsAssumption DEF NotWritten, InternalError, Answer, Inv, TypeOK
  <1> QED BY <1>3, <1>4, <1>5 DEF CreateSession

LEMMA LockInv ==
  ASSUME Inv, NEW r \in Requests, Lock(r)
  PROVE  Inv'
  <1>1. Active(r) /\ ~InSection(r) /\ mu = None /\ mu' = r
    BY DEF Lock, MutexFree, Active, InSection
  <1>2. UNCHANGED <<sessions, cookie, accounts, owner, authAs, loggedOut, view>>
    BY DEF Lock, history
  <1>3. /\ "hget" \in PCs /\ req[r].user \in Users \cup {Anon} /\ req[r].found \in BOOLEAN
        /\ (req[r].user \in Users => req[r].user \in authAs'[req[r].client])
        /\ Moved(r, "hget", req[r].user, req[r].found)
    BY <1>2 DEF PCs, Moved, Goto, Lock, Inv, TypeOK, RequestType, AuthOK
  <1> DEFINE u == req[r].user
             f == req[r].found
  <1>8. /\ authAs' \in [Clients -> SUBSET Users]
        /\ \A c \in Clients : authAs[c] \subseteq authAs'[c]
    BY <1>2 DEF Inv, TypeOK
  <1> HIDE DEF u, f
  <1>4. /\ FreshOK' /\ OwnedOK' /\ AuthOK'
        /\ req' \in [Requests -> RequestType]
        /\ \A q \in Requests \ {r} : req'[q] = req[q]
        /\ req'[r].pc = "hget" /\ req'[r].op = req[r].op
        /\ req'[r].sid = req[r].sid /\ req'[r].newSid = req[r].newSid
        /\ req'[r].client = req[r].client
    BY <1>1, <1>2, <1>3, <1>8, MoveStep DEF u, f
  <1>5. TypeOK'
    BY <1>1, <1>2, <1>4 DEF Inv, TypeOK
  <1>6. StepsOK'
    BY <1>1, <1>4 DEF Inv, StepsOK, Active, Lock
  <1>7. MutualExclusion'
    BY <1>1, <1>4, ConstantsAssumption DEF Inv, MutualExclusion, InSection
  <1> QED BY <1>4, <1>5, <1>6, <1>7 DEF Inv

LEMMA HGetInv ==
  ASSUME Inv, NEW r \in Requests, HGet(r)
  PROVE  Inv'
  <1>1. Active(r) /\ InSection(r)
    BY DEF HGet, Active, InSection
  <1>2. UNCHANGED <<sessions, cookie, accounts, owner, authAs, loggedOut, view>>
    BY DEF HGet, history
  <1>3. CASE /\ req' = [req EXCEPT ![r].pc = "write", ![r].found = sessions[req[r].sid] # None]
             /\ UNCHANGED mu
    <2> DEFINE f == sessions[req[r].sid] # None
    <2>1. /\ "write" \in PCs /\ req[r].user \in Users \cup {Anon} /\ f \in BOOLEAN
          /\ (req[r].user \in Users => req[r].user \in authAs'[req[r].client])
          /\ Moved(r, "write", req[r].user, f)
      BY <1>2, <1>3 DEF PCs, Moved, Inv, TypeOK, RequestType, AuthOK
    <2> HIDE DEF f
    <2>2. /\ FreshOK' /\ OwnedOK' /\ AuthOK'
          /\ req' \in [Requests -> RequestType]
          /\ \A q \in Requests \ {r} : req'[q] = req[q]
          /\ req'[r].pc = "write" /\ req'[r].op = req[r].op
          /\ req'[r].sid = req[r].sid /\ req'[r].newSid = req[r].newSid
          /\ req'[r].client = req[r].client
      BY <1>1, <1>2, <2>1, MoveStep DEF Inv, TypeOK
    <2>3. TypeOK'
      BY <1>2, <1>3, <2>2 DEF Inv, TypeOK
    <2>4. StepsOK'
      BY <1>1, <2>2 DEF Inv, StepsOK, Active, HGet
    <2>5. MutualExclusion'
      BY <1>1, <1>3, <2>2 DEF Inv, MutualExclusion, InSection
    <2> QED BY <2>2, <2>3, <2>4, <2>5 DEF Inv
  <1>4. CASE ExtendReturns(r, None, FALSE) /\ UnlockOnError
    <2>1. Answer(r, req[r].sid) \/ Answer(r, Keep)
      BY <1>4 DEF ExtendReturns, InternalError
    <2> QED BY <1>1, <1>2, <1>4, <2>1, LeaveInv DEF UnlockOnError
  <1> QED BY <1>3, <1>4 DEF HGet

LEMMA HSetEXInv ==
  ASSUME Inv, NEW r \in Requests, HSetEX(r)
  PROVE  Inv'
  <1> DEFINE s == ExtendTarget(req[r])
  <1>1. Active(r) /\ InSection(r) /\ s \in SIDs /\ s \in {req[r].sid, req[r].newSid}
        /\ req[r].sid \in SIDs
    BY DEF HSetEX, Active, InSection, ExtendTarget, Inv, TypeOK, RequestType, StepsOK
  <1>2. UNCHANGED <<cookie, accounts, authAs, loggedOut, view>> /\ mu' = None
    BY DEF HSetEX, UnlockOnError
  <1> HIDE DEF s
  <1>3. ASSUME NEW succeeded \in BOOLEAN, ExtendReturns(r, s, succeeded)
        PROVE  \E out \in {s, req[r].sid, Keep}, told \in Users \cup {None} :
                 AnswerLogin(r, out, told)
    BY <1>3 DEF ExtendReturns, InternalError, Answer, AnswerSession
  <1>4. CASE SetValue(r, s, ExtendUser(req[r])) /\ \E b \in BOOLEAN : ExtendReturns(r, s, b)
    <2>1. PICK out \in {s, req[r].sid, Keep}, told \in Users \cup {None} : AnswerLogin(r, out, told)
      BY <1>3, <1>4
    <2> QED BY <1>1, <1>2, <1>4, <2>1, StoreInv DEF ExtendUser
  <1>5. CASE NotWritten /\ ExtendReturns(r, s, FALSE)
    <2>1. Answer(r, req[r].sid) \/ Answer(r, Keep)
      BY <1>5 DEF ExtendReturns, InternalError
    <2> QED BY <1>1, <1>2, <1>5, <2>1, LeaveInv DEF NotWritten
  <1> QED BY <1>4, <1>5 DEF HSetEX, s
LEMMA DeleteInv ==
  ASSUME Inv, NEW r \in Requests, Delete(r)
  PROVE  Inv'
  <1>1. /\ Active(r) /\ ~InSection(r) /\ req[r].sid \in SIDs
        /\ UNCHANGED <<mu, cookie, accounts, owner, authAs, view>>
    BY DEF Delete, Active, InSection, Inv, TypeOK, RequestType, StepsOK
  <1>2. PICK out \in {None, Keep} : AnswerLogin(r, out, None)
    BY DEF Delete, InternalError, Answer
  <1>3. /\ sessions' \in [SIDs -> Users \cup {Anon, None}]
        /\ \A s \in SIDs : sessions'[s] \in {sessions[s], None}
        /\ loggedOut' \in SUBSET SIDs
    BY <1>1 DEF Delete, Del, Inv, TypeOK
  <1>4. /\ req' \in [Requests -> RequestType]
        /\ \A q \in Requests : req'[q].pc = "body" => req'[q].user \in Users
        /\ StepsOK' /\ req'[r].pc = "reply"
        /\ \A q \in Requests \ {r} : req'[q] = req[q]
    BY <1>1, <1>2, AnswerTypes
  <1>5. req'[r].sid = None /\ req'[r].newSid = None /\ req'[r].out \in {None, Keep}
        /\ req'[r].user = Anon
    <2>1. req'[r] = Answered(req[r].client, out, None) /\ req[r].client \in Clients
          /\ out \in SIDs \cup {None, Keep}
      BY <1>1, <1>2 DEF AnswerLogin, Inv, TypeOK, StepsOK
    <2> QED BY <2>1 DEF Answered, Idle
  <1>6. TypeOK'
    BY <1>1, <1>3, <1>4 DEF Inv, TypeOK
  <1>7. MutualExclusion'
    BY <1>1, <1>4 DEF Inv, MutualExclusion, InSection
  <1>8. FreshOK'
    BY <1>1, <1>4, <1>5 DEF Inv, FreshOK
  <1>9. OwnedOK'
    BY <1>1, <1>4, <1>5, ConstantsAssumption DEF Inv, OwnedOK
  <1>10. AuthOK'
    BY <1>1, <1>3, <1>4, <1>5, ConstantsAssumption DEF Inv, AuthOK
  <1> QED BY <1>4, <1>6, <1>7, <1>8, <1>9, <1>10 DEF Inv

LEMMA ReplyInv ==
  ASSUME Inv, NEW r \in Requests, Reply(r)
  PROVE  Inv'
  <1>1. /\ Active(r) /\ ~InSection(r) /\ req[r].client \in Clients
        /\ UNCHANGED <<sessions, mu, accounts, owner, authAs, loggedOut>>
        /\ req' = [req EXCEPT ![r] = Idle]
    BY DEF Reply, Active, InSection, Inv, StepsOK
  <1>2. Idle \in RequestType /\ Idle.pc = "idle" /\ Idle.sid = None /\ Idle.newSid = None
        /\ Idle.out = Keep /\ Idle.user = Anon
    BY DEF Idle, RequestType, PCs, Ops
  <1>3. /\ req' \in [Requests -> RequestType] /\ req'[r] = Idle
        /\ \A q \in Requests \ {r} : req'[q] = req[q]
    BY <1>1, <1>2 DEF Inv, TypeOK
  <1>4. /\ cookie' \in [Clients -> SIDs \cup {None}]
        /\ view' \in [Clients -> Users \cup {None}]
        /\ \A c \in Clients : cookie'[c] = cookie[c]
             \/ (c = req[r].client /\ req[r].out # Keep /\ cookie'[c] = req[r].out)
    BY <1>1 DEF Reply, Inv, TypeOK, RequestType
  <1>5. TypeOK'
    BY <1>1, <1>2, <1>3, <1>4 DEF Inv, TypeOK
  <1>6. StepsOK'
    BY <1>2, <1>3 DEF Inv, StepsOK, Active
  <1>7. MutualExclusion'
    BY <1>1, <1>2, <1>3 DEF Inv, MutualExclusion, InSection
  <1>8. FreshOK'
    BY <1>1, <1>2, <1>3 DEF Inv, FreshOK
  <1>9. OwnedOK'
    BY <1>1, <1>2, <1>3, <1>4, ConstantsAssumption DEF Inv, TypeOK, RequestType, OwnedOK
  <1>10. AuthOK'
    BY <1>1, <1>2, <1>3, ConstantsAssumption DEF Inv, AuthOK
  <1> QED BY <1>5, <1>6, <1>7, <1>8, <1>9, <1>10 DEF Inv

LEMMA ClockInv ==
  ASSUME Inv, (\E s \in SIDs : Expire(s)) \/ (\E c \in Clients : DropCookie(c))
  PROVE  Inv'
  <1>1. /\ UNCHANGED <<mu, req, accounts, owner, authAs, loggedOut, view>>
        /\ sessions' \in [SIDs -> Users \cup {Anon, None}]
        /\ cookie' \in [Clients -> SIDs \cup {None}]
        /\ \A s \in SIDs : sessions'[s] \in {sessions[s], None}
        /\ \A c \in Clients : cookie'[c] \in {cookie[c], None}
    BY DEF Expire, DropCookie, history, Inv, TypeOK
  <1>2. TypeOK' /\ StepsOK' /\ MutualExclusion' /\ FreshOK'
    BY <1>1 DEF Inv, TypeOK, StepsOK, Active, MutualExclusion, InSection, FreshOK
  <1>3. OwnedOK'
    BY <1>1 DEF Inv, OwnedOK
  <1>4. AuthOK'
    BY <1>1, ConstantsAssumption DEF Inv, AuthOK
  <1> QED BY <1>2, <1>3, <1>4 DEF Inv

LEMMA NextInv == Inv /\ [Next]_vars => Inv'
  <1> SUFFICES ASSUME Inv, [Next]_vars PROVE Inv'
    OBVIOUS
  <1>1. ASSUME NEW r \in Requests, Step(r) PROVE Inv'
    BY <1>1, GetSessionInv, BodyInv, AuthInv, CreateSessionInv, LockInv, HGetInv,
       HSetEXInv, DeleteInv, ReplyInv DEF Step
  <1>2. ASSUME NEW r \in Requests, NEW c \in Clients, NEW op \in Ops, Submit(r, c, op)
        PROVE  Inv'
    BY <1>2, SubmitInv
  <1>3. CASE UNCHANGED vars
    BY <1>3 DEF vars, Inv, TypeOK, StepsOK, Active, MutualExclusion, InSection, FreshOK,
                OwnedOK, AuthOK
  <1> QED BY <1>1, <1>2, <1>3, ClockInv DEF Next

THEOREM InvInvariant == Spec => []Inv
  <1> QED BY InitInv, NextInv, PTL DEF Spec

-----------------------------------------------------------------------------
(* The theorems                                                            *)

(* Every variable keeps its type, and a handler body never runs for the    *)
(* empty user (GetSession checks of handler.go).                           *)
THEOREM TypeCorrect == Spec => []TypeOK
  <1>1. Inv => TypeOK
    BY DEF Inv
  <1> QED BY <1>1, InvInvariant, PTL

(* SetOrUpdate is a critical section and every return unlocks.             *)
THEOREM SetOrUpdateExclusive == Spec => []MutualExclusion
  <1>1. Inv => MutualExclusion
    BY DEF Inv
  <1> QED BY <1>1, InvInvariant, PTL

(* No session, and no request being served, ever speaks for a user its     *)
(* client did not authenticate as.                                         *)
THEOREM SessionsStayOwn == Spec => []NoForeignUser
  <1>1. Inv => NoForeignUser
    <2> SUFFICES ASSUME Inv PROVE NoForeignUser
      OBVIOUS
    <2>1. ASSUME NEW c \in Clients, cookie[c] # None
          PROVE  sessions[cookie[c]] \in authAs[c] \cup {Anon, None}
      BY <2>1 DEF Inv, TypeOK, OwnedOK, AuthOK
    <2>2. ASSUME NEW r \in Requests, req[r].pc = "body"
          PROVE  req[r].user \in authAs[req[r].client]
      BY <2>2 DEF Inv, TypeOK, AuthOK
    <2> QED BY <2>1, <2>2 DEF NoForeignUser
  <1> QED BY <1>1, InvInvariant, PTL

(* A request is between HGET and HSETEX because it was, or because its     *)
(* HGET just told it whether the session exists.                           *)
LEMMA WritesAfterHGet ==
  ASSUME Inv, [Next]_vars, NEW r \in Requests, req'[r].pc = "write", req'[r] # req[r]
  PROVE  /\ HGet(r)
         /\ req'[r].sid = req[r].sid /\ req'[r].found = (sessions[req[r].sid] # None)
  <1>1. CASE HGet(r)
    <2>1. CASE req' = [req EXCEPT ![r].pc = "write", ![r].found = sessions[req[r].sid] # None]
      BY <1>1, <2>1 DEF Inv, TypeOK, RequestType
    <2>2. CASE ExtendReturns(r, None, FALSE)
      <3>1. PICK out : Answer(r, out)
        BY <2>2 DEF ExtendReturns, InternalError
      <3>2. req'[r].pc = "reply"
        BY <3>1 DEF Answer, AnswerLogin, Answered, Idle, Inv, TypeOK
      <3> QED BY <3>2
    <2> QED BY <1>1, <2>1, <2>2 DEF HGet
  <1>2. CASE ~HGet(r)
    <2>1. \A q \in Requests : Step(q) => q = r
      BY <1>2 DEF Step, GetSession, Body, Register, Authenticate, Authenticated, CreateSession, Lock,
          HGet, HSetEX, Delete, Reply, Goto, ExtendReturns, InternalError, Answer,
          AnswerLogin, AnswerSession, Inv, TypeOK
    <2>2. ASSUME Step(r) PROVE req'[r].pc # "write"
      <3>1. CASE \E out, told : AnswerLogin(r, out, told)
        BY <3>1 DEF AnswerLogin, Answered, Idle, Inv, TypeOK
      <3>2. CASE Reply(r)
        BY <3>2 DEF Reply, Idle, Inv, TypeOK
      <3>3. CASE \E l \in {"body", "set", "lock", "hget"} : req'[r].pc = l
        BY <3>3
      <3>4. (\E out, told : AnswerLogin(r, out, told)) \/ Reply(r)
            \/ \E l \in {"body", "set", "lock", "hget"} : req'[r].pc = l
        BY <1>2, <2>2
        DEF Step, GetSession, Body, Register, Authenticate, Authenticated, CreateSession, Lock,
            HSetEX, Delete, Goto, ExtendReturns, InternalError, Answer, AnswerSession, Inv, TypeOK,
            RequestType
      <3> QED BY <3>1, <3>2, <3>3, <3>4
    <2>3. ASSUME NEW q \in Requests, NEW c \in Clients, NEW op \in Ops, Submit(q, c, op)
          PROVE  req'[r].pc # "write"
      <3>1. CASE q # r
        BY <2>3, <3>1 DEF Submit, Inv, TypeOK
      <3>2. CASE q = r
        <4>1. "write" \notin FirstSteps(op, cookie[c])
          BY DEF FirstSteps, SessionSteps, LogoutSteps, ActSteps, RecommendSteps, Ops
        <4>2. PICK pc \in FirstSteps(op, cookie[c]) :
                \/ \E out : req' = [req EXCEPT ![r] = Answered(c, out, None)]
                \/ \E new : req' = [req EXCEPT ![r] =
                              [Idle EXCEPT !.pc = pc, !.op = op, !.client = c,
                                           !.sid = cookie[c], !.newSid = new]]
          BY <2>3, <3>2 DEF Submit
        <4>3. req'[r].pc \in {"reply", pc}
          <5>1. \A rec : req' = [req EXCEPT ![r] = rec] => req'[r] = rec
            BY DEF Inv, TypeOK
          <5>2. \A out : Answered(c, out, None).pc = "reply"
            BY DEF Answered, Idle
          <5>3. \A new : [Idle EXCEPT !.pc = pc, !.op = op, !.client = c,
                                     !.sid = cookie[c], !.newSid = new].pc = pc
            BY DEF Idle
          <5> QED BY <4>2, <5>1, <5>2, <5>3
        <4> QED BY <4>1, <4>2, <4>3
      <3> QED BY <3>1, <3>2
    <2>4. CASE (\E t \in SIDs : Expire(t)) \/ (\E c \in Clients : DropCookie(c)) \/ UNCHANGED vars
      BY <2>4 DEF Expire, DropCookie, vars
    <2> QED BY <1>2, <2>1, <2>2, <2>3, <2>4 DEF Next
  <1> QED BY <1>1, <1>2

(* A session that ended while no extension was about to write it never     *)
(* comes back.                                                             *)
THEOREM EndedSessionsStayEnded == Spec => GoneForGood
  <1>1. ASSUME Inv, [Next]_vars, NEW s \in SIDs, Gone(s)
        PROVE  Gone(s)'
    <2>1. owner[s] # None /\ sessions[s] = None
          /\ \A r \in Requests : ~(req[r].pc = "write" /\ req[r].found /\ req[r].sid = s)
      BY <1>1 DEF Gone
    <2>2. ASSUME NEW r \in Requests, NEW t \in SIDs, t \in {req[r].sid, req[r].newSid},
                 req[r].pc \in {"set", "write"},
                 t = req[r].sid => req[r].found /\ req[r].pc = "write",
                 SetValue(r, t, req[r].user)
          PROVE  owner'[s] # None /\ sessions'[s] = None
      <3>1. t # s
        BY <1>1, <2>1, <2>2, ConstantsAssumption DEF Inv, FreshOK
      <3> QED BY <1>1, <2>1, <2>2, <3>1 DEF SetValue, Inv, TypeOK
    <2>3. owner'[s] # None /\ sessions'[s] = None
      <3>1. CASE \E r \in Requests : CreateSession(r)
        <4>1. PICK r \in Requests : CreateSession(r)
          BY <3>1
        <4>2. req[r].newSid \in SIDs /\ owner[req[r].newSid] = None
          BY <1>1, <4>1 DEF CreateSession, Inv, TypeOK, RequestType, StepsOK, FreshOK
        <4>3. req[r].newSid # s
          BY <2>1, <4>2
        <4> QED BY <1>1, <2>1, <4>1, <4>2, <4>3 DEF CreateSession, SetValue, NotWritten, Inv, TypeOK
      <3>2. CASE \E r \in Requests : HSetEX(r)
        <4>1. PICK r \in Requests : HSetEX(r)
          BY <3>2
        <4>2. ExtendTarget(req[r]) \in SIDs /\ ExtendTarget(req[r]) # s
          BY <1>1, <2>1, <4>1 DEF ExtendTarget, HSetEX, Inv, TypeOK, RequestType, StepsOK, FreshOK
        <4> QED BY <1>1, <2>1, <4>1, <4>2 DEF HSetEX, SetValue, NotWritten, Inv, TypeOK
      <3>3. CASE /\ UNCHANGED owner
                 /\ \A t \in SIDs : sessions'[t] \in {sessions[t], None}
        BY <2>1, <3>3
      <3> QED
        BY <1>1, <3>1, <3>2, <3>3
        DEF Next, Step, GetSession, Body, Register, Authenticate, Lock, HGet, Delete, Del, Reply,
            Submit, Expire, DropCookie, vars, history, Inv, TypeOK
    <2>4. ASSUME NEW r \in Requests, req'[r].pc = "write", req'[r].found, req'[r].sid = s
          PROVE  FALSE
      BY <1>1, <2>1, <2>4, WritesAfterHGet
    <2> QED BY <2>3, <2>4 DEF Gone
  <1>2. Inv /\ [Next]_vars => [GoneStays]_vars
    BY <1>1 DEF GoneStays
  <1> QED BY <1>2, InvInvariant, PTL DEF Spec, GoneForGood

-----------------------------------------------------------------------------
(* From here on clients wait for an answer before they send again:         *)
(* ~Pipelined is the hypothesis of each theorem.  Then a client's session  *)
(* is written by one request at a time, as every stored id belongs to one  *)
(* client (OwnedOK).                                                       *)
OneAtATime ==
  \A p, q \in Requests : req[p].client = req[q].client /\ req[p].client # None => p = q

(* What was logged out is gone, and no extension is about to restore it.   *)
LogoutOK ==
  /\ \A s \in loggedOut : owner[s] # None /\ sessions[s] = None
  /\ \A r \in Requests : req[r].pc = "write" /\ req[r].found => req[r].sid \notin loggedOut

(* What request q of a client that was last told v can rely on, with the   *)
(* sessions ss.  A handler that rebinds the session runs for a client that *)
(* was told nothing since it asked; one that extends it carries the user   *)
(* that the session has, if it still exists; and an answer names a session *)
(* of the user the client will believe in.                                 *)
Rebinds(q) == q.op \in {"Session", "Login"} \/ (q.op = "Register" /\ q.sid = None)
Extends(q) == q.op = "Act" /\ q.pc \in {"body", "lock", "hget", "write"}
Believes(q, v) == IF q.told = None THEN v ELSE q.told

SlotSeq(q, ss, v) ==
  /\ q.pc = "set" => q.op \in {"Session", "Login", "Register"} /\ q.sid = None
  /\ q.pc \in {"lock", "hget", "write"} => q.op \in {"Session", "Login", "Act"}
  /\ q.pc \notin {"idle", "reply"} => q.out = Keep /\ (Rebinds(q) => v = None)
  /\ q.sid # None /\ v # None => ss[q.sid] \in {v, None}
  /\ Extends(q) => (v # None => q.user = v) /\ ss[q.sid] \in {q.user, None}
  /\ q.told # None => q.out \in SIDs
  /\ q.out \in SIDs /\ Believes(q, v) # None => ss[q.out] \in {Believes(q, v), None}

LoginOK ==
  /\ LoginSticks
  /\ \A r \in Requests : req[r].client # None => SlotSeq(req[r], sessions, view[req[r].client])

SeqInv == OneAtATime /\ LogoutOK /\ LoginOK

-----------------------------------------------------------------------------
(* The steps, seen from one client.                                        *)

(* A request that is served belongs to a client, which has no other.       *)
LEMMA Served ==
  ASSUME Inv, NEW r \in Requests, Active(r)
  PROVE  /\ req \in [Requests -> RequestType] /\ req[r] \in RequestType
         /\ req[r].client \in Clients /\ req[r].client # None
         /\ sessions \in [SIDs -> Users \cup {Anon, None}]
         /\ req[r].sid # None => owner[req[r].sid] = req[r].client /\ req[r].sid \in SIDs
         /\ req[r].newSid # None => owner[req[r].newSid] = None /\ req[r].newSid \in SIDs
                                     /\ sessions[req[r].newSid] = None
         /\ cookie[req[r].client] # None => owner[cookie[req[r].client]] = req[r].client
  BY ConstantsAssumption DEF Inv, TypeOK, StepsOK, OwnedOK, FreshOK, AuthOK, RequestType

(* A step of request r that leaves it as z: it tells and gives cookies to  *)
(* its own client only, and writes only sessions of its client and ids     *)
(* that are nobody's.                                                      *)
Narrow(r, z) ==
  /\ req' = [req EXCEPT ![r] = z]
  /\ z.client \in {req[r].client, None}
  /\ \A d \in Clients : d # req[r].client => view'[d] = view[d] /\ cookie'[d] = cookie[d]
  /\ \A s \in SIDs : owner[s] \notin {None, req[r].client} => sessions'[s] = sessions[s]

LEMMA NarrowLogin ==
  ASSUME Inv, OneAtATime, LoginOK, NEW r \in Requests, Active(r), NEW z, Narrow(r, z),
         z.client # None => SlotSeq(z, sessions', view'[req[r].client]),
         view'[req[r].client] # None /\ cookie'[req[r].client] # None =>
           sessions'[cookie'[req[r].client]] \in {view'[req[r].client], None}
  PROVE  OneAtATime' /\ LoginOK'
  <1> DEFINE c == req[r].client
  <1>1. /\ c \in Clients /\ c # None
        /\ req'[r] = z /\ \A p \in Requests : p # r => req'[p] = req[p]
    BY Served DEF Narrow
  <1>2. OneAtATime'
    BY <1>1 DEF OneAtATime, Narrow
  <1>3. LoginSticks'
    <2> SUFFICES ASSUME NEW d \in Clients, view'[d] # None, cookie'[d] # None
                 PROVE  sessions'[cookie'[d]] \in {view'[d], None}
      BY DEF LoginSticks
    <2>1. CASE d = c
      BY <2>1
    <2>2. CASE d # c
      <3>1. view'[d] = view[d] /\ cookie'[d] = cookie[d]
        BY <2>2 DEF Narrow
      <3>2. cookie[d] \in SIDs /\ owner[cookie[d]] = d /\ d # None
        BY <3>1, ConstantsAssumption DEF Inv, TypeOK, OwnedOK
      <3> QED BY <2>2, <3>1, <3>2 DEF Narrow, LoginOK, LoginSticks
    <2> QED BY <2>1, <2>2
  <1>4. ASSUME NEW p \in Requests, req'[p].client # None
        PROVE  SlotSeq(req'[p], sessions', view'[req'[p].client])
    <2>1. CASE p = r
      BY <1>1, <1>4, <2>1 DEF Narrow
    <2>2. CASE p # r
      <3> DEFINE q == req[p]
      <3>1. req'[p] = q /\ q.client # None /\ q.client # c /\ q \in RequestType
        BY <1>1, <1>4, <2>2 DEF OneAtATime, Inv, TypeOK
      <3>2. q.client \in Clients /\ view'[q.client] = view[q.client]
        BY <3>1 DEF RequestType, Narrow
      <3>3. /\ q.sid # None => sessions'[q.sid] = sessions[q.sid]
            /\ q.out \in SIDs => sessions'[q.out] = sessions[q.out]
        BY <3>1 DEF Narrow, Inv, OwnedOK, RequestType
      <3>4. Extends(q) => q.sid # None
        BY DEF Extends, Inv, StepsOK
      <3>5. SlotSeq(q, sessions, view[q.client])
        BY <3>1 DEF LoginOK
      <3> HIDE DEF q
      <3>6. SlotSeq(q, sessions', view[q.client])
        BY <3>3, <3>4, <3>5 DEF SlotSeq
      <3> QED BY <3>1, <3>2, <3>6
    <2> QED BY <2>1, <2>2
  <1> QED BY <1>2, <1>3, <1>4 DEF LoginOK

(* The steps that touch neither sessions nor what the client knows.        *)
LEMMA QuietLogin ==
  ASSUME Inv, OneAtATime, LoginOK, NEW r \in Requests, Active(r), NEW z,
         req' = [req EXCEPT ![r] = z], z.client = req[r].client,
         UNCHANGED <<sessions, cookie, view>>,
         SlotSeq(z, sessions, view[req[r].client])
  PROVE  OneAtATime' /\ LoginOK'
  <1>1. Narrow(r, z)
    BY DEF Narrow
  <1>2. view[req[r].client] # None /\ cookie[req[r].client] # None =>
          sessions[cookie[req[r].client]] \in {view[req[r].client], None}
    BY Served DEF LoginOK, LoginSticks
  <1> QED BY <1>1, <1>2, NarrowLogin

(* The fields of an answer and of a request that moves on.                 *)
LEMMA AnswerFields ==
  ASSUME NEW c, NEW out, NEW told
  PROVE  LET z == Answered(c, out, told) IN
         /\ z.pc = "reply" /\ z.op = "Read" /\ z.client = c /\ z.sid = None
         /\ z.out = out /\ z.told = told
  BY DEF Answered, Idle

MoveTo(q, l, u, f) == [q EXCEPT !.pc = l, !.user = u, !.found = f]

LEMMA MoveFields ==
  ASSUME NEW q \in RequestType, NEW l \in PCs, NEW u \in Users \cup {Anon}, NEW f \in BOOLEAN
  PROVE  LET z == MoveTo(q, l, u, f) IN
         /\ z.pc = l /\ z.op = q.op /\ z.client = q.client /\ z.sid = q.sid
         /\ z.user = u /\ z.found = f /\ z.out = q.out /\ z.told = q.told
  <1> DEFINE z == [q EXCEPT !.pc = l, !.user = u, !.found = f]
  <1>1. z \in RequestType
    BY DEF RequestType
  <1>2. /\ z.pc = l /\ z.op = q.op /\ z.client = q.client /\ z.sid = q.sid
        /\ z.user = u /\ z.found = f /\ z.out = q.out /\ z.told = q.told
    BY <1>1 DEF RequestType
  <1> QED BY <1>2 DEF MoveTo

(* An answer that echoes the cookie, clears it or says nothing of it.      *)
LEMMA EchoLogin ==
  ASSUME Inv, OneAtATime, LoginOK, NEW r \in Requests, Active(r),
         NEW out \in {Keep, None, req[r].sid}, Answer(r, out),
         UNCHANGED <<sessions, cookie, view>>
  PROVE  OneAtATime' /\ LoginOK'
  <1> DEFINE z == Answered(req[r].client, out, None)
  <1>1. /\ z.pc = "reply" /\ z.op = "Read" /\ z.client = req[r].client /\ z.sid = None
        /\ z.out = out /\ z.told = None
    BY AnswerFields
  <1>2. req' = [req EXCEPT ![r] = z]
    BY Served DEF Answer, AnswerLogin
  <1>3. SlotSeq(req[r], sessions, view[req[r].client])
    BY Served DEF LoginOK
  <1>4. None \notin SIDs /\ Keep \notin SIDs
    BY ConstantsAssumption
  <1> HIDE DEF z
  <1>5. SlotSeq(z, sessions, view[req[r].client])
    BY <1>1, <1>3, <1>4 DEF SlotSeq, Extends, Believes
  <1> QED BY <1>1, <1>2, <1>5, QuietLogin

(* A request that moves on.                                                *)
LEMMA MoveLogin ==
  ASSUME Inv, OneAtATime, LoginOK, NEW r \in Requests, Active(r), req[r].pc # "reply",
         NEW l \in {"body", "set", "lock", "hget", "write"}, NEW u \in Users \cup {Anon},
         NEW f \in BOOLEAN, Moved(r, l, u, f),
         UNCHANGED <<sessions, cookie, view>>,
         l = "set" => req[r].op \in {"Session", "Login", "Register"} /\ req[r].sid = None,
         l \in {"lock", "hget", "write"} => req[r].op \in {"Session", "Login", "Act"},
         req[r].op = "Act" =>
           /\ view[req[r].client] # None => u = view[req[r].client]
           /\ sessions[req[r].sid] \in {u, None}
  PROVE  OneAtATime' /\ LoginOK'
  <1> DEFINE q == req[r]
             z == MoveTo(q, l, u, f)
  <1>1. q \in RequestType /\ l \in PCs
    BY Served DEF PCs
  <1>2. /\ z.pc = l /\ z.op = q.op /\ z.client = q.client /\ z.sid = q.sid
        /\ z.user = u /\ z.found = f /\ z.out = q.out /\ z.told = q.told
    BY <1>1, MoveFields
  <1>3. req' = [req EXCEPT ![r] = z]
    BY Served DEF Moved, MoveTo
  <1>4. SlotSeq(q, sessions, view[q.client])
    BY Served DEF LoginOK
  <1>5. q.pc \notin {"idle", "reply"}
    BY DEF Active
  <1> HIDE DEF z
  <1>6. SlotSeq(z, sessions, view[q.client])
    BY <1>2, <1>4, <1>5 DEF SlotSeq, Extends, Believes, Rebinds
  <1> QED BY <1>2, <1>3, <1>6, QuietLogin

(* One lemma per action, as above.                                         *)
LEMMA GetSessionLogin ==
  ASSUME Inv, OneAtATime, LoginOK, NEW r \in Requests, GetSession(r)
  PROVE  OneAtATime' /\ LoginOK'
  <1> DEFINE v == sessions[req[r].sid]
  <1>1. Active(r) /\ req[r].pc = "get" /\ req[r].sid \in SIDs /\ req[r].sid # None
        /\ UNCHANGED <<sessions, cookie, view>>
    BY DEF GetSession, Active, Inv, StepsOK, TypeOK, RequestType, history
  <1>2. CASE ~Unauthorized(v) /\ req' = [req EXCEPT ![r].pc = "body", ![r].user = v]
    <2>1. v \in Users /\ v # None /\ req[r].found \in BOOLEAN
      BY <1>1, <1>2, Served DEF Unauthorized, RequestType
    <2>2. Moved(r, "body", v, req[r].found)
      BY <1>2 DEF Moved, Inv, TypeOK, RequestType
    <2>3. view[req[r].client] # None => v = view[req[r].client]
      BY <1>1, <2>1, Served DEF LoginOK, SlotSeq
    <2> HIDE DEF v
    <2> QED BY <1>1, <2>1, <2>2, <2>3, MoveLogin DEF v
  <1>3. CASE \E setCookie \in {Keep, req[r].sid} : Answer(r, setCookie)
    BY <1>1, <1>3, EchoLogin
  <1>4. CASE InternalError(r)
    BY <1>1, <1>4, EchoLogin DEF InternalError
  <1> QED BY <1>2, <1>3, <1>4 DEF GetSession

LEMMA BodyLogin ==
  ASSUME Inv, OneAtATime, LoginOK, NEW r \in Requests, Body(r)
  PROVE  OneAtATime' /\ LoginOK'
  <1>1. Active(r) /\ req[r].pc = "body" /\ UNCHANGED <<sessions, cookie, view>>
    BY DEF Body, Active, history
  <1>2. CASE req[r].op = "Act" /\ Goto(r, "lock")
    <2>1. req[r].user \in Users \cup {Anon} /\ req[r].found \in BOOLEAN
      BY <1>1, Served DEF RequestType
    <2>2. Moved(r, "lock", req[r].user, req[r].found)
      BY <1>2 DEF Moved, Goto, Inv, TypeOK, RequestType
    <2>3. /\ view[req[r].client] # None => req[r].user = view[req[r].client]
          /\ sessions[req[r].sid] \in {req[r].user, None}
      BY <1>1, <1>2, Served DEF LoginOK, SlotSeq, Extends
    <2> QED BY <1>1, <1>2, <2>1, <2>2, <2>3, MoveLogin
  <1>3. CASE Answer(r, req[r].sid)
    BY <1>1, <1>3, EchoLogin
  <1>4. CASE InternalError(r)
    BY <1>1, <1>4, EchoLogin DEF InternalError
  <1> QED BY <1>2, <1>3, <1>4 DEF Body

LEMMA AuthLogin ==
  ASSUME Inv, OneAtATime, LoginOK, NEW r \in Requests, Register(r) \/ Authenticate(r)
  PROVE  OneAtATime' /\ LoginOK'
  <1>1. /\ Active(r) /\ req[r].pc = "auth" /\ req[r].op \in {"Register", "Login"}
        /\ UNCHANGED <<sessions, cookie, view>> /\ req[r].found \in BOOLEAN
    BY Served DEF Register, Authenticate, Active, Inv, TypeOK, RequestType
  <1>2. ASSUME NEW u \in Users, Authenticated(r, u) PROVE OneAtATime' /\ LoginOK'
    <2>1. CASE req[r].sid = None /\ req' = [req EXCEPT ![r].pc = "set", ![r].user = u]
      <3>1. Moved(r, "set", u, req[r].found)
        BY <2>1 DEF Moved, Inv, TypeOK, RequestType
      <3> QED BY <1>1, <2>1, <3>1, MoveLogin
    <2>2. CASE req[r].op = "Login" /\ req' = [req EXCEPT ![r].pc = "lock", ![r].user = u]
      <3>1. Moved(r, "lock", u, req[r].found)
        BY <2>2 DEF Moved, Inv, TypeOK, RequestType
      <3> QED BY <1>1, <2>2, <3>1, MoveLogin
    <2>3. CASE Answer(r, req[r].sid)
      BY <1>1, <2>3, EchoLogin
    <2> QED BY <1>2, <2>1, <2>2, <2>3 DEF Authenticated
  <1>3. CASE Answer(r, req[r].sid)
    BY <1>1, <1>3, EchoLogin
  <1>4. CASE InternalError(r)
    BY <1>1, <1>4, EchoLogin DEF InternalError
  <1>5. CASE Register(r)
    BY <1>2, <1>3, <1>4, <1>5, Zenon DEF Register
  <1>6. CASE Authenticate(r)
    <2>1. accounts \subseteq Users
      BY DEF Inv, TypeOK
    <2> QED BY <1>2, <1>3, <1>4, <1>6, <2>1 DEF Authenticate
  <1> QED BY <1>5, <1>6

LEMMA LockLogin ==
  ASSUME Inv, OneAtATime, LoginOK, NEW r \in Requests, Lock(r)
  PROVE  OneAtATime' /\ LoginOK'
  <1>1. /\ Active(r) /\ req[r].pc = "lock" /\ UNCHANGED <<sessions, cookie, view>>
        /\ req[r].user \in Users \cup {Anon} /\ req[r].found \in BOOLEAN
    BY Served DEF Lock, Active, history, Inv, TypeOK, RequestType
  <1>2. Moved(r, "hget", req[r].user, req[r].found)
    BY DEF Lock, Moved, Goto, Inv, TypeOK, RequestType
  <1>3. SlotSeq(req[r], sessions, view[req[r].client])
    BY <1>1, Served DEF LoginOK
  <1>4. /\ req[r].op \in {"Session", "Login", "Act"}
        /\ req[r].op = "Act" =>
             /\ view[req[r].client] # None => req[r].user = view[req[r].client]
             /\ sessions[req[r].sid] \in {req[r].user, None}
    BY <1>1, <1>3 DEF SlotSeq, Extends
  <1> QED BY <1>1, <1>2, <1>4, MoveLogin

LEMMA HGetLogin ==
  ASSUME Inv, OneAtATime, LoginOK, NEW r \in Requests, HGet(r)
  PROVE  OneAtATime' /\ LoginOK'
  <1>1. /\ Active(r) /\ req[r].pc = "hget" /\ UNCHANGED <<sessions, cookie, view>>
        /\ req[r].user \in Users \cup {Anon}
    BY Served DEF HGet, Active, history, Inv, TypeOK, RequestType
  <1>2. CASE req' = [req EXCEPT ![r].pc = "write", ![r].found = sessions[req[r].sid] # None]
    <2> DEFINE f == sessions[req[r].sid] # None
    <2>1. f \in BOOLEAN /\ Moved(r, "write", req[r].user, f)
      BY <1>2 DEF Moved, Inv, TypeOK, RequestType
    <2>2. SlotSeq(req[r], sessions, view[req[r].client])
      BY <1>1, Served DEF LoginOK
    <2>3. /\ req[r].op \in {"Session", "Login", "Act"}
          /\ req[r].op = "Act" =>
               /\ view[req[r].client] # None => req[r].user = view[req[r].client]
               /\ sessions[req[r].sid] \in {req[r].user, None}
      BY <1>1, <2>2 DEF SlotSeq, Extends
    <2> HIDE DEF f
    <2> QED BY <1>1, <2>1, <2>3, MoveLogin
  <1>3. CASE ExtendReturns(r, None, FALSE)
    <2>1. Answer(r, req[r].sid) \/ Answer(r, Keep)
      BY <1>3 DEF ExtendReturns, InternalError
    <2> QED BY <1>1, <2>1, EchoLogin
  <1> QED BY <1>2, <1>3 DEF HGet

(* A user is stored and the request answers.                               *)
LEMMA StoreLogin ==
  ASSUME Inv, OneAtATime, LoginOK, NEW r \in Requests, Active(r), req[r].pc \in {"set", "write"},
         NEW s \in SIDs, s \in {req[r].sid, req[r].newSid}, SetValue(r, s, req[r].user),
         NEW out, NEW told \in Users \cup {None}, AnswerLogin(r, out, told),
         \/ out = s /\ Rebinds(req[r]) /\ told \in {req[r].user, None}
         \/ out = Keep /\ told = None
         \/ out = req[r].sid /\ told = None,
         UNCHANGED <<cookie, view>>
  PROVE  OneAtATime' /\ LoginOK'
  <1> DEFINE q == req[r]
             c == q.client
             z == Answered(c, out, told)
  <1>1. /\ q \in RequestType /\ c \in Clients /\ c # None
        /\ sessions \in [SIDs -> Users \cup {Anon, None}]
        /\ q.sid # None => owner[q.sid] = c /\ q.sid \in SIDs
        /\ q.newSid # None => owner[q.newSid] = None /\ q.newSid \in SIDs
        /\ cookie[c] # None => owner[cookie[c]] = c
        /\ cookie[c] \in SIDs \cup {None}
    BY Served DEF Inv, TypeOK
  <1>2. /\ sessions'[s] = q.user
        /\ \A t \in SIDs : t # s => sessions'[t] = sessions[t]
        /\ s # None /\ owner[s] \in {None, c}
        /\ s # q.sid => owner[s] = None
    BY <1>1, ConstantsAssumption DEF SetValue
  <1>3. /\ z.pc = "reply" /\ z.op = "Read" /\ z.client = c /\ z.sid = None
        /\ z.out = out /\ z.told = told
    BY AnswerFields
  <1>4. req' = [req EXCEPT ![r] = z]
    BY <1>1 DEF AnswerLogin
  <1>5. SlotSeq(q, sessions, view[c])
    BY <1>1 DEF LoginOK
  <1>6. view[c] # None => q.op = "Act" /\ q.user = view[c] /\ q.pc = "write"
    BY <1>5 DEF SlotSeq, Rebinds, Extends
  <1>7. None \notin SIDs /\ Keep \notin SIDs /\ Keep # None
    BY ConstantsAssumption
  <1>8. Rebinds(q) => view[c] = None
    BY <1>5 DEF SlotSeq
  <1> HIDE DEF z
  <1>9. Narrow(r, z)
    BY <1>2, <1>3, <1>4 DEF Narrow
  <1>10. view[c] # None /\ cookie[c] # None => sessions'[cookie[c]] \in {view[c], None}
    BY <1>1, <1>2, <1>6 DEF LoginOK, LoginSticks
  <1>11. SlotSeq(z, sessions', view[c])
    <2>1. view[c] # None /\ q.sid # None => sessions'[q.sid] \in {view[c], None}
      BY <1>1, <1>2, <1>5, <1>6 DEF SlotSeq
    <2>2. told # None => out \in SIDs
      OBVIOUS
    <2>3. out \in SIDs /\ Believes(z, view[c]) # None =>
            sessions'[out] \in {Believes(z, view[c]), None}
      BY <1>2, <1>3, <1>7, <1>8, <2>1 DEF Believes
    <2> QED BY <1>3, <2>2, <2>3 DEF SlotSeq, Extends
  <1> QED BY <1>3, <1>9, <1>10, <1>11, NarrowLogin

LEMMA CreateSessionLogin ==
  ASSUME Inv, OneAtATime, LoginOK, NEW r \in Requests, CreateSession(r)
  PROVE  OneAtATime' /\ LoginOK'
  <1> DEFINE s == req[r].newSid
  <1>1. /\ Active(r) /\ req[r].pc = "set" /\ UNCHANGED <<cookie, view>>
        /\ s \in SIDs /\ s \in {req[r].sid, req[r].newSid}
    BY Served DEF CreateSession, Active, Inv, StepsOK
  <1>2. Rebinds(req[r])
    BY <1>1, Served DEF LoginOK, SlotSeq, Rebinds
  <1> HIDE DEF s
  <1>3. CASE SetValue(r, s, req[r].user) /\ AnswerSession(r, s)
    <2> DEFINE told == IF req[r].user \in Users THEN req[r].user ELSE None
    <2>1. told \in Users \cup {None} /\ told \in {req[r].user, None} /\ AnswerLogin(r, s, told)
      BY <1>3 DEF AnswerSession
    <2> HIDE DEF told
    <2> QED BY <1>1, <1>2, <1>3, <2>1, StoreLogin
  <1>4. CASE SetValue(r, s, req[r].user) /\ InternalError(r)
    BY <1>1, <1>4, StoreLogin DEF InternalError, Answer
  <1>5. CASE NotWritten /\ InternalError(r)
    BY <1>1, <1>5, EchoLogin DEF InternalError, NotWritten
  <1> QED BY <1>3, <1>4, <1>5 DEF CreateSession, s

LEMMA HSetEXLogin ==
  ASSUME Inv, OneAtATime, LoginOK, NEW r \in Requests, HSetEX(r)
  PROVE  OneAtATime' /\ LoginOK'
  <1> DEFINE s == ExtendTarget(req[r])
  <1>1. /\ Active(r) /\ req[r].pc = "write" /\ UNCHANGED <<cookie, view>>
        /\ s \in SIDs /\ s \in {req[r].sid, req[r].newSid}
    BY Served DEF HSetEX, ExtendTarget, Active, Inv, StepsOK
  <1>2. req[r].op \in {"Session", "Login", "Act"}
    BY <1>1, Served DEF LoginOK, SlotSeq
  <1> HIDE DEF s
  <1>3. ASSUME NEW b \in BOOLEAN, SetValue(r, s, req[r].user), ExtendReturns(r, s, b)
        PROVE  OneAtATime' /\ LoginOK'
    <2>1. CASE req[r].op = "Act"
      <3>1. AnswerLogin(r, req[r].sid, None)
        BY <1>3, <2>1 DEF ExtendReturns, Answer
      <3> QED BY <1>1, <1>3, <3>1, StoreLogin
    <2>2. CASE req[r].op # "Act" /\ b
      <3> DEFINE told == IF req[r].user \in Users THEN req[r].user ELSE None
      <3>1. told \in Users \cup {None} /\ told \in {req[r].user, None} /\ AnswerLogin(r, s, told)
        BY <1>3, <2>2 DEF ExtendReturns, AnswerSession
      <3>2. Rebinds(req[r])
        BY <1>2, <2>2 DEF Rebinds
      <3> HIDE DEF told
      <3> QED BY <1>1, <1>3, <3>1, <3>2, StoreLogin
    <2>3. CASE req[r].op # "Act" /\ ~b
      <3>1. AnswerLogin(r, Keep, None)
        BY <1>3, <2>3 DEF ExtendReturns, InternalError, Answer
      <3> QED BY <1>1, <1>3, <3>1, StoreLogin
    <2> QED BY <2>1, <2>2, <2>3
  <1>4. CASE NotWritten /\ ExtendReturns(r, s, FALSE)
    <2>1. Answer(r, req[r].sid) \/ Answer(r, Keep)
      BY <1>4 DEF ExtendReturns, InternalError
    <2> QED BY <1>1, <1>4, <2>1, EchoLogin DEF NotWritten
  <1> QED BY <1>3, <1>4 DEF HSetEX, s, ExtendUser

LEMMA DeleteLogin ==
  ASSUME Inv, OneAtATime, LoginOK, NEW r \in Requests, Delete(r)
  PROVE  OneAtATime' /\ LoginOK'
  <1>1. /\ Active(r) /\ req[r].pc = "delete" /\ UNCHANGED <<cookie, view>>
        /\ req[r].sid \in SIDs /\ owner[req[r].sid] = req[r].client
    BY Served DEF Delete, Active, Inv, StepsOK
  <1>2. \A s \in SIDs : sessions'[s] \in {sessions[s], None}
                        /\ (s # req[r].sid => sessions'[s] = sessions[s])
    BY DEF Delete, Del, Inv, TypeOK
  <1>3. PICK out \in {None, Keep} : Answer(r, out)
    BY DEF Delete, InternalError
  <1> DEFINE z == Answered(req[r].client, out, None)
  <1>4. /\ z.pc = "reply" /\ z.op = "Read" /\ z.client = req[r].client /\ z.sid = None
        /\ z.out = out /\ z.told = None
    BY AnswerFields
  <1>5. req' = [req EXCEPT ![r] = z]
    BY <1>1, <1>3, Served DEF Answer, AnswerLogin
  <1>6. None \notin SIDs /\ Keep \notin SIDs
    BY ConstantsAssumption
  <1> HIDE DEF z
  <1>7. Narrow(r, z)
    BY <1>1, <1>2, <1>4, <1>5 DEF Narrow
  <1>8. SlotSeq(z, sessions', view'[req[r].client])
    BY <1>4, <1>6 DEF SlotSeq, Extends
  <1>9. cookie[req[r].client] # None => cookie[req[r].client] \in SIDs
    BY <1>1, Served DEF Inv, TypeOK
  <1>10. view[req[r].client] # None /\ cookie[req[r].client] # None =>
           sessions'[cookie[req[r].client]] \in {view[req[r].client], None}
    BY <1>1, <1>2, <1>9, Served DEF LoginOK, LoginSticks
  <1> QED BY <1>1, <1>4, <1>7, <1>8, <1>10, NarrowLogin

LEMMA ReplyLogin ==
  ASSUME Inv, OneAtATime, LoginOK, NEW r \in Requests, Reply(r)
  PROVE  OneAtATime' /\ LoginOK'
  <1> DEFINE q == req[r]
             c == req[r].client
  <1>1. /\ Active(r) /\ q.pc = "reply" /\ UNCHANGED sessions
        /\ req' = [req EXCEPT ![r] = Idle]
        /\ \/ /\ cookie' = IF q.out = Keep THEN cookie ELSE [cookie EXCEPT ![c] = q.out]
              /\ view' = IF q.told = None THEN view ELSE [view EXCEPT ![c] = q.told]
           \/ UNCHANGED <<cookie, view>>
    BY DEF Reply, Active
  <1>2. /\ c \in Clients /\ q \in RequestType /\ Idle.client = None
        /\ cookie \in [Clients -> SIDs \cup {None}] /\ view \in [Clients -> Users \cup {None}]
        /\ Keep \notin SIDs \cup {None} /\ None \notin SIDs
    BY <1>1, Served, ConstantsAssumption DEF Inv, TypeOK, Idle
  <1>3. SlotSeq(q, sessions, view[c])
    BY <1>1, Served DEF LoginOK
  <1>4. q.out \in SIDs \cup {None, Keep}
    BY <1>2 DEF RequestType
  <1>5. view[c] # None /\ cookie[c] # None => sessions[cookie[c]] \in {view[c], None}
    BY <1>2 DEF LoginOK, LoginSticks
  <1> HIDE DEF q, c
  <1>6. \A d \in Clients : d # c => view'[d] = view[d] /\ cookie'[d] = cookie[d]
    BY <1>1, <1>2
  <1>7. \/ /\ cookie'[c] = IF q.out = Keep THEN cookie[c] ELSE q.out
           /\ view'[c] = Believes(q, view[c])
        \/ cookie'[c] = cookie[c] /\ view'[c] = view[c]
    BY <1>1, <1>2 DEF Believes
  <1>8. view'[c] # None /\ cookie'[c] # None => sessions[cookie'[c]] \in {view'[c], None}
    BY <1>2, <1>3, <1>4, <1>5, <1>7 DEF SlotSeq, Believes
  <1> USE DEF c
  <1>9. Narrow(r, Idle)
    BY <1>1, <1>2, <1>6 DEF Narrow
  <1> QED BY <1>1, <1>2, <1>8, <1>9, NarrowLogin

(* A client that waits sends its next request when it has no other: the    *)
(* request starts from the cookie, which LoginSticks speaks of.            *)
LEMMA SubmitLogin ==
  ASSUME Inv, OneAtATime, LoginOK, ~Pipelined,
         NEW r \in Requests, NEW c \in Clients, NEW op \in Ops, Submit(r, c, op)
  PROVE  OneAtATime' /\ LoginOK'
  <1> DEFINE sid == cookie[c]
             told == op \in {"Session", "Login", "Logout"} \/ (op = "Register" /\ sid = None)
  <1>1. /\ sid \in SIDs \cup {None} /\ c # None /\ None \notin SIDs /\ Keep \notin SIDs
        /\ view \in [Clients -> Users \cup {None}] /\ req \in [Requests -> RequestType]
        /\ UNCHANGED <<sessions, cookie>>
        /\ view' = IF told THEN [view EXCEPT ![c] = None] ELSE view
        /\ \A q \in Requests : req[q].client # c
    BY ConstantsAssumption DEF Inv, TypeOK, Submit
  <1>2. PICK z :
          /\ req' = [req EXCEPT ![r] = z] /\ z.client = c /\ z.told = None
          /\ z.sid \in {sid, None} /\ z.out \in {sid, None, Keep}
          /\ z.pc \in {"set", "lock", "auth", "delete", "get", "reply"}
          /\ z.pc = "set" => z.op = "Session" /\ z.sid = None
          /\ z.pc = "lock" => z.op = "Session"
          /\ z.pc # "reply" => z.op = op /\ z.sid = sid /\ z.out = Keep
    <2>1. PICK pc \in FirstSteps(op, sid) :
            IF pc = "reply"
            THEN \E setCookie \in IF op \in {"Act", "Recommend"} THEN {Keep, sid} ELSE {sid} :
                   req' = [req EXCEPT ![r] = Answered(c, setCookie, None)]
            ELSE \E new \in IF MayCreate(op) THEN FreshSIDs ELSE {None} :
                   req' = [req EXCEPT ![r] = [Idle EXCEPT !.pc = pc, !.op = op, !.client = c,
                                                          !.sid = sid, !.newSid = new]]
      BY DEF Submit
    <2>2. CASE pc = "reply"
      <3>1. PICK setCookie \in {Keep, sid} : req' = [req EXCEPT ![r] = Answered(c, setCookie, None)]
        BY <2>1, <2>2
      <3> DEFINE z == Answered(c, setCookie, None)
      <3>2. z.pc = "reply" /\ z.client = c /\ z.sid = None /\ z.out = setCookie /\ z.told = None
        BY DEF Answered, Idle
      <3> HIDE DEF z
      <3> QED BY <3>1, <3>2 DEF z
    <2>3. CASE pc # "reply"
      <3>1. PICK new : req' = [req EXCEPT ![r] = [Idle EXCEPT !.pc = pc, !.op = op, !.client = c,
                                                              !.sid = sid, !.newSid = new]]
        BY <2>1, <2>3
      <3>2. /\ pc \in {"set", "lock", "auth", "delete", "get"}
            /\ pc = "set" => op = "Session" /\ sid = None
            /\ pc = "lock" => op = "Session"
        BY <2>3, <1>1 DEF FirstSteps, SessionSteps, LogoutSteps, ActSteps, RecommendSteps, Ops
      <3> DEFINE z == [Idle EXCEPT !.pc = pc, !.op = op, !.client = c, !.sid = sid, !.newSid = new]
      <3>3. /\ z.pc = pc /\ z.op = op /\ z.client = c /\ z.sid = sid
            /\ z.out = Keep /\ z.told = None
        BY DEF Idle
      <3> HIDE DEF z
      <3> QED BY <2>3, <3>1, <3>2, <3>3 DEF z
    <2> QED BY <2>2, <2>3
  <1>3. req'[r] = z /\ \A p \in Requests : p # r => req'[p] = req[p]
    BY <1>1, <1>2
  <1>4. OneAtATime'
    BY <1>1, <1>2, <1>3 DEF OneAtATime
  <1>5. /\ view'[c] = IF told THEN None ELSE view[c]
        /\ \A d \in Clients : d # c => view'[d] = view[d]
    BY <1>1
  <1>6. LoginSticks'
    BY <1>1, <1>5 DEF LoginOK, LoginSticks
  <1>7. SlotSeq(z, sessions, view'[c])
    <2>1. view[c] # None /\ sid # None => sessions[sid] \in {view[c], None}
      BY DEF LoginOK, LoginSticks
    <2>2. z.pc \notin {"idle", "reply"} /\ Rebinds(z) => told
      BY <1>2 DEF Rebinds
    <2> HIDE DEF sid, told
    <2> QED BY <1>1, <1>2, <1>5, <2>1, <2>2 DEF SlotSeq, Extends, Believes
  <1>8. ASSUME NEW p \in Requests, req'[p].client # None
        PROVE  SlotSeq(req'[p], sessions', view'[req'[p].client])
    <2>1. CASE p = r
      BY <1>1, <1>2, <1>3, <1>7, <2>1
    <2>2. CASE p # r
      <3>1. req'[p] = req[p] /\ req[p].client # c /\ req[p].client \in Clients
        BY <1>1, <1>3, <1>8, <2>2 DEF RequestType
      <3>2. view'[req[p].client] = view[req[p].client]
        BY <1>5, <3>1
      <3>3. SlotSeq(req[p], sessions, view[req[p].client])
        BY <1>8, <3>1 DEF LoginOK
      <3> QED BY <1>1, <3>1, <3>2, <3>3
    <2> QED BY <2>1, <2>2
  <1> QED BY <1>4, <1>6, <1>8 DEF LoginOK

(* Sessions and cookies that run out tell nobody anything wrong.           *)
LEMMA ClockLogin ==
  ASSUME Inv, OneAtATime, LoginOK,
         (\E s \in SIDs : Expire(s)) \/ (\E c \in Clients : DropCookie(c)) \/ UNCHANGED vars
  PROVE  OneAtATime' /\ LoginOK'
  <1>1. /\ req' = req /\ view' = view
        /\ \A s \in SIDs : sessions'[s] \in {sessions[s], None}
        /\ \A c \in Clients : cookie'[c] \in {cookie[c], None}
        /\ cookie \in [Clients -> SIDs \cup {None}]
    BY DEF Expire, DropCookie, vars, history, Inv, TypeOK
  <1>2. OneAtATime' /\ LoginSticks'
    BY <1>1 DEF OneAtATime, LoginOK, LoginSticks
  <1>3. ASSUME NEW r \in Requests, req[r].client # None
        PROVE  SlotSeq(req[r], sessions', view[req[r].client])
    <2> DEFINE q == req[r]
               v == view[q.client]
    <2>1. SlotSeq(q, sessions, v)
      BY <1>3 DEF LoginOK
    <2>2. /\ q.sid # None => q.sid \in SIDs
          /\ Extends(q) => q.sid # None
      BY DEF Inv, TypeOK, RequestType, StepsOK, Extends
    <2> HIDE DEF q, v
    <2>3. SlotSeq(q, sessions', v)
      BY <1>1, <2>1, <2>2 DEF SlotSeq
    <2> QED BY <2>3 DEF q, v
  <1> QED BY <1>1, <1>2, <1>3 DEF LoginOK

LEMMA NextLogin ==
  ASSUME Inv, OneAtATime, LoginOK, ~Pipelined, [Next]_vars
  PROVE  OneAtATime' /\ LoginOK'
  <1>1. ASSUME NEW r \in Requests, Step(r) PROVE OneAtATime' /\ LoginOK'
    BY <1>1, GetSessionLogin, BodyLogin, AuthLogin, CreateSessionLogin, LockLogin, HGetLogin,
       HSetEXLogin, DeleteLogin, ReplyLogin DEF Step
  <1>2. ASSUME NEW r \in Requests, NEW c \in Clients, NEW op \in Ops, Submit(r, c, op)
        PROVE  OneAtATime' /\ LoginOK'
    BY <1>2, SubmitLogin
  <1> QED BY <1>1, <1>2, ClockLogin DEF Next

(* What was logged out stays out: only an extension that found the session *)
(* could write it again, and that would be a second request of the client. *)
LEMMA NextLogout ==
  ASSUME Inv, OneAtATime, LogoutOK, [Next]_vars
  PROVE  LogoutOK'
  <1>1. ASSUME NEW s \in loggedOut'
        PROVE  owner'[s] # None /\ sessions'[s] = None
    <2>1. CASE \E r \in Requests : Delete(r)
      <3>1. PICK r \in Requests : Delete(r)
        BY <2>1
      <3>2. Active(r) /\ req[r].sid # None /\ UNCHANGED owner
        BY <3>1 DEF Delete, Active, Inv, StepsOK
      <3>3. req[r].sid \in SIDs /\ owner[req[r].sid] # None
        BY <3>2, Served
      <3> QED BY <1>1, <3>1, <3>2, <3>3 DEF Delete, Del, LogoutOK, Inv, TypeOK
    <2>2. ASSUME NEW r \in Requests, NEW t \in SIDs, t # s,
                 SetValue(r, t, req[r].user) \/ NotWritten, UNCHANGED loggedOut
          PROVE  owner'[s] # None /\ sessions'[s] = None
      BY <1>1, <2>2 DEF SetValue, NotWritten, LogoutOK, Inv, TypeOK
    <2>3. CASE \E r \in Requests : CreateSession(r)
      <3>1. PICK r \in Requests : CreateSession(r)
        BY <2>3
      <3>2. Active(r) /\ req[r].newSid # None /\ UNCHANGED loggedOut
        BY <3>1 DEF CreateSession, Active, Inv, StepsOK
      <3>3. req[r].newSid \in SIDs /\ req[r].newSid # s
        BY <1>1, <3>2, Served DEF LogoutOK
      <3>4. SetValue(r, req[r].newSid, req[r].user) \/ NotWritten
        BY <3>1 DEF CreateSession
      <3> QED BY <2>2, <3>2, <3>3, <3>4
    <2>4. CASE \E r \in Requests : HSetEX(r)
      <3>1. PICK r \in Requests : HSetEX(r)
        BY <2>4
      <3>2. /\ Active(r) /\ req[r].pc = "write" /\ req[r].newSid # None /\ req[r].sid # None
            /\ UNCHANGED loggedOut
        BY <3>1 DEF HSetEX, Active, Inv, StepsOK
      <3> DEFINE t == ExtendTarget(req[r])
      <3>3. t \in SIDs /\ t # s
        BY <1>1, <3>2, Served DEF LogoutOK, ExtendTarget
      <3>4. SetValue(r, t, req[r].user) \/ NotWritten
        BY <3>1 DEF HSetEX, ExtendUser
      <3> HIDE DEF t
      <3> QED BY <2>2, <3>2, <3>3, <3>4
    <2>5. CASE /\ UNCHANGED <<owner, loggedOut>>
               /\ \A t \in SIDs : sessions'[t] \in {sessions[t], None}
      BY <1>1, <2>5 DEF LogoutOK, Inv, TypeOK
    <2> QED
      BY <2>1, <2>3, <2>4, <2>5
      DEF Next, Step, GetSession, Body, Register, Authenticate, Lock, HGet, Reply, Submit, Expire,
          DropCookie, vars, history, Inv, TypeOK
  <1>2. ASSUME NEW r \in Requests, req'[r].pc = "write", req'[r].found, req'[r].sid \in loggedOut'
        PROVE  FALSE
    <2>1. CASE req'[r] # req[r]
      <3>1. HGet(r) /\ req'[r].sid = req[r].sid /\ sessions[req[r].sid] # None
        BY <1>2, <2>1, WritesAfterHGet
      <3>2. loggedOut' = loggedOut
        BY <3>1 DEF HGet, history
      <3> QED BY <1>2, <3>1, <3>2 DEF LogoutOK
    <2>2. CASE req'[r] = req[r]
      <3>1. req[r].sid \notin loggedOut
        BY <1>2, <2>2 DEF LogoutOK
      <3>2. PICK q \in Requests : Delete(q) /\ req[q].sid = req[r].sid
        <4>1. loggedOut' = loggedOut \/ \E q \in Requests : Delete(q)
          BY DEF Next, Step, GetSession, Body, Register, Authenticate, Lock, HGet, Reply, Submit,
                 CreateSession, HSetEX, Expire, DropCookie, vars, history
        <4> QED BY <1>2, <2>2, <3>1, <4>1 DEF Delete
      <3>3. Active(r) /\ Active(q) /\ req[q].pc = "delete" /\ req[r].sid # None
        BY <1>2, <2>2, <3>2 DEF Active, Delete, Inv, StepsOK
      <3>4. req[q].client = req[r].client /\ req[q].client # None
        BY <3>2, <3>3, Served
      <3>5. q = r
        BY <3>4 DEF OneAtATime
      <3> QED BY <1>2, <2>2, <3>3, <3>5
    <2> QED BY <2>1, <2>2
  <1> QED BY <1>1, <1>2 DEF LogoutOK

-----------------------------------------------------------------------------
(* The theorems about clients that wait                                    *)

(* If no client sends a request before its last one is answered, SeqInv    *)
(* holds along every run, whichever calls fail and answers get lost.       *)
THEOREM SeqInvariant == ~Pipelined => (Spec => []SeqInv)
  <1> SUFFICES ASSUME ~Pipelined PROVE Spec => []SeqInv
    OBVIOUS
  <1>1. Init => SeqInv
    BY ConstantsAssumption
    DEF Init, SeqInv, OneAtATime, LogoutOK, LoginOK, LoginSticks, Idle
  <1>2. Inv /\ SeqInv /\ [Next]_vars => SeqInv'
    BY NextLogin, NextLogout DEF SeqInv
  <1> QED BY <1>1, <1>2, InvInvariant, PTL DEF Spec

(* POST /auth/logout ends the session of a client that waits for its       *)
(* answers: once the logout succeeded the session never exists again, also *)
(* when sessions are extended by other clients' requests at the same time. *)
THEOREM LogoutEnds == ~Pipelined => (Spec => []LogoutEndsSession)
  <1> SUFFICES ASSUME ~Pipelined PROVE Spec => []LogoutEndsSession
    OBVIOUS
  <1>1. SeqInv => LogoutEndsSession
    BY DEF SeqInv, LogoutOK, LogoutEndsSession
  <1> QED BY <1>1, SeqInvariant, PTL

(* A client that waits and was told that it is logged in as a user still   *)
(* has that user's session, or none, until it sends the next session,      *)
(* login or logout request: SetOrUpdate of an Act writes back the user it  *)
(* read.                                                                   *)
THEOREM LoginsStick == ~Pipelined => (Spec => []LoginSticks)
  <1> SUFFICES ASSUME ~Pipelined PROVE Spec => []LoginSticks
    OBVIOUS
  <1>1. SeqInv => LoginSticks
    BY DEF SeqInv, LoginOK
  <1> QED BY <1>1, SeqInvariant, PTL

(* If clients wait, an extension after an action moves only the TTL: the   *)
(* user it writes is the one the session has, or the session is gone and   *)
(* the id it writes is a new one.                                          *)
THEOREM ExtensionKeepsUser == ~Pipelined => (Spec => ExtendKeepsUser)
  <1> SUFFICES ASSUME ~Pipelined PROVE Spec => ExtendKeepsUser
    OBVIOUS
  <1>1. ASSUME Inv, SeqInv, [Next]_vars, NEW r \in Requests, NEW s \in SIDs,
               req[r].pc = "write", req[r].op = "Act", req'[r].pc = "reply", sessions[s] # None
        PROVE  sessions'[s] = sessions[s]
    <2>1. HSetEX(r)
      <3>1. \A q \in Requests : Step(q) => q = r
        BY <1>1
        DEF Step, GetSession, Body, Register, Authenticate, Authenticated, CreateSession, Lock,
            HGet, HSetEX, Delete, Reply, Goto, ExtendReturns, InternalError, Answer,
            AnswerLogin, AnswerSession, Inv, TypeOK
      <3>2. Step(r) => HSetEX(r)
        BY <1>1 DEF Step, GetSession, Body, Register, Authenticate, CreateSession, Lock, HGet,
                    Delete, Reply
      <3>3. ASSUME NEW q \in Requests, NEW c \in Clients, NEW op \in Ops, Submit(q, c, op)
            PROVE  req'[r] = req[r]
        BY <1>1, <3>3 DEF Submit, Active, Inv, TypeOK
      <3>4. ASSUME (\E t \in SIDs : Expire(t)) \/ (\E c \in Clients : DropCookie(c))
                   \/ UNCHANGED vars
            PROVE  req'[r] = req[r]
        BY <3>4 DEF Expire, DropCookie, vars
      <3> QED BY <1>1, <3>1, <3>2, <3>3, <3>4 DEF Next
    <2>2. /\ Active(r)
          /\ SetValue(r, ExtendTarget(req[r]), req[r].user) \/ NotWritten
      BY <1>1, <2>1 DEF HSetEX, ExtendUser, Active
    <2>3. SlotSeq(req[r], sessions, view[req[r].client])
      BY <2>2, Served, <1>1 DEF SeqInv, LoginOK
    <2>4. sessions[req[r].sid] \in {req[r].user, None}
      BY <1>1, <2>3 DEF SlotSeq, Extends
    <2>5. req[r].newSid # None /\ sessions[req[r].newSid] = None
      BY <1>1, <2>2, Served DEF Inv, StepsOK
    <2>6. s = ExtendTarget(req[r]) => req[r].user = sessions[s]
      BY <1>1, <2>4, <2>5 DEF ExtendTarget
    <2> QED BY <1>1, <2>2, <2>6 DEF SetValue, NotWritten, Inv, TypeOK
  <1>2. ASSUME Inv, SeqInv, [Next]_vars
        PROVE  [\A r \in Requests : \A s \in SIDs :
                  (req[r].pc = "write" /\ req[r].op = "Act" /\ req'[r].pc = "reply"
                    /\ sessions[s] # None) => sessions'[s] = sessions[s]]_vars
    BY <1>1, <1>2
  <1> QED BY <1>2, InvInvariant, SeqInvariant, PTL DEF Spec, ExtendKeepsUser
=============================================================================
