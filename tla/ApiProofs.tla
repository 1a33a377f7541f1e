------------------------------- MODULE ApiProofs -------------------------------
(***************************************************************************)
(* Proofs about Api, for any requests, accounts, events and attempts.      *)
(*                                                                         *)
(* The handlers are data, so the argument has two halves.  GoodScript says *)
(* of a handler in which order its steps come and what each may answer:    *)
(* that nothing is refused after something was stored, that the session is *)
(* looked at before a write in a user's name, and so on; it is checked     *)
(* handler by handler, step by step.  The invariant says what the steps a  *)
(* request has passed have established (Kept), and needs nothing of the    *)
(* handler but that.                                                       *)
(*                                                                         *)
(* The last part is about the listings: a page holds what the API          *)
(* description promises of it.                                             *)
(***************************************************************************)
EXTENDS Api, RouteProofs

Ops == {"Health", "Session", "Register", "Login", "Logout", "GetUsers", "GetUser",
        "CreateEvent", "GetEvents", "GetUserEvents", "GetEvent", "PatchEvent",
        "LikeEvent", "DislikeEvent", "CreateEventReview", "GetEventReviews",
        "UpdateEventReview", "GetRecommendations"}

WritingOps == {"Register", "CreateEvent", "PatchEvent", "LikeEvent", "DislikeEvent",
               "CreateEventReview", "UpdateEventReview"}

Kinds == {"check", "sid", "session", "call", "open", "extend", "delete", "opened",
          "answer"}

(* Steps that store something or prove who the client is.                  *)
Writes(x) == x.do = "call" /\ x.service \in Writing
Proves(x) == x.do = "call" /\ x.service \in {"Register", "Authenticate"}
Acts(x) == x.do \in {"open", "delete"} \/ Writes(x) \/ Proves(x)

Earlier(s, k, kind) == \E j \in 1 .. k - 1 : s[j].do = kind

Status(encode, reply) ==
  LET form == encode[reply.type]
  IN  IF form.status = 0 THEN reply.code ELSE form.status

Refusal(encode, reply) ==
  Status(encode, reply) \in {400, 401, 404, 409} /\ reply.cookie \in {"echo", "none"}

Success(s, encode, k) ==
  LET reply == s[k].reply IN
  /\ Status(encode, reply) \in {200, 201, 204} /\ encode[reply.type].cookie
  /\ reply.cookie \in {"echo", "opened", "drop", "header"}
  /\ reply.cookie = "opened" <=> Earlier(s, k, "open")
  /\ reply.cookie = "drop" <=> Earlier(s, k, "delete")

(* The order of the steps: after one that acts a handler only finishes;    *)
(* what is done in the name of a user comes after a look at the session or *)
(* a proof, and never after both.                                          *)
Ordered(s, k) ==
  LET x == s[k] IN
  /\ \A j \in 1 .. k - 1 : Acts(s[j]) =>
       x.do \in {"extend", "opened", "answer"} \/ (x.do = "open" /\ Proves(s[j]))
  /\ x.do = "extend" => Earlier(s, k, "sid") /\ Earlier(s, k, "session")
  /\ Writes(x) /\ x.service # "Register" => Earlier(s, k, "session")
  /\ Proves(x) \/ x.do = "delete" => ~Earlier(s, k, "session")
  /\ x.do = "open" /\ x.who = "account" => \E j \in 1 .. k - 1 : Proves(s[j])

(* What a step may answer.                                                 *)
Answers(s, encode, k) ==
  LET x == s[k] IN
  /\ x.do \in {"check", "sid", "session"} => Refusal(encode, x.reply)
  /\ x.do = "call" => \A why \in DOMAIN x.refusals : Refusal(encode, x.refusals[why])
  /\ x.do \in {"session", "call", "open", "delete"} => encode["Error"] = Headers(0)
  /\ x.do \in {"opened", "answer"} => Success(s, encode, k)

(* What only some operations do.                                           *)
Particular(o, s, encode, k) ==
  LET x == s[k] IN
  /\ x.do = "opened" => o = "Session"
  /\ x.do = "call" /\ x.service = "PatchEvent" => o = "PatchEvent"
  /\ x.do = "answer" /\ o \in WritingOps => \E j \in 1 .. k - 1 : Writes(s[j])
  /\ x.do = "answer" /\ o = "GetRecommendations" => Earlier(s, k, "session")
  /\ o = "Register" /\ x.do \in {"check", "sid", "session"} => Status(encode, x.reply) # 409
  /\ o = "Register" /\ x.do = "call" =>
       x.service = "Register" /\ "missing" \notin DOMAIN x.refusals

GoodStep(o, s, encode, k) ==
  /\ s[k].do \in Kinds
  /\ s[k].do = "answer" <=> k = Len(s)
  /\ Ordered(s, k) /\ Answers(s, encode, k) /\ Particular(o, s, encode, k)

GoodScript(o, s, encode) ==
  /\ Len(s) \in Nat \ {0} /\ DOMAIN s = 1 .. Len(s)
  /\ \A k \in DOMAIN s : GoodStep(o, s, encode, k)

GoodPlan(o, p) ==
  p.params \in BOOLEAN /\ p.body \in {0, 400, 415} /\ GoodScript(o, p.steps, p.encode)

-----------------------------------------------------------------------------
(* Handlers that are put together from parts                               *)

LEMMA Joined ==
  ASSUME NEW S, NEW s \in Seq(S), NEW t \in Seq(S), NEW u \in Seq(S),
         Len(u) = Len(s) + Len(t),
         \A i \in 1 .. Len(u) : u[i] = IF i <= Len(s) THEN s[i] ELSE t[i - Len(s)]
  PROVE  s \o t = u
  BY ConcatProperties, SeqEqual

LEMMA TwoThree ==
  ASSUME NEW a, NEW b, NEW c, NEW d, NEW e
  PROVE  <<a, b>> \o <<c, d, e>> = <<a, b, c, d, e>>
  <1> DEFINE S == {a, b, c, d, e}  s == <<a, b>>  t == <<c, d, e>>
             u == <<a, b, c, d, e>>
  <1>1. s \in Seq(S) /\ t \in Seq(S) /\ u \in Seq(S)
    OBVIOUS
  <1>2. Len(u) = Len(s) + Len(t)
    OBVIOUS
  <1>3. \A n \in 1 .. Len(u) : u[n] = IF n <= Len(s) THEN s[n] ELSE t[n - Len(s)]
    OBVIOUS
  <1> HIDE DEF S, s, t, u
  <1>4. s \o t = u
    BY <1>1, <1>2, <1>3, Joined
  <1> QED BY <1>4 DEF s, t, u

LEMMA OneTwo ==
  ASSUME NEW a, NEW b, NEW c
  PROVE  <<a>> \o <<b, c>> = <<a, b, c>>
  <1> DEFINE S == {a, b, c}  s == <<a>>  t == <<b, c>>
             u == <<a, b, c>>
  <1>1. s \in Seq(S) /\ t \in Seq(S) /\ u \in Seq(S)
    OBVIOUS
  <1>2. Len(u) = Len(s) + Len(t)
    OBVIOUS
  <1>3. \A n \in 1 .. Len(u) : u[n] = IF n <= Len(s) THEN s[n] ELSE t[n - Len(s)]
    OBVIOUS
  <1> HIDE DEF S, s, t, u
  <1>4. s \o t = u
    BY <1>1, <1>2, <1>3, Joined
  <1> QED BY <1>4 DEF s, t, u

LEMMA TwoTwo ==
  ASSUME NEW a, NEW b, NEW c, NEW d
  PROVE  <<a, b>> \o <<c, d>> = <<a, b, c, d>>
  <1> DEFINE S == {a, b, c, d}  s == <<a, b>>  t == <<c, d>>
             u == <<a, b, c, d>>
  <1>1. s \in Seq(S) /\ t \in Seq(S) /\ u \in Seq(S)
    OBVIOUS
  <1>2. Len(u) = Len(s) + Len(t)
    OBVIOUS
  <1>3. \A n \in 1 .. Len(u) : u[n] = IF n <= Len(s) THEN s[n] ELSE t[n - Len(s)]
    OBVIOUS
  <1> HIDE DEF S, s, t, u
  <1>4. s \o t = u
    BY <1>1, <1>2, <1>3, Joined
  <1> QED BY <1>4 DEF s, t, u

LEMMA ThreeTwo ==
  ASSUME NEW a, NEW b, NEW c, NEW d, NEW e
  PROVE  <<a, b, c>> \o <<d, e>> = <<a, b, c, d, e>>
  <1> DEFINE S == {a, b, c, d, e}  s == <<a, b, c>>  t == <<d, e>>
             u == <<a, b, c, d, e>>
  <1>1. s \in Seq(S) /\ t \in Seq(S) /\ u \in Seq(S)
    OBVIOUS
  <1>2. Len(u) = Len(s) + Len(t)
    OBVIOUS
  <1>3. \A n \in 1 .. Len(u) : u[n] = IF n <= Len(s) THEN s[n] ELSE t[n - Len(s)]
    OBVIOUS
  <1> HIDE DEF S, s, t, u
  <1>4. s \o t = u
    BY <1>1, <1>2, <1>3, Joined
  <1> QED BY <1>4 DEF s, t, u

LEMMA FourTwo ==
  ASSUME NEW a, NEW b, NEW c, NEW d, NEW e, NEW f
  PROVE  <<a, b, c, d>> \o <<e, f>> = <<a, b, c, d, e, f>>
  <1> DEFINE S == {a, b, c, d, e, f}  s == <<a, b, c, d>>  t == <<e, f>>
             u == <<a, b, c, d, e, f>>
  <1>1. s \in Seq(S) /\ t \in Seq(S) /\ u \in Seq(S)
    OBVIOUS
  <1>2. Len(u) = Len(s) + Len(t)
    OBVIOUS
  <1>3. \A n \in 1 .. Len(u) : u[n] = IF n <= Len(s) THEN s[n] ELSE t[n - Len(s)]
    OBVIOUS
  <1> HIDE DEF S, s, t, u
  <1>4. s \o t = u
    BY <1>1, <1>2, <1>3, Joined
  <1> QED BY <1>4 DEF s, t, u

LEMMA FiveTwo ==
  ASSUME NEW a, NEW b, NEW c, NEW d, NEW e, NEW f, NEW g
  PROVE  <<a, b, c, d, e>> \o <<f, g>> = <<a, b, c, d, e, f, g>>
  <1> DEFINE S == {a, b, c, d, e, f, g}  s == <<a, b, c, d, e>>  t == <<f, g>>
             u == <<a, b, c, d, e, f, g>>
  <1>1. s \in Seq(S) /\ t \in Seq(S) /\ u \in Seq(S)
    OBVIOUS
  <1>2. Len(u) = Len(s) + Len(t)
    OBVIOUS
  <1>3. \A n \in 1 .. Len(u) : u[n] = IF n <= Len(s) THEN s[n] ELSE t[n - Len(s)]
    OBVIOUS
  <1> HIDE DEF S, s, t, u
  <1>4. s \o t = u
    BY <1>1, <1>2, <1>3, Joined
  <1> QED BY <1>4 DEF s, t, u

LEMMA SixTwo ==
  ASSUME NEW a, NEW b, NEW c, NEW d, NEW e, NEW f, NEW g, NEW h
  PROVE  <<a, b, c, d, e, f>> \o <<g, h>> = <<a, b, c, d, e, f, g, h>>
  <1> DEFINE S == {a, b, c, d, e, f, g, h}  s == <<a, b, c, d, e, f>>  t == <<g, h>>
             u == <<a, b, c, d, e, f, g, h>>
  <1>1. s \in Seq(S) /\ t \in Seq(S) /\ u \in Seq(S)
    OBVIOUS
  <1>2. Len(u) = Len(s) + Len(t)
    OBVIOUS
  <1>3. \A n \in 1 .. Len(u) : u[n] = IF n <= Len(s) THEN s[n] ELSE t[n - Len(s)]
    OBVIOUS
  <1> HIDE DEF S, s, t, u
  <1>4. s \o t = u
    BY <1>1, <1>2, <1>3, Joined
  <1> QED BY <1>4 DEF s, t, u

LEMMA SevenTwo ==
  ASSUME NEW a, NEW b, NEW c, NEW d, NEW e, NEW f, NEW g, NEW h, NEW i
  PROVE  <<a, b, c, d, e, f, g>> \o <<h, i>> = <<a, b, c, d, e, f, g, h, i>>
  <1> DEFINE S == {a, b, c, d, e, f, g, h, i}  s == <<a, b, c, d, e, f, g>>  t == <<h, i>>
             u == <<a, b, c, d, e, f, g, h, i>>
  <1>1. s \in Seq(S) /\ t \in Seq(S) /\ u \in Seq(S)
    OBVIOUS
  <1>2. Len(u) = Len(s) + Len(t)
    OBVIOUS
  <1>3. \A n \in 1 .. Len(u) : u[n] = IF n <= Len(s) THEN s[n] ELSE t[n - Len(s)]
    OBVIOUS
  <1> HIDE DEF S, s, t, u
  <1>4. s \o t = u
    BY <1>1, <1>2, <1>3, Joined
  <1> QED BY <1>4 DEF s, t, u

LEMMA Parts ==
  LET limit == NotNegative("limit")      offset == NotNegative("offset")
      least == NotNegative("price_from") most == NotNegative("price_to")
      first == ParseDate("date_from")    last == ParseDate("date_to")
  IN  /\ \A c, a : Page \o <<c, a>> = <<limit, offset, c, a>>
      /\ \A c, a : Page \o PriceRange \o DateRange \o <<c, a>> =
                     <<limit, offset, least, most, first, last, c, a>>
      /\ \A g, c, a : <<g>> \o Page \o PriceRange \o DateRange \o <<c, a>> =
                     <<g, limit, offset, least, most, first, last, c, a>>
  <1> HIDE DEF NotNegative, ParseDate
  <1>1. ASSUME NEW c, NEW a
        PROVE  Page \o <<c, a>> = <<NotNegative("limit"), NotNegative("offset"), c, a>>
    BY TwoTwo DEF Page
  <1>2. Page \o PriceRange = <<NotNegative("limit"), NotNegative("offset"),
                               NotNegative("price_from"), NotNegative("price_to")>>
    BY TwoTwo DEF Page, PriceRange
  <1>3. Page \o PriceRange \o DateRange =
          <<NotNegative("limit"), NotNegative("offset"), NotNegative("price_from"),
            NotNegative("price_to"), ParseDate("date_from"), ParseDate("date_to")>>
    BY <1>2, FourTwo DEF DateRange
  <1>4. ASSUME NEW c, NEW a
        PROVE  Page \o PriceRange \o DateRange \o <<c, a>> =
          <<NotNegative("limit"), NotNegative("offset"), NotNegative("price_from"),
            NotNegative("price_to"), ParseDate("date_from"), ParseDate("date_to"), c, a>>
    BY <1>3, SixTwo
  <1>5. ASSUME NEW g, NEW c, NEW a
        PROVE  <<g>> \o Page \o PriceRange \o DateRange \o <<c, a>> =
          <<g, NotNegative("limit"), NotNegative("offset"), NotNegative("price_from"),
            NotNegative("price_to"), ParseDate("date_from"), ParseDate("date_to"), c, a>>
    <2> DEFINE one   == <<g, NotNegative("limit"), NotNegative("offset")>>
               two   == <<g, NotNegative("limit"), NotNegative("offset"),
                          NotNegative("price_from"), NotNegative("price_to")>>
               three == <<g, NotNegative("limit"), NotNegative("offset"),
                          NotNegative("price_from"), NotNegative("price_to"),
                          ParseDate("date_from"), ParseDate("date_to")>>
    <2>1. <<g>> \o Page = one
      BY OneTwo DEF Page
    <2>2. one \o PriceRange = two
      BY ThreeTwo DEF PriceRange
    <2>3. two \o DateRange = three
      BY FiveTwo DEF DateRange
    <2>4. three \o <<c, a>> =
            <<g, NotNegative("limit"), NotNegative("offset"), NotNegative("price_from"),
              NotNegative("price_to"), ParseDate("date_from"), ParseDate("date_to"), c, a>>
      BY SevenTwo
    <2> HIDE DEF one, two, three
    <2> QED BY <2>1, <2>2, <2>3, <2>4
  <1> QED BY <1>1, <1>4, <1>5

-----------------------------------------------------------------------------
(* The eighteen handlers, each with the encoder of its replies.            *)
USE DEF GoodStep, Ordered, Answers, Particular, Success, Refusal, Status, Earlier, Acts,
        Proves, Writes, Writing, Kinds, WritingOps, NeedSid, NeedUser, Call, Extend,
        Answer, Check, OpenSession, Delete, AnswerIfOpened, Reply, ErrorReply,
        Unauthorized, BareUnauthorized, Missing, NoRefusal, NotEmpty, NotNegative,
        ParseDate, ParseRFC3339, Headers, Bare

LEMMA HealthScript == GoodScript("Health", APIHealth, EncodeHealth)
  BY DEF GoodScript, APIHealth, EncodeHealth

LEMMA SessionScript == GoodScript("Session", APISession, EncodeSession)
  BY DEF GoodScript, APISession, EncodeSession

LEMMA LoginScript == GoodScript("Login", APILogin, EncodeLogin)
  <1> DEFINE s == APILogin
  <1>1. GoodStep("Login", s, EncodeLogin, 1)
    BY DEF APILogin, EncodeLogin
  <1>2. GoodStep("Login", s, EncodeLogin, 2)
    BY DEF APILogin, EncodeLogin
  <1>3. GoodStep("Login", s, EncodeLogin, 3)
    BY DEF APILogin, EncodeLogin
  <1>4. GoodStep("Login", s, EncodeLogin, 4)
    BY DEF APILogin, EncodeLogin
  <1>5. GoodStep("Login", s, EncodeLogin, 5)
    BY DEF APILogin, EncodeLogin
  <1>6. Len(s) = 5 /\ DOMAIN s = 1 .. 5
    BY DEF APILogin
  <1> HIDE DEF s, GoodStep
  <1>7. GoodScript("Login", s, EncodeLogin)
    BY <1>1, <1>2, <1>3, <1>4, <1>5, <1>6 DEF GoodScript
  <1> QED BY <1>7 DEF s

LEMMA RegisterScript == GoodScript("Register", APIRegister, EncodeRegister)
  <1> DEFINE s == APIRegister
  <1>1. GoodStep("Register", s, EncodeRegister, 1)
    BY DEF APIRegister, EncodeRegister
  <1>2. GoodStep("Register", s, EncodeRegister, 2)
    BY DEF APIRegister, EncodeRegister
  <1>3. GoodStep("Register", s, EncodeRegister, 3)
    BY DEF APIRegister, EncodeRegister
  <1>4. GoodStep("Register", s, EncodeRegister, 4)
    BY DEF APIRegister, EncodeRegister
  <1>5. GoodStep("Register", s, EncodeRegister, 5)
    BY DEF APIRegister, EncodeRegister
  <1>6. GoodStep("Register", s, EncodeRegister, 6)
    BY DEF APIRegister, EncodeRegister
  <1>7. Len(s) = 6 /\ DOMAIN s = 1 .. 6
    BY DEF APIRegister
  <1> HIDE DEF s, GoodStep
  <1>8. GoodScript("Register", s, EncodeRegister)
    BY <1>1, <1>2, <1>3, <1>4, <1>5, <1>6, <1>7 DEF GoodScript
  <1> QED BY <1>8 DEF s

LEMMA LogoutScript == GoodScript("Logout", APILogout, EncodeLogout)
  BY DEF GoodScript, APILogout, EncodeLogout

LEMMA GetUsersScript == GoodScript("GetUsers", APIGetUsers, EncodeGetUsers)
  <1> DEFINE s == <<NotNegative("limit"), NotNegative("offset"),
                    Call("GetUsers", NoRefusal), Answer("Data", "echo")>>
  <1> HIDE DEF NeedSid, NeedUser, Call, Extend, Answer, NotNegative, ParseDate
  <1>0. APIGetUsers = s
    BY Parts DEF APIGetUsers
  <1> USE DEF NeedSid, NeedUser, Call, Extend, Answer, NotNegative, ParseDate
  <1>1. GoodStep("GetUsers", s, EncodeGetUsers, 1)
    BY DEF EncodeGetUsers
  <1>2. GoodStep("GetUsers", s, EncodeGetUsers, 2)
    BY DEF EncodeGetUsers
  <1>3. GoodStep("GetUsers", s, EncodeGetUsers, 3)
    BY DEF EncodeGetUsers
  <1>4. GoodStep("GetUsers", s, EncodeGetUsers, 4)
    BY DEF EncodeGetUsers
  <1>5. Len(s) = 4 /\ DOMAIN s = 1 .. 4
    OBVIOUS
  <1> HIDE DEF s, GoodStep
  <1>6. GoodScript("GetUsers", s, EncodeGetUsers)
    BY <1>1, <1>2, <1>3, <1>4, <1>5 DEF GoodScript
  <1> QED BY <1>0, <1>6, Zenon

LEMMA GetUserScript == GoodScript("GetUser", APIGetUser, EncodeGetUser)
  BY DEF GoodScript, APIGetUser, EncodeGetUser

LEMMA CreateEventScript == GoodScript("CreateEvent", APICreateEvent, EncodeCreateEvent)
  <1> DEFINE s == APICreateEvent
  <1>1. GoodStep("CreateEvent", s, EncodeCreateEvent, 1)
    BY DEF APICreateEvent, EncodeCreateEvent
  <1>2. GoodStep("CreateEvent", s, EncodeCreateEvent, 2)
    BY DEF APICreateEvent, EncodeCreateEvent
  <1>3. GoodStep("CreateEvent", s, EncodeCreateEvent, 3)
    BY DEF APICreateEvent, EncodeCreateEvent
  <1>4. GoodStep("CreateEvent", s, EncodeCreateEvent, 4)
    BY DEF APICreateEvent, EncodeCreateEvent
  <1>5. GoodStep("CreateEvent", s, EncodeCreateEvent, 5)
    BY DEF APICreateEvent, EncodeCreateEvent
  <1>6. GoodStep("CreateEvent", s, EncodeCreateEvent, 6)
    BY DEF APICreateEvent, EncodeCreateEvent
  <1>7. GoodStep("CreateEvent", s, EncodeCreateEvent, 7)
    BY DEF APICreateEvent, EncodeCreateEvent
  <1>8. GoodStep("CreateEvent", s, EncodeCreateEvent, 8)
    BY DEF APICreateEvent, EncodeCreateEvent
  <1>9. GoodStep("CreateEvent", s, EncodeCreateEvent, 9)
    BY DEF APICreateEvent, EncodeCreateEvent
  <1>10. Len(s) = 9 /\ DOMAIN s = 1 .. 9
    BY DEF APICreateEvent
  <1> HIDE DEF s, GoodStep
  <1>11. GoodScript("CreateEvent", s, EncodeCreateEvent)
    BY <1>1, <1>2, <1>3, <1>4, <1>5, <1>6, <1>7, <1>8, <1>9, <1>10 DEF GoodScript
  <1> QED BY <1>11 DEF s

LEMMA GetEventsScript == GoodScript("GetEvents", APIGetEvents, EncodeGetEvents)
  <1> DEFINE s == <<NotNegative("limit"), NotNegative("offset"),
                    NotNegative("price_from"), NotNegative("price_to"),
                    ParseDate("date_from"), ParseDate("date_to"),
                    Call("GetEvents", NoRefusal), Answer("Data", "echo")>>
  <1> HIDE DEF NeedSid, NeedUser, Call, Extend, Answer, NotNegative, ParseDate
  <1>0. APIGetEvents = s
    BY Parts DEF APIGetEvents
  <1> USE DEF NeedSid, NeedUser, Call, Extend, Answer, NotNegative, ParseDate
  <1>1. GoodStep("GetEvents", s, EncodeGetEvents, 1)
    BY DEF EncodeGetEvents
  <1>2. GoodStep("GetEvents", s, EncodeGetEvents, 2)
    BY DEF EncodeGetEvents
  <1>3. GoodStep("GetEvents", s, EncodeGetEvents, 3)
    BY DEF EncodeGetEvents
  <1>4. GoodStep("GetEvents", s, EncodeGetEvents, 4)
    BY DEF EncodeGetEvents
  <1>5. GoodStep("GetEvents", s, EncodeGetEvents, 5)
    BY DEF EncodeGetEvents
  <1>6. GoodStep("GetEvents", s, EncodeGetEvents, 6)
    BY DEF EncodeGetEvents
  <1>7. GoodStep("GetEvents", s, EncodeGetEvents, 7)
    BY DEF EncodeGetEvents
  <1>8. GoodStep("GetEvents", s, EncodeGetEvents, 8)
    BY DEF EncodeGetEvents
  <1>9. Len(s) = 8 /\ DOMAIN s = 1 .. 8
    OBVIOUS
  <1> HIDE DEF s, GoodStep
  <1>10. GoodScript("GetEvents", s, EncodeGetEvents)
    BY <1>1, <1>2, <1>3, <1>4, <1>5, <1>6, <1>7, <1>8, <1>9 DEF GoodScript
  <1> QED BY <1>0, <1>10, Zenon

LEMMA GetUserEventsScript == GoodScript("GetUserEvents", APIGetUserEvents, EncodeGetUserEvents)
  <1> DEFINE s == <<Call("GetUser", Missing), NotNegative("limit"), NotNegative("offset"),
                    NotNegative("price_from"), NotNegative("price_to"),
                    ParseDate("date_from"), ParseDate("date_to"),
                    Call("GetUserEvents", NoRefusal), Answer("Data", "echo")>>
  <1> HIDE DEF NeedSid, NeedUser, Call, Extend, Answer, NotNegative, ParseDate
  <1>0. APIGetUserEvents = s
    BY Parts DEF APIGetUserEvents
  <1> USE DEF NeedSid, NeedUser, Call, Extend, Answer, NotNegative, ParseDate
  <1>1. GoodStep("GetUserEvents", s, EncodeGetUserEvents, 1)
    BY DEF EncodeGetUserEvents
  <1>2. GoodStep("GetUserEvents", s, EncodeGetUserEvents, 2)
    BY DEF EncodeGetUserEvents
  <1>3. GoodStep("GetUserEvents", s, EncodeGetUserEvents, 3)
    BY DEF EncodeGetUserEvents
  <1>4. GoodStep("GetUserEvents", s, EncodeGetUserEvents, 4)
    BY DEF EncodeGetUserEvents
  <1>5. GoodStep("GetUserEvents", s, EncodeGetUserEvents, 5)
    BY DEF EncodeGetUserEvents
  <1>6. GoodStep("GetUserEvents", s, EncodeGetUserEvents, 6)
    BY DEF EncodeGetUserEvents
  <1>7. GoodStep("GetUserEvents", s, EncodeGetUserEvents, 7)
    BY DEF EncodeGetUserEvents
  <1>8. GoodStep("GetUserEvents", s, EncodeGetUserEvents, 8)
    BY DEF EncodeGetUserEvents
  <1>9. GoodStep("GetUserEvents", s, EncodeGetUserEvents, 9)
    BY DEF EncodeGetUserEvents
  <1>10. Len(s) = 9 /\ DOMAIN s = 1 .. 9
    OBVIOUS
  <1> HIDE DEF s, GoodStep
  <1>11. GoodScript("GetUserEvents", s, EncodeGetUserEvents)
    BY <1>1, <1>2, <1>3, <1>4, <1>5, <1>6, <1>7, <1>8, <1>9, <1>10 DEF GoodScript
  <1> QED BY <1>0, <1>11, Zenon

LEMMA GetEventScript == GoodScript("GetEvent", APIGetEvent, EncodeGetEvent)
  BY DEF GoodScript, APIGetEvent, EncodeGetEvent

LEMMA PatchEventScript == GoodScript("PatchEvent", APIPatchEvent, EncodePatchEvent)
  <1> DEFINE s == APIPatchEvent
  <1>1. GoodStep("PatchEvent", s, EncodePatchEvent, 1)
    BY DEF APIPatchEvent, EncodePatchEvent
  <1>2. GoodStep("PatchEvent", s, EncodePatchEvent, 2)
    BY DEF APIPatchEvent, EncodePatchEvent
  <1>3. GoodStep("PatchEvent", s, EncodePatchEvent, 3)
    BY DEF APIPatchEvent, EncodePatchEvent
  <1>4. GoodStep("PatchEvent", s, EncodePatchEvent, 4)
    BY DEF APIPatchEvent, EncodePatchEvent
  <1>5. GoodStep("PatchEvent", s, EncodePatchEvent, 5)
    BY DEF APIPatchEvent, EncodePatchEvent
  <1>6. GoodStep("PatchEvent", s, EncodePatchEvent, 6)
    BY DEF APIPatchEvent, EncodePatchEvent
  <1>7. GoodStep("PatchEvent", s, EncodePatchEvent, 7)
    BY DEF APIPatchEvent, EncodePatchEvent
  <1>8. Len(s) = 7 /\ DOMAIN s = 1 .. 7
    BY DEF APIPatchEvent
  <1> HIDE DEF s, GoodStep
  <1>9. GoodScript("PatchEvent", s, EncodePatchEvent)
    BY <1>1, <1>2, <1>3, <1>4, <1>5, <1>6, <1>7, <1>8 DEF GoodScript
  <1> QED BY <1>9 DEF s

LEMMA LikeEventScript == GoodScript("LikeEvent", APILikeEvent, EncodeLikeEvent)
  <1> DEFINE s == <<NeedSid(BareUnauthorized), NeedUser(BareUnauthorized),
                    Call("LikeEvent", Missing), Extend, Answer("NoContent", "echo")>>
  <1> HIDE DEF NeedSid, NeedUser, Call, Extend, Answer, NotNegative, ParseDate
  <1>0. APILikeEvent = s
    BY TwoThree DEF APILikeEvent, ReactionSession
  <1> USE DEF NeedSid, NeedUser, Call, Extend, Answer, NotNegative, ParseDate
  <1>1. GoodStep("LikeEvent", s, EncodeLikeEvent, 1)
    BY DEF EncodeLikeEvent
  <1>2. GoodStep("LikeEvent", s, EncodeLikeEvent, 2)
    BY DEF EncodeLikeEvent
  <1>3. GoodStep("LikeEvent", s, EncodeLikeEvent, 3)
    BY DEF EncodeLikeEvent
  <1>4. GoodStep("LikeEvent", s, EncodeLikeEvent, 4)
    BY DEF EncodeLikeEvent
  <1>5. GoodStep("LikeEvent", s, EncodeLikeEvent, 5)
    BY DEF EncodeLikeEvent
  <1>6. Len(s) = 5 /\ DOMAIN s = 1 .. 5
    OBVIOUS
  <1> HIDE DEF s, GoodStep
  <1>7. GoodScript("LikeEvent", s, EncodeLikeEvent)
    BY <1>1, <1>2, <1>3, <1>4, <1>5, <1>6 DEF GoodScript
  <1> QED BY <1>0, <1>7, Zenon

LEMMA DislikeEventScript == GoodScript("DislikeEvent", APIDislikeEvent, EncodeDislikeEvent)
  <1> DEFINE s == <<NeedSid(BareUnauthorized), NeedUser(BareUnauthorized),
                    Call("DislikeEvent", Missing), Extend, Answer("NoContent", "echo")>>
  <1> HIDE DEF NeedSid, NeedUser, Call, Extend, Answer, NotNegative, ParseDate
  <1>0. APIDislikeEvent = s
    BY TwoThree DEF APIDislikeEvent, ReactionSession
  <1> USE DEF NeedSid, NeedUser, Call, Extend, Answer, NotNegative, ParseDate
  <1>1. GoodStep("DislikeEvent", s, EncodeDislikeEvent, 1)
    BY DEF EncodeDislikeEvent
  <1>2. GoodStep("DislikeEvent", s, EncodeDislikeEvent, 2)
    BY DEF EncodeDislikeEvent
  <1>3. GoodStep("DislikeEvent", s, EncodeDislikeEvent, 3)
    BY DEF EncodeDislikeEvent
  <1>4. GoodStep("DislikeEvent", s, EncodeDislikeEvent, 4)
    BY DEF EncodeDislikeEvent
  <1>5. GoodStep("DislikeEvent", s, EncodeDislikeEvent, 5)
    BY DEF EncodeDislikeEvent
  <1>6. Len(s) = 5 /\ DOMAIN s = 1 .. 5
    OBVIOUS
  <1> HIDE DEF s, GoodStep
  <1>7. GoodScript("DislikeEvent", s, EncodeDislikeEvent)
    BY <1>1, <1>2, <1>3, <1>4, <1>5, <1>6 DEF GoodScript
  <1> QED BY <1>0, <1>7, Zenon

LEMMA CreateEventReviewScript == GoodScript("CreateEventReview", APICreateEventReview, EncodeCreateEventReview)
  <1> DEFINE s == APICreateEventReview
  <1>1. GoodStep("CreateEventReview", s, EncodeCreateEventReview, 1)
    BY DEF APICreateEventReview, EncodeCreateEventReview
  <1>2. GoodStep("CreateEventReview", s, EncodeCreateEventReview, 2)
    BY DEF APICreateEventReview, EncodeCreateEventReview
  <1>3. GoodStep("CreateEventReview", s, EncodeCreateEventReview, 3)
    BY DEF APICreateEventReview, EncodeCreateEventReview
  <1>4. GoodStep("CreateEventReview", s, EncodeCreateEventReview, 4)
    BY DEF APICreateEventReview, EncodeCreateEventReview
  <1>5. GoodStep("CreateEventReview", s, EncodeCreateEventReview, 5)
    BY DEF APICreateEventReview, EncodeCreateEventReview
  <1>6. GoodStep("CreateEventReview", s, EncodeCreateEventReview, 6)
    BY DEF APICreateEventReview, EncodeCreateEventReview
  <1>7. GoodStep("CreateEventReview", s, EncodeCreateEventReview, 7)
    BY DEF APICreateEventReview, EncodeCreateEventReview
  <1>8. Len(s) = 7 /\ DOMAIN s = 1 .. 7
    BY DEF APICreateEventReview
  <1> HIDE DEF s, GoodStep
  <1>9. GoodScript("CreateEventReview", s, EncodeCreateEventReview)
    BY <1>1, <1>2, <1>3, <1>4, <1>5, <1>6, <1>7, <1>8 DEF GoodScript
  <1> QED BY <1>9 DEF s

LEMMA GetEventReviewsScript == GoodScript("GetEventReviews", APIGetEventReviews, EncodeGetEventReviews)
  <1> DEFINE s == <<NotNegative("limit"), NotNegative("offset"),
                    Call("GetReviews", Missing), Answer("Data", "echo")>>
  <1> HIDE DEF NeedSid, NeedUser, Call, Extend, Answer, NotNegative, ParseDate
  <1>0. APIGetEventReviews = s
    BY Parts DEF APIGetEventReviews
  <1> USE DEF NeedSid, NeedUser, Call, Extend, Answer, NotNegative, ParseDate
  <1>1. GoodStep("GetEventReviews", s, EncodeGetEventReviews, 1)
    BY DEF EncodeGetEventReviews
  <1>2. GoodStep("GetEventReviews", s, EncodeGetEventReviews, 2)
    BY DEF EncodeGetEventReviews
  <1>3. GoodStep("GetEventReviews", s, EncodeGetEventReviews, 3)
    BY DEF EncodeGetEventReviews
  <1>4. GoodStep("GetEventReviews", s, EncodeGetEventReviews, 4)
    BY DEF EncodeGetEventReviews
  <1>5. Len(s) = 4 /\ DOMAIN s = 1 .. 4
    OBVIOUS
  <1> HIDE DEF s, GoodStep
  <1>6. GoodScript("GetEventReviews", s, EncodeGetEventReviews)
    BY <1>1, <1>2, <1>3, <1>4, <1>5 DEF GoodScript
  <1> QED BY <1>0, <1>6, Zenon

LEMMA UpdateEventReviewScript == GoodScript("UpdateEventReview", APIUpdateEventReview, EncodeUpdateEventReview)
  <1> DEFINE s == APIUpdateEventReview
  <1>1. GoodStep("UpdateEventReview", s, EncodeUpdateEventReview, 1)
    BY DEF APIUpdateEventReview, EncodeUpdateEventReview
  <1>2. GoodStep("UpdateEventReview", s, EncodeUpdateEventReview, 2)
    BY DEF APIUpdateEventReview, EncodeUpdateEventReview
  <1>3. GoodStep("UpdateEventReview", s, EncodeUpdateEventReview, 3)
    BY DEF APIUpdateEventReview, EncodeUpdateEventReview
  <1>4. GoodStep("UpdateEventReview", s, EncodeUpdateEventReview, 4)
    BY DEF APIUpdateEventReview, EncodeUpdateEventReview
  <1>5. GoodStep("UpdateEventReview", s, EncodeUpdateEventReview, 5)
    BY DEF APIUpdateEventReview, EncodeUpdateEventReview
  <1>6. Len(s) = 5 /\ DOMAIN s = 1 .. 5
    BY DEF APIUpdateEventReview
  <1> HIDE DEF s, GoodStep
  <1>7. GoodScript("UpdateEventReview", s, EncodeUpdateEventReview)
    BY <1>1, <1>2, <1>3, <1>4, <1>5, <1>6 DEF GoodScript
  <1> QED BY <1>7 DEF s

LEMMA GetRecommendationsScript == GoodScript("GetRecommendations", APIGetRecommendations, EncodeGetRecommendations)
  <1> DEFINE s == APIGetRecommendations
  <1>1. GoodStep("GetRecommendations", s, EncodeGetRecommendations, 1)
    BY DEF APIGetRecommendations, EncodeGetRecommendations
  <1>2. GoodStep("GetRecommendations", s, EncodeGetRecommendations, 2)
    BY DEF APIGetRecommendations, EncodeGetRecommendations
  <1>3. GoodStep("GetRecommendations", s, EncodeGetRecommendations, 3)
    BY DEF APIGetRecommendations, EncodeGetRecommendations
  <1>4. GoodStep("GetRecommendations", s, EncodeGetRecommendations, 4)
    BY DEF APIGetRecommendations, EncodeGetRecommendations
  <1>5. Len(s) = 4 /\ DOMAIN s = 1 .. 4
    BY DEF APIGetRecommendations
  <1> HIDE DEF s, GoodStep
  <1>6. GoodScript("GetRecommendations", s, EncodeGetRecommendations)
    BY <1>1, <1>2, <1>3, <1>4, <1>5 DEF GoodScript
  <1> QED BY <1>6 DEF s

HIDE DEF GoodStep, Ordered, Answers, Particular, Success, Refusal, Status, Earlier, Acts,
         Proves, Writes, Writing, Kinds, WritingOps, NeedSid, NeedUser, Call, Extend,
         Answer, Check, OpenSession, Delete, AnswerIfOpened, Reply, ErrorReply,
         Unauthorized, BareUnauthorized, Missing, NoRefusal, NotEmpty, NotNegative,
         ParseDate, ParseRFC3339, Headers, Bare

(* An operation runs its own handler, whatever the request gives it.       *)
LEMMA Plans ==
  ASSUME NEW o \in Ops, NEW body \in Bodies, NEW given
  PROVE  GoodPlan(o, Handle(o, body, given))
  <1>1. ASSUME NEW fields PROVE BodyStatus(fields, body, given) \in {0, 400, 415}
    BY DEF BodyStatus, Bodies
  <1>2. ASSUME NEW values PROVE AllDecode(values, given) \in BOOLEAN
    BY DEF AllDecode
  <1>3. GoodPlan("Health", HandleHealth(body, given))
    BY <1>2, HealthScript DEF HandleHealth, Operation, Bodyless, GoodPlan
  <1>4. GoodPlan("Session", HandleSession(body, given))
    BY <1>2, SessionScript DEF HandleSession, Operation, Bodyless, GoodPlan
  <1>5. GoodPlan("Login", HandleLogin(body, given))
    BY <1>1, <1>2, LoginScript DEF HandleLogin, Operation, DecodeLogin, GoodPlan
  <1>6. GoodPlan("Register", HandleRegister(body, given))
    BY <1>1, <1>2, RegisterScript DEF HandleRegister, Operation, DecodeRegister, GoodPlan
  <1>7. GoodPlan("Logout", HandleLogout(body, given))
    BY <1>2, LogoutScript DEF HandleLogout, Operation, Bodyless, GoodPlan
  <1>8. GoodPlan("GetUsers", HandleGetUsers(body, given))
    BY <1>2, GetUsersScript DEF HandleGetUsers, Operation, Bodyless, GoodPlan
  <1>9. GoodPlan("GetUser", HandleGetUser(body, given))
    BY <1>2, GetUserScript DEF HandleGetUser, Operation, Bodyless, GoodPlan
  <1>10. GoodPlan("CreateEvent", HandleCreateEvent(body, given))
    BY <1>1, <1>2, CreateEventScript DEF HandleCreateEvent, Operation, DecodeCreateEvent, GoodPlan
  <1>11. GoodPlan("GetEvents", HandleGetEvents(body, given))
    BY <1>2, GetEventsScript DEF HandleGetEvents, Operation, Bodyless, GoodPlan
  <1>12. GoodPlan("GetUserEvents", HandleGetUserEvents(body, given))
    BY <1>2, GetUserEventsScript DEF HandleGetUserEvents, Operation, Bodyless, GoodPlan
  <1>13. GoodPlan("GetEvent", HandleGetEvent(body, given))
    BY <1>2, GetEventScript DEF HandleGetEvent, Operation, Bodyless, GoodPlan
  <1>14. GoodPlan("PatchEvent", HandlePatchEvent(body, given))
    BY <1>1, <1>2, PatchEventScript DEF HandlePatchEvent, Operation, DecodePatchEvent, GoodPlan
  <1>15. GoodPlan("LikeEvent", HandleLikeEvent(body, given))
    BY <1>2, LikeEventScript DEF HandleLikeEvent, Operation, Bodyless, GoodPlan
  <1>16. GoodPlan("DislikeEvent", HandleDislikeEvent(body, given))
    BY <1>2, DislikeEventScript DEF HandleDislikeEvent, Operation, Bodyless, GoodPlan
  <1>17. GoodPlan("CreateEventReview", HandleCreateEventReview(body, given))
    BY <1>1, <1>2, CreateEventReviewScript DEF HandleCreateEventReview, Operation, DecodeCreateEventReview, GoodPlan
  <1>18. GoodPlan("GetEventReviews", HandleGetEventReviews(body, given))
    BY <1>2, GetEventReviewsScript DEF HandleGetEventReviews, Operation, Bodyless, GoodPlan
  <1>19. GoodPlan("UpdateEventReview", HandleUpdateEventReview(body, given))
    BY <1>1, <1>2, UpdateEventReviewScript DEF HandleUpdateEventReview, Operation, DecodeUpdateEventReview, GoodPlan
  <1>20. GoodPlan("GetRecommendations", HandleGetRecommendations(body, given))
    BY <1>2, GetRecommendationsScript DEF HandleGetRecommendations, Operation, Bodyless, GoodPlan
  <1> QED
    BY <1>3, <1>4, <1>5, <1>6, <1>7, <1>8, <1>9, <1>10, <1>11, <1>12, <1>13, <1>14, <1>15, <1>16, <1>17, <1>18, <1>19, <1>20
    DEF Ops, Handle

-----------------------------------------------------------------------------
(* Every node of the router's tree names operations of the API, and has no *)
(* more arguments than these have parameters in the path.                  *)
LEMMA Routed ==
  ASSUME NEW path, NEW method \in DOMAIN Route(path).ops
  PROVE  /\ Route(path).ops[method] \in Ops
         /\ DOMAIN Route(path).args \subseteq DOMAIN PathNames(Route(path).ops[method])
  <1> DEFINE Known(node) ==
               \A m \in DOMAIN node.ops :
                 /\ node.ops[m] \in Ops
                 /\ DOMAIN node.args \subseteq DOMAIN PathNames(node.ops[m])
  <1> USE DEF PathNames
  <1>1. Known(NoNode)
    BY DEF NoNode, Node
  <1>2. ASSUME NEW p PROVE Known(LogTree(p))
    BY <1>1 DEF LogTree, Node, Ops
  <1>3. ASSUME NEW p, NEW id PROVE Known(ReviewTree(id, p))
    BY <1>1 DEF ReviewTree, Node, Ops
  <1>4. ASSUME NEW p, NEW id PROVE Known(ReviewsTree(id, p))
    <2> HIDE DEF Known
    <2>1. Known(Node([GET |-> "GetEventReviews", POST |-> "CreateEventReview"], <<id>>))
      BY DEF Known, Node, Ops
    <2> QED BY <1>1, <1>3, <2>1 DEF ReviewsTree
  <1>5. ASSUME NEW p, NEW id PROVE Known(EventTree(id, p))
    <2> HIDE DEF Known
    <2>1. /\ Known(Node([POST |-> "DislikeEvent"], <<id>>))
          /\ Known(Node([POST |-> "LikeEvent"], <<id>>))
      BY DEF Known, Node, Ops
    <2> QED BY <1>1, <1>4, <2>1 DEF EventTree
  <1>6. ASSUME NEW p PROVE Known(EventsTree(p))
    <2> HIDE DEF Known
    <2>1. Known(Node([GET |-> "GetEvents", POST |-> "CreateEvent"], <<>>))
      BY DEF Known, Node, Ops
    <2>2. \A id : Known(Node([GET |-> "GetEvent", PATCH |-> "PatchEvent"], <<id>>))
      BY DEF Known, Node, Ops
    <2> QED BY <1>1, <1>5, <2>1, <2>2 DEF EventsTree
  <1>7. ASSUME NEW p PROVE Known(UsersTree(p))
    <2> HIDE DEF Known
    <2>1. Known(Node([GET |-> "GetUsers", POST |-> "Register"], <<>>))
      BY DEF Known, Node, Ops
    <2>2. \A id : /\ Known(Node([GET |-> "GetUser"], <<id>>))
                  /\ Known(Node([GET |-> "GetUserEvents"], <<id>>))
      BY DEF Known, Node, Ops
    <2> QED BY <1>1, <2>1, <2>2 DEF UsersTree
  <1>8. Known(Route(path))
    <2> HIDE DEF Known
    <2>1. /\ Known(Node([GET |-> "Health"], <<>>))
          /\ Known(Node([GET |-> "GetRecommendations"], <<>>))
          /\ Known(Node([POST |-> "Session"], <<>>))
      BY DEF Known, Node, Ops
    <2> QED BY <1>1, <1>2, <1>6, <1>7, <2>1 DEF Route
  <1> QED BY <1>8

-----------------------------------------------------------------------------
(* The invariant                                                           *)

Passed == {Plan.steps[k] : k \in 1 .. at - 1}
Did(kind) == \E x \in Passed : x.do = kind
Wrote(service) == \E w \in writes : w[1] = service

(* What a step a request has passed leaves true.                           *)
Kept(x) ==
  /\ x.do = "sid" => HasSid
  /\ x.do = "session" => user \in holders \cap Users /\ (session = "gone" => ended)
  /\ x.do = "delete" => <<"Delete", None>> \in writes
  /\ Proves(x) => user = Me
  /\ Writes(x) => writes # {} /\ \A w, v \in writes : w = v

(* Where a request is, and what it has not yet done there.                 *)
StageInv ==
  /\ request \in Requests
  /\ pc \in {"docs", "route"} => op = "none"
  /\ pc \in {"decode", "run"} => op \in Ops
  /\ op \in Ops \cup {"none"}
  /\ op = "none" \/ pc = "decode" => writes = {} /\ ~opened
  /\ pc \in {"docs", "route", "decode"} => at = 1
  /\ pc # "done" => response = NoAnswer
  /\ pc = "done" /\ response.status = 500 => response.cookie # "new"

(* What a handler that runs has done, it did in the steps it passed.       *)
RunInv ==
  pc = "run" =>
    /\ \A x \in Passed : Kept(x)
    /\ writes # {} => \E x \in Passed : Acts(x) /\ x.do # "open"
    /\ <<"Delete", None>> \in writes => Did("delete")
    /\ opened => Did("open")

(* What is stored was stored by this attempt or by one that was lost; the  *)
(* name is whose it was first.                                             *)
StoredInv ==
  /\ created = 0 \/ "CreateEvent" \in lost \/ (created = 1 /\ Wrote("CreateEvent"))
  /\ created + 1 <= attempt + (IF Wrote("CreateEvent") THEN 1 ELSE 0)
  /\ taken <=> known \/ rival \/ Registered
  /\ Registered => ~known /\ ~rival

HolderInv == session \in Users => session \in holders

Inv ==
  /\ TypeOK /\ StageInv /\ RunInv /\ StoredInv /\ HolderInv
  /\ ActsForHolder /\ CookieFollowsSession /\ AnswerTellsTheWrite /\ RetryHasCause

(* TypeOK of what the services and the session change.                     *)
StoreOK ==
  /\ user \in Users \cup {None}
  /\ session \in {"gone", "nobody"} \cup Users
  /\ opened \in BOOLEAN /\ orphan \in BOOLEAN /\ taken \in BOOLEAN
  /\ DOMAIN events = DOMAIN Events
  /\ created \in Nat
  /\ page \subseteq DOMAIN Events \cup Users

(* The invariant but for where the request is and what was answered.       *)
DataInv ==
  /\ StoreOK /\ StoredInv /\ HolderInv
  /\ \A w \in writes : w[1] \notin {"Register", "Delete"} => w[2] \in holders \cap Users
-----------------------------------------------------------------------------
(* Steps of a handler                                                      *)

(* The step a handler is at, seen from the steps it has passed.            *)
LEMMA AtStep ==
  ASSUME Inv, pc = "run"
  PROVE  /\ op \in Ops /\ GoodScript(op, Plan.steps, Plan.encode)
         /\ at \in 1 .. Len(Plan.steps) /\ Len(Plan.steps) \in Nat
         /\ DOMAIN Plan.steps = 1 .. Len(Plan.steps)
         /\ Step = Plan.steps[at] /\ Step.do \in Kinds
         /\ Step.do = "answer" <=> at = Len(Plan.steps)
         /\ Answers(Plan.steps, Plan.encode, at)
         /\ Particular(op, Plan.steps, Plan.encode, at)
         /\ \A kind : Earlier(Plan.steps, at, kind) <=> Did(kind)
  <1>1. op \in Ops /\ request.body \in Bodies /\ at \in DOMAIN Plan.steps
    BY ConstantsAssumption DEF Inv, StageInv, TypeOK
  <1>2. GoodPlan(op, Plan)
    BY <1>1, Plans DEF Plan
  <1>3. GoodScript(op, Plan.steps, Plan.encode)
    BY <1>2 DEF GoodPlan
  <1>4. \A kind : Earlier(Plan.steps, at, kind) <=> Did(kind)
    BY DEF Earlier, Did, Passed
  <1> QED BY <1>1, <1>3, <1>4 DEF GoodScript, GoodStep, Step

LEMMA InOrder ==
  ASSUME Inv, pc = "run"
  PROVE  /\ \A x \in Passed : Acts(x) =>
              \/ Step.do \in {"extend", "opened", "answer"}
              \/ Step.do = "open" /\ Proves(x)
         /\ Step.do = "extend" => Did("sid") /\ Did("session")
         /\ Writes(Step) /\ Step.service # "Register" => Did("session")
         /\ Proves(Step) \/ Step.do = "delete" => ~Did("session")
         /\ Step.do = "open" /\ Step.who = "account" => \E x \in Passed : Proves(x)
  <1>1. Ordered(Plan.steps, at) /\ Step = Plan.steps[at]
    BY AtStep DEF GoodScript, GoodStep
  <1>2. \A kind : Earlier(Plan.steps, at, kind) <=> Did(kind)
    BY AtStep
  <1> QED BY <1>1, <1>2 DEF Ordered, Passed

LEMMA SamePlan ==
  ASSUME UNCHANGED Sent
  PROVE  /\ Plan' = Plan /\ HasSid' = HasSid /\ op' = op /\ request' = request
         /\ attempt' = attempt /\ docs' = docs /\ lost' = lost /\ known' = known
         /\ rival' = rival
  BY DEF Sent, Plan, HasSid, Text, Has

(* No handler has stored anything before a step that may still refuse.     *)
LEMMA Untouched ==
  ASSUME Inv, pc = "run"
  PROVE  /\ Step.do \in {"check", "sid", "session", "call", "delete"} =>
              writes = {} /\ opened = FALSE /\ \A x \in Passed : ~Acts(x)
         /\ Step.do = "open" => opened = FALSE
  <1>1. /\ writes # {} => \E x \in Passed : Acts(x) /\ x.do # "open"
        /\ opened => \E x \in Passed : x.do = "open"
        /\ opened \in BOOLEAN
    BY DEF Inv, RunInv, Did, TypeOK
  <1>2. ASSUME NEW x, x.do = "open" PROVE Acts(x) /\ ~Proves(x)
    BY <1>2 DEF Acts, Proves
  <1>3. \A x \in Passed : Acts(x) =>
              \/ Step.do \in {"extend", "opened", "answer"}
              \/ Step.do = "open" /\ Proves(x)
    BY InOrder
  <1> QED BY <1>1, <1>2, <1>3

(* No attempt inserts more than one event.                                 *)
LEMMA CreatedBounded ==
  ASSUME Inv, DataInv', attempt' = attempt
  PROVE  created' \in 0 .. Attempts
  <1>1. attempt' \in 1 .. Attempts /\ Attempts \in Nat
    BY ConstantsAssumption DEF Inv, TypeOK
  <1>2. created' \in Nat
    BY DEF DataInv, StoreOK
  <1> DEFINE made == IF Wrote("CreateEvent")' THEN 1 ELSE 0
  <1>3. made \in {0, 1}
    OBVIOUS
  <1>4. created' + 1 <= attempt' + made
    BY DEF DataInv, StoredInv
  <1> HIDE DEF made
  <1>5. ASSUME NEW c \in Nat, NEW m \in {0, 1}, NEW a \in 1 .. Attempts,
               c + 1 <= a + m
        PROVE  c \in 0 .. Attempts
    BY <1>1, <1>5
  <1> QED BY <1>1, <1>2, <1>3, <1>4, <1>5

(* A step that goes on to the next one.                                    *)
LEMMA Proceeds ==
  ASSUME Inv, pc = "run", Proceed, UNCHANGED Sent, Step.do # "answer", DataInv',
         \A x \in Passed \cup {Step} : Kept(x)',
         writes' # {} => writes # {} \/ (Acts(Step) /\ Step.do # "open"),
         <<"Delete", None>> \in writes' => <<"Delete", None>> \in writes \/ Step.do = "delete",
         opened' => opened \/ Step.do = "open"
  PROVE  Inv'
  <1>1. /\ op \in Ops /\ at \in 1 .. Len(Plan.steps) /\ Len(Plan.steps) \in Nat
        /\ Step = Plan.steps[at] /\ DOMAIN Plan.steps = 1 .. Len(Plan.steps)
        /\ at # Len(Plan.steps)
    BY AtStep
  <1>2. at' = at + 1 /\ pc' = "run" /\ response' = NoAnswer
    BY DEF Proceed, Inv, StageInv
  <1>3. /\ Plan' = Plan /\ op' = op /\ request' = request /\ attempt' = attempt
        /\ docs' = docs /\ lost' = lost /\ known' = known /\ HasSid' = HasSid
        /\ rival' = rival
    BY SamePlan
  <1>4. StageInv'
    BY <1>1, <1>2, <1>3 DEF StageInv, Inv, Ops, NoAnswer
  <1>5. RunInv'
    <2>1. Passed' = Passed \cup {Step}
      BY <1>1, <1>2, <1>3 DEF Passed
    <2>2. /\ writes # {} => \E x \in Passed : Acts(x) /\ x.do # "open"
          /\ <<"Delete", None>> \in writes => \E x \in Passed : x.do = "delete"
          /\ opened => \E x \in Passed : x.do = "open"
      BY DEF Inv, RunInv, Did
    <2>3. /\ writes' # {} => \E x \in Passed' : Acts(x) /\ x.do # "open"
          /\ <<"Delete", None>> \in writes' => \E x \in Passed' : x.do = "delete"
          /\ opened' => \E x \in Passed' : x.do = "open"
      BY <2>1, <2>2
    <2>4. \A x \in Passed' : Kept(x)'
      BY <2>1
    <2> QED BY <2>3, <2>4 DEF RunInv, Did
  <1>6. TypeOK'
    <2>1. at' \in DOMAIN Plan'.steps
      BY <1>1, <1>2, <1>3
    <2>2. created' \in 0 .. Attempts
      BY <1>3, CreatedBounded
    <2> QED
      BY <1>2, <1>3, <2>1, <2>2 DEF DataInv, StoreOK, TypeOK, Inv, NoAnswer
  <1>7. ActsForHolder' /\ CookieFollowsSession' /\ AnswerTellsTheWrite' /\ RetryHasCause'
    BY <1>2, <1>3
    DEF DataInv, StoredInv, StoreOK, ActsForHolder, CookieFollowsSession,
        AnswerTellsTheWrite, RetryHasCause, NoAnswer
  <1> QED BY <1>4, <1>5, <1>6, <1>7 DEF Inv, DataInv

ResponseType ==
  [status : {0, 200, 201, 204, 400, 401, 404, 405, 409, 415, 500},
   cookie : {"keep", "drop", "new", "blank", "none"}]

(* A step that answers.                                                    *)
LEMMA Ends ==
  ASSUME Inv, pc = "run", NEW reply, End(reply), UNCHANGED Sent, DataInv',
         Encoded(reply) \in ResponseType,
         Encoded(reply).status = 500 => Encoded(reply).cookie # "new",
         ActsForHolder', CookieFollowsSession', AnswerTellsTheWrite',
         op = "Register" /\ Encoded(reply).status = 409 => taken' /\ writes' = {}
  PROVE  Inv'
  <1>1. op \in Ops /\ at' = at /\ pc' = "done" /\ response' = Encoded(reply)
    BY AtStep DEF End
  <1>2. /\ Plan' = Plan /\ op' = op /\ request' = request /\ attempt' = attempt
        /\ docs' = docs /\ lost' = lost /\ known' = known /\ HasSid' = HasSid
        /\ rival' = rival
    BY SamePlan
  <1>3. StageInv' /\ RunInv'
    BY <1>1, <1>2 DEF StageInv, RunInv, Inv, Ops
  <1>4. TypeOK'
    <2>1. created' \in 0 .. Attempts
      BY <1>2, CreatedBounded
    <2> QED BY <1>1, <1>2, <2>1 DEF DataInv, StoreOK, TypeOK, Inv, ResponseType
  <1>5. RetryHasCause'
    <2>1. op = "Register" /\ Encoded(reply).status = 409 =>
            known \/ rival \/ "Register" \in lost
      BY <1>2 DEF DataInv, StoredInv, Registered
    <2>2. created' > 1 => "CreateEvent" \in lost
      BY <1>2 DEF DataInv, StoredInv
    <2>3. Registered' => ~known' /\ ~rival'
      BY DEF DataInv, StoredInv
    <2> QED BY <1>1, <1>2, <2>1, <2>2, <2>3 DEF RetryHasCause
  <1> QED BY <1>3, <1>4, <1>5 DEF Inv, DataInv

(* A refusal, before anything is stored.                                   *)
LEMMA Refuses ==
  ASSUME Inv, pc = "run", NEW reply, End(reply), UNCHANGED Sent,
         UNCHANGED <<user, store, writes, holders, ended>>,
         Refusal(Plan.encode, reply), writes = {}, opened = FALSE,
         op = "Register" /\ Status(Plan.encode, reply) = 409 => taken
  PROVE  Inv'
  <1>1. /\ response' = Encoded(reply) /\ HasSid' = HasSid /\ lost' = lost
        /\ pc' = "done" /\ op' = op /\ attempt' = attempt /\ known' = known
        /\ rival' = rival
        /\ UNCHANGED <<session, opened, orphan, taken, events, created, page>>
    BY SamePlan DEF End, store
  <1>2. /\ Encoded(reply).status = Status(Plan.encode, reply)
        /\ Encoded(reply).status \in {400, 401, 404, 409}
        /\ Encoded(reply).cookie \in {"keep", "drop", "none"}
        /\ Encoded(reply).cookie = "keep" => HasSid
        /\ Encoded(reply).cookie = "drop" => ~HasSid
    BY DEF Encoded, Refusal, Status, SetCookie, Echo
  <1>3. Encoded(reply) \in ResponseType
    BY <1>2 DEF Encoded, ResponseType
  <1>4. DataInv'
    BY <1>1 DEF Inv, DataInv, StoreOK, TypeOK, StoredInv, Wrote, Registered, HolderInv, ActsForHolder
  <1> HIDE DEF Encoded
  <1>5. ActsForHolder' /\ CookieFollowsSession' /\ AnswerTellsTheWrite'
    BY <1>1, <1>2
    DEF ActsForHolder, CookieFollowsSession, AnswerTellsTheWrite
  <1> QED BY <1>1, <1>2, <1>3, <1>4, <1>5, Ends

(* An internal error, whatever was stored.                                 *)
LEMMA Errs ==
  ASSUME Inv, pc = "run", End(InternalError), UNCHANGED Sent, DataInv',
         Step.do \in {"session", "call", "open", "delete"}, opened' = FALSE
  PROVE  Inv'
  <1>1. response' = Encoded(InternalError) /\ pc' = "done" /\ op' = op
    BY SamePlan DEF End
  <1>2. Encoded(InternalError) = [status |-> 500, cookie |-> "blank"]
    <2>1. Plan.encode["Error"] = Headers(0)
      BY AtStep DEF Answers
    <2> QED BY <2>1 DEF Encoded, InternalError, SetCookie, Headers
  <1>3. Encoded(InternalError) \in ResponseType
    BY <1>2 DEF ResponseType
  <1>4. ActsForHolder' /\ CookieFollowsSession' /\ AnswerTellsTheWrite'
    BY <1>1, <1>2
    DEF DataInv, ActsForHolder, CookieFollowsSession, AnswerTellsTheWrite
  <1> QED BY <1>2, <1>3, <1>4, Ends

(* The answer of a handler that did what it was asked.                     *)
LEMMA Succeeds ==
  ASSUME Inv, pc = "run", End(Step.reply), UNCHANGED Sent,
         UNCHANGED <<user, store, writes, holders, ended, failed>>,
         Step.do = "answer" \/ (Step.do = "opened" /\ opened)
  PROVE  Inv'
  <1> DEFINE reply == Step.reply
  <1>1. /\ response' = Encoded(reply) /\ HasSid' = HasSid /\ lost' = lost
        /\ pc' = "done" /\ op' = op /\ attempt' = attempt /\ known' = known
        /\ rival' = rival
        /\ UNCHANGED <<session, opened, orphan, taken, events, created, page>>
    BY SamePlan DEF End, store
  <1>2. /\ Status(Plan.encode, reply) \in {200, 201, 204}
        /\ Plan.encode[reply.type].cookie
        /\ reply.cookie \in {"echo", "opened", "drop", "header"}
        /\ reply.cookie = "opened" <=> Did("open")
        /\ reply.cookie = "drop" <=> Did("delete")
    BY AtStep DEF Answers, Success
  <1>3. /\ \A x \in Passed : Kept(x)
        /\ <<"Delete", None>> \in writes => Did("delete")
        /\ opened => Did("open")
    BY DEF Inv, RunInv
  <1>4. /\ Encoded(reply).status \in {200, 201, 204}
        /\ Encoded(reply).cookie = SetCookie(reply.cookie)
    BY <1>2 DEF Encoded, Status
  <1>5. Did("delete") <=> <<"Delete", None>> \in writes
    BY <1>3 DEF Did, Kept
  <1>6. /\ Encoded(reply).cookie \in {"keep", "drop", "new", "none"}
        /\ Encoded(reply).cookie = "new" <=> opened
        /\ Encoded(reply).cookie = "keep" => HasSid /\ ~Did("delete")
        /\ Encoded(reply).cookie = "drop" => ~HasSid \/ Did("delete")
    BY <1>2, <1>3, <1>4 DEF SetCookie, Echo, Inv, TypeOK
  <1>7. Encoded(reply) \in ResponseType
    BY <1>4, <1>6 DEF Encoded, ResponseType
  <1>8. op = "GetRecommendations" => user \in holders \cap Users
    <2>1. op = "GetRecommendations" => Did("session")
      BY AtStep DEF Particular
    <2> QED BY <1>3, <2>1 DEF Did, Kept
  <1>9. op \in WritingOps => Cardinality(writes) = 1
    <2> SUFFICES ASSUME op \in WritingOps PROVE Cardinality(writes) = 1
      OBVIOUS
    <2>1. Step.do # "opened"
      BY AtStep DEF Particular, WritingOps
    <2>2. PICK x \in Passed : Writes(x)
      BY <2>1, AtStep DEF Particular, Passed
    <2>3. writes # {} /\ \A w, v \in writes : w = v
      BY <1>3, <2>2 DEF Kept
    <2>4. PICK w \in writes : TRUE
      BY <2>3
    <2>5. writes = {w}
      BY <2>3, <2>4
    <2> QED BY <2>5, FS_Singleton
  <1>10. DataInv'
    BY <1>1 DEF Inv, DataInv, StoreOK, TypeOK, StoredInv, Wrote, Registered, HolderInv, ActsForHolder
  <1> HIDE DEF reply
  <1>11. ActsForHolder'
    BY <1>1, <1>8 DEF ActsForHolder, Inv
  <1>12. CookieFollowsSession'
    BY <1>1, <1>5, <1>6 DEF CookieFollowsSession
  <1>13. AnswerTellsTheWrite'
    BY <1>1, <1>4, <1>9 DEF AnswerTellsTheWrite, WritingOps
  <1>14. End(reply)
    BY DEF reply
  <1> QED BY <1>4, <1>7, <1>10, <1>11, <1>12, <1>13, <1>14, Ends
-----------------------------------------------------------------------------
(* Before the handler                                                      *)

LEMMA InitInv ==
  ASSUME Init
  PROVE  Inv
  <1>1. /\ request \in Requests /\ attempt = 1 /\ pc = "docs" /\ op = "none" /\ at = 1
        /\ user = None /\ response = NoAnswer
        /\ session \in {"gone", "nobody"} \cup Users
        /\ taken \in BOOLEAN /\ opened = FALSE /\ orphan = FALSE
        /\ events = Events /\ created = 0 /\ page = {} /\ docs = "unloaded"
        /\ writes = {} /\ holders = {session} /\ known = taken /\ rival = FALSE
        /\ lost = {}
    BY DEF Init
  <1>2. TypeOK
    <2>1. attempt \in 1 .. Attempts /\ created \in 0 .. Attempts
      BY <1>1, ConstantsAssumption
    <2>2. response \in ResponseType
      BY <1>1 DEF NoAnswer, ResponseType
    <2> QED BY <1>1, <2>1, <2>2 DEF TypeOK, ResponseType
  <1>3. StageInv /\ RunInv /\ StoredInv /\ HolderInv
    BY <1>1 DEF StageInv, RunInv, StoredInv, Wrote, Registered, HolderInv
  <1>4. ActsForHolder /\ CookieFollowsSession /\ AnswerTellsTheWrite /\ RetryHasCause
    BY <1>1 DEF ActsForHolder, CookieFollowsSession, AnswerTellsTheWrite, RetryHasCause,
               Registered
  <1> QED BY <1>2, <1>3, <1>4 DEF Inv

(* Before the handler nothing is stored, answered or opened.               *)
LEMMA Before ==
  ASSUME Inv, pc \in {"docs", "route", "decode"},
         UNCHANGED <<request, attempt, at, user, store, record>>,
         docs' \in {"unloaded", "loaded", "failed"},
         pc' # "run", pc' # "docs",
         pc' \in {"route", "decode"} => response' = response,
         pc' = "route" => op' = "none",
         pc' = "decode" => op' \in Ops,
         pc' = "done" =>
           /\ op' = op
           /\ response' \in [status : {200, 204, 400, 404, 405, 415}, cookie : {"none"}]
           /\ response'.status < 300 => op = "none",
         pc' \in {"route", "decode", "done"}
  PROVE  Inv'
  <1>1. writes = {} /\ opened = FALSE /\ response = NoAnswer /\ op \in Ops \cup {"none"}
    BY DEF Inv, StageInv, TypeOK
  <1>2. /\ request' = request /\ attempt' = attempt /\ at' = at /\ user' = user
        /\ session' = session /\ opened' = FALSE /\ orphan' = orphan /\ taken' = taken
        /\ events' = events /\ created' = created /\ page' = page
        /\ writes' = {} /\ holders' = holders /\ lost' = lost /\ known' = known
        /\ rival' = rival
    BY <1>1 DEF store, record
  <1>3. TypeOK'
    <2>1. response' \in ResponseType
      <3>1. CASE pc' = "done"
        BY <3>1 DEF ResponseType
      <3>2. CASE pc' # "done"
        BY <1>1, <3>2 DEF NoAnswer, ResponseType
      <3> QED BY <3>1, <3>2
    <2>2. /\ attempt' \in 1 .. Attempts /\ created' \in 0 .. Attempts
          /\ user' \in Users' \cup {None} /\ session' \in {"gone", "nobody"} \cup Users'
          /\ orphan' \in BOOLEAN /\ taken' \in BOOLEAN
          /\ DOMAIN events' = DOMAIN Events /\ page' \subseteq DOMAIN Events \cup Users'
      BY <1>2 DEF Inv, TypeOK, Users
    <2>3. pc' \in {"route", "decode", "done"} /\ opened' \in BOOLEAN
      BY <1>2
    <2> QED BY <2>1, <2>2, <2>3 DEF TypeOK, ResponseType, Users
  <1>4. StageInv' /\ RunInv'
    BY <1>1, <1>2 DEF Inv, StageInv, RunInv, NoAnswer
  <1>5. StoredInv' /\ HolderInv'
    BY <1>1, <1>2 DEF Inv, StoredInv, HolderInv, Wrote, Registered
  <1>6. ActsForHolder'
    BY <1>1, <1>2 DEF ActsForHolder, NoAnswer
  <1>7. CookieFollowsSession' /\ AnswerTellsTheWrite'
    BY <1>1, <1>2 DEF CookieFollowsSession, AnswerTellsTheWrite
  <1>8. RetryHasCause'
    BY <1>1, <1>2 DEF Inv, RetryHasCause, Registered, NoAnswer
  <1> QED BY <1>3, <1>4, <1>5, <1>6, <1>7, <1>8 DEF Inv

LEMMA ServeDocsInv ==
  ASSUME Inv, ServeDocs
  PROVE  Inv'
  <1>1. pc = "docs" /\ op = "none" /\ docs \in {"unloaded", "loaded", "failed"}
    BY DEF Inv, StageInv, TypeOK, ServeDocs
  <1>2. UNCHANGED <<request, attempt, op, at, user, store, record>>
    BY DEF ServeDocs
  <1>3. docs' \in {"unloaded", "loaded", "failed"}
    BY <1>1 DEF ServeDocs
  <1>4. \/ pc' = "done" /\ response' = [status |-> 200, cookie |-> "none"]
        \/ pc' = "route" /\ response' = response
    BY DEF ServeDocs, Respond
  <1> QED BY <1>1, <1>2, <1>3, <1>4, Before

LEMMA RouteRequestInv ==
  ASSUME Inv, RouteRequest
  PROVE  Inv'
  <1>1. pc = "route" /\ op = "none" /\ docs \in {"unloaded", "loaded", "failed"}
    BY DEF Inv, StageInv, TypeOK, RouteRequest
  <1>2. UNCHANGED <<request, attempt, at, user, store, docs, record>>
    BY DEF RouteRequest
  <1>3. \/ pc' = "decode" /\ response' = response /\ op' \in Ops
        \/ /\ pc' = "done" /\ op' = op
           /\ \E status \in {204, 404, 405} :
                response' = [status |-> status, cookie |-> "none"]
    <2>1. CASE request.method \in DOMAIN Route(request.path).ops
      BY <2>1, Routed DEF RouteRequest
    <2>2. CASE request.method \notin DOMAIN Route(request.path).ops
      BY <2>2 DEF RouteRequest, Respond, NotFound, NotAllowed
    <2> QED BY <2>1, <2>2
  <1> QED BY <1>1, <1>2, <1>3, Before

LEMMA DecodeInv ==
  ASSUME Inv, Decode
  PROVE  Inv'
  <1>1. /\ pc = "decode" /\ op \in Ops /\ at = 1 /\ writes = {} /\ opened = FALSE
        /\ response = NoAnswer /\ request.body \in Bodies
    BY ConstantsAssumption DEF Inv, StageInv, TypeOK, Decode
  <1>2. GoodPlan(op, Plan)
    BY <1>1, Plans DEF Plan
  <1>3. UNCHANGED <<request, attempt, op, input, at, user, store, docs, record>>
    BY DEF Decode
  <1>4. CASE pc' = "run" /\ response' = response
    <2>1. Plan' = Plan /\ 1 \in DOMAIN Plan.steps
      BY <1>2, <1>3 DEF Plan, GoodPlan, GoodScript
    <2>2. Passed' = {}
      BY <1>1, <1>3 DEF Passed
    <2>3. /\ session' = session /\ opened' = FALSE /\ orphan' = orphan /\ taken' = taken
          /\ events' = events /\ created' = created /\ page' = page
          /\ writes' = {} /\ holders' = holders /\ lost' = lost /\ known' = known
          /\ rival' = rival
      BY <1>1, <1>3 DEF store, record
    <2>4. TypeOK' /\ StageInv'
      <3>1. at' \in DOMAIN Plan'.steps
        BY <1>1, <1>3, <2>1
      <3>2. /\ attempt' = attempt /\ user' = user /\ docs' = docs /\ pc' = "run"
            /\ response' = response
        BY <1>3, <1>4
      <3>3. TypeOK'
        <4>1. /\ attempt' \in 1 .. Attempts /\ created' \in 0 .. Attempts
              /\ user' \in Users' \cup {None} /\ session' \in {"gone", "nobody"} \cup Users'
              /\ orphan' \in BOOLEAN /\ taken' \in BOOLEAN /\ opened' \in BOOLEAN
              /\ DOMAIN events' = DOMAIN Events /\ page' \subseteq DOMAIN Events \cup Users'
          BY <2>3, <3>2 DEF Inv, TypeOK, Users
        <4>2. response' \in ResponseType /\ docs' \in {"unloaded", "loaded", "failed"}
          BY <3>2 DEF Inv, TypeOK, ResponseType
        <4> QED BY <3>1, <3>2, <4>1, <4>2 DEF TypeOK, ResponseType, Users
      <3>4. StageInv'
        BY <1>1, <1>3, <1>4, <2>3 DEF Inv, StageInv
      <3> QED BY <3>3, <3>4
    <2>5. RunInv'
      BY <2>2, <2>3 DEF RunInv
    <2>6. StoredInv' /\ HolderInv'
      BY <1>1, <1>3, <2>3 DEF Inv, StoredInv, HolderInv, Wrote, Registered
    <2>7. ActsForHolder' /\ CookieFollowsSession' /\ AnswerTellsTheWrite'
      BY <1>1, <1>4, <2>3
      DEF ActsForHolder, CookieFollowsSession, AnswerTellsTheWrite, NoAnswer
    <2>8. RetryHasCause'
      BY <1>1, <1>4, <2>3 DEF Inv, RetryHasCause, Registered, NoAnswer
    <2> QED BY <2>4, <2>5, <2>6, <2>7, <2>8 DEF Inv
  <1>5. CASE pc' = "done" /\ \E status \in {400, 415} :
                 response' = [status |-> status, cookie |-> "none"]
    <2>1. docs' \in {"unloaded", "loaded", "failed"} /\ op' = op
      BY <1>3 DEF Inv, TypeOK
    <2>2. UNCHANGED <<request, attempt, at, user, store, record>>
      BY <1>3
    <2> QED BY <1>1, <1>5, <2>1, <2>2, Before
  <1>6. Plan.params \in BOOLEAN /\ Plan.body \in {0, 400, 415}
    BY <1>2 DEF GoodPlan
  <1>7. CASE Plan.params /\ Plan.body = 0
    BY <1>4, <1>7 DEF Decode
  <1>8. CASE ~Plan.params
    BY <1>5, <1>8 DEF Decode, Respond
  <1>9. CASE Plan.params /\ Plan.body # 0
    BY <1>5, <1>6, <1>9 DEF Decode, Respond
  <1> QED BY <1>6, <1>7, <1>8, <1>9
-----------------------------------------------------------------------------
(* The steps of a handler                                                  *)

LEMMA SameData ==
  ASSUME Inv, UNCHANGED Sent, UNCHANGED <<store, writes, holders>>,
         user' \in Users \cup {None}
  PROVE  DataInv'
  <1>1. /\ UNCHANGED <<session, opened, orphan, taken, events, created, page>>
        /\ writes' = writes /\ holders' = holders
        /\ attempt' = attempt /\ lost' = lost /\ known' = known /\ rival' = rival
    BY SamePlan DEF store
  <1> QED
    BY <1>1 DEF Inv, DataInv, StoreOK, TypeOK, StoredInv, Wrote, Registered, HolderInv, ActsForHolder

(* Kept stays true while the user and the writes stay, whatever becomes of *)
(* the session.                                                            *)
LEMMA KeptOn ==
  ASSUME HasSid' = HasSid, user' = user, writes' = writes, holders \subseteq holders',
         session' = "gone" => session = "gone" \/ ended', ended => ended'
  PROVE  \A x : Kept(x) => Kept(x)'
  BY DEF Kept, Proves, Writes, Users

LEMMA PassedKept ==
  ASSUME Inv, pc = "run"
  PROVE  \A x \in Passed : Kept(x)
  BY DEF Inv, RunInv

(* A step that only looks.                                                 *)
LEMMA Looks ==
  ASSUME Inv, pc = "run", Proceed, UNCHANGED Sent, Step.do \in {"check", "sid", "open", "opened"},
         UNCHANGED <<user, store, writes, holders, ended>>,
         Step.do = "sid" => HasSid
  PROVE  Inv'
  <1>1. DataInv'
    BY SameData DEF Inv, TypeOK
  <1>2. \A x \in Passed \cup {Step} : Kept(x)
    BY PassedKept DEF Kept, Proves, Writes
  <1>3. HasSid' = HasSid /\ session' = session /\ opened' = opened
    BY SamePlan DEF store
  <1>4. \A x \in Passed \cup {Step} : Kept(x)'
    BY <1>2, <1>3, KeptOn
  <1> QED BY <1>1, <1>3, <1>4, Proceeds

LEMMA RefusalHere ==
  ASSUME Inv, pc = "run", End(Step.reply), UNCHANGED Sent,
         UNCHANGED <<user, store, writes, holders, ended>>,
         Step.do \in {"check", "sid", "session"}
  PROVE  Inv'
  <1>1. Refusal(Plan.encode, Step.reply)
    BY AtStep DEF Answers
  <1>2. writes = {} /\ opened = FALSE
    BY Untouched
  <1>3. op = "Register" => Status(Plan.encode, Step.reply) # 409
    BY AtStep DEF Particular
  <1> QED BY <1>1, <1>2, <1>3, Refuses

LEMMA RunCheckInv ==
  ASSUME Inv, RunCheck
  PROVE  Inv'
  <1>1. /\ pc = "run" /\ Step.do = "check" /\ UNCHANGED Sent
        /\ UNCHANGED <<user, store, writes, holders, ended>>
        /\ End(Step.reply) \/ Proceed
    BY DEF RunCheck, Do
  <1> QED BY <1>1, Looks, RefusalHere

LEMMA RunNeedSidInv ==
  ASSUME Inv, RunNeedSid
  PROVE  Inv'
  <1>1. /\ pc = "run" /\ Step.do = "sid" /\ UNCHANGED Sent
        /\ UNCHANGED <<user, store, writes, holders, ended>>
        /\ End(Step.reply) \/ (HasSid /\ Proceed)
    BY DEF RunNeedSid, Do
  <1> QED BY <1>1, Looks, RefusalHere

LEMMA RunNeedUserInv ==
  ASSUME Inv, RunNeedUser
  PROVE  Inv'
  <1>1. /\ pc = "run" /\ Step.do = "session" /\ UNCHANGED Sent
        /\ UNCHANGED <<store, writes, holders, ended>>
    BY DEF RunNeedUser, Do
  <1>2. CASE session \in Users /\ user' = session /\ Proceed
    <2>1. DataInv'
      BY <1>1, <1>2, SameData
    <2>2. writes = {} /\ \A x \in Passed : ~Acts(x)
      BY <1>1, Untouched
    <2>3. session \in holders /\ session # "gone"
      BY <1>2, ConstantsAssumption DEF Inv, HolderInv, Users
    <2>4. /\ HasSid' = HasSid /\ session' = session /\ opened' = opened
          /\ holders' = holders /\ writes' = writes
      BY <1>1, SamePlan DEF store
    <2>5. ASSUME NEW x \in Passed \cup {Step}
          PROVE  Kept(x)'
      <3>1. ~Writes(x) /\ ~Proves(x) /\ x.do # "delete"
        BY <1>1, <2>2 DEF Acts, Writes, Proves
      <3>2. x.do = "sid" => HasSid
        BY <1>1, PassedKept DEF Kept
      <3> QED BY <1>2, <2>3, <2>4, <3>1, <3>2 DEF Kept, Writes, Proves, Users
    <2> QED BY <1>1, <1>2, <2>1, <2>4, <2>5, Proceeds
  <1>3. CASE End(Step.reply) /\ user' = user
    BY <1>1, <1>3, RefusalHere
  <1>4. CASE End(InternalError) /\ user' = user
    <2>1. DataInv'
      BY <1>1, <1>4, SameData DEF Inv, TypeOK
    <2>2. opened' = FALSE
      BY <1>1, Untouched DEF store
    <2> QED BY <1>1, <1>4, <2>1, <2>2, Errs
  <1> QED BY <1>2, <1>3, <1>4 DEF RunNeedUser, Fails
-----------------------------------------------------------------------------
(* The calls of the services                                               *)

(* What a call stores keeps the data as they should be.                    *)
LEMMA Applied ==
  ASSUME Inv, pc = "run", Step.do = "call", UNCHANGED Sent, Apply(Step.service),
         holders' = holders, user' \in {user, Me},
         Step.service = "Register" => ~taken,
         page' \subseteq DOMAIN Events \cup Users
  PROVE  DataInv' /\ opened' = FALSE
  <1> DEFINE service == Step.service
  <1>1. /\ session' = session /\ opened' = opened /\ orphan' = orphan
        /\ taken' = (taken \/ service = "Register")
        /\ created' = IF service = "CreateEvent" THEN created + 1 ELSE created
        /\ writes' = IF service \in Writing THEN writes \cup {<<service, user>>} ELSE writes
        /\ attempt' = attempt /\ lost' = lost /\ known' = known /\ rival' = rival
    BY SamePlan DEF Apply
  <1>2. DOMAIN events' = DOMAIN Events
    BY DEF Apply, PatchEvent, Inv, TypeOK
  <1>3. writes = {} /\ opened = FALSE
    BY Untouched
  <1>4. service \in Writing /\ service # "Register" => user \in holders \cap Users
    <2>1. service \in Writing /\ service # "Register" => Did("session")
      BY InOrder DEF Writes
    <2> QED BY <2>1, PassedKept DEF Did, Kept
  <1>9. service = "Register" => ~taken
    OBVIOUS
  <1> HIDE DEF service
  <1>5. StoreOK'
    BY <1>1, <1>2, <1>3, ConstantsAssumption DEF Inv, TypeOK, StoreOK, Users
  <1>6. StoredInv'
    <2>1. /\ created = 0 \/ "CreateEvent" \in lost
          /\ created + 1 <= attempt /\ created \in Nat /\ attempt \in Nat
          /\ taken <=> known \/ rival \/ "Register" \in lost
          /\ "Register" \in lost => ~known /\ ~rival
      BY <1>3, ConstantsAssumption DEF Inv, TypeOK, StoredInv, Wrote, Registered
    <2>2. CASE service = "CreateEvent"
      <3>1. writes' = {<<"CreateEvent", user>>}
        BY <1>1, <1>3, <2>2 DEF Writing
      <3>2. \E w \in writes' : w[1] = "CreateEvent"
        BY <3>1
      <3>3. created' = created + 1 /\ taken' = taken
        BY <1>1, <2>2 DEF Inv, TypeOK
      <3>4. ~\E w \in writes' : w[1] = "Register"
        BY <3>1
      <3> QED BY <1>1, <2>1, <3>2, <3>3, <3>4 DEF StoredInv, Wrote, Registered
    <2>3. CASE service = "Register"
      <3>1. writes' = {<<"Register", user>>} /\ created' = created
        BY <1>1, <1>3, <2>3 DEF Writing
      <3>2. /\ \E w \in writes' : w[1] = "Register"
            /\ ~\E w \in writes' : w[1] = "CreateEvent"
        BY <3>1
      <3>3. taken' /\ ~known /\ ~rival /\ "Register" \notin lost
        BY <1>1, <1>9, <2>1, <2>3
      <3> QED BY <1>1, <2>1, <3>1, <3>2, <3>3 DEF StoredInv, Wrote, Registered
    <2>4. CASE service \notin {"CreateEvent", "Register"}
      <3>1. /\ ~\E w \in writes' : w[1] \in {"CreateEvent", "Register"}
            /\ created' = created /\ taken' = taken
        BY <1>1, <1>3, <2>4 DEF Inv, TypeOK
      <3> QED BY <1>1, <2>1, <3>1 DEF StoredInv, Wrote, Registered
    <2> QED BY <2>2, <2>3, <2>4
  <1>7. HolderInv'
    BY <1>1 DEF Inv, HolderInv, Users
  <1>8. \A w \in writes' : w[1] \notin {"Register", "Delete"} => w[2] \in holders' \cap Users
    BY <1>1, <1>3, <1>4
  <1> QED BY <1>1, <1>3, <1>5, <1>6, <1>7, <1>8 DEF DataInv, Users

LEMMA FindsDocuments ==
  ASSUME Inv, NEW service, NEW p \in Finds(service)
  PROVE  p \subseteq DOMAIN Events \cup Users
  BY DEF Finds, GetUsers, GetEvents, Pages, Inv, TypeOK, Users

LEMMA ServeCallInv ==
  ASSUME Inv, ServeCall
  PROVE  Inv'
  <1>1. /\ pc = "run" /\ Step.do = "call" /\ UNCHANGED Sent /\ Apply(Step.service)
        /\ Proceed /\ holders' = holders /\ ended' = ended
        /\ page' \in Finds(Step.service)
        /\ user' = IF Proves(Step) THEN Me ELSE user
        /\ Step.service = "Register" => ~taken
    BY DEF ServeCall, Do, Proves, MayServe
  <1>2. page' \subseteq DOMAIN Events \cup Users
    BY <1>1, FindsDocuments
  <1>3. DataInv' /\ opened' = FALSE
    BY <1>1, <1>2, Applied
  <1>4. writes = {} /\ \A x \in Passed : ~Acts(x)
    BY <1>1, Untouched
  <1>5. /\ Writes(Step) => writes' = {<<Step.service, user>>}
        /\ ~Writes(Step) => writes' = {}
        /\ session' = session
    BY <1>1, <1>4 DEF Apply, Writes
  <1>6. HasSid' = HasSid
    BY <1>1, SamePlan
  <1>7. ASSUME NEW x \in Passed
        PROVE  Kept(x)'
    <2>1. Kept(x) /\ ~Writes(x) /\ ~Proves(x) /\ x.do # "delete"
      BY <1>1, <1>4, PassedKept DEF Acts
    <2>2. x.do = "session" => user' = user
      BY <1>1, InOrder DEF Did
    <2>3. ~Writes(x)' /\ ~Proves(x)'
      BY <2>1 DEF Writes, Proves
    <2> QED BY <1>1, <1>5, <1>6, <2>1, <2>2, <2>3 DEF Kept, Users
  <1>8. ASSUME NEW x, x = Step
        PROVE  Kept(x)'
    <2>1. x.do = "call" /\ (Proves(x) => user' = Me)
      BY <1>1, <1>8
    <2>2. Writes(x) => writes' # {} /\ \A w, v \in writes' : w = v
      BY <1>5, <1>8
    <2> QED BY <2>1, <2>2 DEF Kept, Writes, Proves
  <1>9. <<"Delete", None>> \notin writes'
    BY <1>5 DEF Writes, Writing
  <1> QED
    <2>1. writes' # {} => Acts(Step) /\ Step.do # "open"
      BY <1>1, <1>5 DEF Acts
    <2> QED BY <1>1, <1>3, <1>7, <1>8, <1>9, <2>1, Proceeds

LEMMA RefuseCallInv ==
  ASSUME Inv, RefuseCall
  PROVE  Inv'
  <1>1. /\ pc = "run" /\ Step.do = "call" /\ UNCHANGED Sent
        /\ UNCHANGED <<user, store, writes, holders, ended>>
    BY DEF RefuseCall, Do
  <1>2. PICK why \in DOMAIN Step.refusals :
          MayRefuse(Step.service, why) /\ End(Step.refusals[why])
    BY DEF RefuseCall
  <1> DEFINE reply == Step.refusals[why]
  <1>3. Refusal(Plan.encode, reply)
    BY <1>1, AtStep DEF Answers
  <1>4. writes = {} /\ opened = FALSE
    BY <1>1, Untouched
  <1>5. op = "Register" => taken
    <2>1. op = "Register" => Step.service = "Register" /\ "missing" \notin DOMAIN Step.refusals
      BY <1>1, AtStep DEF Particular
    <2> QED BY <1>2, <2>1 DEF MayRefuse
  <1>6. End(reply)
    BY <1>2
  <1> QED BY <1>1, <1>3, <1>4, <1>5, <1>6, Refuses

LEMMA FailCallInv ==
  ASSUME Inv, FailCall
  PROVE  Inv'
  <1>1. /\ pc = "run" /\ Step.do = "call" /\ UNCHANGED Sent /\ End(InternalError)
        /\ user' = user /\ holders' = holders
    BY DEF FailCall, Do, Fails
  <1>2. DataInv' /\ opened' = FALSE
    <2>1. CASE UNCHANGED <<store, writes>>
      BY <1>1, <2>1, SameData, Untouched DEF store, Inv, TypeOK
    <2>2. CASE MayServe(Step.service) /\ Apply(Step.service) /\ page' = page
      <3>1. Step.service = "Register" => ~taken
        BY <2>2 DEF MayServe
      <3> QED BY <1>1, <2>2, <3>1, Applied DEF Inv, TypeOK
    <2> QED BY <2>1, <2>2 DEF FailCall
  <1> QED BY <1>1, <1>2, Errs
-----------------------------------------------------------------------------
(* The session                                                             *)

LEMMA Bound ==
  ASSUME Inv, UNCHANGED Sent, UNCHANGED <<user, writes, taken, events, created, page>>,
         NEW who \in Users \cup {"nobody"},
         Bind(who) \/ UNCHANGED <<session, holders>>,
         opened' \in BOOLEAN, orphan' \in BOOLEAN
  PROVE  /\ DataInv' /\ holders \subseteq holders'
         /\ session' = "gone" => session = "gone"
  <1>1. /\ user' = user /\ writes' = writes /\ taken' = taken /\ events' = events
        /\ created' = created /\ page' = page
        /\ attempt' = attempt /\ lost' = lost /\ known' = known /\ rival' = rival
    BY SamePlan
  <1>2. /\ holders \subseteq holders'
        /\ session' = "gone" => session = "gone"
        /\ session' \in {session, who} /\ session' \in {"gone", "nobody"} \cup Users
        /\ session' \in Users => session' \in holders'
    BY ConstantsAssumption DEF Bind, Inv, TypeOK, HolderInv, Users
  <1>3. StoreOK'
    BY <1>1, <1>2 DEF Inv, TypeOK, StoreOK, Users
  <1>4. StoredInv' /\ HolderInv'
    BY <1>1, <1>2 DEF Inv, StoredInv, HolderInv, Wrote, Registered, Users
  <1>5. \A w \in writes' : w[1] \notin {"Register", "Delete"} => w[2] \in holders' \cap Users
    <2>1. \A w \in writes : w[1] \notin {"Register", "Delete"} => w[2] \in holders \cap Users
      BY DEF Inv, ActsForHolder
    <2> QED BY <1>1, <1>2, <2>1
  <1> QED BY <1>2, <1>3, <1>4, <1>5 DEF DataInv, Users

LEMMA RunOpenSessionInv ==
  ASSUME Inv, RunOpenSession
  PROVE  Inv'
  <1> DEFINE who == IF Step.who = "account" THEN user ELSE "nobody"
  <1>1. /\ pc = "run" /\ Step.do = "open" /\ UNCHANGED Sent
        /\ user' = user /\ writes' = writes /\ ended' = ended
    BY DEF RunOpenSession, Do
  <1>2. who \in Users \cup {"nobody"}
    <2>1. Step.who = "account" => \E x \in Passed : Proves(x)
      BY <1>1, InOrder
    <2>2. Step.who = "account" => user = Me
      BY <1>1, <2>1, PassedKept DEF Kept
    <2> QED BY <2>2, ConstantsAssumption DEF Users
  <1>3. opened = FALSE
    BY <1>1, Untouched
  <1>4. \/ Proceed /\ UNCHANGED <<store, holders>>
        \/ /\ Bind(who) /\ opened' \in BOOLEAN /\ Proceed
           /\ UNCHANGED <<orphan, taken, events, created, page>>
        \/ /\ End(InternalError) /\ (Bind(who) \/ UNCHANGED <<session, holders>>)
           /\ orphan' \in BOOLEAN
           /\ UNCHANGED <<opened, taken, events, created, page>>
    <2>1. Opens \in BOOLEAN /\ (orphan \/ Opens) \in BOOLEAN /\ orphan \in BOOLEAN
      BY DEF Opens, Inv, TypeOK
    <2> QED BY <2>1, Zenon DEF RunOpenSession, Fails
  <1> HIDE DEF who
  <1>5. CASE Proceed /\ UNCHANGED <<store, holders>>
    BY <1>1, <1>5, Looks
  <1>6. CASE /\ Bind(who) /\ opened' \in BOOLEAN /\ Proceed
             /\ UNCHANGED <<orphan, taken, events, created, page>>
    <2>1. /\ DataInv' /\ holders \subseteq holders'
          /\ session' = "gone" => session = "gone"
      BY <1>1, <1>2, <1>6, Bound DEF Inv, TypeOK
    <2>2. HasSid' = HasSid
      BY <1>1, SamePlan
    <2>3. \A x : Kept(x) => Kept(x)'
      BY <1>1, <2>1, <2>2, KeptOn
    <2>4. \A x \in Passed \cup {Step} : Kept(x)'
      <3>1. Kept(Step)
        BY <1>1 DEF Kept, Proves, Writes
      <3> QED BY <1>1, <2>3, <3>1, PassedKept
    <2> QED BY <1>1, <1>6, <2>1, <2>4, Proceeds
  <1>7. CASE /\ End(InternalError) /\ (Bind(who) \/ UNCHANGED <<session, holders>>)
             /\ orphan' \in BOOLEAN
             /\ UNCHANGED <<opened, taken, events, created, page>>
    <2>1. DataInv'
      BY <1>1, <1>2, <1>7, Bound DEF Inv, TypeOK
    <2>2. opened' = FALSE
      BY <1>3, <1>7
    <2> QED BY <1>1, <1>7, <2>1, <2>2, Errs
  <1> QED BY <1>4, <1>5, <1>6, <1>7

LEMMA RunExtendInv ==
  ASSUME Inv, RunExtend
  PROVE  Inv'
  <1>1. /\ pc = "run" /\ Step.do = "extend" /\ UNCHANGED Sent /\ Proceed
        /\ UNCHANGED <<user, opened, taken, events, created, page, writes, ended>>
        /\ Bind(user) \/ UNCHANGED <<session, holders>>
        /\ orphan' \in BOOLEAN
    <2>1. (orphan \/ Opens) \in BOOLEAN /\ orphan \in BOOLEAN
      BY DEF Opens, Inv, TypeOK
    <2> QED BY <2>1, Zenon DEF RunExtend, Do
  <1>2. user \in Users
    BY <1>1, InOrder, PassedKept DEF Did, Kept
  <1>3. /\ DataInv' /\ holders \subseteq holders'
        /\ session' = "gone" => session = "gone"
    BY <1>1, <1>2, Bound DEF Inv, TypeOK
  <1>4. HasSid' = HasSid
    BY <1>1, SamePlan
  <1>5. \A x : Kept(x) => Kept(x)'
    BY <1>1, <1>3, <1>4, KeptOn
  <1>6. \A x \in Passed \cup {Step} : Kept(x)'
    <2>1. Kept(Step)
      BY <1>1 DEF Kept, Proves, Writes
    <2> QED BY <1>1, <1>5, <2>1, PassedKept
  <1> QED BY <1>1, <1>3, <1>6, Proceeds

LEMMA RunDeleteInv ==
  ASSUME Inv, RunDelete
  PROVE  Inv'
  <1>1. /\ pc = "run" /\ Step.do = "delete" /\ UNCHANGED Sent
        /\ UNCHANGED <<user, opened, orphan, taken, events, created, page, holders, ended>>
        /\ session' \in {session, "gone"}
        /\ \/ writes' = writes \cup {<<"Delete", None>>} /\ Proceed
           \/ writes' = writes /\ End(InternalError)
    BY DEF RunDelete, Do, Fails
  <1>2. writes = {} /\ opened = FALSE /\ \A x \in Passed : ~Acts(x) /\ x.do # "session"
    BY <1>1, Untouched, InOrder DEF Did
  <1>3. writes' = {<<"Delete", None>>} \/ writes' = {}
    BY <1>1, <1>2
  <1>4. DataInv'
    <2>1. /\ user' = user /\ taken' = taken /\ events' = events /\ opened' = opened
          /\ orphan' = orphan /\ created' = created /\ page' = page /\ holders' = holders
          /\ attempt' = attempt /\ lost' = lost /\ known' = known /\ rival' = rival
      BY <1>1, SamePlan
    <2>2. StoreOK'
      BY <1>1, <2>1 DEF Inv, TypeOK, StoreOK, Users
    <2>3. HolderInv'
      BY <1>1, <2>1, ConstantsAssumption DEF Inv, HolderInv, Users
    <2>4. \A w \in writes' : w[1] = "Delete"
      BY <1>3
    <2>5. StoredInv'
      <3>1. ~\E w \in writes' : w[1] \in {"CreateEvent", "Register"}
        BY <2>4
      <3>2. /\ created = 0 \/ "CreateEvent" \in lost
            /\ created + 1 <= attempt /\ created \in Nat /\ attempt \in Nat
            /\ taken <=> known \/ rival \/ "Register" \in lost
            /\ "Register" \in lost => ~known /\ ~rival
        BY <1>2, ConstantsAssumption DEF Inv, TypeOK, StoredInv, Wrote, Registered
      <3> QED BY <2>1, <3>1, <3>2 DEF StoredInv, Wrote, Registered
    <2> QED BY <2>2, <2>3, <2>4, <2>5 DEF DataInv
  <1>5. CASE End(InternalError)
    BY <1>1, <1>2, <1>4, <1>5, Errs
  <1>6. CASE writes' = writes \cup {<<"Delete", None>>} /\ Proceed
    <2>1. HasSid' = HasSid
      BY <1>1, SamePlan
    <2>2. ASSUME NEW x \in Passed
          PROVE  Kept(x)'
      <3>1. Kept(x) /\ ~Writes(x) /\ ~Proves(x) /\ x.do # "delete" /\ x.do # "session"
        BY <1>1, <1>2, PassedKept DEF Acts
      <3> QED BY <2>1, <3>1 DEF Kept, Writes, Proves
    <2>3. ASSUME NEW x, x = Step
          PROVE  Kept(x)'
      BY <1>1, <1>6, <2>3 DEF Kept, Writes, Proves
    <2>4. Acts(Step)
      BY <1>1 DEF Acts
    <2> QED BY <1>1, <1>4, <1>6, <2>2, <2>3, <2>4, Proceeds
  <1> QED BY <1>1, <1>5, <1>6

LEMMA RunAnswerInv ==
  ASSUME Inv, RunAnswer
  PROVE  Inv'
  <1>1. /\ pc = "run" /\ UNCHANGED Sent
        /\ UNCHANGED <<user, store, writes, holders, ended, failed>>
        /\ \/ Step.do = "opened" /\ opened /\ End(Step.reply)
           \/ Step.do = "opened" /\ Proceed
           \/ Step.do = "answer" /\ End(Step.reply)
    BY DEF RunAnswer, Do
  <1> QED BY <1>1, Looks, Succeeds
-----------------------------------------------------------------------------
(* Around the request                                                      *)

LEMMA SessionChangesInv ==
  ASSUME Inv, SessionChanges
  PROVE  Inv'
  <1>1. /\ pc = "run" /\ pc' = pc /\ at' = at /\ user' = user /\ response' = response
        /\ opened' = opened /\ orphan' = orphan /\ taken' = taken /\ events' = events
        /\ created' = created /\ page' = page /\ writes' = writes
        /\ session' \in {"gone", "nobody"} \cup Users
        /\ holders \subseteq holders' /\ session' \in holders'
        /\ session' = "gone" => ended'
        /\ ended => ended'
    BY DEF SessionChanges
  <1>2. UNCHANGED Sent
    BY DEF SessionChanges, Sent
  <1>3. /\ Plan' = Plan /\ HasSid' = HasSid /\ op' = op /\ request' = request
        /\ attempt' = attempt /\ docs' = docs /\ lost' = lost /\ known' = known
        /\ rival' = rival
    BY <1>2, SamePlan
  <1>4. TypeOK'
    BY <1>1, <1>3 DEF Inv, TypeOK, Users
  <1>5. StageInv'
    BY <1>1, <1>3 DEF Inv, StageInv
  <1>6. RunInv'
    <2>1. Passed' = Passed
      BY <1>1, <1>3 DEF Passed
    <2>2. \A x : Kept(x) => Kept(x)'
      BY <1>1, <1>3, KeptOn
    <2>3. \A x \in Passed : Kept(x)'
      BY <1>1, <2>2, PassedKept
    <2>4. /\ writes # {} => \E x \in Passed : Acts(x) /\ x.do # "open"
          /\ <<"Delete", None>> \in writes => \E x \in Passed : x.do = "delete"
          /\ opened => \E x \in Passed : x.do = "open"
      BY <1>1 DEF Inv, RunInv, Did
    <2> QED BY <1>1, <2>1, <2>3, <2>4 DEF RunInv, Did
  <1>7. StoredInv' /\ HolderInv'
    BY <1>1, <1>3 DEF Inv, StoredInv, HolderInv, Wrote, Registered
  <1>8. ActsForHolder'
    <2>1. \A w \in writes : w[1] \notin {"Register", "Delete"} => w[2] \in holders \cap Users
      BY DEF Inv, ActsForHolder
    <2>2. response'.status = 0
      BY <1>1 DEF Inv, StageInv, NoAnswer
    <2>3. \A w \in writes' : w[1] \notin {"Register", "Delete"} => w[2] \in holders' \cap Users
      BY <1>1, <2>1
    <2> QED BY <2>2, <2>3 DEF ActsForHolder, Users
  <1>9. CookieFollowsSession' /\ AnswerTellsTheWrite' /\ RetryHasCause'
    BY <1>1, <1>3
    DEF Inv, CookieFollowsSession, AnswerTellsTheWrite, RetryHasCause, Registered
  <1> QED BY <1>4, <1>5, <1>6, <1>7, <1>8, <1>9 DEF Inv

LEMMA NameTakenInv ==
  ASSUME Inv, NameTaken
  PROVE  Inv'
  <1>1. /\ pc = "run" /\ pc' = pc /\ at' = at /\ user' = user /\ response' = response
        /\ opened' = opened /\ orphan' = orphan /\ events' = events /\ input' = input
        /\ created' = created /\ page' = page /\ writes' = writes /\ session' = session
        /\ holders' = holders /\ ended' = ended
        /\ op' = op /\ request' = request /\ attempt' = attempt /\ docs' = docs
        /\ lost' = lost /\ known' = known
        /\ ~taken /\ taken' = TRUE /\ rival' = TRUE
    BY DEF NameTaken
  <1>2. Plan' = Plan /\ HasSid' = HasSid
    BY <1>1 DEF Plan, HasSid, Text, Has
  <1>3. Passed' = Passed
    BY <1>1, <1>2 DEF Passed
  <1>4. response.status = 0
    BY <1>1 DEF Inv, StageInv, NoAnswer
  <1>5. TypeOK' /\ StageInv'
    BY <1>1, <1>2 DEF Inv, TypeOK, StageInv, Users
  <1>6. RunInv'
    <2>1. \A x : Kept(x) => Kept(x)'
      BY <1>1, <1>2, KeptOn
    <2> QED BY <1>1, <1>3, <2>1 DEF Inv, RunInv, Did
  <1>7. ~Registered /\ (Registered' <=> Registered)
    BY <1>1 DEF Inv, StoredInv, Registered
  <1>8. StoredInv' /\ HolderInv'
    <2>1. Wrote("CreateEvent")' <=> Wrote("CreateEvent")
      BY <1>1 DEF Wrote
    <2> QED BY <1>1, <1>7, <2>1 DEF Inv, StoredInv, HolderInv, Users
  <1>9. ActsForHolder' /\ CookieFollowsSession' /\ AnswerTellsTheWrite'
    BY <1>1, <1>2, <1>4
    DEF Inv, ActsForHolder, CookieFollowsSession, AnswerTellsTheWrite, Users
  <1>10. RetryHasCause'
    BY <1>1, <1>4, <1>7 DEF Inv, RetryHasCause
  <1> QED BY <1>5, <1>6, <1>8, <1>9, <1>10 DEF Inv

LEMMA RetryInv ==
  ASSUME Inv, Retry
  PROVE  Inv'
  <1>1. /\ pc = "done" /\ response.status = 500 /\ attempt < Attempts
        /\ attempt' = attempt + 1 /\ pc' = "docs" /\ at' = 1 /\ user' = None
        /\ response' = NoAnswer /\ op' = "none" /\ writes' = {} /\ holders' = {session}
        /\ lost' = lost \cup {w[1] : w \in writes}
        /\ request' = request /\ docs' = docs /\ known' = known /\ rival' = rival
        /\ session' = session /\ opened' = opened /\ orphan' = orphan /\ taken' = taken
        /\ events' = events /\ created' = created /\ page' = page
    BY DEF Retry, store
  <1>2. opened = FALSE
    BY <1>1 DEF Inv, StageInv, CookieFollowsSession, TypeOK
  <1>3. \A service : Wrote(service) => service \in lost'
    BY <1>1 DEF Wrote
  <1>10. Registered' <=> Registered
    BY <1>1 DEF Registered
  <1>4. attempt' \in 1 .. Attempts
    BY <1>1, ConstantsAssumption DEF Inv, TypeOK
  <1>5. TypeOK'
    <2>1. response' \in ResponseType
      BY <1>1 DEF NoAnswer, ResponseType
    <2> QED BY <1>1, <1>4, <2>1 DEF Inv, TypeOK, ResponseType, Users
  <1>6. StageInv' /\ RunInv' /\ HolderInv'
    BY <1>1, <1>2 DEF Inv, StageInv, RunInv, HolderInv, Users
  <1>7. StoredInv'
    <2>1. created' = 0 \/ "CreateEvent" \in lost'
      BY <1>1, <1>3 DEF Inv, StoredInv
    <2>2. created' + 1 <= attempt'
      <3> DEFINE made == IF Wrote("CreateEvent") THEN 1 ELSE 0
      <3>1. created + 1 <= attempt + made
        BY DEF Inv, StoredInv
      <3>2. made \in {0, 1}
        OBVIOUS
      <3> HIDE DEF made
      <3>3. attempt \in Nat /\ created \in Nat
        BY ConstantsAssumption DEF Inv, TypeOK
      <3> QED BY <1>1, <3>1, <3>2, <3>3
    <2>3. /\ taken' <=> known' \/ rival' \/ Registered'
          /\ Registered' => ~known' /\ ~rival'
      BY <1>1, <1>10 DEF Inv, StoredInv
    <2>4. ~\E w \in writes' : w[1] = "CreateEvent"
      BY <1>1
    <2>5. attempt' \in Nat /\ created' \in Nat
      BY <1>1, ConstantsAssumption DEF Inv, TypeOK
    <2>6. ASSUME NEW c \in Nat, NEW a \in Nat, c + 1 <= a
          PROVE  c + 1 <= a + 0
      BY <2>6
    <2>7. created' + 1 <= attempt' + 0
      BY <2>2, <2>5, <2>6
    <2> QED BY <2>1, <2>3, <2>4, <2>7, Zenon DEF StoredInv, Wrote
  <1>8. ActsForHolder' /\ CookieFollowsSession' /\ AnswerTellsTheWrite'
    BY <1>1 DEF ActsForHolder, CookieFollowsSession, AnswerTellsTheWrite
  <1>9. RetryHasCause'
    BY <1>1, <1>10 DEF Inv, RetryHasCause, NoAnswer
  <1> QED BY <1>5, <1>6, <1>7, <1>8, <1>9 DEF Inv

LEMMA StutterInv ==
  ASSUME Inv, UNCHANGED vars
  PROVE  Inv'
  <1>1. /\ request' = request /\ attempt' = attempt /\ pc' = pc /\ op' = op
        /\ input' = input /\ at' = at /\ user' = user /\ response' = response
        /\ docs' = docs /\ store' = store /\ record' = record
    BY DEF vars
  <1>2. /\ session' = session /\ opened' = opened /\ orphan' = orphan /\ taken' = taken
        /\ events' = events /\ created' = created /\ page' = page
        /\ writes' = writes /\ holders' = holders /\ ended' = ended /\ failed' = failed
        /\ lost' = lost /\ known' = known /\ rival' = rival
    BY <1>1 DEF store, record
  <1>3. Plan' = Plan /\ HasSid' = HasSid
    BY <1>1 DEF Plan, HasSid, Text, Has
  <1>4. Passed' = Passed
    BY <1>1, <1>3 DEF Passed
  <1>5. TypeOK' /\ StageInv'
    BY <1>1, <1>2, <1>3 DEF Inv, TypeOK, StageInv, Users
  <1>6. RunInv'
    <2>1. \A x : Kept(x) => Kept(x)'
      BY <1>1, <1>2, <1>3, KeptOn
    <2> QED BY <1>1, <1>2, <1>4, <2>1 DEF Inv, RunInv, Did
  <1>7. StoredInv' /\ HolderInv'
    BY <1>1, <1>2 DEF Inv, StoredInv, HolderInv, Wrote, Registered, Users
  <1>8. ActsForHolder' /\ CookieFollowsSession'
    BY <1>1, <1>2, <1>3 DEF Inv, ActsForHolder, CookieFollowsSession, Users
  <1>9. AnswerTellsTheWrite' /\ RetryHasCause'
    BY <1>1, <1>2 DEF Inv, AnswerTellsTheWrite, RetryHasCause, Registered
  <1> QED BY <1>5, <1>6, <1>7, <1>8, <1>9 DEF Inv

LEMMA NextInv ==
  ASSUME Inv, [Next]_vars
  PROVE  Inv'
  <1>1. CASE ServeDocs \/ RouteRequest \/ Decode
    BY <1>1, ServeDocsInv, RouteRequestInv, DecodeInv
  <1>2. CASE RunCheck \/ RunNeedSid \/ RunNeedUser
    BY <1>2, RunCheckInv, RunNeedSidInv, RunNeedUserInv
  <1>3. CASE ServeCall \/ RefuseCall \/ FailCall
    BY <1>3, ServeCallInv, RefuseCallInv, FailCallInv
  <1>4. CASE RunOpenSession \/ RunExtend \/ RunDelete \/ RunAnswer
    BY <1>4, RunOpenSessionInv, RunExtendInv, RunDeleteInv, RunAnswerInv
  <1>5. CASE SessionChanges \/ NameTaken \/ Retry
    BY <1>5, SessionChangesInv, NameTakenInv, RetryInv
  <1>6. CASE Stop \/ UNCHANGED vars
    BY <1>6, StutterInv DEF Stop
  <1> QED BY <1>1, <1>2, <1>3, <1>4, <1>5, <1>6 DEF Next

(* The invariant: where a request is, what the steps it has passed have    *)
(* established, and what was stored by it or by a lost attempt.            *)
THEOREM InvInvariant == Spec => []Inv
  <1>1. Init => Inv
    BY InitInv
  <1>2. Inv /\ [Next]_vars => Inv'
    BY NextInv
  <1> QED BY <1>1, <1>2, PTL DEF Spec

(* The types; the handler's next step is always a step of the handler, for *)
(* no handler runs off its end without an answer.                          *)
THEOREM TypeCorrect == Spec => []TypeOK
  <1>1. Inv => TypeOK
    BY DEF Inv
  <1> QED BY <1>1, InvInvariant, PTL

(* Every write of the event, review and reaction services is made in the   *)
(* name of a user the session was bound to while the request ran, and only *)
(* such a user is given recommendations.                                   *)
THEOREM ActsForTheHolder == Spec => []ActsForHolder
  <1>1. Inv => ActsForHolder
    BY DEF Inv
  <1> QED BY <1>1, InvInvariant, PTL

(* A request that writes is answered 2xx only after its one write, and 4xx *)
(* only if it stored nothing.                                              *)
THEOREM AnswersTell == Spec => []AnswerTellsTheWrite
  <1>1. Inv => AnswerTellsTheWrite
    BY DEF Inv
  <1> QED BY <1>1, InvInvariant, PTL

(* The cookie of an answer names the session the request leaves: a new id  *)
(* exactly if one was opened for it, none if the session was deleted.      *)
THEOREM CookiesFollow == Spec => []CookieFollowsSession
  <1>1. Inv => CookieFollowsSession
    BY DEF Inv
  <1> QED BY <1>1, InvInvariant, PTL

(* A second event has a lost attempt of the same client behind it, a 409   *)
(* for a name that was free such an attempt or another client who took it  *)
(* meanwhile; and a registration is stored only if nobody had the name.    *)
THEOREM RetriesHaveACause == Spec => []RetryHasCause
  <1>1. Inv => RetryHasCause
    BY DEF Inv
  <1> QED BY <1>1, InvInvariant, PTL

(* A session no answer names is stored only if the request's own ended     *)
(* while it ran, or a call failed.                                         *)
THEOREM OrphansHaveACause == Spec => OrphanHasCause
  <1>1. ASSUME Inv, Next, orphan' # orphan
        PROVE  ended \/ failed'
    <2>1. RunOpenSession \/ RunExtend
      BY <1>1, Zenon
      DEF Next, ServeDocs, RouteRequest, Decode, RunCheck, RunNeedSid, RunNeedUser,
          ServeCall, RefuseCall, FailCall, Apply, RunDelete, RunAnswer, SessionChanges,
          NameTaken, Retry, Stop, vars, store
    <2>2. CASE RunOpenSession
      BY <1>1, <2>2, Zenon DEF RunOpenSession, store, Fails
    <2>3. CASE RunExtend
      <3>1. pc = "run" /\ Step.do = "extend"
        BY <2>3 DEF RunExtend, Do
      <3>2. HasSid /\ (session = "gone" => ended)
        BY <1>1, <3>1, InOrder, PassedKept DEF Did, Kept
      <3>3. failed' = TRUE \/ orphan' = (orphan \/ Opens)
        BY <2>3 DEF RunExtend
      <3>4. orphan \in BOOLEAN
        BY <1>1 DEF Inv, TypeOK
      <3>5. ASSUME orphan' = (orphan \/ Opens)
            PROVE  Opens
        BY <1>1, <3>4, <3>5
      <3> QED BY <3>2, <3>3, <3>5 DEF Opens
    <2> QED BY <2>1, <2>2, <2>3
  <1>2. Inv /\ [Next]_vars => [orphan' # orphan => ended \/ failed']_vars
    BY <1>1
  <1> QED BY <1>2, InvInvariant, PTL DEF Spec, OrphanHasCause

(* Only a patch changes an event, only an event of the user it is made in  *)
(* the name of, and only the fields it gives.                              *)
THEOREM PatchesOwn == Spec => PatchesOwnEvent
  <1> DEFINE Own == \A e \in DOMAIN events : events'[e] # events[e] =>
                      /\ op = "PatchEvent" /\ events[e].by = user
                      /\ \A f \in DOMAIN events[e] : events'[e][f] # events[e][f] =>
                           f \in DOMAIN input /\ f \in {"category", "city", "price"}
  <1>1. ASSUME Inv, Next
        PROVE  Own
    <2>1. CASE events' = events
      BY <2>1
    <2>2. CASE events' # events
      <3>1. ServeCall \/ FailCall
        BY <1>1, <2>2, Zenon
        DEF Next, ServeDocs, RouteRequest, Decode, RunCheck, RunNeedSid, RunNeedUser,
            RefuseCall, RunOpenSession, RunExtend, RunDelete, RunAnswer, SessionChanges,
            NameTaken, Retry, Stop, vars, store
      <3>2. pc = "run" /\ Step.do = "call" /\ Step.service = "PatchEvent"
        BY <2>2, <3>1 DEF ServeCall, FailCall, Do, Apply, store
      <3>3. events' = PatchEvent(EventOf, user, input, events)
        BY <2>2, <3>1, <3>2 DEF ServeCall, FailCall, Apply, store
      <3>4. op = "PatchEvent"
        BY <1>1, <3>2, AtStep DEF Particular
      <3>5. ASSUME NEW e \in DOMAIN events, events'[e] # events[e]
            PROVE  events[e].by = user /\ events'[e] = Patched(events[e], input)
        BY <3>3, <3>5 DEF PatchEvent, Patchable
      <3>6. ASSUME NEW doc, NEW f \in DOMAIN doc, Patched(doc, input)[f] # doc[f]
            PROVE  f \in DOMAIN input /\ f \in {"category", "city", "price"}
        BY <3>6 DEF Patched, Has
      <3> QED BY <3>4, <3>5, <3>6
    <2> QED BY <2>1, <2>2
  <1>2. Inv /\ [Next]_vars => [Own]_vars
    BY <1>1
  <1> QED BY <1>2, InvInvariant, PTL DEF Spec, PatchesOwnEvent

(* The tree that routes a request agrees with the API description on the   *)
(* operations and the parameters of its path, and no documentation page    *)
(* hides an operation: for any request.                                    *)
THEOREM RoutesMatch == Spec => []RoutesAgree
  <1>1. ASSUME Inv PROVE RoutesAgree
    <2>1. request \in Requests
      BY <1>1 DEF Inv, TypeOK, StageInv
    <2>2. request.path \in Seq(STRING)
      BY <2>1, ConstantsAssumption
    <2> QED BY <2>2, Agreed DEF RoutesAgree
  <1> QED BY <1>1, InvInvariant, PTL

-----------------------------------------------------------------------------
(* Listings.                                                               *)
(*                                                                         *)
(* The filter the storage builds is the description's condition by         *)
(* condition only if the handler has refused a bad date, the decoding an   *)
(* unknown category and an empty id (GoodFilters).  So the invariant       *)
(* follows a request through its handler: where its input came from, which *)
(* checks it has passed, and that the page is what its call found.         *)

(* The operations that answer with a page.                                 *)
Listings == {"GetEvents", "GetUserEvents", "GetUsers"}

(* A time is on or after a day, or before its end, exactly if its own day  *)
(* is: what the storage compares with midnight and the last second.        *)
LEMMA DayOf ==
  ASSUME NEW s \in Int, NEW d \in Int
  PROVE  /\ s >= Day * d <=> s \div Day >= d
         /\ s <= Day * d + (Day - 1) <=> s \div Day <= d
  <1> DEFINE q == s \div Day
  <1>1. q \in Int /\ Day \in Nat \ {0}
    BY ConstantsAssumption
  <1>2. Day * q <= s /\ s < Day * q + Day
    BY <1>1
  <1> HIDE DEF q
  <1>3. q >= d => Day * q >= Day * d
    BY <1>1
  <1>4. q < d => Day * (q + 1) <= Day * d
    BY <1>1
  <1>5. Day * (q + 1) = Day * q + Day
    BY <1>1
  <1>6. q <= d => Day * q <= Day * d
    BY <1>1
  <1>7. q > d => Day * (d + 1) <= Day * q
    BY <1>1
  <1>8. Day * (d + 1) = Day * d + Day
    BY <1>1
  <1> QED BY <1>1, <1>2, <1>3, <1>4, <1>5, <1>6, <1>7, <1>8 DEF q

(* What is sent of a finite set is all of it unless it is cut.             *)
LEMMA WholePage ==
  ASSUME NEW given, NEW S, IsFiniteSet(S), NEW p \in Pages(given, S)
  PROVE  LET limit == IF Has(given, "limit") THEN given["limit"] ELSE DefaultLimit
         IN  /\ p \subseteq S
             /\ \/ limit # 0 /\ limit < Cardinality(S)
                \/ Has(given, "offset") /\ given["offset"] # 0
                \/ p = S
  <1> DEFINE limit == IF Has(given, "limit") THEN given["limit"] ELSE DefaultLimit
             offset == IF Has(given, "offset") THEN given["offset"] ELSE DefaultOffset
             left == IF offset > Cardinality(S) THEN 0 ELSE Cardinality(S) - offset
             size == IF limit > 0 /\ limit < left THEN limit ELSE left
  <1>1. p \subseteq S /\ Cardinality(p) = size
    BY DEF Pages
  <1>2. Cardinality(S) \in Nat
    BY FS_CardinalityType
  <1>3. ASSUME ~(limit # 0 /\ limit < Cardinality(S)),
               ~(Has(given, "offset") /\ given["offset"] # 0)
        PROVE  p = S
    <2>1. offset = 0
      BY <1>3 DEF DefaultOffset
    <2> HIDE DEF offset
    <2>2. left = Cardinality(S)
      BY <1>2, <2>1
    <2> HIDE DEF left, limit
    <2>3. size = Cardinality(S)
      BY <1>2, <1>3, <2>2
    <2> QED BY <1>1, <2>3, FS_Subset
  <1> QED BY <1>1, <1>3

-----------------------------------------------------------------------------
(* Filters                                                                 *)

(* The filter by creator `None` matches nobody, an empty one everybody.    *)
LEMMA DifferentNone == None # Blank
  <1> SUFFICES ASSUME None = Blank PROVE FALSE
    OBVIOUS
  <1>1. {Blank, Bad, None} = {Bad} \cup {Blank}
    OBVIOUS
  <1>2. IsFiniteSet({Bad}) /\ Cardinality({Bad}) = 1
    BY FS_Singleton
  <1>3. Cardinality({Bad} \cup {Blank}) \in {1, 2}
    BY <1>2, FS_AddElement
  <1>4. Cardinality({Blank, Bad, None}) \in {1, 2}
    BY <1>1, <1>3, Zenon
  <1>5. Cardinality({Blank, Bad, None}) = 3
    BY ConstantsAssumption
  <1> QED BY <1>4, <1>5

(* What the handlers and the decoding in front of them have seen to before *)
(* an events listing is looked up.                                         *)
GoodFilters ==
  /\ \A f \in {"date_from", "date_to"} :
       Text(input, f) # Blank => Text(input, f) \in Int
  /\ Has(input, "category") => input["category"] # Blank
  /\ op = "GetUserEvents" => input["id"] # Blank

(* The filter the storage builds is what the description promises.         *)
LEMMA EventsPromised ==
  ASSUME op \in {"GetEvents", "GetUserEvents"}, GoodFilters, events = Events,
         NEW e \in DOMAIN events
  PROVE  EventMatches(op, input, events, e) <=> Promised(e)
  <1> DEFINE doc == events[e]
             given(f) == Has(input, f) /\ input[f] # Blank
  <1>1. \A f : given(f) <=> Text(input, f) # Blank
    BY DEF Text
  <1>2. \A f : given(f) => Text(input, f) = input[f]
    BY DEF Text
  <1>3. /\ doc.price \in Nat \cup {None} /\ doc.started \in Int
        /\ doc.by \in DOMAIN Accounts
    BY ConstantsAssumption, DocumentsAssumption
  <1>4. \A f \in {"title", "address", "city"} :
          (Text(input, f) = Blank \/ Text(input, f) = doc[f])
            <=> (given(f) => doc[f] = input[f])
    BY <1>1, <1>2
  <1>5. Exactly(Text(input, "category"), doc.category)
          <=> (Has(input, "category") => doc.category = input["category"])
    BY DEF GoodFilters, Exactly, Text
  <1>6. PriceWithin(input, doc.price) <=>
          /\ Has(input, "price_from") => doc.price \in Nat /\ doc.price >= input["price_from"]
          /\ Has(input, "price_to") => doc.price \in Nat /\ doc.price <= input["price_to"]
    <2>1. doc.price # None <=> doc.price \in Nat
      BY <1>3, DocumentsAssumption
    <2> QED BY <2>1, Zenon DEF PriceWithin
  <1>7. DateWithin(input, doc.started) <=>
          /\ given("date_from") => doc.started \div Day >= input["date_from"]
          /\ given("date_to") => doc.started \div Day <= input["date_to"]
    <2>1. /\ given("date_from") => input["date_from"] \in Int
          /\ given("date_to") => input["date_to"] \in Int
      BY <1>1, <1>2 DEF GoodFilters
    <2>2. \A d \in Int : /\ doc.started >= Day * d <=> doc.started \div Day >= d
                         /\ doc.started <= Day * d + (Day - 1) <=> doc.started \div Day <= d
      BY <1>3, DayOf
    <2>3. /\ given("date_from") => (doc.started >= Day * input["date_from"]
                                      <=> doc.started \div Day >= input["date_from"])
          /\ given("date_to") => (doc.started <= Day * input["date_to"] + (Day - 1)
                                    <=> doc.started \div Day <= input["date_to"])
      BY <2>1, <2>2
    <2>4. Has(input, "date_from") => input["date_from"] = Text(input, "date_from")
      BY DEF Text
    <2>5. Has(input, "date_to") => input["date_to"] = Text(input, "date_to")
      BY DEF Text
    <2> HIDE DEF doc
    <2> QED BY <1>1, <2>3, Zenon DEF DateWithin
  <1>8. CASE op = "GetUserEvents"
    <2>1. CreatedBy(op, input) = input["id"] /\ input["id"] # Blank
      BY <1>8 DEF CreatedBy, GoodFilters
    <2>2. CreatedBy(op, input) \in {Blank, doc.by} <=> doc.by = input["id"]
      BY <2>1
    <2> HIDE DEF doc
    <2>3. EventMatches(op, input, events, e) <=>
            /\ Text(input, "title") = Blank \/ Text(input, "title") = doc["title"]
            /\ Exactly(Text(input, "category"), doc.category)
            /\ PriceWithin(input, doc.price)
            /\ Text(input, "address") = Blank \/ Text(input, "address") = doc["address"]
            /\ Text(input, "city") = Blank \/ Text(input, "city") = doc["city"]
            /\ DateWithin(input, doc.started)
            /\ doc.by = input["id"]
      BY <1>8, <2>2 DEF EventMatches, Regex, Exactly, doc
    <2>4. Promised(e) <=>
            /\ \A f \in {"title", "address", "city"} : given(f) => doc[f] = input[f]
            /\ Has(input, "category") => doc.category = input["category"]
            /\ Has(input, "price_from") => doc.price \in Nat /\ doc.price >= input["price_from"]
            /\ Has(input, "price_to") => doc.price \in Nat /\ doc.price <= input["price_to"]
            /\ given("date_from") => doc.started \div Day >= input["date_from"]
            /\ given("date_to") => doc.started \div Day <= input["date_to"]
            /\ doc.by = input["id"]
      BY <1>8 DEF Promised, doc
    <2> HIDE DEF given
    <2> QED BY <1>4, <1>5, <1>6, <1>7, <2>3, <2>4
  <1>9. CASE op = "GetEvents"
    <2>1. CreatedBy(op, input) \in {Blank, doc.by} <=>
            /\ given("user") => Accounts[doc.by].username = input["user"]
            /\ given("user_id") /\ ~given("user") => doc.by = input["user_id"]
      <3>1. CASE given("user")
        <4>1. Text(input, "user") # Blank /\ input["user"] = Text(input, "user")
          BY <1>1, <1>2, <3>1
        <4>2. CASE Named(input["user"]) = {}
          <5>1. CreatedBy(op, input) = None
            BY <1>9, <4>1, <4>2 DEF CreatedBy
          <5>2. None # Blank /\ None # doc.by
            BY <1>3, ConstantsAssumption, DifferentNone
          <5>3. Accounts[doc.by].username # input["user"]
            BY <1>3, <4>2 DEF Named
          <5> QED BY <3>1, <5>1, <5>2, <5>3
        <4>3. CASE Named(input["user"]) # {}
          <5> DEFINE u == CHOOSE v \in Named(input["user"]) : TRUE
          <5>1. CreatedBy(op, input) = u
            BY <1>9, <4>1, <4>3 DEF CreatedBy
          <5>2. u \in DOMAIN Accounts /\ Accounts[u].username = input["user"]
            BY <4>3 DEF Named
          <5> HIDE DEF u
          <5>3. u # Blank
            BY <5>2, DocumentsAssumption
          <5>4. u = doc.by <=> Accounts[doc.by].username = input["user"]
            BY <1>3, <5>2, DocumentsAssumption
          <5> QED BY <3>1, <5>1, <5>3, <5>4
        <4> QED BY <4>2, <4>3
      <3>2. CASE ~given("user")
        <4>1. CreatedBy(op, input) = Text(input, "user_id")
          BY <1>1, <1>9, <3>2 DEF CreatedBy
        <4> QED BY <1>1, <1>2, <3>2, <4>1
      <3> QED BY <3>1, <3>2
    <2>2. (Text(input, "id") # Blank => e \in IdAlternatives(input["id"])) <=>
            (given("id") => e = input["id"] \/ <<input["id"], e>> \in AlsoSpelled)
      BY <1>1 DEF IdAlternatives, AlsoSpelled
    <2> HIDE DEF doc
    <2>3. EventMatches(op, input, events, e) <=>
            /\ Text(input, "id") # Blank => e \in IdAlternatives(input["id"])
            /\ Text(input, "title") = Blank \/ Text(input, "title") = doc["title"]
            /\ Exactly(Text(input, "category"), doc.category)
            /\ PriceWithin(input, doc.price)
            /\ Text(input, "address") = Blank \/ Text(input, "address") = doc["address"]
            /\ Text(input, "city") = Blank \/ Text(input, "city") = doc["city"]
            /\ DateWithin(input, doc.started)
            /\ CreatedBy(op, input) \in {Blank, doc.by}
      BY <1>9 DEF EventMatches, Regex, Exactly, doc
    <2>4. Promised(e) <=>
            /\ \A f \in {"title", "address", "city"} : given(f) => doc[f] = input[f]
            /\ Has(input, "category") => doc.category = input["category"]
            /\ Has(input, "price_from") => doc.price \in Nat /\ doc.price >= input["price_from"]
            /\ Has(input, "price_to") => doc.price \in Nat /\ doc.price <= input["price_to"]
            /\ given("date_from") => doc.started \div Day >= input["date_from"]
            /\ given("date_to") => doc.started \div Day <= input["date_to"]
            /\ given("id") => e = input["id"] \/ <<input["id"], e>> \in AlsoSpelled
            /\ given("user") => Accounts[doc.by].username = input["user"]
            /\ given("user_id") /\ ~given("user") => doc.by = input["user_id"]
      BY <1>9 DEF Promised, doc
    <2> HIDE DEF given
    <2> QED BY <1>4, <1>5, <1>6, <1>7, <2>1, <2>2, <2>3, <2>4
  <1> QED BY <1>8, <1>9

(* The same of the filter for users.                                       *)
LEMMA UsersPromised ==
  ASSUME NEW u
  PROVE  UserMatches(input, u) <=> PromisedUser(u)
  BY DEF UserMatches, PromisedUser, Text, Regex, IdAlternatives, AlsoSpelled
-----------------------------------------------------------------------------
(* What the handlers of the listings do, and what is decoded for them      *)

(* A listing looks up nothing but what it lists, and answers only after it *)
(* has, and after both dates were parsed.                                  *)
LEMMA ListingSteps ==
  ASSUME NEW o \in Listings, NEW body, NEW given,
         NEW k \in DOMAIN Handle(o, body, given).steps
  PROVE  LET s == Handle(o, body, given).steps IN
         /\ s[k].do = "call" /\ s[k].service \in Listings => s[k].service = o
         /\ k = Len(s) =>
              /\ \E j \in 1 .. k - 1 : s[j].do = "call" /\ s[j].service = o
              /\ o # "GetUsers" =>
                   /\ \E j \in 1 .. k - 1 : s[j] = ParseDate("date_from")
                   /\ \E j \in 1 .. k - 1 : s[j] = ParseDate("date_to")
  <1> DEFINE s == Handle(o, body, given).steps
             Good(t) == \A i \in DOMAIN t :
               /\ t[i].do = "call" /\ t[i].service \in Listings => t[i].service = o
               /\ i = Len(t) =>
                    /\ \E j \in 1 .. i - 1 : t[j].do = "call" /\ t[j].service = o
                    /\ o # "GetUsers" =>
                         /\ \E j \in 1 .. i - 1 : t[j] = ParseDate("date_from")
                         /\ \E j \in 1 .. i - 1 : t[j] = ParseDate("date_to")
             limit == NotNegative("limit")      offset == NotNegative("offset")
             least == NotNegative("price_from") most == NotNegative("price_to")
             first == ParseDate("date_from")    last == ParseDate("date_to")
             answer == Answer("Data", "echo")
  <1>1. /\ limit.do # "call" /\ offset.do # "call" /\ least.do # "call"
        /\ most.do # "call" /\ first.do # "call" /\ last.do # "call"
        /\ answer.do # "call"
    BY DEF NotNegative, ParseDate, Check, Answer
  <1>2. \A service, refusals : /\ Call(service, refusals).do = "call"
                               /\ Call(service, refusals).service = service
    BY DEF Call
  <1>3. CASE o = "GetUsers"
    <2> DEFINE c == Call("GetUsers", NoRefusal)
    <2>1. s = <<limit, offset, c, answer>>
      BY <1>3, Parts DEF Handle, HandleGetUsers, Operation, APIGetUsers
    <2>2. c.do = "call" /\ c.service = o
      BY <1>2, <1>3
    <2> HIDE DEF s, limit, offset, least, most, first, last, answer, c
    <2>3. Good(<<limit, offset, c, answer>>)
      BY <1>1, <1>3, <2>2
    <2> QED BY <2>1, <2>3 DEF s
  <1>4. CASE o = "GetEvents"
    <2> DEFINE c == Call("GetEvents", NoRefusal)
    <2>1. s = <<limit, offset, least, most, first, last, c, answer>>
      BY <1>4, Parts DEF Handle, HandleGetEvents, Operation, APIGetEvents
    <2>2. c.do = "call" /\ c.service = o
      BY <1>2, <1>4
    <2>3. first = ParseDate("date_from") /\ last = ParseDate("date_to")
      OBVIOUS
    <2> HIDE DEF s, limit, offset, least, most, first, last, answer, c
    <2>4. Good(<<limit, offset, least, most, first, last, c, answer>>)
      BY <1>1, <2>2, <2>3
    <2> QED BY <2>1, <2>4 DEF s
  <1>5. CASE o = "GetUserEvents"
    <2> DEFINE c == Call("GetUserEvents", NoRefusal)
               user1 == Call("GetUser", Missing)
    <2>1. s = <<user1, limit, offset, least, most, first, last, c, answer>>
      BY <1>5, Parts DEF Handle, HandleGetUserEvents, Operation, APIGetUserEvents
    <2>2. c.do = "call" /\ c.service = o /\ user1.service = "GetUser"
      BY <1>2, <1>5
    <2>3. first = ParseDate("date_from") /\ last = ParseDate("date_to")
      OBVIOUS
    <2> HIDE DEF s, limit, offset, least, most, first, last, answer, c, user1
    <2>4. Good(<<user1, limit, offset, least, most, first, last, c, answer>>)
      BY <1>1, <2>2, <2>3 DEF Listings
    <2> QED BY <2>1, <2>4 DEF s
  <1> QED BY <1>3, <1>4, <1>5 DEF Listings

(* A category that is given is one, a path's id is not empty.              *)
LEMMA DecodedFilters ==
  ASSUME NEW o \in {"GetEvents", "GetUserEvents"}, NEW body, NEW given,
         Handle(o, body, given).params
  PROVE  /\ Has(given, "category") => given["category"] # Blank
         /\ o = "GetUserEvents" => given["id"] # Blank
  <1> DEFINE values == IF o = "GetEvents" THEN GetEventsParams ELSE GetUserEventsParams
  <1>1. AllDecode(values, given)
    BY DEF Handle, HandleGetEvents, HandleGetUserEvents, Operation
  <1> DEFINE S == {Cookie, Path("id"), Query("id"), Query("title"), Category,
                   Number("price_from"), Number("price_to"), Query("address"),
                   Query("city"), Query("date_from"), Query("date_to"),
                   Query("user_id"), Query("user"), Query("include"),
                   Number("limit"), Number("offset")}
             s == IF o = "GetEvents" THEN <<Cookie, Query("id")>> ELSE <<Path("id"), Cookie>>
             t == IF o = "GetEvents"
                  THEN <<Query("user_id"), Query("user"), Query("include"),
                         Number("limit"), Number("offset")>>
                  ELSE <<Query("include"), Number("limit"), Number("offset")>>
  <1>2. /\ s \in Seq(S) /\ Len(s) = 2 /\ t \in Seq(S)
        /\ o = "GetUserEvents" => s[1] = Path("id")
    <2>1. CASE o = "GetEvents"
      BY <2>1
    <2>2. CASE o = "GetUserEvents"
      BY <2>2
    <2> QED BY <2>1, <2>2
  <1>3. EventFilters \in Seq(S) /\ Len(EventFilters) = 8 /\ EventFilters[2] = Category
    BY DEF EventFilters
  <1>4. values = (s \o EventFilters) \o t
    BY DEF GetEventsParams, GetUserEventsParams
  <1> HIDE DEF S, s, t, values
  <1>5. /\ 1 \in DOMAIN values /\ 4 \in DOMAIN values
        /\ values[1] = s[1] /\ values[4] = EventFilters[2]
    <2> DEFINE v == s \o EventFilters
               u == v \o t
    <2>1. s \in Seq(S) /\ Len(s) = 2
      BY <1>2
    <2>2. EventFilters \in Seq(S) /\ Len(EventFilters) = 8
      BY <1>3
    <2>3. Len(v) = Len(s) + Len(EventFilters)
      <3>1. s \in Seq(S) /\ EventFilters \in Seq(S)
        BY <2>1, <2>2
      <3> QED BY <3>1, ConcatProperties
    <2>4. v \in Seq(S)
      BY <2>1, <2>2, ConcatProperties, Zenon
    <2>5. \A i \in 1 .. Len(s) + Len(EventFilters) : v[i] =
            IF i <= Len(s) THEN s[i] ELSE EventFilters[i - Len(s)]
      BY <2>1, <2>2, ConcatProperties, Zenon
    <2> HIDE DEF v
    <2>6. Len(v) = 10 /\ v[1] = s[1] /\ v[4] = EventFilters[4 - 2]
      BY <2>1, <2>2, <2>3, <2>5
    <2>7. t \in Seq(S)
      BY <1>2
    <2>8. u \in Seq(S)
      BY <2>4, <2>7, ConcatProperties, Zenon
    <2>9. Len(u) = Len(v) + Len(t)
      BY <2>4, <2>7, ConcatProperties, Zenon
    <2>10. \A i \in 1 .. Len(v) + Len(t) : u[i] =
             IF i <= Len(v) THEN v[i] ELSE t[i - Len(v)]
      BY <2>4, <2>7, ConcatProperties, Zenon
    <2> HIDE DEF u
    <2>11. Len(t) \in Nat /\ DOMAIN u = 1 .. Len(u)
      BY <2>7, <2>8, LenProperties
    <2>12. u[1] = v[1] /\ u[4] = v[4]
      BY <2>6, <2>10, <2>11
    <2>13. 1 \in 1 .. Len(u) /\ 4 \in 1 .. Len(u)
      BY <2>6, <2>9, <2>11
    <2>14. values = u
      BY <1>4 DEF u, v
    <2> QED BY <2>6, <2>11, <2>12, <2>13, <2>14
  <1>6. Decodes(Category, given)
    BY <1>1, <1>3, <1>5 DEF AllDecode
  <1>7. o = "GetUserEvents" => Decodes(Path("id"), given)
    BY <1>1, <1>2, <1>5 DEF AllDecode
  <1>8. Has(given, "category") => given["category"] # Blank
    BY <1>6, DocumentsAssumption DEF Decodes, Category, Value, Has
  <1>9. o = "GetUserEvents" => given["id"] # Blank
    BY <1>7 DEF Decodes, Path, Value
  <1> QED BY <1>8, <1>9

(* The parameters of the path are none of the other values.                *)
LEMMA Given ==
  ASSUME NEW path, NEW method \in DOMAIN Route(path).ops, NEW given,
         NEW f \in {"date_from", "date_to"},
         f \in DOMAIN Inputs(Route(path).ops[method], Route(path).args, given)
  PROVE  /\ f \in DOMAIN given
         /\ Inputs(Route(path).ops[method], Route(path).args, given)[f] = given[f]
  <1> DEFINE name == Route(path).ops[method]
             args == Route(path).args
             names == {PathNames(name)[k] : k \in DOMAIN args}
  <1>1. DOMAIN args \subseteq DOMAIN PathNames(name)
    BY Routed
  <1>2. \A k \in DOMAIN PathNames(name) : PathNames(name)[k] # f
    BY DEF PathNames
  <1>3. f \notin names
    BY <1>1, <1>2
  <1> QED BY <1>3 DEF Inputs
-----------------------------------------------------------------------------
(* The invariant                                                           *)

RoutedOp == Route(request.path).ops[request.method]

(* What a step of a listing leaves true of the input and the page.         *)
Sought(x) ==
  /\ x.do = "check" => ~Wrong(x.test, x.field, input)
  /\ x.do = "call" /\ x.service \in Listings => page \in Finds(x.service)

OpInv ==
  op # "none" =>
    /\ op = RoutedOp
    /\ request.method \in DOMAIN Route(request.path).ops
    /\ input = Inputs(op, Route(request.path).args, request.given)

(* Only the requests of a patch find other events than those of the start. *)
EventsInv == events = Events \/ RoutedOp = "PatchEvent"

FoundInv ==
  /\ pc = "run" => Plan.params
  /\ pc = "run" /\ op \in Listings => \A x \in Passed : Sought(x)
  /\ pc = "done" /\ op \in Listings /\ response.status = 200 =>
       page \in Finds(op) /\ (op # "GetUsers" => GoodFilters)

ListingInv == OpInv /\ EventsInv /\ FoundInv

(* A step of a handler, as far as listings are concerned.                  *)
Went ==
  /\ UNCHANGED Sent
  /\ events' # events => op = "PatchEvent"
  /\ \/ /\ pc' = "run" /\ at' = at + 1
        /\ Step.do = "check" => ~Wrong(Step.test, Step.field, input)
        /\ IF Step.do = "call" /\ Step.service \in Listings
           THEN page' \in Finds(Step.service) ELSE page' = page
     \/ /\ pc' = "done"
        /\ response'.status = 200 /\ op \in Listings =>
             Step.do = "answer" /\ page' = page

-----------------------------------------------------------------------------
(* The steps                                                               *)

LEMMA RefusedStatus ==
  ASSUME NEW reply, End(reply), Refusal(Plan.encode, reply)
  PROVE  pc' = "done" /\ response'.status # 200
  BY DEF End, Refusal, Status, Encoded

LEMMA FailedStatus ==
  ASSUME Inv, pc = "run", End(InternalError),
         Step.do \in {"session", "call", "open", "delete"}
  PROVE  pc' = "done" /\ response'.status # 200
  <1>1. Plan.encode["Error"] = Headers(0)
    BY AtStep DEF Answers
  <1> QED BY <1>1 DEF End, Encoded, InternalError, Headers

LEMMA LooksWent ==
  ASSUME Inv, RunCheck \/ RunNeedSid \/ RunNeedUser
  PROVE  Went
  <1>1. /\ pc = "run" /\ Step.do \in {"check", "sid", "session"} /\ UNCHANGED Sent
        /\ events' = events /\ page' = page
        /\ \/ Proceed /\ (Step.do = "check" => ~Wrong(Step.test, Step.field, input))
           \/ End(Step.reply)
           \/ Step.do = "session" /\ End(InternalError)
    BY DEF RunCheck, RunNeedSid, RunNeedUser, Do, Fails, store
  <1>2. Refusal(Plan.encode, Step.reply)
    BY <1>1, AtStep DEF Answers
  <1>3. CASE Proceed /\ (Step.do = "check" => ~Wrong(Step.test, Step.field, input))
    BY <1>1, <1>3 DEF Went, Proceed
  <1>4. CASE End(Step.reply)
    BY <1>1, <1>2, <1>4, RefusedStatus DEF Went
  <1>5. CASE Step.do = "session" /\ End(InternalError)
    BY <1>1, <1>5, FailedStatus DEF Went
  <1> QED BY <1>1, <1>3, <1>4, <1>5

LEMMA CallsWent ==
  ASSUME Inv, ServeCall \/ RefuseCall \/ FailCall
  PROVE  Went
  <1>1. pc = "run" /\ Step.do = "call" /\ UNCHANGED Sent
    BY DEF ServeCall, RefuseCall, FailCall, Do
  <1>2. events' # events => op = "PatchEvent"
    <2>1. events' # events => Step.service = "PatchEvent"
      BY DEF ServeCall, RefuseCall, FailCall, Apply, store
    <2> QED BY <1>1, <2>1, AtStep DEF Particular
  <1>3. CASE ServeCall
    <2>1. Proceed /\ page' \in Finds(Step.service)
      BY <1>3 DEF ServeCall
    <2>2. Step.service \notin Listings => page' = page
      BY <2>1 DEF Finds, Listings
    <2> QED BY <1>1, <1>2, <2>1, <2>2 DEF Went, Proceed
  <1>4. CASE RefuseCall
    <2>1. PICK why \in DOMAIN Step.refusals : End(Step.refusals[why])
      BY <1>4 DEF RefuseCall
    <2>2. Refusal(Plan.encode, Step.refusals[why])
      BY <1>1, AtStep DEF Answers
    <2> QED BY <1>1, <1>2, <2>1, <2>2, RefusedStatus DEF Went
  <1>5. CASE FailCall
    <2>1. End(InternalError)
      BY <1>5 DEF FailCall, Fails
    <2> QED BY <1>1, <1>2, <2>1, FailedStatus DEF Went
  <1> QED BY <1>3, <1>4, <1>5

LEMMA SessionWent ==
  ASSUME Inv, RunOpenSession \/ RunExtend \/ RunDelete
  PROVE  Went
  <1>1. /\ pc = "run" /\ Step.do \in {"open", "extend", "delete"} /\ UNCHANGED Sent
        /\ events' = events /\ page' = page
        /\ Proceed \/ (Step.do # "extend" /\ End(InternalError))
    BY DEF RunOpenSession, RunExtend, RunDelete, Do, Fails, store
  <1>2. CASE Proceed
    BY <1>1, <1>2 DEF Went, Proceed
  <1>3. CASE Step.do # "extend" /\ End(InternalError)
    BY <1>1, <1>3, FailedStatus DEF Went
  <1> QED BY <1>1, <1>2, <1>3

LEMMA AnswerWent ==
  ASSUME Inv, RunAnswer
  PROVE  Went
  <1>1. /\ pc = "run" /\ Step.do \in {"opened", "answer"} /\ UNCHANGED Sent
        /\ events' = events /\ page' = page
        /\ Proceed \/ pc' = "done"
    BY DEF RunAnswer, Do, End, store
  <1>2. Step.do = "opened" => op = "Session"
    BY <1>1, AtStep DEF Particular
  <1> QED BY <1>1, <1>2 DEF Went, Proceed, Listings

LEMMA WentOn ==
  ASSUME Inv, ListingInv, pc = "run", Went
  PROVE  ListingInv'
  <1>1. /\ op' = op /\ input' = input /\ request' = request /\ Plan' = Plan
        /\ at \in 1 .. Len(Plan.steps) /\ Len(Plan.steps) \in Nat
        /\ Step = Plan.steps[at] /\ DOMAIN Plan.steps = 1 .. Len(Plan.steps)
        /\ op \in Ops /\ (Step.do = "answer" <=> at = Len(Plan.steps))
    BY AtStep, SamePlan DEF Went, Sent
  <1>2. op = RoutedOp /\ RoutedOp' = RoutedOp
    BY <1>1 DEF ListingInv, OpInv, RoutedOp, Ops
  <1>3. OpInv'
    BY <1>1, <1>2 DEF ListingInv, OpInv
  <1>4. EventsInv'
    BY <1>2 DEF ListingInv, EventsInv, Went
  <1>5. op \in Listings => events' = events
    BY DEF Went, Listings
  <1>6. ASSUME NEW service \in Listings, op \in Listings
        PROVE  Finds(service)' = Finds(service)
    BY <1>1, <1>5, <1>6 DEF Finds, Listings
  <1>7. ASSUME op \in Listings
        PROVE  /\ Step.do = "call" /\ Step.service \in Listings => Step.service = op
               /\ Step.do = "answer" =>
                    /\ \E x \in Passed : x.do = "call" /\ x.service = op
                    /\ op # "GetUsers" =>
                         ParseDate("date_from") \in Passed /\ ParseDate("date_to") \in Passed
    BY <1>1, <1>7, ListingSteps DEF Plan, Passed
  <1>8. ASSUME op \in Listings, NEW x \in Passed
        PROVE  x.do = "call" /\ x.service \in Listings => x.service = op
    BY <1>1, <1>8, ListingSteps DEF Plan, Passed
  <1>9. CASE pc' = "run"
    <2>1. Plan'.params
      BY <1>1 DEF ListingInv, FoundInv
    <2>2. ASSUME op \in Listings, NEW x \in Passed'
          PROVE  Sought(x)'
      <3>1. x \in Passed \/ x = Step
        BY <1>1, <1>9 DEF Passed, Went
      <3>2. CASE x \in Passed
        <4>1. Sought(x)
          BY <2>2, <3>2 DEF ListingInv, FoundInv
        <4>2. ASSUME x.do = "call", x.service \in Listings
              PROVE  page' \in Finds(x.service)'
          <5>1. Finds(x.service)' = Finds(x.service) /\ x.service = op
            BY <1>6, <1>8, <2>2, <3>2, <4>2
          <5>2. CASE Step.do = "call" /\ Step.service \in Listings
            BY <1>7, <1>9, <2>2, <5>1, <5>2 DEF Went
          <5>3. CASE ~(Step.do = "call" /\ Step.service \in Listings)
            BY <1>9, <4>1, <4>2, <5>1, <5>3 DEF Went, Sought
          <5> QED BY <5>2, <5>3
        <4> QED BY <1>1, <4>1, <4>2 DEF Sought, Wrong
      <3>3. CASE x = Step
        <4>1. x.do = "check" => ~Wrong(x.test, x.field, input)
          BY <1>9, <3>3 DEF Went
        <4>2. x.do = "call" /\ x.service \in Listings => page' \in Finds(x.service)'
          BY <1>6, <1>9, <2>2, <3>3 DEF Went
        <4> QED BY <1>1, <4>1, <4>2 DEF Sought, Wrong
      <3> QED BY <3>1, <3>2, <3>3
    <2>3. FoundInv'
      BY <1>1, <1>9, <2>1, <2>2 DEF FoundInv
    <2> QED BY <1>3, <1>4, <2>3 DEF ListingInv
  <1>10. CASE pc' = "done"
    <2>1. ASSUME op \in Listings, response'.status = 200
          PROVE  page' \in Finds(op)' /\ (op # "GetUsers" => GoodFilters')
      <3>1. Step.do = "answer" /\ page' = page
        BY <1>10, <2>1 DEF Went
      <3>2. \A x \in Passed : Sought(x)
        BY <2>1 DEF ListingInv, FoundInv
      <3>3. page' \in Finds(op)'
        <4>1. PICK x \in Passed : x.do = "call" /\ x.service = op
          BY <1>7, <2>1, <3>1
        <4>2. page \in Finds(op)
          BY <2>1, <3>2, <4>1 DEF Sought
        <4>3. ASSUME NEW service \in Listings, op = service
              PROVE  Finds(op)' = Finds(service)'
          BY <1>1, <4>3 DEF Finds
        <4>4. Finds(op)' = Finds(op)
          BY <1>6, <2>1, <4>3
        <4> QED BY <3>1, <4>2, <4>4
      <3>4. ASSUME op # "GetUsers"
            PROVE  GoodFilters
        <4>1. Plan.params /\ Plan = Handle(op, request.body, input)
          BY DEF ListingInv, FoundInv, Plan
        <4>2. /\ Has(input, "category") => input["category"] # Blank
              /\ op = "GetUserEvents" => input["id"] # Blank
          BY <2>1, <3>4, <4>1, DecodedFilters DEF Listings
        <4>3. ASSUME NEW f \in {"date_from", "date_to"}, Text(input, f) # Blank
              PROVE  Text(input, f) \in Int
          <5>1. ParseDate(f) \in Passed
            BY <1>7, <2>1, <3>1, <3>4
          <5>2. f \in DOMAIN input /\ input[f] # Bad /\ input[f] # Blank
            BY <3>2, <4>3, <5>1 DEF Sought, ParseDate, Check, Wrong, Text, Has
          <5>3. f \in DOMAIN request.given /\ input[f] = request.given[f]
            <6> DEFINE path == request.path
                       method == request.method
                       given == request.given
            <6>1. /\ method \in DOMAIN Route(path).ops /\ op = Route(path).ops[method]
                  /\ input = Inputs(op, Route(path).args, given)
              BY <1>1 DEF ListingInv, OpInv, RoutedOp, Ops
            <6>2. f \in DOMAIN Inputs(Route(path).ops[method], Route(path).args, given)
              BY <5>2, <6>1
            <6>3. /\ f \in DOMAIN given
                  /\ Inputs(Route(path).ops[method], Route(path).args, given)[f] = given[f]
              BY <4>3, <6>1, <6>2, Given
            <6> QED BY <6>1, <6>3
          <5>4. request.given[f] \in Int \cup {Blank, Bad}
            BY <5>3, DocumentsAssumption DEF Inv, StageInv
          <5> QED BY <5>2, <5>3, <5>4 DEF Text, Has
        <4> QED BY <4>2, <4>3 DEF GoodFilters
      <3> QED BY <1>1, <3>3, <3>4 DEF GoodFilters, Text, Has
    <2>2. FoundInv'
      BY <1>1, <1>10, <2>1 DEF FoundInv
    <2> QED BY <1>3, <1>4, <2>2 DEF ListingInv
  <1> QED BY <1>9, <1>10 DEF Went
-----------------------------------------------------------------------------
(* The other steps                                                         *)

LEMMA InitListing == Init => ListingInv
  BY DEF Init, ListingInv, OpInv, EventsInv, FoundInv

LEMMA ServeDocsListing ==
  ASSUME Inv, ListingInv, ServeDocs
  PROVE  ListingInv'
  <1>1. /\ op = "none" /\ op' = op /\ request' = request /\ events' = events
        /\ pc' \in {"route", "done"}
    BY DEF Inv, StageInv, TypeOK, ServeDocs, Respond, store
  <1>2. OpInv' /\ FoundInv'
    BY <1>1 DEF OpInv, FoundInv, Listings
  <1>3. EventsInv'
    BY <1>1 DEF ListingInv, EventsInv, RoutedOp
  <1> QED BY <1>2, <1>3 DEF ListingInv

LEMMA RouteRequestListing ==
  ASSUME Inv, ListingInv, RouteRequest
  PROVE  ListingInv'
  <1>1. /\ op = "none" /\ request' = request /\ events' = events
    BY DEF Inv, StageInv, TypeOK, RouteRequest, store
  <1>2. EventsInv'
    BY <1>1 DEF ListingInv, EventsInv, RoutedOp
  <1>3. CASE request.method \in DOMAIN Route(request.path).ops
    <2>1. /\ op' = RoutedOp /\ pc' = "decode"
          /\ input' = Inputs(op', Route(request.path).args, request.given)
      BY <1>3 DEF RouteRequest, RoutedOp
    <2>2. OpInv'
      BY <1>1, <1>3, <2>1 DEF OpInv, RoutedOp
    <2> QED BY <1>2, <2>1, <2>2 DEF ListingInv, FoundInv
  <1>4. CASE request.method \notin DOMAIN Route(request.path).ops
    <2>1. op' = "none" /\ pc' = "done"
      BY <1>1, <1>4 DEF RouteRequest, Respond
    <2> QED BY <1>2, <2>1 DEF ListingInv, OpInv, FoundInv, Listings
  <1> QED BY <1>3, <1>4

LEMMA DecodeListing ==
  ASSUME Inv, ListingInv, Decode
  PROVE  ListingInv'
  <1>1. /\ pc = "decode" /\ op \in Ops /\ at = 1 /\ request.body \in Bodies
        /\ op' = op /\ input' = input /\ request' = request /\ events' = events /\ at' = at
    BY ConstantsAssumption DEF Inv, StageInv, TypeOK, Decode, store
  <1>2. GoodPlan(op, Plan)
    BY <1>1, Plans DEF Plan
  <1>3. OpInv' /\ EventsInv'
    BY <1>1 DEF ListingInv, OpInv, EventsInv, RoutedOp
  <1>4. CASE Plan.params /\ Plan.body = 0
    <2>1. pc' = "run"
      BY <1>4 DEF Decode
    <2>2. Plan'.params
      BY <1>1, <1>4 DEF Plan
    <2>3. Passed' = {}
      BY <1>1 DEF Passed
    <2> QED BY <1>3, <2>1, <2>2, <2>3 DEF ListingInv, FoundInv
  <1>5. CASE ~Plan.params \/ Plan.body # 0
    <2>1. pc' = "done" /\ response'.status # 200
      <3>1. CASE ~Plan.params
        <4>1. Respond(400)
          BY <3>1 DEF Decode
        <4> QED BY <4>1 DEF Respond
      <3>2. CASE Plan.params /\ Plan.body # 0
        <4>1. Respond(Plan.body) /\ Plan.body \in {400, 415}
          BY <1>2, <3>2 DEF Decode, GoodPlan
        <4> QED BY <4>1 DEF Respond
      <3> QED BY <1>5, <3>1, <3>2
    <2> QED BY <1>3, <2>1 DEF ListingInv, FoundInv
  <1> QED BY <1>4, <1>5

(* Steps that change neither the input nor what is found.                  *)
LEMMA SameListing ==
  ASSUME ListingInv, UNCHANGED <<request, pc, op, input, at, response, events, page>>
  PROVE  ListingInv'
  <1>1. /\ request' = request /\ pc' = pc /\ op' = op /\ input' = input /\ at' = at
        /\ response' = response /\ events' = events /\ page' = page
    OBVIOUS
  <1>2. Plan' = Plan
    BY <1>1 DEF Plan
  <1>3. Passed' = Passed
    BY <1>1, <1>2 DEF Passed
  <1>4. OpInv' /\ EventsInv'
    BY <1>1 DEF ListingInv, OpInv, EventsInv, RoutedOp
  <1>5. \A s : Finds(s) = Finds(s)'
    BY <1>1 DEF Finds
  <1>6. \A x : Sought(x) => Sought(x)'
    BY <1>1, <1>5 DEF Sought, Wrong
  <1>7. pc' = "run" /\ op' \in Listings => \A x \in Passed' : Sought(x)'
    BY <1>1, <1>3, <1>6 DEF ListingInv, FoundInv
  <1>8. pc' = "done" /\ op' \in Listings /\ response'.status = 200 =>
          page' \in Finds(op)' /\ (op' # "GetUsers" => GoodFilters')
    <2>1. ASSUME NEW s, op = s PROVE Finds(op)' = Finds(s)'
      BY <1>1, <2>1 DEF Finds
    <2>2. Finds(op)' = Finds(op)
      BY <1>5, <2>1
    <2>3. GoodFilters' <=> GoodFilters
      BY <1>1 DEF GoodFilters, Text, Has
    <2> QED BY <1>1, <2>2, <2>3 DEF ListingInv, FoundInv
  <1>9. pc' = "run" => Plan'.params
    BY <1>1, <1>2 DEF ListingInv, FoundInv
  <1>10. FoundInv'
    BY <1>7, <1>8, <1>9 DEF FoundInv
  <1> QED BY <1>4, <1>10 DEF ListingInv

LEMMA RetryListing ==
  ASSUME ListingInv, Retry
  PROVE  ListingInv'
  <1>1. /\ op' = "none" /\ pc' = "docs" /\ request' = request /\ events' = events
    BY DEF Retry, store
  <1> QED BY <1>1 DEF ListingInv, OpInv, EventsInv, FoundInv, RoutedOp

LEMMA NextListing ==
  ASSUME Inv, ListingInv, [Next]_vars
  PROVE  ListingInv'
  <1>1. CASE ServeDocs \/ RouteRequest \/ Decode
    BY <1>1, ServeDocsListing, RouteRequestListing, DecodeListing
  <1>2. CASE RunCheck \/ RunNeedSid \/ RunNeedUser
    BY <1>2, LooksWent, WentOn DEF RunCheck, RunNeedSid, RunNeedUser, Do
  <1>3. CASE ServeCall \/ RefuseCall \/ FailCall
    BY <1>3, CallsWent, WentOn DEF ServeCall, RefuseCall, FailCall, Do
  <1>4. CASE RunOpenSession \/ RunExtend \/ RunDelete
    BY <1>4, SessionWent, WentOn DEF RunOpenSession, RunExtend, RunDelete, Do
  <1>5. CASE RunAnswer
    BY <1>5, AnswerWent, WentOn DEF RunAnswer, Do
  <1>6. CASE SessionChanges \/ NameTaken
    BY <1>6, SameListing DEF SessionChanges, NameTaken
  <1>7. CASE Retry
    BY <1>7, RetryListing
  <1>8. CASE Stop \/ UNCHANGED vars
    BY <1>8, SameListing DEF Stop, vars, store
  <1> QED BY <1>1, <1>2, <1>3, <1>4, <1>5, <1>6, <1>7, <1>8 DEF Next

(* The invariant of the listings holds of every reachable state.           *)
THEOREM ListingInvariant == Spec => []ListingInv
  <1>1. Init => ListingInv
    BY InitListing
  <1>2. Inv /\ ListingInv /\ [Next]_vars => ListingInv'
    BY NextListing
  <1>3. Spec => []Inv
    BY InvInvariant
  <1> QED BY <1>1, <1>2, <1>3, PTL DEF Spec

-----------------------------------------------------------------------------
(* What a listing answers                                                  *)

LEMMA Promises ==
  ASSUME Inv, ListingInv, pc = "done", op \in Listings, response.status = 200
  PROVE  LET all == IF op = "GetUsers" THEN {u \in Users : PromisedUser(u)}
                    ELSE {e \in DOMAIN events : Promised(e)}
         IN  IsFiniteSet(all) /\ page \in Pages(input, all)
  <1>1. page \in Finds(op) /\ (op # "GetUsers" => GoodFilters)
    BY DEF ListingInv, FoundInv
  <1>2. CASE op = "GetUsers"
    <2> DEFINE all == {u \in Users : PromisedUser(u)}
    <2>1. page \in Pages(input, {u \in DOMAIN Accounts : UserMatches(input, u)})
      BY <1>1, <1>2 DEF Finds, GetUsers
    <2>2. {u \in DOMAIN Accounts : UserMatches(input, u)} = all
      BY UsersPromised DEF Users
    <2>3. IsFiniteSet(all)
      BY DocumentsAssumption, FS_Subset DEF Users
    <2> QED BY <1>2, <2>1, <2>2, <2>3
  <1>3. CASE op # "GetUsers"
    <2> DEFINE all == {e \in DOMAIN events : Promised(e)}
    <2>1. op \in {"GetEvents", "GetUserEvents"}
      BY <1>3 DEF Listings
    <2>2. events = Events
      BY <2>1 DEF ListingInv, OpInv, EventsInv
    <2>3. page \in Pages(input, {e \in DOMAIN events : EventMatches(op, input, events, e)})
      BY <1>1, <2>1 DEF Finds, GetEvents
    <2>4. \A e \in DOMAIN events : EventMatches(op, input, events, e) <=> Promised(e)
      BY <1>1, <1>3, <2>1, <2>2, EventsPromised
    <2>5. {e \in DOMAIN events : EventMatches(op, input, events, e)} = all
      BY <2>4
    <2>6. IsFiniteSet(all)
      BY <2>2, DocumentsAssumption, FS_Subset
    <2> QED BY <1>3, <2>3, <2>5, <2>6
  <1> QED BY <1>2, <1>3

(* A page of events or users holds only documents that meet every          *)
(* condition of the description, and all of these when it is not cut:      *)
(* whatever the documents, and whatever the filters of the request.        *)
THEOREM PagesMatch == Spec => []PageOfMatches
  <1>1. ASSUME Inv, ListingInv PROVE PageOfMatches
    <2>1. SUFFICES ASSUME pc = "done", op \in Listings, response.status = 200
                   PROVE  PageOfMatches
      BY DEF PageOfMatches, Listings
    <2> DEFINE all == IF op = "GetUsers" THEN {u \in Users : PromisedUser(u)}
                      ELSE {e \in DOMAIN events : Promised(e)}
    <2>2. IsFiniteSet(all) /\ page \in Pages(input, all)
      BY <1>1, <2>1, Promises
    <2> HIDE DEF all
    <2>3. LET limit == IF Has(input, "limit") THEN input["limit"] ELSE DefaultLimit
          IN  /\ page \subseteq all
              /\ \/ limit # 0 /\ limit < Cardinality(all)
                 \/ Has(input, "offset") /\ input["offset"] # 0
                 \/ page = all
      BY <2>2, WholePage
    <2> QED BY <2>3, Zenon DEF PageOfMatches, all
  <1> QED BY <1>1, ListingInvariant, InvInvariant, PTL
=============================================================================
