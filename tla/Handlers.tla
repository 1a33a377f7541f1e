------------------------------- MODULE Handlers -------------------------------
(***************************************************************************)
(* The eighteen handlers of internal/router/handler.go.  A handler is a    *)
(* straight line of steps, each of which may end it with a reply: a check  *)
(* of the input, the look at the session, a call of a service, the         *)
(* extension of the session, the answer.  A definition lists them in the   *)
(* order of the code; Api says what each kind of step does.                *)
(***************************************************************************)
EXTENDS Naturals, Sequences

CONSTANTS Blank,   \* the empty string, where a value is expected
          Bad      \* a value that does not parse

(* A reply names the type the handler returns, the code of an error, and   *)
(* the Set-Cookie it carries: the request's session id ("echo"), that or   *)
(* the one of a session opened by the handler ("opened"), an order to drop *)
(* the session id ("drop"), the empty header of NewInternalError ("blank") *)
(* or none.                                                                *)
Reply(type, cookie) == [type |-> type, code |-> 0, cookie |-> cookie]
ErrorReply(code) == [type |-> "Error", code |-> code, cookie |-> "echo"]
InternalError == [type |-> "Error", code |-> 500, cookie |-> "blank"]

Unauthorized == Reply("Unauthorized", "echo")
BareUnauthorized == Reply("Unauthorized", "none")

(* The kinds of step.                                                      *)
Check(test, field, reply) ==
  [do |-> "check", test |-> test, field |-> field, reply |-> reply]
NeedSid(reply) == [do |-> "sid", reply |-> reply]
NeedUser(reply) == [do |-> "session", reply |-> reply]
Call(service, refusals) == [do |-> "call", service |-> service, refusals |-> refusals]
OpenSession(who, kept) == [do |-> "open", who |-> who, kept |-> kept]
Extend == [do |-> "extend"]
Delete == [do |-> "delete"]
AnswerIfOpened(reply) == [do |-> "opened", reply |-> reply]
Answer(type, cookie) == [do |-> "answer", reply |-> Reply(type, cookie)]

NoRefusal == [why \in {} |-> InternalError]
Missing == [missing |-> ErrorReply(404)]

NotEmpty(field) == Check("empty", field, ErrorReply(400))
ParseRFC3339(field) == Check("timestamp", field, ErrorReply(400))
NotNegative(field) == Check("negative", field, ErrorReply(400))
ParseDate(field) == Check("date", field, ErrorReply(400))
Page == <<NotNegative("limit"), NotNegative("offset")>>

(* What a check finds wrong in the decoded input.                          *)
Wrong(test, field, given) ==
  CASE test = "empty"     -> given[field] = Blank
    [] test = "timestamp" -> given[field] \in {Blank, Bad}
    [] test = "negative"  -> field \in DOMAIN given /\ given[field] < 0
    [] test = "date"      -> field \in DOMAIN given /\ given[field] = Bad
    [] test = "missing"   -> field \notin DOMAIN given
    [] test = "unset"     -> field \notin DOMAIN given \/ given[field] = Blank

-----------------------------------------------------------------------------
(* Sessions and users                                                      *)

APIHealth == <<Answer("Data", "header")>>

MutAPISession ==
  <<OpenSession("nobody", FALSE), AnswerIfOpened(Reply("Created", "opened"))>>

APISession ==
  <<OpenSession("nobody", FALSE),
    AnswerIfOpened(Reply("Created", "opened")),
    Answer("OK", "opened")>>

(* The only 401 a login gives is the same for a missing name, a missing    *)
(* password, an unknown name and a wrong password.                         *)
APILogin ==
  <<Check("empty", "username", ErrorReply(401)),
    Check("empty", "password", ErrorReply(401)),
    Call("Authenticate", [credentials |-> ErrorReply(401)]),
    OpenSession("account", FALSE),
    Answer("NoContent", "opened")>>

(* A registration with a session id leaves the session as it is.           *)
APIRegister ==
  <<NotEmpty("full_name"), NotEmpty("username"), NotEmpty("password"),
    Call("Register", [exists |-> ErrorReply(409)]),
    OpenSession("account", TRUE),
    Answer("Created", "opened")>>

APILogout ==
  <<NeedSid(Unauthorized), Delete, Answer("NoContent", "drop")>>

APIGetUsers == Page \o <<Call("GetUsers", NoRefusal), Answer("Data", "echo")>>

APIGetUser == <<Call("GetUser", Missing), Answer("Data", "echo")>>

-----------------------------------------------------------------------------
(* Events                                                                  *)

APICreateEvent ==
  <<NeedSid(Unauthorized),
    NotEmpty("title"), NotEmpty("address"),
    ParseRFC3339("started_at"), ParseRFC3339("finished_at"),
    NeedUser(Unauthorized),
    Call("CreateEvent", [exists |-> ErrorReply(409)]),
    Extend, Answer("Created", "echo")>>

PriceRange == <<NotNegative("price_from"), NotNegative("price_to")>>
DateRange == <<ParseDate("date_from"), ParseDate("date_to")>>

APIGetEvents ==
  Page \o PriceRange \o DateRange \o
  <<Call("GetEvents", NoRefusal), Answer("Data", "echo")>>

APIGetUserEvents ==
  <<Call("GetUser", Missing)>> \o Page \o PriceRange \o DateRange \o
  <<Call("GetUserEvents", NoRefusal), Answer("Data", "echo")>>

APIGetEvent == <<Call("GetEvent", Missing), Answer("Data", "echo")>>

MutAPIPatchEvent ==
  <<Call("GetEvent", Missing),
    NeedSid(Unauthorized), NeedUser(Unauthorized),
    Call("PatchEvent", Missing),
    NotNegative("price"), Extend, Answer("NoContent", "echo")>>

(* The event is looked up before the session: an unknown event is 404 even *)
(* to a client that is not logged in.                                      *)
APIPatchEvent ==
  <<Call("GetEvent", Missing),
    NeedSid(Unauthorized), NeedUser(Unauthorized),
    NotNegative("price"),
    Call("PatchEvent", Missing),
    Extend, Answer("NoContent", "echo")>>

(* validateReactionSession, shared by the two reactions.                   *)
ReactionSession == <<NeedSid(BareUnauthorized), NeedUser(BareUnauthorized)>>

APILikeEvent ==
  ReactionSession \o
  <<Call("LikeEvent", Missing), Extend, Answer("NoContent", "echo")>>

APIDislikeEvent ==
  ReactionSession \o
  <<Call("DislikeEvent", Missing), Extend, Answer("NoContent", "echo")>>

-----------------------------------------------------------------------------
(* Reviews and recommendations                                             *)

APICreateEventReview ==
  <<Check("unset", "comment", ErrorReply(400)),
    Check("missing", "rating", ErrorReply(400)),
    NeedSid(BareUnauthorized), NeedUser(BareUnauthorized),
    Call("CreateReview", [exists |-> Reply("Conflict", "echo"),
                          missing |-> ErrorReply(404)]),
    Extend, Answer("Created", "echo")>>

APIGetEventReviews ==
  Page \o <<Call("GetReviews", Missing), Answer("Data", "echo")>>

(* Someone else's review is answered like a missing one.                   *)
APIUpdateEventReview ==
  <<NeedSid(BareUnauthorized), NeedUser(BareUnauthorized),
    Call("UpdateReview", [missing |-> Reply("NotFound", "echo"),
                          foreign |-> Reply("NotFound", "echo")]),
    Extend, Answer("NoContent", "echo")>>

MutAPIGetRecommendations ==
  <<NeedSid(BareUnauthorized),
    Call("GetRecommendations", NoRefusal), Answer("Data", "echo")>>

APIGetRecommendations ==
  <<NeedSid(BareUnauthorized), NeedUser(BareUnauthorized),
    Call("GetRecommendations", NoRefusal), Answer("Data", "echo")>>
=============================================================================
