------------------------------ MODULE Operations ------------------------------
(***************************************************************************)
(* The generated side of the API, internal/router/ogen: what each          *)
(* operation decodes from a request before its handler runs, and how each  *)
(* type of reply is written to the wire.                                   *)
(*                                                                         *)
(* An input is the function `given` from the names of the values a request *)
(* carries to the values; the Cookie header's value is the session id in   *)
(* it, Blank when it holds none.                                           *)
(***************************************************************************)
EXTENDS Handlers

CONSTANT Categories    \* the values of EventCategory

(* Parameters and fields: where a value stands, its type, whether it must  *)
(* be there.                                                               *)
Value(name, type, required) == [name |-> name, type |-> type, required |-> required]
Cookie == Value("Cookie", "string", FALSE)
Path(name) == Value(name, "path", TRUE)
Query(name) == Value(name, "string", FALSE)
Number(name) == Value(name, "int", FALSE)
Category == Value("category", "category", FALSE)
Required(name) == Value(name, "string", TRUE)

(* A path parameter must not be empty; a number and a category must be     *)
(* one; any text, the empty one too, is a string.                          *)
Decodes(value, given) ==
  IF value.name \notin DOMAIN given THEN ~value.required
  ELSE CASE value.type = "path"     -> given[value.name] # Blank
         [] value.type = "int"      -> given[value.name] \notin {Blank, Bad}
         [] value.type = "category" -> given[value.name] \in Categories
         [] value.type = "string"   -> TRUE

AllDecode(values, given) == \A k \in DOMAIN values : Decodes(values[k], given)

(* Parameters, oas_parameters_gen.go                                       *)
HealthParams == <<Cookie>>
SessionParams == <<Cookie>>
RegisterParams == <<Cookie>>
LoginParams == <<Cookie>>
LogoutParams == <<Cookie>>
GetUsersParams ==
  <<Cookie, Query("id"), Query("name"), Number("limit"), Number("offset")>>
GetUserParams == <<Path("id"), Cookie>>
CreateEventParams == <<Cookie>>
EventFilters ==
  <<Query("title"), Category, Number("price_from"), Number("price_to"),
    Query("address"), Query("city"), Query("date_from"), Query("date_to")>>
GetEventsParams ==
  <<Cookie, Query("id")>> \o EventFilters \o
  <<Query("user_id"), Query("user"), Query("include"),
    Number("limit"), Number("offset")>>
GetUserEventsParams ==
  <<Path("id"), Cookie>> \o EventFilters \o
  <<Query("include"), Number("limit"), Number("offset")>>
GetEventParams == <<Path("id"), Cookie, Query("include")>>
PatchEventParams == <<Path("id"), Cookie>>
LikeEventParams == <<Path("id"), Cookie>>
DislikeEventParams == <<Path("id"), Cookie>>
CreateEventReviewParams == <<Path("event_id"), Cookie>>
GetEventReviewsParams ==
  <<Path("event_id"), Cookie, Number("limit"), Number("offset")>>
UpdateEventReviewParams == <<Path("event_id"), Path("review_id"), Cookie>>
GetRecommendationsParams == <<Cookie>>

-----------------------------------------------------------------------------
(* Bodies.  A request's body is "none" (empty), "type" (no or an unparsable *)
(* Content-Type), "other" (another one than JSON), "text" (not a JSON      *)
(* object, or one with something after it) or "json", a JSON object whose  *)
(* fields are in `given`.                                                  *)
Bodies == {"none", "type", "other", "text", "json"}

UserRegisterRequest ==
  <<Required("full_name"), Required("username"), Required("password")>>
LoginRequest == <<Required("username"), Required("password")>>
CreateEventRequest ==
  <<Required("title"), Query("description"), Required("address"),
    Required("started_at"), Required("finished_at")>>
PatchEventRequest == <<Category, Query("city"), Number("price")>>
CreateReviewRequest == <<Query("comment"), Number("rating")>>
UpdateReviewRequest == <<Query("comment"), Number("rating")>>

(* The status a body is refused with, or 0.                                *)
BodyStatus(fields, body, given) ==
  CASE body = "other" -> 415
    [] body \in {"none", "type", "text"} -> 400
    [] body = "json" -> IF AllDecode(fields, given) THEN 0 ELSE 400

DecodeRegister(body, given) == BodyStatus(UserRegisterRequest, body, given)
DecodeLogin(body, given) == BodyStatus(LoginRequest, body, given)
DecodeCreateEvent(body, given) == BodyStatus(CreateEventRequest, body, given)
DecodePatchEvent(body, given) == BodyStatus(PatchEventRequest, body, given)
DecodeCreateEventReview(body, given) == BodyStatus(CreateReviewRequest, body, given)
DecodeUpdateEventReview(body, given) == BodyStatus(UpdateReviewRequest, body, given)

-----------------------------------------------------------------------------
(* Encoders, oas_response_encoders_gen.go: the reply types an operation    *)
(* may have, their status (0: the reply's own code) and whether they carry *)
(* the Set-Cookie header.                                                  *)
Headers(status) == [status |-> status, cookie |-> TRUE]
Bare(status) == [status |-> status, cookie |-> FALSE]

EncodeHealth == [Data |-> Headers(200)]
EncodeSession ==
  [OK |-> Headers(200), Created |-> Headers(201), Error |-> Headers(0)]
MutEncodeRegister == [Created |-> Bare(201), Error |-> Headers(0)]
EncodeRegister == [Created |-> Headers(201), Error |-> Headers(0)]
EncodeLogin == [NoContent |-> Headers(204), Error |-> Headers(0)]
EncodeLogout ==
  [NoContent |-> Headers(204), Unauthorized |-> Headers(401), Error |-> Headers(0)]
EncodeGetUsers == [Data |-> Headers(200), Error |-> Headers(0)]
EncodeGetUser == [Data |-> Headers(200), Error |-> Headers(0)]
EncodeCreateEvent ==
  [Created |-> Headers(201), Unauthorized |-> Headers(401), Error |-> Headers(0)]
EncodeGetEvents == [Data |-> Headers(200), Error |-> Headers(0)]
EncodeGetUserEvents == [Data |-> Headers(200), Error |-> Headers(0)]
EncodeGetEvent == [Data |-> Headers(200), Error |-> Headers(0)]
EncodePatchEvent ==
  [NoContent |-> Headers(204), Unauthorized |-> Headers(401), Error |-> Headers(0)]
EncodeLikeEvent ==
  [NoContent |-> Headers(204), Unauthorized |-> Bare(401), Error |-> Headers(0)]
EncodeDislikeEvent ==
  [NoContent |-> Headers(204), Unauthorized |-> Bare(401), Error |-> Headers(0)]
EncodeCreateEventReview ==
  [Created |-> Headers(201), Unauthorized |-> Bare(401), Conflict |-> Headers(409),
   Error |-> Headers(0)]
EncodeGetEventReviews == [Data |-> Headers(200), Error |-> Headers(0)]
EncodeUpdateEventReview ==
  [NoContent |-> Headers(204), Unauthorized |-> Bare(401), NotFound |-> Headers(404),
   Error |-> Headers(0)]
EncodeGetRecommendations ==
  [Data |-> Headers(200), Unauthorized |-> Bare(401), Error |-> Headers(0)]

-----------------------------------------------------------------------------
(* Operations, oas_handlers_gen.go: decode the parameters, then the body,  *)
(* then run the handler, then encode its reply.                            *)
Bodyless == 0

Operation(params, given, refusal, steps, encode) ==
  [params |-> AllDecode(params, given), body |-> refusal,
   steps |-> steps, encode |-> encode]

HandleHealth(body, given) ==
  Operation(HealthParams, given, Bodyless, APIHealth, EncodeHealth)
HandleSession(body, given) ==
  Operation(SessionParams, given, Bodyless, APISession, EncodeSession)
HandleRegister(body, given) ==
  Operation(RegisterParams, given, DecodeRegister(body, given), APIRegister,
            EncodeRegister)
HandleLogin(body, given) ==
  Operation(LoginParams, given, DecodeLogin(body, given), APILogin, EncodeLogin)
HandleLogout(body, given) ==
  Operation(LogoutParams, given, Bodyless, APILogout, EncodeLogout)
HandleGetUsers(body, given) ==
  Operation(GetUsersParams, given, Bodyless, APIGetUsers, EncodeGetUsers)
HandleGetUser(body, given) ==
  Operation(GetUserParams, given, Bodyless, APIGetUser, EncodeGetUser)
HandleCreateEvent(body, given) ==
  Operation(CreateEventParams, given, DecodeCreateEvent(body, given), APICreateEvent,
            EncodeCreateEvent)
HandleGetEvents(body, given) ==
  Operation(GetEventsParams, given, Bodyless, APIGetEvents, EncodeGetEvents)
HandleGetUserEvents(body, given) ==
  Operation(GetUserEventsParams, given, Bodyless, APIGetUserEvents,
            EncodeGetUserEvents)
HandleGetEvent(body, given) ==
  Operation(GetEventParams, given, Bodyless, APIGetEvent, EncodeGetEvent)
HandlePatchEvent(body, given) ==
  Operation(PatchEventParams, given, DecodePatchEvent(body, given), APIPatchEvent,
            EncodePatchEvent)
HandleLikeEvent(body, given) ==
  Operation(LikeEventParams, given, Bodyless, APILikeEvent, EncodeLikeEvent)
HandleDislikeEvent(body, given) ==
  Operation(DislikeEventParams, given, Bodyless, APIDislikeEvent,
            EncodeDislikeEvent)
HandleCreateEventReview(body, given) ==
  Operation(CreateEventReviewParams, given, DecodeCreateEventReview(body, given),
            APICreateEventReview, EncodeCreateEventReview)
HandleGetEventReviews(body, given) ==
  Operation(GetEventReviewsParams, given, Bodyless, APIGetEventReviews,
            EncodeGetEventReviews)
HandleUpdateEventReview(body, given) ==
  Operation(UpdateEventReviewParams, given, DecodeUpdateEventReview(body, given),
            APIUpdateEventReview, EncodeUpdateEventReview)
HandleGetRecommendations(body, given) ==
  Operation(GetRecommendationsParams, given, Bodyless, APIGetRecommendations,
            EncodeGetRecommendations)

Handle(op, body, given) ==
  CASE op = "Health"             -> HandleHealth(body, given)
    [] op = "Session"            -> HandleSession(body, given)
    [] op = "Register"           -> HandleRegister(body, given)
    [] op = "Login"              -> HandleLogin(body, given)
    [] op = "Logout"             -> HandleLogout(body, given)
    [] op = "GetUsers"           -> HandleGetUsers(body, given)
    [] op = "GetUser"            -> HandleGetUser(body, given)
    [] op = "CreateEvent"        -> HandleCreateEvent(body, given)
    [] op = "GetEvents"          -> HandleGetEvents(body, given)
    [] op = "GetUserEvents"      -> HandleGetUserEvents(body, given)
    [] op = "GetEvent"           -> HandleGetEvent(body, given)
    [] op = "PatchEvent"         -> HandlePatchEvent(body, given)
    [] op = "LikeEvent"          -> HandleLikeEvent(body, given)
    [] op = "DislikeEvent"       -> HandleDislikeEvent(body, given)
    [] op = "CreateEventReview"  -> HandleCreateEventReview(body, given)
    [] op = "GetEventReviews"    -> HandleGetEventReviews(body, given)
    [] op = "UpdateEventReview"  -> HandleUpdateEventReview(body, given)
    [] op = "GetRecommendations" -> HandleGetRecommendations(body, given)
=============================================================================
