----------------------------- MODULE HttpRequest -----------------------------
(***************************************************************************)
(* What the HTTP adapter does with a request before a handler sees it: the *)
(* authority, the origin, the preflight, the static assets, the owner's    *)
(* token, the route, its identifiers, query and cursors, and the body      *)
(* (http_api/router.rs, boundary.rs, input.rs, assets.rs, wire.rs and      *)
(* router/conversation.rs).                                                *)
(*                                                                         *)
(* A request is a record of what the checks tell apart: a header is the    *)
(* verdict of its parser, a path is its route.  Requests are made by       *)
(* altering fields of well-formed ones.                                    *)
(***************************************************************************)
EXTENDS Naturals, Sequences

CONSTANT MaxAltered   \* bound on the fields altered

VARIABLES request, altered

requestVars == <<request, altered>>

-----------------------------------------------------------------------------
(***************************************************************************)
(* Routes.                                                                 *)
(***************************************************************************)

Commanding == {"rename", "refresh", "cancel", "tasks", "reconcile_task"}
Reading == {"settings", "session", "history", "conversation", "conversation_entry",
            "conversation_content", "conversation_events", "run", "operation", "events"}
Routes == Commanding \cup Reading \cup {"sessions"}

supports(route, method) ==
    CASE route = "sessions" -> method \in {"GET", "POST"}
      [] route \in Commanding -> method = "POST"
      [] OTHER -> method = "GET"

query_keys(route, method) ==
    CASE route = "sessions" /\ method = "GET" -> {"after_id", "limit"}
      [] route = "history" -> {"after", "through", "limit"}
      [] route \in {"events", "conversation_events"} -> {"after"}
      [] route = "conversation" -> {"before", "within"}
      [] route = "conversation_content" -> {"cursor"}
      [] OTHER -> {}

Keys == {"after", "after_id", "before", "cursor", "limit", "through", "within"}

\* A query field without "=", with a bad escape, unknown, or repeated.
query(r, method) ==
    r.spelled /\ r.keys \subseteq query_keys(r.route, method)

-----------------------------------------------------------------------------
(***************************************************************************)
(* Checks, in the order of the code: each is a verdict and the error.      *)
(***************************************************************************)

Check(holds, name, error) == [holds |-> holds, name |-> name, error |-> error]

\* The first check that fails.
Refused(checks) ==
    LET failed == {i \in DOMAIN checks : ~checks[i].holds}
    IN  IF failed = {} THEN Check(TRUE, "none", "none")
        ELSE checks[CHOOSE i \in failed : \A j \in failed : i <= j]

\* check_authority and check_origin: one Host, of the public origin or of the
\* listener; an absolute target names the same; no Origin or the public one.
Boundary(r) ==
    << Check(r.host \in {"public", "listener"}, "host", "authority_invalid"),
       Check(r.target \in {"relative", "same"}, "host", "authority_invalid"),
       Check(r.origin \in {"none", "public"}, "origin", "origin_forbidden") >>

\* Fault: the query is read as the one of a GET.
AskedQueryOfGet(r) == query(r, "GET")

\* The query is the one of the method asked for.
AskedQuery(r) == query(r, r.asks)

\* Fault: the header that resumes a stream is not among them.
KnownOfCommands == {"authorization", "content-type"}

Known == {"authorization", "content-type", "last-event-id"}

\* Only headers that the interface knows are asked for, each once.
preflight_headers(r) == Check(r.names \subseteq Known, "names", "invalid_request")

preflight(r) ==
    << Check(r.origin # "none", "origin", "origin_forbidden"),
       Check(r.route \in Routes, "route", "not_found"),
       Check(r.ids, "ids", "invalid_request"),
       Check(r.asks \notin {"none", "many"}, "asks", "invalid_request"),
       Check(supports(r.route, r.asks), "method", "method_not_allowed"),
       preflight_headers(r),
       Check(AskedQuery(r), "query", "invalid_request") >>

IsAsset(r) == r.route = "asset" /\ r.method \in {"GET", "HEAD"}

\* An asset needs no token, no query, and a body known to be empty.
assets(r) == << Check(r.keys = {} /\ r.spelled /\ r.body = "empty", "asset", "invalid_request") >>

authenticate(r) == << Check(r.token = "owner", "token", "unauthorized") >>

Has(r, key) == key \in r.keys
Good(r, key) == Has(r, key) => key \notin r.bad

\* Read::parse of the display reads.
Display(r) ==
    << Check(r.route = "conversation" => ~(Has(r, "before") /\ Has(r, "within")),
             "display", "invalid_request"),
       Check(r.route = "conversation_content" => Has(r, "cursor"), "display", "invalid_request"),
       Check(r.route = "conversation_events" => Has(r, "after"), "display", "invalid_request"),
       Check(r.route = "conversation_events" => r.last \in {"none", "same"},
             "display", "conversation_cursor_invalid"),
       Check(r.route \in {"conversation", "conversation_content", "conversation_events"}
                => Good(r, "before") /\ Good(r, "within") /\ Good(r, "cursor") /\ Good(r, "after"),
             "display", "conversation_cursor_invalid"),
       Check(r.route = "conversation_entry" => r.entry, "display",
             "conversation_cursor_invalid") >>

\* Limits, identifiers and cursors of the raw reads.  The query and the
\* Last-Event-ID of a raw event stream must agree; either will do alone.
Cursors(r) ==
    << Check(Good(r, "limit") /\ Good(r, "after_id"), "cursor", "invalid_request"),
       Check(r.route \in {"history", "events"} => Good(r, "after"), "cursor", "cursor_invalid"),
       Check(r.route = "events" =>
                r.last \in {"none", "same"} \cup (IF Has(r, "after") THEN {} ELSE {"other"}),
             "cursor", "cursor_invalid"),
       Check(Good(r, "through"), "cursor", "cursor_invalid") >>

\* input::body and input::json.
Body(r) ==
    LET post == r.method = "POST"
    IN << Check(r.coding \in {"none", "identity"}, "body", "unsupported_media"),
          Check(post => r.media, "body", "unsupported_media"),
          Check(r.length # "bad", "body", "invalid_request"),
          Check(r.length # "large" /\ r.body # "large", "body", "body_too_large"),
          Check(r.body # "broken", "body", "invalid_request"),
          Check(~post => r.body = "empty", "body", "invalid_request"),
          Check(post => r.body = "command", "body", "invalid_request") >>

Routed(r) ==
    << Check(r.route \in Routes, "route", "not_found"),
       Check(supports(r.route, r.method), "method", "method_not_allowed"),
       Check(r.ids, "ids", "invalid_request"),
       Check(query(r, r.method), "query", "invalid_request") >>

\* handle and dispatch, up to the handler of the route.
handle(r) ==
    Refused(Boundary(r) \o
            (IF r.method = "OPTIONS" THEN preflight(r)
             ELSE IF IsAsset(r) THEN assets(r)
             ELSE authenticate(r) \o Routed(r) \o Display(r) \o Cursors(r) \o Body(r)))

-----------------------------------------------------------------------------

Headers == {"authorization", "content-type", "last-event-id", "content-encoding", "extra"}

\* What a client of the public origin sends.
WellFormed(route, method) ==
    [host |-> "public", target |-> "relative", origin |-> "public", method |-> method,
     route |-> route, ids |-> TRUE, entry |-> TRUE, asks |-> "none", names |-> {},
     token |-> "owner", spelled |-> TRUE,
     keys |-> CASE route = "conversation_content" -> {"cursor"}
                [] route = "conversation_events" -> {"after"}
                [] OTHER -> {},
     bad |-> {}, last |-> "none", coding |-> "none", extra |-> FALSE,
     media |-> method = "POST", length |-> "good",
     body |-> IF method = "POST" THEN "command" ELSE "empty"]

\* The headers of a request that a browser asks for ahead of it: those that it does
\* not send to any site unasked.  Nothing reads the one called "extra".
Carried(r) ==
    {h \in Headers :
        \/ h = "authorization" /\ r.token # "none"
        \/ h = "content-type" /\ r.media
        \/ h = "last-event-id" /\ r.last # "none"
        \/ h = "content-encoding" /\ r.coding # "none"
        \/ h = "extra" /\ r.extra}

\* The request that a browser sends ahead of r.
Ahead(r) ==
    [WellFormed(r.route, "OPTIONS") EXCEPT
        !.host = r.host, !.target = r.target, !.origin = r.origin, !.ids = r.ids,
        !.asks = r.method, !.names = Carried(r), !.spelled = r.spelled, !.keys = r.keys]

\* The request without the headers that a preflight never grants.
Bare(r) == [r EXCEPT !.coding = "none", !.extra = FALSE]

RequestInit ==
    /\ \E route \in Routes, method \in {"GET", "POST"} :
          supports(route, method) /\ request = WellFormed(route, method)
    /\ altered = 0

Values(field) ==
    CASE field = "host" -> {"public", "listener", "other", "none", "many"}
      [] field = "target" -> {"relative", "same", "other", "strange"}
      [] field = "origin" -> {"none", "public", "other", "many"}
      [] field = "method" -> {"GET", "POST", "HEAD", "OPTIONS"}
      [] field = "route" -> Routes \cup {"asset", "unknown"}
      [] field = "asks" -> {"none", "many", "GET", "POST", "PUT"}
      [] field = "token" -> {"owner", "other", "none", "many"}
      [] field = "keys" -> {{}} \cup {{k} : k \in Keys} \cup {{"before", "within"}, {"after", "through"}}
      [] field = "bad" -> {{}, Keys}
      [] field = "last" -> {"none", "same", "other", "bad", "many"}
      [] field = "names" -> {{}, Known, {"content-encoding"}, {"again"}}
      [] field = "coding" -> {"none", "identity", "other", "many"}
      [] field = "length" -> {"good", "bad", "large"}
      [] field = "body" -> {"empty", "command", "wrong", "broken", "large"}
      [] OTHER -> BOOLEAN

Alter ==
    /\ altered < MaxAltered
    /\ \E field \in DOMAIN request : \E value \in Values(field) :
          request' = [request EXCEPT ![field] = value]
    /\ altered' = altered + 1

RequestSpec == RequestInit /\ [][Alter]_requestVars

\* What a request can be refused for whatever its token, its cursors and its body.
Addressing == {"host", "origin", "route", "method", "ids", "query"}

\* Preflight and request agree, the preflight asking for the headers that the
\* request carries.  A browser that was told 204 for a method, a path with its query
\* and its headers is not then refused for the host, the origin, the route, the
\* method, the identifiers or the query.  A request that is not refused for one of
\* these is granted its preflight, but for the headers that no preflight grants
\* (Content-Encoding: identity is answered and not granted), and a request that
\* reaches its handler also does so without those (preflight, preflight_headers,
\* dispatch, input::body).
PreflightAgrees ==
    LET r == request
        told == handle(Ahead(r)).name
        then == handle([r EXCEPT !.token = "owner"]).name
    IN  r.method \in {"GET", "POST"} /\ r.origin = "public" /\ ~IsAsset(r) =>
            /\ told = "none" => then \notin Addressing
            /\ then \notin Addressing => handle(Ahead(Bare(r))).name = "none"
            /\ handle(r).name = "none" => handle(Bare(r)).name = "none"
=============================================================================
