------------------------------ MODULE HttpGate ------------------------------
(***************************************************************************)
(* The way of a request through the HTTP server: the source-address check, *)
(* the private-network answer, CORS, the API token, the body limit, the    *)
(* route table, and what each JSON handler makes of the body and of the    *)
(* engine's answer (http.rs, http/middleware/, http/api.rs).               *)
(*                                                                         *)
(* An address is the network it is in and whether it arrived as an IPv4    *)
(* address mapped into IPv6; "v6" is the one IPv6 network.  A range is a   *)
(* network, or "any4" or "any6", all of a family.  A request may carry     *)
(* several X-Forwarded-For lines; each is text or not (`ascii`) and lists  *)
(* hops.                                                                   *)
(***************************************************************************)
EXTENDS Integers, Sequences, FiniteSets, SequencesExt

CONSTANT MaxRate   \* the largest byte rate, 2^32 - 1 in the code

ASSUME MaxRateAssumption == MaxRate \in Nat \ {0}

None == "none"

-----------------------------------------------------------------------------
(* The source-address policy.                                              *)

\* A configured list, blank entries skipped; one bad entry refuses it all.
parse(list) ==
    IF Contains(list, "junk") THEN [ok |-> FALSE, nets |-> {}]
    ELSE [ok |-> TRUE, nets |-> ToSet(list) \ {"blank"}]

Acl(allow, proxies) ==
    [ok      |-> parse(allow).ok /\ parse(proxies).ok,
     allow   |-> parse(allow).nets,
     proxies |-> parse(proxies).nets]

unmap(ip) == [ip EXCEPT !.mapped = FALSE]
InRange(ip, range) ==
    /\ ~ip.mapped
    /\ \/ range = ip.net
       \/ range = IF ip.net = "v6" THEN "any6" ELSE "any4"

allows_everything(acl) == acl.allow \cap {"any4", "any6"} # {}
allows(acl, ip) == \E r \in acl.allow : InRange(unmap(ip), r)
is_proxy(acl, ip) == \E r \in acl.proxies : InRange(unmap(ip), r)

\* A hop is an address in one of the forms the header may hold, or junk.
parse_hop(hop) == IF hop.form = "junk" THEN <<>> ELSE <<hop.ip>>

\* The hops of X-Forwarded-For that name an address of no trusted proxy.
Untrusted(acl, xff) ==
    {i \in DOMAIN xff : parse_hop(xff[i]) # <<>> /\ ~is_proxy(acl, xff[i].ip)}

\* The real client: the peer, or behind a trusted proxy the last untrusted hop.
LeftmostHop(acl, peer, xff) ==  \* mistake: the first hop is believed
    IF ~is_proxy(acl, peer) \/ Untrusted(acl, xff) = {} THEN unmap(peer)
    ELSE LET i == CHOOSE i \in Untrusted(acl, xff) : \A j \in Untrusted(acl, xff) : i <= j
         IN  unmap(xff[i].ip)
client_ip(acl, peer, xff) ==
    IF ~is_proxy(acl, peer) \/ Untrusted(acl, xff) = {} THEN unmap(peer)
    ELSE LET i == CHOOSE i \in Untrusted(acl, xff) : \A j \in Untrusted(acl, xff) : i >= j
         IN  unmap(xff[i].ip)

-----------------------------------------------------------------------------
(* Routes and handlers.                                                    *)

Route(path, method, handler) == [path |-> path, method |-> method, handler |-> handler]
MoviePath == "/api/movies/{imdb_id}"
routes ==
    {Route("/", "GET", "index"), Route("/healthz", "GET", "healthz"),
     Route("/metrics", "GET", "prometheus"), Route("/api", "GET", "api_root"),
     Route("/api/openapi.json", "GET", "openapi"), Route("/api/status", "GET", "api_status"),
     Route("/api/budget", "GET", "api_budget"), Route("/api/session", "GET", "api_session"),
     Route("/api/events", "GET", "api_events"), Route("/api/config", "GET", "api_config"),
     Route("/api/trackers", "GET", "api_trackers"),
     Route("/api/trackers", "POST", "api_trackers_refresh"),
     Route("/api/pause", "GET", "api_pause_get"), Route("/api/pause", "PUT", "api_pause_put"),
     Route("/api/pause", "DELETE", "api_pause_delete"),
     Route("/api/movies", "GET", "api_list"), Route("/api/movies", "POST", "api_add"),
     Route(MoviePath, "GET", "api_get"),
     Route(MoviePath, "PATCH", "api_patch"),
     Route(MoviePath, "DELETE", "api_delete")}

\* The routes of the playback protocols, merged at the root.
playback ==
    {Route("/manifest.json", "GET", "manifest"), Route("/catalog", "GET", "catalog"),
     Route("/meta", "GET", "meta"), Route("/stream", "GET", "stream"),
     Route("/video", "GET", "video"), Route("/dlna/video", "GET", "dlna_video")}
AllRoutes == routes \cup playback
ApiPaths == {r.path : r \in {q \in routes : q.path \notin {"/", "/healthz", "/metrics"}}}

\* The engine's typed failures; any other error is a 500.
FaultKind == {"NotFound", "Conflict", "Invalid", "NoSpace", "Upstream"}

\* The status of an engine error, by its fault kind.
StatusOf(fault) ==
    CASE fault = "NotFound" -> 404
      [] fault = "Conflict" -> 409
      [] fault = "Invalid"  -> 422
      [] fault = "NoSpace"  -> 507
      [] fault = "Upstream" -> 502
      [] OTHER              -> 500

Refused(status) == [status |-> status, ran |-> None, pna |-> FALSE]
Ran(handler, status) == [status |-> status, ran |-> handler, pna |-> FALSE]

\* The JSON extractor: 0, or the status it refuses the body with.
AppJson(body) ==
    CASE body \in {"none", "untyped"} -> 415
      [] body = "data"    -> 422
      [] body \in {"syntax", "huge"} -> 400
      [] OTHER -> 0

\* PUT /api/pause reads the bytes itself; an empty body is the default pause.
PauseBody(body) ==
    CASE body = "huge" -> 413
      [] body \in {"syntax", "data", "bad_duration"} -> 422
      [] OTHER -> 0

-----------------------------------------------------------------------------
(* PATCH: which bodies are turned away before the engine is asked.  A      *)
(* value is a tag and, for a number or a size, the number.                 *)

Fields == {"last_used_at", "download_limit", "upload_limit", "peer_limit"}
MaxPeers == 10000

ValidRate(v) == v.tag = "null" \/ (v.tag \in {"number", "size"} /\ v.n \in 1..MaxRate)
ValidPeers(v) == v.tag = "null" \/ (v.tag = "number" /\ v.n \in 1..MaxPeers)
ValidStamp(v) == v.tag \in {"now", "number"}
ValidField(key, v) ==
    CASE key = "last_used_at" -> ValidStamp(v)
      [] key = "peer_limit"   -> ValidPeers(v)
      [] OTHER                -> ValidRate(v)

\* Unknown fields and an empty patch come first, then the stamp; the limits are
\* read against the movie's row, so a missing movie hides a bad limit.
api_patch(patch, fault) ==
    LET keys   == DOMAIN patch
        limits == keys \ {"last_used_at"}
    IN  IF keys \ Fields # {} \/ keys = {} THEN Ran(None, 422)
        ELSE IF \E k \in keys \cap {"last_used_at"} : ~ValidField(k, patch[k]) THEN Ran(None, 422)
        ELSE IF limits # {} /\ fault = "NotFound" THEN Ran(None, 404)
        ELSE IF \E k \in limits : ~ValidField(k, patch[k]) THEN Ran(None, 422)
        ELSE Ran("api_patch", IF fault = None THEN 200 ELSE StatusOf(fault))

\* What a handler makes of the engine's answer.
Answers(handler, fault, success) == Ran(handler, IF fault = None THEN success ELSE StatusOf(fault))

\* 503 whatever makes the probe fail.
healthz(req) == Ran("healthz", IF req.fault = None THEN 200 ELSE 503)
api_pause_put(req) ==
    IF PauseBody(req.body) # 0 THEN Refused(PauseBody(req.body))
    ELSE Answers("api_pause_put", req.fault, 200)
api_add(req) ==
    IF AppJson(req.body) # 0 THEN Refused(AppJson(req.body)) ELSE Answers("api_add", req.fault, 201)
api_delete(req) == Answers("api_delete", req.fault, 204)
\* The handlers that take no body and answer 200.
Plain(handler, req) == Answers(handler, req.fault, 200)

Handle(handler, req) ==
    CASE handler = "healthz" -> healthz(req)
      [] handler = "api_pause_put" -> api_pause_put(req)
      [] handler = "api_add" -> api_add(req)
      [] handler = "api_patch" ->
           IF AppJson(req.body) # 0 THEN Refused(AppJson(req.body))
           ELSE api_patch(req.patch, req.fault)
      [] handler = "api_delete" -> api_delete(req)
      [] OTHER -> Plain(handler, req)

\* GET routes answer HEAD too.
Routed(req) ==
    LET here  == {r \in AllRoutes : r.path = req.path}
        found == {r \in here : r.method = IF req.method = "HEAD" THEN "GET" ELSE req.method}
    IN  IF here = {} THEN Refused(404)
        ELSE IF found = {} THEN Refused(405)
        ELSE Handle((CHOOSE r \in found : TRUE).handler, req)

-----------------------------------------------------------------------------
(* The layers, innermost first.                                            *)

ApiToken(token) == IF token = "" THEN None ELSE token

Protected(req) == req.path \in ApiPaths /\ req.method \notin {"GET", "HEAD", "OPTIONS"}

\* The Bearer token wins over X-Api-Token when both are sent.
Presented(req) == IF req.bearer # None THEN req.bearer ELSE req.api_token

require_token(cfg, req) ==
    LET token == ApiToken(cfg.token) IN
    IF token = None \/ ~Protected(req) \/ Presented(req) = token THEN Routed(req)
    ELSE Refused(401)

\* CORS answers every OPTIONS request itself.
Cors(cfg, req) == IF req.method = "OPTIONS" THEN Refused(200) ELSE require_token(cfg, req)

allow_private_network(cfg, req) == [Cors(cfg, req) EXCEPT !.pna = req.asked]

\* The hops that are looked at: those of the first header line, if it is text.
Forwarded(req) ==
    IF req.xff # <<>> /\ Head(req.xff).ascii THEN Head(req.xff).hops ELSE <<>>

\* A request that came over no socket has no peer and is let through.
require_allowed_source(cfg, req) ==
    IF \/ allows_everything(cfg.acl)
       \/ req.peer = <<>>
       \/ allows(cfg.acl, client_ip(cfg.acl, req.peer[1], Forwarded(req)))
    THEN allow_private_network(cfg, req)
    ELSE Refused(403)

shared(cfg, req) == require_allowed_source(cfg, req)

\* The writes of the API, the handlers that change something.
Writes == {"api_trackers_refresh", "api_pause_put", "api_pause_delete", "api_add",
           "api_patch", "api_delete"}
=============================================================================
