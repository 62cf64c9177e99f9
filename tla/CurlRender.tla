------------------------------ MODULE CurlRender ------------------------------
(***************************************************************************)
(* render.Curl (src/internal/render/curl.go): a request becomes a cURL     *)
(* command, with what looks like a credential replaced; and the headers a  *)
(* captured request has been forwarded with (roundTrip of                  *)
(* src/internal/capture/proxy.go), which is what Curl gets of it.          *)
(*                                                                         *)
(* A command is the record of its arguments: quoting, their order and the  *)
(* fixed ones are left out.  http.Header and url.Values are functions from *)
(* names to non-empty sequences of values, a JSON object or array has its  *)
(* items, and a URL or body that parses is its parsed form.                *)
(***************************************************************************)
EXTENDS Naturals, SequencesExt

CONSTANTS
    Folded(_),     \* a name in lower case, with - for _
    Canonical(_),  \* http.CanonicalHeaderKey
    Mentioning,    \* the folded names that contain token, secret or password
    JSONValues,    \* the JSON values a body may have, with their parts
    Depth(_)       \* how deep a JSON value is

Redacted == "[REDACTED]"
NoBody   == [form |-> "none"]
Text(text)  == [kind |-> "text", text |-> text]
Compound(v) == v.kind \in {"object", "array"}

IsFunction(f) == f = [n \in DOMAIN f |-> f[n]]

\* What encoding/json makes of a body is a finite tree.
ASSUME JSONAssumption ==
    \A v \in JSONValues :
        /\ Depth(v) \in Nat
        /\ Compound(v) =>
              /\ v = [kind |-> v.kind, items |-> v.items] /\ IsFunction(v.items)
              /\ \A n \in DOMAIN v.items : v.items[n] \in JSONValues /\ Depth(v.items[n]) < Depth(v)

Values(map, name)     == IF name \in DOMAIN map THEN map[name] ELSE <<>>
Get(map, name)        == IF name \in DOMAIN map THEN map[name][1] ELSE ""
Put(map, name, value) == [n \in DOMAIN map \cup {name} |-> IF n = name THEN <<value>> ELSE map[n]]

\* config.ApplyHeaders: a later header replaces an earlier one of its name.
ApplyHeaders(headers, list) ==
    LET after[i \in 0..Len(list)] ==
            IF i = 0 THEN headers ELSE Put(after[i - 1], list[i].name, list[i].value)
    IN  after[Len(list)]

-----------------------------------------------------------------------------
(* Redaction. *)

sensitiveNames == {"api-key", "apikey", "authorization", "client-secret", "cookie", "password",
    "passwd", "proxy-authorization", "refresh-token", "secret", "set-cookie", "token",
    "x-api-key", "x-auth-token"}

IsSensitive(name) == Folded(name) \in sensitiveNames \cup Mentioning

\* A name with several values keeps one.
RedactValues(map) == [n \in DOMAIN map |-> IF IsSensitive(n) THEN <<Redacted>> ELSE map[n]]
HasSensitive(map) == \E n \in DOMAIN map : IsSensitive(n)

RedactURL(url) == IF url.kind = "malformed" THEN url ELSE [url EXCEPT !.query = RedactValues(@)]

\* The children after the first that held something are not looked at.
RedactEarly[v \in JSONValues] ==
    IF ~Compound(v) THEN [value |-> v, changed |-> FALSE]
    ELSE IF v.kind = "object" /\ HasSensitive(v.items)
    THEN [value |-> [v EXCEPT !.items = [n \in DOMAIN @ |-> IF IsSensitive(n) THEN Text(Redacted) ELSE @[n]]],
          changed |-> TRUE]
    ELSE LET child == [n \in DOMAIN v.items |-> RedactEarly[v.items[n]]]
         IN  [value   |-> [v EXCEPT !.items = [n \in DOMAIN child |-> child[n].value]],
              changed |-> \E n \in DOMAIN child : child[n].changed]

RedactJSONValue[v \in JSONValues] ==
    IF ~Compound(v) THEN [value |-> v, changed |-> FALSE]
    ELSE LET child == [n \in DOMAIN v.items |->
                 IF v.kind = "object" /\ IsSensitive(n)
                 THEN [value |-> Text(Redacted), changed |-> TRUE]
                 ELSE RedactJSONValue[v.items[n]]]
         IN  [value   |-> [v EXCEPT !.items = [n \in DOMAIN child |-> child[n].value]],
              changed |-> \E n \in DOMAIN child : child[n].changed]

\* JSONValues has what redaction makes of them, too.
ASSUME RedactionAssumption == \A v \in JSONValues : RedactJSONValue[v].value \in JSONValues

RedactForm(body) ==
    [body |-> [body EXCEPT !.values = RedactValues(@)], changed |-> HasSensitive(body.values)]

RedactJSONEarly(body) ==
    LET redacted == RedactEarly[body.value]
    IN  [body |-> [body EXCEPT !.value = redacted.value], changed |-> redacted.changed]

RedactJSON(body) ==
    LET redacted == RedactJSONValue[body.value]
    IN  [body |-> [body EXCEPT !.value = redacted.value], changed |-> redacted.changed]

\* Whatever the media type says, JSON that is valid is treated as such, except
\* for a form; a text the parser of its media type refuses stays as it is.
\* (JSON declared as a form is left out: url.ParseQuery would make something of it.)
RedactBody(body, contentType) ==
    CASE body.form = "form" /\ contentType = "application/x-www-form-urlencoded" -> RedactForm(body)
      [] body.form = "json" /\ contentType # "application/x-www-form-urlencoded" -> RedactJSON(body)
      [] OTHER -> [body |-> body, changed |-> FALSE]

-----------------------------------------------------------------------------
SkippedHeaders == {"Content-Length", "Host", "Proxy-Connection", "Transfer-Encoding"}

CurlProtocolOption(protocol) ==
    CASE protocol = "HTTP/1.0"                -> "--http1.0"
      [] protocol = "HTTP/1.1"                -> "--http1.1"
      [] protocol \in {"HTTP/2", "HTTP/2.0"}  -> "--http2"
      [] OTHER                                -> "none"

Warnings(request, body) ==
    {w \in {"truncated", "binary", "grpcurl"} :
        \/ w = "truncated" /\ request.truncated
        \/ w = "binary"  /\ body.form = "binary"
        \/ w = "grpcurl" /\ body.form = "binary" /\ request.kind = "grpc"}

Curl(request) ==
    LET all  == ApplyHeaders(request.headers, request.replay)
        hide == ~request.showSecrets
        url  == IF hide THEN RedactURL(request.url) ELSE request.url
        headers == IF hide THEN RedactValues(all) ELSE all
        body == IF hide THEN RedactBody(request.body, Get(all, "Content-Type"))
                ELSE [body |-> request.body, changed |-> FALSE]
    IN  [command |->
            [method  |-> request.method, url |-> url,
             option  |-> CurlProtocolOption(request.protocol),
             headers |-> Restrict(headers, DOMAIN headers \ SkippedHeaders),
             data    |-> IF body.body.form = "binary" THEN NoBody ELSE body.body,
             compressed |-> Get(headers, "Accept-Encoding") \notin {"", "identity"},
             writeOut   |-> request.timings],
         redacted |-> hide /\ \/ HasSensitive(all) \/ body.changed
                              \/ request.url.kind = "url" /\ HasSensitive(request.url.query),
         warnings |-> Warnings(request, body.body)]

-----------------------------------------------------------------------------
(* What roundTrip hands to the transport.  Connection has one value for each of its tokens. *)

HopByHop == {"Connection", "Keep-Alive", "Proxy-Authenticate", "Proxy-Authorization",
             "Proxy-Connection", "Te", "Trailer", "Transfer-Encoding", "Upgrade"}

HeaderHasToken(headers, name, token) == \E v \in Range(Values(headers, name)) : Folded(v) = token

RemoveHopByHopHeaders(headers) ==
    LET named == {Canonical(v) : v \in Range(Values(headers, "Connection"))}
        kept  == Restrict(headers, DOMAIN headers \ (HopByHop \cup named))
    IN  IF HeaderHasToken(headers, "Te", "trailers") THEN Put(kept, "Te", "trailers") ELSE kept

IsHTTP1UpgradeRequest(incoming) ==
    /\ incoming.protocol \in {"HTTP/1.0", "HTTP/1.1"}
    /\ "Upgrade" \in DOMAIN incoming.headers
    /\ HeaderHasToken(incoming.headers, "Connection", "upgrade")

\* Live headers applied before the hop-by-hop ones are removed.
ForwardLiveFirst(incoming, live) ==
    LET kept == RemoveHopByHopHeaders(ApplyHeaders(incoming.headers, live))
    IN  IF IsHTTP1UpgradeRequest(incoming)
        THEN Put(Put(kept, "Connection", "Upgrade"), "Upgrade", Get(incoming.headers, "Upgrade"))
        ELSE kept

ForwardedHeaders(incoming, live) ==
    LET kept == RemoveHopByHopHeaders(incoming.headers)
    IN  ApplyHeaders(IF IsHTTP1UpgradeRequest(incoming)
                     THEN Put(Put(kept, "Connection", "Upgrade"), "Upgrade", Get(incoming.headers, "Upgrade"))
                     ELSE kept, live)

\* What the upstream gets of these headers.  net/http writes Host and the framing
\* headers from the request itself, never from its header map (over HTTP/2 the
\* connection's own neither), and User-Agent once.
UpstreamProtocols(incoming) ==
    IF IsHTTP1UpgradeRequest(incoming) THEN {"HTTP/1.1"} ELSE {"HTTP/1.1", "HTTP/2.0"}

OwnHeaders(protocol) ==
    {"Host", "Content-Length", "Transfer-Encoding"}
    \cup IF protocol = "HTTP/2.0" THEN {"Connection", "Proxy-Connection", "Upgrade", "Keep-Alive"}
         ELSE {"Trailer"}

Written(headers, protocol) ==
    [n \in DOMAIN headers \ OwnHeaders(protocol) |->
        IF n = "User-Agent" THEN <<headers[n][1]>> ELSE headers[n]]

RequestKind(incoming) ==
    CASE IsHTTP1UpgradeRequest(incoming) -> "websocket"
      [] ~IsHTTP1UpgradeRequest(incoming) /\ incoming.method = "CONNECT"
         /\ Folded(Get(incoming.headers, ":protocol")) = "websocket" -> "websocket"
      [] Get(incoming.headers, "Content-Type") \in {"application/grpc", "application/grpc+proto"} -> "grpc"
      [] OTHER -> "http"

\* The request Emit hands to Curl for an event of roundTrip.
RequestOfEvent(incoming, live, replay, showSecrets) ==
    [method |-> incoming.method, url |-> incoming.url, protocol |-> incoming.protocol,
     kind |-> RequestKind(incoming), headers |-> ForwardedHeaders(incoming, live),
     body |-> incoming.body, truncated |-> incoming.truncated, replay |-> replay,
     showSecrets |-> showSecrets, timings |-> TRUE]

=============================================================================
