---------------------------- MODULE RequestEnvelope ----------------------------
(***************************************************************************)
(* What `autocurl render` accepts (src/internal/cli/render_command.go):    *)
(* request descriptions in JSON as debuggers of several languages show     *)
(* them, or flags; their validation; and the templates it prints.          *)
(*                                                                         *)
(* JSON values are those of CurlRender; a string that is a URL, a document *)
(* or base64 is the record of what it stands for.  A URL has a path of     *)
(* segments; one without a scheme is relative.                             *)
(***************************************************************************)
EXTENDS CurlRender

CONSTANTS
    Upper(_),   \* a method or protocol in upper case
    Unsendable  \* names and values HTTP does not allow

\* The case functions of net/http and strings on the words of the templates, which are no secrets.
ASSUME WordsAssumption ==
    /\ Canonical("Content-Type") = "Content-Type"
    /\ Folded("Content-Type") = "content-type" /\ Folded("order_id") = "order-id"
    /\ Upper("POST") = "POST" /\ Upper("post") = "POST" /\ Upper("HTTP/2") = "HTTP/2" /\ Upper("") = ""
    /\ {"content-type", "order-id"} \cap Mentioning = {}
    /\ {"POST", "Content-Type", "application/json"} \cap Unsendable = {}

Absent       == [kind |-> "absent"]
Null         == [kind |-> "null"]
Object(items) == [kind |-> "object", items |-> items]
Array(items)  == [kind |-> "array", items |-> items]
Document(body) == [kind |-> "document", body |-> body]
Address(url)   == [kind |-> "address", url |-> url]
URL(scheme, host, path) == [kind |-> "url", scheme |-> scheme, host |-> host, path |-> path, query |-> <<>>]

IsString(v)   == v.kind \in {"text", "document", "address", "base64"}
IsScalar(v)   == v.kind \in {"text", "number", "boolean"}
\* json.Unmarshal into a string or a map: null leaves the zero value.
StringOrNone(v) == IsString(v) \/ v.kind \in {"null", "absent"}
ObjectOrNone(v) == v.kind \in {"object", "null", "absent"}
TextOf(v)       == IF v.kind = "text" THEN v.text ELSE ""
ItemsOf(v)      == IF v.kind = "object" THEN v.items ELSE <<>>
Field(items, name) == IF name \in DOMAIN items THEN items[name] ELSE Absent

FirstJSONField(items, names) ==
    LET i == SelectInSeq(names, LAMBDA n : n \in DOMAIN items)
    IN  IF i = 0 THEN Absent ELSE items[names[i]]

-----------------------------------------------------------------------------
(* decodeRenderEnvelope *)

UnliftedRoot(json) ==
    LET items == ItemsOf(json)
    IN  IF "request" \in DOMAIN items THEN ItemsOf(items["request"]) ELSE items

\* The description may be wrapped in "request"; fetch's options are lifted,
\* where the root does not name the field itself.
Root(json) ==
    LET root == UnliftedRoot(json)
        options == ItemsOf(Field(root, "options"))
        lifted  == DOMAIN options \cap {"method", "headers", "body"}
    IN  [n \in DOMAIN root \cup lifted |-> IF n \in DOMAIN root THEN root[n] ELSE options[n]]

RawURL(root)     == FirstJSONField(root, <<"url", "uri", "URL", "URI">>)
RawBase(root)    == FirstJSONField(root, <<"baseURL", "baseUrl">>)
RawMethod(root)  == FirstJSONField(root, <<"method", "Method">>)
RawProtocol(root) == FirstJSONField(root, <<"protocol", "Protocol">>)
RawBase64(root)  == FirstJSONField(root, <<"body_base64", "bodyBase64">>)
RawBody(root)    == FirstJSONField(root, <<"body", "Body", "data", "json", "payload">>)

\* Java's HttpHeaders keep their map one level down.
RawHeaders(root) ==
    LET raw == FirstJSONField(root, <<"headers", "Header", "Headers">>)
        nested == FirstJSONField(ItemsOf(raw), <<"map", "Map">>)
    IN  IF nested = Absent THEN raw ELSE nested

NoURL == URL("", "", <<>>)

DecodeDebuggerURL(raw) ==
    CASE raw.kind = "address" -> raw.url
      [] raw.kind = "object"  ->
           [URL(TextOf(Field(raw.items, "Scheme")), TextOf(Field(raw.items, "Host")),
                IF "Path" \in DOMAIN raw.items THEN raw.items["Path"].url.path ELSE <<>>)
            EXCEPT !.query = IF "RawQuery" \in DOMAIN raw.items THEN raw.items["RawQuery"].body.values ELSE <<>>]
      [] OTHER -> NoURL

CombineDebuggerURL(base, url) ==
    IF url.kind = "url" /\ url.scheme # "" THEN url
    ELSE IF "malformed" \in {url.kind, base.kind} THEN [kind |-> "malformed"]
    ELSE [url EXCEPT !.scheme = base.scheme, !.host = base.host, !.path = base.path \o @]

EnvelopeURL(root) ==
    LET url == DecodeDebuggerURL(RawURL(root))
    IN  IF RawBase(root) = Absent \/ url = NoURL THEN url
        ELSE CombineDebuggerURL(DecodeDebuggerURL(RawBase(root)), url)

HeaderTexts(v) ==
    LET text(w) == IF IsScalar(w) THEN w.text ELSE ""
    IN  IF v.kind = "array" THEN [i \in DOMAIN v.items |-> text(v.items[i])] ELSE <<text(v)>>

\* Two spellings of one name are left out: their values come in the order of a Go map.
DecodeDebuggerHeaders(raw) ==
    LET items == ItemsOf(raw)
    IN  [name \in {Canonical(n) : n \in DOMAIN items} |->
            HeaderTexts(items[CHOOSE n \in DOMAIN items : Canonical(n) = name])]

HeaderRefused(name, v) ==
    \/ name \in Unsendable
    \/ ~IsScalar(v) /\ v.kind # "array"
    \/ v.kind = "array" /\ \E i \in DOMAIN v.items : ~IsScalar(v.items[i])
    \/ \E text \in Range(HeaderTexts(v)) : text \in Unsendable

IsJSONBody(raw) == ~StringOrNone(raw)

EnvelopeBody(raw, base64) ==
    CASE base64.kind = "base64" -> base64.body
      [] raw.kind = "document"  -> raw.body
      [] raw.kind = "text" /\ raw.text # "" -> [form |-> "text", text |-> raw.text]
      [] IsJSONBody(raw)        -> [form |-> "json", value |-> raw]
      [] OTHER                  -> NoBody

\* A Go http.Request shows its Body as {}: the payload is not there.
OpaqueGoBody(root) ==
    /\ Field(root, "Body") = Object(<<>>)
    /\ DOMAIN root \cap {"Method", "URL", "Header"} # {}

EnvelopeRefused(json) ==
    \/ ~ObjectOrNone(json)
    \/ ~ObjectOrNone(Field(ItemsOf(json), "request"))
    \/ ~ObjectOrNone(Field(UnliftedRoot(json), "options"))
    \/ LET root == Root(json)
           url  == RawURL(root)
       IN  \/ \E raw \in {RawMethod(root), RawProtocol(root), RawBase64(root)} : ~StringOrNone(raw)
           \/ ~StringOrNone(url) /\ url.kind # "object"
           \/ /\ url.kind = "object"
              /\ "" \in {TextOf(Field(url.items, part)) : part \in {"Scheme", "Host"}}
           \/ ~StringOrNone(RawBase(root)) /\ DecodeDebuggerURL(url) # NoURL
           \/ ~ObjectOrNone(RawHeaders(root))
           \/ \E n \in DOMAIN ItemsOf(RawHeaders(root)) : HeaderRefused(n, ItemsOf(RawHeaders(root))[n])
           \/ OpaqueGoBody(root)
           \/ RawBase64(root).kind = "base64" /\ RawBody(root) # Absent
           \/ TextOf(RawBase64(root)) # ""  \* a text that is no base64

-----------------------------------------------------------------------------
NormalizeProtocol(protocol) ==
    CASE Upper(protocol) \in {"", "AUTO"}                               -> ""
      [] Upper(protocol) \in {"1.0", "HTTP/1.0"}                        -> "HTTP/1.0"
      [] Upper(protocol) \in {"1.1", "HTTP/1.1"}                        -> "HTTP/1.1"
      [] Upper(protocol) \in {"2", "2.0", "H2", "HTTP/2", "HTTP/2.0"}   -> "HTTP/2.0"
      [] OTHER                                                          -> protocol

MethodOf(method, body) ==
    IF method # "" THEN Upper(method) ELSE IF body = NoBody THEN "GET" ELSE "POST"

IsGRPC(headers) == Get(headers, "Content-Type") \in {"application/grpc", "application/grpc+proto"}

RenderKind(headers, url) ==
    CASE IsGRPC(headers) -> "grpc"
      [] ~IsGRPC(headers) /\ url.scheme \in {"ws", "wss"} -> "websocket"
      [] OTHER -> "http"

\* renderKind takes the scheme of the nil URL that url.Parse returned.
RenderKindPanics(headers, url) == ~IsGRPC(headers) /\ url.kind = "malformed"

Described(method, url, protocol, headers, body) ==
    [method |-> MethodOf(method, body), url |-> url, protocol |-> NormalizeProtocol(protocol),
     headers |-> headers, body |-> body]

\* What requestFromEnvelopeFile makes of an envelope that is not refused.
RequestFromEnvelope(json) ==
    LET root    == Root(json)
        body    == EnvelopeBody(RawBody(root), RawBase64(root))
        headers == DecodeDebuggerHeaders(RawHeaders(root))
    IN  Described(TextOf(RawMethod(root)), EnvelopeURL(root), TextOf(RawProtocol(root)),
                  IF IsJSONBody(RawBody(root)) /\ Get(headers, "Content-Type") = ""
                  THEN Put(headers, "Content-Type", "application/json") ELSE headers,
                  body)

\* parseHeaders: each of the texts is Name: value, or has a flaw.
FlagsRefused(flags) == flags.bodies > 1 \/ \E h \in Range(flags.headers) : h.flaw # "none"

RequestFromFlags(flags) ==
    Described(flags.method, flags.url, flags.protocol,
              ApplyHeaders(<<>>, [i \in DOMAIN flags.headers |->
                  [name |-> Canonical(flags.headers[i].name), value |-> flags.headers[i].value]]),
              flags.body)

ValidateRenderRequest(request) ==
    /\ request.method \notin {""} \cup Unsendable
    /\ request.url.kind = "url"
    /\ request.url.host # ""
    /\ request.url.scheme \in {"http", "https", "ws", "wss"}
    /\ request.protocol \in {"", "HTTP/1.0", "HTTP/1.1", "HTTP/2.0"}

-----------------------------------------------------------------------------
Languages == {"generic", "go", "java", "python", "node", "fetch"}

Order    == Object([order_id |-> Text("demo-42")])
Orders   == URL("https", "api.example.com", <<"orders">>)
TypeIs(value) == Object([n \in {"Content-Type"} |-> value])
JSONType == Text("application/json")

RenderRequestTemplate(language) == Object(
    CASE language = "generic" ->
           [method |-> Text("POST"), url |-> Address(Orders), headers |-> TypeIs(JSONType), body |-> Order,
            protocol |-> Text("HTTP/2")]
      [] language = "python" ->
           [method |-> Text("POST"), url |-> Address(Orders), headers |-> TypeIs(JSONType), body |-> Order]
      [] language = "go" ->
           [Method |-> Text("POST"), Header |-> TypeIs(Array(<<JSONType>>)), Body |-> Order,
            URL    |-> Object([Scheme |-> Text("https"), Host |-> Text("api.example.com"),
                               Path |-> Address(URL("", "", <<"orders">>))])]
      [] language = "java" ->
           [method |-> Text("POST"), uri |-> Address(Orders), body |-> Order,
            headers |-> Object([map |-> TypeIs(Array(<<JSONType>>))])]
      [] language = "node" ->
           [method |-> Text("post"), baseURL |-> Address(URL("https", "api.example.com", <<>>)),
            url |-> Address(URL("", "", <<"orders">>)), headers |-> TypeIs(JSONType), data |-> Order]
      [] language = "fetch" ->
           [url |-> Address(Orders),
            options |-> Object([method |-> Text("POST"), headers |-> TypeIs(JSONType),
                                body |-> Document([form |-> "json", value |-> Order])])])

=============================================================================
