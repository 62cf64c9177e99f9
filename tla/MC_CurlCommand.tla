----------------------------- MODULE MC_CurlCommand -----------------------------
(* Requests, descriptions and command lines for TLC.                           *)
EXTENDS CurlCommand

MCFolded(name) ==
    CASE name = "Authorization" -> "authorization" [] name = "X_API_KEY" -> "x-api-key"
      [] name = "sessionToken"  -> "sessiontoken"  [] name = "Upgrade"   -> "upgrade"
      [] name = "X_Api_key"     -> "x-api-key"     [] name = "order_id"  -> "order-id"
      [] name = "Content-Type"  -> "content-type"  [] OTHER              -> name
MCCanonical(name) ==
    CASE name = "content-type" -> "Content-Type" [] name = "X_API_KEY" -> "X_Api_key"
      [] name = "x-hop" -> "X-Hop" [] name = "upgrade" -> "Upgrade" [] OTHER -> name
MCUpper(text) ==
    CASE text = "post" -> "POST" [] text = "http/2" -> "HTTP/2" [] OTHER -> text
MCMentioning == {"sessiontoken"}
MCUnsendable == {"X Bad", "a b", "line\nbreak"}

Number(text) == [kind |-> "number", text |-> text]
Malformed == [kind |-> "malformed"]
Endpoint  == [URL("https", "h.example", <<"v1">>) EXCEPT !.query = [token |-> <<"t1", "t2">>, page |-> <<"2">>]]

Nested == Object([password |-> Object([hash |-> Text("x")]),
                  user |-> Object([sessionToken |-> Text("y"), name |-> Text("z")]),
                  list |-> Array(<<Object([token |-> Null]), Text("plain")>>), empty |-> Array(<<>>)])
NestedHidden == Object([password |-> Text(Redacted),
                  user |-> Object([sessionToken |-> Text(Redacted), name |-> Text("z")]),
                  list |-> Array(<<Object([token |-> Text(Redacted)]), Text("plain")>>), empty |-> Array(<<>>)])
NestedHalf == Object([Nested.items EXCEPT !.password = Text(Redacted)])
JSONBody(value) == [form |-> "json", value |-> value]
JSON   == JSONBody(Nested)

\* Every tree of depth 2 over two names and three scalars, each also one level down.
Wrapped(values) == {Text("x"), Text(Redacted), Null}
    \cup {Object(f) : f \in UNION {[names -> values] : names \in SUBSET {"token", "name"}}}
    \cup {Array(<<>>)} \cup {Array(<<v>>) : v \in values}
Trees == LET inner == Wrapped(Wrapped({}))
         IN  inner \cup {Object("name" :> v) : v \in inner} \cup {Array(<<v, Null>>) : v \in inner}
RECURSIVE Parts(_)
Parts(v) == {v} \cup IF Compound(v) THEN UNION {Parts(v.items[n]) : n \in DOMAIN v.items} ELSE {}
MCJSONValues == Trees \cup UNION {Parts(v) : v \in {Nested, NestedHalf, NestedHidden, Order}}
RECURSIVE MCDepth(_)
MCDepth(v) == IF Compound(v) /\ DOMAIN v.items # {}
              THEN 1 + Max({MCDepth(v.items[n]) : n \in DOMAIN v.items}) ELSE 0
Form   == [form |-> "form", values |-> [secret |-> <<"a", "b">>, page |-> <<"1">>]]
Plain  == [form |-> "text", text |-> "plain"]
Binary == [form |-> "binary"]

BodyAndType == {<<NoBody, "">>, <<JSON, "application/json">>, <<JSON, "text/plain">>, <<JSON, "">>,
    <<Form, "application/x-www-form-urlencoded">>, <<Form, "">>, <<Plain, "application/json">>,
    <<Binary, "application/grpc+proto">>}

Sets(pairs) == [n \in {p[1] : p \in pairs} |-> (CHOOSE p \in pairs : p[1] = n)[2]]
Type(t) == IF t = "" THEN {} ELSE {<<"Content-Type", <<t>>>>}
H(name, value) == [name |-> name, value |-> value, flaw |-> "none"]

HeaderSets == {
    {<<"Authorization", <<"Basic", "Bearer">>>>, <<"Content-Length", <<"9">>>>,
     <<"User-Agent", <<"a", "b">>>>, <<"Accept-Encoding", <<"gzip">>>>},
    {<<"Connection", <<"keep-alive", "x-hop">>>>, <<"X-Hop", <<"1">>>>, <<"Te", <<"gzip", "trailers">>>>,
     <<"Proxy-Authorization", <<"p">>>>, <<"X-Kept", <<"1", "2">>>>},
    {<<"Connection", <<"Upgrade">>>>, <<"Upgrade", <<"websocket">>>>, <<"X_Api_key", <<"k">>>>}}

MCIncoming ==
    {[method |-> "POST", url |-> url, protocol |-> protocol, headers |-> Sets(headers \cup Type(b[2])),
      body |-> b[1], truncated |-> b[1] = Plain, live |-> live, replay |-> replay, showSecrets |-> show] :
        url \in {Endpoint, Malformed}, protocol \in {"HTTP/1.1", "HTTP/2.0"}, headers \in HeaderSets,
        b \in BodyAndType, show \in BOOLEAN,
        live \in {<<>>, <<H("Connection", "close"), H("X-Kept", "3"), H("X-Kept", "4"), H("Host", "x")>>},
        replay \in {<<>>, <<H("X-Debug", "true"), H("Authorization", "mine")>>}}
    \cup {[method |-> "CONNECT", url |-> Endpoint, protocol |-> "HTTP/2.0", body |-> NoBody, truncated |-> FALSE,
           headers |-> Sets({<<":protocol", <<"websocket">>>>}), live |-> <<>>, replay |-> <<>>,
           showSecrets |-> FALSE]}
    \cup {[method |-> "POST", url |-> Endpoint, protocol |-> "HTTP/1.1", body |-> JSONBody(v), truncated |-> FALSE,
           headers |-> <<>>, live |-> <<>>, replay |-> <<>>, showSecrets |-> FALSE] : v \in Trees}

Machine == {
    [os |-> "linux",   tools |-> ("wl-copy" :> "absent" @@ "xclip" :> "fails" @@ "xsel" :> "works")],
    [os |-> "linux",   tools |-> ("wl-copy" :> "absent" @@ "xclip" :> "absent" @@ "xsel" :> "works")],
    [os |-> "windows", tools |-> ("cmd" :> "absent")],
    [os |-> "darwin",  tools |-> ("pbcopy" :> "works")]}

Line(what, flaw, template, readable, copy, output, show, asJSON, machine) ==
    what @@ machine @@ [flaw |-> flaw, template |-> template, readable |-> readable, copy |-> copy,
                        output |-> output, showSecrets |-> show, timings |-> copy, asJSON |-> asJSON]

Good == Object([url |-> Address(Endpoint), headers |-> Object([X_API_KEY |-> Array(<<Text("k"), Number("3")>>)]),
                body |-> Nested])

With(field, value) == Object((field :> value) @@ Good.items)

Descriptions == {RenderRequestTemplate(l) : l \in Languages} \cup {
    Null, Array(<<Good>>), Text("text"), Good, Object([request |-> Good]), Object([request |-> Text("no")]),
    With("options", Number("1")), With("options", Object([method |-> Text("PUT"), body |-> Text("other")])),
    With("method", Number("1")), With("method", Text("a b")), With("protocol", Text("http/2")),
    With("protocol", Text("HTTP/3")), With("url", Number("1")), With("url", Address(Malformed)),
    With("url", Object([Scheme |-> Text("https")])),
    With("url", Object([Scheme |-> Text("ftp"), Host |-> Text("h")])),
    With("url", Object([Scheme |-> Text("wss"), Host |-> Text("h"), RawQuery |-> Document(Form)])),
    With("baseURL", Address(URL("http", "b", <<"x">>))), With("baseUrl", Number("1")),
    Object([uri |-> Address(URL("", "", <<"p">>)), baseUrl |-> Null]),
    Object([uri |-> Address(Malformed), baseUrl |-> Address(URL("http", "b", <<>>))]),
    With("headers", Text("no")), With("headers", Object("X Bad" :> Text("1"))),
    With("headers", Object("X-Ok" :> Text("line\nbreak"))), With("headers", Object("X-Ok" :> Object(<<>>))),
    With("headers", Object("X-Ok" :> Array(<<Null>>))),
    With("headers", Object("content-type" :> Text("application/grpc"))),
    With("body_base64", [kind |-> "base64", body |-> Plain]), With("body_base64", Text("?")),
    Object([url |-> Address(Malformed), headers |-> Object("content-type" :> Text("application/grpc"))]),
    Object([url |-> Address(Endpoint), body_base64 |-> [kind |-> "base64", body |-> Binary]]),
    Object([URL |-> Address(Endpoint), Method |-> Text("POST"), Body |-> Object(<<>>)]),
    Object([url |-> Address(Endpoint), payload |-> Null]),
    Object([url |-> Address(Endpoint), json |-> Text("plain")])}

Flags == {[url |-> url, method |-> method, protocol |-> protocol, bodies |-> bodies, body |-> body,
           headers |-> headers] :
    url \in {Endpoint, NoURL, Malformed}, method \in {"", "post"}, protocol \in {"", "2"}, bodies \in {1, 2},
    body \in {NoBody, Form},
    headers \in {<<H("content-type", "application/x-www-form-urlencoded"), H("X-Debug", "1"), H("X-Debug", "2")>>,
                 <<[name |-> "", value |-> "", flaw |-> "empty_name"]>>}}

AnyMachine == CHOOSE m \in Machine : m.os = "darwin"

MCRenders ==
    {Line([json |-> d], "none", "", TRUE, TRUE, FALSE, show, show, AnyMachine) :
        d \in Descriptions, show \in BOOLEAN}
    \cup {Line([flags |-> f], "none", "", TRUE, FALSE, TRUE, FALSE, TRUE, AnyMachine) : f \in Flags}
    \cup {Line([json |-> Good], flaw, template, readable, TRUE, output, FALSE, asJSON, machine) :
            flaw \in {"none", "help", "flag", "positional", "request_mixed"},
            template \in Languages \cup {"", "perl"},
            readable \in BOOLEAN, output \in BOOLEAN, asJSON \in BOOLEAN, machine \in Machine}

=============================================================================
