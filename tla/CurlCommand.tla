------------------------------ MODULE CurlCommand ------------------------------
(***************************************************************************)
(* How a cURL comes about, for both callers of render.Curl: a request      *)
(* that passed the proxy (roundTrip, Emit), and `autocurl render`          *)
(* (renderCommand of src/internal/cli/render_command.go), with its files,  *)
(* the clipboard and its exit code.                                        *)
(***************************************************************************)
EXTENDS RequestEnvelope

CONSTANTS
    Incoming,  \* captured requests, with the live and replay headers of the run
    Renders    \* command lines of render, with their files and machine

Refused(render) ==
    IF "json" \in DOMAIN render THEN EnvelopeRefused(render.json) ELSE FlagsRefused(render.flags)
RequestOf(render) ==
    IF "json" \in DOMAIN render THEN RequestFromEnvelope(render.json) ELSE RequestFromFlags(render.flags)

IsList(list) == list \in Seq(Range(list))
IsURL(url)   ==
    /\ url.kind \in {"url", "malformed"}
    /\ url.kind = "url" => IsFunction(url) /\ "query" \in DOMAIN url /\ IsFunction(url.query)
IsBody(body) ==
    /\ IsFunction(body) /\ "form" \in DOMAIN body
    /\ body.form = "form" => "values" \in DOMAIN body /\ IsFunction(body.values)
    /\ body.form = "json" => "value" \in DOMAIN body /\ body.value \in JSONValues

ASSUME InputsAssumption ==
    /\ \A i \in Incoming :
          /\ IsURL(i.url) /\ IsBody(i.body) /\ IsFunction(i.headers)
          /\ IsList(i.live) /\ IsList(i.replay) /\ i.showSecrets \in BOOLEAN
          /\ "json" \notin DOMAIN i
    /\ \A render \in Renders :
          /\ {render.copy, render.output, render.showSecrets, render.asJSON} \subseteq BOOLEAN
          /\ "json" \notin DOMAIN render => IsList(render.flags.headers)
          /\ ~Refused(render) => IsURL(RequestOf(render).url) /\ IsBody(RequestOf(render).body)

VARIABLES
    input,
    stage,
    request,   \* what Curl gets
    result,    \* what it returned
    forwarded, \* headers the transport got for a captured request
    printed,   \* what arrived on standard output
    clipboard, file,
    exitCode

curlVars == <<input, stage, request, result, forwarded, printed, clipboard, file, exitCode>>

Nothing == [nothing |-> TRUE]
Broken  == [broken |-> TRUE]   \* of which only a part was written
NoCode  == 300
Flaws   == {"none", "help", "flag", "positional", "template_mixed", "request_mixed"}

CurlInit ==
    /\ input \in Incoming \cup Renders
    /\ stage = IF input \in Incoming THEN "arrived" ELSE "parsing"
    /\ request = Nothing /\ result = Nothing /\ forwarded = <<>>
    /\ printed = Nothing /\ clipboard = Nothing /\ file = Nothing
    /\ exitCode = NoCode

Exit(code) == stage' = "exited" /\ exitCode' = code

-----------------------------------------------------------------------------
(* A captured request. *)

Forward ==
    /\ stage = "arrived"
    /\ forwarded' = ForwardedHeaders(input, input.live)
    /\ request' = RequestOfEvent(input, input.live, input.replay, input.showSecrets)
    /\ stage' = "rendering"
    /\ UNCHANGED <<input, result, printed, clipboard, file, exitCode>>

-----------------------------------------------------------------------------
(* autocurl render *)

\* Standard output may be full or closed: its errors are discarded, and the exit
\* code is the same.  (On a pipe that nobody reads the process ends by SIGPIPE.)
Arrives(line) == {line, Broken, Nothing}

ErrorObject == [error |-> TRUE]

\* The message is on standard error, with --json on standard output.
WriteRenderError ==
    /\ Exit(2)
    /\ printed' \in IF input.asJSON THEN Arrives(ErrorObject) ELSE {printed}

\* What the flag package refuses it says on standard error, --json or not.
ParseFlags ==
    /\ stage = "parsing"
    /\ CASE input.flaw = "help" -> Exit(0) /\ UNCHANGED printed
         [] input.flaw = "flag" -> Exit(2) /\ UNCHANGED printed
         [] input.flaw \notin {"help", "flag", "none"} -> WriteRenderError
         [] OTHER -> /\ stage' = IF input.template # "" THEN "template" ELSE "reading"
                     /\ UNCHANGED <<exitCode, printed>>
    /\ UNCHANGED <<input, request, result, forwarded, clipboard, file>>

TemplateLine ==
    IF input.asJSON THEN [language |-> input.template, request |-> RenderRequestTemplate(input.template)]
    ELSE RenderRequestTemplate(input.template)

PrintTemplate ==
    /\ stage = "template"
    /\ IF input.template \in Languages
       THEN Exit(0) /\ printed' \in Arrives(TemplateLine)
       ELSE WriteRenderError
    /\ UNCHANGED <<input, request, result, forwarded, clipboard, file>>

\* A file that is missing, unreadable or larger than maxRenderInput is an error.
ReadRenderInput ==
    /\ stage = "reading"
    /\ IF input.readable THEN stage' = "decoding" /\ UNCHANGED <<exitCode, printed>> ELSE WriteRenderError
    /\ UNCHANGED <<input, request, result, forwarded, clipboard, file>>

Refuse ==
    /\ stage = "decoding"
    /\ \/ Refused(input)
       \/ LET described == RequestOf(input)
          IN  /\ ~Refused(input)
              /\ ~RenderKindPanics(described.headers, described.url)
              /\ ~ValidateRenderRequest(described)
    /\ WriteRenderError
    /\ UNCHANGED <<input, request, result, forwarded, clipboard, file>>

\* A nil dereference, before validateRenderRequest has seen the URL.
Panic ==
    /\ stage = "decoding"
    /\ ~Refused(input)
    /\ RenderKindPanics(RequestOf(input).headers, RequestOf(input).url)
    /\ stage' = "crashed" /\ exitCode' = 2
    /\ UNCHANGED <<input, request, result, forwarded, printed, clipboard, file>>

Decode ==
    /\ stage = "decoding"
    /\ ~Refused(input)
    /\ LET described == RequestOf(input)
       IN  /\ ValidateRenderRequest(described)
           /\ request' = [method |-> described.method, url |-> described.url, protocol |-> described.protocol,
                          kind |-> RenderKind(described.headers, described.url),
                          headers |-> described.headers, body |-> described.body,
                          truncated |-> FALSE, replay |-> <<>>,
                          showSecrets |-> input.showSecrets, timings |-> input.timings]
    /\ stage' = "rendering"
    /\ UNCHANGED <<input, result, forwarded, printed, clipboard, file, exitCode>>

Render ==
    /\ stage = "rendering"
    /\ result' = Curl(request)
    /\ stage' = IF input \in Incoming THEN "emitted" ELSE "copying"
    /\ UNCHANGED <<input, request, forwarded, printed, clipboard, file, exitCode>>

ClipboardCommands(os) ==
    CASE os = "darwin"  -> <<"pbcopy">>
      [] os = "windows" -> <<"cmd">>
      [] OTHER          -> <<"wl-copy", "xclip", "xsel">>

\* copyToClipboard runs the first candidate that is installed, once.
Copy ==
    /\ stage = "copying"
    /\ LET candidates == ClipboardCommands(input.os)
           first == SelectInSeq(candidates, LAMBDA c : input.tools[c] # "absent")
       IN  clipboard' = IF input.copy /\ first # 0 /\ input.tools[candidates[first]] = "works"
                        THEN result.command ELSE clipboard
    /\ stage' = "writing"
    /\ UNCHANGED <<input, request, result, forwarded, printed, file, exitCode>>

CopyFailed == input.copy /\ clipboard = Nothing

\* A failed copy does not keep the file from being written.
WriteOutput ==
    /\ stage = "writing"
    /\ file' \in IF input.output THEN {result.command, Broken, Nothing} ELSE {file}
    /\ stage' = "reporting"
    /\ UNCHANGED <<input, request, result, forwarded, printed, clipboard, exitCode>>

\* With --json the failures are in the object, else on standard error.
ResultLine ==
    IF input.asJSON
    THEN [curl |-> result.command, copied |-> input.copy /\ ~CopyFailed, copyFailed |-> CopyFailed,
          outputFailed |-> input.output /\ file # result.command]
    ELSE result.command

PrintBlindly ==
    /\ stage = "reporting"
    /\ printed' \in Arrives(ResultLine)
    /\ Exit(IF input.output /\ file # result.command THEN 1 ELSE 0)
    /\ UNCHANGED <<input, request, result, forwarded, clipboard, file>>

PrintResult ==
    /\ stage = "reporting"
    /\ printed' \in Arrives(ResultLine)
    /\ Exit(IF CopyFailed \/ (input.output /\ file # result.command) THEN 1 ELSE 0)
    /\ UNCHANGED <<input, request, result, forwarded, clipboard, file>>

CurlNext ==
    \/ Forward
    \/ ParseFlags \/ PrintTemplate \/ ReadRenderInput
    \/ Refuse \/ Panic \/ Decode
    \/ Render
    \/ Copy \/ WriteOutput \/ PrintResult

CurlSpec == CurlInit /\ [][CurlNext]_curlVars

-----------------------------------------------------------------------------
Rendered == stage \in {"emitted", "copying", "writing", "reporting"}

Hidden(name) == ~request.showSecrets /\ IsSensitive(name)
Hide(map)    == [n \in DOMAIN map |-> IF Hidden(n) THEN <<Redacted>> ELSE map[n]]

\* The last header of that name wins.
LastOf(list, name) == SelectLastInSeq(list, LAMBDA h : h.name = name)
Overridden(map, list) ==
    [n \in DOMAIN map \cup {h.name : h \in Range(list)} |->
        IF LastOf(list, n) = 0 THEN map[n] ELSE <<list[LastOf(list, n)].value>>]

\* What a JSON value holds, and where; an empty object or array is a leaf.
Leaves[v \in JSONValues] ==
    IF ~Compound(v) \/ DOMAIN v.items = {} THEN {<<<<>>, v>>}
    ELSE UNION {{<<<<IF v.kind = "object" THEN [key |-> n] ELSE [index |-> n]>> \o leaf[1], leaf[2]>> :
                     leaf \in Leaves[v.items[n]]} : n \in DOMAIN v.items}

HiddenLeaf(leaf) ==
    LET i == SelectInSeq(leaf[1], LAMBDA step : "key" \in DOMAIN step /\ Hidden(step.key))
    IN  IF i = 0 THEN leaf ELSE <<SubSeq(leaf[1], 1, i), Text(Redacted)>>

(***************************************************************************)
(* The cURL repeats the request: method, URL, every header but the four    *)
(* curl sets itself, with the replay headers over them, and the body, all  *)
(* of it unless it is binary.  Exactly the values under a sensitive name,  *)
(* at any depth of a JSON body, are replaced, and none with --show-secrets;*)
(* Redacted says whether there was one (Curl, redactURL, redactBody).      *)
(***************************************************************************)
CommandRepeatsRequest ==
    Rendered =>
        LET command == result.command
            headers == Overridden(request.headers, request.replay)
            body    == request.body
            declaredForm == Get(headers, "Content-Type") = "application/x-www-form-urlencoded"
        IN  /\ command.method = request.method
            /\ request.url.kind = "url" => command.url = [request.url EXCEPT !.query = Hide(@)]
            /\ command.headers = Hide(Restrict(headers, DOMAIN headers \ SkippedHeaders))
            /\ command.data.form = IF body.form = "binary" THEN "none" ELSE body.form
            /\ body.form = "json" /\ ~declaredForm =>
                  Leaves[command.data.value] = {HiddenLeaf(leaf) : leaf \in Leaves[body.value]}
            /\ body.form = "form" =>
                  command.data.values = IF declaredForm THEN Hide(body.values) ELSE body.values
            /\ body.form = "text" => command.data = body
            /\ body.form = "binary" <=> "binary" \in result.warnings
            /\ ~result.redacted =>
                  /\ command.url = request.url /\ command.data \in {body, NoBody}
                  /\ command.headers = Restrict(headers, DOMAIN headers \ SkippedHeaders)

(***************************************************************************)
(* The six templates, given back to render, describe one request: the      *)
(* shapes decodeRenderEnvelope knows mean the same thing.                  *)
(***************************************************************************)
TemplatesAgree ==
    "json" \in DOMAIN input /\ input.json \in {RenderRequestTemplate(l) : l \in Languages} =>
        /\ exitCode = 2 => input.flaw # "none" \/ ~input.readable \/ input.template # ""
        /\ Rendered =>
              /\ result.command.method = "POST"
              /\ result.command.url = Orders
              /\ result.command.headers = [n \in {"Content-Type"} |-> <<"application/json">>]
              /\ result.command.data = [form |-> "json", value |-> Order]

(***************************************************************************)
(* The exit code of render, unless it panicked, tells what became of the   *)
(* clipboard and the file: after 0 the command is in both, wherever it was *)
(* asked for; after 1 it is missing in one of them; after 2 neither was    *)
(* touched.  It does not tell whether standard output was written; but     *)
(* what arrived there whole agrees with it: the error object of --json     *)
(* after 2 only, else the template or the command, with --json beside the  *)
(* true fate of the copy and the file.                                     *)
(***************************************************************************)
ExitTellsTruth ==
    stage = "exited" =>
        LET copied  == input.copy => clipboard = result.command
            written == input.output => file = result.command
        IN  /\ exitCode = 0 => \/ input.flaw = "help" \/ input.template # ""
                               \/ copied /\ written
            /\ exitCode = 1 => ~(copied /\ written)
            /\ exitCode = 2 => clipboard = Nothing /\ file = Nothing
            /\ printed \in {Nothing, Broken} \/ printed =
                  IF exitCode = 2 THEN ErrorObject
                  ELSE IF input.template # "" THEN TemplateLine
                  ELSE IF input.asJSON
                  THEN [curl |-> result.command, copied |-> input.copy /\ copied,
                        copyFailed |-> ~copied, outputFailed |-> ~written]
                  ELSE result.command
            /\ exitCode = 2 /\ ~input.asJSON => printed = Nothing

(***************************************************************************)
(* Over either protocol a captured request reaches the upstream with the   *)
(* client's end-to-end headers, those of its connection taken off, except  *)
(* for a protocol switch and for the trailers gRPC needs, and with the     *)
(* live headers, even those that have the name of a header taken off; all  *)
(* but the names net/http writes itself: a live Host has no effect         *)
(* (roundTrip, removeHopByHopHeaders).                                     *)
(***************************************************************************)
UpstreamGetsEndToEndHeaders ==
    input \in Incoming /\ stage # "arrived" =>
        LET live  == {h.name : h \in Range(input.live)}
            named == {Canonical(v) : v \in Range(Values(input.headers, "Connection"))}
            hop   == HopByHop \cup named
            switch == IF IsHTTP1UpgradeRequest(input) THEN {"Connection", "Upgrade"} ELSE {}
        IN  \A protocol \in UpstreamProtocols(input) :
            LET reached == Written(forwarded, protocol)
                direct  == Written(Overridden(input.headers, input.live), protocol)
                own     == OwnHeaders(protocol)
            IN  /\ \A n \in live \ own : n \in DOMAIN reached /\ reached[n] = direct[n]
                /\ \A n \in DOMAIN input.headers \ (hop \cup own) :
                      n \in DOMAIN reached /\ reached[n] = direct[n]
                /\ DOMAIN reached \cap (hop \ live) \subseteq switch \cup {"Te"}
                /\ "Upgrade" \in switch \ live => Get(reached, "Upgrade") = Get(input.headers, "Upgrade")
                /\ "Te" \in DOMAIN reached \ live => reached["Te"] = <<"trailers">>

=============================================================================
