# A verification project for autocurl

autocurl starts a local HTTP proxy for one application run, intercepts the
application's HTTP(S) traffic and turns every request into a replayable cURL
command. A Go *engine* does the work; `autocurl run` uses it from a shell and
two IDE extensions (VS Code, JetBrains) drive it as a child process over its
standard streams. This directory holds TLA+ models of the engine, of
`autocurl run` and `autocurl render` and of both IDE sessions, the TLC
configurations that check them, and TLAPS proofs of the properties that matter
most.

## 1. Inventory

| Component | Source | State | Operations | Modelled in |
|---|---|---|---|---|
| TLS policy | `src/internal/capture/proxy.go` 303-460, 541-619 | `tlsDecisions` under `tlsMu`; one goroutine per CONNECT stream | connect, peek, decide, probe, tunnel, handshake, remember a bypass | `TLSPolicy` |
| Body capture | `proxy.go` 652-658, 754-778, 825-838 | one `limitedBuffer` per request, shared by two goroutines | tee a read, snapshot | `BodyTee` |
| Events, pause, diagnostics | `proxy.go` 199-256, 635-704; `cli.go` 397-635; `proxy_command.go` 175-205 | atomic `recording`, `diagnosticSeen` under `diagnosticMu`, emitter under its mutex (`nextID`), the stdout pipe | start, answer, fail, diagnose once, emit, pause, resume, acknowledge | `RequestCapture` |
| Intercepted HTTP/1.1 connection | `proxy.go` 467-539, 635-691 | one `bufio.Reader` shared by the loop and the transport's goroutine | read a head, round trip, respond, give up | `InterceptedConnection`; HTTP/2 and trailers are not modelled |
| Duplex relay | `proxy.go` 258-301, 495-530, 891-903 | two copying goroutines, two connections | switch, copy, half-close, close | `DuplexRelay` |
| Engine process | `proxy_command.go` 129-211; `session.go`; `proxy.go` 166-195 | temporary directory, listener, signal channel, stdin and stdout pipes | start, announce, control, stop, drain, remove | `EngineLifecycle`, `EngineContract` |
| `autocurl run` | `cli.go` 218-379, 397-510; `session.go`; `proxy.go` | child process, signal channel, emitter with file and clipboard | parse, start, environment, spawn, forward, emit, drain, exit | `RunCommand`, `EngineContract` |
| Child environment, bypass targets | `cli.go` 640-935 | files of the session | merge, expand CIDRs, truststore, Java options | `ChildEnvironment`, `BypassTargets` |
| Go trust overlay | `go_overlay.go` | files of the session | discover Go, patch, write, set `GOFLAGS` | `ChildEnvironment` |
| Rendering, redaction, header rules | `render/curl.go`, `config/header.go`, `render_command.go`, `proxy.go` 635-691, 780-823 | none, and the clipboard and a file | forward headers, redact, decode, validate, render, copy, write | `CurlRender`, `RequestEnvelope`, `CurlCommand` |
| Clipboard, command line | `clipboard.go`, `cmd/autocurl/main.go` | none | parse flags, copy | in part: flags and their errors, the clipboard |
| Certificate authority | `ca.go` | certificates per host under a mutex | issue | only that it may fail |
| VS Code session | `ide/vscode/src/session.ts`, `extension.ts` | `process`, `ready`, `recording`, `startPromise`, `stoppingSession`, `debugSessions` | start, stop, pause, resume, track a debug session, engine exit, timeout | `VSCodeSession`, in part; `SessionContract` |
| JetBrains session | `CaptureSession.java`, `RunWithAutocurlAction.java` | the same, as volatile fields of several threads | start, run the engine, read lines, set recording, stop, listen to applications | `JetBrainsSession`, in part; `SessionContract` |
| Engine managers | `binary.ts`, `EngineManager.java` | the installed executable | resolve, download, verify, replace | not modelled |
| User interface, examples, scripts, site | | | | not modelled |

How they interact. A run or debug action of an IDE starts the engine and waits
for its `ready` line, which carries the environment of the application;
`autocurl run` builds the same environment for a child of its own. The
application's requests reach the proxy as plain requests or CONNECT streams.
Each is a goroutine; a CONNECT stream consults the TLS policy, is tunnelled or
intercepted, and an intercepted one runs the request loop, which a protocol
switch turns into a relay. A request's handler ends in `emit`, which asks the
recording flag and calls the emitter; the emitter renders the cURL and writes a
JSON line, which the IDE shows (under `run`: a row, the clipboard and a file).
Diagnostics and operational errors take the same pipe. In the other direction
the IDE writes `pause` and `resume` to the engine's stdin and closes it to stop
the engine, whose exit removes the temporary directory.

What is hard here: decisions that are read, computed outside the lock and
written back; a body that two goroutines read and a buffer that two goroutines
touch; a flag read before a mutex is taken; one pipe shared by everything, whose
reader may stall or vanish; signals before and after the handlers are
installed; a deadline on shutdown that some connections never see; two copies of
which each must be ended by the other; bits of an address that a language
without CIDRs must spell out; six JSON shapes of one request; and, in the IDEs,
engine events that arrive while a start or a stop is being awaited, or fields
cleared outside the monitor that guards them. `PROJECT.json` lists each such
place with its line and the properties aimed at it.

What makes each component correct:

- TLS policy: an incompatible destination is never broken in safe mode; nothing
  is tunnelled without an explanation; a promise made to the user is kept;
  strict mode never degrades; verdicts do not flip.
- Body capture: what is shown is what was sent, up to a marked limit.
- Events: one row per request that was recorded, none for the others, numbered
  in output order; pause and its acknowledgement agree; every failure's cause is
  explained once; a full pipe blocks nobody for ever.
- Intercepted connection: bodies arrive whole, answers and events are in
  request order, and the loop never runs over a body still being read.
- Relay: bytes arrive from the first on and without a gap, however a switch
  fails nothing stays open, and a relay ends when either side has.
- Engine process: files live exactly as long as they are needed, on every exit
  path; a stop is always heard.
- `run`: the child's environment names only what exists, a bypass means the same
  to every client or is noted, rows come before the exit, the clipboard and the file hold
  the latest match, the child hears the signal, and `run` returns.
- Rendering: the command repeats the request, with exactly the secrets replaced;
  the shapes `render` knows agree; the exit code is true; live and end-to-end
  headers reach the upstream.
- IDE sessions: every engine stays within reach of Stop, sessions do not mix,
  the record button is right, an application keeps its proxy, and every start
  and stop ends.

## 2. The modules

```
TLSPolicy    BodyTee    RequestCapture    InterceptedConnection    DuplexRelay
EngineLifecycle, RunCommand          --refine--> EngineContract
BypassTargets <- ChildEnvironment <- RunCommand        (EXTENDS)
CurlRender <- RequestEnvelope <- CurlCommand           (EXTENDS)
VSCodeSession, JetBrainsSession      --refine--> SessionContract
```

A module `XProofs` holds the theorems about X; `StreamProofs` those about
`BodyTee` and `DuplexRelay`, the two places where the proxy copies a stream;
`RequestProofs` those about `InterceptedConnection` and `CurlCommand`, the way of
a request to the upstream and to the cURL made of it; and `RunCommandProofs` those
about `RunCommand` and the two modules it extends. For one module to extend two
components, their specifications have names of their own (`TeeInit`, `TeeNext`,
`TeeSpec`; `CurlInit`, `CurlNext`, `CurlSpec`). `MC_*` modules only add the sets
TLC enumerates and symmetry. A definition that stands before another of similar
name and breaks it (`SelectBug`, `CopyRaw`, `RunAgain`) is a plausible slip,
referred to by the mutation checks of `PROJECT.json` only.

### TLSPolicy

One record of state per CONNECT stream (`pc`, `host`, `decision`), the shared
map `tlsDecisions`, and what the user is told (`diagnostics`, `errorEvents`).
Each critical section under `tlsMu` is an action; `tlsDecision` is two of them
(`CacheHit` or `CacheMiss`, then `ProbeReturns`), since the probe runs unlocked
in between. `ClientRejects` is the handshake error with `rememberTLSBypass`, and
`ReportRejection`, a step later, the diagnostic and the error event. What a
destination does to the probe (`UpstreamKinds`) and whether a handshake fails
are choices of the environment, and so is the `mode`, fixed in `Init`. A tunnel dials
(`TunnelDials`) and then reports through the emitter and its pipe
(`TunnelReports`), a step that may not come; this model assumes no fairness.
`afterRetry` and `overlapped` are history variables, read by properties only.

### BodyTee

One request: `forwarded` bytes of `body` have been read by the transport's
goroutine and written through `Write` (limitedBuffer.Write) into `buffer`;
`SnapshotBody` and `SnapshotFlag` are the two reads of `finalizeEvent`. Nothing
orders them with the writes. `SnapshotTorn` stands for the data race on the
slice header: a length read with the data pointer of a moment before.

### RequestCapture

The stages of each handler, the recording flag, `diagnosticSeen`, the emitter
and the stdout pipe with room for `PipeCap` lines. Critical sections of
`diagnosticMu` and of the emitter's mutex are single actions; the flag is read
(`Emit`) in a step before the row is written (`WriteRow`). The control goroutine
changes the flag (`SetRecording`) and acknowledges (`EmitState`) in two steps.
Requests that match the filters, their outcomes and the causes of failures are
choices. `pausedDuring` and `quiet` are history: requests that ran while
recording was off, and those that started then.

### InterceptedConnection

The loop of `serveTLS` for HTTP/1.1. `wire` is what the shared `bufio.Reader`
will deliver next; the loop takes heads from it, the transport's goroutine takes
body chunks. Nothing in the code makes the loop wait for that goroutine after an
early answer, so both may take the next chunk; that is a data race, of which the
model keeps the mildest outcomes. The client is a well-behaved one.

### DuplexRelay

The three users of `relayDuplex`: `handleHTTP1Switch`, the switch inside
`serveTLS`, and `tunnel`. `held` is what the client sent before it saw the
answer, which lies in the handler's `bufio.Reader`; `wire`, `received` and
`peer` are the two directions; `proxyEnd` the two connections the proxy holds.
`NotWritable`, `SwitchFails` and `Switch` are the ways out of a switch, `Copy`,
`EndOfFile` and `CopyFails` those of each `io.Copy`, `CloseBoth` and `Join` the
end of `relayDuplex`. A peer may finish its stream and read on, or be gone.

### EngineLifecycle and EngineContract

The main goroutine of `proxyCommand` stage by stage, with the deferred calls in
their order (signal.Stop, then Proxy.Close, then RemoveAll); the control
goroutine; handlers reduced to "is being served" and "has a row to write"; the
stdin pipe, the stdout pipe and the signal channel. `Crash` takes both pipes
away, `Signal` and `Kill` come at any moment. `lifetimeStdin`, and whether the
tools that `Environment` runs use the proxy (`proxiedTools`), are choices made in
`Init`. A write to a broken stdout raises SIGPIPE, as the Go runtime does on
Unix for file descriptor 1.

The control goroutine ends with stdin (`EndOfInput`) or with an error of its
scanner (`InputFails`), which reads no further either way.

`EngineContract` says what the engine promises whoever started it, in four
variables and without a word of goroutines or signals: files before the first
connection and until the last can be made, an address announced only while the
proxy accepts, no files left by a process that returned of its own accord.
`EngineLifecycle` implements it: `Contract == INSTANCE EngineContract WITH ...`
maps the directory, the listener, the announcement (`ToldAddress`) and the
stage of the main goroutine (`Progress`), and `KeepsContract` is checked by TLC
and proved. `RunCommand` implements the same contract (`RunKeepsContract` in
`RunCommandProofs`): its user is the child, and what it shows as one step
(directory and listener, removal and exit) the contract allows in one.

### BypassTargets, ChildEnvironment, RunCommand

`BypassTargets` is pure: a target is a record, a CIDR has four octets and a
length. `Masked`, `InPrefix` and `JavaCIDRPatterns` are what `netip` and
`javaCIDRPatterns` compute, on octets of their real width;
`BypassCompatibilityNotes` are the two notes to the user: CIDRs that Node and some
Python clients may not take, and those that Java cannot have. `ChildEnvironment` is
`buildChildEnvironment`: an environment is a function from names to values, and
what may fail (keytool, the home of Go, patching, each write) is a choice of the
input. `RunCommand` is `runCommand` from its flags to its exit: the session, the
environment, the child, the signal channel with its forwarder, and for each
request of the child a handler that ends in the emitter, whose critical section
is taken apart (copy, open, write, print) so that a failing clipboard or file
can leave it half done. A plain request is tracked by `http.Server.Shutdown`, an
intercepted one, whose connection was hijacked, is not; `DrainDeadline` is the
two seconds after which `Close` gives up. `late` is a history variable.

### CurlRender, RequestEnvelope, CurlCommand

`CurlRender` is `render.Curl` and the headers `roundTrip` hands to the transport
(`ForwardedHeaders`), of which `Written` is what net/http writes to the upstream over
either protocol: never Host or the framing headers, over HTTP/2 none of the
connection, and one User-Agent (a nameless or malformed header fails the round trip
and is left out). A command is
the record of its arguments, JSON values are trees, and `ApplyHeaders` and the
redaction of JSON are recursive functions, on a list and down a tree. The
spelling of names (`Folded`, `Canonical`), which of them mention a secret
(`Mentioning`) and the JSON values there are (`JSONValues`, with the `Depth` of
each) are parameters. `RequestEnvelope` is what `render` accepts: the
six shapes `decodeRenderEnvelope` knows, with the aliases of each field in the
order the code tries them, validation, and the templates. `CurlCommand` walks a
captured request, or a call of `render`, through them to the clipboard, the file
and the exit code; `Panic` is the dereference of a nil URL in `renderKind`. The code
discards the errors of standard output, so any line may arrive, break off or be lost
(`Arrives`); with `--json` an error is an object there (`WriteRenderError`), and the
failures of copy and file are fields of the result (`ResultLine`).
Captured requests (`Incoming`) and calls of `render` (`Renders`) are parameters as
well. A JSON body whose header declares a form is left out: `url.ParseQuery` makes
something of it that is neither.

### VSCodeSession

The extension host is single-threaded, so a callback up to its next `await` is
one action, with the continuations it settles at once: `Start` and `Launch` (to
`await binary.resolve()`), `Spawn`, the line handlers, `Exit`, `Timeout`,
`StopSession`, its continuation `AppsStopped`, `ForceKill`, the debug-session
events. Engines are numbered in the order of `spawn`, and so are the random
session ids. `app` follows one debug launch: resolving its configuration,
launching (a pre-launch task may take long), running, ended. The engine is what
`EngineLifecycle` looks like from outside: it announces itself, changes its flag
(`EngineSets`) and acknowledges (`EngineSays`) in two steps, writes rows, and ends
when it likes. Joining a running start, a Stop during a
Stop and a click without an engine change nothing and are no actions. What a
local variable or a dead process held is reset when it is gone. The bypass
button of a diagnostic is a `StopSession` followed by a `Launch`. `timedOut` is a
history variable.

### JetBrainsSession

The same session with threads: `start`, `setRecording` and `stopEngine` hold the
monitor and are single actions; `runEngine` runs in a pool thread per engine
(`thread[e]`) and writes the same volatile fields without the monitor, so each
of its writes is an action of its own. Futures are delivered on the event thread
(`Deliver`), applications are launched and awaited by others, and `stopEngine`
runs in whatever thread called it (`stoppers`): the user's Stop, the last
application to end, or a configuration that did not start. The thread leaves its
engine (`Leave`) at the end of its output or by an exception, as when
`destroyForcibly` closes the stream under it. The engine is seen from outside, as in
`VSCodeSession`. `reset` is a history variable.

### SessionContract

What both sessions promise, in four variables and without a word of promises,
monitors or threads: which engines were begun, which one runs, which were told to
stop, and the engine whose proxy each application has. At most one engine runs,
and each is begun once and only while none runs; only one that was begun is told
to stop; an application gets the proxy of an engine that was begun and keeps it until
it is over. The mappings (`Begun`, `Running`, `Proxy`) stand with the proofs.

## 3. What the runs show

| Run | Module, bounds | Shows |
|---|---|---|
| `tls` | `TLSPolicy`: 2 connections, 1 destination of each kind, safe and strict (37,000 states) | incompatible destinations are left alone, tunnels explained, the retry promise holds for rejections no probe overlaps, a bypass that no running probe can overwrite stays |
| `body_capture` | `MC_BodyTee`: bodies up to 5 bytes over 2 values, limit 3 (22,000) | a snapshot no write races with is the exact prefix, marked exactly when more has passed |
| `request` | `MC_RequestCapture`: 2 requests, 2 causes, 3 commands, 1 error, pipe of 1 (2,100,000) | rows, numbers, diagnostics and acknowledgements agree with what happened |
| `request_liveness` | `MC_RequestCapture`: 2 requests, 1 command, pipe of 1, fair (17,000) | no handler or command is held back for ever |
| `connection_loop` | `InterceptedConnection`: 3 requests of up to 2 chunks (110,000) | bodies arrive whole, round trips do not overlap, one event per request, no error that nothing caused |
| `connection_stolen_body` | `InterceptedConnection`: 1 request of up to 2 chunks | **violation**: a chunk is lost to the loop after an early answer |
| `engine` | `EngineLifecycle`: 2 requests, 2 signals, 1 command, pipe of 1, fair (820,000) | a single stop ends clean, drain before removal, a stop is heard, and every behaviour is one of `EngineContract` |
| `run` | `MC_RunCommand`: a tracked and a hijacked request, 2 signals, 6 lists of targets, 192 addresses, fair (430,000) | the environment is sound, bypasses reach every client or are noted, rows precede the exit, the latest match is in clipboard and file, the first signal arrives, `run` returns |
| `curl` | `MC_CurlCommand`: headers and bodies of every kind, descriptions of every shape, text and JSON (7,800) | the command repeats the request with exactly the secrets replaced, the templates agree, the exit code is true and agrees with what arrives on standard output, end-to-end and live headers reach the upstream |
| `relay` | `DuplexRelay`: up to 3 chunks each way, 1 early, fair (18,000) | streams arrive intact, a switch leaves nothing open, a relay ends |
| `vscode_session` | `VSCodeSession`: 2 launches, 2 engines, 1 click, 1 undelivered line per engine, fair (1,300,000) | no stray engine, sessions do not mix, the button is right, no engine closed under a tracked application, a start that has spawned its engine settles, a stop ends |
| `jetbrains_session` | `JetBrainsSession`: 2 launches, 2 engines, 1 Stop, 1 click, fair (800,000) | no engine is lost, the button is right unless a former engine's thread cleared it late, launches are answered, a Stop ends the engine held |

The violation is a disagreement between the code and `docs/architecture.md:70`;
`PROJECT.json` quotes it. More divergences are visible in the models and have no
run of their own:

- `proxy.go:443` promises that the next connection to a host whose client
  rejected the CA stays end-to-end; a probe that was in flight overwrites the
  stored bypass (`proxy.go:371`, `ProbeReturns`), and the retry is intercepted.
  `PromiseKeptUnlessOverlapped` says what holds.
- `README.md:77` says safe mode keeps detected mTLS end-to-end; under TLS 1.3 a
  server asks for the client's certificate after the handshake the probe judges
  (`proxy.go:564`), so it is intercepted. `SafeLeavesIncompatibleAlone` speaks of
  destinations a handshake can judge.
- `docs/ide-plugins.md:121` says bodies larger than the limit are marked; after
  an early answer the flag is read (`proxy.go:826-827`) before the transport has
  read past the limit. `QuietSnapshotIsExact` speaks of snapshots no write
  follows.
- `docs/session-lifecycle.zh-CN.md:39` says an application does not go on with a
  proxy that was closed; a launch of VS Code that took `ready` before a Stop
  (`session.ts:144`) and is not tracked yet starts with one. And in JetBrains,
  a configuration that did not start stops the engine (`handleNotStarted`,
  `ProcessNotStarted`) although other applications use it, `start` hands out the
  ready event of an engine that was already asked to stop (`Run`), and the end
  of one `runEngine` may clear `recording` under the next engine (`reset`).
- `render` dereferences a URL that could not be parsed: `renderKind`
  (`render_command.go:626-627`) runs before the validation that would refuse it
  (`Panic`).
- `docs/architecture.md:49` says a destination is probed once; two connections
  that miss the cache together probe it twice, and a destination that could not
  be reached is probed by every connection (`CacheMiss` has no single flight).
- `README.md:92` says Pause Recording stops adding rows; a handler that has
  passed the flag (`Emit`) writes its row (`WriteRow`) after the acknowledgement
  (`EmitState`). `PauseSilencesRequestsOnly` is what the code does promise.
- `proxy_command.go:63` says the first line is the ready event; where a tool run
  by `Environment` uses the proxy (`proxiedTools`), its request comes first.
  `FirstLineIsReady` is stated for tools that do not.
- `README.md:505` says a termination signal removes the session files; one that
  comes before `signal.Notify`, or a second one after `signal.Stop`, kills the
  process and leaves them. `OneStopCleansUp` is stated for a single stop of a
  serving engine.
- `docs/architecture.md:85` says closing stdin deletes all ephemeral files; when
  the IDE is gone altogether, a line written to the broken pipe raises SIGPIPE
  before `Close` removes them (`Crash`, `RowToNobody`; `Cut` of the contract).
- After a start of VS Code timed out, the late exit of its engine clears the ready
  state of the next one, which a further start then replaces without stopping it.
  `OneSessionAtATime` and `ButtonTellsTruth` are stated for sessions without a
  timeout; with one, they do not hold.
- `README.md:233` says `--live-header` accepts any `Name: value`; a live `Host`,
  `Content-Length`, `Transfer-Encoding` or (over HTTP/1.1) `Trailer` is put into the
  header map (`proxy.go:650`), from which net/http never writes them, and the cURL
  skips all but the last (`SkippedHeaders`): it has no effect on the request.
  `UpstreamGetsEndToEndHeaders` excepts these names (`OwnHeaders`).
- `render` and its `--json` discard the errors of standard output
  (`render_command.go:242`, 250): exit code 0 does not say that the command was
  printed. `ExitTellsTruth` speaks of the clipboard, the file, and what did arrive.
- A start of VS Code may hang before its minute is armed: `downloadBuffer`
  (`binary.ts:221-256`) has an idle timeout only and settles neither way when a
  response breaks off, and `startPromise` is then never cleared. `StartSettles`
  begins when the engine has been spawned.
- A relay ends with the stream that ends first: a peer that only half-closed
  loses the rest of the other direction (`CloseBoth`). `StreamsArriveIntact`
  promises completeness of the first stream to end only.

Bounds. The races on `tlsDecisions` involve at most a prober, a rejecter and a
later connection; a connection is a slot that is used again, so two slots give
all three roles. Hosts interact only through the map's keys: one is enough for
the races, and that no verdict of one host serves another is proved for any
number of them. In `RequestCapture` a row has to cross a pause and a resume,
hence three commands; one place in the pipe makes every writer wait. In
`InterceptedConnection` a chunk of a body can be taken by the loop between two
others of the same body or before the next head: two chunks and three requests.
In `EngineLifecycle` a second signal matters (after `signal.Stop`), a third does
not: it would find the same stages. A limit of three with bodies of five bytes
puts the limit inside a read, at its end, and before an empty rest. In
`DuplexRelay` three chunks give one early, one in flight and one to come. In
`RunCommand` one request of each kind suffices for the drain and two for the
order of the output; the CIDRs end inside an octet, at its border, nowhere and
everywhere, and the addresses lie on both sides of each border. `CurlCommand`
has no concurrency: its inputs are the bound, one of each kind of header, value,
body and flag; as a JSON body, every tree two deep over a sensitive name,
another one, three scalars and lists of at most one entry, each also one level
further down. In the two sessions, two engines give an old and a new one, two
launches one that runs while the other is under way; one click meets every stage
of either engine. With one Stop of JetBrains, `stopEngine` still has up to three
callers at once: the Stop, an application that did not start, and the end of the
last application.

Fairness. Only steps the code takes by itself are fair. `TLSPolicy` assumes none:
the probe and the dial have deadlines (5 s, 10 s), but reports wait for the emitter
and its pipe, clients may stall for ever, and handshakes have no deadline. In
`RequestCapture` an
upstream may never answer (no overall timeout), but the emitter's mutex is
handed to waiting goroutines (a Go mutex starves nobody) and the IDE reads;
writers compete for the room in the pipe, hence strong fairness of the writes.
`EngineLifecycle` assumes the same of the main and the control goroutine and
nothing of requests, of `Environment` or of the user. In `DuplexRelay` a
goroutine that can run does; peers may be silent for ever, which is why
`RelayEnds` starts from a peer that ended its stream. In `RunCommand` the main
goroutine, once its child has run, and the forwarder go on, and the drain's
deadline is a timer; the child, its requests and the user owe nothing. In
`VSCodeSession` timers fire and VS Code ends the sessions it was asked to end;
nothing is assumed of the engine, nor of resolving the executable, which may hang in
a download. In `JetBrainsSession` threads run, the executable is resolved, the event thread
takes what is posted to it, timers fire, and an engine announces itself or ends;
`start` itself has no timeout, so `StartSettles` rests on that last assumption.

Deadlock is checked where a state without successor would be an error
(`TLSPolicy`: slots are reused for ever). The other models end: the requests are
served, the process has ended, the connection is closed.

## 4. What is proved

The theorems hold for all values of the constants; their modules extend the
component's module and TLAPS. Every inductive invariant named below was first
checked by TLC on the instance of the component's run.

`TLSPolicyProofs`, from `HostAssumption`:

- `TypeCorrect`: one lemma per kind of action.
- `SafeModeIsSafe`: inductive invariant `VerdictsAreTrue`, which says of the
  cache and of every pending decision that a code other than "unreachable" and
  "absent" is a bypass whenever the destination's handshake is one the probe can
  refuse. The property alone is not inductive: a connection in "handshake" got
  there by a cached code, so the cache must be true as well.
- `TunnelsAreExplained`: the invariant `ExplainedInv` says where each pending
  decision came from: a host whose map entry is "the client rejected the CA" has
  its rejection reported or in the hands of the connection that will report it.
- `SettledIsPermanent` (`SettledStaysSettled`): an action property from type
  correctness alone; a settled host has no probe running and a bypass is
  overwritten only by probes and by other bypasses.
- `PromiseHolds`: the invariant adds that a host with a rejection diagnostic is
  settled or overlapped, and that a rejected connection has stored its bypass.
- `StrictModeIsStrict` (`StrictNeverDegrades`): inductive with the type invariant.

`EngineLifecycleProofs`, from `ConstantsAssumption`: one inductive invariant,
`IInv`, with one lemma per group of its conjuncts and one step per action.

- `TypeCorrect`.
- `FilesStayReadable`, `ReturnsClean`: `FilesFollowMain` ties listener and
  directory to the stage of the main goroutine; a dead process listens to
  nothing, and only `Abort` and `Return` are exits, both after the removal.
- `SingleStopIsClean`: `StopFollowsMain` says that the first stop finds
  `signal.Notify` in force when the main goroutine is in its select, that a
  status of 1 never leads there, and that a fatal signal as the only stop came
  at another stage.
- `RemovalWaits`: after `Drain` the listener is closed, so tracked requests can
  only become fewer.
- `ReadyComesFirst`: `OutputFollowsMain` says that nobody who could write exists
  while nothing is written.
- `EngineKeepsContract`: `Spec => KeepsContract`, the refinement. Of the main
  goroutine's steps seven map to a step of the contract (`MakeDirectory` to
  `Prepare` or `Return`, `Shutdown` to `Close`, ...), every other one to a
  stutter, since the contract sees a function of five variables only
  (`ContractStutters`); whatever kills the process is the contract's `Cut`
  (`DyingCuts`). `IInv` is needed for the stages where nothing may be listening.
- `StopIsRemembered` (`NoStopForgotten`) and `EndOfStdinIsMet`: what `StopIsHeard`
  owes to the order of the code. `StopIsKept` says that a stop asked for before the
  select is in the signal channel or at the end of stdin, and that from `Notify` on
  somebody reads stdin; `Ahead` counts the steps of the control goroutine to its end,
  two for each command still in the pipe.

`StreamProofs` on `BodyTee`, from `LimitAssumption`, `BodiesAssumption`,
`GarbageAssumption`:

- `BufferIsExact` (`CapturedIsPrefix`): the lemma `WriteExtends` shows that
  writing the next k bytes into the buffer of a prefix gives the buffer of the
  longer prefix, with the flag exact; it rests on the theorems on `SubSeq` and
  concatenation.
- `RetentionBound` and `QuietSnapshots` follow from the same invariant.

`RequestCaptureProofs`, for any requests, hosts, causes, commands and pipe:

- `TypeCorrect`, and lemmas on what appending a line does to the positions of
  each kind (`Written`, `PositionsGrow`, `RowsGrow`, `DiagnosedGrow`), on which
  the rest is built.
- `StateLineIsTrue`: the property is about idle moments; `StateIsOwed` adds what
  the control goroutine still owes after it has changed the flag.
- `EachCauseOnce`: `DiagnosedOnce` is inductive by itself.
- `ListIsExact`: needs `PauseIsNoticed`, that a request in flight while recording
  is off has been noticed as such, since the flag is read a step before the row.
- `PauseSilences`: `QuietStaysQuiet` keeps quiet requests away from the stages
  that lead to a row; `ErrorsAreCounted` counts error lines as a finite set.

`StreamProofs` on `DuplexRelay`:

- `SwitchClosesBoth`: `SwitchStage` says for each stage of the handler what has
  been emitted and closed.
- `StreamsAreWhole`: `Streams` describes each direction as one stretch of
  consecutive numbers from what was received, through `held` and `wire`, to what
  was sent; `Longer` and `Shorter` add and take a chunk at its ends.
- `RelayIsNotStuck` (`RelayCanMove`) and `RelayEndsInTime` (`RelayDrawsToEnd`): the
  safety of `RelayEnds`. By `Halves`, which copies run and which connections are
  open at each stage, some guard holds until the relay is closed; every step of the
  relay lowers `Todo`, the chunks not yet received and the copies and stages not yet
  over, and no other step changes it.

`JetBrainsSessionProofs`, from `BoundsAssumption`:

- `NoEngineIsLost`: until `starting` is cleared no second engine can be started,
  so although `runEngine` writes without the monitor, the fields that find the
  engine have one writer at a time (`OneInCharge`).
- `ButtonIsTrue`: `Shows` says of each engine that its last unread line tells what
  it does and that, when none is left, the flag of the session does, or will when
  `Complete` has set it; that no other thread writes the flag meanwhile is
  `OneInCharge` again.
- `StopIsPassedOn` (`StopReachesEngine`): an action property. A call of `stopEngine`
  is swallowed when `stopRequested` is set, and two threads clear that flag;
  `StopIsOwed` says that it is never left over from another engine than the one held.
- `StartHasAThread` (`NobodyWaitsInVain`): the safety of `StartSettles`.
  `StartsAreAnswered` follows a future from the call to the line that completes it:
  a pending one has a thread before it, and a serving engine whose thread has not
  read its ready line has it in the pipe.
- `SessionKeepsContract`: `Spec => Contract!Spec`, from all of these invariants.
  `Hold`, `Clear` and the reading of lines, where the races are, map to stutters.

`VSCodeSessionProofs`, from `BoundsAssumption`:

- `TypeCorrect`, by groups of variables that few actions touch.
- `OneSession`: `OnlyTheNewest` says, while no start timed out, that of every
  engine but the newest the exit event has been handled, with no line of it left
  unread, and that the next one starts only when the same holds of the newest.
- `ButtonIsTrue`: `ButtonFollows` says what the button will be after the lines
  still in the pipe.
- `ClosedUnderNone`: an action property; `FreshWhileWaiting` says that no
  application can have the proxy of an engine still being started.
- `WaitsHaveAnEnd` (`NobodyWaitsInVain`): the safety of `StartSettles` and
  `StopFinishes`; `WaitsAreOwed` adds what a launch has at each stage.
- `SessionKeepsContract`: the same contract as that of JetBrains, in every behaviour
  in which no start times out. The hypothesis is needed: after a timeout a next
  start does not wait for the end of the engine given up, so two run for a while, and
  the exit of the first clears the fields of the second (section 3).
  The lemma `StepsKeepContract` says it step by step, up to the first timeout.

`RequestProofs` on `InterceptedConnection`, from `BoundsAssumption`, for any number
of requests with bodies of any length. The invariant, `ConnectionInv`, says where every chunk
is although two goroutines take from one reader: `InOrder` gives the chunk at
each place of the reader (the rest of the current body, then what was sent of the
next request) and how many there are, until the loop takes a part of a body for a
head; `Loop` says who reads a body at which stage, and that a body is read after
its answer only if the answer was early or made up; `Bodies` what the upstream
has got. Two lemmas do the work: the head of a request can be next only when
nothing is left of the body before it (`HeadIsNext`), and a part of a body only
when an answer was early or the round trip failed (`GarbageIsBody`).

- `BodiesAreForwarded` (`BodiesArriveWhole`).
- `OneBodyAtATime` (`BodiesDoNotOverlap`): an action property, by `HeadIsNext`;
  no action but `ReadHead` changes `current`.
- `AnswersAreReported` (`OneEventPerRequest`).
- `OnlyEarlyAnswersLoseBytes`: without an early answer the statement that run
  `connection_stolen_body` finds violated does hold, so the early answer is the
  only cause of the divergence.

`RequestProofs` on `CurlCommand`, for any headers, forms, URLs and JSON bodies. From
`JSONAssumption`, that a JSON value is a finite tree; `RedactionAssumption`, that
what redaction makes of one is one, too; and `InputsAssumption`, that header lists
are sequences and URLs and bodies of the kinds the parsers of Go give.

- `RequestIsRepeated` (`CommandRepeatsRequest`), the statement about secrets. What
  the code computes by recursion the property says at once, so each needs a proof
  for lists or trees of any size: headers replaced one by one are the last header
  of each name (`ReplacedOneByOne`), and the leaves of a redacted JSON body are
  those of the body, cut off and replaced below the first sensitive name on their
  way, and untouched elsewhere (`LeavesAreHidden`). The rules of induction that the
  library states take an operator as parameter; these proofs look at the least
  counterexample instead, by length or `Depth`, which exists because the subsets of
  a finite set are well-founded under inclusion (`LeastNumber`, `JSONInduction`).
  That the recursive functions satisfy their equations is proved, not assumed
  (`RecursionHasASolution`, `JSONEquations`). `RenderedInv` says that the command
  is that of the request at every later stage.
- `CodeCanBeTrusted` (`ExitTellsTruth`): `ExitInv` says what each stage has left on
  standard output, in the clipboard and in the file so far; a copy that failed
  is still failed two stages later. One lemma for each kind of exit says that its
  code and what arrives on standard output agree (`HelpTellsTruth`,
  `ErrorTellsTruth`, `RenderErrorTellsTruth`, `ResultTellsTruth`).
- `SecretsHaveNoInfluence`: redaction stated without saying what it computes. Two
  requests that differ only under sensitive names (`AlikeRequests`: in headers, live
  headers, query, form, or at any depth of a JSON body) have the same cURL, the same
  mark of redaction and the same warnings. Neither a count of the values nor whether
  one was empty shows, which the comparison of one command with one request cannot
  tell. `Content-Type` must not be a sensitive name: it decides how a body is read.
- `TemplatesMeanTheSame` (`TemplatesAgree`): the six templates, decoded through six
  different paths of `decodeRenderEnvelope`, are one request (`TemplateInv`),
  whatever the command line; from `WordsAssumption`, that the case functions of
  `net/http` and `strings` do to the words of the templates what they do, and that
  no word of them is a secret or unfit for HTTP.
- `HeadersReachUpstream` (`UpstreamGetsEndToEndHeaders`): by `ForwardedInv`, and
  `ReplacedOneByOne` for the live headers, which are put over what is left after
  the hop-by-hop headers went (`HopByHopHeadersStay`, `SwitchIsRestored`). That is
  `HandedOver`, what the transport gets; `EndToEndHeaders` goes on to what it writes.

`RunCommandProofs`, from `RequestsAssumption` and `InputsAssumption`. The latter
says what `os.Environ` and a command line can be: values are finite lists, the
prefixes among the targets are prefixes (a text `netip.ParsePrefix` refuses is of
another kind), and nothing inherited names a file of the session's directory,
which `os.MkdirTemp` has just made.

- `JavaPatternsAreTheCIDR`: for every prefix, with any host bits, and every
  address, the Java patterns match the address exactly when the CIDR contains it.
  An octet is masked to a block (`MaskFloors`) that the listed values fill
  (`BlockMembership`); whole octets are fixed or free.
- `OnceKeepsAll`: the merge of the three inherited lists and the configured one
  keeps every target once, whatever the lists. The k-th first occurrence exists
  and is unique by a bijection between the first occurrences and their ranks.
- `EveryClientBypasses` (`BypassReachesEveryClient`): `MergedTargets` carries
  `OnceKeepsAll` to the variables of the child, `PatternsCover` the theorem on
  CIDRs to the list of Java.
- `ChildCanRely` (`EnvironmentIsSound`): `SessionInv` ties the listener and the
  child to the stage of `runCommand`, `EnvironmentInv` the files to what the
  environment names; the lemmas `Built` and `Overlaid` say of every name whether
  it was overridden, extended or left alone. The attempt to prove it for every
  environment showed that `SettingsAreKept` had been stated too strongly: a
  user's own `NODE_USE_ENV_PROXY` or `AUTOCURL_CA_FILE` is replaced, as cli.go:663
  and go_overlay.go:88 say, which no instance had contained. The property now
  excepts them, and the instance of the run has one.
- `DrainWaits` (`RowsPrecedeExit`): also from `SessionInv`; after `Drain` nothing
  tracked is busy, and no child is left to begin a request.
- `LatestIsKept` (`OutputIsLatest`): `NumberInv` says that one request at a time is
  with the emitter and that the numbers given are as many as the rows, or one
  more while it is there (a cardinality); `LatestInv` follows that request through
  copy, open, write and print, each of which may fail.

- `SignalIsNotLost` (`SignalIsHeld`) and `ReturnIsNear` (`ReturnDrawsNear`): the
  safety of `FirstSignalArrives` and `RunReturns`. `SignalInv` says that the
  forwarder is there exactly while `runCommand` waits for a child that exists; `Left`
  counts the steps to the return, at most five, which no handler, signal or full
  drain can put back.
- `RunKeepsContract`: `Spec => Contract!Spec`, the refinement of `EngineContract` by
  `run`, from `SessionInv` and `FilesFollowMain`.

Only model-checked: liveness itself, which is out of the prover's reach (the
temporal properties of `RequestCapture`, `EngineLifecycle`, `DuplexRelay`,
`RunCommand` and the sessions). What the prover can say of it is said
above for all but the first: that whoever waits waits for something that is under
way, and that the steps that bring it are finitely many or taken back by nobody. In
`RequestCapture` the steps in question have no guard but the stage of their own
goroutine and the room in the pipe, so there is nothing to prove but fairness. Every invariant of the passing runs is proved.

## 5. Assumptions and what is left out

- `os.RemoveAll` and `os.WriteFile` of the clean-up do what they say; a failure
  of `RemoveAll` is ignored by the code and by the model.
- net/http and golang.org/x/net/http2 write the headers they get but for
  `OwnHeaders`; a request they refuse to write at all reaches nobody.
- SIGPIPE ends the process: true on Unix; on Windows the write fails and the
  engine goes on to its orderly end.
- `Environment` ends. `go env GOROOT` and `keytool` have no timeout in the code;
  nothing is assumed of when they return.
- Node delivers the lines an engine wrote before its exit event. It does not
  promise this order, but libuv handles readable pipes before child exits.
- An engine that cannot be spawned reports an error and no exit.
- Bytes that `Close` finds in flight in a relay are the kernel's business.
- Byte-level races (torn reads other than `SnapshotTorn`, a corrupted
  `bufio.Reader`) are reduced to the outcomes named above.
- Quoting, the wording of messages and the spelling of JSON are left out of
  `CurlRender` and `RequestEnvelope`: a command is its arguments, a document its
  tree. Text parsing of targets is the kinds of `BypassTargets`.

Not modelled:

- HTTP/2 connections, which golang.org/x/net/http2 serves by calling the same
  handler, and trailers.
- The certificate authority: X.509 generation behind one mutex.
- The engine managers (`binary.ts`, `EngineManager.java`): two windows that
  download at once meet in the file system only, through renames.
- The patched Go source of the overlay, the dispatch of `Run`, help and version.
- In JetBrains, the rendering command, local diagnostics, the list of requests,
  `dispose`, and a configuration the user runs again by hand; in VS Code, the
  views and the rendering command.
- The user interfaces, examples, scripts and the site.

## 6. Plan

What remains, in this order:

1. `EngineManager`: download, verification and replacement by two windows, with
   a crash between any two file operations.
2. `CaptureSystem`: engine and session composed over the two pipes, for the
   forced kill after 2.5 s and for what the last rows of a session lose by it.
3. A weaker `SessionContract` for VS Code after a timeout: what still holds while
   the engine given up and its successor overlap.

`SessionContract` takes the place of the abstract machine of
`docs/session-lifecycle.zh-CN.md`, whose states the fields of both sessions split up.
