------------------------------ MODULE RunCommand ------------------------------
(***************************************************************************)
(* `autocurl run`: runCommand of src/internal/cli/cli.go with the child it *)
(* starts, the handlers of the proxy that serve the child, the emitter     *)
(* that reports them and the signals it gets.                              *)
(*                                                                         *)
(* A plain request is served on a connection net/http still owns, which    *)
(* Shutdown waits for; an intercepted one on a connection taken by Hijack, *)
(* which it does not (module InterceptedConnection is its inside).         *)
(***************************************************************************)
EXTENDS ChildEnvironment, FiniteSetsExt

CONSTANTS
    Inputs,             \* command lines and machines
    Plain, Intercepted, \* requests of the child
    MaxSignals,         \* bound: signals sent to autocurl
    Addresses           \* the destinations bypass rules are compared on

ASSUME RequestsAssumption == Plain \cap Intercepted = {} /\ Addresses \subseteq Address
ASSUME InputsAssumption ==
    \A i \in Inputs : IsEnvironment(i.base) /\ IsCommandLine(i.bypass) /\ i.copy \in BOOLEAN

VARIABLES
    input,
    main,      \* where runCommand stands
    exitCode,
    files,     \* in the session's temporary directory
    serving,   \* the listener of the proxy is open
    environ, notes,
    child, childCode,
    told,      \* signals the child has received
    signals,   \* the channel of signal.Notify: how many it holds
    forwarder, \* the goroutine that forwards one of them
    request,   \* per request: its stage
    report,    \* ... its number, and whether its cURL was copied and written
    rows, clipboard, output,
    late       \* history: the drain of Shutdown ran into its deadline

mainVars    == <<main, exitCode>>
sessionVars == <<files, serving>>
envVars     == <<environ, notes>>
childVars   == <<child, childCode, told>>
signalVars  == <<signals, forwarder>>
emitVars    == <<request, report, rows, clipboard, output>>
vars == <<input, mainVars, sessionVars, envVars, childVars, signalVars, emitVars, late>>

Requests == Plain \cup Intercepted
NoCode   == 300
Signaled == 255  \* ExitCode is -1, the process exits with its low byte
Empty    == 0    \* nothing copied, or a file just truncated
NoReport == [id |-> 0, copied |-> FALSE, written |-> FALSE]
Emitting == {"copy", "open", "write", "print"}  \* stages under the emitter's mutex

Alive    == main \notin {"exited", "killed"}
Flaws    == {"none", "help", "flags", "no_command", "status_min", "max_body", "mode",
             "replay_header", "live_header"}

Init ==
    /\ input \in Inputs
    /\ main = "parsing" /\ exitCode = NoCode
    /\ files = {} /\ serving = FALSE
    /\ environ = <<>> /\ notes = BypassCompatibilityNotes(<<>>)
    /\ child = "none" /\ childCode = NoCode /\ told = 0
    /\ signals = 0 /\ forwarder = "off"
    /\ request = [r \in Requests |-> "idle"]
    /\ report = [r \in Requests |-> NoReport] /\ rows = <<>> /\ clipboard = Empty /\ output = Empty
    /\ late = FALSE

-----------------------------------------------------------------------------
(* runCommand, step by step. *)

Exit(code) == main' = "exited" /\ exitCode' = code

ParseFlags ==
    /\ main = "parsing"
    /\ CASE input.flaw = "help" -> Exit(0)
         [] input.flaw # "help" /\ (input.flaw # "none" \/ ~ValidateBypassTargets(input.bypass)) -> Exit(2)
         [] OTHER -> main' = "starting" /\ UNCHANGED exitCode
    /\ UNCHANGED <<input, sessionVars, envVars, childVars, signalVars, emitVars, late>>

\* startCaptureSession; whatever fails in it is cleaned up by it.
StartSession ==
    /\ main = "starting"
    /\ \/ Exit(1) /\ UNCHANGED sessionVars
       \/ main' = "building" /\ files' = {"ca"} /\ serving' = TRUE /\ UNCHANGED exitCode
    /\ UNCHANGED <<input, envVars, childVars, signalVars, emitVars, late>>

\* session.Environment: an overlay that fails is a note and no reason to stop.
BuildEnvironment ==
    /\ main = "building"
    /\ \E failure \in OverlayFailures \cup {"none"} :
         LET java    == BuildChildEnvironment(input.base, input.bypass, input.keytool)
             overlay == AddGoTrustOverlay(java, input, failure)
         IN  /\ environ' = overlay.environment
             /\ files' = files \cup overlay.files \cup (IF input.keytool THEN {"truststore"} ELSE {})
    /\ notes' = BypassCompatibilityNotes(MergeBypassTargets(input.base, input.bypass))
    /\ main' = "spawning"
    /\ UNCHANGED <<input, exitCode, serving, childVars, signalVars, emitVars, late>>

Spawn ==
    /\ main = "spawning"
    /\ \/ child' = "running" /\ main' = "subscribing" /\ UNCHANGED exitCode
       \/ main' = "closing" /\ exitCode' = 1 /\ UNCHANGED child
    /\ UNCHANGED <<input, sessionVars, envVars, childCode, told, signalVars, emitVars, late>>

\* signal.Notify and the forwarder.
Subscribe ==
    /\ main = "subscribing"
    /\ main' = "waiting" /\ forwarder' = "listening"
    /\ UNCHANGED <<input, exitCode, sessionVars, envVars, childVars, signals, emitVars, late>>

\* Wait returns; `done` is closed and the deferred signal.Stop runs.
Reap ==
    /\ main = "waiting" /\ child = "ended"
    /\ main' = "closing" /\ exitCode' = childCode /\ forwarder' = "off"
    /\ UNCHANGED <<input, sessionVars, envVars, childVars, signals, emitVars, late>>

\* The deferred session.Close: the listener, ...
Shutdown ==
    /\ main = "closing"
    /\ main' = "draining" /\ serving' = FALSE
    /\ UNCHANGED <<input, exitCode, files, envVars, childVars, signalVars, emitVars, late>>

Busy == {r \in Plain : request[r] \notin {"idle", "reported"}}

DrainNothing ==
    /\ main = "draining"
    /\ main' = "removing"
    /\ UNCHANGED <<input, exitCode, sessionVars, envVars, childVars, signalVars, emitVars, late>>

\* ... the handlers on its own connections, ...
Drain ==
    /\ main = "draining" /\ Busy = {}
    /\ main' = "removing"
    /\ UNCHANGED <<input, exitCode, sessionVars, envVars, childVars, signalVars, emitVars, late>>

NoDeadline == FALSE

\* ... for two seconds at most, ...
DrainDeadline ==
    /\ main = "draining" /\ Busy # {}
    /\ main' = "removing" /\ late' = TRUE
    /\ UNCHANGED <<input, exitCode, sessionVars, envVars, childVars, signalVars, emitVars>>

\* ... and the directory.
RemoveAll ==
    /\ main = "removing"
    /\ Exit(exitCode) /\ files' = {}
    /\ UNCHANGED <<input, serving, envVars, childVars, signalVars, emitVars, late>>

-----------------------------------------------------------------------------
(* Signals.  One from the terminal reaches the child as well. *)

Interrupt(terminal) ==
    /\ Alive /\ told + signals < MaxSignals
    /\ told' = IF terminal /\ child = "running" THEN told + 1 ELSE told
    /\ IF forwarder = "off"
       THEN main' = "killed" /\ serving' = FALSE /\ UNCHANGED signals
       ELSE signals' = (IF signals < 2 THEN signals + 1 ELSE 2) /\ UNCHANGED <<main, serving>>
    /\ UNCHANGED <<input, exitCode, files, envVars, child, childCode, forwarder, emitVars, late>>

ForwardSwallows ==
    /\ Alive /\ forwarder = "listening" /\ signals > 0
    /\ forwarder' = "done" /\ signals' = signals - 1
    /\ UNCHANGED <<input, mainVars, sessionVars, envVars, childVars, emitVars, late>>

Forward ==
    /\ Alive /\ forwarder = "listening" /\ signals > 0
    /\ forwarder' = "done" /\ signals' = signals - 1
    /\ told' = IF child = "running" THEN told + 1 ELSE told
    /\ UNCHANGED <<input, mainVars, sessionVars, envVars, child, childCode, emitVars, late>>

ChildEnds ==
    /\ child = "running"
    /\ child' = "ended"
    /\ childCode' \in {0, 1} \cup (IF told > 0 THEN {Signaled} ELSE {})
    /\ UNCHANGED <<input, mainVars, sessionVars, envVars, told, signalVars, emitVars, late>>

-----------------------------------------------------------------------------
(* Requests, and the emitter under its mutex: number, copy, write, print. *)

EmitKeeps   == UNCHANGED <<input, mainVars, sessionVars, envVars, childVars, signalVars, late>>
Numbered(r) == [report EXCEPT ![r].id = Cardinality({q \in Requests : report[q].id > 0}) + 1]
GoTo(r, stage) == request' = [request EXCEPT ![r] = stage]

Send(r) ==
    /\ child = "running" /\ serving /\ request[r] = "idle"
    /\ GoTo(r, "inflight")
    /\ EmitKeeps /\ UNCHANGED <<report, rows, clipboard, output>>

\* The answer is relayed, or the failure.
Answer(r) ==
    /\ Alive /\ request[r] = "inflight"
    /\ GoTo(r, "answered")
    /\ EmitKeeps /\ UNCHANGED <<report, rows, clipboard, output>>

EmitUnlocked(r) ==
    /\ Alive /\ request[r] = "answered"
    /\ GoTo(r, "copy") /\ report' = Numbered(r)
    /\ EmitKeeps /\ UNCHANGED <<rows, clipboard, output>>

Emit(r) ==
    /\ Alive /\ request[r] = "answered" /\ \A q \in Requests : request[q] \notin Emitting
    /\ GoTo(r, "copy") /\ report' = Numbered(r)
    /\ EmitKeeps /\ UNCHANGED <<rows, clipboard, output>>

\* copyToClipboard, a command of the system, may fail.
CopyText(r) ==
    /\ Alive /\ request[r] = "copy"
    /\ \E copied \in {FALSE, input.copy} :
         /\ report' = [report EXCEPT ![r].copied = copied]
         /\ clipboard' = IF copied THEN report[r].id ELSE clipboard
    /\ GoTo(r, "open")
    /\ EmitKeeps /\ UNCHANGED <<rows, output>>

\* os.WriteFile truncates, then writes; either may fail.
OpenOutput(r) ==
    /\ Alive /\ request[r] = "open"
    /\ \/ GoTo(r, "print") /\ UNCHANGED output
       \/ input.output /\ GoTo(r, "write") /\ output' = Empty
    /\ EmitKeeps /\ UNCHANGED <<report, rows, clipboard>>

WriteOutput(r) ==
    /\ Alive /\ request[r] = "write"
    /\ \E written \in BOOLEAN :
         /\ report' = [report EXCEPT ![r].written = written]
         /\ output' = IF written THEN report[r].id ELSE Empty
    /\ GoTo(r, "print")
    /\ EmitKeeps /\ UNCHANGED <<rows, clipboard>>

PrintRow(r) ==
    /\ Alive /\ request[r] = "print"
    /\ rows' = Append(rows, r)
    /\ GoTo(r, "reported")
    /\ EmitKeeps /\ UNCHANGED <<report, clipboard, output>>

-----------------------------------------------------------------------------
Setup   == ParseFlags \/ StartSession \/ BuildEnvironment \/ Spawn
Attend  == Subscribe \/ Reap \/ Shutdown \/ Drain \/ DrainDeadline \/ RemoveAll
Handler(r) == Send(r) \/ Answer(r) \/ Emit(r) \/ CopyText(r) \/ OpenOutput(r) \/ WriteOutput(r) \/ PrintRow(r)

Next ==
    \/ Setup \/ Attend \/ Forward \/ ChildEnds
    \/ \E terminal \in BOOLEAN : Interrupt(terminal)
    \/ \E r \in Requests : Handler(r)

\* With a child, runCommand and its goroutines go on by themselves;
\* DrainDeadline is a timer.  The child, the upstream and the user owe nothing.
Spec == Init /\ [][Next]_vars /\ WF_vars(Attend) /\ WF_vars(Forward)

-----------------------------------------------------------------------------
\* While the child runs and autocurl was not killed, the proxy in the child's
\* environment listens and every file the environment names is on the disk.
EnvironmentKeepsItsFiles ==
    child = "running" /\ main # "killed" => serving /\ NamedFiles(environ) \subseteq files

Targets == InheritedTargets(input.base) \cup Elements(input.bypass)

\* What the user or the inherited environment bypasses reaches the clients, or
\* the user is told: the three variables agree, Java's patterns match the
\* addresses the CIDRs contain and no other, a target Java cannot have is noted,
\* and so is every CIDR, which clients that only compare names do not take
\* (mergeBypassTargets, javaNonProxyHosts, bypassCompatibilityNotes).
BypassReachesEveryClient ==
    main = "spawning" /\ Targets # {} =>
        /\ \A name \in BypassNames : Elements(environ[name]) = Targets
        /\ notes.java = {target \in Targets : PatternsOf(target) = {}}
        /\ notes.clients = {target \in Targets : target.kind \in {"cidr4", "cidr6"}}
        /\ input.keytool => \E option \in Elements(environ["JAVA_TOOL_OPTIONS"]) :
             /\ option.name = "http.nonProxyHosts"
             /\ LET cidrs    == {t \in Targets : t.kind = "cidr4"}
                    patterns == {p \in option.value : "fixed" \in DOMAIN p}
                IN  \A a \in Addresses :
                        (\E t \in cidrs : InPrefix(t, a)) <=> \E p \in patterns : Matches(p, a)

\* A setting of the user is kept, or extended where the child's runtime reads
\* a list of options, but for those of the capture itself.
SettingsAreKept ==
    main = "spawning" => \A name \in DOMAIN input.base :
        \/ name \in Overridden
        \/ name \in DOMAIN environ /\ IsPrefix(input.base[name], environ[name])

\* The child's environment can be relied on: it names a proxy and files that
\* are there as long as the child is, whatever failed while they were made, and
\* no setting of the user is lost to them (defer session.Close in runCommand,
\* addGoTrustOverlay's early returns, mergeEnvironment, JAVA_TOOL_OPTIONS).
EnvironmentIsSound == EnvironmentKeepsItsFiles /\ SettingsAreKept

\* Every request of the child on a connection of net/http is reported before
\* autocurl returns, unless the drain ran into its deadline (Proxy.Close,
\* handleHTTP).
RowsPrecedeExit ==
    main = "exited" /\ ~late => \A r \in Plain : request[r] \in {"idle", "reported"}

Latest(ids) == IF ids = {} THEN Empty ELSE Max(ids)

\* Between two reports the rows are numbered in their order, and the clipboard
\* and the file hold the latest one that was copied or written; a file that
\* could not be written may be left empty (emitter.Emit: --copy and --output
\* keep the latest match).
OutputIsLatest ==
    (\A r \in Requests : request[r] \notin Emitting) =>
        /\ \A i \in DOMAIN rows : report[rows[i]].id = i
        /\ clipboard = Latest({i \in DOMAIN rows : report[rows[i]].copied})
        /\ \/ output = Latest({i \in DOMAIN rows : report[rows[i]].written})
           \/ output = Empty /\ rows # <<>> /\ ~report[Last(rows)].written

\* A signal autocurl has received while it waits reaches the child, if the
\* child is still there (the forwarder of runCommand; only the first does).
FirstSignalArrives ==
    forwarder = "listening" /\ signals > 0 ~> told > 0 \/ child = "ended"

\* Once the child has ended, autocurl ends: no handler can hold it up
\* (the deadline in Proxy.Close).
RunReturns == child = "ended" ~> ~Alive

=============================================================================
