---------------------------- MODULE VSCodeSession -----------------------------
(***************************************************************************)
(* The VS Code side of a capture session: CaptureSession of                *)
(* src/ide/vscode/src/session.ts and the debug configuration provider of   *)
(* extension.ts, against the engine process at the other end of the pipes  *)
(* (module EngineLifecycle, seen from outside).                            *)
(*                                                                         *)
(* The extension host runs one callback at a time, so a callback is one    *)
(* action up to its next await, together with the microtasks it settles.   *)
(* Between two of them anything else may run: other commands, lines and    *)
(* the exit of any engine ever spawned, debug sessions, timers.            *)
(***************************************************************************)
EXTENDS Naturals, Sequences

CONSTANTS
    Apps,        \* debug launches of the user
    MaxEngines,  \* bound: engines spawned
    MaxControls, \* bound: pause and resume clicks
    PipeCap      \* bound: lines of one engine not yet delivered

ASSUME BoundsAssumption ==
    MaxEngines \in Nat \ {0} /\ MaxControls \in Nat /\ PipeCap \in Nat \ {0}

VARIABLES
    process,       \* this.process: the engine held, or None
    ready,         \* this.ready: the engine whose ready event is held, or None
    recording,     \* this.recording
    token,         \* this.sessionToken: number of the engine it was drawn for
    starting,      \* startPromise: none, before spawn, or waiting for ready
    requests,      \* engines whose rows the list shows
    stopping,      \* stopSession: not running, awaiting the apps, or the engine
    stopSet,       \* ... the debug sessions it awaits
    stopTarget,    \* ... the engine it awaits
    asked,         \* engines whose stdin stopEngine has closed
    closing,       \* ... whose 2.5 s timer is still set
    app,           \* per launch: its stage
    env,           \* ... the proxy and the session id in its environment
    debugSessions, \* this.debugSessions
    engine,        \* per engine: stage of its process
    engineRecording, stdin, stdout,
    controls,      \* pause and resume clicks so far
    (* history *)
    timedOut       \* some start has timed out

uiVars     == <<process, ready, recording, token, requests>>
stopVars   == <<stopping, stopSet, stopTarget>>
closeVars  == <<asked, closing>>
appVars    == <<app, env, debugSessions>>
engineVars == <<engine, engineRecording, stdin, stdout>>
vars == <<uiVars, starting, stopVars, closeVars, appVars, engineVars, controls, timedOut>>

Engines == 1..MaxEngines
None    == 0
NoEnv   == [proxy |-> None, token |-> None]

EngineStages == {"none", "failed", "booting", "serving", "dead", "gone"}
AppStages    == {"idle", "waiting", "launching", "running", "ended"}
Alive(e)     == engine[e] \in {"booting", "serving"}

Line(type, on) == [type |-> type, on |-> on]
LineTypes      == {"ready", "request", "state"}

Init ==
    /\ process = None /\ ready = None /\ recording = FALSE /\ token = None
    /\ starting = "no"
    /\ requests = {}
    /\ stopping = "no" /\ stopSet = {} /\ stopTarget = None
    /\ asked = {} /\ closing = {}
    /\ app = [a \in Apps |-> "idle"]
    /\ env = [a \in Apps |-> NoEnv]
    /\ debugSessions = {}
    /\ engine = [e \in Engines |-> "none"]
    /\ engineRecording = [e \in Engines |-> TRUE]
    /\ stdin = [e \in Engines |-> <<>>]
    /\ stdout = [e \in Engines |-> <<>>]
    /\ controls = 0
    /\ timedOut = FALSE

-----------------------------------------------------------------------------
(* Start. *)

StartBug ==
    /\ ready = None /\ starting # "resolving"
    /\ starting' = "resolving"
    /\ UNCHANGED <<uiVars, stopVars, closeVars, appVars, engineVars, controls, timedOut>>

\* start() with nothing to return: startProcess up to `await binary.resolve()`.
Start ==
    /\ ready = None /\ starting = "no"
    /\ starting' = "resolving"
    /\ UNCHANGED <<uiVars, stopVars, closeVars, appVars, engineVars, controls, timedOut>>

\* resolveDebugConfiguration: the environment of the ready engine, or start().
Launch(a) ==
    /\ app[a] = "idle"
    /\ IF ready # None
       THEN /\ app' = [app EXCEPT ![a] = "launching"]
            /\ env' = [env EXCEPT ![a] = [proxy |-> ready, token |-> token]]
            /\ UNCHANGED starting
       ELSE /\ app' = [app EXCEPT ![a] = "waiting"]
            /\ starting' = IF starting = "no" THEN "resolving" ELSE starting
            /\ UNCHANGED env
    /\ UNCHANGED <<uiVars, stopVars, closeVars, debugSessions, engineVars, controls, timedOut>>

\* The start promise is rejected: who awaited it launches without capture,
\* which is the end of it here.
Reject ==
    /\ starting' = "no"
    /\ app' = [a \in Apps |-> IF app[a] = "waiting" THEN "ended" ELSE app[a]]
    /\ UNCHANGED <<env, debugSessions>>

\* No compatible engine, or the download failed.
ResolveFails ==
    /\ starting = "resolving"
    /\ Reject
    /\ UNCHANGED <<uiVars, stopVars, closeVars, engineVars, controls, timedOut>>

\* startProcess after the await: clear(), a new token, spawn.
Spawn ==
    /\ starting = "resolving"
    /\ token < MaxEngines
    /\ requests' = {}
    /\ token' = token + 1
    /\ process' = token'
    /\ recording' = FALSE
    /\ \E stage \in {"booting", "failed"} : engine' = [engine EXCEPT ![token'] = stage]
    /\ starting' = "waiting"
    /\ UNCHANGED <<ready, stopVars, closeVars, appVars, engineRecording, stdin,
                   stdout, controls, timedOut>>

\* The promise of engine e is not settled.
Pending(e) == starting = "waiting" /\ token = e

\* child.on("error"): the engine could not be spawned.
SpawnError(e) ==
    /\ engine[e] = "failed"
    /\ engine' = [engine EXCEPT ![e] = "gone"]
    /\ IF Pending(e) THEN Reject ELSE UNCHANGED <<starting, appVars>>
    /\ UNCHANGED <<uiVars, stopVars, closeVars, engineRecording, stdin, stdout,
                   controls, timedOut>>

-----------------------------------------------------------------------------
(* Stop. *)

\* stopEngine up to its await: let go of the process and close its stdin.
StopEngine ==
    IF process = None
    THEN UNCHANGED <<process, asked, closing>>
    ELSE /\ process' = None
         /\ asked' = asked \cup {process}
         /\ closing' = closing \cup {process}

\* The end of stopSession: forget the sessions, stop the engine and await it.
FinishStop ==
    /\ debugSessions' = {}
    /\ StopEngine
    /\ stopTarget' = process
    /\ stopSet' = {}
    /\ stopping' = IF process = None THEN "no" ELSE "engine"

\* stopSession; with no session to stop it runs to the await of stopEngine.
StopSession ==
    /\ stopping = "no"
    /\ IF debugSessions = {}
       THEN FinishStop
       ELSE /\ stopping' = "apps"
            /\ stopSet' = debugSessions
            /\ UNCHANGED <<process, asked, closing, stopTarget, debugSessions>>
    /\ UNCHANGED <<ready, recording, token, requests, starting, app, env,
                   engineVars, controls, timedOut>>

\* ... goes on when VS Code has stopped each of the sessions.
AppsStopped ==
    /\ stopping = "apps"
    /\ \A a \in stopSet : app[a] = "ended"
    /\ FinishStop
    /\ UNCHANGED <<ready, recording, token, requests, starting, app, env,
                   engineVars, controls, timedOut>>

\* stopDebugging rejects: the engine is not stopped.
StopDebuggingFails ==
    /\ stopping = "apps"
    /\ stopping' = "no"
    /\ stopSet' = {}
    /\ UNCHANGED <<uiVars, starting, stopTarget, closeVars, appVars, engineVars,
                   controls, timedOut>>

TimeoutBug ==
    /\ starting = "waiting"
    /\ timedOut' = TRUE
    /\ process # None
    /\ StopEngine
    /\ UNCHANGED <<starting, appVars, ready, recording, token, requests, stopVars, engineVars,
                   controls>>

\* Not ready within a minute.
Timeout ==
    /\ starting = "waiting"
    /\ timedOut' = TRUE
    /\ StopEngine
    /\ Reject
    /\ UNCHANGED <<ready, recording, token, requests, stopVars, engineVars,
                   controls>>

\* The await of stopEngine is over for whoever waits for engine e.
Released(e) ==
    /\ closing' = closing \ {e}
    /\ IF stopping = "engine" /\ stopTarget = e
       THEN stopping' = "no" /\ stopTarget' = None
       ELSE UNCHANGED <<stopping, stopTarget>>

ForceKillBug(e) ==
    /\ e \in closing
    /\ closing' = closing \ {e}
    /\ UNCHANGED <<uiVars, starting, stopVars, asked, appVars,
                   engineVars, controls, timedOut>>

\* 2.5 s after stdin was closed: kill and wait no longer.  The signal only
\* asks an engine that handles it (EngineLifecycle).
ForceKill(e) ==
    /\ e \in closing
    /\ Released(e)
    /\ UNCHANGED <<uiVars, starting, stopSet, asked, appVars,
                   engineVars, controls, timedOut>>

-----------------------------------------------------------------------------
(* Events of the engine. *)

Deliver(e) ==
    /\ stdout[e] # <<>>
    /\ stdout' = [stdout EXCEPT ![e] = Tail(@)]
    /\ UNCHANGED <<process, token, stopVars, closeVars, debugSessions, engine,
                   engineRecording, stdin, controls, timedOut>>

\* A ready line, from whichever engine; it settles the promise of its own.
ReadyLine(e) ==
    /\ Deliver(e)
    /\ Head(stdout[e]).type = "ready"
    /\ ready' = e
    /\ recording' = TRUE
    /\ IF Pending(e)
       THEN LET waiting == {a \in Apps : app[a] = "waiting"} IN
            /\ starting' = "no"
            /\ app' = [a \in Apps |-> IF a \in waiting THEN "launching" ELSE app[a]]
            /\ env' = [a \in Apps |-> IF a \in waiting
                                      THEN [proxy |-> e, token |-> token] ELSE env[a]]
       ELSE UNCHANGED <<starting, app, env>>
    /\ UNCHANGED requests

RequestRow(e) ==
    /\ Deliver(e)
    /\ Head(stdout[e]).type = "request"
    /\ requests' = requests \cup {e}
    /\ UNCHANGED <<ready, recording, starting, app, env>>

StateEventBug(e) ==
    /\ Deliver(e)
    /\ Head(stdout[e]).type = "state"
    /\ UNCHANGED <<ready, recording, requests, starting, app, env>>

StateEvent(e) ==
    /\ Deliver(e)
    /\ Head(stdout[e]).type = "state"
    /\ recording' = Head(stdout[e]).on
    /\ UNCHANGED <<ready, requests, starting, app, env>>

\* child.on("exit"), after the lines the engine wrote.
Exit(e) ==
    /\ engine[e] = "dead" /\ stdout[e] = <<>>
    /\ engine' = [engine EXCEPT ![e] = "gone"]
    /\ process' = IF process = e THEN None ELSE process
    /\ ready' = None
    /\ recording' = FALSE
    /\ Released(e)
    /\ IF Pending(e) THEN Reject ELSE UNCHANGED <<starting, appVars>>
    /\ UNCHANGED <<token, requests, stopSet, asked, engineRecording,
                   stdin, stdout, controls, timedOut>>

-----------------------------------------------------------------------------
(* Debug sessions and the other commands. *)

\* onDidStartDebugSession, trackDebugSession.
AppStarts(a) ==
    /\ app[a] = "launching"
    /\ app' = [app EXCEPT ![a] = "running"]
    /\ debugSessions' = IF env[a].token = token THEN debugSessions \cup {a}
                        ELSE debugSessions
    /\ UNCHANGED <<uiVars, starting, stopVars, closeVars, env, engineVars, controls, timedOut>>

Ended(a) ==
    /\ app' = [app EXCEPT ![a] = "ended"]
    /\ env' = [env EXCEPT ![a] = NoEnv]

\* A pre-launch task or the adapter fails.
AppFails(a) ==
    /\ app[a] = "launching"
    /\ Ended(a)
    /\ UNCHANGED <<uiVars, starting, stopVars, closeVars, debugSessions,
                   engineVars, controls, timedOut>>

AppEndsBug(a) ==
    /\ app[a] = "running"
    /\ Ended(a)
    /\ debugSessions' = debugSessions \ {a}
    /\ IF a \in debugSessions /\ stopping = "no"
       THEN StopEngine
       ELSE UNCHANGED <<process, asked, closing>>
    /\ UNCHANGED <<ready, recording, token, requests, starting, stopVars,
                   engineVars, controls, timedOut>>

\* onDidTerminateDebugSession: the last tracked session takes the engine along.
AppEnds(a) ==
    /\ app[a] = "running"
    /\ Ended(a)
    /\ debugSessions' = debugSessions \ {a}
    /\ IF a \in debugSessions /\ stopping = "no" /\ debugSessions' = {}
       THEN StopEngine
       ELSE UNCHANGED <<process, asked, closing>>
    /\ UNCHANGED <<ready, recording, token, requests, starting, stopVars,
                   engineVars, controls, timedOut>>

\* pause() and resume(): a line on the stdin of the process held, lost if dead.
SendControl(on) ==
    /\ controls < MaxControls
    /\ process # None /\ ready # None
    /\ controls' = controls + 1
    /\ stdin' = IF Alive(process) THEN [stdin EXCEPT ![process] = Append(@, on)] ELSE stdin
    /\ UNCHANGED <<uiVars, starting, stopVars, closeVars, appVars, engine,
                   engineRecording, stdout, timedOut>>

Clear ==
    /\ requests # {}
    /\ requests' = {}
    /\ UNCHANGED <<process, ready, recording, token, starting, stopVars, closeVars,
                   appVars, engineVars, controls, timedOut>>

-----------------------------------------------------------------------------
(* The engine, as the extension sees it. *)

engineOnly == <<uiVars, starting, stopVars, closeVars, appVars, controls, timedOut>>

Write(e, line) ==
    /\ Len(stdout[e]) < PipeCap
    /\ stdout' = [stdout EXCEPT ![e] = Append(@, line)]

\* It may announce itself although its stdin is closed already.
EngineReady(e) ==
    /\ engine[e] = "booting"
    /\ engine' = [engine EXCEPT ![e] = "serving"]
    /\ Write(e, Line("ready", TRUE))
    /\ UNCHANGED <<engineOnly, engineRecording, stdin>>

\* SetRecording for the command at the head of stdin ...
EngineSets(e) ==
    /\ engine[e] = "serving" /\ stdin[e] # <<>>
    /\ engineRecording' = [engineRecording EXCEPT ![e] = Head(stdin[e])]
    /\ UNCHANGED <<engineOnly, engine, stdin, stdout>>

\* ... and, rows of other connections between, EmitState.
EngineSays(e) ==
    /\ engine[e] = "serving" /\ stdin[e] # <<>>
    /\ engineRecording[e] = Head(stdin[e])
    /\ stdin' = [stdin EXCEPT ![e] = Tail(@)]
    /\ Write(e, Line("state", Head(stdin[e])))
    /\ UNCHANGED <<engineOnly, engine, engineRecording>>

EngineControl(e) == EngineSets(e) \/ EngineSays(e)

EngineRow(e) ==
    /\ engine[e] = "serving" /\ engineRecording[e]
    /\ Write(e, Line("request", TRUE))
    /\ UNCHANGED <<engineOnly, engine, engineRecording, stdin>>

\* It stops because it was asked to, or crashes.
EngineEnds(e) ==
    /\ Alive(e)
    /\ engine' = [engine EXCEPT ![e] = "dead"]
    /\ stdin' = [stdin EXCEPT ![e] = <<>>]
    /\ engineRecording' = [engineRecording EXCEPT ![e] = TRUE]
    /\ UNCHANGED <<engineOnly, stdout>>

Next ==
    \/ Start \/ ResolveFails \/ Spawn \/ Timeout
    \/ StopSession \/ AppsStopped \/ StopDebuggingFails
    \/ \E on \in BOOLEAN : SendControl(on)
    \/ Clear
    \/ \E a \in Apps : Launch(a) \/ AppStarts(a) \/ AppFails(a) \/ AppEnds(a)
    \/ \E e \in Engines :
          \/ SpawnError(e) \/ ForceKill(e)
          \/ ReadyLine(e) \/ RequestRow(e) \/ StateEvent(e) \/ Exit(e)
          \/ EngineReady(e) \/ EngineControl(e) \/ EngineRow(e) \/ EngineEnds(e)

Spec == Init /\ [][Next]_vars

(***************************************************************************)
(* Timers fire, and VS Code stops the sessions it is asked to stop.        *)
(* Nothing is assumed of the engine, of the user, or of resolving the      *)
(* executable: downloadBuffer of binary.ts settles neither way when a      *)
(* response breaks off, so ResolveFails and Spawn may both never come.     *)
(***************************************************************************)
Fairness ==
    /\ WF_vars(Timeout)
    /\ WF_vars(AppsStopped \/ \E a \in stopSet : AppEnds(a))
    /\ WF_vars(\E e \in Engines : ForceKill(e))

FairSpec == Spec /\ Fairness
-----------------------------------------------------------------------------
\* Every variable keeps its shape.
TypeOK ==
    /\ process \in Engines \cup {None}
    /\ ready \in Engines \cup {None}
    /\ recording \in BOOLEAN
    /\ token \in 0..MaxEngines
    /\ starting \in {"no", "resolving", "waiting"}
    /\ requests \subseteq Engines
    /\ stopping \in {"no", "apps", "engine"}
    /\ stopSet \subseteq Apps
    /\ stopTarget \in Engines \cup {None}
    /\ asked \subseteq Engines
    /\ closing \subseteq asked
    /\ app \in [Apps -> AppStages]
    /\ env \in [Apps -> [proxy : 0..MaxEngines, token : 0..MaxEngines]]
    /\ debugSessions \subseteq {a \in Apps : app[a] = "running"}
    /\ engine \in [Engines -> EngineStages]
    /\ engineRecording \in [Engines -> BOOLEAN]
    /\ stdin \in [Engines -> Seq(BOOLEAN)]
    /\ stdout \in [Engines -> Seq([type : LineTypes, on : BOOLEAN])]
    /\ \A e \in Engines : Len(stdout[e]) <= PipeCap
    /\ controls \in 0..MaxControls
    /\ timedOut \in BOOLEAN

(***************************************************************************)
(* No engine runs beyond reach: one that is alive and was not told to stop *)
(* is the process that Stop Session will close, unless a start timed out.  *)
(* (start's two early returns, startProcess, the exit handler.)            *)
(***************************************************************************)
NoStrayEngine ==
    ~timedOut => \A e \in Engines : Alive(e) /\ e \notin asked => process = e

(***************************************************************************)
(* One session at a time, unless a start timed out: no stray engine; the   *)
(* ready event held and the rows shown are of the newest engine; and a     *)
(* launch has the session id that belongs to its proxy, by which it will   *)
(* be tracked.                                                             *)
(***************************************************************************)
OneSessionAtATime ==
    /\ NoStrayEngine
    /\ ~timedOut =>
        /\ ready \in {None, token}
        /\ requests \subseteq {token}
        /\ \A a \in Apps : env[a].proxy = env[a].token

(***************************************************************************)
(* Once nothing is under way in the pipes, the record button shows what    *)
(* the engine does, through any number of clicks.  (sendControl, the       *)
(* "state" line; the engine's side is StateLineTellsTruth.)                *)
(***************************************************************************)
ButtonTellsTruth ==
    \A e \in Engines :
        ready = e /\ ~timedOut /\ engine[e] = "serving"
        /\ stdin[e] = <<>> /\ stdout[e] = <<>>
            => recording = engineRecording[e]

(***************************************************************************)
(* The engine is not closed under a tracked application: when stopEngine   *)
(* closes its stdin, no debug session with that proxy is left running but  *)
(* one that started while Stop Session awaited the others.                 *)
(***************************************************************************)
NoEngineClosedUnderApp ==
    [][\A e \in asked' \ asked : \A a \in debugSessions :
            app'[a] = "running" /\ env[a].proxy = e
                => stopping = "apps" /\ a \notin stopSet]_vars

(***************************************************************************)
(* An engine that was spawned and says nothing holds up neither the next   *)
(* start nor a launch that awaits it: the start ends with ready, error,    *)
(* exit or the timeout, whatever is stopped meanwhile.  The minute is      *)
(* counted from the spawn: a start that still resolves its executable may  *)
(* stay there for good.                                                    *)
(***************************************************************************)
StartSettles ==
    starting = "waiting" ~> starting = "no" /\ \A a \in Apps : app[a] # "waiting"

(***************************************************************************)
(* Stop Session ends although the engine does not react: until it has, the *)
(* flag stoppingSession swallows every further Stop.                       *)
(***************************************************************************)
StopFinishes == stopping # "no" ~> stopping = "no"

=============================================================================
