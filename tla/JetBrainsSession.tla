--------------------------- MODULE JetBrainsSession ---------------------------
(***************************************************************************)
(* The JetBrains side of a capture session: CaptureSession.java and the    *)
(* launch of RunWithAutocurlAction.java, against the engine at the other   *)
(* end of the pipes (module EngineLifecycle, seen from outside).           *)
(*                                                                         *)
(* Unlike the extension host of VS Code this one has threads: the event    *)
(* thread, one pool thread per engine (runEngine), the threads that wait   *)
(* for applications, and the listeners of the platform.  start, setRecording *)
(* and stopEngine hold the monitor; runEngine writes the same fields       *)
(* without it, one volatile write at a time.                               *)
(***************************************************************************)
EXTENDS Naturals, Sequences

CONSTANTS
    Apps,        \* Run and Debug launches of the user
    Stops,       \* bound: calls of stopSession
    MaxEngines,  \* bound: engines started
    MaxControls  \* bound: clicks on Pause and Resume

ASSUME BoundsAssumption == MaxEngines \in Nat \ {0} /\ MaxControls \in Nat

VARIABLES
    process, ready, starting, recording, stopRequested, \* the session's fields; an engine or None
    thread,    \* per engine: where its runEngine stands
    future,    \* ... and the future start() returned for it
    app, env,  \* per launch: its stage, and the engine whose proxy it got or awaits
    targets,   \* targetProcesses
    stop,      \* per stopSession: "idle", the applications it awaits, or "over"
    stoppers,  \* threads about to call stopEngine
    engine,    \* per engine: stage of its process
    asked,     \* engines whose stdin was closed, with the timer of 2.5 s set
    engineRecording, stdin, stdout, controls,
    reset      \* history: a finished runEngine cleared `recording` under a successor

fields   == <<process, ready, starting, recording, stopRequested>>
appVars  == <<app, env, targets>>
stopVars == <<stop, stoppers>>
pipes    == <<engineRecording, stdin, stdout, controls>>
vars     == <<fields, thread, future, appVars, stopVars, engine, asked, pipes, reset>>

Engines  == 1..MaxEngines
None     == 0
Alive(e) == engine[e] \in {"booting", "serving"}
Step(f, x, value) == [f EXCEPT ![x] = value]

Init ==
    /\ process = None /\ ready = None /\ starting = None
    /\ recording = FALSE /\ stopRequested = FALSE
    /\ thread = [e \in Engines |-> "none"] /\ future = [e \in Engines |-> "none"]
    /\ app = [a \in Apps |-> "idle"] /\ env = [a \in Apps |-> None] /\ targets = {}
    /\ stop = [s \in Stops |-> [stage |-> "idle", awaited |-> {}]] /\ stoppers = {}
    /\ engine = [e \in Engines |-> "none"] /\ asked = {}
    /\ engineRecording = [e \in Engines |-> TRUE]
    /\ stdin = [e \in Engines |-> <<>>] /\ stdout = [e \in Engines |-> <<>>]
    /\ controls = 0 /\ reset = FALSE

-----------------------------------------------------------------------------
(* Launches: RunWithAutocurlAction.run. *)

NewEngine == CHOOSE e \in Engines : thread[e] = "none"

RunAgain(a) ==
    /\ app[a] = "idle"
    /\ IF ready # None
       THEN app' = Step(app, a, "granted") /\ env' = Step(env, a, ready)
            /\ UNCHANGED <<starting, stopRequested, thread, future>>
       ELSE /\ \E e \in Engines : thread[e] = "none"
            /\ starting' = NewEngine /\ stopRequested' = FALSE
            /\ thread' = Step(thread, NewEngine, "called")
            /\ future' = Step(future, NewEngine, "pending")
            /\ app' = Step(app, a, "waiting") /\ env' = Step(env, a, NewEngine)
    /\ UNCHANGED <<process, ready, recording, targets, stopVars, engine, asked, pipes, reset>>

\* start(), under the monitor: the ready event held, the future of the start
\* in progress, or a new one with its thread.
Run(a) ==
    /\ app[a] = "idle"
    /\ IF ready # None
       THEN app' = Step(app, a, "granted") /\ env' = Step(env, a, ready)
            /\ UNCHANGED <<starting, stopRequested, thread, future>>
       ELSE IF starting # None
       THEN app' = Step(app, a, "waiting") /\ env' = Step(env, a, starting)
            /\ UNCHANGED <<starting, stopRequested, thread, future>>
       ELSE /\ \E e \in Engines : thread[e] = "none"
            /\ starting' = NewEngine /\ stopRequested' = FALSE
            /\ thread' = Step(thread, NewEngine, "called")
            /\ future' = Step(future, NewEngine, "pending")
            /\ app' = Step(app, a, "waiting") /\ env' = Step(env, a, NewEngine)
    /\ UNCHANGED <<process, ready, recording, targets, stopVars, engine, asked, pipes, reset>>

\* whenComplete, on the event thread: an error dialog, or the environment is
\* injected and the configuration executed.
Deliver(a) ==
    /\ \/ app[a] = "granted" /\ app' = Step(app, a, "launching")
       \/ app[a] = "waiting" /\ future[env[a]] # "pending"
          /\ app' = Step(app, a, IF future[env[a]] = "ready" THEN "launching" ELSE "failed")
    /\ UNCHANGED <<fields, thread, future, env, targets, stopVars, engine, asked, pipes, reset>>

\* The applications of targetProcesses that have not ended.
Active == {a \in targets : app[a] = "running"}

\* stopSession: destroyProcess for each, a thread that awaits them; pressed by
\* the user, or called because the settings could not be updated or launched.
StopSession(s) ==
    /\ stop[s].stage = "idle"
    /\ stop' = Step(stop, s, [stage |-> "waiting", awaited |-> Active])
    /\ \/ UNCHANGED app
       \/ \E a \in Apps : app[a] = "granted" /\ app' = Step(app, a, "failed")
    /\ UNCHANGED <<fields, thread, future, env, targets, stoppers, engine, asked, pipes, reset>>

\* Each has ended, or five seconds have passed.
WaitOver(s) ==
    /\ stop[s].stage = "waiting"
    /\ stop' = Step(stop, s, [stage |-> "over", awaited |-> {}])
    /\ targets' = targets \ stop[s].awaited
    /\ stoppers' = stoppers \cup {s}
    /\ UNCHANGED <<fields, thread, future, app, env, engine, asked, pipes, reset>>

-----------------------------------------------------------------------------
(* The execution listener. *)

\* claimProfile; a configuration run again by hand, outside this model, would
\* be claimed by its environment.
ProcessStarted(a) ==
    /\ app[a] = "launching"
    /\ app' = Step(app, a, "running") /\ targets' = targets \cup {a}
    /\ UNCHANGED <<fields, thread, future, env, stopVars, engine, asked, pipes, reset>>

ProcessNotStarted(a) ==
    /\ app[a] = "launching"
    /\ app' = Step(app, a, "failed")
    /\ stoppers' = stoppers \cup {a}
    /\ UNCHANGED <<fields, thread, future, env, targets, stop, engine, asked, pipes, reset>>

\* The application ends ...
AppExits(a) ==
    /\ app[a] = "running"
    /\ app' = Step(app, a, "exited")
    /\ UNCHANGED <<fields, thread, future, env, targets, stopVars, engine, asked, pipes, reset>>

\* ... and processTerminated is told; the last one stops the engine.
ProcessTerminated(a) ==
    /\ app[a] = "exited"
    /\ app' = Step(app, a, "ended") /\ targets' = targets \ {a}
    /\ stoppers' = IF targets = {a} THEN stoppers \cup {a} ELSE stoppers
    /\ UNCHANGED <<fields, thread, future, env, stop, engine, asked, pipes, reset>>

\* stopEngine, under the monitor; without a process the call is lost.
StopEngine(caller) ==
    /\ caller \in stoppers /\ stoppers' = stoppers \ {caller}
    /\ IF process # None /\ ~stopRequested
       THEN stopRequested' = TRUE /\ asked' = asked \cup {process}
       ELSE UNCHANGED <<stopRequested, asked>>
    /\ UNCHANGED <<process, ready, starting, recording, thread, future, appVars, stop, engine,
                   pipes, reset>>

\* setRecording: a command, unless the button already shows what is asked for;
\* a closed pipe is a diagnostic.
SetRecording(shouldRecord) ==
    /\ process # None /\ ready # None /\ recording # shouldRecord
    /\ controls < MaxControls /\ controls' = controls + 1
    /\ stdin' = IF process \in asked THEN stdin
               ELSE [stdin EXCEPT ![process] = Append(@, shouldRecord)]
    /\ UNCHANGED <<fields, thread, future, appVars, stopVars, engine, asked, engineRecording,
                   stdout, reset>>

-----------------------------------------------------------------------------
(* runEngine, one thread per engine. *)

Move(e, from, to) == thread[e] = from /\ thread' = Step(thread, e, to)
Other == <<appVars, stopVars, asked, controls, reset>>

\* EngineManager.resolve; the flag is cleared, the process started.
Resolve(e) ==
    /\ \/ Move(e, "called", "failing") /\ recording' \in {recording, FALSE} /\ UNCHANGED engine
       \/ Move(e, "called", "spawned") /\ recording' = FALSE /\ engine' = Step(engine, e, "booting")
    /\ UNCHANGED <<process, ready, starting, stopRequested, future, engineRecording, stdin,
                   stdout, Other>>

Hold(e) ==
    /\ Move(e, "spawned", "reading") /\ process' = e
    /\ UNCHANGED <<ready, starting, recording, stopRequested, future, engine, engineRecording, stdin,
                   stdout, Other>>

\* handleLine: a state line, or the ready line, which sets
\* ready, and then the flag and the future.
ReadLine(e) ==
    /\ thread[e] = "reading" /\ stdout[e] # <<>>
    /\ stdout' = [stdout EXCEPT ![e] = Tail(@)]
    /\ IF Head(stdout[e]) = "ready"
       THEN ready' = e /\ Move(e, "reading", "recording") /\ UNCHANGED recording
       ELSE recording' = (Head(stdout[e]) = "resumed") /\ UNCHANGED <<ready, thread>>
    /\ UNCHANGED <<process, starting, stopRequested, future, engine, engineRecording, stdin, Other>>

CompleteUnshown(e) ==
    /\ Move(e, "recording", "reading") /\ future' = Step(future, e, "ready")
    /\ UNCHANGED <<fields, engine, engineRecording, stdin, stdout, Other>>

Complete(e) ==
    /\ Move(e, "recording", "reading") /\ recording' = TRUE /\ future' = Step(future, e, "ready")
    /\ UNCHANGED <<process, ready, starting, stopRequested, engine, engineRecording, stdin,
                   stdout, Other>>

\* The thread leaves the try block: at the end of stdout and of the process, or
\* by an exception.  destroyForcibly closes the streams, so readLine may throw
\* with lines of an engine that was asked to stop unread.
Leave(e) ==
    \/ Move(e, "failing", "process")
    \/ Move(e, "reading", "process") /\ engine[e] = "dead" /\ (stdout[e] = <<>> \/ e \in asked)

EndSilently(e) ==
    /\ Leave(e)
    /\ UNCHANGED <<fields, future, engine, engineRecording, stdin, stdout, Other>>

\* ... and a start nobody answered is failed.
EndOfEngine(e) ==
    /\ Leave(e)
    /\ future' = IF future[e] = "pending" THEN Step(future, e, "failed") ELSE future
    /\ UNCHANGED <<fields, engine, engineRecording, stdin, stdout, Other>>

\* The finally block, write by write but for the two flags.
Clear(e) ==
    /\ \/ Move(e, "process", "ready") /\ process' = None
          /\ UNCHANGED <<ready, starting, recording, stopRequested, reset>>
       \/ Move(e, "ready", "starting") /\ ready' = None
          /\ UNCHANGED <<process, starting, recording, stopRequested, reset>>
       \/ Move(e, "starting", "flags") /\ starting' = None
          /\ UNCHANGED <<process, ready, recording, stopRequested, reset>>
       \/ Move(e, "flags", "done") /\ recording' = FALSE /\ stopRequested' = FALSE
          /\ reset' = (reset \/ ready # None)
          /\ UNCHANGED <<process, ready, starting>>
    /\ UNCHANGED <<future, appVars, stopVars, engine, asked, pipes>>

-----------------------------------------------------------------------------
(* The engine, from outside. *)

Boot(e) ==
    /\ engine[e] = "booting"
    /\ engine' = Step(engine, e, "serving") /\ stdout' = [stdout EXCEPT ![e] = Append(@, "ready")]
    /\ UNCHANGED <<fields, thread, future, engineRecording, stdin, Other>>

\* The command at the head of stdin: SetRecording ...
SwitchFlag(e) ==
    /\ engine[e] = "serving" /\ stdin[e] # <<>>
    /\ engineRecording' = Step(engineRecording, e, Head(stdin[e]))
    /\ UNCHANGED <<fields, thread, future, engine, stdin, stdout, Other>>

\* ... and, later, EmitState.
ReportState(e) ==
    /\ engine[e] = "serving" /\ stdin[e] # <<>>
    /\ engineRecording[e] = Head(stdin[e])
    /\ stdin' = [stdin EXCEPT ![e] = Tail(@)]
    /\ stdout' = [stdout EXCEPT ![e] = Append(@, IF Head(stdin[e]) THEN "resumed" ELSE "paused")]
    /\ UNCHANGED <<fields, thread, future, engine, engineRecording, Other>>

Obey(e) == SwitchFlag(e) \/ ReportState(e)

\* It crashes or heeds the end of stdin at any time ...
Die(e) ==
    /\ Alive(e)
    /\ engine' = Step(engine, e, "dead")
    /\ UNCHANGED <<fields, thread, future, engineRecording, stdin, stdout, Other>>

NoKill(e) == FALSE

\* ... and is killed 2.5 s after stdin was closed (destroyForcibly).
ForceKill(e) == e \in asked /\ Die(e)

RunEngine(e) ==
    Resolve(e) \/ Hold(e) \/ ReadLine(e) \/ Complete(e) \/ EndOfEngine(e) \/ Clear(e)

Next ==
    \/ \E a \in Apps : \/ Run(a) \/ Deliver(a) \/ ProcessStarted(a)
                       \/ ProcessNotStarted(a) \/ AppExits(a) \/ ProcessTerminated(a)
    \/ \E s \in Stops : StopSession(s) \/ WaitOver(s)
    \/ \E caller \in Apps \cup Stops : StopEngine(caller)
    \/ \E shouldRecord \in BOOLEAN : SetRecording(shouldRecord)
    \/ \E e \in Engines : RunEngine(e) \/ Boot(e) \/ Obey(e) \/ Die(e) \/ ForceKill(e)

(***************************************************************************)
(* Threads run, the event thread takes what is posted to it, the timers    *)
(* are timers.  An engine announces itself or ends (startCaptureSession);  *)
(* start() has no timeout of its own.                                      *)
(***************************************************************************)
Fairness ==
    /\ \A e \in Engines : WF_vars(RunEngine(e)) /\ WF_vars(Boot(e)) /\ WF_vars(ForceKill(e))
    /\ \A a \in Apps : WF_vars(Deliver(a))
    /\ \A s \in Stops : WF_vars(WaitOver(s))
    /\ \A caller \in Apps \cup Stops : WF_vars(StopEngine(caller))

Spec == Init /\ [][Next]_vars /\ Fairness

-----------------------------------------------------------------------------
(***************************************************************************)
(* No engine runs that the session has lost: it is the process held, or    *)
(* about to be, and so one that a stop reaches.  With start() called again *)
(* while an engine resolves, starts, stops or is being cleared away.       *)
(***************************************************************************)
EngineIsHeld == \A e \in Engines : Alive(e) => process = e \/ thread[e] = "spawned"

(***************************************************************************)
(* Once nothing is in the pipes, the button shows what the engine does,    *)
(* unless the end of a former runEngine cleared the flag after the new     *)
(* engine was ready: its last writes are not under the monitor.            *)
(***************************************************************************)
ButtonTellsTruth ==
    ~reset /\ ready # None /\ process = ready /\ thread[ready] = "reading"
        /\ Alive(ready) /\ stdin[ready] = <<>> /\ stdout[ready] = <<>>
    => recording = engineRecording[ready]

(***************************************************************************)
(* A launch that awaits an engine is answered, although start() knows no   *)
(* timeout: the thread that reads the engine fails the start it leaves.    *)
(***************************************************************************)
StartSettles == \A a \in Apps : app[a] = "waiting" ~> app[a] # "waiting"

(***************************************************************************)
(* Stop Session ends the engine held, whatever the applications do, other  *)
(* stops included; a call that finds no process yet is lost (stopEngine).  *)
(***************************************************************************)
StopFinishes ==
    \A s \in Stops, e \in Engines :
        stop[s].stage = "waiting" /\ process = e ~> ~Alive(e)
=============================================================================
