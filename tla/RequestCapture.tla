---------------------------- MODULE RequestCapture ----------------------------
(***************************************************************************)
(* From a proxied request to a row of the IDE: the request handlers of     *)
(* src/internal/capture/proxy.go (handleHTTP, serveTLS, roundTrip, emit,   *)
(* emitDiagnosticOnce), the pause and resume commands of                   *)
(* src/internal/cli/proxy_command.go and the emitter of                    *)
(* src/internal/cli/cli.go, which numbers and writes JSON lines.           *)
(*                                                                         *)
(* Handlers run concurrently.  They share the atomic flag "recording", the *)
(* map diagnosticSeen under diagnosticMu, and the emitter under its mutex; *)
(* each critical section is one action.  Bodies are in module BodyTee.     *)
(***************************************************************************)
EXTENDS Naturals, Sequences, FiniteSets

CONSTANTS
    Requests,     \* one handler per request
    Hosts,        \* destinations, as diagnostics name them
    Causes,       \* codes of diagnoseTransportError
    All,          \* --all: successful requests are rows too
    MaxCommands,  \* bound: pause and resume commands sent by the IDE
    MaxErrors,    \* bound: operational errors (see TLSPolicy) raised
    PipeCap       \* lines the stdout pipe holds before a write blocks

ASSUME BoundsAssumption ==
    All \in BOOLEAN /\ MaxCommands \in Nat /\ MaxErrors \in Nat /\ PipeCap \in Nat \ {0}

VARIABLES
    target,        \* destination of each request
    matches,       \* the request passes --match and --method
    pc,            \* per request: stage of its handler
    outcome,       \* per request: what its event says
    recording,     \* Proxy.recording
    control,       \* state the control goroutine has set and not announced
    commands,      \* commands read so far
    diagnosticSeen,
    toDiagnose,    \* per request: diagnostic found new, not yet emitted
    nextID,        \* emitter.nextID
    out,           \* every line written to stdout after "ready"
    unread,        \* how many of them the IDE has not read
    raised,        \* operational errors raised
    pendingErrors, \* ... and not yet written
    (* history *)
    pausedDuring,  \* requests in flight at a moment when recording was off
    quiet          \* requests that started while paused, no resume since

handlerVars == <<target, matches, pc, outcome, toDiagnose>>
emitterVars == <<nextID, out, unread>>
controlVars == <<recording, control, commands>>
errorVars   == <<raised, pendingErrors>>
historyVars == <<pausedDuring, quiet>>
vars == <<handlerVars, emitterVars, controlVars, errorVars, historyVars, diagnosticSeen>>

Stages   == {"idle", "roundTrip", "diagnosing", "finalize", "emitting", "done"}
Outcomes == {"none", "ok", "bad", "error"}

\* Nothing to diagnose.
NoCause == [code |-> "none", host |-> "none"]
Keys    == [code : Causes, host : Hosts]

RequestLine(i, r)  == [type |-> "request", id |-> i, req |-> r]
StateLine(on)      == [type |-> "state", recording |-> on]
DiagnosticLine(k)  == [type |-> "diagnostic", key |-> k]
ErrorLine          == [type |-> "error"]

-----------------------------------------------------------------------------
(* Helpers. *)

InFlight(r) == pc[r] \in {"roundTrip", "diagnosing", "finalize"}

\* emitter.shouldEmit.  "bad": status at or above --status-min, a non-zero
\* grpc-status, or slower than --slow.  "error": event.Error is set.
Wanted(r) == matches[r] /\ (All \/ outcome[r] \in {"bad", "error"})

\* One write to stdout under the emitter's mutex; a full pipe blocks it.
Put(line) ==
    /\ unread < PipeCap
    /\ out' = Append(out, line)
    /\ unread' = unread + 1

Goto(r, stage) == pc' = [pc EXCEPT ![r] = stage]

Init ==
    /\ target \in [Requests -> Hosts]
    /\ matches \in [Requests -> BOOLEAN]
    /\ pc = [r \in Requests |-> "idle"]
    /\ outcome = [r \in Requests |-> "none"]
    /\ recording = TRUE
    /\ control = "idle"
    /\ commands = 0
    /\ diagnosticSeen = {}
    /\ toDiagnose = [r \in Requests |-> NoCause]
    /\ nextID = 0
    /\ out = <<>>
    /\ unread = 0
    /\ raised = 0
    /\ pendingErrors = 0
    /\ pausedDuring = {}
    /\ quiet = {}

-----------------------------------------------------------------------------
(* Request handlers. *)

\* handleHTTP or the loop of serveTLS hands the request to roundTrip.
Start(r) ==
    /\ pc[r] = "idle"
    /\ Goto(r, "roundTrip")
    /\ pausedDuring' = IF recording THEN pausedDuring ELSE pausedDuring \cup {r}
    /\ quiet' = IF recording THEN quiet ELSE quiet \cup {r}
    /\ UNCHANGED <<target, matches, outcome, toDiagnose, emitterVars,
                   controlVars, errorVars, diagnosticSeen>>

\* The upstream answered; relaying the response may still fail ("error").  A
\* 101 response is emitted the same way before its bytes are relayed.
Answer(r) ==
    /\ pc[r] = "roundTrip"
    /\ Goto(r, "finalize")
    /\ \E o \in {"ok", "bad", "error"} : outcome' = [outcome EXCEPT ![r] = o]
    /\ UNCHANGED <<target, matches, toDiagnose, emitterVars, controlVars,
                   errorVars, historyVars, diagnosticSeen>>

FailBug(r) ==
    /\ pc[r] = "roundTrip"
    /\ outcome' = [outcome EXCEPT ![r] = "error"]
    /\ \E code \in Causes :
          LET key == [code |-> code, host |-> target[r]] IN
          IF key \in diagnosticSeen
          THEN Goto(r, "finalize") /\ UNCHANGED <<diagnosticSeen, toDiagnose>>
          ELSE /\ Goto(r, "diagnosing")
               /\ toDiagnose' = [toDiagnose EXCEPT ![r] = key]
               /\ UNCHANGED diagnosticSeen
    /\ UNCHANGED <<target, matches, emitterVars, controlVars, errorVars,
                   historyVars>>

\* RoundTrip failed: the critical section of emitDiagnosticOnce decides who
\* emits the diagnostic of this cause and host.
Fail(r) ==
    /\ pc[r] = "roundTrip"
    /\ outcome' = [outcome EXCEPT ![r] = "error"]
    /\ \E code \in Causes :
          LET key == [code |-> code, host |-> target[r]] IN
          IF key \in diagnosticSeen
          THEN Goto(r, "finalize") /\ UNCHANGED <<diagnosticSeen, toDiagnose>>
          ELSE /\ Goto(r, "diagnosing")
               /\ toDiagnose' = [toDiagnose EXCEPT ![r] = key]
               /\ diagnosticSeen' = diagnosticSeen \cup {key}
    /\ UNCHANGED <<target, matches, emitterVars, controlVars, errorVars,
                   historyVars>>

\* ... and emits it after diagnosticMu is released (EmitDiagnostic).
EmitDiagnostic(r) ==
    /\ pc[r] = "diagnosing"
    /\ Put(DiagnosticLine(toDiagnose[r]))
    /\ toDiagnose' = [toDiagnose EXCEPT ![r] = NoCause]
    /\ Goto(r, "finalize")
    /\ UNCHANGED <<target, matches, outcome, nextID, controlVars, errorVars,
                   historyVars, diagnosticSeen>>

EmitWaitsBug(r) ==
    /\ pc[r] = "finalize"
    /\ recording
    /\ Goto(r, "emitting")
    /\ UNCHANGED <<target, matches, outcome, toDiagnose, emitterVars,
                   controlVars, errorVars, historyVars, diagnosticSeen>>

EmitAnywayBug(r) ==
    /\ pc[r] = "finalize"
    /\ Goto(r, "emitting")
    /\ UNCHANGED <<target, matches, outcome, toDiagnose, emitterVars,
                   controlVars, errorVars, historyVars, diagnosticSeen>>

\* Proxy.emit reads the flag when the request is complete, before the emitter's
\* mutex: a paused request is dropped here.
Emit(r) ==
    /\ pc[r] = "finalize"
    /\ Goto(r, IF recording THEN "emitting" ELSE "done")
    /\ UNCHANGED <<target, matches, outcome, toDiagnose, emitterVars,
                   controlVars, errorVars, historyVars, diagnosticSeen>>

WriteErrorsOnlyBug(r) ==
    /\ pc[r] = "emitting"
    /\ IF Wanted(r) /\ outcome[r] # "error"
       THEN /\ nextID' = nextID + 1
            /\ Put(RequestLine(nextID', r))
       ELSE UNCHANGED emitterVars
    /\ Goto(r, "done")
    /\ UNCHANGED <<target, matches, outcome, toDiagnose, controlVars, errorVars,
                   historyVars, diagnosticSeen>>

\* emitter.Emit under the mutex: filter, number, write.
WriteRow(r) ==
    /\ pc[r] = "emitting"
    /\ IF Wanted(r)
       THEN /\ nextID' = nextID + 1
            /\ Put(RequestLine(nextID', r))
       ELSE UNCHANGED emitterVars
    /\ Goto(r, "done")
    /\ UNCHANGED <<target, matches, outcome, toDiagnose, controlVars, errorVars,
                   historyVars, diagnosticSeen>>

-----------------------------------------------------------------------------
(* Operational errors: events without request data. *)

\* emit's first disjunct: such an event is passed on whatever the flag says.
RaiseError ==
    /\ raised < MaxErrors
    /\ raised' = raised + 1
    /\ pendingErrors' = pendingErrors + 1
    /\ UNCHANGED <<handlerVars, emitterVars, controlVars, historyVars,
                   diagnosticSeen>>

WriteError ==
    /\ pendingErrors > 0
    /\ Put(ErrorLine)
    /\ pendingErrors' = pendingErrors - 1
    /\ UNCHANGED <<handlerVars, nextID, controlVars, raised, historyVars,
                   diagnosticSeen>>

-----------------------------------------------------------------------------
(* The control goroutine of proxyCommand and the reader at the other end. *)

SetRecordingBug(on) ==
    /\ control = "idle"
    /\ commands < MaxCommands
    /\ commands' = commands + 1
    /\ control' = IF on THEN "resumed" ELSE "paused"
    /\ recording' = IF on THEN TRUE ELSE ~recording
    /\ pausedDuring' = IF recording' THEN pausedDuring
                       ELSE pausedDuring \cup {r \in Requests : InFlight(r)}
    /\ quiet' = IF recording' THEN {} ELSE quiet
    /\ UNCHANGED <<handlerVars, emitterVars, errorVars, diagnosticSeen>>

\* A pause or resume command is read; the flag changes at once.
SetRecording(on) ==
    /\ control = "idle"
    /\ commands < MaxCommands
    /\ commands' = commands + 1
    /\ control' = IF on THEN "resumed" ELSE "paused"
    /\ recording' = on
    /\ pausedDuring' = IF on THEN pausedDuring
                       ELSE pausedDuring \cup {r \in Requests : InFlight(r)}
    /\ quiet' = IF on THEN {} ELSE quiet
    /\ UNCHANGED <<handlerVars, emitterVars, errorVars, diagnosticSeen>>

EmitStateBug ==
    /\ control # "idle"
    /\ recording
    /\ Put(StateLine(control = "resumed"))
    /\ control' = "idle"
    /\ UNCHANGED <<handlerVars, nextID, recording, commands, errorVars,
                   historyVars, diagnosticSeen>>

\* EmitState acknowledges it, in turn with the rows.
EmitState ==
    /\ control # "idle"
    /\ Put(StateLine(control = "resumed"))
    /\ control' = "idle"
    /\ UNCHANGED <<handlerVars, nextID, recording, commands, errorVars,
                   historyVars, diagnosticSeen>>

\* The IDE reads a line.
ReadLine ==
    /\ unread > 0
    /\ unread' = unread - 1
    /\ UNCHANGED <<handlerVars, nextID, out, controlVars, errorVars,
                   historyVars, diagnosticSeen>>

Next ==
    \/ \E r \in Requests :
          \/ Start(r)
          \/ Answer(r)
          \/ Fail(r)
          \/ EmitDiagnostic(r)
          \/ Emit(r)
          \/ WriteRow(r)
    \/ RaiseError
    \/ WriteError
    \/ \E on \in BOOLEAN : SetRecording(on)
    \/ EmitState
    \/ ReadLine

Spec == Init /\ [][Next]_vars

(***************************************************************************)
(* Handlers, the control goroutine and the IDE's reader keep running, and  *)
(* a Go mutex hands itself to a starving waiter; a transport may wait for  *)
(* ever (no overall timeout), so Answer and Fail are not fair.  A writer   *)
(* competes for the room in the pipe, hence strong fairness of the writes. *)
(***************************************************************************)
Fairness ==
    /\ \A r \in Requests : /\ SF_vars(EmitDiagnostic(r))
                           /\ WF_vars(Emit(r))
                           /\ SF_vars(WriteRow(r))
    /\ SF_vars(WriteError)
    /\ SF_vars(EmitState)
    /\ WF_vars(ReadLine)

FairSpec == Spec /\ Fairness
-----------------------------------------------------------------------------
Lines == [type : {"request"}, id : Nat, req : Requests]
            \cup [type : {"state"}, recording : BOOLEAN]
            \cup [type : {"diagnostic"}, key : Keys]
            \cup [type : {"error"}]

\* Every variable keeps its shape.
TypeOK ==
    /\ target \in [Requests -> Hosts]
    /\ matches \in [Requests -> BOOLEAN]
    /\ pc \in [Requests -> Stages]
    /\ outcome \in [Requests -> Outcomes]
    /\ recording \in BOOLEAN
    /\ control \in {"idle", "paused", "resumed"}
    /\ commands \in 0..MaxCommands
    /\ diagnosticSeen \subseteq Keys
    /\ toDiagnose \in [Requests -> Keys \cup {NoCause}]
    /\ \A r \in Requests : pc[r] = "diagnosing" => toDiagnose[r] \in Keys
    /\ nextID \in Nat
    /\ out \in Seq(Lines)
    /\ unread \in 0..PipeCap
    /\ raised \in 0..MaxErrors
    /\ pendingErrors \in 0..raised
    /\ pausedDuring \subseteq Requests
    /\ quiet \subseteq Requests

Positions(type) == {i \in DOMAIN out : out[i].type = type}
Rows(r) == {i \in Positions("request") : out[i].req = r}

\* Rows carry 1, 2, 3, ... in the order of the output.
RowsAreNumbered ==
    /\ {out[i].id : i \in Positions("request")} = 1..nextID
    /\ \A i, j \in Positions("request") : i < j => out[i].id < out[j].id

(***************************************************************************)
(* What the list shows is what happened: a finished request that passes    *)
(* the filters and never ran while recording was off has exactly one row,  *)
(* one that was in flight during a pause at most one, and a request that   *)
(* is filtered out or unfinished has none; the numbers follow the output   *)
(* although handlers finish concurrently.  (emit, Emit, shouldEmit.)       *)
(***************************************************************************)
CaptureIsExact ==
    /\ RowsAreNumbered
    /\ \A r \in Requests :
        /\ \A i, j \in Rows(r) : i = j
        /\ Rows(r) # {} => pc[r] = "done" /\ Wanted(r)
        /\ pc[r] = "done" /\ Wanted(r) /\ r \notin pausedDuring => Rows(r) # {}

(***************************************************************************)
(* Pausing silences requests and nothing else: one that starts after a     *)
(* pause took effect leaves no row unless recording is resumed before it   *)
(* completes, and "operational errors without request data are still       *)
(* emitted while paused" (proxy.go:198): each raised error is written or   *)
(* about to be.  (SetRecording, emit.)                                     *)
(***************************************************************************)
PauseSilencesRequestsOnly ==
    /\ \A r \in quiet : Rows(r) = {}
    /\ raised = pendingErrors + Cardinality(Positions("error"))

(***************************************************************************)
(* The last state line the IDE gets tells the truth once the command is    *)
(* acknowledged: IDE button and engine flag agree.  (EmitState.)           *)
(***************************************************************************)
StateLineTellsTruth ==
    control = "idle" =>
        LET states == Positions("state") IN
        IF states = {} THEN recording
        ELSE \E i \in states : /\ \A j \in states : j <= i
                               /\ out[i].recording = recording

Diagnosed(k) == {i \in Positions("diagnostic") : out[i].key = k}
Holders(k)   == {r \in Requests : pc[r] = "diagnosing" /\ toDiagnose[r] = k}

(***************************************************************************)
(* One diagnostic per cause and host, however many handlers fail at once,  *)
(* and none is lost: a cause and host marked as seen, which silences every *)
(* later failure of the kind, is in the output or in the hands of one      *)
(* handler that will write it, and not both.  (emitDiagnosticOnce.)        *)
(***************************************************************************)
DiagnosedOnce ==
    \A k \in Keys :
        /\ \A i, j \in Diagnosed(k) : i = j
        /\ \A q, r \in Holders(k) : q = r
        /\ Diagnosed(k) = {} \/ Holders(k) = {}
        /\ k \in diagnosticSeen <=> Diagnosed(k) # {} \/ Holders(k) # {}

(***************************************************************************)
(* Pausing never holds a request back: a handler whose upstream answered   *)
(* or failed finishes, provided the IDE reads its pipe.  (README: the      *)
(* proxy keeps forwarding while paused; emit, EmitDiagnostic.)             *)
(***************************************************************************)
HandlersFinish ==
    \A r \in Requests :
        pc[r] \in {"diagnosing", "finalize", "emitting"} ~> pc[r] = "done"

(***************************************************************************)
(* Each pause or resume is acknowledged, although the state line competes  *)
(* with the rows of the handlers for the room in the pipe.  (EmitState.)   *)
(***************************************************************************)
CommandsAcknowledged == control # "idle" ~> control = "idle"
=============================================================================
