---------------------------- MODULE EngineLifecycle ----------------------------
(***************************************************************************)
(* The life of one capture engine process: proxyCommand of                 *)
(* src/internal/cli/proxy_command.go, startCaptureSession and Close of     *)
(* src/internal/cli/session.go, Proxy.Start and Proxy.Close of             *)
(* src/internal/capture/proxy.go.                                          *)
(*                                                                         *)
(* The main goroutine starts the session, announces it, waits for a stop   *)
(* and cleans up.  Beside it run the control goroutine, which reads        *)
(* stdin, and the request handlers, which write rows to stdout.  The       *)
(* environment closes stdin, sends signals, kills the process, or crashes  *)
(* and takes both pipes with it.  What the rows say is in RequestCapture.  *)
(***************************************************************************)
EXTENDS Naturals

CONSTANTS
    Requests,         \* requests that may reach the proxy
    MaxSignals,       \* bound: termination signals sent
    MaxCommands,      \* bound: pause and resume commands sent
    PipeCap           \* lines the stdout pipe holds before a write blocks

ASSUME ConstantsAssumption ==
    /\ MaxSignals \in Nat /\ MaxCommands \in Nat /\ PipeCap \in Nat \ {0}

VARIABLES
    lifetimeStdin, \* the flag --lifetime-stdin: the end of stdin stops the engine
    proxiedTools,  \* Environment runs tools under the proxied environment: it does
                   \* on macOS and Windows, not on Linux
    pc,        \* stage of the main goroutine
    code,      \* the status proxyCommand will return
    death,     \* how the process ended
    temp,      \* the temporary directory exists
    listening, \* the proxy accepts connections
    notified,  \* signal.Notify is in force
    signals,   \* signals waiting in the channel, which holds two
    control,   \* stage of the control goroutine
    requests,  \* stage of each request
    stdin,     \* the write end of stdin: "open" or "closed"
    commands,  \* commands in the stdin pipe
    stdout,    \* the read end of stdout: "open" or "closed"
    unread,    \* lines in the stdout pipe
    (* history *)
    firstLine, \* type of the first line written
    sent,      \* signals sent
    asked,     \* commands sent
    expired,   \* the deadline of Shutdown passed
    stops,     \* requests to stop (a signal, the end of stdin), saturating at 2
    firstStop  \* stage of the main goroutine at the first of them

mainVars == <<pc, code, temp, expired>>
procVars == <<death, listening, notified>>
setting  == <<lifetimeStdin, proxiedTools>>
ideVars  == <<setting, stdin, stdout, asked, sent, stops, firstStop>>
outVars  == <<unread, firstLine>>
vars == <<mainVars, procVars, ideVars, outVars, signals, control, requests, commands>>

Starting == {"authority", "writeCA", "listen", "environment", "ready", "notify"}
Stopping == {"shutdown", "drain", "remove", "return"}
Stages   == Starting \cup {"abort", "select"} \cup Stopping

\* "http": the server tracks the connection; "tunnel": a hijacked one
\* (CONNECT), which Shutdown knows nothing of.
RequestStages == {"none", "http", "tunnel", "httpEmit", "tunnelEmit", "done"}

Tracked == {r \in Requests : requests[r] \in {"http", "httpEmit"}}

Alive == death = "alive"
At(stage) == Alive /\ pc = stage
-----------------------------------------------------------------------------
(* Helpers. *)

\* The end of the process closes its sockets and drops its handlers; files stay.
Die(cause) ==
    /\ death' = cause
    /\ listening' = FALSE
    /\ notified' = FALSE

Goto(stage) == pc' = stage

\* A line goes to the pipe; a full pipe blocks the writer.
Put(type) ==
    /\ stdout = "open"
    /\ unread < PipeCap
    /\ unread' = unread + 1
    /\ firstLine' = IF firstLine = "none" THEN type ELSE firstLine

\* A write to a pipe nobody reads: the runtime raises SIGPIPE for stdout.
BrokenPipe ==
    /\ stdout = "closed"
    /\ Die("sigpipe")
    /\ UNCHANGED <<mainVars, ideVars, outVars, signals, control, requests, commands>>

\* The environment asks the process to stop, at the present stage.
NoteStop ==
    /\ stops' = IF stops < 2 THEN stops + 1 ELSE 2
    /\ firstStop' = IF stops = 0 THEN pc ELSE firstStop

Init ==
    /\ lifetimeStdin \in BOOLEAN /\ proxiedTools \in BOOLEAN
    /\ pc = "authority" /\ code = 0 /\ temp = FALSE /\ expired = FALSE
    /\ death = "alive" /\ listening = FALSE /\ notified = FALSE
    /\ signals = 0 /\ control = "none" /\ commands = 0
    /\ requests = [r \in Requests |-> "none"]
    /\ stdin = "open" /\ stdout = "open" /\ unread = 0
    /\ firstLine = "none" /\ sent = 0 /\ asked = 0
    /\ stops = 0 /\ firstStop = "none"

-----------------------------------------------------------------------------
(* The main goroutine, starting: startCaptureSession. *)

\* NewAuthority and MkdirTemp; with neither there is nothing to clean up.
MakeDirectory ==
    /\ At("authority")
    /\ \/ /\ temp' = TRUE
          /\ Goto("writeCA")
          /\ UNCHANGED <<code, procVars>>
       \/ /\ code' = 1
          /\ Die("exit")
          /\ UNCHANGED <<pc, temp>>
    /\ UNCHANGED <<expired, ideVars, outVars, signals, control, requests, commands>>

WriteCA ==
    /\ At("writeCA")
    /\ pc' \in {"listen", "abort"}
    /\ UNCHANGED <<code, temp, expired, procVars, ideVars, outVars, signals, control,
                   requests, commands>>

\* NewProxy and Proxy.Start: connections are accepted from here on.
Listen ==
    /\ At("listen")
    /\ \/ /\ listening' = TRUE
          /\ Goto("environment")
       \/ /\ Goto("abort")
          /\ UNCHANGED listening
    /\ UNCHANGED <<code, temp, expired, death, notified, ideVars, outVars, signals,
                   control, requests, commands>>

\* The closure "cleanup", then the error return of proxyCommand.
Abort ==
    /\ At("abort")
    /\ temp' = FALSE
    /\ code' = 1
    /\ Die("exit")
    /\ UNCHANGED <<pc, expired, ideVars, outVars, signals, control, requests, commands>>

\* session.Environment: keytool, login shells and "go env", seconds each; an
\* error is only a note of the ready line.
BuildEnvironment ==
    /\ At("environment")
    /\ Goto("ready")
    /\ UNCHANGED <<code, temp, expired, procVars, ideVars, outVars, signals, control,
                   requests, commands>>

\* The ready line, written without the emitter's mutex; a failed write other
\* than a broken pipe returns 1 through the deferred Close.
WriteReady ==
    /\ At("ready")
    /\ \/ /\ Put("ready")
          /\ Goto("notify")
          /\ UNCHANGED code
       \/ /\ stdout = "open"
          /\ code' = 1
          /\ Goto("shutdown")
          /\ UNCHANGED outVars
    /\ UNCHANGED <<temp, expired, procVars, ideVars, signals, control, requests, commands>>

ReadyToNobody == At("ready") /\ BrokenPipe

\* signal.Notify; with --lifetime-stdin the control goroutine starts.
Notify ==
    /\ At("notify")
    /\ notified' = TRUE
    /\ control' = IF lifetimeStdin THEN "scan" ELSE "none"
    /\ Goto("select")
    /\ UNCHANGED <<code, temp, expired, death, listening, ideVars, outVars, signals,
                   requests, commands>>

-----------------------------------------------------------------------------
(* The main goroutine, stopping. *)

SelectBug ==
    /\ At("select")
    /\ signals > 0
    /\ notified' = FALSE
    /\ signals' = signals - 1
    /\ Goto("shutdown")
    /\ UNCHANGED <<code, temp, expired, death, listening, ideVars, outVars, control,
                   requests, commands>>

SelectAndLeaveBug ==
    /\ At("select")
    /\ signals > 0 \/ control = "done"
    /\ notified' = FALSE
    /\ signals' = 0
    /\ Goto("return")
    /\ UNCHANGED <<code, temp, expired, death, listening, ideVars, outVars, control,
                   requests, commands>>

\* The select (or "<-signals") returns and the deferred calls begin, the last one first:
\* signal.Stop, which restores the default action of signals.
Select ==
    /\ At("select")
    /\ signals > 0 \/ control = "done"
    /\ notified' = FALSE
    /\ signals' = 0
    /\ Goto("shutdown")
    /\ UNCHANGED <<code, temp, expired, death, listening, ideVars, outVars, control,
                   requests, commands>>

ShutdownBug ==
    /\ At("shutdown")
    /\ Goto("drain")
    /\ UNCHANGED <<code, temp, expired, procVars, ideVars, outVars, signals, control,
                   requests, commands>>

RemoveFirstBug ==
    /\ At("shutdown")
    /\ temp' = FALSE
    /\ Goto("drain")
    /\ UNCHANGED <<code, expired, procVars, ideVars, outVars, signals, control,
                   requests, commands>>

\* Proxy.Close: Shutdown closes the listener ...
Shutdown ==
    /\ At("shutdown")
    /\ listening' = FALSE
    /\ Goto("drain")
    /\ UNCHANGED <<code, temp, expired, death, notified, ideVars, outVars, signals,
                   control, requests, commands>>

\* ... and waits for the connections it tracks, 2 s at most.
Drain ==
    /\ At("drain")
    /\ expired' = (Tracked # {})
    /\ Goto("remove")
    /\ UNCHANGED <<code, temp, procVars, ideVars, outVars, signals, control,
                   requests, commands>>

\* captureSession.Close: RemoveAll.
Remove ==
    /\ At("remove")
    /\ temp' = FALSE
    /\ Goto("return")
    /\ UNCHANGED <<code, expired, procVars, ideVars, outVars, signals, control,
                   requests, commands>>

Return ==
    /\ At("return")
    /\ Die("exit")
    /\ UNCHANGED <<mainVars, ideVars, outVars, signals, control, requests, commands>>

-----------------------------------------------------------------------------
(* The control goroutine. *)

\* A pause or resume command is read ...
ReadCommand ==
    /\ Alive /\ control = "scan"
    /\ commands > 0
    /\ commands' = commands - 1
    /\ control' = "announce"
    /\ UNCHANGED <<mainVars, procVars, ideVars, outVars, signals, requests>>

\* ... and acknowledged by a state line.
Announce ==
    /\ Alive /\ control = "announce"
    /\ Put("state")
    /\ control' = "scan"
    /\ UNCHANGED <<mainVars, procVars, ideVars, signals, requests, commands>>

AnnounceToNobody == Alive /\ control = "announce" /\ BrokenPipe

\* The scanner meets the end of stdin; close(stdinClosed).
EndOfInput ==
    /\ Alive /\ control = "scan"
    /\ commands = 0 /\ stdin = "closed"
    /\ control' = "done"
    /\ UNCHANGED <<mainVars, procVars, ideVars, outVars, signals, requests, commands>>

\* ... or its Err(), say of a line longer than its buffer: it reads no further,
\* and for --lifetime-stdin that is the end of stdin as well.
InputFails ==
    /\ Alive /\ control = "scan"
    /\ control' = "done"
    /\ UNCHANGED <<mainVars, procVars, ideVars, outVars, signals, requests, commands>>

-----------------------------------------------------------------------------
(* Request handlers. *)

\* The address is known once it was announced, and before that only to the
\* tools that Environment runs.
Announced == code = 0 /\ (pc = "notify" \/ pc \notin Starting)
Reachable == Announced \/ (proxiedTools /\ pc = "environment")

Arrive(r) ==
    /\ Alive /\ listening
    /\ Reachable
    /\ requests[r] = "none"
    /\ \E kind \in {"http", "tunnel"} : requests' = [requests EXCEPT ![r] = kind]
    /\ UNCHANGED <<mainVars, procVars, ideVars, outVars, signals, control, commands>>

Complete(r) ==
    /\ Alive
    /\ requests[r] \in {"http", "tunnel"}
    /\ requests' = [requests EXCEPT
                       ![r] = IF @ = "http" THEN "httpEmit" ELSE "tunnelEmit"]
    /\ UNCHANGED <<mainVars, procVars, ideVars, outVars, signals, control, commands>>

\* The handler writes its row before it returns to the server.
WriteRow(r) ==
    /\ Alive
    /\ requests[r] \in {"httpEmit", "tunnelEmit"}
    /\ Put("request")
    /\ requests' = [requests EXCEPT ![r] = "done"]
    /\ UNCHANGED <<mainVars, procVars, ideVars, signals, control, commands>>

RowToNobody(r) ==
    /\ Alive
    /\ requests[r] \in {"httpEmit", "tunnelEmit"}
    /\ BrokenPipe

-----------------------------------------------------------------------------
(* The environment: the IDE at the other end of the pipes, and signals. *)

SendCommand ==
    /\ stdin = "open" /\ asked < MaxCommands
    /\ asked' = asked + 1
    /\ commands' = commands + 1
    /\ UNCHANGED <<mainVars, procVars, outVars, setting, stdin, stdout, sent, stops, firstStop,
                   signals, control, requests>>

ReadLine ==
    /\ stdout = "open" /\ unread > 0
    /\ unread' = unread - 1
    /\ UNCHANGED <<mainVars, procVars, ideVars, firstLine, signals, control, requests,
                   commands>>

\* Stop Session: the IDE closes stdin and goes on reading.
CloseStdin ==
    /\ Alive /\ stdin = "open"
    /\ stdin' = "closed"
    /\ IF lifetimeStdin THEN NoteStop ELSE UNCHANGED <<stops, firstStop>>
    /\ UNCHANGED <<mainVars, procVars, outVars, setting, stdout, asked, sent, signals, control,
                   requests, commands>>

\* The IDE dies: both pipes lose their other end.
Crash ==
    /\ Alive /\ stdout = "open"
    /\ stdin' = "closed" /\ stdout' = "closed"
    /\ IF lifetimeStdin /\ stdin = "open" THEN NoteStop
                                         ELSE UNCHANGED <<stops, firstStop>>
    /\ UNCHANGED <<mainVars, procVars, outVars, setting, asked, sent, signals, control, requests,
                   commands>>

\* SIGINT or SIGTERM: queued while signal.Notify is in force (the channel holds
\* two, more are dropped), otherwise the default action.
Signal ==
    /\ Alive /\ sent < MaxSignals
    /\ sent' = sent + 1
    /\ NoteStop
    /\ IF notified
       THEN /\ signals' = IF signals < 2 THEN signals + 1 ELSE 2
            /\ UNCHANGED procVars
       ELSE Die("signal") /\ UNCHANGED signals
    /\ UNCHANGED <<mainVars, outVars, setting, stdin, stdout, asked, control,
                   requests, commands>>

Kill ==
    /\ Alive
    /\ Die("sigkill")
    /\ UNCHANGED <<mainVars, ideVars, outVars, signals, control, requests, commands>>

Main == \/ MakeDirectory \/ WriteCA \/ Listen \/ Abort
        \/ BuildEnvironment \/ WriteReady \/ ReadyToNobody \/ Notify
        \/ Select \/ Shutdown \/ Drain \/ Remove \/ Return

Control == ReadCommand \/ Announce \/ AnnounceToNobody \/ EndOfInput \/ InputFails

Handler(r) == Arrive(r) \/ Complete(r) \/ WriteRow(r) \/ RowToNobody(r)

Environment == SendCommand \/ ReadLine \/ CloseStdin \/ Crash \/ Signal \/ Kill

Next == Main \/ Control \/ (\E r \in Requests : Handler(r)) \/ Environment

Spec == Init /\ [][Next]_vars

(***************************************************************************)
(* Goroutines that can run do run.  Writers compete for the room in the    *)
(* pipe and a Go mutex is not unfair for ever, hence strong fairness of    *)
(* Announce.  The IDE reads while it lives.  Nothing is assumed of when a  *)
(* request completes, of Environment's tools or of what the IDE asks for.  *)
(***************************************************************************)
Fairness ==
    /\ WF_vars(Select) /\ WF_vars(Shutdown) /\ WF_vars(Drain)
    /\ WF_vars(Remove) /\ WF_vars(Return)
    /\ WF_vars(ReadCommand) /\ WF_vars(EndOfInput) /\ WF_vars(AnnounceToNobody)
    /\ SF_vars(Announce)
    /\ WF_vars(ReadLine)

FairSpec == Spec /\ Fairness

-----------------------------------------------------------------------------
\* Every variable keeps its shape.
TypeOK ==
    /\ lifetimeStdin \in BOOLEAN /\ proxiedTools \in BOOLEAN
    /\ pc \in Stages
    /\ code \in {0, 1}
    /\ death \in {"alive", "exit", "signal", "sigkill", "sigpipe"}
    /\ temp \in BOOLEAN /\ listening \in BOOLEAN
    /\ notified \in BOOLEAN /\ expired \in BOOLEAN
    /\ signals \in 0..2
    /\ control \in {"none", "scan", "announce", "done"}
    /\ requests \in [Requests -> RequestStages]
    /\ stdin \in {"open", "closed"} /\ stdout \in {"open", "closed"}
    /\ commands \in 0..asked /\ asked \in 0..MaxCommands
    /\ unread \in 0..PipeCap
    /\ firstLine \in {"none", "ready", "state", "request"}
    /\ sent \in 0..MaxSignals
    /\ stops \in 0..2
    /\ firstStop \in Stages \cup {"none"}

(***************************************************************************)
(* The certificate, trust store and overlay exist for as long as the proxy *)
(* accepts connections: a child that was pointed at it can always read     *)
(* them.  (startCaptureSession's order, Close's order.)                    *)
(***************************************************************************)
FilesOutliveListener == listening => temp

(***************************************************************************)
(* Whenever the process returns of its own accord, on every error path as  *)
(* well, nothing is left in the temporary directory.                       *)
(***************************************************************************)
OrderlyExitLeavesNothing == death = "exit" => ~temp

(***************************************************************************)
(* A stop that is asked for once, while the engine serves (a signal or the *)
(* end of stdin), leaves no files, whatever the handlers and the control   *)
(* goroutine are doing; only a kill or a vanished reader of stdout can     *)
(* prevent that.  (Notify, Select, Close.)                                 *)
(***************************************************************************)
OneStopCleansUp ==
    /\ stops = 1 /\ firstStop = "select"
    /\ death \in {"exit", "signal"}
    => code = 0 /\ ~temp

(***************************************************************************)
(* The files go only when no connection the server tracks is being served, *)
(* and all their rows are written, unless the 2 s passed.  (Proxy.Close.)  *)
(***************************************************************************)
DrainedBeforeRemoval ==
    pc \in {"remove", "return"} /\ ~expired => Tracked = {}

(***************************************************************************)
(* The ready line comes first, although the proxy listens before it is     *)
(* written: nobody knows the address earlier, unless Environment runs      *)
(* tools under the proxied environment.                                    *)
(***************************************************************************)
FirstLineIsReady == ~proxiedTools => firstLine \in {"none", "ready"}

(***************************************************************************)
(* A serving engine that is asked to stop ends, even when its handlers     *)
(* never finish, its pipe is full or the reader of its rows is gone.       *)
(***************************************************************************)
StopIsHeard ==
    pc = "select" /\ (signals > 0 \/ (lifetimeStdin /\ stdin = "closed")) ~> ~Alive

-----------------------------------------------------------------------------
(* The contract of an engine, read off its state. *)

ToldAddress == code = 0 /\ pc \in {"notify", "select"} \cup Stopping

Progress ==
    IF death = "exit" THEN "returned"
    ELSE IF death # "alive" THEN "cut"
    ELSE IF pc = "authority" THEN "fresh"
    ELSE IF pc \in {"drain", "remove"} THEN "stopping"
    ELSE IF pc = "return" THEN "clean"
    ELSE "up"

Contract == INSTANCE EngineContract WITH
    files <- temp, accepting <- listening, announced <- ToldAddress, process <- Progress

(***************************************************************************)
(* Every run of the engine is one the contract allows: the files are there *)
(* from before the first connection until the last can be made, whichever  *)
(* step of the start fails and whenever the process is told to stop.       *)
(***************************************************************************)
KeepsContract == Contract!Spec
=============================================================================
