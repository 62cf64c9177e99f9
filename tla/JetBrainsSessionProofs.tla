------------------------ MODULE JetBrainsSessionProofs ------------------------
(***************************************************************************)
(* Machine-checked proofs about JetBrainsSession, for any number of        *)
(* launches, stops, clicks and engines.                                    *)
(***************************************************************************)
EXTENDS JetBrainsSession, TLAPS

\* The stages of runEngine in which `starting` is still its own.
InCharge == {"called", "spawned", "failing", "reading", "recording", "process", "ready", "starting"}

\* Before `starting` is cleared no other engine can be started, so the fields
\* written without the monitor have a single writer.
OneInCharge ==
    /\ thread \in [Engines -> InCharge \cup {"none", "flags", "done"}]
    /\ engine \in [Engines -> {"none", "booting", "serving", "dead"}]
    /\ starting \in Engines \cup {None}
    /\ \A e \in Engines :
        /\ thread[e] \in InCharge => starting = e
        /\ thread[e] \in {"reading", "recording"} => process = e
        /\ Alive(e) => thread[e] \in {"spawned", "reading", "recording"}

LEMMA InChargeInvariant == Spec => []OneInCharge
  <1> USE DEF None
  <1>1. Init => OneInCharge
    BY DEF Init, OneInCharge, InCharge, Alive
  <1>2. OneInCharge /\ [Next]_vars => OneInCharge'
    <2> SUFFICES ASSUME OneInCharge, [Next]_vars PROVE OneInCharge'
      OBVIOUS
    <2>0. \A e \in Engines : e # None
      BY BoundsAssumption DEF Engines
    <2>1. ASSUME UNCHANGED <<thread, engine, starting, process>> PROVE OneInCharge'
      BY <2>1 DEF OneInCharge, Alive
    <2>2. ASSUME NEW a \in Apps, Run(a) PROVE OneInCharge'
      <3>1. CASE UNCHANGED <<thread, starting>>
        BY <2>1, <2>2, <3>1 DEF Run
      <3>2. CASE ~UNCHANGED <<thread, starting>>
        <4>1. /\ starting = None
              /\ \E e \in Engines : thread[e] = "none"
              /\ starting' = NewEngine
              /\ thread' = Step(thread, NewEngine, "called")
              /\ UNCHANGED <<process, engine>>
          BY <2>2, <3>2 DEF Run
        <4>2. NewEngine \in Engines /\ thread[NewEngine] = "none"
          BY <4>1 DEF NewEngine
        <4> QED
          BY <2>0, <4>1, <4>2 DEF OneInCharge, InCharge, Alive, Step
      <3> QED
        BY <3>1, <3>2
    <2>3. ASSUME NEW e \in Engines, Resolve(e) PROVE OneInCharge'
      <3>1. /\ thread[e] = "called"
            /\ UNCHANGED <<process, starting>>
            /\ \/ thread' = [thread EXCEPT ![e] = "failing"] /\ UNCHANGED engine
               \/ /\ thread' = [thread EXCEPT ![e] = "spawned"]
                  /\ engine' = [engine EXCEPT ![e] = "booting"]
        BY <2>3 DEF Resolve, Move, Step
      <3> QED
        BY <3>1 DEF OneInCharge, InCharge, Alive
    <2>4. ASSUME NEW e \in Engines, Hold(e) PROVE OneInCharge'
      <3>1. /\ thread[e] = "spawned"
            /\ thread' = [thread EXCEPT ![e] = "reading"]
            /\ process' = e
            /\ UNCHANGED <<starting, engine>>
        BY <2>4 DEF Hold, Move, Step
      <3> QED
        BY <3>1 DEF OneInCharge, InCharge, Alive
    <2>5. ASSUME NEW e \in Engines, ReadLine(e) PROVE OneInCharge'
      <3>1. /\ thread[e] = "reading"
            /\ thread' = [thread EXCEPT ![e] = "recording"] \/ UNCHANGED thread
            /\ UNCHANGED <<process, starting, engine>>
        BY <2>5 DEF ReadLine, Move, Step
      <3> QED
        BY <3>1 DEF OneInCharge, InCharge, Alive
    <2>6. ASSUME NEW e \in Engines, Complete(e) PROVE OneInCharge'
      <3>1. /\ thread[e] = "recording"
            /\ thread' = [thread EXCEPT ![e] = "reading"]
            /\ UNCHANGED <<process, starting, engine>>
        BY <2>6 DEF Complete, Move, Step
      <3> QED
        BY <3>1 DEF OneInCharge, InCharge, Alive
    <2>7. ASSUME NEW e \in Engines, EndOfEngine(e) PROVE OneInCharge'
      <3>1. /\ thread[e] = "failing" \/ (thread[e] = "reading" /\ engine[e] = "dead")
            /\ thread' = [thread EXCEPT ![e] = "process"]
            /\ UNCHANGED <<process, starting, engine>>
        BY <2>7 DEF EndOfEngine, Leave, Move, Step, fields
      <3> QED
        BY <3>1 DEF OneInCharge, InCharge, Alive
    <2>8. ASSUME NEW e \in Engines, Clear(e) PROVE OneInCharge'
      <3>1. UNCHANGED engine
        BY <2>8 DEF Clear
      <3>2. \/ thread[e] = "process" /\ thread' = [thread EXCEPT ![e] = "ready"]
               /\ UNCHANGED starting
            \/ thread[e] = "ready" /\ thread' = [thread EXCEPT ![e] = "starting"]
               /\ UNCHANGED <<process, starting>>
            \/ thread[e] = "starting" /\ thread' = [thread EXCEPT ![e] = "flags"]
               /\ starting' = None /\ UNCHANGED process
            \/ thread[e] = "flags" /\ thread' = [thread EXCEPT ![e] = "done"]
               /\ UNCHANGED <<process, starting>>
        BY <2>8 DEF Clear, Move, Step
      <3> QED
        BY <3>1, <3>2 DEF OneInCharge, InCharge, Alive
    <2>9. ASSUME NEW e \in Engines, Boot(e) \/ Die(e) \/ ForceKill(e) PROVE OneInCharge'
      <3>1. /\ Alive(e)
            /\ \E stage \in {"serving", "dead"} : engine' = [engine EXCEPT ![e] = stage]
            /\ UNCHANGED <<thread, process, starting>>
        BY <2>9 DEF Boot, Die, ForceKill, Alive, Step, fields
      <3> QED
        BY <3>1 DEF OneInCharge, InCharge, Alive
    <2>10. CASE \/ \E a \in Apps : \/ Deliver(a) \/ ProcessStarted(a) \/ ProcessNotStarted(a)
                                   \/ AppExits(a) \/ ProcessTerminated(a)
                \/ \E s \in Stops : StopSession(s) \/ WaitOver(s)
                \/ \E caller \in Apps \cup Stops : StopEngine(caller)
                \/ \E on \in BOOLEAN : SetRecording(on)
                \/ \E e \in Engines : Obey(e)
                \/ UNCHANGED vars
      BY <2>1, <2>10 DEF Deliver, ProcessStarted, ProcessNotStarted, AppExits, ProcessTerminated,
         StopSession, WaitOver, StopEngine, SetRecording, Obey, SwitchFlag, ReportState, fields,
         vars
    <2> QED
      BY <2>2, <2>3, <2>4, <2>5, <2>6, <2>7, <2>8, <2>9, <2>10 DEF Next, RunEngine
  <1> QED
    BY <1>1, <1>2, PTL DEF Spec

(* An engine that runs is the process held, or about to be, whatever the    *)
(* order of starts, stops, ends and clean-ups (start, runEngine).           *)
THEOREM NoEngineIsLost == Spec => []EngineIsHeld
  <1>1. OneInCharge => EngineIsHeld
    BY DEF OneInCharge, EngineIsHeld
  <1> QED
    BY <1>1, InChargeInvariant, PTL

-----------------------------------------------------------------------------
(* The record button. *)

OutLines == {"ready", "resumed", "paused"}

\* What the session shows when it has read line L[i].
Says(L, i) == L[i] # "paused"

LEMMA LineAdded ==
    ASSUME NEW L \in Seq(OutLines), NEW line \in OutLines
    PROVE  LET M == Append(L, line) IN
           /\ M \in Seq(OutLines) /\ M # <<>>
           /\ M[Len(M)] = line
  OBVIOUS

LEMMA LineTaken ==
    ASSUME NEW L \in Seq(OutLines), L # <<>>
    PROVE  /\ Head(L) \in OutLines /\ Tail(L) \in Seq(OutLines)
           /\ Tail(L) = <<>> => Head(L) = L[Len(L)]
           /\ Tail(L) # <<>> => Tail(L)[Len(Tail(L))] = L[Len(L)]
  <1>1. Len(L) \in Nat \ {0} /\ Len(Tail(L)) = Len(L) - 1 /\ Head(L) = L[1]
    OBVIOUS
  <1>2. Head(L) \in OutLines /\ Tail(L) \in Seq(OutLines)
    OBVIOUS
  <1>3. Tail(L) = <<>> => Len(L) = 1
    BY <1>1
  <1>4. ASSUME Tail(L) # <<>> PROVE Tail(L)[Len(Tail(L))] = L[Len(L)]
    <2>1. Len(L) - 1 \in 1..Len(Tail(L))
      BY <1>1, <1>2, <1>4
    <2> QED
      BY <1>1, <2>1
  <1> QED
    BY <1>1, <1>2, <1>3, <1>4

Lines ==
    /\ ready \in Engines \cup {None}
    /\ recording \in BOOLEAN
    /\ engineRecording \in [Engines -> BOOLEAN]
    /\ stdin \in [Engines -> Seq(BOOLEAN)]
    /\ stdout \in [Engines -> Seq(OutLines)]

\* The flag may have changed for the command at the head of stdin; the line
\* that says so is still to come.
InHand(e) == stdin[e] # <<>> /\ engineRecording[e] = Head(stdin[e])

\* The last line an engine wrote says what it does; when it has been read, the
\* flag of the session says it, or will when Complete has set it.
Shows(e) ==
    /\ thread[e] \in {"none", "called"} => engine[e] = "none"
    /\ ready = e => thread[e] \in {"recording", "reading", "process", "ready"}
    /\ engine[e] \in {"none", "booting"} =>
          engineRecording[e] = TRUE /\ stdout[e] = <<>> /\ ready # e /\ thread[e] # "recording"
    /\ engine[e] = "serving" /\ ~InHand(e) =>
          /\ stdout[e] # <<>> => engineRecording[e] = Says(stdout[e], Len(stdout[e]))
          /\ stdout[e] = <<>> /\ thread[e] = "recording" => engineRecording[e] = TRUE
          /\ stdout[e] = <<>> /\ thread[e] = "reading" /\ ready = e /\ ~reset
                => engineRecording[e] = recording

LEMMA LinesInvariant == Spec => []Lines
  <1>1. Init => Lines
    <2> SUFFICES ASSUME Init PROVE Lines
      OBVIOUS
    <2>1. engineRecording \in [Engines -> BOOLEAN] /\ recording \in BOOLEAN
      BY Zenon DEF Init
    <2>2. stdin = [e \in Engines |-> <<>>] /\ stdout = [e \in Engines |-> <<>>] /\ ready = None
      BY DEF Init
    <2>3. stdin \in [Engines -> Seq(BOOLEAN)] /\ stdout \in [Engines -> Seq(OutLines)]
      BY <2>2
    <2> QED
      BY <2>1, <2>2, <2>3 DEF Lines
  <1>2. Lines /\ [Next]_vars => Lines'
    <2> SUFFICES ASSUME Lines, [Next]_vars PROVE Lines'
      OBVIOUS
    <2>1. ASSUME UNCHANGED <<engineRecording, stdin, stdout>>, ready' \in {ready, None},
                 recording' \in {recording, TRUE, FALSE}
          PROVE  Lines'
      BY <2>1 DEF Lines
    <2>2. ASSUME NEW on \in BOOLEAN, SetRecording(on) PROVE Lines'
      <3>1. /\ UNCHANGED <<ready, recording, engineRecording, stdout>>
            /\ \/ UNCHANGED stdin
               \/ stdin' = [stdin EXCEPT ![process] = Append(@, on)]
        BY <2>2 DEF SetRecording, fields
      <3>2. \A commands : commands \in Seq(BOOLEAN) => Append(commands, on) \in Seq(BOOLEAN)
        OBVIOUS
      <3>3. CASE stdin' = [stdin EXCEPT ![process] = Append(@, on)]
        <4>1. stdin' \in [Engines -> Seq(BOOLEAN)]
          BY <3>2, <3>3, Zenon DEF Lines
        <4> QED
          BY <3>1, <4>1 DEF Lines
      <3> QED
        BY <3>1, <3>3 DEF Lines
    <2>3. ASSUME NEW e \in Engines, ReadLine(e) PROVE Lines'
      <3>1. UNCHANGED <<engineRecording, stdin>> /\ stdout' = [stdout EXCEPT ![e] = Tail(@)]
            /\ stdout[e] # <<>> /\ ready' \in {e, ready}
        BY <2>3 DEF ReadLine
      <3>2. recording' \in BOOLEAN
        BY <2>3 DEF ReadLine, Lines
      <3>3. stdout' \in [Engines -> Seq(OutLines)]
        BY <3>1, LineTaken DEF Lines
      <3> QED
        BY <3>1, <3>2, <3>3 DEF Lines
    <2>4. ASSUME NEW e \in Engines, Boot(e) PROVE Lines'
      <3>1. UNCHANGED <<ready, recording, engineRecording, stdin>>
            /\ stdout' = [stdout EXCEPT ![e] = Append(@, "ready")]
        BY <2>4 DEF Boot, fields
      <3>2. stdout' \in [Engines -> Seq(OutLines)]
        BY <3>1 DEF Lines, OutLines
      <3> QED
        BY <3>1, <3>2 DEF Lines
    <2>5. ASSUME NEW e \in Engines, Obey(e) PROVE Lines'
      <3>1. /\ UNCHANGED <<ready, recording>> /\ stdin[e] # <<>>
            /\ \/ engineRecording' = [engineRecording EXCEPT ![e] = Head(stdin[e])]
               \/ UNCHANGED engineRecording
            /\ stdin' \in {stdin, [stdin EXCEPT ![e] = Tail(@)]}
            /\ \/ UNCHANGED stdout
               \/ \E line \in OutLines : stdout' = [stdout EXCEPT ![e] = Append(@, line)]
        BY <2>5 DEF Obey, SwitchFlag, ReportState, fields, Step, OutLines
      <3>2. Head(stdin[e]) \in BOOLEAN /\ Tail(stdin[e]) \in Seq(BOOLEAN)
        BY <3>1 DEF Lines
      <3>3. engineRecording' \in [Engines -> BOOLEAN]
        BY <3>1, <3>2, Zenon DEF Lines
      <3>4. stdin' \in [Engines -> Seq(BOOLEAN)]
        BY <3>1, <3>2 DEF Lines
      <3>5. stdout' \in [Engines -> Seq(OutLines)]
        <4>1. CASE UNCHANGED stdout
          BY <4>1 DEF Lines
        <4>2. CASE \E line \in OutLines : stdout' = [stdout EXCEPT ![e] = Append(@, line)]
          BY <4>2 DEF Lines
        <4> QED
          BY <3>1, <4>1, <4>2
      <3> QED
        BY <3>1, <3>3, <3>4, <3>5 DEF Lines
    <2>6. CASE \/ \E a \in Apps : \/ Run(a) \/ Deliver(a) \/ ProcessStarted(a)
                                  \/ ProcessNotStarted(a) \/ AppExits(a) \/ ProcessTerminated(a)
               \/ \E s \in Stops : StopSession(s) \/ WaitOver(s)
               \/ \E caller \in Apps \cup Stops : StopEngine(caller)
               \/ UNCHANGED vars
      BY <2>1, <2>6 DEF Run, Deliver, ProcessStarted, ProcessNotStarted, AppExits,
         ProcessTerminated, StopSession, WaitOver, StopEngine, fields, pipes, vars
    <2>7. ASSUME NEW e \in Engines,
                 Resolve(e) \/ Hold(e) \/ Complete(e) \/ EndOfEngine(e) \/ Clear(e)
          PROVE  Lines'
      BY <2>1, <2>7 DEF Resolve, Hold, Complete, EndOfEngine, Leave, Clear, fields, pipes
    <2>8. ASSUME NEW e \in Engines, Die(e) \/ ForceKill(e) PROVE Lines'
      BY <2>1, <2>8 DEF Die, ForceKill, fields
    <2> QED
      BY <2>2, <2>3, <2>4, <2>5, <2>6, <2>7, <2>8 DEF Next, RunEngine
  <1> QED
    BY <1>1, <1>2, PTL DEF Spec

LEMMA ShowsInvariant == Spec => [](\A e \in Engines : Shows(e))
  <1> USE DEF None
  <1>1. Init => \A e \in Engines : Shows(e)
    <2> SUFFICES ASSUME Init, NEW e \in Engines PROVE Shows(e)
      OBVIOUS
    <2>1. engine[e] = "none" /\ thread[e] = "none" /\ ready # e /\ stdout[e] = <<>>
      BY BoundsAssumption DEF Init, Engines
    <2>2. engineRecording[e] = TRUE
      BY Zenon DEF Init
    <2> QED
      BY <2>1, <2>2 DEF Shows
  <1>2. OneInCharge /\ Lines /\ (\A e \in Engines : Shows(e)) /\ [Next]_vars
            => (\A e \in Engines : Shows(e))'
    <2> SUFFICES ASSUME OneInCharge, Lines, \A e \in Engines : Shows(e), [Next]_vars,
                        NEW d \in Engines
                 PROVE  Shows(d)'
      BY Zenon
    <2>0. Shows(d) /\ d # None
      BY BoundsAssumption DEF Engines
    \* No engine is shown while another one's thread is in charge.
    <2>00. ASSUME NEW e \in Engines, thread[e] \in InCharge, e # d
           PROVE  thread[d] \notin InCharge
      BY <2>00 DEF OneInCharge
    <2>01. stdin'[d] = stdin[d] /\ engineRecording'[d] = engineRecording[d] => InHand(d)' = InHand(d)
      BY DEF InHand
    <2>1. ASSUME UNCHANGED <<ready, recording, reset>>, thread'[d] = thread[d],
                 engine'[d] = engine[d], stdout'[d] = stdout[d],
                 engineRecording'[d] = engineRecording[d], stdin'[d] = stdin[d]
          PROVE  Shows(d)'
      BY <2>0, <2>1, <2>01 DEF Shows
    <2>2. ASSUME NEW a \in Apps, Run(a) PROVE Shows(d)'
      <3>1. CASE UNCHANGED thread
        BY <2>1, <2>2, <3>1 DEF Run, pipes
      <3>2. CASE ~UNCHANGED thread
        <4>1. /\ \E e \in Engines : thread[e] = "none"
              /\ thread' = [thread EXCEPT ![NewEngine] = "called"]
              /\ UNCHANGED <<ready, recording, reset, engine, stdout, engineRecording, stdin>>
          BY <2>2, <3>2 DEF Run, Step, pipes
        <4>2. NewEngine \in Engines /\ thread[NewEngine] = "none"
          BY <4>1 DEF NewEngine
        <4>3. thread'[d] = IF d = NewEngine THEN "called" ELSE thread[d]
          BY <4>1, <4>2 DEF OneInCharge
        <4> QED
          BY <2>0, <2>01, <4>1, <4>2, <4>3 DEF Shows
      <3> QED
        BY <3>1, <3>2
    <2>3. ASSUME NEW e \in Engines, Resolve(e) PROVE Shows(d)'
      <3>1. /\ thread[e] = "called"
            /\ UNCHANGED <<ready, reset, stdout, engineRecording, stdin>>
            /\ \/ thread' = [thread EXCEPT ![e] = "failing"] /\ UNCHANGED engine
               \/ /\ thread' = [thread EXCEPT ![e] = "spawned"]
                  /\ engine' = [engine EXCEPT ![e] = "booting"]
        BY <2>3 DEF Resolve, Move, Step, Other
      <3>2. e # d => thread[d] # "reading"
        BY <2>00, <3>1 DEF InCharge
      <3>3. /\ d # e => thread'[d] = thread[d] /\ engine'[d] = engine[d]
            /\ d = e => \/ thread'[d] = "failing" /\ engine'[d] = engine[d]
                        \/ thread'[d] = "spawned" /\ engine'[d] = "booting"
        BY <3>1 DEF OneInCharge
      <3> QED
        BY <2>01, <2>0, <3>1, <3>2, <3>3 DEF Shows
    <2>4. ASSUME NEW e \in Engines, Hold(e) PROVE Shows(d)'
      <3>1. /\ thread[e] = "spawned"
            /\ UNCHANGED <<ready, recording, reset, engine, stdout, engineRecording, stdin>>
            /\ thread' = [thread EXCEPT ![e] = "reading"]
        BY <2>4 DEF Hold, Move, Step, Other
      <3>2. thread'[d] = IF d = e THEN "reading" ELSE thread[d]
        BY <3>1 DEF OneInCharge
      <3> QED
        BY <2>01, <2>0, <3>1, <3>2 DEF Shows
    <2>5. ASSUME NEW e \in Engines, ReadLine(e) PROVE Shows(d)'
      <3>1. /\ thread[e] = "reading" /\ stdout[e] # <<>>
            /\ UNCHANGED <<reset, engine, engineRecording, stdin>>
            /\ stdout' = [stdout EXCEPT ![e] = Tail(@)]
        BY <2>5 DEF ReadLine, Other
      <3>2. CASE d # e
        <4>1. thread'[d] = thread[d] /\ stdout'[d] = stdout[d]
          BY <2>5, <3>1, <3>2 DEF ReadLine, Move, Step, OneInCharge, Lines
        <4>2. thread[d] \notin InCharge
          BY <2>00, <3>1, <3>2 DEF InCharge
        <4>3. ready' \in {e, ready}
          BY <2>5 DEF ReadLine
        <4> QED
          BY <2>01, <2>0, <3>1, <3>2, <4>1, <4>2, <4>3 DEF Shows, InCharge
      <3>3. CASE d = e
        <4>1. /\ stdout'[d] = Tail(stdout[d])
              /\ stdout'[d] = <<>> => Head(stdout[d]) = stdout[d][Len(stdout[d])]
              /\ stdout'[d] # <<>> => stdout'[d][Len(stdout'[d])] = stdout[d][Len(stdout[d])]
              /\ Head(stdout[d]) \in OutLines
          BY <3>1, <3>3, LineTaken DEF Lines
        <4>2. engine[d] \notin {"none", "booting"}
          BY <2>01, <2>0, <3>1, <3>3 DEF Shows
        <4>3. engine[d] = "serving" /\ ~InHand(d) => engineRecording[d] = (stdout[d][Len(stdout[d])] # "paused")
          BY <2>01, <2>0, <3>1, <3>3 DEF Shows, Says
        <4>4. CASE Head(stdout[d]) = "ready"
          <5>1. thread'[d] = "recording"
            BY <2>5, <3>3, <4>4 DEF ReadLine, Move, Step, OneInCharge
          <5>2. engine[d] = "serving" /\ ~InHand(d) /\ stdout'[d] = <<>> => engineRecording[d] = TRUE
            BY <4>1, <4>3, <4>4
          <5>3. engine[d] = "serving" /\ ~InHand(d) /\ stdout'[d] # <<>>
                    => engineRecording[d] = Says(stdout'[d], Len(stdout'[d]))
            BY <4>1, <4>3 DEF Says
          <5> QED
            BY <2>01, <3>1, <4>2, <5>1, <5>2, <5>3 DEF Shows
        <4>5. CASE Head(stdout[d]) # "ready"
          <5>1. UNCHANGED <<ready, thread>> /\ recording' = (Head(stdout[d]) = "resumed")
            BY <2>5, <3>3, <4>5 DEF ReadLine
          <5>2. engine[d] = "serving" /\ ~InHand(d) /\ stdout'[d] = <<>> => engineRecording[d] = recording'
            BY <4>1, <4>3, <4>5, <5>1 DEF OutLines
          <5>3. engine[d] = "serving" /\ ~InHand(d) /\ stdout'[d] # <<>>
                    => engineRecording[d] = Says(stdout'[d], Len(stdout'[d]))
            BY <4>1, <4>3 DEF Says
          <5> QED
            BY <2>01, <2>0, <3>1, <3>3, <4>2, <5>1, <5>2, <5>3 DEF Shows
        <4> QED
          BY <4>4, <4>5
      <3> QED
        BY <3>2, <3>3
    <2>6. ASSUME NEW e \in Engines, Complete(e) PROVE Shows(d)'
      <3>1. /\ thread[e] = "recording" /\ recording' = TRUE
            /\ UNCHANGED <<ready, reset, engine, stdout, engineRecording, stdin>>
            /\ thread' = [thread EXCEPT ![e] = "reading"]
        BY <2>6 DEF Complete, Move, Step, Other
      <3>2. thread'[d] = IF d = e THEN "reading" ELSE thread[d]
        BY <3>1 DEF OneInCharge
      <3>3. d # e => thread[d] # "reading"
        BY <2>00, <3>1 DEF InCharge
      <3>4. d = e /\ engine[d] = "serving" /\ ~InHand(d) /\ stdout[d] = <<>> => engineRecording[d] = TRUE
        BY <2>01, <2>0, <3>1 DEF Shows
      <3>5. d = e /\ engine[d] = "serving" /\ ~InHand(d) /\ stdout[d] = <<>> => engineRecording[d] = recording'
        BY <3>1, <3>4, Zenon
      <3>6. /\ thread[e] = "recording"
            /\ UNCHANGED <<ready, reset, engine, stdout, engineRecording, stdin>>
        BY <3>1
      <3>7. CASE d = e
        BY <2>01, <2>0, <3>2, <3>5, <3>6, <3>7 DEF Shows
      <3>8. CASE d # e
        BY <2>01, <2>0, <3>2, <3>3, <3>6, <3>8 DEF Shows
      <3> QED
        BY <3>7, <3>8
    <2>7. ASSUME NEW e \in Engines, EndOfEngine(e) PROVE Shows(d)'
      <3>1. /\ thread[e] = "failing" \/ (thread[e] = "reading" /\ engine[e] = "dead")
            /\ thread' = [thread EXCEPT ![e] = "process"]
            /\ UNCHANGED <<ready, recording, reset, engine, stdout, engineRecording, stdin>>
        BY <2>7 DEF EndOfEngine, Leave, Move, Step, fields, Other
      <3>2. thread'[d] = IF d = e THEN "process" ELSE thread[d]
        BY <3>1 DEF OneInCharge
      <3> QED
        BY <2>01, <2>0, <3>1, <3>2 DEF Shows
    <2>8. ASSUME NEW e \in Engines, Clear(e) PROVE Shows(d)'
      <3>0. UNCHANGED <<engine, stdout, engineRecording, stdin>>
        BY <2>8 DEF Clear, pipes
      <3>1. CASE Move(e, "process", "ready")
        <4>1. /\ UNCHANGED <<ready, recording, reset>>
              /\ thread[e] = "process" /\ thread' = [thread EXCEPT ![e] = "ready"]
          BY <2>8, <3>1 DEF Clear, Move, Step
        <4>2. thread'[d] = IF d = e THEN "ready" ELSE thread[d]
          BY <4>1 DEF OneInCharge
        <4> QED
          BY <2>01, <2>0, <3>0, <4>1, <4>2 DEF Shows
      <3>2. CASE Move(e, "ready", "starting")
        <4>1. /\ UNCHANGED <<recording, reset>> /\ ready' = None
              /\ thread[e] = "ready" /\ thread' = [thread EXCEPT ![e] = "starting"]
          BY <2>8, <3>2 DEF Clear, Move, Step
        <4>2. thread'[d] = IF d = e THEN "starting" ELSE thread[d]
          BY <4>1 DEF OneInCharge
        <4> QED
          BY <2>01, <2>0, <3>0, <4>1, <4>2 DEF Shows
      <3>3. CASE Move(e, "starting", "flags")
        <4>1. /\ UNCHANGED <<ready, recording, reset>>
              /\ thread[e] = "starting" /\ thread' = [thread EXCEPT ![e] = "flags"]
          BY <2>8, <3>3 DEF Clear, Move, Step
        <4>2. thread'[d] = IF d = e THEN "flags" ELSE thread[d]
          BY <4>1 DEF OneInCharge
        <4> QED
          BY <2>01, <2>0, <3>0, <4>1, <4>2 DEF Shows
      <3>4. CASE Move(e, "flags", "done")
        <4>1. /\ UNCHANGED ready /\ (ready # None => reset')
              /\ thread[e] = "flags" /\ thread' = [thread EXCEPT ![e] = "done"]
          BY <2>8, <3>4 DEF Clear, Move, Step
        <4>2. thread'[d] = IF d = e THEN "done" ELSE thread[d]
          BY <4>1 DEF OneInCharge
        <4> QED
          BY <2>01, <2>0, <3>0, <4>1, <4>2 DEF Shows
      <3> QED
        BY <2>8, <3>1, <3>2, <3>3, <3>4 DEF Clear
    <2>9. ASSUME NEW e \in Engines, Boot(e) PROVE Shows(d)'
      <3>1. /\ engine[e] = "booting" /\ engine' = [engine EXCEPT ![e] = "serving"]
            /\ stdout' = [stdout EXCEPT ![e] = Append(@, "ready")]
            /\ UNCHANGED <<ready, recording, reset, thread, engineRecording, stdin>>
        BY <2>9 DEF Boot, Step, fields, Other
      <3>2. CASE d # e
        <4>1. engine'[d] = engine[d] /\ stdout'[d] = stdout[d]
          BY <3>1, <3>2 DEF OneInCharge, Lines
        <4> QED
          BY <2>1, <3>1, <4>1
      <3>3. CASE d = e
        <4>1. engine'[d] = "serving" /\ stdout'[d] = Append(stdout[d], "ready")
          BY <3>1, <3>3 DEF OneInCharge, Lines
        <4>2. stdout'[d] # <<>> /\ stdout'[d][Len(stdout'[d])] = "ready"
          <5>1. stdout[d] \in Seq(OutLines)
            BY DEF Lines
          <5>2. "ready" \in OutLines
            BY DEF OutLines
          <5> QED
            BY <4>1, <5>1, <5>2, LineAdded
        <4>3. engineRecording[d] = TRUE /\ thread[d] \notin {"none", "called"} /\ ready # d
          BY <2>01, <2>0, <3>1, <3>3 DEF Shows
        <4>4. engineRecording'[d] = Says(stdout'[d], Len(stdout'[d]))
          BY <3>1, <4>2, <4>3 DEF Says
        <4> QED
          BY <3>1, <4>1, <4>2, <4>3, <4>4 DEF Shows
      <3> QED
        BY <3>2, <3>3
    <2>10. ASSUME NEW e \in Engines, ReportState(e) PROVE Shows(d)'
      <3>0. Head(stdin[e]) \in BOOLEAN
        <4>1. stdin[e] # <<>> /\ stdin[e] \in Seq(BOOLEAN)
          BY <2>10 DEF ReportState, Lines
        <4> QED
          BY <4>1
      <3>1. /\ engine[e] = "serving" /\ stdin[e] # <<>>
            /\ engineRecording[e] = Head(stdin[e]) /\ UNCHANGED engineRecording
            /\ stdin' = [stdin EXCEPT ![e] = Tail(@)]
            /\ stdout' = [stdout EXCEPT ![e] = Append(@, IF Head(stdin[e]) THEN "resumed" ELSE "paused")]
            /\ UNCHANGED <<ready, recording, reset, thread, engine>>
        BY <2>10 DEF ReportState, Step, fields, Other
      <3>2. CASE d # e
        <4>1. stdout'[d] = stdout[d]
          BY <3>1, <3>2 DEF Lines
        <4>2. engineRecording'[d] = engineRecording[d]
          BY <3>1, <3>2, Zenon DEF Lines
        <4>3. stdin'[d] = stdin[d]
          BY <3>1, <3>2 DEF Lines
        <4> QED
          BY <2>1, <3>1, <4>1, <4>2, <4>3
      <3>3. CASE d = e
        <4>1. engineRecording'[d] = Head(stdin[d])
          BY <3>1, <3>3, Zenon DEF Lines
        <4>2. stdout'[d] = Append(stdout[d], IF Head(stdin[d]) THEN "resumed" ELSE "paused")
          BY <3>1, <3>3 DEF Lines
        <4>3. /\ stdout'[d] # <<>>
              /\ stdout'[d][Len(stdout'[d])] = IF Head(stdin[d]) THEN "resumed" ELSE "paused"
          <5>1. stdout[d] \in Seq(OutLines)
            BY DEF Lines
          <5>2. (IF Head(stdin[d]) THEN "resumed" ELSE "paused") \in OutLines
            BY DEF OutLines
          <5> QED
            BY <4>2, <5>1, <5>2, LineAdded
        <4>4. engineRecording'[d] = Says(stdout'[d], Len(stdout'[d]))
          BY <3>0, <3>3, <4>1, <4>3 DEF Says
        <4> QED
          BY <2>01, <2>0, <3>1, <3>3, <4>3, <4>4 DEF Shows
      <3> QED
        BY <3>2, <3>3
    <2>13. ASSUME NEW e \in Engines, SwitchFlag(e) PROVE Shows(d)'
      <3>1. /\ engine[e] = "serving" /\ stdin[e] # <<>>
            /\ engineRecording' = [engineRecording EXCEPT ![e] = Head(stdin[e])]
            /\ UNCHANGED <<ready, recording, reset, thread, engine, stdout, stdin>>
        BY <2>13 DEF SwitchFlag, Step, fields, Other
      <3>2. CASE d # e
        <4>1. engineRecording'[d] = engineRecording[d]
          BY <3>1, <3>2, Zenon DEF Lines
        <4> QED
          BY <2>1, <3>1, <4>1
      <3>3. CASE d = e
        <4>1. engineRecording'[d] = Head(stdin[d])
          BY <3>1, <3>3, Zenon DEF Lines
        <4>2. InHand(d)'
          BY <3>1, <3>3, <4>1, Zenon DEF InHand
        <4> QED
          BY <2>0, <3>1, <3>3, <4>2 DEF Shows
      <3> QED
        BY <3>2, <3>3
    <2>14. ASSUME NEW click \in BOOLEAN, SetRecording(click) PROVE Shows(d)'
      <3>1. UNCHANGED <<ready, recording, reset, thread, engine, stdout, engineRecording>>
        BY <2>14 DEF SetRecording, fields
      <3>2. stdin' = stdin \/ stdin' = [stdin EXCEPT ![process] = Append(@, click)]
        BY <2>14 DEF SetRecording
      <3>3. stdin[d] \in Seq(BOOLEAN) /\ stdin \in [Engines -> Seq(BOOLEAN)]
        BY DEF Lines
      <3>4. stdin[d] # <<>> => stdin'[d] # <<>> /\ Head(stdin'[d]) = Head(stdin[d])
        BY <3>2, <3>3
      <3>5. InHand(d) => InHand(d)'
        BY <3>1, <3>4, Zenon DEF InHand
      <3> QED
        BY <2>0, <3>1, <3>5 DEF Shows
    <2>11. ASSUME NEW e \in Engines, Die(e) \/ ForceKill(e) PROVE Shows(d)'
      <3>1. /\ Alive(e) /\ engine' = [engine EXCEPT ![e] = "dead"]
            /\ UNCHANGED <<ready, recording, reset, thread, stdout, engineRecording, stdin>>
        BY <2>11 DEF Die, ForceKill, Step, fields, Other
      <3>2. engine'[d] = IF d = e THEN "dead" ELSE engine[d]
        BY <3>1 DEF OneInCharge
      <3> QED
        BY <2>01, <2>0, <3>1, <3>2 DEF Shows, Alive
    <2>12. CASE \/ \E a \in Apps : \/ Deliver(a) \/ ProcessStarted(a)
                                   \/ ProcessNotStarted(a) \/ AppExits(a) \/ ProcessTerminated(a)
                \/ \E s \in Stops : StopSession(s) \/ WaitOver(s)
                \/ \E caller \in Apps \cup Stops : StopEngine(caller)
                \/ UNCHANGED vars
      BY <2>1, <2>12 DEF Deliver, ProcessStarted, ProcessNotStarted, AppExits,
         ProcessTerminated, StopSession, WaitOver, StopEngine, fields, pipes, vars
    <2> QED
      BY <2>2, <2>3, <2>4, <2>5, <2>6, <2>7, <2>8, <2>9, <2>10, <2>11, <2>12, <2>13, <2>14
         DEF Next, RunEngine, Obey
  <1> QED
    BY <1>1, <1>2, InChargeInvariant, LinesInvariant, PTL DEF Spec

(* The button shows what the engine does, in any number of sessions, unless *)
(* a former runEngine cleared the flag late (handleLine, runEngine's end).  *)
THEOREM ButtonIsTrue == Spec => []ButtonTellsTruth
  <1>1. Lines /\ (\A e \in Engines : Shows(e)) => ButtonTellsTruth
    <2> SUFFICES ASSUME Lines, \A e \in Engines : Shows(e),
                        ~reset, ready # None, process = ready, thread[ready] = "reading",
                        Alive(ready), stdin[ready] = <<>>, stdout[ready] = <<>>
                 PROVE  recording = engineRecording[ready]
      BY Zenon DEF ButtonTellsTruth
    <2>1. ready \in Engines
      BY DEF Lines
    <2>2. engineRecording[ready] = recording
      BY <2>1 DEF Shows, Alive, InHand
    <2> QED
      BY <2>2, Zenon
  <1> QED
    BY <1>1, LinesInvariant, ShowsInvariant, PTL

-----------------------------------------------------------------------------
(* Stop Session and who waits. *)

\* What stopEngine relies on: a stop it swallows has been passed on, and the
\* flag it looks at is clear before there is a process.
StopIsOwed ==
    /\ process \in Engines \cup {None}
    /\ process # None => thread[process] \in {"reading", "recording", "process"}
    /\ stopRequested /\ process # None => process \in asked
    /\ \A e \in Engines : thread[e] \in {"called", "spawned", "failing"} => ~stopRequested

LEMMA StopInvariant == Spec => []StopIsOwed
  <1> USE DEF None
  <1>1. Init => StopIsOwed
    BY DEF Init, StopIsOwed
  <1>2. OneInCharge /\ StopIsOwed /\ [Next]_vars => StopIsOwed'
    <2> SUFFICES ASSUME OneInCharge, StopIsOwed, [Next]_vars PROVE StopIsOwed'
      OBVIOUS
    <2>0. /\ \A e \in Engines : e # None
          /\ \A d, e \in Engines : thread[d] \in InCharge /\ thread[e] \in InCharge => d = e
      BY BoundsAssumption DEF Engines, OneInCharge
    <2>1. ASSUME UNCHANGED <<process, thread, stopRequested>>, asked \subseteq asked' PROVE StopIsOwed'
      BY <2>1 DEF StopIsOwed
    <2>2. ASSUME NEW a \in Apps, Run(a) PROVE StopIsOwed'
      <3>1. CASE UNCHANGED <<thread, stopRequested>>
        BY <2>1, <2>2, <3>1 DEF Run
      <3>2. CASE ~UNCHANGED <<thread, stopRequested>>
        <4>1. /\ starting = None /\ \E e \in Engines : thread[e] = "none"
              /\ thread' = Step(thread, NewEngine, "called") /\ stopRequested' = FALSE
              /\ UNCHANGED <<process, asked>>
          BY <2>2, <3>2 DEF Run
        <4>2. process = None
          BY <2>0, <4>1 DEF StopIsOwed, OneInCharge, InCharge
        <4> QED
          BY <4>1, <4>2 DEF StopIsOwed, Step, OneInCharge
      <3> QED
        BY <3>1, <3>2
    <2>3. ASSUME NEW e \in Engines, Resolve(e) PROVE StopIsOwed'
      <3>1. /\ thread[e] = "called" /\ UNCHANGED <<process, stopRequested, asked>>
            /\ \E to \in {"failing", "spawned"} : thread' = [thread EXCEPT ![e] = to]
        BY <2>3 DEF Resolve, Move, Step, Other
      <3>2. process # e
        BY <2>0, <3>1 DEF StopIsOwed
      <3> QED
        BY <3>1, <3>2 DEF StopIsOwed, OneInCharge
    <2>4. ASSUME NEW e \in Engines, Hold(e) PROVE StopIsOwed'
      <3>1. /\ thread[e] = "spawned" /\ thread' = [thread EXCEPT ![e] = "reading"] /\ process' = e
            /\ UNCHANGED <<stopRequested, asked>>
        BY <2>4 DEF Hold, Move, Step, Other
      <3> QED
        BY <3>1 DEF StopIsOwed, OneInCharge
    <2>5. ASSUME NEW e \in Engines, ReadLine(e) \/ Complete(e) \/ EndOfEngine(e) PROVE StopIsOwed'
      <3>1. /\ UNCHANGED <<process, stopRequested, asked>>
            /\ \/ UNCHANGED thread
               \/ \E to \in {"recording", "reading", "process"} : thread' = [thread EXCEPT ![e] = to]
        BY <2>5 DEF ReadLine, Complete, EndOfEngine, Leave, Move, Step, Other, fields
      <3> QED
        BY <3>1 DEF StopIsOwed, OneInCharge
    <2>6. ASSUME NEW e \in Engines, Clear(e) PROVE StopIsOwed'
      <3>1. UNCHANGED asked
        BY <2>6 DEF Clear
      <3>2. CASE thread[e] = "process" /\ thread' = [thread EXCEPT ![e] = "ready"] /\ process' = None
                 /\ UNCHANGED stopRequested
        BY <3>2 DEF StopIsOwed, OneInCharge
      <3>3. CASE /\ thread[e] \in {"ready", "starting"} /\ UNCHANGED <<process, stopRequested>>
                 /\ \E to \in {"starting", "flags"} : thread' = [thread EXCEPT ![e] = to]
        <4>1. process # e
          BY <2>0, <3>3 DEF StopIsOwed
        <4> QED
          BY <3>1, <3>3, <4>1 DEF StopIsOwed, OneInCharge
      <3>4. CASE /\ thread[e] = "flags" /\ thread' = [thread EXCEPT ![e] = "done"]
                 /\ stopRequested' = FALSE /\ UNCHANGED process
        <4>1. process # e
          BY <2>0, <3>4 DEF StopIsOwed
        <4> QED
          BY <3>1, <3>4, <4>1 DEF StopIsOwed, OneInCharge
      <3> QED
        BY <2>6, <3>2, <3>3, <3>4 DEF Clear, Move, Step
    <2>7. ASSUME NEW caller \in Apps \cup Stops, StopEngine(caller) PROVE StopIsOwed'
      <3>1. UNCHANGED <<process, thread>> /\ asked \subseteq asked'
        BY <2>7 DEF StopEngine
      <3>2. CASE process # None /\ ~stopRequested
        <4>1. stopRequested' = TRUE /\ process \in asked'
          BY <2>7, <3>2 DEF StopEngine
        <4>2. \A e \in Engines : thread[e] \notin {"called", "spawned", "failing"}
          BY <2>0, <3>2 DEF StopIsOwed, InCharge
        <4> QED
          BY <3>1, <4>1, <4>2 DEF StopIsOwed
      <3>3. CASE ~(process # None /\ ~stopRequested)
        BY <2>1, <2>7, <3>1, <3>3 DEF StopEngine
      <3> QED
        BY <3>2, <3>3
    <2>8. CASE \/ \E a \in Apps : \/ Deliver(a) \/ ProcessStarted(a) \/ ProcessNotStarted(a)
                                  \/ AppExits(a) \/ ProcessTerminated(a)
               \/ \E s \in Stops : StopSession(s) \/ WaitOver(s)
               \/ \E on \in BOOLEAN : SetRecording(on)
               \/ \E e \in Engines : Boot(e) \/ Obey(e) \/ Die(e) \/ ForceKill(e)
               \/ UNCHANGED vars
      BY <2>1, <2>8 DEF Deliver, ProcessStarted, ProcessNotStarted, AppExits, ProcessTerminated,
         StopSession, WaitOver, SetRecording, Boot, Obey, SwitchFlag, ReportState, Die, ForceKill,
         fields, Other, vars
    <2> QED
      BY <2>2, <2>3, <2>4, <2>5, <2>6, <2>7, <2>8 DEF Next, RunEngine
  <1> QED
    BY <1>1, <1>2, InChargeInvariant, PTL DEF Spec

\* A call of stopEngine leaves the engine held asked, whoever called before:
\* the flag by which it swallows a call is never left from another engine.  So
\* every engine that runs is asked, but for one not yet held.
StopReachesEngine ==
    [][\A caller \in Apps \cup Stops : StopEngine(caller) =>
           /\ process # None => process \in asked'
           /\ \A e \in Engines : Alive(e) /\ thread[e] # "spawned" => e \in asked']_vars

(* Stop Session is not swallowed: what the flag stopRequested says of the   *)
(* engine held is true, with starts and clean-ups in between (stopEngine).  *)
THEOREM StopIsPassedOn == Spec => StopReachesEngine
  <1> DEFINE Passed == \A caller \in Apps \cup Stops : StopEngine(caller) =>
                           /\ process # None => process \in asked'
                           /\ \A e \in Engines : Alive(e) /\ thread[e] # "spawned" => e \in asked'
  <1>1. StopIsOwed /\ EngineIsHeld /\ [Next]_vars => [Passed]_vars
    <2> SUFFICES ASSUME StopIsOwed, EngineIsHeld, NEW caller \in Apps \cup Stops, StopEngine(caller)
                 PROVE  /\ process # None => process \in asked'
                        /\ \A e \in Engines : Alive(e) /\ thread[e] # "spawned" => e \in asked'
      OBVIOUS
    <2>1. process # None => process \in asked'
      BY DEF StopIsOwed, StopEngine
    <2>2. \A e \in Engines : e # None
      BY BoundsAssumption DEF Engines, None
    <2> QED
      BY <2>1, <2>2 DEF EngineIsHeld
  <1> QED
    BY <1>1, StopInvariant, NoEngineIsLost, PTL DEF Spec, StopReachesEngine

Launched == {"granted", "launching", "running", "exited", "ended"}

\* The line that answers a start is still in the pipe.
Announced(L) == \E i \in 1..Len(L) : L[i] = "ready"

\* An engine that is held, ready or promised has been; and a start that is
\* not answered has a thread that will answer it.
StartsAreAnswered ==
    /\ app \in [Apps -> Launched \cup {"idle", "waiting", "failed"}]
    /\ env \in [Apps -> Engines \cup {None}]
    /\ future \in [Engines -> {"none", "pending", "ready", "failed"}]
    /\ starting # None => future[starting] # "none"
    /\ ready # None => engine[ready] # "none"
    /\ \A a \in Apps :
          /\ app[a] \notin {"idle", "failed"} => env[a] # None
          /\ app[a] = "waiting" => future[env[a]] # "none"
          /\ app[a] \in Launched => engine[env[a]] # "none"
    /\ \A e \in Engines :
          /\ thread[e] \in {"spawned", "reading", "recording"} \/ process = e \/ future[e] = "ready"
                => engine[e] # "none"
          /\ future[e] = "pending" =>
                \/ thread[e] \in {"called", "failing", "recording"}
                \/ thread[e] \in {"spawned", "reading"} /\ (engine[e] = "serving" => Announced(stdout[e]))

LEMMA LineAhead ==
    ASSUME NEW L \in Seq(OutLines), NEW line \in OutLines
    PROVE  /\ Announced(L) \/ line = "ready" => Announced(Append(L, line))
           /\ L # <<>> /\ Head(L) # "ready" /\ Announced(L) => Announced(Tail(L))
           /\ L # <<>> => Head(L) \in OutLines
  <1>1. Len(L) \in Nat /\ Len(Append(L, line)) = Len(L) + 1 /\ Append(L, line)[Len(L) + 1] = line
        /\ \A i \in 1..Len(L) : Append(L, line)[i] = L[i]
    OBVIOUS
  <1>2. Announced(L) \/ line = "ready" => Announced(Append(L, line))
    BY <1>1 DEF Announced
  <1>3. ASSUME L # <<>>, Head(L) # "ready", Announced(L) PROVE Announced(Tail(L))
    <2>1. PICK i \in 1..Len(L) : L[i] = "ready"
      BY <1>3 DEF Announced
    <2>2. Head(L) = L[1] /\ Len(Tail(L)) = Len(L) - 1 /\ Tail(L) \in Seq(OutLines)
      BY <1>3
    <2>3. i # 1 /\ i - 1 \in 1..Len(Tail(L))
      BY <1>1, <1>3, <2>1, <2>2
    <2>4. Tail(L)[i - 1] = L[i]
      BY <1>3, <2>3
    <2> QED
      BY <2>1, <2>3, <2>4 DEF Announced
  <1> QED
    BY <1>2, <1>3

LEMMA AnsweredInvariant == Spec => []StartsAreAnswered
  <1> USE DEF None
  <1>1. Init => StartsAreAnswered
    <2> SUFFICES ASSUME Init PROVE StartsAreAnswered
      OBVIOUS
    <2>1. /\ app = [a \in Apps |-> "idle"] /\ env = [a \in Apps |-> None]
          /\ future = [e \in Engines |-> "none"] /\ ready = None /\ process = None /\ starting = None
          /\ thread = [e \in Engines |-> "none"]
      BY DEF Init
    <2>2. \A e \in Engines : e # None
      BY BoundsAssumption DEF Engines
    <2> QED
      BY <2>1, <2>2 DEF StartsAreAnswered, Launched
  <1>2. OneInCharge /\ Lines /\ StartsAreAnswered /\ [Next]_vars => StartsAreAnswered'
    <2> SUFFICES ASSUME OneInCharge, Lines, StartsAreAnswered, [Next]_vars PROVE StartsAreAnswered'
      OBVIOUS
    <2>0. /\ \A e \in Engines : e # None
          /\ ready \in Engines \cup {None} /\ stdout \in [Engines -> Seq(OutLines)]
          /\ starting \in Engines \cup {None}
          /\ engine \in [Engines -> {"none", "booting", "serving", "dead"}]
      BY BoundsAssumption DEF Engines, Lines, OneInCharge
    \* What most steps leave alone.
    <2>1. ASSUME UNCHANGED <<thread, future, app, env, engine, stdout>>,
                 process' \in {process, None}, ready' \in {ready, None}, starting' \in {starting, None}
          PROVE  StartsAreAnswered'
      BY <2>0, <2>1 DEF StartsAreAnswered
    \* The launches alone.
    <2>2. ASSUME UNCHANGED <<process, ready, starting, thread, future, env, engine, stdout>>,
                 NEW a \in Apps, NEW to, app' = [app EXCEPT ![a] = to],
                 \/ to = "failed"
                 \/ to \in Launched /\ app[a] \in Launched
                 \/ to = "launching" /\ app[a] = "waiting" /\ future[env[a]] = "ready"
          PROVE  StartsAreAnswered'
      <3>1. app[a] \notin {"idle", "failed"} => env[a] \in Engines
        BY <2>0 DEF StartsAreAnswered
      <3> QED
        BY <2>0, <2>2, <3>1 DEF StartsAreAnswered, Launched
    <2>3. ASSUME NEW a \in Apps, Run(a) PROVE StartsAreAnswered'
      <3>0. UNCHANGED <<process, ready, engine, stdout>>
        BY <2>3 DEF Run, pipes
      <3>1. CASE ready # None
        <4>1. /\ app' = [app EXCEPT ![a] = "granted"] /\ env' = [env EXCEPT ![a] = ready]
              /\ UNCHANGED <<thread, future, starting>>
          BY <2>3, <3>1 DEF Run, Step
        <4> QED
          BY <2>0, <3>0, <3>1, <4>1 DEF StartsAreAnswered, Launched
      <3>2. CASE ready = None /\ starting # None
        <4>1. /\ app' = [app EXCEPT ![a] = "waiting"] /\ env' = [env EXCEPT ![a] = starting]
              /\ UNCHANGED <<thread, future, starting>>
          BY <2>3, <3>2 DEF Run, Step
        <4> QED
          BY <2>0, <3>0, <3>2, <4>1 DEF StartsAreAnswered, Launched
      <3>3. CASE ready = None /\ starting = None
        <4>1. /\ \E e \in Engines : thread[e] = "none"
              /\ app' = [app EXCEPT ![a] = "waiting"] /\ env' = [env EXCEPT ![a] = NewEngine]
              /\ thread' = [thread EXCEPT ![NewEngine] = "called"]
              /\ future' = [future EXCEPT ![NewEngine] = "pending"]
              /\ starting' = NewEngine
          BY <2>3, <3>3 DEF Run, Step
        <4>2. NewEngine \in Engines
          BY <4>1 DEF NewEngine
        <4> HIDE DEF NewEngine
        <4>3. \A e \in Engines : /\ thread'[e] \in {"spawned", "reading", "recording"} => thread'[e] = thread[e]
                                 /\ future'[e] = "ready" => future[e] = "ready"
                                 /\ future'[e] = "pending" =>
                                       thread'[e] = "called" \/ UNCHANGED <<thread[e], future[e]>>
          BY <4>1, <4>2 DEF StartsAreAnswered, OneInCharge
        <4>4. \A b \in Apps : app'[b] = "waiting" => future'[env'[b]] # "none"
          BY <2>0, <4>1, <4>2 DEF StartsAreAnswered
        <4> QED
          BY <2>0, <3>0, <3>3, <4>1, <4>2, <4>3, <4>4 DEF StartsAreAnswered, Launched
      <3> QED
        BY <3>1, <3>2, <3>3
    <2>4. ASSUME NEW a \in Apps,
                 Deliver(a) \/ ProcessStarted(a) \/ ProcessNotStarted(a) \/ AppExits(a) \/ ProcessTerminated(a)
          PROVE StartsAreAnswered'
      <3>0. UNCHANGED <<process, ready, starting, thread, future, env, engine, stdout>>
        BY <2>4 DEF Deliver, ProcessStarted, ProcessNotStarted, AppExits, ProcessTerminated,
           fields, pipes
      <3>1. \E to : /\ app' = [app EXCEPT ![a] = to]
                    /\ \/ to = "failed"
                       \/ to \in Launched /\ app[a] \in Launched
                       \/ to = "launching" /\ app[a] = "waiting" /\ future[env[a]] = "ready"
        BY <2>4 DEF Deliver, ProcessStarted, ProcessNotStarted, AppExits, ProcessTerminated, Step,
           Launched
      <3> QED
        BY <2>2, <3>0, <3>1
    <2>5. ASSUME NEW s \in Stops, StopSession(s) PROVE StartsAreAnswered'
      BY <2>1, <2>2, <2>5 DEF StopSession, fields, pipes, Step
    \* The thread of an engine, its future, its process and its lines.
    <2>6. ASSUME NEW e \in Engines, RunEngine(e) PROVE StartsAreAnswered'
      <3>0. UNCHANGED <<app, env>>
        BY <2>6 DEF RunEngine, Resolve, Hold, ReadLine, Complete, EndOfEngine, Leave, Clear, Other,
           appVars
      <3>1. CASE Resolve(e)
        <4>1. /\ thread[e] = "called" /\ UNCHANGED <<process, ready, starting, future, stdout>>
              /\ \/ thread' = [thread EXCEPT ![e] = "failing"] /\ UNCHANGED engine
                 \/ thread' = [thread EXCEPT ![e] = "spawned"] /\ engine' = [engine EXCEPT ![e] = "booting"]
          BY <3>1 DEF Resolve, Move, Step
        <4>2. \A d \in Engines : /\ engine[d] # "none" => engine'[d] # "none"
                                 /\ d # e => thread'[d] = thread[d] /\ engine'[d] = engine[d]
                                 /\ \/ thread'[e] = "failing"
                                    \/ thread'[e] = "spawned" /\ engine'[e] = "booting"
          BY <2>0, <4>1 DEF OneInCharge
        <4>3. \A a \in Apps : app[a] \in Launched => engine'[env[a]] # "none"
          BY <2>0, <4>2 DEF StartsAreAnswered, Launched
        <4>4. ready # None => engine'[ready] # "none"
          BY <2>0, <4>2 DEF StartsAreAnswered
        <4> QED
          BY <3>0, <4>1, <4>2, <4>3, <4>4 DEF StartsAreAnswered
      <3>2. CASE Hold(e)
        <4>1. /\ thread[e] = "spawned" /\ UNCHANGED <<ready, starting, future, engine, stdout>>
              /\ thread' = [thread EXCEPT ![e] = "reading"] /\ process' = e
          BY <3>2 DEF Hold, Move, Step
        <4> QED
          BY <2>0, <3>0, <4>1 DEF StartsAreAnswered, OneInCharge
      <3>3. CASE ReadLine(e)
        <4>0. /\ thread[e] = "reading" /\ stdout[e] # <<>> /\ UNCHANGED <<process, starting, future, engine>>
              /\ stdout' = [stdout EXCEPT ![e] = Tail(stdout[e])]
          BY <3>3 DEF ReadLine
        <4>1. CASE Head(stdout[e]) = "ready" /\ ready' = e /\ thread' = [thread EXCEPT ![e] = "recording"]
          BY <2>0, <3>0, <4>0, <4>1 DEF StartsAreAnswered, OneInCharge
        <4>2. CASE Head(stdout[e]) # "ready" /\ UNCHANGED <<ready, thread>>
          <5>1. Announced(stdout[e]) => Announced(Tail(stdout[e]))
            BY <2>0, <4>0, <4>2, LineAhead DEF OutLines
          <5>2. \A d \in Engines : Announced(stdout[d]) => Announced(stdout'[d])
            BY <2>0, <4>0, <5>1
          <5> QED
            BY <2>0, <3>0, <4>0, <4>2, <5>2 DEF StartsAreAnswered
        <4> QED
          BY <3>3, <4>1, <4>2 DEF ReadLine, Move, Step
      <3>4. CASE Complete(e)
        <4>1. /\ thread[e] = "recording" /\ UNCHANGED <<process, ready, starting, engine, stdout>>
              /\ thread' = [thread EXCEPT ![e] = "reading"] /\ future' = [future EXCEPT ![e] = "ready"]
          BY <3>4 DEF Complete, Move, Step
        <4> QED
          BY <2>0, <3>0, <4>1 DEF StartsAreAnswered, OneInCharge
      <3>5. CASE EndOfEngine(e)
        <4>1. /\ UNCHANGED <<process, ready, starting, engine, stdout>>
              /\ thread' = [thread EXCEPT ![e] = "process"]
              /\ future' = IF future[e] = "pending" THEN [future EXCEPT ![e] = "failed"] ELSE future
          BY <3>5 DEF EndOfEngine, Leave, Move, Step, fields
        <4>2. \A d \in Engines : /\ future'[d] = "ready" => future[d] = "ready"
                                 /\ future'[d] = "pending" => d # e /\ future[d] = "pending"
                                 /\ future[d] # "none" => future'[d] # "none"
                                 /\ thread'[d] \in {"spawned", "reading", "recording"} => thread'[d] = thread[d]
                                 /\ d # e => thread'[d] = thread[d]
          BY <4>1 DEF StartsAreAnswered, OneInCharge
        <4>3. future' \in [Engines -> {"none", "pending", "ready", "failed"}]
          BY <4>1 DEF StartsAreAnswered
        <4> QED
          BY <2>0, <3>0, <4>1, <4>2, <4>3 DEF StartsAreAnswered
      <3>6. CASE Clear(e)
        <4>1. /\ thread[e] \notin {"called", "failing", "recording", "spawned", "reading"}
              /\ \E to \in {"ready", "starting", "flags", "done"} : thread' = [thread EXCEPT ![e] = to]
              /\ process' \in {process, None} /\ ready' \in {ready, None} /\ starting' \in {starting, None}
              /\ UNCHANGED <<future, engine, stdout>>
          BY <3>6 DEF Clear, Move, Step, pipes
        <4> QED
          BY <2>0, <3>0, <4>1 DEF StartsAreAnswered, OneInCharge
      <3> QED
        BY <2>6, <3>1, <3>2, <3>3, <3>4, <3>5, <3>6 DEF RunEngine
    <2>7. ASSUME NEW e \in Engines, Boot(e) \/ ReportState(e) PROVE StartsAreAnswered'
      <3>1. /\ UNCHANGED <<process, ready, starting, thread, future, app, env>>
            /\ \E line \in OutLines :
                  /\ stdout' = [stdout EXCEPT ![e] = Append(stdout[e], line)]
                  /\ \/ engine[e] = "booting" /\ engine' = [engine EXCEPT ![e] = "serving"] /\ line = "ready"
                     \/ UNCHANGED engine
        BY <2>7 DEF Boot, ReportState, fields, Other, appVars, Step, OutLines
      <3>2. PICK line \in OutLines :
                  /\ stdout' = [stdout EXCEPT ![e] = Append(stdout[e], line)]
                  /\ \/ engine[e] = "booting" /\ engine' = [engine EXCEPT ![e] = "serving"] /\ line = "ready"
                     \/ UNCHANGED engine
        BY <3>1
      <3>3. Announced(stdout[e]) \/ line = "ready" => Announced(Append(stdout[e], line))
        BY <2>0, LineAhead
      <3>4. \A d \in Engines : /\ Announced(stdout[d]) => Announced(stdout'[d])
                               /\ engine[d] # "none" => engine'[d] # "none"
                               /\ engine'[d] = "serving" => engine[d] = "serving" \/ Announced(stdout'[d])
        BY <2>0, <3>2, <3>3
      <3>5. \A a \in Apps : app[a] \in Launched => engine'[env[a]] # "none"
        BY <2>0, <3>4 DEF StartsAreAnswered, Launched
      <3>6. ready # None => engine'[ready] # "none"
        BY <2>0, <3>4 DEF StartsAreAnswered
      <3>7. ASSUME NEW d \in Engines, future[d] = "pending"
            PROVE  \/ thread[d] \in {"called", "failing", "recording"}
                   \/ thread[d] \in {"spawned", "reading"} /\ (engine'[d] = "serving" => Announced(stdout'[d]))
        BY <3>4, <3>7 DEF StartsAreAnswered
      <3> QED
        BY <3>1, <3>4, <3>5, <3>6, <3>7 DEF StartsAreAnswered
    <2>8. ASSUME NEW e \in Engines, Die(e) PROVE StartsAreAnswered'
      <3>1. /\ UNCHANGED <<process, ready, starting, thread, future, app, env, stdout>>
            /\ engine' = [engine EXCEPT ![e] = "dead"]
        BY <2>8 DEF Die, fields, Other, appVars, Step
      <3>2. \A d \in Engines : engine'[d] = engine[d] \/ engine'[d] = "dead"
        BY <2>0, <3>1
      <3> QED
        BY <2>0, <3>1, <3>2 DEF StartsAreAnswered
    <2>9. CASE \/ \E s \in Stops : WaitOver(s)
               \/ \E caller \in Apps \cup Stops : StopEngine(caller)
               \/ \E on \in BOOLEAN : SetRecording(on)
               \/ \E e \in Engines : SwitchFlag(e)
               \/ UNCHANGED vars
      BY <2>1, <2>9 DEF WaitOver, StopEngine, SetRecording, SwitchFlag, fields, appVars, pipes,
         Other, vars
    <2> QED
      BY <2>3, <2>4, <2>5, <2>6, <2>7, <2>8, <2>9 DEF Next, ForceKill, Obey
  <1> QED
    BY <1>1, <1>2, InChargeInvariant, LinesInvariant, PTL DEF Spec

(***************************************************************************)
(* The safety half of StartSettles: a launch that waits was promised an    *)
(* engine whose start is answered, or whose thread still has to answer it: *)
(* it resolves, or cleans up, or has the ready line before it, or serves   *)
(* nobody.  start() needs no timeout of its own, so long as threads run.   *)
(***************************************************************************)
NobodyWaitsInVain ==
    \A a \in Apps : app[a] = "waiting" =>
        \/ future[env[a]] \in {"ready", "failed"}
        \/ thread[env[a]] \in {"called", "failing", "recording"}
        \/ thread[env[a]] \in {"spawned", "reading"}
           /\ (engine[env[a]] = "serving" => Announced(stdout[env[a]]))

(* Every start is answered or has a thread that will answer it (start and   *)
(* runEngine).                                                              *)
THEOREM StartHasAThread == Spec => []NobodyWaitsInVain
  <1>1. StartsAreAnswered => NobodyWaitsInVain
    <2> SUFFICES ASSUME StartsAreAnswered, NEW a \in Apps, app[a] = "waiting",
                        future[env[a]] \notin {"ready", "failed"}
                 PROVE  \/ thread[env[a]] \in {"called", "failing", "recording"}
                        \/ thread[env[a]] \in {"spawned", "reading"}
                           /\ (engine[env[a]] = "serving" => Announced(stdout[env[a]]))
      BY DEF NobodyWaitsInVain
    <2>1. env[a] \in Engines /\ future[env[a]] = "pending"
      BY DEF StartsAreAnswered
    <2> QED
      BY <2>1 DEF StartsAreAnswered
  <1> QED
    BY <1>1, AnsweredInvariant, PTL

-----------------------------------------------------------------------------
(* What the session promises: SessionContract. *)

Begun    == {e \in Engines : engine[e] # "none"}
Running  == {e \in Engines : Alive(e)}
Proxy    == [a \in Apps |-> IF app[a] \in Launched THEN env[a] ELSE None]

Contract == INSTANCE SessionContract WITH begun <- Begun, running <- Running, told <- asked, proxy <- Proxy

Unborn == \A e \in Engines : thread[e] = "called" => engine[e] = "none"

(***************************************************************************)
(* The monitor, the futures and the thread per engine of CaptureSession    *)
(* implement the contract: one engine at a time, each begun once and told  *)
(* to stop only when it was, and every application that is launched has    *)
(* the proxy of an engine that was begun, until it is over.                *)
(***************************************************************************)
THEOREM SessionKeepsContract == Spec => Contract!Spec
  <1> USE DEF None
  <1>1. Init => Contract!Init
    BY DEF Init, Contract!Init, Begun, Running, Proxy, Launched, Alive
  <1>2. OneInCharge /\ Lines /\ Unborn /\ StopIsOwed /\ StartsAreAnswered /\ [Next]_vars
        => [Contract!Next]_(Contract!vars)
    <2> SUFFICES ASSUME OneInCharge, Lines, Unborn, StopIsOwed, StartsAreAnswered, [Next]_vars
                 PROVE  Contract!Next \/ UNCHANGED Contract!vars
      OBVIOUS
    <2>0. /\ \A e \in Engines : e # None
          /\ engine \in [Engines -> {"none", "booting", "serving", "dead"}]
          /\ \A d, e \in Engines : Alive(d) /\ thread[e] \in InCharge => d = e
          /\ process \in Engines \cup {None} /\ starting \in Engines \cup {None}
      BY BoundsAssumption DEF Engines, OneInCharge, InCharge, StopIsOwed
    <2>1. ASSUME UNCHANGED engine PROVE UNCHANGED <<Begun, Running>>
      BY <2>1 DEF Begun, Running, Alive
    <2>2. ASSUME UNCHANGED <<engine, asked, app, env>> PROVE UNCHANGED Contract!vars
      BY <2>1, <2>2 DEF Contract!vars, Proxy
    \* A step of one launch.
    <2>3. ASSUME UNCHANGED <<engine, asked>>, NEW a \in Apps, NEW to, NEW e,
                 app' = [app EXCEPT ![a] = to], env' = [env EXCEPT ![a] = e],
                 \/ app[a] \in Launched /\ to \in Launched /\ e = env[a]
                 \/ app[a] \notin Launched /\ to \notin Launched
                 \/ app[a] \notin Launched /\ to \in Launched /\ e \in Begun
                 \/ app[a] \in Launched /\ to \notin Launched /\ env[a] # None
          PROVE  Contract!Next \/ UNCHANGED Contract!vars
      <3>0. UNCHANGED <<Begun, Running>>
        BY <2>1, <2>3
      <3>1. /\ \A b \in Apps : Proxy'[b] = IF b = a THEN IF to \in Launched THEN e ELSE None ELSE Proxy[b]
            /\ Proxy[a] = IF app[a] \in Launched THEN env[a] ELSE None
            /\ Proxy = [b \in Apps |-> Proxy[b]] /\ Proxy' = [b \in Apps |-> Proxy'[b]]
        BY <2>3 DEF StartsAreAnswered, Proxy
      <3> HIDE DEF Proxy
      <3>2. CASE \/ app[a] \in Launched /\ to \in Launched /\ e = env[a]
                 \/ app[a] \notin Launched /\ to \notin Launched
        <4>1. \A b \in Apps : Proxy'[b] = Proxy[b]
          BY <3>1, <3>2
        <4>2. Proxy' = Proxy
          BY <3>1, <4>1
        <4> QED
          BY <2>3, <3>0, <4>2 DEF Contract!vars
      <3>3. CASE app[a] \notin Launched /\ to \in Launched /\ e \in Begun
        <4>1. Proxy' = [b \in Apps |-> IF b \in {a} THEN e ELSE Proxy[b]]
          BY <3>1, <3>3
        <4>2. Contract!Give({a}, e)
          BY <2>3, <3>0, <3>1, <3>3, <4>1 DEF Contract!Give
        <4> QED
          BY <3>3, <4>2 DEF Contract!Next, Begun
      <3>4. CASE app[a] \in Launched /\ to \notin Launched /\ env[a] # None
        <4>1. Proxy' = [Proxy EXCEPT ![a] = None]
          BY <3>1, <3>4
        <4>2. Contract!Leave(a)
          BY <2>3, <3>0, <3>1, <3>4, <4>1 DEF Contract!Leave
        <4> QED
          BY <4>2 DEF Contract!Next
      <3> QED
        BY <2>3, <3>2, <3>3, <3>4
    <2>4. ASSUME UNCHANGED <<engine, asked, env>>, NEW a \in Apps, NEW to, app' = [app EXCEPT ![a] = to],
                 \/ app[a] \in Launched \/ to \notin Launched \/ env[a] \in Begun
          PROVE  Contract!Next \/ UNCHANGED Contract!vars
      <3>1. env' = [env EXCEPT ![a] = env[a]]
        BY <2>4 DEF StartsAreAnswered
      <3>2. app[a] \in Launched => env[a] # None
        BY DEF StartsAreAnswered, Launched
      <3> QED
        BY <2>3, <2>4, <3>1, <3>2
    <2>5. ASSUME NEW a \in Apps, Run(a) PROVE Contract!Next \/ UNCHANGED Contract!vars
      <3>1. UNCHANGED <<engine, asked>> /\ app[a] = "idle"
            /\ \/ /\ ready # None /\ app' = [app EXCEPT ![a] = "granted"] /\ env' = [env EXCEPT ![a] = ready]
               \/ /\ app' = [app EXCEPT ![a] = "waiting"]
                  /\ \/ env' = [env EXCEPT ![a] = starting]
                     \/ env' = [env EXCEPT ![a] = NewEngine]
        BY <2>5 DEF Run, Step
      <3>2. ready # None => ready \in Begun
        BY DEF StartsAreAnswered, Begun, Lines
      <3> QED
        BY <2>3, <3>1, <3>2 DEF Launched
    <2>6. ASSUME NEW a \in Apps,
                 Deliver(a) \/ ProcessStarted(a) \/ ProcessNotStarted(a) \/ AppExits(a) \/ ProcessTerminated(a)
          PROVE Contract!Next \/ UNCHANGED Contract!vars
      <3>1. UNCHANGED <<engine, asked, env>>
        BY <2>6 DEF Deliver, ProcessStarted, ProcessNotStarted, AppExits, ProcessTerminated
      <3>2. \E to : /\ app' = [app EXCEPT ![a] = to]
                    /\ \/ app[a] \in Launched \/ to \notin Launched
                       \/ app[a] = "waiting" /\ future[env[a]] = "ready"
        BY <2>6 DEF Deliver, ProcessStarted, ProcessNotStarted, AppExits, ProcessTerminated, Step,
           Launched
      <3>3. app[a] = "waiting" /\ future[env[a]] = "ready" => env[a] \in Begun
        BY DEF StartsAreAnswered, Begun
      <3> QED
        BY <2>4, <3>1, <3>2, <3>3
    <2>7. ASSUME NEW s \in Stops, StopSession(s) PROVE Contract!Next \/ UNCHANGED Contract!vars
      <3>1. UNCHANGED <<engine, asked, env>>
            /\ \/ UNCHANGED app
               \/ \E a \in Apps : app' = [app EXCEPT ![a] = "failed"]
        BY <2>7 DEF StopSession, Step
      <3>2. "failed" \notin Launched
        BY DEF Launched
      <3> QED
        BY <2>2, <2>4, <3>1, <3>2
    <2>8. ASSUME NEW caller \in Apps \cup Stops, StopEngine(caller)
          PROVE  Contract!Next \/ UNCHANGED Contract!vars
      <3>1. UNCHANGED <<engine, app, env>> /\ UNCHANGED Proxy /\ UNCHANGED <<Begun, Running>>
        BY <2>1, <2>8 DEF StopEngine, appVars, Proxy
      <3>2. CASE process # None /\ asked' = asked \cup {process}
        <4>1. process \in Begun
          BY <2>0, <3>2 DEF StartsAreAnswered, Begun
        <4>2. Contract!Stop(process)
          BY <3>1, <3>2, <4>1 DEF Contract!Stop, Contract!Tell
        <4> QED
          BY <4>1, <4>2 DEF Contract!Next, Begun
      <3>3. CASE UNCHANGED asked
        BY <2>2, <3>1, <3>3
      <3> QED
        BY <2>8, <3>2, <3>3 DEF StopEngine
    <2>9. ASSUME NEW e \in Engines, Resolve(e) PROVE Contract!Next \/ UNCHANGED Contract!vars
      <3>1. thread[e] = "called" /\ UNCHANGED <<asked, app, env>>
        BY <2>9 DEF Resolve, Move, Other, appVars
      <3>2. CASE UNCHANGED engine
        BY <2>2, <3>1, <3>2
      <3>3. CASE engine' = [engine EXCEPT ![e] = "booting"]
        <4>1. engine[e] = "none" /\ \A d \in Engines : ~Alive(d)
          BY <2>0, <3>1 DEF Unborn, Alive, InCharge
        <4>2. Begun' = Begun \cup {e} /\ e \notin Begun /\ Running = {} /\ Running' = {e}
          BY <2>0, <3>3, <4>1 DEF Begun, Running, Alive
        <4>3. Contract!Begin(e)
          BY <3>1, <4>2 DEF Contract!Begin, Proxy
        <4> QED
          BY <4>3 DEF Contract!Next
      <3> QED
        BY <2>9, <3>2, <3>3 DEF Resolve, Step
    <2>10. ASSUME NEW e \in Engines, Boot(e) PROVE UNCHANGED Contract!vars
      <3>1. engine[e] = "booting" /\ engine' = [engine EXCEPT ![e] = "serving"] /\ UNCHANGED <<asked, app, env>>
        BY <2>10 DEF Boot, Step, Other, appVars
      <3>2. UNCHANGED <<Begun, Running>>
        BY <2>0, <3>1 DEF Begun, Running, Alive
      <3> QED
        BY <3>1, <3>2 DEF Contract!vars, Proxy
    <2>11. ASSUME NEW e \in Engines, Die(e) PROVE Contract!Next
      <3>1. Alive(e) /\ engine' = [engine EXCEPT ![e] = "dead"] /\ UNCHANGED <<asked, app, env>>
        BY <2>11 DEF Die, Step, Other, appVars
      <3>2. \A d \in Engines : Alive(d) => d = e
        BY <2>0, <3>1 DEF OneInCharge, InCharge
      <3>3. UNCHANGED Begun /\ Running = {e} /\ Running' = {}
        BY <2>0, <3>1, <3>2 DEF Begun, Running, Alive
      <3>4. Contract!End(e)
        BY <3>1, <3>3 DEF Contract!End, Proxy
      <3> QED
        BY <3>4 DEF Contract!Next
    <2>12. CASE \/ \E e \in Engines : \/ Hold(e) \/ ReadLine(e) \/ Complete(e)
                                      \/ EndOfEngine(e) \/ Clear(e) \/ Obey(e)
                \/ \E s \in Stops : WaitOver(s)
                \/ \E on \in BOOLEAN : SetRecording(on)
                \/ UNCHANGED vars
      BY <2>2, <2>12 DEF Hold, ReadLine, Complete, EndOfEngine, Leave, Clear, Obey, SwitchFlag,
         ReportState, WaitOver, SetRecording,
         fields, appVars, Other, pipes, vars
    <2> QED
      BY <2>5, <2>6, <2>7, <2>8, <2>9, <2>10, <2>11, <2>12 DEF Next, RunEngine, ForceKill
  <1>3. (\A e \in Engines : Shows(e)) => Unborn
    BY DEF Shows, Unborn
  <1> QED
    BY <1>1, <1>2, <1>3, InChargeInvariant, LinesInvariant, StopInvariant, AnsweredInvariant, ShowsInvariant, PTL
       DEF Spec, Contract!Spec
=============================================================================
