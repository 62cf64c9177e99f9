------------------------- MODULE VSCodeSessionProofs -------------------------
(***************************************************************************)
(* Machine-checked proofs about VSCodeSession, for any number of launches, *)
(* engines, clicks and lines.                                              *)
(***************************************************************************)
EXTENDS VSCodeSession, TLAPS

LEMMA EngineFacts == Engines \subseteq Nat /\ None \notin Engines /\ 0..MaxEngines = Engines \cup {None}
  BY BoundsAssumption DEF Engines, None

\* The lines of one engine, and what a write and a read make of them.
OutLines == [type : LineTypes, on : BOOLEAN]

LEMMA LineFacts ==
    \A type \in LineTypes, on \in BOOLEAN :
        Line(type, on) \in OutLines /\ Line(type, on).type = type /\ Line(type, on).on = on
  BY DEF Line, OutLines

LEMMA Written ==
    ASSUME TypeOK, NEW e \in Engines, NEW line \in OutLines, Write(e, line)
    PROVE  /\ stdout' \in [Engines -> Seq(OutLines)]
           /\ \A d \in Engines : Len(stdout'[d]) <= PipeCap
           /\ \A d \in Engines : d # e => stdout'[d] = stdout[d]
           /\ stdout'[e] = Append(stdout[e], line)
  <1>1. /\ stdout \in [Engines -> Seq(OutLines)]
        /\ \A d \in Engines : stdout[d] \in Seq(OutLines) /\ Len(stdout[d]) <= PipeCap
    BY DEF TypeOK, OutLines
  <1>2. /\ Len(stdout[e]) < PipeCap
        /\ stdout' = [stdout EXCEPT ![e] = Append(@, line)]
    BY DEF Write
  <1>3. /\ Append(stdout[e], line) \in Seq(OutLines)
        /\ Len(Append(stdout[e], line)) <= PipeCap
    BY <1>1, <1>2, BoundsAssumption
  <1>4. stdout'[e] = Append(stdout[e], line) /\ \A d \in Engines : d # e => stdout'[d] = stdout[d]
    BY <1>1, <1>2
  <1> QED
    BY <1>1, <1>2, <1>3, <1>4

LEMMA Taken ==
    ASSUME TypeOK, NEW e \in Engines, Deliver(e)
    PROVE  /\ stdout' \in [Engines -> Seq(OutLines)]
           /\ \A d \in Engines : Len(stdout'[d]) <= PipeCap
           /\ \A d \in Engines : d # e => stdout'[d] = stdout[d]
           /\ stdout'[e] = Tail(stdout[e])
           /\ stdout[e] \in Seq(OutLines) /\ stdout[e] # <<>> /\ Head(stdout[e]) \in OutLines
  <1>1. /\ stdout \in [Engines -> Seq(OutLines)]
        /\ \A d \in Engines : stdout[d] \in Seq(OutLines) /\ Len(stdout[d]) <= PipeCap
    BY DEF TypeOK, OutLines
  <1>2. stdout[e] # <<>> /\ stdout' = [stdout EXCEPT ![e] = Tail(@)]
    BY DEF Deliver
  <1>3. /\ Tail(stdout[e]) \in Seq(OutLines)
        /\ Len(Tail(stdout[e])) <= PipeCap
        /\ Head(stdout[e]) \in OutLines
    BY <1>1, <1>2, BoundsAssumption
  <1>4. stdout'[e] = Tail(stdout[e]) /\ \A d \in Engines : d # e => stdout'[d] = stdout[d]
    BY <1>1, <1>2
  <1> QED
    BY <1>1, <1>2, <1>3, <1>4

-----------------------------------------------------------------------------
(* Type correctness, in the groups of variables the actions leave alone. *)

FieldsOK ==
    /\ process \in Engines \cup {None}
    /\ ready \in Engines \cup {None}
    /\ recording \in BOOLEAN
    /\ token \in 0..MaxEngines
    /\ starting \in {"no", "resolving", "waiting"}
    /\ requests \subseteq Engines
    /\ controls \in 0..MaxControls
    /\ timedOut \in BOOLEAN

StopsOK ==
    /\ stopping \in {"no", "apps", "engine"}
    /\ stopSet \subseteq Apps
    /\ stopTarget \in Engines \cup {None}
    /\ asked \subseteq Engines
    /\ closing \subseteq asked

AppsOK ==
    /\ app \in [Apps -> AppStages]
    /\ env \in [Apps -> [proxy : 0..MaxEngines, token : 0..MaxEngines]]
    /\ debugSessions \subseteq {a \in Apps : app[a] = "running"}

EnginesOK ==
    /\ engine \in [Engines -> EngineStages]
    /\ engineRecording \in [Engines -> BOOLEAN]
    /\ stdin \in [Engines -> Seq(BOOLEAN)]

LinesOK ==
    /\ stdout \in [Engines -> Seq(OutLines)]
    /\ \A e \in Engines : Len(stdout[e]) <= PipeCap

LEMMA Groups ==
    /\ TypeOK <=> FieldsOK /\ StopsOK /\ AppsOK /\ EnginesOK /\ LinesOK
    /\ TypeOK' <=> FieldsOK' /\ StopsOK' /\ AppsOK' /\ EnginesOK' /\ LinesOK'
  BY DEF TypeOK, FieldsOK, StopsOK, AppsOK, EnginesOK, LinesOK, OutLines

LEMMA Kept ==
    ASSUME TypeOK
    PROVE  /\ UNCHANGED <<process, ready, recording, token, starting, requests, controls, timedOut>>
                  => FieldsOK'
           /\ UNCHANGED <<stopping, stopSet, stopTarget, asked, closing>> => StopsOK'
           /\ UNCHANGED <<app, env, debugSessions>> => AppsOK'
           /\ UNCHANGED <<engine, engineRecording, stdin>> => EnginesOK'
           /\ UNCHANGED stdout => LinesOK'
  <1>1. FieldsOK /\ StopsOK /\ AppsOK /\ EnginesOK /\ LinesOK
    BY Groups
  <1>2. UNCHANGED <<process, ready, recording, token, starting, requests, controls, timedOut>>
            => FieldsOK'
    BY <1>1 DEF FieldsOK
  <1>3. UNCHANGED <<stopping, stopSet, stopTarget, asked, closing>> => StopsOK'
    BY <1>1 DEF StopsOK
  <1>4. UNCHANGED <<app, env, debugSessions>> => AppsOK'
    BY <1>1 DEF AppsOK
  <1>5. UNCHANGED <<engine, engineRecording, stdin>> => EnginesOK'
    BY <1>1 DEF EnginesOK
  <1>6. UNCHANGED stdout => LinesOK'
    BY <1>1 DEF LinesOK
  <1> QED
    BY <1>2, <1>3, <1>4, <1>5, <1>6

(* Who awaited a start that is rejected has ended, and no one else.         *)
LEMMA Rejected == ASSUME AppsOK, Reject PROVE AppsOK'
  BY DEF AppsOK, AppStages, Reject

LEMMA EngineLetGo ==
    ASSUME FieldsOK, StopsOK, StopEngine
    PROVE  /\ process' \in Engines \cup {None}
           /\ asked' \subseteq Engines /\ closing' \subseteq asked'
  BY DEF FieldsOK, StopsOK, StopEngine

(* Every variable keeps its shape: fields, stages, sets, lines (all of      *)
(* Next).                                                                   *)
THEOREM TypeCorrect == Spec => []TypeOK
  <1>1. Init => TypeOK
    <2> SUFFICES ASSUME Init PROVE FieldsOK /\ StopsOK /\ AppsOK /\ EnginesOK /\ LinesOK
      BY Groups
    <2>1. FieldsOK
      <3>1. 0 \in 0..MaxEngines /\ 0 \in 0..MaxControls
        BY BoundsAssumption
      <3> QED
        BY <3>1 DEF Init, FieldsOK, None
    <2>2. StopsOK
      BY DEF Init, StopsOK
    <2>3. AppsOK
      BY EngineFacts DEF Init, AppsOK, AppStages, NoEnv
    <2>4. EnginesOK
      BY DEF Init, EnginesOK, EngineStages
    <2>5. LinesOK
      BY BoundsAssumption DEF Init, LinesOK
    <2> QED
      BY <2>1, <2>2, <2>3, <2>4, <2>5
  <1>2. TypeOK /\ [Next]_vars => TypeOK'
    <2> SUFFICES ASSUME TypeOK, [Next]_vars
                 PROVE  FieldsOK' /\ StopsOK' /\ AppsOK' /\ EnginesOK' /\ LinesOK'
      BY Groups
    <2> DEFINE Goal == FieldsOK' /\ StopsOK' /\ AppsOK' /\ EnginesOK' /\ LinesOK'
    <2>0. FieldsOK /\ StopsOK /\ AppsOK /\ EnginesOK /\ LinesOK
      BY Groups
    <2>1. CASE Start
      <3>1. FieldsOK'
        BY <2>0, <2>1 DEF Start, FieldsOK, uiVars
      <3> QED
        BY <2>1, <3>1, Kept DEF Start, stopVars, closeVars, appVars, engineVars
    <2>2. CASE ResolveFails
      <3>1. FieldsOK'
        BY <2>0, <2>2 DEF ResolveFails, Reject, FieldsOK, uiVars
      <3>2. AppsOK'
        BY <2>0, <2>2, Rejected DEF ResolveFails
      <3> QED
        BY <2>2, <3>1, <3>2, Kept DEF ResolveFails, stopVars, closeVars, engineVars
    <2>3. CASE Spawn
      <3>1. token + 1 \in Engines /\ token' = token + 1
        BY <2>0, <2>3, BoundsAssumption DEF Spawn, FieldsOK, Engines
      <3>2. FieldsOK'
        BY <2>0, <2>3, <3>1, EngineFacts DEF Spawn, FieldsOK
      <3>3. EnginesOK'
        BY <2>0, <2>3, <3>1 DEF Spawn, EnginesOK, EngineStages
      <3> QED
        BY <2>3, <3>2, <3>3, Kept DEF Spawn, stopVars, closeVars, appVars
    <2>4. CASE Timeout
      <3>1. FieldsOK' /\ StopsOK'
        BY <2>0, <2>4, EngineLetGo DEF Timeout, Reject, FieldsOK, StopsOK, stopVars
      <3>2. AppsOK'
        BY <2>0, <2>4, Rejected DEF Timeout
      <3> QED
        BY <2>4, <3>1, <3>2, Kept DEF Timeout, engineVars
    <2>5. CASE StopSession \/ AppsStopped
      <3>1. UNCHANGED <<ready, recording, token, requests, starting, app, env, engineVars,
                        controls, timedOut>>
        BY <2>5 DEF StopSession, AppsStopped
      <3>2. CASE FinishStop
        <4>1. FieldsOK' /\ StopsOK'
          BY <2>0, <3>1, <3>2, EngineLetGo DEF FinishStop, FieldsOK, StopsOK
        <4>2. AppsOK'
          BY <2>0, <3>1, <3>2 DEF FinishStop, AppsOK
        <4> QED
          BY <3>1, <4>1, <4>2, Kept DEF engineVars
      <3>3. CASE ~FinishStop
        <4>1. /\ UNCHANGED <<process, asked, closing, stopTarget, debugSessions>>
              /\ stopping' = "apps" /\ stopSet' = debugSessions
          BY <2>5, <3>3 DEF StopSession, AppsStopped
        <4>2. StopsOK'
          BY <2>0, <4>1 DEF StopsOK, AppsOK
        <4> QED
          BY <3>1, <4>1, <4>2, Kept DEF engineVars
      <3> QED
        BY <3>2, <3>3
    <2>6. CASE StopDebuggingFails
      <3>1. StopsOK'
        BY <2>0, <2>6 DEF StopDebuggingFails, StopsOK, closeVars
      <3> QED
        BY <2>6, <3>1, Kept DEF StopDebuggingFails, uiVars, appVars, engineVars
    <2>7. ASSUME NEW on \in BOOLEAN, SendControl(on) PROVE Goal
      <3>1. EnginesOK'
        <4>1. process \in Engines /\ UNCHANGED <<engine, engineRecording>>
          BY <2>0, <2>7 DEF SendControl, FieldsOK
        <4>2. stdin[process] \in Seq(BOOLEAN) /\ Append(stdin[process], on) \in Seq(BOOLEAN)
          BY <2>0, <4>1 DEF EnginesOK
        <4>3. \/ stdin' = [stdin EXCEPT ![process] = Append(stdin[process], on)]
              \/ stdin' = stdin
          BY <2>7 DEF SendControl
        <4> QED
          BY <2>0, <4>1, <4>2, <4>3 DEF EnginesOK
      <3>2. FieldsOK'
        BY <2>0, <2>7, BoundsAssumption DEF SendControl, FieldsOK, uiVars
      <3> QED
        BY <2>7, <3>1, <3>2, Kept DEF SendControl, stopVars, closeVars, appVars
    <2>8. CASE Clear
      <3>1. FieldsOK'
        BY <2>0, <2>8 DEF Clear, FieldsOK
      <3> QED
        BY <2>8, <3>1, Kept DEF Clear, stopVars, closeVars, appVars, engineVars
    <2>9. ASSUME NEW a \in Apps, Launch(a) PROVE Goal
      <3>1. FieldsOK'
        BY <2>0, <2>9 DEF Launch, FieldsOK, uiVars
      <3>2. AppsOK'
        <4>1. debugSessions' = debugSessions /\ app[a] = "idle"
              /\ \E stage \in {"launching", "waiting"} : app' = [app EXCEPT ![a] = stage]
          BY <2>9 DEF Launch
        <4>2. env' \in [Apps -> [proxy : 0..MaxEngines, token : 0..MaxEngines]]
          BY <2>0, <2>9, EngineFacts DEF Launch, FieldsOK, AppsOK
        <4> QED
          BY <2>0, <4>1, <4>2 DEF AppsOK, AppStages
      <3> QED
        BY <2>9, <3>1, <3>2, Kept DEF Launch, stopVars, closeVars, engineVars
    <2>10. ASSUME NEW a \in Apps, AppStarts(a) PROVE Goal
      <3>1. AppsOK'
        BY <2>0, <2>10 DEF AppStarts, AppsOK, AppStages
      <3> QED
        BY <2>10, <3>1, Kept DEF AppStarts, uiVars, stopVars, closeVars, engineVars
    <2>11. ASSUME NEW a \in Apps, Ended(a), debugSessions' = debugSessions \ {a} PROVE AppsOK'
      BY <2>0, <2>11, EngineFacts DEF Ended, NoEnv, AppsOK, AppStages
    <2>12. ASSUME NEW a \in Apps, AppFails(a) PROVE Goal
      <3>1. AppsOK'
        <4>1. a \notin debugSessions
          BY <2>0, <2>12 DEF AppFails, AppsOK
        <4> QED
          BY <2>11, <2>12, <4>1 DEF AppFails
      <3> QED
        BY <2>12, <3>1, Kept DEF AppFails, uiVars, stopVars, closeVars, engineVars
    <2>13. ASSUME NEW a \in Apps, AppEnds(a) PROVE Goal
      <3>1. AppsOK'
        BY <2>11, <2>13 DEF AppEnds
      <3>2. FieldsOK' /\ StopsOK'
        BY <2>0, <2>13, EngineLetGo DEF AppEnds, FieldsOK, StopsOK, stopVars
      <3> QED
        BY <2>13, <3>1, <3>2, Kept DEF AppEnds, engineVars
    <2>14. ASSUME NEW e \in Engines, SpawnError(e) PROVE Goal
      <3>1. EnginesOK'
        BY <2>0, <2>14 DEF SpawnError, EnginesOK, EngineStages
      <3>2. FieldsOK'
        BY <2>0, <2>14 DEF SpawnError, Reject, FieldsOK, uiVars
      <3>3. AppsOK'
        BY <2>0, <2>14, Rejected, Kept DEF SpawnError, appVars
      <3> QED
        BY <2>14, <3>1, <3>2, <3>3, Kept DEF SpawnError, stopVars, closeVars
    <2>15. ASSUME NEW e \in Engines, ForceKill(e) PROVE Goal
      <3>1. StopsOK'
        BY <2>0, <2>15 DEF ForceKill, Released, StopsOK
      <3> QED
        BY <2>15, <3>1, Kept DEF ForceKill, uiVars, appVars, engineVars
    <2>16. ASSUME NEW e \in Engines, ReadyLine(e) \/ RequestRow(e) \/ StateEvent(e) PROVE Goal
      <3>1. Deliver(e)
        BY <2>16 DEF ReadyLine, RequestRow, StateEvent
      <3>2. LinesOK' /\ Head(stdout[e]).on \in BOOLEAN
        BY <3>1, Taken DEF OutLines, LinesOK
      <3>3. UNCHANGED <<process, token, stopping, stopSet, stopTarget, asked, closing,
                        debugSessions, engine, engineRecording, stdin, controls, timedOut>>
        BY <3>1 DEF Deliver, stopVars, closeVars
      <3>4. FieldsOK'
        BY <2>0, <2>16, <3>2, <3>3 DEF ReadyLine, RequestRow, StateEvent, FieldsOK
      <3>5. AppsOK'
        <4>1. CASE UNCHANGED <<app, env>>
          BY <3>3, <4>1, Kept
        <4>2. CASE ~UNCHANGED <<app, env>>
          <5> DEFINE waiting == {a \in Apps : app[a] = "waiting"}
          <5>1. /\ app' = [a \in Apps |-> IF a \in waiting THEN "launching" ELSE app[a]]
                /\ env' = [a \in Apps |-> IF a \in waiting
                                          THEN [proxy |-> e, token |-> token] ELSE env[a]]
            BY <2>16, <4>2 DEF ReadyLine, RequestRow, StateEvent
          <5>2. e \in 0..MaxEngines /\ token \in 0..MaxEngines
            BY <2>0, EngineFacts DEF FieldsOK
          <5> QED
            BY <2>0, <3>3, <5>1, <5>2 DEF AppsOK, AppStages
        <4> QED
          BY <4>1, <4>2
      <3> QED
        BY <3>2, <3>3, <3>4, <3>5, Kept
    <2>17. ASSUME NEW e \in Engines, Exit(e) PROVE Goal
      <3>1. FieldsOK'
        BY <2>0, <2>17 DEF Exit, Reject, FieldsOK
      <3>2. StopsOK'
        BY <2>0, <2>17 DEF Exit, Released, StopsOK
      <3>3. AppsOK'
        BY <2>0, <2>17, Rejected, Kept DEF Exit, appVars
      <3>4. EnginesOK'
        BY <2>0, <2>17 DEF Exit, EnginesOK, EngineStages
      <3> QED
        BY <2>17, <3>1, <3>2, <3>3, <3>4, Kept DEF Exit
    <2>18. ASSUME NEW e \in Engines, EngineReady(e) \/ EngineControl(e) \/ EngineRow(e) PROVE Goal
      <3>1. UNCHANGED stdout \/ \E line \in OutLines : Write(e, line)
        <4>1. EngineControl(e) => Head(stdin[e]) \in BOOLEAN
          BY <2>0 DEF EngineControl, EngineSets, EngineSays, EnginesOK
        <4> QED
          BY <2>18, <4>1, LineFacts DEF EngineReady, EngineControl, EngineSets, EngineSays,
             EngineRow, LineTypes
      <3>2. LinesOK'
        BY <2>0, <3>1, Written DEF LinesOK
      <3>3. UNCHANGED engineOnly
        BY <2>18 DEF EngineReady, EngineControl, EngineSets, EngineSays, EngineRow
      <3>4. EnginesOK'
        <4>1. EngineControl(e) => /\ stdin[e] \in Seq(BOOLEAN) /\ Head(stdin[e]) \in BOOLEAN
                                  /\ Tail(stdin[e]) \in Seq(BOOLEAN)
          BY <2>0 DEF EngineControl, EngineSets, EngineSays, EnginesOK
        <4> QED
          BY <2>0, <2>18, <4>1 DEF EngineReady, EngineControl, EngineSets, EngineSays, EngineRow,
             EnginesOK, EngineStages
      <3> QED
        BY <3>2, <3>3, <3>4, Kept DEF engineOnly, uiVars, stopVars, closeVars, appVars
    <2>19. ASSUME NEW e \in Engines, EngineEnds(e) PROVE Goal
      <3>1. EnginesOK'
        BY <2>0, <2>19 DEF EngineEnds, EnginesOK, EngineStages
      <3> QED
        BY <2>19, <3>1, Kept DEF EngineEnds, engineOnly, uiVars, stopVars, closeVars, appVars
    <2>20. CASE UNCHANGED vars
      BY <2>20, Kept DEF vars, uiVars, stopVars, closeVars, appVars, engineVars
    <2> QED
      BY <2>1, <2>2, <2>3, <2>4, <2>5, <2>6, <2>7, <2>8, <2>9, <2>10, <2>12, <2>13, <2>14,
         <2>15, <2>16, <2>17, <2>18, <2>19, <2>20 DEF Next
  <1> QED
    BY <1>1, <1>2, PTL DEF Spec

-----------------------------------------------------------------------------
(* One session at a time. *)

\* As long as no start has timed out, the newest engine is the only one that
\* is not over, and the next start begins when it is.
OnlyTheNewest ==
    /\ \A e \in Engines : e # token => engine[e] \in {"none", "gone"}
    /\ \A e \in Engines : engine[e] \in {"none", "gone", "failed"} => stdout[e] = <<>>
    /\ \A e \in Engines : e > token => engine[e] = "none"
    /\ ready \in {None, token} /\ process \in {None, token}
    /\ starting = "resolving" => ready = None
    /\ starting # "waiting" /\ ready = None /\ token # None => engine[token] = "gone"
    /\ token # None /\ Alive(token) /\ token \notin asked => process = token
    /\ requests \subseteq {token}
    /\ \A a \in Apps : env[a].proxy = env[a].token

NewestInv == ~timedOut => OnlyTheNewest

LEMMA NewestKept ==
    ASSUME OnlyTheNewest,
           UNCHANGED <<token, process, asked, ready, requests, env, starting, engine, stdout>>
    PROVE  OnlyTheNewest'
  BY DEF OnlyTheNewest, Alive

(* An engine that is let go of has been asked.                              *)
LEMMA LetGoKept ==
    ASSUME TypeOK, OnlyTheNewest, StopEngine,
           UNCHANGED <<token, ready, requests, starting, engine, stdout>>,
           \A a \in Apps : env'[a].proxy = env'[a].token
    PROVE  OnlyTheNewest'
  <1>1. \/ UNCHANGED <<process, asked>>
        \/ process' = None /\ asked' = asked \cup {process}
    BY DEF StopEngine
  <1>2. token # None /\ Alive(token) /\ token \notin asked' => process' = token
    BY <1>1 DEF OnlyTheNewest
  <1> QED
    BY <1>1, <1>2 DEF OnlyTheNewest, Alive

\* What NoStrayEngine and OneSessionAtATime rest on.
LEMMA NewestInvariant == Spec => []NewestInv
  <1>1. Init => NewestInv
    BY EngineFacts DEF Init, NewestInv, OnlyTheNewest, NoEnv, Engines, None
  <1>2. TypeOK /\ NewestInv /\ [Next]_vars => NewestInv'
    <2> SUFFICES ASSUME TypeOK, NewestInv, [Next]_vars, ~timedOut' PROVE OnlyTheNewest'
      BY DEF NewestInv
    <2>0. ~timedOut /\ OnlyTheNewest
      <3>1. ~timedOut
        BY DEF Next, Start, ResolveFails, Spawn, Timeout, StopSession, AppsStopped,
           StopDebuggingFails, SendControl, Clear, Launch, AppStarts, AppFails, AppEnds,
           SpawnError, ForceKill, ReadyLine, RequestRow, StateEvent, Deliver, Exit,
           EngineReady, EngineControl, EngineSets, EngineSays, EngineRow, EngineEnds,
           engineOnly, vars
      <3> QED
        BY <3>1 DEF NewestInv
    <2>1. CASE Start
      <3>1. /\ ready = None /\ starting = "no" /\ starting' = "resolving"
            /\ UNCHANGED <<token, process, asked, ready, requests, env, engine, stdout>>
        BY <2>1 DEF Start, uiVars, closeVars, appVars, engineVars
      <3> QED
        BY <2>0, <3>1 DEF OnlyTheNewest, Alive
    <2>2. CASE ResolveFails
      <3>1. /\ starting = "resolving" /\ starting' = "no"
            /\ UNCHANGED <<token, process, asked, ready, requests, env, engine, stdout>>
        BY <2>2 DEF ResolveFails, Reject, uiVars, closeVars, engineVars
      <3> QED
        BY <2>0, <3>1 DEF OnlyTheNewest, Alive
    <2>3. CASE Spawn
      <3>1. token + 1 \in Engines /\ token \in Nat
        BY <2>3, BoundsAssumption DEF Spawn, TypeOK, Engines
      <3>2. /\ starting = "resolving" /\ starting' = "waiting"
            /\ token' = token + 1 /\ process' = token + 1 /\ requests' = {}
            /\ \E stage \in {"booting", "failed"} : engine' = [engine EXCEPT ![token + 1] = stage]
            /\ UNCHANGED <<asked, ready, env, stdout>>
        BY <2>3 DEF Spawn, closeVars, appVars
      <3>3. ready = None /\ (token # None => engine[token] = "gone")
        BY <2>0, <3>2 DEF OnlyTheNewest
      <3>4. engine[token + 1] = "none"
        BY <2>0, <3>1 DEF OnlyTheNewest
      <3>5. \A e \in Engines : e # token + 1 => engine'[e] = engine[e]
        BY <3>1, <3>2 DEF TypeOK
      <3>6. engine'[token + 1] \in {"booting", "failed"}
        BY <3>1, <3>2 DEF TypeOK
      <3>7. \A e \in Engines : e # token + 1 => engine'[e] \in {"none", "gone"}
        <4>1. \A e \in Engines : e # token => engine[e] \in {"none", "gone"}
          BY <2>0 DEF OnlyTheNewest
        <4> QED
          BY <3>3, <3>5, <4>1, EngineFacts
      <3>8. \A e \in Engines : stdout[e] = <<>>
        <4>1. \A e \in Engines : engine[e] \in {"none", "gone"}
          BY <3>4, <3>5, <3>7
        <4> QED
          BY <2>0, <4>1 DEF OnlyTheNewest
      <3>9. \A e \in Engines : e > token + 1 => engine'[e] = "none"
        <4>1. \A e \in Engines : e > token + 1 => e > token /\ e # token + 1
          BY <3>1, EngineFacts
        <4> QED
          BY <2>0, <3>5, <4>1 DEF OnlyTheNewest
      <3>10. \A a \in Apps : env[a].proxy = env[a].token
        BY <2>0 DEF OnlyTheNewest
      <3> QED
        BY <3>2, <3>3, <3>7, <3>8, <3>9, <3>10 DEF OnlyTheNewest
    <2>4. CASE Timeout
      BY <2>4 DEF Timeout
    <2>5. CASE StopSession \/ AppsStopped
      <3>1. UNCHANGED <<token, ready, requests, env, starting, engine, stdout>>
        BY <2>5 DEF StopSession, AppsStopped, engineVars
      <3>2. StopEngine \/ UNCHANGED <<process, asked>>
        BY <2>5 DEF StopSession, AppsStopped, FinishStop
      <3>3. \A a \in Apps : env'[a].proxy = env'[a].token
        BY <2>0, <3>1 DEF OnlyTheNewest
      <3> QED
        BY <2>0, <3>1, <3>2, <3>3, LetGoKept, NewestKept
    <2>6. CASE \/ StopDebuggingFails \/ (\E on \in BOOLEAN : SendControl(on))
               \/ (\E a \in Apps : AppStarts(a)) \/ (\E e \in Engines : ForceKill(e))
               \/ UNCHANGED vars
      <3>1. UNCHANGED <<token, process, asked, ready, requests, env, starting, engine, stdout>>
        BY <2>6 DEF StopDebuggingFails, SendControl, AppStarts, ForceKill, vars, uiVars, closeVars,
           appVars, engineVars
      <3> QED
        BY <2>0, <3>1, NewestKept
    <2>7. CASE Clear
      <3>1. requests' = {} /\ UNCHANGED <<token, process, asked, ready, env, starting, engine, stdout>>
        BY <2>7 DEF Clear, closeVars, appVars, engineVars
      <3> QED
        BY <2>0, <3>1 DEF OnlyTheNewest, Alive
    <2>8. ASSUME NEW a \in Apps, Launch(a) PROVE OnlyTheNewest'
      <3>1. UNCHANGED <<token, process, asked, ready, requests, engine, stdout>>
        BY <2>8 DEF Launch, uiVars, closeVars, engineVars
      <3>2. CASE ready # None
        <4>1. env' = [env EXCEPT ![a] = [proxy |-> ready, token |-> token]] /\ UNCHANGED starting
          BY <2>8, <3>2 DEF Launch
        <4>2. ready = token
          BY <2>0, <3>2 DEF OnlyTheNewest
        <4>3. \A b \in Apps : env'[b].proxy = env'[b].token
          BY <2>0, <4>1, <4>2 DEF OnlyTheNewest, TypeOK
        <4> QED
          BY <2>0, <3>1, <4>1, <4>3 DEF OnlyTheNewest, Alive
      <3>3. CASE ready = None
        <4>1. /\ UNCHANGED env
              /\ starting' = IF starting = "no" THEN "resolving" ELSE starting
          BY <2>8, <3>3 DEF Launch
        <4> QED
          BY <2>0, <3>1, <3>3, <4>1 DEF OnlyTheNewest, Alive
      <3> QED
        BY <3>2, <3>3
    <2>9. ASSUME NEW a \in Apps, AppFails(a) \/ AppEnds(a) PROVE OnlyTheNewest'
      <3>1. /\ UNCHANGED <<token, ready, requests, starting, engine, stdout>>
            /\ env' = [env EXCEPT ![a] = NoEnv]
        BY <2>9 DEF AppFails, AppEnds, Ended, uiVars, engineVars
      <3>2. \A b \in Apps : env'[b].proxy = env'[b].token
        BY <2>0, <3>1 DEF OnlyTheNewest, TypeOK, NoEnv
      <3>3. StopEngine \/ UNCHANGED <<process, asked>>
        BY <2>9 DEF AppFails, AppEnds, uiVars, closeVars
      <3>4. CASE UNCHANGED <<process, asked>>
        BY <2>0, <3>1, <3>2, <3>4 DEF OnlyTheNewest, Alive
      <3> QED
        BY <2>0, <3>1, <3>2, <3>3, <3>4, LetGoKept
    <2>10. ASSUME NEW e \in Engines, e = token, UNCHANGED <<token, asked, requests, env>>,
                  engine' = [engine EXCEPT ![e] = "gone"], stdout[e] = <<>>,
                  UNCHANGED stdout,
                  process' \in {None, token}, ready' \in {None, ready},
                  starting' \in {"no", starting}
           PROVE  OnlyTheNewest'
      <3>1. engine'[e] = "gone" /\ \A d \in Engines : d # e => engine'[d] = engine[d]
        BY <2>10 DEF TypeOK
      <3>2. \A d \in Engines : d > token => d # token
        BY EngineFacts DEF TypeOK
      <3>3. /\ \A d \in Engines : d # token' => engine'[d] \in {"none", "gone"}
            /\ \A d \in Engines : engine'[d] \in {"none", "gone", "failed"} => stdout'[d] = <<>>
            /\ \A d \in Engines : d > token' => engine'[d] = "none"
        BY <2>0, <2>10, <3>1, <3>2 DEF OnlyTheNewest
      <3>4. /\ ready' \in {None, token'}
            /\ starting' = "resolving" => ready' = None
            /\ \A a \in Apps : env'[a].proxy = env'[a].token
            /\ requests' \subseteq {token'}
        BY <2>0, <2>10 DEF OnlyTheNewest
      <3> QED
        BY <2>10, <3>1, <3>3, <3>4 DEF OnlyTheNewest, Alive
    <2>11. ASSUME NEW e \in Engines, SpawnError(e) PROVE OnlyTheNewest'
      <3>1. engine[e] = "failed"
        BY <2>11 DEF SpawnError
      <3>2. e = token /\ stdout[e] = <<>>
        BY <2>0, <3>1 DEF OnlyTheNewest
      <3>3. /\ UNCHANGED <<token, process, ready, asked, requests, env, stdout>>
            /\ engine' = [engine EXCEPT ![e] = "gone"]
            /\ starting' \in {"no", starting}
        BY <2>11 DEF SpawnError, Reject, uiVars, closeVars, appVars
      <3>4. process \in {None, token}
        BY <2>0 DEF OnlyTheNewest
      <3> QED
        BY <2>10, <3>2, <3>3, <3>4
    <2>12. ASSUME NEW e \in Engines, Exit(e) PROVE OnlyTheNewest'
      <3>1. engine[e] = "dead" /\ stdout[e] = <<>>
        BY <2>12 DEF Exit
      <3>2. e = token
        BY <2>0, <3>1 DEF OnlyTheNewest
      <3>3. /\ UNCHANGED <<token, asked, requests, env, stdout>>
            /\ ready' = None /\ process' \in {None, process}
            /\ engine' = [engine EXCEPT ![e] = "gone"]
            /\ starting' \in {"no", starting}
        BY <2>12 DEF Exit, Reject, appVars
      <3>4. process \in {None, token}
        BY <2>0 DEF OnlyTheNewest
      <3> QED
        BY <2>10, <3>1, <3>2, <3>3, <3>4
    <2>13. ASSUME NEW e \in Engines, Deliver(e)
           PROVE  /\ e = token /\ engine[e] \notin {"none", "gone", "failed"}
                  /\ UNCHANGED <<token, process, asked, engine>>
                  /\ \A d \in Engines : engine[d] \in {"none", "gone", "failed"} => stdout'[d] = <<>>
      <3>1. stdout[e] # <<>> /\ UNCHANGED <<token, process, asked, engine>>
        BY <2>13 DEF Deliver, closeVars
      <3>2. e = token /\ engine[e] \notin {"none", "gone", "failed"}
        BY <2>0, <3>1 DEF OnlyTheNewest
      <3>3. \A d \in Engines : d # e => stdout'[d] = stdout[d]
        BY <2>13, Taken
      <3> QED
        BY <2>0, <3>1, <3>2, <3>3 DEF OnlyTheNewest
    <2>14. ASSUME NEW e \in Engines, ReadyLine(e) PROVE OnlyTheNewest'
      <3>1. /\ Deliver(e) /\ ready' = e /\ UNCHANGED requests
            /\ IF Pending(e)
               THEN /\ starting' = "no"
                    /\ env' = [a \in Apps |-> IF app[a] = "waiting"
                                              THEN [proxy |-> e, token |-> token] ELSE env[a]]
               ELSE UNCHANGED <<starting, env>>
        BY <2>14 DEF ReadyLine
      <3>2. e = token /\ e # None
        BY <2>13, <3>1, EngineFacts
      <3>3. \A a \in Apps : env'[a].proxy = env'[a].token
        BY <2>0, <3>1, <3>2 DEF OnlyTheNewest
      <3>4. starting' # "resolving"
        <4>1. starting = "resolving" => engine[token] = "gone"
          BY <2>0, <3>2 DEF OnlyTheNewest
        <4>2. engine[token] # "gone"
          BY <2>13, <3>1, <3>2
        <4> QED
          BY <3>1, <4>1, <4>2
      <3> QED
        BY <2>0, <2>13, <3>1, <3>2, <3>3, <3>4 DEF OnlyTheNewest, Alive
    <2>15. ASSUME NEW e \in Engines, RequestRow(e) \/ StateEvent(e) PROVE OnlyTheNewest'
      <3>1. /\ Deliver(e) /\ UNCHANGED <<ready, starting, env>>
            /\ requests' \subseteq requests \cup {e}
        BY <2>15 DEF RequestRow, StateEvent
      <3> QED
        BY <2>0, <2>13, <3>1 DEF OnlyTheNewest, Alive
    <2>16. ASSUME NEW e \in Engines, EngineReady(e) \/ EngineControl(e) \/ EngineRow(e)
           PROVE  OnlyTheNewest'
      <3>1. /\ UNCHANGED stdout \/ \E line \in OutLines : Write(e, line)
            /\ engine[e] \in {"booting", "serving"}
            /\ \/ UNCHANGED engine
               \/ engine' = [engine EXCEPT ![e] = "serving"]
            /\ UNCHANGED <<token, process, asked, ready, requests, env, starting>>
        <4>1. EngineControl(e) => Head(stdin[e]) \in BOOLEAN
          BY DEF EngineControl, EngineSets, EngineSays, TypeOK
        <4> QED
          BY <2>16, <4>1, LineFacts DEF EngineReady, EngineControl, EngineSets, EngineSays,
             EngineRow, LineTypes,
             engineOnly, uiVars, closeVars, appVars
      <3>2. e = token
        BY <2>0, <3>1 DEF OnlyTheNewest
      <3>3. \A d \in Engines : d # e => stdout'[d] = stdout[d] /\ engine'[d] = engine[d]
        BY <3>1, Written DEF TypeOK
      <3>4. engine'[e] \in {"booting", "serving"}
        BY <3>1 DEF TypeOK
      <3>5. \A d \in Engines : d > token => d # token
        BY EngineFacts DEF TypeOK
      <3>6. /\ \A d \in Engines : d # token => engine'[d] \in {"none", "gone"}
            /\ \A d \in Engines : engine'[d] \in {"none", "gone", "failed"} => stdout'[d] = <<>>
            /\ \A d \in Engines : d > token => engine'[d] = "none"
        BY <2>0, <3>2, <3>3, <3>4, <3>5 DEF OnlyTheNewest
      <3>7. engine[token] # "gone"
        BY <3>1, <3>2
      <3>8. Alive(token)
        BY <3>1, <3>2 DEF Alive
      <3> QED
        BY <2>0, <3>1, <3>6, <3>7, <3>8 DEF OnlyTheNewest, Alive
    <2>17. ASSUME NEW e \in Engines, EngineEnds(e) PROVE OnlyTheNewest'
      <3>1. /\ engine[e] \in {"booting", "serving"}
            /\ engine' = [engine EXCEPT ![e] = "dead"]
            /\ UNCHANGED <<token, process, asked, ready, requests, env, starting, stdout>>
        BY <2>17 DEF EngineEnds, Alive, engineOnly, uiVars, closeVars, appVars
      <3>2. e = token
        BY <2>0, <3>1 DEF OnlyTheNewest
      <3>3. engine'[e] = "dead" /\ \A d \in Engines : d # e => engine'[d] = engine[d]
        BY <3>1 DEF TypeOK
      <3>4. \A d \in Engines : d > token => d # token
        BY EngineFacts DEF TypeOK
      <3>5. /\ \A d \in Engines : d # token => engine'[d] \in {"none", "gone"}
            /\ \A d \in Engines : engine'[d] \in {"none", "gone", "failed"} => stdout'[d] = <<>>
            /\ \A d \in Engines : d > token => engine'[d] = "none"
        BY <2>0, <3>1, <3>2, <3>3, <3>4 DEF OnlyTheNewest
      <3>6. engine[token] # "gone"
        BY <3>1, <3>2
      <3> QED
        BY <2>0, <3>1, <3>2, <3>3, <3>5, <3>6 DEF OnlyTheNewest, Alive
    <2> QED
      BY <2>1, <2>2, <2>3, <2>4, <2>5, <2>6, <2>7, <2>8, <2>9, <2>11, <2>12, <2>14, <2>15,
         <2>16, <2>17 DEF Next
  <1> QED
    BY <1>1, <1>2, TypeCorrect, PTL DEF Spec

(* One session at a time, whatever is started, stopped, launched or ends in *)
(* between, until a start times out (start, startProcess, stopEngine, the   *)
(* handlers of lines and exits, resolveDebugConfiguration).                 *)
THEOREM OneSession == Spec => []OneSessionAtATime
  <1>1. TypeOK /\ NewestInv => OneSessionAtATime
    <2> SUFFICES ASSUME TypeOK, OnlyTheNewest PROVE OneSessionAtATime
      BY DEF NewestInv, OneSessionAtATime, NoStrayEngine
    <2>1. \A e \in Engines : Alive(e) /\ e \notin asked => process = e
      BY EngineFacts DEF OnlyTheNewest, Alive
    <2> QED
      BY <2>1 DEF OneSessionAtATime, NoStrayEngine, OnlyTheNewest
  <1> QED
    BY <1>1, TypeCorrect, NewestInvariant, PTL

-----------------------------------------------------------------------------
(* The record button. *)

\* The last line of L that is no row, if any, says on; no line but rows.
Tells(L, on) ==
    \A i \in 1..Len(L) :
        L[i].type # "request" /\ (\A j \in 1..Len(L) : j > i => L[j].type = "request")
            => L[i].on = on
OnlyRows(L) == \A i \in 1..Len(L) : L[i].type = "request"

LEMMA LineAdded ==
    ASSUME NEW L \in Seq(OutLines), NEW line \in OutLines
    PROVE  LET M == Append(L, line) IN
           /\ line.type = "request" => /\ OnlyRows(M) <=> OnlyRows(L)
                                       /\ \A on : Tells(L, on) => Tells(M, on)
           /\ line.type # "request" => ~OnlyRows(M) /\ Tells(M, line.on)
  <1> DEFINE M == Append(L, line)
             n == Len(L)
  <1>1. n \in Nat /\ Len(M) = n + 1 /\ M[n + 1] = line /\ \A i \in 1..n : M[i] = L[i]
    OBVIOUS
  <1> HIDE DEF M
  <1>2. 1..n + 1 = (1..n) \cup {n + 1} /\ \A i \in 1..n : n + 1 > i
    BY <1>1
  <1>3. line.type = "request" => (OnlyRows(M) <=> OnlyRows(L))
    BY <1>1, <1>2 DEF OnlyRows
  <1>4. ASSUME line.type = "request", NEW on, Tells(L, on) PROVE Tells(M, on)
    <2> SUFFICES ASSUME NEW i \in 1..n + 1, M[i].type # "request",
                        \A j \in 1..n + 1 : j > i => M[j].type = "request"
                 PROVE  M[i].on = on
      BY <1>1 DEF Tells
    <2>1. i \in 1..n
      BY <1>1, <1>2, <1>4
    <2>2. \A j \in 1..n : j > i => L[j].type = "request"
      BY <1>1, <1>2
    <2> QED
      BY <1>1, <1>4, <2>1, <2>2 DEF Tells
  <1>5. ASSUME line.type # "request" PROVE ~OnlyRows(M) /\ Tells(M, line.on)
    <2>1. ~OnlyRows(M)
      BY <1>1, <1>2, <1>5 DEF OnlyRows
    <2> SUFFICES ASSUME NEW i \in 1..n + 1, M[i].type # "request",
                        \A j \in 1..n + 1 : j > i => M[j].type = "request"
                 PROVE  M[i].on = line.on
      BY <1>1, <2>1 DEF Tells
    <2>2. i = n + 1
      BY <1>1, <1>2, <1>5
    <2> QED
      BY <1>1, <2>2
  <1> QED
    BY <1>3, <1>4, <1>5 DEF M

LEMMA LineTaken ==
    ASSUME NEW L \in Seq(OutLines), L # <<>>, NEW on, Tells(L, on)
    PROVE  /\ Tells(Tail(L), on)
           /\ Head(L).type = "request" => (OnlyRows(Tail(L)) => OnlyRows(L))
           /\ Head(L).type # "request" => (OnlyRows(Tail(L)) => Head(L).on = on)
  <1> DEFINE M == Tail(L)
             n == Len(L)
  <1>1. n \in Nat \ {0} /\ Len(M) = n - 1 /\ Head(L) = L[1] /\ \A i \in 1..n - 1 : M[i] = L[i + 1]
    OBVIOUS
  <1> HIDE DEF M
  <1>2. \A i \in 1..n - 1 : i + 1 \in 1..n
    BY <1>1
  <1>3. \A i \in 1..n : i # 1 => i - 1 \in 1..n - 1 /\ i = (i - 1) + 1
    BY <1>1
  <1>4. \A i \in 1..n : i # 1 => M[i - 1] = L[i] /\ i - 1 \in 1..n - 1
    BY <1>1, <1>3
  <1>5. Tells(M, on)
    <2> SUFFICES ASSUME NEW i \in 1..n - 1, M[i].type # "request",
                        \A j \in 1..n - 1 : j > i => M[j].type = "request"
                 PROVE  M[i].on = on
      BY <1>1 DEF Tells
    <2>1. L[i + 1].type # "request" /\ i + 1 \in 1..n
      BY <1>1, <1>2
    <2>2. ASSUME NEW j \in 1..n, j > i + 1 PROVE L[j].type = "request"
      <3>1. j # 1 /\ j - 1 > i
        BY <1>1, <2>2
      <3> QED
        BY <1>4, <3>1
    <2> QED
      BY <1>1, <2>1, <2>2 DEF Tells
  <1>6. OnlyRows(M) => \A i \in 1..n : i # 1 => L[i].type = "request"
    BY <1>1, <1>4 DEF OnlyRows
  <1>7. Head(L).type = "request" => (OnlyRows(M) => OnlyRows(L))
    BY <1>1, <1>6 DEF OnlyRows
  <1>8. ASSUME Head(L).type # "request", OnlyRows(M) PROVE Head(L).on = on
    <2>1. 1 \in 1..n /\ \A j \in 1..n : j > 1 => L[j].type = "request"
      BY <1>1, <1>6, <1>8
    <2> QED
      BY <1>1, <1>8, <2>1 DEF Tells
  <1> QED
    BY <1>5, <1>7, <1>8 DEF M

\* The flag may have changed for the command at the head of stdin; the line
\* that says so is still to come.
InHand(e) == stdin[e] # <<>> /\ engineRecording[e] = Head(stdin[e])

\* What is shown, or will be when the lines are read, is what the engine does.
ButtonFollows ==
    \A e \in Engines :
        /\ \A i \in 1..Len(stdout[e]) : stdout[e][i].type = "ready" => stdout[e][i].on = TRUE
        /\ engine[e] # "serving" => engineRecording[e] = TRUE
        /\ engine[e] = "serving" /\ ~InHand(e) =>
              /\ Tells(stdout[e], engineRecording[e])
              /\ OnlyRows(stdout[e]) /\ ready = e => recording = engineRecording[e]

ButtonInv == ~timedOut => ButtonFollows

(* The button shows what the engine does, through any number of clicks and  *)
(* of engines, once the pipes are empty (sendControl, the state line).      *)
THEOREM ButtonIsTrue == Spec => []ButtonTellsTruth
  <1>1. Init => ButtonInv
    BY DEF Init, ButtonInv, ButtonFollows
  <1>2. TypeOK /\ NewestInv /\ ButtonInv /\ [Next]_vars => ButtonInv'
    <2> SUFFICES ASSUME TypeOK, NewestInv, ButtonInv, [Next]_vars, ~timedOut'
                 PROVE  ButtonFollows'
      BY DEF ButtonInv
    <2>0. OnlyTheNewest /\ ButtonFollows
      <3>1. ~timedOut
        BY DEF Next, Start, ResolveFails, Spawn, Timeout, StopSession, AppsStopped,
           StopDebuggingFails, SendControl, Clear, Launch, AppStarts, AppFails, AppEnds,
           SpawnError, ForceKill, ReadyLine, RequestRow, StateEvent, Deliver, Exit,
           EngineReady, EngineControl, EngineSets, EngineSays, EngineRow, EngineEnds,
           engineOnly, vars
      <3> QED
        BY <3>1 DEF NewestInv, ButtonInv
    <2>1. ASSUME UNCHANGED <<engine, engineRecording, stdin, stdout, recording, ready>>
          PROVE  ButtonFollows'
      BY <2>0, <2>1 DEF ButtonFollows, InHand
    <2>2. CASE \/ Start \/ ResolveFails \/ StopSession \/ AppsStopped \/ StopDebuggingFails
               \/ Clear
               \/ \E a \in Apps : Launch(a) \/ AppStarts(a) \/ AppFails(a) \/ AppEnds(a)
               \/ \E e \in Engines : ForceKill(e)
               \/ UNCHANGED vars
      BY <2>1, <2>2 DEF Start, ResolveFails, StopSession, AppsStopped, StopDebuggingFails,
         Clear, Launch, AppStarts, AppFails, AppEnds, ForceKill, vars, uiVars, engineVars
    <2>3. CASE Spawn
      <3>1. /\ ready = None /\ token + 1 \in Engines
            /\ \E stage \in {"booting", "failed"} : engine' = [engine EXCEPT ![token + 1] = stage]
            /\ UNCHANGED <<engineRecording, stdout, ready>>
        <4>1. token + 1 \in Engines
          BY <2>3, BoundsAssumption DEF Spawn, TypeOK, Engines
        <4> QED
          BY <2>0, <2>3, <4>1 DEF Spawn, OnlyTheNewest
      <3>2. engine[token + 1] = "none"
        <4>1. token \in Nat
          BY BoundsAssumption DEF TypeOK
        <4> QED
          BY <2>0, <3>1, <4>1 DEF OnlyTheNewest
      <3>3. \A e \in Engines : engine[e] # "serving"
        BY <2>0, <2>3, <3>1, EngineFacts DEF OnlyTheNewest, Spawn
      <3>4. \A e \in Engines : engine'[e] # "serving"
        BY <3>1, <3>3 DEF TypeOK
      <3> QED
        BY <2>0, <3>1, <3>3, <3>4 DEF ButtonFollows
    <2>4. CASE Timeout
      BY <2>4 DEF Timeout
    <2>8. ASSUME NEW click \in BOOLEAN, SendControl(click) PROVE ButtonFollows'
      <3>1. UNCHANGED <<engine, engineRecording, stdout, recording, ready>>
        BY <2>8 DEF SendControl, uiVars
      <3>2. \A e \in Engines : InHand(e) => InHand(e)'
        <4>1. stdin' = stdin \/ \E e \in Engines : stdin' = [stdin EXCEPT ![e] = Append(@, click)]
          BY <2>8 DEF SendControl, TypeOK
        <4>2. \A e \in Engines : stdin[e] \in Seq(BOOLEAN)
          BY DEF TypeOK
        <4>3. \A Q \in Seq(BOOLEAN) : Q # <<>> =>
                  Append(Q, click) # <<>> /\ Head(Append(Q, click)) = Head(Q)
          BY <2>8
        <4> QED
          BY <3>1, <4>1, <4>2, <4>3 DEF InHand, TypeOK
      <3> QED
        BY <2>0, <3>1, <3>2 DEF ButtonFollows
    <2>5. ASSUME NEW e \in Engines, SpawnError(e) \/ Exit(e) \/ EngineEnds(e) PROVE ButtonFollows'
      <3>1. /\ \E stage \in {"gone", "dead"} : engine' = [engine EXCEPT ![e] = stage]
            /\ UNCHANGED stdout
        BY <2>5 DEF SpawnError, Exit, EngineEnds
      <3>2. \/ engine[e] # "serving" /\ UNCHANGED engineRecording
            \/ engineRecording' = [engineRecording EXCEPT ![e] = TRUE]
        BY <2>5 DEF SpawnError, Exit, EngineEnds
      <3>3. engine'[e] # "serving" /\ \A d \in Engines : d # e => engine'[d] = engine[d]
        BY <3>1 DEF TypeOK
      <3>6. \A d \in Engines : d # e => stdin'[d] = stdin[d]
        BY <2>5 DEF SpawnError, Exit, EngineEnds, TypeOK
      <3>4. engineRecording'[e] = TRUE /\ \A d \in Engines : d # e => engineRecording'[d] = engineRecording[d]
        <4>1. engine[e] # "serving" => engineRecording[e] = TRUE
          BY <2>0 DEF ButtonFollows
        <4> QED
          BY <3>2, <4>1 DEF TypeOK
      <3>5. \A d \in Engines : d # e /\ ready' = d => recording' = recording /\ ready = d
        BY <2>5, EngineFacts DEF SpawnError, Exit, EngineEnds, engineOnly, uiVars
      <3> QED
        BY <2>0, <3>1, <3>3, <3>4, <3>5, <3>6 DEF ButtonFollows, InHand
    <2>6. ASSUME NEW e \in Engines, ReadyLine(e) \/ RequestRow(e) \/ StateEvent(e)
          PROVE  ButtonFollows'
      <3> DEFINE L == stdout[e]
      <3>1. Deliver(e) /\ UNCHANGED <<engine, engineRecording, stdin>>
        BY <2>6 DEF ReadyLine, RequestRow, StateEvent, Deliver
      <3>2. /\ L \in Seq(OutLines) /\ L # <<>>
            /\ stdout'[e] = Tail(L)
            /\ \A d \in Engines : d # e => stdout'[d] = stdout[d]
        BY <3>1, Taken
      <3>3. e = token
        BY <2>0, <3>2 DEF OnlyTheNewest
      <3>4. /\ \A i \in 1..Len(L) : L[i].type = "ready" => L[i].on = TRUE
            /\ engine[e] = "serving" /\ ~InHand(e) =>
                  /\ Tells(L, engineRecording[e])
                  /\ OnlyRows(L) /\ ready = e => recording = engineRecording[e]
        BY <2>0 DEF ButtonFollows
      <3> HIDE DEF L
      <3>5. \A i \in 1..Len(Tail(L)) : Tail(L)[i].type = "ready" => Tail(L)[i].on = TRUE
        <4>1. \A i \in 1..Len(Tail(L)) : i + 1 \in 1..Len(L) /\ Tail(L)[i] = L[i + 1]
          BY <3>2
        <4> QED
          BY <3>4, <4>1
      <3>6. Head(L).type = "ready" => Head(L).on = TRUE
        <4>1. 1 \in 1..Len(L) /\ Head(L) = L[1]
          BY <3>2
        <4> QED
          BY <3>4, <4>1
      <3>7. \/ Head(L).type = "request" /\ UNCHANGED <<ready, recording>>
            \/ Head(L).type # "request" /\ recording' = Head(L).on
        BY <2>6, <3>6 DEF ReadyLine, RequestRow, StateEvent, L
      <3>8. engine[e] = "serving" /\ ~InHand(e) =>
                  /\ Tells(Tail(L), engineRecording[e])
                  /\ OnlyRows(Tail(L)) /\ ready' = e => recording' = engineRecording[e]
        <4> SUFFICES ASSUME engine[e] = "serving", ~InHand(e)
                     PROVE  /\ Tells(Tail(L), engineRecording[e])
                            /\ OnlyRows(Tail(L)) /\ ready' = e => recording' = engineRecording[e]
          OBVIOUS
        <4>1. Tells(L, engineRecording[e]) /\ (OnlyRows(L) /\ ready = e => recording = engineRecording[e])
          BY <3>4
        <4>2. /\ Tells(Tail(L), engineRecording[e])
              /\ Head(L).type = "request" => (OnlyRows(Tail(L)) => OnlyRows(L))
              /\ Head(L).type # "request" => (OnlyRows(Tail(L)) => Head(L).on = engineRecording[e])
          BY <3>2, <4>1, LineTaken
        <4> QED
          BY <3>7, <4>1, <4>2
      <3>9. \A d \in Engines : d # e => engine[d] # "serving"
        BY <2>0, <3>3 DEF OnlyTheNewest
      <3> QED
        BY <2>0, <3>1, <3>2, <3>5, <3>8, <3>9 DEF ButtonFollows, InHand
    <2>9. ASSUME NEW e \in Engines, EngineSets(e) PROVE ButtonFollows'
      <3>1. /\ engine[e] = "serving" /\ InHand(e)'
            /\ UNCHANGED <<engine, stdout, ready, recording>>
            /\ \A d \in Engines : d # e => engineRecording'[d] = engineRecording[d]
        BY <2>9 DEF EngineSets, InHand, TypeOK, engineOnly, uiVars
      <3>2. \A d \in Engines : d # e => engine[d] # "serving"
        BY <2>0, <3>1 DEF OnlyTheNewest
      <3> QED
        BY <2>0, <3>1, <3>2 DEF ButtonFollows
    <2>7. ASSUME NEW e \in Engines, EngineReady(e) \/ EngineSays(e) \/ EngineRow(e)
          PROVE  ButtonFollows'
      <3> DEFINE L == stdout[e]
                 on == engineRecording'[e]
      <3>1. L \in Seq(OutLines)
        BY DEF TypeOK, OutLines
      <3>2. PICK line \in OutLines :
                  /\ Write(e, line)
                  /\ line.type # "request" => line.on = on
                  /\ line.type = "request" => engine[e] = "serving" /\ UNCHANGED <<engineRecording, stdin>>
                  /\ line.type = "ready" => line.on = TRUE
        <4>1. CASE EngineReady(e)
          <5>1. Line("ready", TRUE) \in OutLines /\ Line("ready", TRUE).type = "ready"
                /\ Line("ready", TRUE).on = TRUE
            BY LineFacts DEF LineTypes
          <5>2. Write(e, Line("ready", TRUE)) /\ on = TRUE
            BY <2>0, <4>1 DEF EngineReady, ButtonFollows
          <5> QED
            BY <5>1, <5>2
        <4>2. CASE EngineSays(e)
          <5> DEFINE now == Head(stdin[e])
          <5>1. now \in BOOLEAN
            BY <4>2 DEF EngineSays, TypeOK
          <5>2. Line("state", now) \in OutLines /\ Line("state", now).type = "state"
                /\ Line("state", now).on = now
            BY <5>1, LineFacts DEF LineTypes
          <5>3. Write(e, Line("state", now)) /\ on = now
            BY <4>2 DEF EngineSays, TypeOK
          <5> HIDE DEF now, on
          <5> QED
            BY <5>2, <5>3
        <4>3. CASE EngineRow(e)
          <5>1. Line("request", TRUE) \in OutLines /\ Line("request", TRUE).type = "request"
            BY LineFacts DEF LineTypes
          <5>2. Write(e, Line("request", TRUE)) /\ engine[e] = "serving"
                /\ UNCHANGED <<engineRecording, stdin>>
            BY <4>3 DEF EngineRow
          <5> QED
            BY <5>1, <5>2
        <4> QED
          BY <2>7, <4>1, <4>2, <4>3
      <3>3. /\ stdout'[e] = Append(L, line)
            /\ \A d \in Engines : d # e => stdout'[d] = stdout[d]
        BY <3>2, Written
      <3>4. /\ engine[e] \in {"booting", "serving"} /\ engine'[e] = "serving"
            /\ \A d \in Engines : d # e => engine'[d] = engine[d] /\ engineRecording'[d] = engineRecording[d]
            /\ UNCHANGED <<ready, recording>>
        BY <2>7 DEF EngineReady, EngineSays, EngineRow, TypeOK, engineOnly, uiVars
      <3>5. \A d \in Engines : d # e => engine[d] # "serving"
        BY <2>0, <3>4 DEF OnlyTheNewest
      <3>6. /\ \A i \in 1..Len(L) : L[i].type = "ready" => L[i].on = TRUE
            /\ engine[e] = "serving" /\ ~InHand(e) =>
                  /\ Tells(L, engineRecording[e])
                  /\ OnlyRows(L) /\ ready = e => recording = engineRecording[e]
        BY <2>0 DEF ButtonFollows
      <3> HIDE DEF L, on
      <3>7. \A i \in 1..Len(Append(L, line)) :
                Append(L, line)[i].type = "ready" => Append(L, line)[i].on = TRUE
        <4>1. \A i \in 1..Len(Append(L, line)) :
                  \/ i \in 1..Len(L) /\ Append(L, line)[i] = L[i]
                  \/ Append(L, line)[i] = line
          BY <3>1
        <4> QED
          BY <3>2, <3>6, <4>1
      <3>8. ~InHand(e)' => /\ Tells(Append(L, line), on)
                           /\ OnlyRows(Append(L, line)) /\ ready = e => recording = on
        <4> SUFFICES ASSUME ~InHand(e)'
                     PROVE  /\ Tells(Append(L, line), on)
                            /\ OnlyRows(Append(L, line)) /\ ready = e => recording = on
          OBVIOUS
        <4>1. CASE line.type = "request"
          <5>1. on = engineRecording[e] /\ engine[e] = "serving" /\ ~InHand(e)
            BY <3>2, <4>1 DEF on, InHand
          <5>2. Tells(L, on) /\ (OnlyRows(L) /\ ready = e => recording = on)
            BY <3>6, <5>1
          <5>3. Tells(Append(L, line), on) /\ (OnlyRows(Append(L, line)) <=> OnlyRows(L))
            BY <3>1, <4>1, <5>2, LineAdded
          <5> QED
            BY <5>2, <5>3
        <4>2. CASE line.type # "request"
          BY <3>1, <3>2, <4>2, LineAdded
        <4> QED
          BY <4>1, <4>2
      <3> QED
        BY <2>0, <3>3, <3>4, <3>5, <3>7, <3>8 DEF ButtonFollows, on
    <2> QED
      BY <2>2, <2>3, <2>4, <2>5, <2>6, <2>7, <2>8, <2>9 DEF Next, EngineControl
  <1>3. ButtonInv => ButtonTellsTruth
    <2> SUFFICES ASSUME ButtonFollows, NEW e \in Engines, ready = e, engine[e] = "serving",
                        stdin[e] = <<>>, stdout[e] = <<>>
                 PROVE  recording = engineRecording[e]
      BY DEF ButtonInv, ButtonTellsTruth
    <2>1. OnlyRows(stdout[e])
      BY DEF OnlyRows
    <2> QED
      BY <2>1 DEF ButtonFollows, InHand
  <1> QED
    BY <1>1, <1>2, <1>3, TypeCorrect, NewestInvariant, PTL DEF Spec

-----------------------------------------------------------------------------
(* Closing an engine. *)

\* A start that is waiting waits for an engine nobody has been given yet, also
\* after a start that timed out.
FreshWhileWaiting ==
    /\ process \in {None, token}
    /\ ready <= token /\ \A a \in Apps : env[a].proxy <= token
    /\ \A e \in Engines : e > token => stdout[e] = <<>> /\ ~Alive(e)
    /\ starting = "waiting" => /\ token > 0 /\ ready # token
                               /\ \A a \in Apps : env[a].proxy # token

LEMMA FreshInvariant == Spec => []FreshWhileWaiting
  <1>1. Init => FreshWhileWaiting
    BY DEF Init, FreshWhileWaiting, NoEnv, None, Alive
  <1>2. TypeOK /\ FreshWhileWaiting /\ [Next]_vars => FreshWhileWaiting'
    <2> SUFFICES ASSUME TypeOK, FreshWhileWaiting, [Next]_vars PROVE FreshWhileWaiting'
      OBVIOUS
    <2>0. /\ token \in Nat /\ process \in Nat /\ ready \in Nat
          /\ \A a \in Apps : env[a].proxy \in Nat
      BY BoundsAssumption, EngineFacts DEF TypeOK, None
    <2>1. ASSUME UNCHANGED <<token, env, engine, stdout>>, process' \in {None, process},
                 ready' \in {None, ready}, starting' = "waiting" => starting = "waiting"
          PROVE  FreshWhileWaiting'
      BY <2>0, <2>1 DEF FreshWhileWaiting, Alive, None
    <2>2. CASE \/ Start \/ ResolveFails \/ Timeout \/ StopSession \/ AppsStopped
               \/ StopDebuggingFails \/ Clear \/ (\E on \in BOOLEAN : SendControl(on))
               \/ (\E a \in Apps : AppStarts(a)) \/ (\E e \in Engines : ForceKill(e))
               \/ UNCHANGED vars
      <3>1. UNCHANGED <<token, env, engine, stdout, ready>>
        BY <2>2 DEF Start, ResolveFails, Timeout, StopSession, AppsStopped,
           StopDebuggingFails, Clear, SendControl, AppStarts, ForceKill, Reject,
           vars, uiVars, appVars, engineVars
      <3>2. process' \in {None, process}
        BY <2>2 DEF Start, ResolveFails, Timeout, StopSession, AppsStopped,
           StopDebuggingFails, FinishStop, StopEngine, Clear, SendControl, AppStarts, ForceKill,
           vars, uiVars
      <3>3. starting' = "waiting" => starting = "waiting"
        BY <2>2 DEF Start, ResolveFails, Timeout, StopSession, AppsStopped,
           StopDebuggingFails, Clear, SendControl, AppStarts, ForceKill, Reject, vars
      <3> QED
        BY <2>1, <3>1, <3>2, <3>3
    <2>3. CASE Spawn
      <3>0. token + 1 \in Engines
        BY <2>3, BoundsAssumption DEF Spawn, TypeOK, Engines
      <3>1. token + 1 \in Engines /\ token' = token + 1 /\ process' = token + 1
            /\ UNCHANGED <<ready, env, stdout>>
            /\ \E stage \in {"booting", "failed"} : engine' = [engine EXCEPT ![token + 1] = stage]
        BY <2>3, <3>0 DEF Spawn, appVars
      <3>2. /\ token < token + 1 /\ token + 1 > 0
            /\ \A n \in Nat : n <= token => n <= token + 1 /\ n # token + 1
            /\ \A n \in Nat : n > token + 1 => n > token /\ n # token + 1
        BY <2>0
      <3>3. \A e \in Engines : e > token + 1 => stdout'[e] = <<>> /\ ~Alive(e)'
        BY <3>1, <3>2, EngineFacts DEF FreshWhileWaiting, Alive, TypeOK
      <3> QED
        BY <2>0, <3>1, <3>2, <3>3 DEF FreshWhileWaiting
    <2>4. ASSUME NEW a \in Apps, Launch(a) PROVE FreshWhileWaiting'
      <3>1. UNCHANGED <<token, process, ready, engine, stdout>>
        BY <2>4 DEF Launch, uiVars, engineVars
      <3>2. CASE ready = None
        BY <2>1, <2>4, <3>1, <3>2 DEF Launch
      <3>3. CASE ready # None
        <4>1. env' = [env EXCEPT ![a] = [proxy |-> ready, token |-> token]] /\ UNCHANGED starting
          BY <2>4, <3>3 DEF Launch
        <4>2. \A b \in Apps : env'[b].proxy \in {ready, env[b].proxy}
          BY <4>1 DEF TypeOK
        <4> QED
          BY <2>0, <3>1, <4>1, <4>2 DEF FreshWhileWaiting, Alive
      <3> QED
        BY <3>2, <3>3
    <2>5. ASSUME NEW a \in Apps, AppFails(a) \/ AppEnds(a) PROVE FreshWhileWaiting'
      <3>1. /\ UNCHANGED <<token, ready, starting, engine, stdout>>
            /\ env' = [env EXCEPT ![a] = NoEnv]
        BY <2>5 DEF AppFails, AppEnds, Ended, uiVars, engineVars
      <3>2. process' \in {None, process}
        BY <2>5 DEF AppFails, AppEnds, StopEngine, uiVars
      <3>3. \A b \in Apps : env'[b].proxy \in {0, env[b].proxy}
        BY <3>1 DEF TypeOK, NoEnv, None
      <3> QED
        BY <2>0, <3>1, <3>2, <3>3 DEF FreshWhileWaiting, Alive, None
    <2>6. ASSUME NEW e \in Engines, SpawnError(e) \/ Exit(e) \/ EngineEnds(e)
          PROVE  FreshWhileWaiting'
      <3>1. /\ UNCHANGED <<token, env, stdout>>
            /\ process' \in {None, process} /\ ready' \in {None, ready}
            /\ starting' \in {"no", starting}
            /\ \E stage \in {"gone", "dead"} : engine' = [engine EXCEPT ![e] = stage]
        BY <2>6 DEF SpawnError, Exit, EngineEnds, Reject, engineOnly, uiVars, appVars
      <3>2. \A d \in Engines : Alive(d)' => Alive(d)
        BY <3>1 DEF Alive, TypeOK
      <3> QED
        BY <2>0, <3>1, <3>2 DEF FreshWhileWaiting, None
    <2>7. ASSUME NEW e \in Engines, EngineReady(e) \/ EngineControl(e) \/ EngineRow(e)
          PROVE  FreshWhileWaiting'
      <3>1. /\ UNCHANGED <<token, env, process, ready, starting>>
            /\ engine' \in {engine, [engine EXCEPT ![e] = "serving"]}
            /\ Alive(e)
        BY <2>7 DEF EngineReady, EngineControl, EngineSets, EngineSays, EngineRow, engineOnly,
           uiVars, appVars, Alive
      <3>2. UNCHANGED stdout \/ \E line \in OutLines : Write(e, line)
        <4>1. EngineControl(e) => Head(stdin[e]) \in BOOLEAN
          BY DEF EngineControl, EngineSets, EngineSays, TypeOK
        <4> QED
          BY <2>7, <4>1, LineFacts DEF EngineReady, EngineControl, EngineSets, EngineSays,
             EngineRow, LineTypes
      <3>3. \A d \in Engines : d # e => stdout'[d] = stdout[d] /\ (Alive(d)' => Alive(d))
        BY <3>1, <3>2, Written DEF Alive, TypeOK
      <3>4. ~(e > token)
        BY <3>1 DEF FreshWhileWaiting
      <3> QED
        BY <3>1, <3>3, <3>4 DEF FreshWhileWaiting
    <2>8. ASSUME NEW e \in Engines, ReadyLine(e) \/ RequestRow(e) \/ StateEvent(e)
          PROVE  FreshWhileWaiting'
      <3>1. Deliver(e) /\ UNCHANGED <<token, process, engine>>
        BY <2>8 DEF ReadyLine, RequestRow, StateEvent, Deliver
      <3>2. stdout[e] # <<>> /\ \A d \in Engines : d # e => stdout'[d] = stdout[d]
        BY <3>1, Taken
      <3>3. ~(e > token)
        BY <3>2 DEF FreshWhileWaiting
      <3>4. \A d \in Engines : d > token => stdout'[d] = <<>> /\ ~Alive(d)'
        BY <3>1, <3>2, <3>3 DEF FreshWhileWaiting, Alive
      <3>5. e \in Nat /\ e <= token
        BY <2>0, <3>3, EngineFacts
      <3>6. CASE UNCHANGED <<ready, env, starting>>
        BY <3>1, <3>4, <3>6 DEF FreshWhileWaiting
      <3>7. CASE ~UNCHANGED <<ready, env, starting>>
        <4>1. /\ ready' = e
              /\ IF Pending(e)
                 THEN /\ starting' = "no"
                      /\ env' = [a \in Apps |-> IF app[a] = "waiting"
                                                THEN [proxy |-> e, token |-> token] ELSE env[a]]
                 ELSE UNCHANGED <<starting, env>>
          BY <2>8, <3>7 DEF ReadyLine, RequestRow, StateEvent
        <4>2. CASE Pending(e)
          BY <2>0, <3>1, <3>4, <3>5, <4>1, <4>2 DEF FreshWhileWaiting
        <4>3. CASE ~Pending(e)
          BY <2>0, <3>1, <3>4, <3>5, <4>1, <4>3 DEF FreshWhileWaiting, Pending
        <4> QED
          BY <4>2, <4>3
      <3> QED
        BY <3>6, <3>7
    <2> QED
      BY <2>2, <2>3, <2>4, <2>5, <2>6, <2>7, <2>8 DEF Next
  <1> QED
    BY <1>1, <1>2, TypeCorrect, PTL DEF Spec

(* No engine is closed under a tracked application, timeouts included, but  *)
(* for the one that starts while Stop Session awaits the others (stopEngine *)
(* and its three callers).                                                  *)
THEOREM ClosedUnderNone == Spec => NoEngineClosedUnderApp
  <1> DEFINE Fair == \A e \in asked' \ asked : \A a \in debugSessions :
                         app'[a] = "running" /\ env[a].proxy = e => stopping = "apps" /\ a \notin stopSet
  <1>1. TypeOK /\ FreshWhileWaiting /\ [Next]_vars => Fair
    <2> SUFFICES ASSUME TypeOK, FreshWhileWaiting, [Next]_vars, NEW e \in asked' \ asked,
                        NEW a \in debugSessions, app'[a] = "running", env[a].proxy = e
                 PROVE  stopping = "apps" /\ a \notin stopSet
      OBVIOUS
    <2>1. a \in Apps /\ app[a] = "running"
      BY DEF TypeOK
    <2>2. CASE Timeout
      <3>1. starting = "waiting" /\ asked' = asked \cup {process} /\ process # None
        BY <2>2 DEF Timeout, StopEngine
      <3>2. e = token
        BY <3>1 DEF FreshWhileWaiting
      <3> QED
        BY <2>1, <3>1, <3>2 DEF FreshWhileWaiting
    <2>3. CASE StopSession
      BY <2>3 DEF StopSession
    <2>4. CASE AppsStopped
      BY <2>1, <2>4 DEF AppsStopped, FinishStop
    <2>5. ASSUME NEW b \in Apps, AppEnds(b) PROVE FALSE
      <3>1. debugSessions' = debugSessions \ {b} /\ app' = [app EXCEPT ![b] = "ended"]
            /\ (asked' # asked => debugSessions' = {})
        BY <2>5 DEF AppEnds, Ended
      <3>2. a = b
        BY <3>1
      <3> QED
        BY <2>1, <3>1, <3>2 DEF TypeOK
    <2>6. ASSUME asked' = asked PROVE FALSE
      BY <2>6
    <2>7. CASE \/ Start \/ ResolveFails \/ Spawn \/ StopDebuggingFails \/ Clear
               \/ (\E on \in BOOLEAN : SendControl(on))
               \/ (\E b \in Apps : Launch(b) \/ AppStarts(b) \/ AppFails(b))
               \/ (\E d \in Engines : SpawnError(d) \/ ForceKill(d) \/ ReadyLine(d) \/ RequestRow(d)
                     \/ StateEvent(d) \/ Exit(d) \/ EngineReady(d) \/ EngineControl(d)
                     \/ EngineRow(d) \/ EngineEnds(d))
               \/ UNCHANGED vars
      BY <2>6, <2>7 DEF Start, ResolveFails, Spawn, StopDebuggingFails, Clear, SendControl, Launch,
         AppStarts, AppFails, SpawnError, ForceKill, ReadyLine, RequestRow, StateEvent, Deliver,
         Exit, EngineReady, EngineControl, EngineSets, EngineSays, EngineRow, EngineEnds,
         engineOnly, vars, closeVars
    <2> QED
      BY <2>2, <2>3, <2>4, <2>5, <2>7 DEF Next
  <1>2. TypeOK /\ FreshWhileWaiting /\ [Next]_vars => [Fair]_vars
    BY <1>1
  <1> QED
    BY <1>2, TypeCorrect, FreshInvariant, PTL DEF Spec, NoEngineClosedUnderApp

-----------------------------------------------------------------------------
(* Who waits, and for what. *)

\* A launch has the environment of an engine from the moment it is granted
\* until it is over, and what is awaited is under way.
WaitsAreOwed ==
    /\ \A a \in Apps :
          /\ app[a] = "waiting" => starting # "no"
          /\ app[a] \in {"idle", "waiting", "ended"} => env[a] = NoEnv
          /\ app[a] \in {"launching", "running"} => env[a].proxy # None
    /\ stopping = "apps" => \A a \in stopSet : app[a] \in {"running", "ended"}
    /\ stopping = "engine" => stopTarget \in closing

(* What stopEngine adds to the timers, and what it leaves there.            *)
LEMMA FinishOwed ==
    ASSUME TypeOK, WaitsAreOwed, FinishStop, UNCHANGED <<starting, app, env>>
    PROVE  WaitsAreOwed'
  <1>1. stopping' # "apps" /\ (stopping' = "engine" => process # None /\ stopTarget' = process)
    BY DEF FinishStop
  <1>2. process # None => process \in closing'
    BY DEF FinishStop, StopEngine
  <1> QED
    BY <1>1, <1>2 DEF WaitsAreOwed

LEMMA OwedInvariant == Spec => []WaitsAreOwed
  <1>1. Init => WaitsAreOwed
    BY DEF Init, WaitsAreOwed
  <1>2. TypeOK /\ WaitsAreOwed /\ [Next]_vars => WaitsAreOwed'
    <2> SUFFICES ASSUME TypeOK, WaitsAreOwed, [Next]_vars PROVE WaitsAreOwed'
      OBVIOUS
    <2>0. /\ app \in [Apps -> AppStages] /\ debugSessions \subseteq {a \in Apps : app[a] = "running"}
          /\ env \in [Apps -> [proxy : 0..MaxEngines, token : 0..MaxEngines]]
          /\ stopSet \subseteq Apps
      BY DEF TypeOK
    \* A step of the launches alone, none of which begins to wait in vain.
    <2>1. ASSUME UNCHANGED <<stopping, stopSet, stopTarget>>, closing \subseteq closing',
                 starting = starting' \/ starting' # "no" \/ \A a \in Apps : app'[a] # "waiting",
                 \A a \in Apps : \/ app'[a] = app[a] /\ env'[a] = env[a]
                                 \/ /\ app[a] \in {"idle", "waiting", "ended"} /\ app'[a] = "ended"
                                    /\ env'[a] = env[a]
                                 \/ /\ app[a] \in {"idle", "waiting"} /\ app'[a] = "launching"
                                    /\ env'[a].proxy # None
                                 \/ app[a] = "launching" /\ app'[a] = "running" /\ env'[a] = env[a]
                                 \/ app'[a] = "ended" /\ env'[a] = NoEnv
          PROVE  WaitsAreOwed'
      BY <2>0, <2>1 DEF WaitsAreOwed
    <2>2. ASSUME Reject, UNCHANGED <<stopping, stopSet, stopTarget>>, closing \subseteq closing'
          PROVE  WaitsAreOwed'
      <3>1. \A a \in Apps : \/ app'[a] = app[a] /\ env'[a] = env[a] /\ app'[a] # "waiting"
                            \/ app[a] = "waiting" /\ app'[a] = "ended" /\ env'[a] = env[a]
        BY <2>0, <2>2 DEF Reject
      <3> QED
        BY <2>1, <2>2, <3>1
    <2>3. ASSUME UNCHANGED <<starting, stopping, stopSet, stopTarget, app, env>>, closing \subseteq closing'
          PROVE  WaitsAreOwed'
      BY <2>3 DEF WaitsAreOwed
    <2>4. CASE Start \/ Spawn
      <3>1. /\ starting' \in {"resolving", "waiting"}
            /\ UNCHANGED <<stopping, stopSet, stopTarget, closing, app, env>>
        BY <2>4 DEF Start, Spawn, stopVars, closeVars, appVars
      <3> QED
        BY <3>1 DEF WaitsAreOwed
    <2>5. CASE ResolveFails
      BY <2>2, <2>5 DEF ResolveFails, stopVars, closeVars
    <2>6. CASE Timeout
      <3>1. Reject /\ UNCHANGED <<stopping, stopSet, stopTarget>> /\ closing \subseteq closing'
        BY <2>6 DEF Timeout, StopEngine, stopVars
      <3> QED
        BY <2>2, <3>1
    <2>7. CASE StopSession
      <3>1. UNCHANGED <<starting, app, env>>
        BY <2>7 DEF StopSession
      <3>2. CASE debugSessions # {}
        <4>1. stopping' = "apps" /\ stopSet' = debugSessions
          BY <2>7, <3>2 DEF StopSession
        <4> QED
          BY <2>0, <3>1, <4>1 DEF WaitsAreOwed
      <3>3. CASE debugSessions = {}
        BY <2>7, <3>1, <3>3, FinishOwed DEF StopSession
      <3> QED
        BY <3>2, <3>3
    <2>8. CASE AppsStopped
      BY <2>8, FinishOwed DEF AppsStopped
    <2>9. CASE StopDebuggingFails
      <3>1. stopping' = "no" /\ UNCHANGED <<starting, app, env>>
        BY <2>9 DEF StopDebuggingFails, appVars
      <3> QED
        BY <3>1 DEF WaitsAreOwed
    <2>10. ASSUME NEW a \in Apps, Launch(a) PROVE WaitsAreOwed'
      <3>0. UNCHANGED <<stopping, stopSet, stopTarget, closing>> /\ app[a] = "idle"
        BY <2>10 DEF Launch, stopVars, closeVars
      <3>1. CASE ready # None
        <4>1. /\ app' = [app EXCEPT ![a] = "launching"] /\ UNCHANGED starting
              /\ env' = [env EXCEPT ![a] = [proxy |-> ready, token |-> token]]
          BY <2>10, <3>1 DEF Launch
        <4>2. env'[a].proxy # None /\ \A b \in Apps : b # a => env'[b] = env[b]
          BY <2>0, <3>1, <4>1
        <4> QED
          BY <2>0, <2>1, <3>0, <4>1, <4>2
      <3>2. CASE ready = None
        <4>1. /\ app' = [app EXCEPT ![a] = "waiting"] /\ UNCHANGED env
              /\ starting' = IF starting = "no" THEN "resolving" ELSE starting
          BY <2>10, <3>2 DEF Launch
        <4>2. starting' # "no" /\ app'[a] = "waiting" /\ \A b \in Apps : b # a => app'[b] = app[b]
          BY <2>0, <4>1
        <4>3. stopping = "apps" => a \notin stopSet
          BY <3>0 DEF WaitsAreOwed
        <4> QED
          BY <2>0, <3>0, <4>1, <4>2, <4>3 DEF WaitsAreOwed
      <3> QED
        BY <3>1, <3>2
    <2>11. ASSUME NEW a \in Apps, AppStarts(a) PROVE WaitsAreOwed'
      <3>1. /\ app[a] = "launching" /\ app' = [app EXCEPT ![a] = "running"]
            /\ UNCHANGED <<starting, stopping, stopSet, stopTarget, closing, env>>
        BY <2>11 DEF AppStarts, stopVars, closeVars
      <3> QED
        BY <2>0, <2>1, <3>1
    <2>12. ASSUME NEW a \in Apps, AppFails(a) \/ AppEnds(a) PROVE WaitsAreOwed'
      <3>1. /\ app' = [app EXCEPT ![a] = "ended"] /\ env' = [env EXCEPT ![a] = NoEnv]
            /\ UNCHANGED <<starting, stopping, stopSet, stopTarget>> /\ closing \subseteq closing'
        BY <2>12 DEF AppFails, AppEnds, Ended, StopEngine, stopVars, closeVars
      <3>2. \A b \in Apps : \/ app'[b] = app[b] /\ env'[b] = env[b]
                            \/ app'[b] = "ended" /\ env'[b] = NoEnv
        BY <2>0, <3>1
      <3> QED
        BY <2>1, <3>1, <3>2
    <2>13. ASSUME NEW e \in Engines, ReadyLine(e) PROVE WaitsAreOwed'
      <3>1. UNCHANGED <<stopping, stopSet, stopTarget, closing>>
        BY <2>13 DEF ReadyLine, Deliver, stopVars, closeVars
      <3>2. CASE UNCHANGED <<starting, app, env>>
        BY <2>3, <3>1, <3>2
      <3>3. CASE /\ starting' = "no"
                 /\ app' = [a \in Apps |-> IF app[a] = "waiting" THEN "launching" ELSE app[a]]
                 /\ env' = [a \in Apps |-> IF app[a] = "waiting"
                                           THEN [proxy |-> e, token |-> token] ELSE env[a]]
        <4>1. \A a \in Apps : \/ app'[a] = app[a] /\ env'[a] = env[a] /\ app'[a] # "waiting"
                              \/ app[a] = "waiting" /\ app'[a] = "launching" /\ env'[a].proxy # None
          BY <3>3, EngineFacts
        <4> QED
          BY <2>1, <3>1, <4>1
      <3> QED
        BY <2>13, <3>2, <3>3 DEF ReadyLine
    <2>14. ASSUME NEW e \in Engines, ForceKill(e) PROVE WaitsAreOwed'
      <3>1. UNCHANGED <<starting, stopSet, app, env>> /\ Released(e)
        BY <2>14 DEF ForceKill, appVars
      <3>2. stopping' = "engine" => stopTarget' \in closing'
        BY <3>1 DEF Released, WaitsAreOwed
      <3>3. stopping' = "apps" => stopping = "apps"
        BY <3>1 DEF Released
      <3> QED
        BY <3>1, <3>2, <3>3 DEF WaitsAreOwed
    <2>15. ASSUME NEW e \in Engines, Exit(e) PROVE WaitsAreOwed'
      <3>1. UNCHANGED stopSet /\ Released(e) /\ (Reject \/ UNCHANGED <<starting, app, env>>)
        BY <2>15 DEF Exit, appVars
      <3>2. stopping' = "engine" => stopTarget' \in closing'
        BY <3>1 DEF Released, WaitsAreOwed
      <3>3. stopping' = "apps" => stopping = "apps"
        BY <3>1 DEF Released
      <3>4. CASE UNCHANGED <<starting, app, env>>
        BY <3>1, <3>2, <3>3, <3>4 DEF WaitsAreOwed
      <3>5. CASE Reject
        <4>1. \A a \in Apps : /\ app'[a] # "waiting" /\ env'[a] = env[a]
                              /\ app'[a] = app[a] \/ (app[a] = "waiting" /\ app'[a] = "ended")
          BY <2>0, <3>5 DEF Reject
        <4>2. stopping' = "apps" => \A a \in stopSet' : app'[a] \in {"running", "ended"}
          BY <2>0, <3>1, <3>3, <4>1 DEF WaitsAreOwed
        <4> QED
          BY <3>2, <4>1, <4>2 DEF WaitsAreOwed
      <3> QED
        BY <3>1, <3>4, <3>5
    <2>16. ASSUME NEW e \in Engines, SpawnError(e) PROVE WaitsAreOwed'
      <3>1. /\ UNCHANGED <<stopping, stopSet, stopTarget, closing>>
            /\ Reject \/ UNCHANGED <<starting, app, env>>
        BY <2>16 DEF SpawnError, stopVars, closeVars, appVars
      <3> QED
        BY <2>2, <2>3, <3>1
    <2>17. CASE \/ Clear \/ (\E on \in BOOLEAN : SendControl(on)) \/ UNCHANGED vars
                \/ \E e \in Engines : RequestRow(e) \/ StateEvent(e) \/ EngineReady(e) \/ EngineControl(e)
                                      \/ EngineRow(e) \/ EngineEnds(e)
      BY <2>3, <2>17 DEF Clear, SendControl, RequestRow, StateEvent, Deliver, EngineReady,
         EngineControl, EngineSets, EngineSays, EngineRow, EngineEnds, engineOnly, vars, stopVars,
         closeVars, appVars
    <2> QED
      BY <2>4, <2>5, <2>6, <2>7, <2>8, <2>9, <2>10, <2>11, <2>12, <2>13, <2>14, <2>15, <2>16,
         <2>17 DEF Next
  <1> QED
    BY <1>1, <1>2, TypeCorrect, PTL DEF Spec

(***************************************************************************)
(* The safety halves of StartSettles and StopFinishes: a launch that       *)
(* awaits an engine awaits a start under way, which a timeout ends from    *)
(* the spawn on; Stop Session awaits debug sessions that run, or are over, *)
(* or an engine whose timer is still set.                                  *)
(***************************************************************************)
NobodyWaitsInVain ==
    /\ (\E a \in Apps : app[a] = "waiting") => starting # "no"
    /\ stopping = "apps" => \A a \in stopSet : app[a] \in {"running", "ended"}
    /\ stopping = "engine" => stopTarget \in closing

(* Whoever waits is waited for by a timer, a promise or a session (start,   *)
(* stopSession, stopEngine).                                                *)
THEOREM WaitsHaveAnEnd == Spec => []NobodyWaitsInVain
  <1>1. WaitsAreOwed => NobodyWaitsInVain
    BY DEF WaitsAreOwed, NobodyWaitsInVain
  <1> QED
    BY <1>1, OwedInvariant, PTL

-----------------------------------------------------------------------------
(* What the session promises: SessionContract. *)

Begun    == 1..token
Running  == {e \in Engines : Alive(e)}
Proxy    == [a \in Apps |-> env[a].proxy]

Contract == INSTANCE SessionContract WITH begun <- Begun, running <- Running, told <- asked, proxy <- Proxy

(* Up to the first start that times out, every step of the session is one   *)
(* of the contract, or none.                                                *)
LEMMA StepsKeepContract ==
    ASSUME TypeOK, NewestInv, WaitsAreOwed, [Next]_vars
    PROVE  timedOut' \/ Contract!Next \/ UNCHANGED Contract!vars
  <1> SUFFICES ASSUME ~timedOut' PROVE Contract!Next \/ UNCHANGED Contract!vars
    OBVIOUS
  <1>0. OnlyTheNewest
    <2>1. ~timedOut
      BY DEF Next, Start, ResolveFails, Spawn, Timeout, StopSession, AppsStopped,
         StopDebuggingFails, SendControl, Clear, Launch, AppStarts, AppFails, AppEnds,
         SpawnError, ForceKill, ReadyLine, RequestRow, StateEvent, Deliver, Exit,
         EngineReady, EngineControl, EngineSets, EngineSays, EngineRow, EngineEnds, engineOnly, vars
    <2> QED
      BY <2>1 DEF NewestInv
  <1>1. /\ token \in Nat /\ token \in 0..MaxEngines /\ Begun \subseteq Engines
        /\ engine \in [Engines -> EngineStages] /\ app \in [Apps -> AppStages]
        /\ env \in [Apps -> [proxy : 0..MaxEngines, token : 0..MaxEngines]]
        /\ debugSessions \subseteq Apps
    BY BoundsAssumption DEF TypeOK, Begun, Engines
  <1>2. /\ process # None => process \in Begun
        /\ ready # None => ready \in Begun
        /\ token \in Engines => token \in Begun
    <2>1. token # None => token \in 1..token
      BY <1>1 DEF None
    <2> QED
      BY <1>0, <2>1, EngineFacts DEF OnlyTheNewest, Begun
  <1>3. ASSUME UNCHANGED <<token, asked, env>>,
               UNCHANGED engine \/ \A e \in Engines : engine'[e] \in {"booting", "serving"} <=> Alive(e)
        PROVE  UNCHANGED Contract!vars
    <2>1. UNCHANGED Running
      BY <1>3 DEF Running, Alive
    <2> QED
      BY <1>3, <2>1 DEF Contract!vars, Begun, Proxy
  \* stopEngine alone.
  <1>4. ASSUME UNCHANGED <<token, engine, env>>, StopEngine PROVE Contract!Next \/ UNCHANGED Contract!vars
    <2>1. UNCHANGED <<Begun, Running, Proxy>>
      BY <1>4 DEF Begun, Running, Proxy, Alive
    <2>2. CASE process # None
      <3>1. Contract!Stop(process)
        BY <1>2, <1>4, <2>1, <2>2 DEF StopEngine, Contract!Stop, Contract!Tell
      <3> QED
        BY <1>1, <1>2, <2>2, <3>1 DEF Contract!Next
    <2>3. CASE process = None
      BY <1>3, <1>4, <2>3 DEF StopEngine
    <2> QED
      BY <2>2, <2>3
  \* Some launches get the proxy of an engine.
  <1>5. ASSUME UNCHANGED <<token, engine, asked>>, NEW e \in Begun, NEW W \in SUBSET Apps,
               \A a \in W : env[a].proxy = None,
               \A a \in Apps : env'[a].proxy = IF a \in W THEN e ELSE env[a].proxy
        PROVE  Contract!Next
    <2>1. UNCHANGED <<Begun, Running>>
      BY <1>5 DEF Begun, Running, Alive
    <2>2. /\ \A a \in W : Proxy[a] = None
          /\ Proxy' = [a \in Apps |-> IF a \in W THEN e ELSE Proxy[a]]
      BY <1>5 DEF Proxy
    <2>3. Contract!Give(W, e)
      BY <1>5, <2>1, <2>2 DEF Contract!Give
    <2> QED
      BY <1>1, <1>5, <2>3 DEF Contract!Next
  <1>6. ASSUME NEW a \in Apps, app[a] \in {"launching", "running"}, Ended(a), UNCHANGED <<token, engine>>,
               UNCHANGED asked \/ StopEngine
        PROVE  Contract!Next
    <2>1. UNCHANGED <<Begun, Running>>
      BY <1>6 DEF Begun, Running, Alive
    <2>2. env[a].proxy # None
      BY <1>6 DEF WaitsAreOwed
    <2>3. /\ env'[a].proxy = None
          /\ \A b \in Apps : b # a => env'[b] = env[b]
      BY <1>1, <1>6 DEF Ended, NoEnv
    <2>4. Proxy[a] # None /\ Proxy' = [Proxy EXCEPT ![a] = None]
      BY <2>2, <2>3 DEF Proxy
    <2>5. UNCHANGED asked \/ \E e \in Engines : Contract!Tell(e)
      BY <1>1, <1>2, <1>6 DEF StopEngine, Contract!Tell
    <2>6. Contract!Leave(a)
      BY <2>1, <2>4, <2>5 DEF Contract!Leave
    <2> QED
      BY <2>6 DEF Contract!Next
  <1>7. CASE Spawn
    <2>0. token + 1 \in Engines
      BY <1>1, <1>7, BoundsAssumption DEF Spawn, Engines
    <2>1. /\ starting = "resolving" /\ token' = token + 1 /\ token + 1 \in Engines
          /\ UNCHANGED <<asked, env>>
          /\ \E stage \in {"booting", "failed"} : engine' = [engine EXCEPT ![token + 1] = stage]
      BY <1>7, <2>0 DEF Spawn, closeVars, appVars
    <2>2. \A e \in Engines : engine[e] \in {"none", "gone"}
      BY <1>0, <1>1, <2>1, EngineFacts DEF OnlyTheNewest
    <2>3. Running = {}
      BY <2>2 DEF Running, Alive
    <2>4. Running' \in {{}, {token + 1}}
      <3>1. \A e \in Engines : e # token + 1 => engine'[e] \in {"none", "gone"}
        BY <1>1, <2>1, <2>2
      <3>2. CASE engine'[token + 1] \in {"booting", "serving"}
        <4>1. Running' = {token + 1}
          BY <2>1, <3>1, <3>2 DEF Running, Alive
        <4> QED
          BY <4>1
      <3>3. CASE engine'[token + 1] \notin {"booting", "serving"}
        <4>1. Running' = {}
          BY <2>1, <3>1, <3>3 DEF Running, Alive
        <4> QED
          BY <4>1
      <3> QED
        BY <3>2, <3>3
    <2>5. token + 1 \notin Begun /\ Begun' = Begun \cup {token + 1}
      BY <1>1, <2>1 DEF Begun
    <2>6. Contract!Begin(token + 1)
      BY <2>1, <2>3, <2>4, <2>5 DEF Contract!Begin, Proxy
    <2> QED
      BY <2>1, <2>6 DEF Contract!Next
  <1>8. CASE StopSession \/ AppsStopped
    <2>1. UNCHANGED <<token, engine, env>> /\ (StopEngine \/ UNCHANGED asked)
      BY <1>8 DEF StopSession, AppsStopped, FinishStop, engineVars
    <2> QED
      BY <1>3, <1>4, <2>1
  <1>9. ASSUME NEW a \in Apps, Launch(a) PROVE Contract!Next \/ UNCHANGED Contract!vars
    <2>1. UNCHANGED <<token, engine, asked>> /\ app[a] = "idle"
      BY <1>9 DEF Launch, uiVars, closeVars, engineVars
    <2>2. CASE UNCHANGED env
      BY <1>3, <2>1, <2>2
    <2>3. CASE ready # None /\ env' = [env EXCEPT ![a] = [proxy |-> ready, token |-> token]]
      <3>1. env[a].proxy = None
        BY <2>1 DEF WaitsAreOwed, NoEnv
      <3>2. \A b \in Apps : env'[b].proxy = IF b \in {a} THEN ready ELSE env[b].proxy
        BY <1>1, <2>3
      <3> QED
        BY <1>2, <1>5, <2>1, <2>3, <3>1, <3>2
    <2> QED
      BY <1>9, <2>2, <2>3 DEF Launch
  <1>10. ASSUME NEW a \in Apps, AppFails(a) \/ AppEnds(a) PROVE Contract!Next
    <2>1. /\ app[a] \in {"launching", "running"} /\ Ended(a) /\ UNCHANGED <<token, engine>>
          /\ UNCHANGED asked \/ StopEngine
      BY <1>10 DEF AppFails, AppEnds, uiVars, closeVars, engineVars
    <2> QED
      BY <1>6, <2>1
  <1>11. ASSUME NEW e \in Engines, ReadyLine(e) PROVE Contract!Next \/ UNCHANGED Contract!vars
    <2>1. UNCHANGED <<token, engine, asked>>
      BY <1>11 DEF ReadyLine, Deliver, closeVars
    <2>2. CASE UNCHANGED env
      BY <1>3, <2>1, <2>2
    <2>3. CASE Pending(e) /\ env' = [a \in Apps |-> IF app[a] = "waiting"
                                                    THEN [proxy |-> e, token |-> token] ELSE env[a]]
      <3> DEFINE W == {a \in Apps : app[a] = "waiting"}
      <3>1. \A a \in W : env[a].proxy = None
        BY DEF WaitsAreOwed, NoEnv
      <3>2. \A a \in Apps : env'[a].proxy = IF a \in W THEN e ELSE env[a].proxy
        BY <2>3
      <3>3. e \in Begun
        BY <1>2, <2>3 DEF Pending
      <3> QED
        BY <1>5, <2>1, <3>1, <3>2, <3>3
    <2> QED
      BY <1>11, <2>2, <2>3 DEF ReadyLine
  <1>12. ASSUME NEW e \in Engines, EngineEnds(e) PROVE Contract!Next
    <2>1. /\ Alive(e) /\ engine' = [engine EXCEPT ![e] = "dead"] /\ UNCHANGED <<token, asked, env>>
      BY <1>12 DEF EngineEnds, engineOnly, uiVars, closeVars, appVars
    <2>2. \A d \in Engines : Alive(d) => d = token
      BY <1>0 DEF OnlyTheNewest, Alive
    <2>3. Running = {e} /\ Running' = {}
      BY <1>1, <2>1, <2>2 DEF Running, Alive
    <2>4. Contract!End(e)
      BY <2>1, <2>3 DEF Contract!End, Begun, Proxy
    <2> QED
      BY <2>4 DEF Contract!Next
  <1>13. ASSUME NEW e \in Engines, SpawnError(e) \/ Exit(e) \/ EngineReady(e)
         PROVE  UNCHANGED Contract!vars
    <2>1. /\ UNCHANGED <<token, asked, env>>
          /\ \/ engine[e] = "failed" /\ engine' = [engine EXCEPT ![e] = "gone"]
             \/ engine[e] = "dead" /\ engine' = [engine EXCEPT ![e] = "gone"]
             \/ engine[e] = "booting" /\ engine' = [engine EXCEPT ![e] = "serving"]
      BY <1>13 DEF SpawnError, Exit, EngineReady, Reject, engineOnly, uiVars, closeVars, appVars
    <2>2. \A d \in Engines : engine'[d] \in {"booting", "serving"} <=> Alive(d)
      BY <1>1, <2>1 DEF Alive
    <2> QED
      BY <1>3, <2>1, <2>2
  <1>14. CASE \/ Start \/ ResolveFails \/ StopDebuggingFails \/ Clear
              \/ (\E on \in BOOLEAN : SendControl(on)) \/ UNCHANGED vars
              \/ \E a \in Apps : AppStarts(a)
              \/ \E e \in Engines : \/ ForceKill(e) \/ RequestRow(e) \/ StateEvent(e)
                                   \/ EngineControl(e) \/ EngineRow(e)
    BY <1>3, <1>14 DEF Start, ResolveFails, Reject, StopDebuggingFails, Clear, SendControl,
       AppStarts, ForceKill, RequestRow, StateEvent, Deliver, EngineControl, EngineSets, EngineSays,
       EngineRow, engineOnly, vars, uiVars,
       closeVars, appVars, engineVars
  <1>15. ~Timeout
    BY DEF Timeout
  <1> QED
    BY <1>7, <1>8, <1>9, <1>10, <1>11, <1>12, <1>13, <1>14, <1>15 DEF Next

(***************************************************************************)
(* The promises, tokens and callbacks of session.ts implement the same     *)
(* contract as the threads of CaptureSession.java: in every behaviour in   *)
(* which no start times out, and, were one to, up to that step             *)
(* (StepsKeepContract).                                                    *)
(***************************************************************************)
THEOREM SessionKeepsContract == Spec /\ []~timedOut => Contract!Spec
  <1>1. Init => Contract!Init
    BY DEF Init, Contract!Init, Begun, Running, Proxy, Alive, NoEnv, None
  <1>2. TypeOK /\ NewestInv /\ WaitsAreOwed /\ [Next]_vars /\ ~timedOut' => [Contract!Next]_(Contract!vars)
    BY StepsKeepContract
  <1> QED
    BY <1>1, <1>2, TypeCorrect, NewestInvariant, OwedInvariant, PTL DEF Spec, Contract!Spec
=============================================================================
