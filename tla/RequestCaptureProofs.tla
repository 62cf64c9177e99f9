------------------------- MODULE RequestCaptureProofs -------------------------
(***************************************************************************)
(* Machine-checked proofs about RequestCapture, for any number of          *)
(* requests, commands and errors and any capacity of the pipe.             *)
(***************************************************************************)
EXTENDS RequestCapture, FiniteSetTheorems, TLAPS

(* The lines, and what tells them apart.                                   *)
LEMMA LineFacts ==
    /\ \A i \in Nat, r \in Requests :
          /\ RequestLine(i, r) \in Lines
          /\ RequestLine(i, r).type = "request"
          /\ RequestLine(i, r).req = r
          /\ RequestLine(i, r).id = i
    /\ \A on \in BOOLEAN :
          /\ StateLine(on) \in Lines
          /\ StateLine(on).type = "state"
          /\ StateLine(on).recording = on
    /\ \A k \in Keys :
          /\ DiagnosticLine(k) \in Lines
          /\ DiagnosticLine(k).type = "diagnostic"
          /\ DiagnosticLine(k).key = k
    /\ ErrorLine \in Lines /\ ErrorLine.type = "error"
  <1>1. \A i \in Nat, r \in Requests :
          /\ RequestLine(i, r) \in Lines
          /\ RequestLine(i, r).type = "request"
          /\ RequestLine(i, r).req = r
          /\ RequestLine(i, r).id = i
    BY DEF RequestLine, Lines
  <1>2. \A on \in BOOLEAN :
          /\ StateLine(on) \in Lines
          /\ StateLine(on).type = "state"
          /\ StateLine(on).recording = on
    BY DEF StateLine, Lines
  <1>3. \A k \in Keys :
          /\ DiagnosticLine(k) \in Lines
          /\ DiagnosticLine(k).type = "diagnostic"
          /\ DiagnosticLine(k).key = k
    BY DEF DiagnosticLine, Lines
  <1>4. ErrorLine \in Lines /\ ErrorLine.type = "error"
    BY DEF ErrorLine, Lines
  <1> QED
    BY <1>1, <1>2, <1>3, <1>4

(* A line that is written takes the next position and moves no other.      *)
LEMMA Written ==
    ASSUME out \in Seq(Lines), NEW line \in Lines, Put(line)
    PROVE  /\ out' \in Seq(Lines)
           /\ Len(out) \in Nat
           /\ Len(out) + 1 \notin DOMAIN out
           /\ DOMAIN out' = DOMAIN out \cup {Len(out) + 1}
           /\ \A i \in DOMAIN out : i \in Nat /\ i < Len(out) + 1 /\ out'[i] = out[i]
           /\ out'[Len(out) + 1] = line
  BY DEF Put

LEMMA PositionsGrow ==
    ASSUME out \in Seq(Lines), NEW line \in Lines, Put(line), NEW type
    PROVE  Positions(type)' = IF line.type = type THEN Positions(type) \cup {Len(out) + 1}
                              ELSE Positions(type)
  BY Written DEF Positions

LEMMA RowsGrow ==
    ASSUME out \in Seq(Lines), NEW line \in Lines, Put(line), NEW r
    PROVE  Rows(r)' = IF line.type = "request" /\ line.req = r THEN Rows(r) \cup {Len(out) + 1}
                      ELSE Rows(r)
  <1>1. Positions("request")' = IF line.type = "request" THEN Positions("request") \cup {Len(out) + 1}
                                ELSE Positions("request")
    BY PositionsGrow
  <1>2. Positions("request") \subseteq DOMAIN out
    BY DEF Positions
  <1> QED
    BY <1>1, <1>2, Written DEF Rows

LEMMA DiagnosedGrow ==
    ASSUME out \in Seq(Lines), NEW line \in Lines, Put(line), NEW k
    PROVE  Diagnosed(k)' = IF line.type = "diagnostic" /\ line.key = k
                           THEN Diagnosed(k) \cup {Len(out) + 1} ELSE Diagnosed(k)
  <1>1. Positions("diagnostic")' = IF line.type = "diagnostic"
                                   THEN Positions("diagnostic") \cup {Len(out) + 1}
                                   ELSE Positions("diagnostic")
    BY PositionsGrow
  <1>2. Positions("diagnostic") \subseteq DOMAIN out
    BY DEF Positions
  <1> QED
    BY <1>1, <1>2, Written DEF Diagnosed

-----------------------------------------------------------------------------
(* Every variable keeps its shape: stages, lines, counters (all of Next).   *)
THEOREM TypeCorrect == Spec => []TypeOK
  <1> USE BoundsAssumption
  <1>1. Init => TypeOK
    BY DEF Init, TypeOK, Stages, Outcomes
  <1>2. TypeOK /\ [Next]_vars => TypeOK'
    <2> SUFFICES ASSUME TypeOK, [Next]_vars PROVE TypeOK'
      OBVIOUS
    <2> USE DEF TypeOK, Stages, Outcomes, Goto, handlerVars, emitterVars, controlVars,
                errorVars, historyVars
    <2>1. ASSUME NEW r \in Requests, Start(r) PROVE TypeOK'
      BY <2>1 DEF Start
    <2>2. ASSUME NEW r \in Requests, Answer(r) PROVE TypeOK'
      BY <2>2 DEF Answer
    <2>3. ASSUME NEW r \in Requests, Fail(r) PROVE TypeOK'
      BY <2>3 DEF Fail, Keys
    <2>4. ASSUME NEW r \in Requests, EmitDiagnostic(r) PROVE TypeOK'
      BY <2>4, LineFacts, Written DEF EmitDiagnostic, Put
    <2>5. ASSUME NEW r \in Requests, Emit(r) PROVE TypeOK'
      BY <2>5 DEF Emit
    <2>6. ASSUME NEW r \in Requests, WriteRow(r) PROVE TypeOK'
      BY <2>6, LineFacts, Written DEF WriteRow, Put
    <2>7. CASE RaiseError
      BY <2>7 DEF RaiseError
    <2>8. CASE WriteError
      BY <2>8, LineFacts, Written DEF WriteError, Put
    <2>9. ASSUME NEW on \in BOOLEAN, SetRecording(on) PROVE TypeOK'
      BY <2>9 DEF SetRecording
    <2>10. CASE EmitState
      <3>1. StateLine(control = "resumed") \in Lines
        BY LineFacts
      <3> QED
        BY <2>10, <3>1, Written DEF EmitState, Put
    <2>11. CASE ReadLine
      BY <2>11 DEF ReadLine
    <2>12. CASE UNCHANGED vars
      BY <2>12 DEF vars
    <2> QED
      BY <2>1, <2>2, <2>3, <2>4, <2>5, <2>6, <2>7, <2>8, <2>9, <2>10, <2>11, <2>12 DEF Next
  <1> QED
    BY <1>1, <1>2, PTL DEF Spec

-----------------------------------------------------------------------------
(* The state line. *)

\* A command whose state line is still owed has set the flag it will tell.
StateIsOwed ==
    /\ StateLineTellsTruth
    /\ control = "resumed" => recording = TRUE
    /\ control = "paused"  => recording = FALSE

LEMMA StateKept ==
    ASSUME TypeOK, StateIsOwed, UNCHANGED <<control, recording>>,
           NEW line \in Lines, Put(line), line.type # "state"
    PROVE  StateIsOwed'
  <1>1. Positions("state")' = Positions("state")
    BY PositionsGrow DEF TypeOK
  <1>2. \A i \in Positions("state") : out'[i] = out[i]
    BY Written DEF TypeOK, Positions
  <1> QED
    BY <1>1, <1>2 DEF StateIsOwed, StateLineTellsTruth

(* The last state line of an acknowledged session is the engine's flag, for *)
(* any number of commands and any interleaving with rows (EmitState).       *)
THEOREM StateLineIsTrue == Spec => []StateLineTellsTruth
  <1>1. Init => StateIsOwed
    BY DEF Init, StateIsOwed, StateLineTellsTruth, Positions
  <1>2. TypeOK /\ StateIsOwed /\ [Next]_vars => StateIsOwed'
    <2> SUFFICES ASSUME TypeOK, StateIsOwed, [Next]_vars PROVE StateIsOwed'
      OBVIOUS
    <2>1. ASSUME UNCHANGED <<out, control, recording>> PROVE StateIsOwed'
      BY <2>1 DEF StateIsOwed, StateLineTellsTruth, Positions
    <2>2. ASSUME NEW r \in Requests, EmitDiagnostic(r) PROVE StateIsOwed'
      <3>1. toDiagnose[r] \in Keys
        BY <2>2 DEF EmitDiagnostic, TypeOK
      <3>2. DiagnosticLine(toDiagnose[r]) \in Lines /\ DiagnosticLine(toDiagnose[r]).type # "state"
        BY <3>1, LineFacts
      <3> QED
        BY <2>2, <3>2, StateKept DEF EmitDiagnostic, controlVars
    <2>3. ASSUME NEW r \in Requests, WriteRow(r) PROVE StateIsOwed'
      <3>1. CASE Wanted(r)
        <4>1. RequestLine(nextID + 1, r) \in Lines /\ RequestLine(nextID + 1, r).type # "state"
          BY LineFacts DEF TypeOK
        <4>2. Put(RequestLine(nextID + 1, r))
          BY <2>3, <3>1 DEF WriteRow
        <4> QED
          BY <2>3, <4>1, <4>2, StateKept DEF WriteRow, controlVars
      <3>2. CASE ~Wanted(r)
        BY <2>1, <2>3, <3>2 DEF WriteRow, emitterVars, controlVars
      <3> QED
        BY <3>1, <3>2
    <2>4. CASE WriteError
      BY <2>4, LineFacts, StateKept DEF WriteError, controlVars
    <2>5. ASSUME NEW on \in BOOLEAN, SetRecording(on) PROVE StateIsOwed'
      BY <2>5 DEF SetRecording, StateIsOwed, StateLineTellsTruth
    <2>6. CASE EmitState
      <3> DEFINE line == StateLine(control = "resumed")
      <3>1. line \in Lines /\ line.type = "state" /\ line.recording = (control = "resumed")
        BY LineFacts
      <3>2. recording = (control = "resumed")
        BY <2>6 DEF EmitState, StateIsOwed, TypeOK
      <3>3. Put(line) /\ control' = "idle" /\ recording' = recording
        BY <2>6 DEF EmitState
      <3> HIDE DEF line
      <3>4. Positions("state")' = Positions("state") \cup {Len(out) + 1}
        BY <3>1, <3>3, PositionsGrow DEF TypeOK
      <3>5. /\ out'[Len(out) + 1] = line
            /\ Len(out) \in Nat
            /\ \A i \in Positions("state") : i \in Nat /\ i < Len(out) + 1
        BY <3>1, <3>3, Written DEF TypeOK, Positions
      <3>6. /\ Len(out) + 1 \in Positions("state")'
            /\ \A j \in Positions("state")' : j <= Len(out) + 1
        BY <3>4, <3>5
      <3>7. out'[Len(out) + 1].recording = recording'
        BY <3>1, <3>2, <3>3, <3>5
      <3> QED
        BY <3>3, <3>6, <3>7 DEF StateIsOwed, StateLineTellsTruth
    <2>7. CASE \/ \E r \in Requests : Start(r) \/ Answer(r) \/ Fail(r) \/ Emit(r)
               \/ RaiseError \/ ReadLine \/ UNCHANGED vars
      BY <2>1, <2>7 DEF Start, Answer, Fail, Emit, RaiseError, ReadLine, vars, emitterVars, controlVars
    <2> QED
      BY <2>2, <2>3, <2>4, <2>5, <2>6, <2>7 DEF Next
  <1>3. StateIsOwed => StateLineTellsTruth
    BY DEF StateIsOwed
  <1> QED
    BY <1>1, <1>2, <1>3, TypeCorrect, PTL DEF Spec

-----------------------------------------------------------------------------
(* Diagnostics. *)

(* However many handlers fail at once, a cause and host is diagnosed once,  *)
(* and never lost (emitDiagnosticOnce).                                     *)
THEOREM EachCauseOnce == Spec => []DiagnosedOnce
  <1>1. Init => DiagnosedOnce
    BY DEF Init, DiagnosedOnce, Diagnosed, Holders, Positions
  <1>2. TypeOK /\ DiagnosedOnce /\ [Next]_vars => DiagnosedOnce'
    <2> SUFFICES ASSUME TypeOK, DiagnosedOnce, [Next]_vars, NEW k \in Keys
                 PROVE  /\ \A i, j \in Diagnosed(k)' : i = j
                        /\ \A q, r \in Holders(k)' : q = r
                        /\ Diagnosed(k)' = {} \/ Holders(k)' = {}
                        /\ k \in diagnosticSeen' <=> Diagnosed(k)' # {} \/ Holders(k)' # {}
      BY DEF DiagnosedOnce
    <2> DEFINE Goal == /\ \A i, j \in Diagnosed(k)' : i = j
                       /\ \A q, r \in Holders(k)' : q = r
                       /\ Diagnosed(k)' = {} \/ Holders(k)' = {}
                       /\ k \in diagnosticSeen' <=> Diagnosed(k)' # {} \/ Holders(k)' # {}
    <2>0. /\ \A i, j \in Diagnosed(k) : i = j
          /\ \A q, r \in Holders(k) : q = r
          /\ Diagnosed(k) = {} \/ Holders(k) = {}
          /\ k \in diagnosticSeen <=> Diagnosed(k) # {} \/ Holders(k) # {}
      BY DEF DiagnosedOnce
    <2>1. ASSUME Diagnosed(k)' = Diagnosed(k), Holders(k)' = Holders(k),
                 k \in diagnosticSeen' <=> k \in diagnosticSeen
          PROVE  Goal
      BY <2>0, <2>1
    <2>2. ASSUME UNCHANGED out PROVE Diagnosed(k)' = Diagnosed(k)
      BY <2>2 DEF Diagnosed, Positions
    <2>3. ASSUME NEW line \in Lines, Put(line), line.type # "diagnostic"
          PROVE  Diagnosed(k)' = Diagnosed(k)
      BY <2>3, DiagnosedGrow DEF TypeOK
    <2>4. ASSUME NEW r \in Requests, NEW stage, Goto(r, stage), pc[r] # "diagnosing",
                 stage # "diagnosing", UNCHANGED toDiagnose
          PROVE  Holders(k)' = Holders(k)
      BY <2>4 DEF Goto, Holders, TypeOK
    <2>5. ASSUME UNCHANGED <<pc, toDiagnose>> PROVE Holders(k)' = Holders(k)
      BY <2>5 DEF Holders
    <2>6. ASSUME NEW r \in Requests, Start(r) \/ Answer(r) \/ Emit(r) PROVE Goal
      <3>1. Diagnosed(k)' = Diagnosed(k)
        BY <2>2, <2>6 DEF Start, Answer, Emit, emitterVars
      <3>2. \E stage : Goto(r, stage) /\ stage # "diagnosing" /\ pc[r] # "diagnosing" /\ UNCHANGED toDiagnose
        BY <2>6 DEF Start, Answer, Emit
      <3>3. Holders(k)' = Holders(k)
        BY <2>4, <3>2
      <3> QED
        BY <2>1, <2>6, <3>1, <3>3 DEF Start, Answer, Emit
    <2>7. ASSUME NEW r \in Requests, Fail(r) PROVE Goal
      <3>1. Diagnosed(k)' = Diagnosed(k)
        BY <2>2, <2>7 DEF Fail, emitterVars
      <3>2. PICK code \in Causes :
               LET key == [code |-> code, host |-> target[r]] IN
               IF key \in diagnosticSeen
               THEN Goto(r, "finalize") /\ UNCHANGED <<diagnosticSeen, toDiagnose>>
               ELSE /\ Goto(r, "diagnosing")
                    /\ toDiagnose' = [toDiagnose EXCEPT ![r] = key]
                    /\ diagnosticSeen' = diagnosticSeen \cup {key}
        BY <2>7 DEF Fail
      <3> DEFINE key == [code |-> code, host |-> target[r]]
      <3>3. pc[r] = "roundTrip"
        BY <2>7 DEF Fail
      <3>4. CASE key \in diagnosticSeen
        <4>1. Holders(k)' = Holders(k)
          BY <2>4, <3>2, <3>3, <3>4
        <4> QED
          BY <2>1, <3>1, <3>2, <3>4, <4>1
      <3>5. CASE key \notin diagnosticSeen
        <4>1. /\ pc' = [pc EXCEPT ![r] = "diagnosing"]
              /\ toDiagnose' = [toDiagnose EXCEPT ![r] = key]
              /\ diagnosticSeen' = diagnosticSeen \cup {key}
          BY <3>2, <3>5 DEF Goto
        <4> HIDE DEF key
        <4>2. Holders(k)' = IF key = k THEN Holders(k) \cup {r} ELSE Holders(k)
          BY <3>3, <4>1 DEF Holders, TypeOK
        <4>3. CASE key = k
          <5>1. Diagnosed(k) = {} /\ Holders(k) = {}
            BY <2>0, <3>5, <4>3
          <5> QED
            BY <3>1, <4>1, <4>2, <4>3, <5>1
        <4>4. CASE key # k
          BY <2>1, <3>1, <4>1, <4>2, <4>4
        <4> QED
          BY <4>3, <4>4
      <3> QED
        BY <3>4, <3>5
    <2>8. ASSUME NEW r \in Requests, EmitDiagnostic(r) PROVE Goal
      <3> DEFINE mine == toDiagnose[r]
      <3>1. mine \in Keys /\ pc[r] = "diagnosing"
        BY <2>8 DEF EmitDiagnostic, TypeOK
      <3>2. DiagnosticLine(mine) \in Lines /\ DiagnosticLine(mine).type = "diagnostic"
            /\ DiagnosticLine(mine).key = mine
        BY <3>1, LineFacts
      <3>3. Put(DiagnosticLine(mine)) /\ UNCHANGED diagnosticSeen
        BY <2>8 DEF EmitDiagnostic
      <3>4. Diagnosed(k)' = IF mine = k THEN Diagnosed(k) \cup {Len(out) + 1} ELSE Diagnosed(k)
        BY <3>2, <3>3, DiagnosedGrow DEF TypeOK
      <3>5. Holders(k)' = Holders(k) \ {r}
        BY <2>8 DEF EmitDiagnostic, Goto, Holders, TypeOK
      <3>6. r \in Holders(mine)
        BY <3>1 DEF Holders
      <3> HIDE DEF mine
      <3>7. CASE mine = k
        <4>1. Diagnosed(k) = {} /\ Holders(k) = {r} /\ k \in diagnosticSeen
          BY <2>0, <3>6, <3>7
        <4> QED
          BY <3>3, <3>4, <3>5, <3>7, <4>1
      <3>8. CASE mine # k
        <4>1. r \notin Holders(k)
          BY <3>8 DEF Holders, mine
        <4> QED
          BY <2>1, <3>3, <3>4, <3>5, <3>8, <4>1
      <3> QED
        BY <3>7, <3>8
    <2>9. ASSUME NEW r \in Requests, WriteRow(r) PROVE Goal
      <3>1. Holders(k)' = Holders(k)
        BY <2>4, <2>9 DEF WriteRow
      <3>2. Diagnosed(k)' = Diagnosed(k)
        <4>1. CASE Wanted(r)
          <5>1. RequestLine(nextID + 1, r) \in Lines /\ RequestLine(nextID + 1, r).type # "diagnostic"
            BY LineFacts DEF TypeOK
          <5>2. Put(RequestLine(nextID + 1, r))
            BY <2>9, <4>1 DEF WriteRow
          <5> QED
            BY <2>3, <5>1, <5>2
        <4>2. CASE ~Wanted(r)
          BY <2>2, <2>9, <4>2 DEF WriteRow, emitterVars
        <4> QED
          BY <4>1, <4>2
      <3> QED
        BY <2>1, <2>9, <3>1, <3>2 DEF WriteRow
    <2>10. CASE WriteError \/ EmitState
      <3>1. \E line \in Lines : Put(line) /\ line.type # "diagnostic"
        BY <2>10, LineFacts DEF WriteError, EmitState
      <3>2. UNCHANGED <<pc, toDiagnose, diagnosticSeen>>
        BY <2>10 DEF WriteError, EmitState, handlerVars
      <3> QED
        BY <2>1, <2>3, <2>5, <3>1, <3>2
    <2>11. CASE RaiseError \/ ReadLine \/ UNCHANGED vars \/ \E on \in BOOLEAN : SetRecording(on)
      <3>1. UNCHANGED <<out, pc, toDiagnose, diagnosticSeen>>
        BY <2>11 DEF RaiseError, ReadLine, SetRecording, vars, handlerVars, emitterVars
      <3> QED
        BY <2>1, <2>2, <2>5, <3>1
    <2> QED
      BY <2>6, <2>7, <2>8, <2>9, <2>10, <2>11 DEF Next
  <1> QED
    BY <1>1, <1>2, TypeCorrect, PTL DEF Spec

-----------------------------------------------------------------------------
(* The list of requests. *)

\* A request that is running while recording is off will have been noticed.
PauseIsNoticed == \A r \in Requests : InFlight(r) /\ ~recording => r \in pausedDuring

LEMMA ExactKept ==
    ASSUME TypeOK, CaptureIsExact, UNCHANGED <<matches, nextID>>,
           \A r \in Requests : Rows(r)' = Rows(r),
           Positions("request")' = Positions("request"),
           \A i \in Positions("request") : out'[i] = out[i],
           pausedDuring \subseteq pausedDuring',
           \A r \in Requests : pc[r] = "done" => pc'[r] = "done" /\ outcome'[r] = outcome[r],
           \A r \in Requests : pc[r] # "done" /\ pc'[r] = "done" => ~Wanted(r)' \/ r \in pausedDuring'
    PROVE  CaptureIsExact'
  <1>1. RowsAreNumbered'
    BY DEF CaptureIsExact, RowsAreNumbered
  <1>2. ASSUME NEW r \in Requests
        PROVE  /\ \A i, j \in Rows(r)' : i = j
               /\ Rows(r)' # {} => pc'[r] = "done" /\ Wanted(r)'
               /\ pc'[r] = "done" /\ Wanted(r)' /\ r \notin pausedDuring' => Rows(r)' # {}
    <2>1. pc[r] = "done" => Wanted(r)' = Wanted(r)
      BY <1>2 DEF Wanted
    <2> QED
      BY <1>2, <2>1 DEF CaptureIsExact
  <1> QED
    BY <1>1, <1>2 DEF CaptureIsExact

(* The list is exact, for any number of requests and pauses: numbers follow *)
(* the output, one row for each finished match that was never in flight     *)
(* during a pause, none for a request that is filtered out (emit, Emit).    *)
THEOREM ListIsExact == Spec => []CaptureIsExact
  <1> DEFINE Inv == CaptureIsExact /\ PauseIsNoticed
  <1>1. Init => Inv
    <2> SUFFICES ASSUME Init PROVE Inv
      OBVIOUS
    <2>1. Positions("request") = {} /\ nextID = 0 /\ recording = TRUE
      BY DEF Init, Positions
    <2>2. RowsAreNumbered
      BY <2>1 DEF RowsAreNumbered
    <2> QED
      BY <2>1, <2>2 DEF Init, CaptureIsExact, PauseIsNoticed, Rows
  <1>2. TypeOK /\ Inv /\ [Next]_vars => Inv'
    <2> SUFFICES ASSUME TypeOK, CaptureIsExact, PauseIsNoticed, [Next]_vars
                 PROVE  CaptureIsExact' /\ PauseIsNoticed'
      OBVIOUS
    <2>1. ASSUME UNCHANGED out
          PROVE  /\ Positions("request")' = Positions("request")
                 /\ \A r \in Requests : Rows(r)' = Rows(r)
                 /\ \A i \in Positions("request") : out'[i] = out[i]
      BY <2>1 DEF Positions, Rows
    <2>2. ASSUME NEW line \in Lines, Put(line), line.type # "request"
          PROVE  /\ Positions("request")' = Positions("request")
                 /\ \A r \in Requests : Rows(r)' = Rows(r)
                 /\ \A i \in Positions("request") : out'[i] = out[i]
      <3>1. Positions("request")' = Positions("request")
        BY <2>2, PositionsGrow DEF TypeOK
      <3>2. \A r \in Requests : Rows(r)' = Rows(r)
        BY <2>2, RowsGrow DEF TypeOK
      <3>3. \A i \in Positions("request") : out'[i] = out[i]
        BY <2>2, Written DEF TypeOK, Positions
      <3> QED
        BY <3>1, <3>2, <3>3
    <2>3. ASSUME NEW r \in Requests, Start(r) PROVE CaptureIsExact' /\ PauseIsNoticed'
      <3>1. UNCHANGED <<out, matches, nextID, outcome, recording>>
        BY <2>3 DEF Start, emitterVars, controlVars
      <3>2. /\ pc[r] = "idle"
            /\ pc' = [pc EXCEPT ![r] = "roundTrip"]
            /\ pausedDuring' = IF recording THEN pausedDuring ELSE pausedDuring \cup {r}
        BY <2>3 DEF Start, Goto
      <3>3. PauseIsNoticed'
        BY <3>1, <3>2 DEF PauseIsNoticed, InFlight, TypeOK
      <3>4. \A q \in Requests : /\ pc[q] = "done" => pc'[q] = "done" /\ outcome'[q] = outcome[q]
                                /\ pc[q] # "done" => pc'[q] # "done"
        BY <3>1, <3>2 DEF TypeOK
      <3> QED
        BY <2>1, <3>1, <3>2, <3>3, <3>4, ExactKept
    <2>4. ASSUME NEW r \in Requests, Answer(r) \/ Fail(r) PROVE CaptureIsExact' /\ PauseIsNoticed'
      <3>1. UNCHANGED <<out, matches, nextID, recording, pausedDuring>>
        BY <2>4 DEF Answer, Fail, emitterVars, controlVars, historyVars
      <3>2. /\ pc[r] = "roundTrip"
            /\ \E stage \in {"diagnosing", "finalize"} : pc' = [pc EXCEPT ![r] = stage]
            /\ \E o \in Outcomes : outcome' = [outcome EXCEPT ![r] = o]
        BY <2>4 DEF Answer, Fail, Goto, Outcomes
      <3>3. PauseIsNoticed'
        BY <3>1, <3>2 DEF PauseIsNoticed, InFlight, TypeOK
      <3>4. \A q \in Requests : /\ pc[q] = "done" => pc'[q] = "done" /\ outcome'[q] = outcome[q]
                                /\ pc[q] # "done" => pc'[q] # "done"
        BY <3>1, <3>2 DEF TypeOK
      <3> QED
        BY <2>1, <3>1, <3>3, <3>4, ExactKept
    <2>5. ASSUME NEW r \in Requests, EmitDiagnostic(r) PROVE CaptureIsExact' /\ PauseIsNoticed'
      <3>1. UNCHANGED <<matches, nextID, outcome, recording, pausedDuring>>
        BY <2>5 DEF EmitDiagnostic, controlVars, historyVars
      <3>2. pc[r] = "diagnosing" /\ pc' = [pc EXCEPT ![r] = "finalize"]
        BY <2>5 DEF EmitDiagnostic, Goto
      <3>3. \E line \in Lines : Put(line) /\ line.type # "request"
        BY <2>5, LineFacts DEF EmitDiagnostic, TypeOK
      <3>4. PauseIsNoticed'
        BY <3>1, <3>2 DEF PauseIsNoticed, InFlight, TypeOK
      <3>5. \A q \in Requests : /\ pc[q] = "done" => pc'[q] = "done" /\ outcome'[q] = outcome[q]
                                /\ pc[q] # "done" => pc'[q] # "done"
        BY <3>1, <3>2 DEF TypeOK
      <3> QED
        BY <2>2, <3>1, <3>3, <3>4, <3>5, ExactKept
    <2>6. ASSUME NEW r \in Requests, Emit(r) PROVE CaptureIsExact' /\ PauseIsNoticed'
      <3>1. UNCHANGED <<out, matches, nextID, outcome, recording, pausedDuring>>
        BY <2>6 DEF Emit, emitterVars, controlVars, historyVars
      <3>2. /\ pc[r] = "finalize"
            /\ pc' = [pc EXCEPT ![r] = IF recording THEN "emitting" ELSE "done"]
        BY <2>6 DEF Emit, Goto
      <3>3. PauseIsNoticed'
        BY <3>1, <3>2 DEF PauseIsNoticed, InFlight, TypeOK
      <3>4. \A q \in Requests : pc[q] = "done" => pc'[q] = "done" /\ outcome'[q] = outcome[q]
        BY <3>1, <3>2 DEF TypeOK
      <3>5. \A q \in Requests : pc[q] # "done" /\ pc'[q] = "done" => q \in pausedDuring'
        BY <3>1, <3>2 DEF PauseIsNoticed, InFlight, TypeOK
      <3> QED
        BY <2>1, <3>1, <3>3, <3>4, <3>5, ExactKept
    <2>7. ASSUME NEW r \in Requests, WriteRow(r) PROVE CaptureIsExact' /\ PauseIsNoticed'
      <3>1. UNCHANGED <<matches, outcome, recording, pausedDuring>>
        BY <2>7 DEF WriteRow, controlVars, historyVars
      <3>2. pc[r] = "emitting" /\ pc' = [pc EXCEPT ![r] = "done"]
        BY <2>7 DEF WriteRow, Goto
      <3>3. PauseIsNoticed'
        BY <3>1, <3>2 DEF PauseIsNoticed, InFlight, TypeOK
      <3>4. \A q \in Requests : pc[q] = "done" => pc'[q] = "done" /\ outcome'[q] = outcome[q]
        BY <3>1, <3>2 DEF TypeOK
      <3>5. \A q \in Requests : Wanted(q)' = Wanted(q)
        BY <3>1 DEF Wanted
      <3>6. CASE ~Wanted(r)
        <4>1. UNCHANGED <<out, nextID>>
          BY <2>7, <3>6 DEF WriteRow, emitterVars
        <4>2. \A q \in Requests : pc[q] # "done" /\ pc'[q] = "done" => ~Wanted(q)'
          BY <3>2, <3>5, <3>6 DEF TypeOK
        <4> QED
          BY <2>1, <3>1, <3>3, <3>4, <4>1, <4>2, ExactKept
      <3>7. CASE Wanted(r)
        <4> DEFINE n == nextID + 1
                   line == RequestLine(n, r)
                   last == Len(out) + 1
        <4>1. Put(line) /\ nextID' = n
          BY <2>7, <3>7 DEF WriteRow
        <4>2. n \in Nat /\ line \in Lines /\ line.type = "request" /\ line.req = r /\ line.id = n
          BY LineFacts DEF TypeOK
        <4>0. n = nextID + 1 /\ nextID \in Nat
          BY DEF TypeOK
        <4> HIDE DEF n, line
        <4>3. Positions("request")' = Positions("request") \cup {last}
          BY <4>1, <4>2, PositionsGrow DEF TypeOK
        <4>4. \A q \in Requests : Rows(q)' = IF q = r THEN Rows(q) \cup {last} ELSE Rows(q)
          BY <4>1, <4>2, RowsGrow DEF TypeOK
        <4>5. /\ out'[last] = line
              /\ last \in Nat
              /\ last \notin Positions("request")
              /\ \A i \in Positions("request") : i \in Nat /\ i < last /\ out'[i] = out[i]
          BY <4>1, <4>2, Written DEF TypeOK, Positions
        <4> HIDE DEF last
        <4>6. RowsAreNumbered'
          <5>1. /\ {out[i].id : i \in Positions("request")} = 1..nextID
                /\ \A i, j \in Positions("request") : i < j => out[i].id < out[j].id
            BY DEF CaptureIsExact, RowsAreNumbered
          <5>2. \A i \in Positions("request") : out[i].id \in 1..nextID
            BY <5>1
          <5>3. {out'[i].id : i \in Positions("request")'} = 1..nextID'
            <6>1. {out'[i].id : i \in Positions("request")'}
                      = {out[i].id : i \in Positions("request")} \cup {n}
              BY <4>2, <4>3, <4>5
            <6>2. 1..n = (1..nextID) \cup {n}
              BY <4>0
            <6> QED
              BY <4>1, <5>1, <6>1, <6>2
          <5>4. ASSUME NEW i \in Positions("request")', NEW j \in Positions("request")', i < j
                PROVE  out'[i].id < out'[j].id
            <6>1. i \in Positions("request")
              BY <4>3, <4>5, <5>4
            <6>2. CASE j = last
              BY <4>0, <4>2, <4>5, <5>2, <6>1, <6>2
            <6>3. CASE j \in Positions("request")
              BY <4>5, <5>1, <5>4, <6>1, <6>3
            <6> QED
              BY <4>3, <6>2, <6>3
          <5> QED
            BY <5>3, <5>4 DEF RowsAreNumbered
        <4>7. ASSUME NEW q \in Requests
              PROVE  /\ \A i, j \in Rows(q)' : i = j
                     /\ Rows(q)' # {} => pc'[q] = "done" /\ Wanted(q)'
                     /\ pc'[q] = "done" /\ Wanted(q)' /\ q \notin pausedDuring' => Rows(q)' # {}
          <5>1. CASE q = r
            <6>1. Rows(r) = {}
              BY <3>2 DEF CaptureIsExact
            <6>2. Rows(q)' = {last}
              BY <4>4, <5>1, <6>1
            <6>3. pc'[q] = "done" /\ Wanted(q)'
              BY <3>2, <3>5, <3>7, <5>1 DEF TypeOK
            <6> QED
              BY <6>2, <6>3
          <5>2. CASE q # r
            <6>1. Rows(q)' = Rows(q) /\ pc'[q] = pc[q] /\ Wanted(q)' = Wanted(q)
              BY <3>2, <3>5, <4>4, <5>2 DEF TypeOK
            <6> QED
              BY <3>1, <6>1 DEF CaptureIsExact
          <5> QED
            BY <5>1, <5>2
        <4> QED
          BY <3>3, <4>6, <4>7 DEF CaptureIsExact
      <3> QED
        BY <3>6, <3>7
    <2>8. CASE WriteError \/ EmitState
      <3>1. UNCHANGED <<matches, nextID, outcome, recording, pausedDuring, pc>>
        BY <2>8 DEF WriteError, EmitState, controlVars, historyVars, handlerVars
      <3>2. \E line \in Lines : Put(line) /\ line.type # "request"
        BY <2>8, LineFacts DEF WriteError, EmitState
      <3>3. PauseIsNoticed'
        BY <3>1 DEF PauseIsNoticed, InFlight
      <3> QED
        BY <2>2, <3>1, <3>2, <3>3, ExactKept
    <2>9. ASSUME NEW on \in BOOLEAN, SetRecording(on) PROVE CaptureIsExact' /\ PauseIsNoticed'
      <3>1. UNCHANGED <<matches, nextID, outcome, out, pc>>
        BY <2>9 DEF SetRecording, emitterVars, handlerVars
      <3>2. /\ recording' = on
            /\ pausedDuring' = IF on THEN pausedDuring
                               ELSE pausedDuring \cup {r \in Requests : InFlight(r)}
        BY <2>9 DEF SetRecording
      <3>3. PauseIsNoticed'
        BY <3>1, <3>2 DEF PauseIsNoticed, InFlight
      <3> QED
        BY <2>1, <3>1, <3>2, <3>3, ExactKept
    <2>10. CASE RaiseError \/ ReadLine \/ UNCHANGED vars
      <3>1. UNCHANGED <<matches, nextID, outcome, out, pc, recording, pausedDuring>>
        BY <2>10 DEF RaiseError, ReadLine, vars, handlerVars, emitterVars, controlVars, historyVars
      <3>2. PauseIsNoticed'
        BY <3>1 DEF PauseIsNoticed, InFlight
      <3> QED
        BY <2>1, <3>1, <3>2, ExactKept
    <2> QED
      BY <2>3, <2>4, <2>5, <2>6, <2>7, <2>8, <2>9, <2>10 DEF Next
  <1>3. Inv => CaptureIsExact
    OBVIOUS
  <1> QED
    BY <1>1, <1>2, <1>3, TypeCorrect, PTL DEF Spec

-----------------------------------------------------------------------------
(* Pausing. *)

\* A request begun during the pause that still lasts has passed no check of
\* the flag, or found it off.
QuietStaysQuiet ==
    /\ quiet # {} => ~recording
    /\ \A r \in quiet : pc[r] \in {"roundTrip", "diagnosing", "finalize", "done"} /\ Rows(r) = {}

ErrorsAreCounted == raised = pendingErrors + Cardinality(Positions("error"))

LEMMA ErrorLinesAreFinite == TypeOK => IsFiniteSet(Positions("error"))
  <1> SUFFICES ASSUME TypeOK PROVE IsFiniteSet(Positions("error"))
    OBVIOUS
  <1>1. Len(out) \in Nat /\ Positions("error") \subseteq 1..Len(out)
    BY DEF TypeOK, Positions
  <1>2. IsFiniteSet(1..Len(out))
    BY <1>1, FS_Interval
  <1> QED
    BY <1>1, <1>2, FS_Subset

(* A pause silences the requests begun during it, whatever else runs, and   *)
(* no operational error: each is written or about to be (emit).             *)
THEOREM PauseSilences == Spec => []PauseSilencesRequestsOnly
  <1> DEFINE Inv == QuietStaysQuiet /\ ErrorsAreCounted
  <1>1. Init => Inv
    <2> SUFFICES ASSUME Init PROVE Inv
      OBVIOUS
    <2>1. Positions("error") = {} /\ quiet = {} /\ raised = 0 /\ pendingErrors = 0
      BY DEF Init, Positions
    <2> QED
      BY <2>1, FS_EmptySet DEF QuietStaysQuiet, ErrorsAreCounted
  <1>2. TypeOK /\ CaptureIsExact /\ Inv /\ [Next]_vars => Inv'
    <2> SUFFICES ASSUME TypeOK, CaptureIsExact, QuietStaysQuiet, ErrorsAreCounted, [Next]_vars
                 PROVE  QuietStaysQuiet' /\ ErrorsAreCounted'
      OBVIOUS
    <2>1. ASSUME UNCHANGED out
          PROVE  Positions("error")' = Positions("error") /\ \A r : Rows(r)' = Rows(r)
      BY <2>1 DEF Positions, Rows
    <2>2. ASSUME NEW line \in Lines, Put(line), line.type # "error"
          PROVE  Positions("error")' = Positions("error")
      BY <2>2, PositionsGrow DEF TypeOK
    <2>3. ASSUME NEW line \in Lines, Put(line), line.type # "request"
          PROVE  \A r : Rows(r)' = Rows(r)
      BY <2>3, RowsGrow DEF TypeOK
    <2>4. ASSUME UNCHANGED <<raised, pendingErrors>>, Positions("error")' = Positions("error")
          PROVE  ErrorsAreCounted'
      BY <2>4 DEF ErrorsAreCounted
    <2>5. ASSUME NEW r \in Requests, Start(r) PROVE QuietStaysQuiet' /\ ErrorsAreCounted'
      <3>1. UNCHANGED <<out, recording, raised, pendingErrors>>
        BY <2>5 DEF Start, emitterVars, controlVars, errorVars
      <3>2. /\ pc[r] = "idle"
            /\ pc' = [pc EXCEPT ![r] = "roundTrip"]
            /\ quiet' = IF recording THEN quiet ELSE quiet \cup {r}
        BY <2>5 DEF Start, Goto
      <3>3. Rows(r) = {}
        BY <3>2 DEF CaptureIsExact
      <3>4. \A q \in quiet' : pc'[q] \in {"roundTrip", "diagnosing", "finalize", "done"}
        BY <3>2 DEF QuietStaysQuiet, TypeOK
      <3>5. \A q \in quiet' : Rows(q)' = {}
        BY <2>1, <3>1, <3>2, <3>3 DEF QuietStaysQuiet
      <3>6. quiet' # {} => ~recording'
        BY <3>1, <3>2 DEF QuietStaysQuiet
      <3> QED
        BY <2>1, <2>4, <3>1, <3>4, <3>5, <3>6 DEF QuietStaysQuiet
    <2>6. ASSUME NEW r \in Requests, Answer(r) \/ Fail(r) \/ Emit(r)
          PROVE  QuietStaysQuiet' /\ ErrorsAreCounted'
      <3>1. UNCHANGED <<out, recording, quiet, raised, pendingErrors>>
        BY <2>6 DEF Answer, Fail, Emit, emitterVars, controlVars, errorVars, historyVars
      <3>2. \/ \E stage \in {"diagnosing", "finalize"} : pc' = [pc EXCEPT ![r] = stage]
            \/ pc' = [pc EXCEPT ![r] = IF recording THEN "emitting" ELSE "done"]
        BY <2>6 DEF Answer, Fail, Emit, Goto
      <3>3. \A q \in quiet' : pc'[q] \in {"roundTrip", "diagnosing", "finalize", "done"}
        BY <3>1, <3>2 DEF QuietStaysQuiet, TypeOK
      <3> QED
        BY <2>1, <2>4, <3>1, <3>3 DEF QuietStaysQuiet
    <2>7. ASSUME NEW r \in Requests, EmitDiagnostic(r)
          PROVE  QuietStaysQuiet' /\ ErrorsAreCounted'
      <3>1. UNCHANGED <<recording, quiet, raised, pendingErrors>>
        BY <2>7 DEF EmitDiagnostic, controlVars, errorVars, historyVars
      <3>2. \E line \in Lines : Put(line) /\ line.type \notin {"request", "error"}
        BY <2>7, LineFacts DEF EmitDiagnostic, TypeOK
      <3>3. \A q \in quiet' : pc'[q] \in {"roundTrip", "diagnosing", "finalize", "done"}
        BY <2>7, <3>1 DEF EmitDiagnostic, Goto, QuietStaysQuiet, TypeOK
      <3> QED
        BY <2>2, <2>3, <2>4, <3>1, <3>2, <3>3 DEF QuietStaysQuiet
    <2>8. ASSUME NEW r \in Requests, WriteRow(r) PROVE QuietStaysQuiet' /\ ErrorsAreCounted'
      <3>1. UNCHANGED <<recording, quiet, raised, pendingErrors>>
        BY <2>8 DEF WriteRow, controlVars, errorVars, historyVars
      <3>2. r \notin quiet
        BY <2>8 DEF WriteRow, QuietStaysQuiet
      <3>3. \A q \in quiet' : pc'[q] = pc[q]
        BY <2>8, <3>1, <3>2 DEF WriteRow, Goto, TypeOK
      <3>4. CASE Wanted(r)
        <4>1. /\ Put(RequestLine(nextID + 1, r))
              /\ RequestLine(nextID + 1, r) \in Lines
              /\ RequestLine(nextID + 1, r).type = "request"
              /\ RequestLine(nextID + 1, r).req = r
          BY <2>8, <3>4, LineFacts DEF WriteRow, TypeOK
        <4>2. \A q \in quiet : Rows(q)' = Rows(q)
          BY <3>2, <4>1, RowsGrow DEF TypeOK
        <4> QED
          BY <2>2, <2>4, <3>1, <3>3, <4>1, <4>2 DEF QuietStaysQuiet
      <3>5. CASE ~Wanted(r)
        <4>1. UNCHANGED out
          BY <2>8, <3>5 DEF WriteRow, emitterVars
        <4> QED
          BY <2>1, <2>4, <3>1, <3>3, <4>1 DEF QuietStaysQuiet
      <3> QED
        BY <3>4, <3>5
    <2>9. CASE RaiseError
      <3>1. UNCHANGED <<out, pc, recording, quiet>>
        BY <2>9 DEF RaiseError, emitterVars, controlVars, historyVars, handlerVars
      <3>2. raised' = raised + 1 /\ pendingErrors' = pendingErrors + 1
        BY <2>9 DEF RaiseError
      <3>3. Cardinality(Positions("error")) \in Nat
        BY ErrorLinesAreFinite, FS_CardinalityType
      <3>4. ErrorsAreCounted'
        BY <2>1, <3>1, <3>2, <3>3 DEF ErrorsAreCounted, TypeOK
      <3> QED
        BY <2>1, <3>1, <3>4 DEF QuietStaysQuiet
    <2>10. CASE WriteError
      <3>1. UNCHANGED <<pc, recording, quiet, raised>> /\ pendingErrors' = pendingErrors - 1
        BY <2>10 DEF WriteError, controlVars, historyVars, handlerVars
      <3>2. Put(ErrorLine) /\ ErrorLine \in Lines /\ ErrorLine.type = "error"
        BY <2>10, LineFacts DEF WriteError
      <3>3. Positions("error")' = Positions("error") \cup {Len(out) + 1}
        BY <3>2, PositionsGrow DEF TypeOK
      <3>4. Len(out) + 1 \notin Positions("error")
        BY <3>2, Written DEF TypeOK, Positions
      <3>5. Cardinality(Positions("error")') = Cardinality(Positions("error")) + 1
        BY <3>3, <3>4, ErrorLinesAreFinite, FS_AddElement
      <3>6. Cardinality(Positions("error")) \in Nat
        BY ErrorLinesAreFinite, FS_CardinalityType
      <3>7. ErrorsAreCounted'
        BY <3>1, <3>5, <3>6 DEF ErrorsAreCounted, TypeOK
      <3>8. \A q : Rows(q)' = Rows(q)
        BY <2>3, <3>2
      <3> QED
        BY <3>1, <3>7, <3>8 DEF QuietStaysQuiet
    <2>11. ASSUME NEW on \in BOOLEAN, SetRecording(on) PROVE QuietStaysQuiet' /\ ErrorsAreCounted'
      <3>1. UNCHANGED <<out, pc, raised, pendingErrors>>
        BY <2>11 DEF SetRecording, emitterVars, handlerVars, errorVars
      <3>2. recording' = on /\ quiet' = IF on THEN {} ELSE quiet
        BY <2>11 DEF SetRecording
      <3> QED
        BY <2>1, <2>4, <3>1, <3>2 DEF QuietStaysQuiet
    <2>12. CASE EmitState
      <3>1. UNCHANGED <<pc, recording, quiet, raised, pendingErrors>>
        BY <2>12 DEF EmitState, errorVars, historyVars, handlerVars
      <3>2. \E line \in Lines : Put(line) /\ line.type \notin {"request", "error"}
        BY <2>12, LineFacts DEF EmitState
      <3> QED
        BY <2>2, <2>3, <2>4, <3>1, <3>2 DEF QuietStaysQuiet
    <2>13. CASE ReadLine \/ UNCHANGED vars
      <3>1. UNCHANGED <<out, pc, recording, quiet, raised, pendingErrors>>
        BY <2>13 DEF ReadLine, vars, handlerVars, emitterVars, controlVars, errorVars, historyVars
      <3> QED
        BY <2>1, <2>4, <3>1 DEF QuietStaysQuiet
    <2> QED
      BY <2>5, <2>6, <2>7, <2>8, <2>9, <2>10, <2>11, <2>12, <2>13 DEF Next
  <1>3. Inv => PauseSilencesRequestsOnly
    BY DEF QuietStaysQuiet, ErrorsAreCounted, PauseSilencesRequestsOnly
  <1> QED
    BY <1>1, <1>2, <1>3, TypeCorrect, ListIsExact, PTL DEF Spec

=============================================================================
