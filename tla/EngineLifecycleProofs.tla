------------------------- MODULE EngineLifecycleProofs ------------------------
(***************************************************************************)
(* Theorems about EngineLifecycle, for any number of requests and any      *)
(* bounds: the order of the files, the listener, the handlers and the      *)
(* exit, and the first line of the output.                                 *)
(***************************************************************************)
EXTENDS EngineLifecycle, TLAPS

Serving == {"environment", "ready", "notify", "select", "shutdown"}

\* Files and listener by the stage of the main goroutine.
FilesFollowMain ==
    /\ listening <=> Alive /\ pc \in Serving
    /\ Alive => (temp <=> pc \notin {"authority", "return"})
    /\ death = "exit" => ~temp

\* A stop noted at "select" finds signal.Notify in force and no error.
StopFollowsMain ==
    /\ Alive /\ pc = "select" => notified
    /\ firstStop = "select" => stops > 0 /\ pc \in {"select"} \cup Stopping
    /\ Alive /\ pc \notin Stopping => code = 0
    /\ firstStop = "select" => code = 0
    /\ death = "signal" /\ stops = 1 => firstStop # "select"

\* Without proxied tools nobody writes before the ready line.
OutputFollowsMain ==
    /\ pc \in {"notify", "select"} \/ (pc = "shutdown" /\ code = 0)
          => firstLine # "none"
    /\ firstLine = "none" => control = "none"
    /\ firstLine = "none" /\ ~proxiedTools => \A r \in Requests : requests[r] = "none"

IInv ==
    /\ TypeOK
    /\ FilesFollowMain
    /\ StopFollowsMain
    /\ OutputFollowsMain
    /\ DrainedBeforeRemoval
    /\ FirstLineIsReady

-----------------------------------------------------------------------------
(* Preservation, action by action. *)

(* The Boolean variables, which the provers treat apart from the others.      *)
FlagsOK ==
    /\ lifetimeStdin \in BOOLEAN /\ proxiedTools \in BOOLEAN
    /\ temp \in BOOLEAN /\ listening \in BOOLEAN
    /\ notified \in BOOLEAN /\ expired \in BOOLEAN

(* The initial states are well typed.                                        *)
LEMMA InitialTypes == Init => TypeOK
<1>1. Init => FlagsOK
  BY Zenon DEF Init, FlagsOK
<1> QED
  BY <1>1, ConstantsAssumption
  DEF Init, FlagsOK, TypeOK, Stages, Starting, Stopping, RequestStages

(* Each step keeps the types: the channel of signals and the pipe stay within *)
(* their capacity, counters within their bounds.                              *)
LEMMA TypeStays ==
    ASSUME TypeOK, [Next]_vars
    PROVE  TypeOK'
<1> USE ConstantsAssumption
<1>1. ASSUME MakeDirectory
      PROVE  TypeOK'
  <2>1. FlagsOK'
    BY <1>1, Zenon DEF MakeDirectory, At, Alive, Die, Goto, procVars, setting,
           ideVars, outVars, TypeOK, FlagsOK
  <2> QED
    BY <1>1, <2>1 DEF MakeDirectory, At, Alive, Die, Goto, procVars, setting,
           ideVars, outVars, TypeOK, Stages, Starting, Stopping,
           RequestStages, FlagsOK
<1>2. ASSUME WriteCA
      PROVE  TypeOK'
  BY <1>2 DEF WriteCA, At, Alive, procVars, setting, ideVars, outVars, TypeOK,
         Stages, Starting, Stopping, RequestStages
<1>3. ASSUME Listen
      PROVE  TypeOK'
  <2>1. FlagsOK'
    BY <1>3, Zenon DEF Listen, At, Alive, Goto, setting, ideVars, outVars,
           TypeOK, FlagsOK
  <2> QED
    BY <1>3, <2>1 DEF Listen, At, Alive, Goto, setting, ideVars, outVars,
           TypeOK, Stages, Starting, Stopping, RequestStages, FlagsOK
<1>4. ASSUME Abort
      PROVE  TypeOK'
  <2>1. FlagsOK'
    BY <1>4, Zenon DEF Abort, At, Alive, Die, setting, ideVars, outVars,
           TypeOK, FlagsOK
  <2> QED
    BY <1>4, <2>1 DEF Abort, At, Alive, Die, setting, ideVars, outVars,
           TypeOK, Stages, Starting, Stopping, RequestStages, FlagsOK
<1>5. ASSUME BuildEnvironment
      PROVE  TypeOK'
  BY <1>5 DEF BuildEnvironment, At, Alive, Goto, procVars, setting, ideVars,
         outVars, TypeOK, Stages, Starting, Stopping, RequestStages
<1>6. ASSUME WriteReady
      PROVE  TypeOK'
  BY <1>6 DEF WriteReady, At, Alive, Goto, Put, procVars, setting, ideVars,
         outVars, TypeOK, Stages, Starting, Stopping, RequestStages
<1>7. ASSUME ReadyToNobody
      PROVE  TypeOK'
  <2>1. FlagsOK'
    BY <1>7, Zenon DEF ReadyToNobody, At, Alive, Die, BrokenPipe, mainVars,
           setting, ideVars, outVars, TypeOK, FlagsOK
  <2> QED
    BY <1>7, <2>1 DEF ReadyToNobody, At, Alive, Die, BrokenPipe, mainVars,
           setting, ideVars, outVars, TypeOK, Stages, Starting, Stopping,
           RequestStages, FlagsOK
<1>8. ASSUME Notify
      PROVE  TypeOK'
  <2>1. FlagsOK'
    BY <1>8, Zenon DEF Notify, At, Alive, Goto, setting, ideVars, outVars,
           TypeOK, FlagsOK
  <2> QED
    BY <1>8, <2>1 DEF Notify, At, Alive, Goto, setting, ideVars, outVars,
           TypeOK, Stages, Starting, Stopping, RequestStages, FlagsOK
<1>9. ASSUME Select
      PROVE  TypeOK'
  <2>1. FlagsOK'
    BY <1>9, Zenon DEF Select, At, Alive, Goto, setting, ideVars, outVars,
           TypeOK, FlagsOK
  <2> QED
    BY <1>9, <2>1 DEF Select, At, Alive, Goto, setting, ideVars, outVars,
           TypeOK, Stages, Starting, Stopping, RequestStages, FlagsOK
<1>10. ASSUME Shutdown
      PROVE  TypeOK'
  <2>1. FlagsOK'
    BY <1>10, Zenon DEF Shutdown, At, Alive, Goto, setting, ideVars, outVars,
           TypeOK, FlagsOK
  <2> QED
    BY <1>10, <2>1 DEF Shutdown, At, Alive, Goto, setting, ideVars, outVars,
           TypeOK, Stages, Starting, Stopping, RequestStages, FlagsOK
<1>11. ASSUME Drain
      PROVE  TypeOK'
  BY <1>11 DEF Drain, At, Alive, Goto, Tracked, procVars, setting, ideVars,
         outVars, TypeOK, Stages, Starting, Stopping, RequestStages
<1>12. ASSUME Remove
      PROVE  TypeOK'
  <2>1. FlagsOK'
    BY <1>12, Zenon DEF Remove, At, Alive, Goto, procVars, setting, ideVars,
           outVars, TypeOK, FlagsOK
  <2> QED
    BY <1>12, <2>1 DEF Remove, At, Alive, Goto, procVars, setting, ideVars,
           outVars, TypeOK, Stages, Starting, Stopping, RequestStages, FlagsOK
<1>13. ASSUME Return
      PROVE  TypeOK'
  <2>1. FlagsOK'
    BY <1>13, Zenon DEF Return, At, Alive, Die, mainVars, setting, ideVars,
           outVars, TypeOK, FlagsOK
  <2> QED
    BY <1>13, <2>1 DEF Return, At, Alive, Die, mainVars, setting, ideVars,
           outVars, TypeOK, Stages, Starting, Stopping, RequestStages, FlagsOK
<1>14. ASSUME ReadCommand
      PROVE  TypeOK'
  BY <1>14 DEF ReadCommand, Alive, mainVars, procVars, setting, ideVars,
         outVars, TypeOK, Stages, Starting, Stopping, RequestStages
<1>15. ASSUME Announce
      PROVE  TypeOK'
  BY <1>15 DEF Announce, Alive, Put, mainVars, procVars, setting, ideVars,
         TypeOK, Stages, Starting, Stopping, RequestStages
<1>16. ASSUME AnnounceToNobody
      PROVE  TypeOK'
  <2>1. FlagsOK'
    BY <1>16, Zenon DEF AnnounceToNobody, Alive, Die, BrokenPipe, mainVars,
           setting, ideVars, outVars, TypeOK, FlagsOK
  <2> QED
    BY <1>16, <2>1 DEF AnnounceToNobody, Alive, Die, BrokenPipe, mainVars,
           setting, ideVars, outVars, TypeOK, Stages, Starting, Stopping,
           RequestStages, FlagsOK
<1>17. ASSUME EndOfInput \/ InputFails
      PROVE  TypeOK'
  BY <1>17 DEF EndOfInput, InputFails, Alive, mainVars, procVars, setting, ideVars,
         outVars, TypeOK, Stages, Starting, Stopping, RequestStages
<1>18. ASSUME SendCommand
      PROVE  TypeOK'
  BY <1>18 DEF SendCommand, mainVars, procVars, setting, outVars, TypeOK,
         Stages, Starting, Stopping, RequestStages
<1>19. ASSUME ReadLine
      PROVE  TypeOK'
  BY <1>19 DEF ReadLine, mainVars, procVars, setting, ideVars, TypeOK, Stages,
         Starting, Stopping, RequestStages
<1>20. ASSUME CloseStdin
      PROVE  TypeOK'
  BY <1>20 DEF CloseStdin, Alive, NoteStop, mainVars, procVars, setting,
         outVars, TypeOK, Stages, Starting, Stopping, RequestStages
<1>21. ASSUME Crash
      PROVE  TypeOK'
  BY <1>21 DEF Crash, Alive, NoteStop, mainVars, procVars, setting, outVars,
         TypeOK, Stages, Starting, Stopping, RequestStages
<1>22. ASSUME Signal
      PROVE  TypeOK'
  <2>1. FlagsOK'
    BY <1>22, Zenon DEF Signal, Alive, Die, NoteStop, mainVars, procVars,
           setting, outVars, TypeOK, FlagsOK
  <2> QED
    BY <1>22, <2>1 DEF Signal, Alive, Die, NoteStop, mainVars, procVars,
           setting, outVars, TypeOK, Stages, Starting, Stopping,
           RequestStages, FlagsOK
<1>23. ASSUME Kill
      PROVE  TypeOK'
  <2>1. FlagsOK'
    BY <1>23, Zenon DEF Kill, Alive, Die, mainVars, setting, ideVars, outVars,
           TypeOK, FlagsOK
  <2> QED
    BY <1>23, <2>1 DEF Kill, Alive, Die, mainVars, setting, ideVars, outVars,
           TypeOK, Stages, Starting, Stopping, RequestStages, FlagsOK
<1>24. ASSUME NEW r \in Requests, Arrive(r)
      PROVE  TypeOK'
  BY <1>24 DEF Arrive, Alive, Reachable, Announced, mainVars, procVars,
         setting, ideVars, outVars, Starting, TypeOK, Stages, Stopping,
         RequestStages
<1>25. ASSUME NEW r \in Requests, Complete(r)
      PROVE  TypeOK'
  BY <1>25 DEF Complete, Alive, mainVars, procVars, setting, ideVars, outVars,
         TypeOK, Stages, Starting, Stopping, RequestStages
<1>26. ASSUME NEW r \in Requests, WriteRow(r)
      PROVE  TypeOK'
  BY <1>26 DEF WriteRow, Alive, Put, mainVars, procVars, setting, ideVars,
         TypeOK, Stages, Starting, Stopping, RequestStages
<1>27. ASSUME NEW r \in Requests, RowToNobody(r)
      PROVE  TypeOK'
  <2>1. FlagsOK'
    BY <1>27, Zenon DEF RowToNobody, Alive, Die, BrokenPipe, mainVars,
           setting, ideVars, outVars, TypeOK, FlagsOK
  <2> QED
    BY <1>27, <2>1 DEF RowToNobody, Alive, Die, BrokenPipe, mainVars, setting,
           ideVars, outVars, TypeOK, Stages, Starting, Stopping,
           RequestStages, FlagsOK
<1>28. ASSUME UNCHANGED vars
      PROVE  TypeOK'
  BY <1>28 DEF vars, mainVars, procVars, setting, ideVars, outVars, TypeOK,
         Alive, Tracked, Stages, Starting, Stopping, RequestStages
<1> QED
  BY <1>1, <1>2, <1>3, <1>4, <1>5, <1>6, <1>7, <1>8, <1>9, <1>10, <1>11,
     <1>12, <1>13, <1>14, <1>15, <1>16, <1>17, <1>18, <1>19, <1>20, <1>21,
     <1>22, <1>23, <1>24, <1>25, <1>26, <1>27, <1>28 DEF Next, Main, Control, Handler, Environment

(* The parts of the invariant about files, listener and drain.                *)
LEMMA FilesStay ==
    ASSUME IInv, [Next]_vars
    PROVE  FilesFollowMain' /\ DrainedBeforeRemoval'
<1> USE DEF IInv
<1>1. ASSUME MakeDirectory
      PROVE  FilesFollowMain' /\ DrainedBeforeRemoval'
  BY <1>1 DEF MakeDirectory, At, Alive, Die, Goto, procVars, setting, ideVars,
         outVars, TypeOK, Stages, Starting, Stopping, RequestStages,
         FilesFollowMain, DrainedBeforeRemoval, Tracked, Serving
<1>2. ASSUME WriteCA
      PROVE  FilesFollowMain' /\ DrainedBeforeRemoval'
  BY <1>2 DEF WriteCA, At, Alive, procVars, setting, ideVars, outVars, TypeOK,
         Stages, Starting, Stopping, RequestStages, FilesFollowMain,
         DrainedBeforeRemoval, Tracked, Serving
<1>3. ASSUME Listen
      PROVE  FilesFollowMain' /\ DrainedBeforeRemoval'
  BY <1>3 DEF Listen, At, Alive, Goto, setting, ideVars, outVars, TypeOK,
         Stages, Starting, Stopping, RequestStages, FilesFollowMain,
         DrainedBeforeRemoval, Tracked, Serving
<1>4. ASSUME Abort
      PROVE  FilesFollowMain' /\ DrainedBeforeRemoval'
  BY <1>4 DEF Abort, At, Alive, Die, setting, ideVars, outVars, TypeOK,
         Stages, Starting, Stopping, RequestStages, FilesFollowMain,
         DrainedBeforeRemoval, Tracked, Serving
<1>5. ASSUME BuildEnvironment
      PROVE  FilesFollowMain' /\ DrainedBeforeRemoval'
  BY <1>5 DEF BuildEnvironment, At, Alive, Goto, procVars, setting, ideVars,
         outVars, TypeOK, Stages, Starting, Stopping, RequestStages,
         FilesFollowMain, DrainedBeforeRemoval, Tracked, Serving
<1>6. ASSUME WriteReady
      PROVE  FilesFollowMain' /\ DrainedBeforeRemoval'
  BY <1>6 DEF WriteReady, At, Alive, Goto, Put, procVars, setting, ideVars,
         outVars, TypeOK, Stages, Starting, Stopping, RequestStages,
         FilesFollowMain, DrainedBeforeRemoval, Tracked, Serving
<1>7. ASSUME ReadyToNobody
      PROVE  FilesFollowMain' /\ DrainedBeforeRemoval'
  BY <1>7 DEF ReadyToNobody, At, Alive, Die, BrokenPipe, mainVars, setting,
         ideVars, outVars, TypeOK, Stages, Starting, Stopping, RequestStages,
         FilesFollowMain, DrainedBeforeRemoval, Tracked, Serving
<1>8. ASSUME Notify
      PROVE  FilesFollowMain' /\ DrainedBeforeRemoval'
  BY <1>8 DEF Notify, At, Alive, Goto, setting, ideVars, outVars, TypeOK,
         Stages, Starting, Stopping, RequestStages, FilesFollowMain,
         DrainedBeforeRemoval, Tracked, Serving
<1>9. ASSUME Select
      PROVE  FilesFollowMain' /\ DrainedBeforeRemoval'
  BY <1>9 DEF Select, At, Alive, Goto, setting, ideVars, outVars, TypeOK,
         Stages, Starting, Stopping, RequestStages, FilesFollowMain,
         DrainedBeforeRemoval, Tracked, Serving
<1>10. ASSUME Shutdown
      PROVE  FilesFollowMain' /\ DrainedBeforeRemoval'
  BY <1>10 DEF Shutdown, At, Alive, Goto, setting, ideVars, outVars, TypeOK,
         Stages, Starting, Stopping, RequestStages, FilesFollowMain,
         DrainedBeforeRemoval, Tracked, Serving
<1>11. ASSUME Drain
      PROVE  FilesFollowMain' /\ DrainedBeforeRemoval'
  BY <1>11 DEF Drain, At, Alive, Goto, Tracked, procVars, setting, ideVars,
         outVars, TypeOK, Stages, Starting, Stopping, RequestStages,
         FilesFollowMain, DrainedBeforeRemoval, Serving
<1>12. ASSUME Remove
      PROVE  FilesFollowMain' /\ DrainedBeforeRemoval'
  BY <1>12 DEF Remove, At, Alive, Goto, procVars, setting, ideVars, outVars,
         TypeOK, Stages, Starting, Stopping, RequestStages, FilesFollowMain,
         DrainedBeforeRemoval, Tracked, Serving
<1>13. ASSUME Return
      PROVE  FilesFollowMain' /\ DrainedBeforeRemoval'
  BY <1>13 DEF Return, At, Alive, Die, mainVars, setting, ideVars, outVars,
         TypeOK, Stages, Starting, Stopping, RequestStages, FilesFollowMain,
         DrainedBeforeRemoval, Tracked, Serving
<1>14. ASSUME ReadCommand
      PROVE  FilesFollowMain' /\ DrainedBeforeRemoval'
  BY <1>14 DEF ReadCommand, Alive, mainVars, procVars, setting, ideVars,
         outVars, TypeOK, Stages, Starting, Stopping, RequestStages,
         FilesFollowMain, DrainedBeforeRemoval, Tracked, Serving
<1>15. ASSUME Announce
      PROVE  FilesFollowMain' /\ DrainedBeforeRemoval'
  BY <1>15 DEF Announce, Alive, Put, mainVars, procVars, setting, ideVars,
         TypeOK, Stages, Starting, Stopping, RequestStages, FilesFollowMain,
         DrainedBeforeRemoval, Tracked, Serving
<1>16. ASSUME AnnounceToNobody
      PROVE  FilesFollowMain' /\ DrainedBeforeRemoval'
  BY <1>16 DEF AnnounceToNobody, Alive, Die, BrokenPipe, mainVars, setting,
         ideVars, outVars, TypeOK, Stages, Starting, Stopping, RequestStages,
         FilesFollowMain, DrainedBeforeRemoval, Tracked, Serving
<1>17. ASSUME EndOfInput \/ InputFails
      PROVE  FilesFollowMain' /\ DrainedBeforeRemoval'
  BY <1>17 DEF EndOfInput, InputFails, Alive, mainVars, procVars, setting, ideVars,
         outVars, TypeOK, Stages, Starting, Stopping, RequestStages,
         FilesFollowMain, DrainedBeforeRemoval, Tracked, Serving
<1>18. ASSUME SendCommand
      PROVE  FilesFollowMain' /\ DrainedBeforeRemoval'
  BY <1>18 DEF SendCommand, mainVars, procVars, setting, outVars, TypeOK,
         Stages, Starting, Stopping, RequestStages, FilesFollowMain,
         DrainedBeforeRemoval, Tracked, Alive, Serving
<1>19. ASSUME ReadLine
      PROVE  FilesFollowMain' /\ DrainedBeforeRemoval'
  BY <1>19 DEF ReadLine, mainVars, procVars, setting, ideVars, TypeOK, Stages,
         Starting, Stopping, RequestStages, FilesFollowMain,
         DrainedBeforeRemoval, Tracked, Alive, Serving
<1>20. ASSUME CloseStdin
      PROVE  FilesFollowMain' /\ DrainedBeforeRemoval'
  BY <1>20 DEF CloseStdin, Alive, NoteStop, mainVars, procVars, setting,
         outVars, TypeOK, Stages, Starting, Stopping, RequestStages,
         FilesFollowMain, DrainedBeforeRemoval, Tracked, Serving
<1>21. ASSUME Crash
      PROVE  FilesFollowMain' /\ DrainedBeforeRemoval'
  BY <1>21 DEF Crash, Alive, NoteStop, mainVars, procVars, setting, outVars,
         TypeOK, Stages, Starting, Stopping, RequestStages, FilesFollowMain,
         DrainedBeforeRemoval, Tracked, Serving
<1>22. ASSUME Signal
      PROVE  FilesFollowMain' /\ DrainedBeforeRemoval'
  BY <1>22 DEF Signal, Alive, Die, NoteStop, mainVars, procVars, setting,
         outVars, TypeOK, Stages, Starting, Stopping, RequestStages,
         FilesFollowMain, DrainedBeforeRemoval, Tracked, Serving
<1>23. ASSUME Kill
      PROVE  FilesFollowMain' /\ DrainedBeforeRemoval'
  BY <1>23 DEF Kill, Alive, Die, mainVars, setting, ideVars, outVars, TypeOK,
         Stages, Starting, Stopping, RequestStages, FilesFollowMain,
         DrainedBeforeRemoval, Tracked, Serving
<1>24. ASSUME NEW r \in Requests, Arrive(r)
      PROVE  FilesFollowMain' /\ DrainedBeforeRemoval'
  BY <1>24 DEF Arrive, Alive, Reachable, Announced, mainVars, procVars,
         setting, ideVars, outVars, Starting, TypeOK, Stages, Stopping,
         RequestStages, FilesFollowMain, DrainedBeforeRemoval, Tracked,
         Serving
<1>25. ASSUME NEW r \in Requests, Complete(r)
      PROVE  FilesFollowMain' /\ DrainedBeforeRemoval'
  BY <1>25 DEF Complete, Alive, mainVars, procVars, setting, ideVars, outVars,
         TypeOK, Stages, Starting, Stopping, RequestStages, FilesFollowMain,
         DrainedBeforeRemoval, Tracked, Serving
<1>26. ASSUME NEW r \in Requests, WriteRow(r)
      PROVE  FilesFollowMain' /\ DrainedBeforeRemoval'
  BY <1>26 DEF WriteRow, Alive, Put, mainVars, procVars, setting, ideVars,
         TypeOK, Stages, Starting, Stopping, RequestStages, FilesFollowMain,
         DrainedBeforeRemoval, Tracked, Serving
<1>27. ASSUME NEW r \in Requests, RowToNobody(r)
      PROVE  FilesFollowMain' /\ DrainedBeforeRemoval'
  BY <1>27 DEF RowToNobody, Alive, Die, BrokenPipe, mainVars, setting,
         ideVars, outVars, TypeOK, Stages, Starting, Stopping, RequestStages,
         FilesFollowMain, DrainedBeforeRemoval, Tracked, Serving
<1>28. ASSUME UNCHANGED vars
      PROVE  FilesFollowMain' /\ DrainedBeforeRemoval'
  BY <1>28 DEF vars, mainVars, procVars, setting, ideVars, outVars, TypeOK,
         FilesFollowMain, DrainedBeforeRemoval, Tracked, Alive, Serving,
         Stages, Starting, Stopping, RequestStages
<1> QED
  BY <1>1, <1>2, <1>3, <1>4, <1>5, <1>6, <1>7, <1>8, <1>9, <1>10, <1>11,
     <1>12, <1>13, <1>14, <1>15, <1>16, <1>17, <1>18, <1>19, <1>20, <1>21,
     <1>22, <1>23, <1>24, <1>25, <1>26, <1>27, <1>28 DEF Next, Main, Control, Handler, Environment

(* The part about stops: a signal at "select" is queued, never fatal.         *)
LEMMA StopsStay ==
    ASSUME IInv, [Next]_vars
    PROVE  StopFollowsMain'
<1> USE DEF IInv
<1>1. ASSUME MakeDirectory
      PROVE  StopFollowsMain'
  BY <1>1 DEF MakeDirectory, At, Alive, Die, Goto, procVars, setting, ideVars,
         outVars, TypeOK, Stages, Starting, Stopping, RequestStages,
         StopFollowsMain
<1>2. ASSUME WriteCA
      PROVE  StopFollowsMain'
  BY <1>2 DEF WriteCA, At, Alive, procVars, setting, ideVars, outVars, TypeOK,
         Stages, Starting, Stopping, RequestStages, StopFollowsMain
<1>3. ASSUME Listen
      PROVE  StopFollowsMain'
  BY <1>3 DEF Listen, At, Alive, Goto, setting, ideVars, outVars, TypeOK,
         Stages, Starting, Stopping, RequestStages, StopFollowsMain
<1>4. ASSUME Abort
      PROVE  StopFollowsMain'
  BY <1>4 DEF Abort, At, Alive, Die, setting, ideVars, outVars, TypeOK,
         Stages, Starting, Stopping, RequestStages, StopFollowsMain
<1>5. ASSUME BuildEnvironment
      PROVE  StopFollowsMain'
  BY <1>5 DEF BuildEnvironment, At, Alive, Goto, procVars, setting, ideVars,
         outVars, TypeOK, Stages, Starting, Stopping, RequestStages,
         StopFollowsMain
<1>6. ASSUME WriteReady
      PROVE  StopFollowsMain'
  BY <1>6 DEF WriteReady, At, Alive, Goto, Put, procVars, setting, ideVars,
         outVars, TypeOK, Stages, Starting, Stopping, RequestStages,
         StopFollowsMain
<1>7. ASSUME ReadyToNobody
      PROVE  StopFollowsMain'
  BY <1>7 DEF ReadyToNobody, At, Alive, Die, BrokenPipe, mainVars, setting,
         ideVars, outVars, TypeOK, Stages, Starting, Stopping, RequestStages,
         StopFollowsMain
<1>8. ASSUME Notify
      PROVE  StopFollowsMain'
  BY <1>8 DEF Notify, At, Alive, Goto, setting, ideVars, outVars, TypeOK,
         Stages, Starting, Stopping, RequestStages, StopFollowsMain
<1>9. ASSUME Select
      PROVE  StopFollowsMain'
  BY <1>9 DEF Select, At, Alive, Goto, setting, ideVars, outVars, TypeOK,
         Stages, Starting, Stopping, RequestStages, StopFollowsMain
<1>10. ASSUME Shutdown
      PROVE  StopFollowsMain'
  BY <1>10 DEF Shutdown, At, Alive, Goto, setting, ideVars, outVars, TypeOK,
         Stages, Starting, Stopping, RequestStages, StopFollowsMain
<1>11. ASSUME Drain
      PROVE  StopFollowsMain'
  BY <1>11 DEF Drain, At, Alive, Goto, Tracked, procVars, setting, ideVars,
         outVars, TypeOK, Stages, Starting, Stopping, RequestStages,
         StopFollowsMain
<1>12. ASSUME Remove
      PROVE  StopFollowsMain'
  BY <1>12 DEF Remove, At, Alive, Goto, procVars, setting, ideVars, outVars,
         TypeOK, Stages, Starting, Stopping, RequestStages, StopFollowsMain
<1>13. ASSUME Return
      PROVE  StopFollowsMain'
  BY <1>13 DEF Return, At, Alive, Die, mainVars, setting, ideVars, outVars,
         TypeOK, Stages, Starting, Stopping, RequestStages, StopFollowsMain
<1>14. ASSUME ReadCommand
      PROVE  StopFollowsMain'
  BY <1>14 DEF ReadCommand, Alive, mainVars, procVars, setting, ideVars,
         outVars, TypeOK, Stages, Starting, Stopping, RequestStages,
         StopFollowsMain
<1>15. ASSUME Announce
      PROVE  StopFollowsMain'
  BY <1>15 DEF Announce, Alive, Put, mainVars, procVars, setting, ideVars,
         TypeOK, Stages, Starting, Stopping, RequestStages, StopFollowsMain
<1>16. ASSUME AnnounceToNobody
      PROVE  StopFollowsMain'
  BY <1>16 DEF AnnounceToNobody, Alive, Die, BrokenPipe, mainVars, setting,
         ideVars, outVars, TypeOK, Stages, Starting, Stopping, RequestStages,
         StopFollowsMain
<1>17. ASSUME EndOfInput \/ InputFails
      PROVE  StopFollowsMain'
  BY <1>17 DEF EndOfInput, InputFails, Alive, mainVars, procVars, setting, ideVars,
         outVars, TypeOK, Stages, Starting, Stopping, RequestStages,
         StopFollowsMain
<1>18. ASSUME SendCommand
      PROVE  StopFollowsMain'
  BY <1>18 DEF SendCommand, mainVars, procVars, setting, outVars, TypeOK,
         Stages, Starting, Stopping, RequestStages, StopFollowsMain, Alive
<1>19. ASSUME ReadLine
      PROVE  StopFollowsMain'
  BY <1>19 DEF ReadLine, mainVars, procVars, setting, ideVars, TypeOK, Stages,
         Starting, Stopping, RequestStages, StopFollowsMain, Alive
<1>20. ASSUME CloseStdin
      PROVE  StopFollowsMain'
  BY <1>20 DEF CloseStdin, Alive, NoteStop, mainVars, procVars, setting,
         outVars, TypeOK, Stages, Starting, Stopping, RequestStages,
         StopFollowsMain
<1>21. ASSUME Crash
      PROVE  StopFollowsMain'
  BY <1>21 DEF Crash, Alive, NoteStop, mainVars, procVars, setting, outVars,
         TypeOK, Stages, Starting, Stopping, RequestStages, StopFollowsMain
<1>22. ASSUME Signal
      PROVE  StopFollowsMain'
  BY <1>22 DEF Signal, Alive, Die, NoteStop, mainVars, procVars, setting,
         outVars, TypeOK, Stages, Starting, Stopping, RequestStages,
         StopFollowsMain
<1>23. ASSUME Kill
      PROVE  StopFollowsMain'
  BY <1>23 DEF Kill, Alive, Die, mainVars, setting, ideVars, outVars, TypeOK,
         Stages, Starting, Stopping, RequestStages, StopFollowsMain
<1>24. ASSUME NEW r \in Requests, Arrive(r)
      PROVE  StopFollowsMain'
  BY <1>24 DEF Arrive, Alive, Reachable, Announced, mainVars, procVars,
         setting, ideVars, outVars, Starting, TypeOK, Stages, Stopping,
         RequestStages, StopFollowsMain
<1>25. ASSUME NEW r \in Requests, Complete(r)
      PROVE  StopFollowsMain'
  BY <1>25 DEF Complete, Alive, mainVars, procVars, setting, ideVars, outVars,
         TypeOK, Stages, Starting, Stopping, RequestStages, StopFollowsMain
<1>26. ASSUME NEW r \in Requests, WriteRow(r)
      PROVE  StopFollowsMain'
  BY <1>26 DEF WriteRow, Alive, Put, mainVars, procVars, setting, ideVars,
         TypeOK, Stages, Starting, Stopping, RequestStages, StopFollowsMain
<1>27. ASSUME NEW r \in Requests, RowToNobody(r)
      PROVE  StopFollowsMain'
  BY <1>27 DEF RowToNobody, Alive, Die, BrokenPipe, mainVars, setting,
         ideVars, outVars, TypeOK, Stages, Starting, Stopping, RequestStages,
         StopFollowsMain
<1>28. ASSUME UNCHANGED vars
      PROVE  StopFollowsMain'
  BY <1>28 DEF vars, mainVars, procVars, setting, ideVars, outVars, TypeOK,
         StopFollowsMain, Alive, Stopping, Tracked, Stages, Starting,
         RequestStages
<1> QED
  BY <1>1, <1>2, <1>3, <1>4, <1>5, <1>6, <1>7, <1>8, <1>9, <1>10, <1>11,
     <1>12, <1>13, <1>14, <1>15, <1>16, <1>17, <1>18, <1>19, <1>20, <1>21,
     <1>22, <1>23, <1>24, <1>25, <1>26, <1>27, <1>28 DEF Next, Main, Control, Handler, Environment

(* The part about the output: while nothing is written, no request has come.  *)
LEMMA OutputStays ==
    ASSUME IInv, [Next]_vars
    PROVE  OutputFollowsMain' /\ FirstLineIsReady'
<1> USE DEF IInv
<1>1. ASSUME MakeDirectory
      PROVE  OutputFollowsMain' /\ FirstLineIsReady'
  BY <1>1 DEF MakeDirectory, At, Alive, Die, Goto, procVars, setting, ideVars,
         outVars, TypeOK, Stages, Starting, Stopping, RequestStages,
         FilesFollowMain, OutputFollowsMain, FirstLineIsReady, Serving
<1>2. ASSUME WriteCA
      PROVE  OutputFollowsMain' /\ FirstLineIsReady'
  BY <1>2 DEF WriteCA, At, Alive, procVars, setting, ideVars, outVars, TypeOK,
         Stages, Starting, Stopping, RequestStages, FilesFollowMain,
         OutputFollowsMain, FirstLineIsReady, Serving
<1>3. ASSUME Listen
      PROVE  OutputFollowsMain' /\ FirstLineIsReady'
  BY <1>3 DEF Listen, At, Alive, Goto, setting, ideVars, outVars, TypeOK,
         Stages, Starting, Stopping, RequestStages, FilesFollowMain,
         OutputFollowsMain, FirstLineIsReady, Serving
<1>4. ASSUME Abort
      PROVE  OutputFollowsMain' /\ FirstLineIsReady'
  BY <1>4 DEF Abort, At, Alive, Die, setting, ideVars, outVars, TypeOK,
         Stages, Starting, Stopping, RequestStages, FilesFollowMain,
         OutputFollowsMain, FirstLineIsReady, Serving
<1>5. ASSUME BuildEnvironment
      PROVE  OutputFollowsMain' /\ FirstLineIsReady'
  BY <1>5 DEF BuildEnvironment, At, Alive, Goto, procVars, setting, ideVars,
         outVars, TypeOK, Stages, Starting, Stopping, RequestStages,
         FilesFollowMain, OutputFollowsMain, FirstLineIsReady, Serving
<1>6. ASSUME WriteReady
      PROVE  OutputFollowsMain' /\ FirstLineIsReady'
  BY <1>6 DEF WriteReady, At, Alive, Goto, Put, procVars, setting, ideVars,
         outVars, TypeOK, Stages, Starting, Stopping, RequestStages,
         FilesFollowMain, OutputFollowsMain, FirstLineIsReady, Serving
<1>7. ASSUME ReadyToNobody
      PROVE  OutputFollowsMain' /\ FirstLineIsReady'
  BY <1>7 DEF ReadyToNobody, At, Alive, Die, BrokenPipe, mainVars, setting,
         ideVars, outVars, TypeOK, Stages, Starting, Stopping, RequestStages,
         FilesFollowMain, OutputFollowsMain, FirstLineIsReady, Serving
<1>8. ASSUME Notify
      PROVE  OutputFollowsMain' /\ FirstLineIsReady'
  BY <1>8 DEF Notify, At, Alive, Goto, setting, ideVars, outVars, TypeOK,
         Stages, Starting, Stopping, RequestStages, FilesFollowMain,
         OutputFollowsMain, FirstLineIsReady, Serving
<1>9. ASSUME Select
      PROVE  OutputFollowsMain' /\ FirstLineIsReady'
  BY <1>9 DEF Select, At, Alive, Goto, setting, ideVars, outVars, TypeOK,
         Stages, Starting, Stopping, RequestStages, FilesFollowMain,
         OutputFollowsMain, FirstLineIsReady, Serving
<1>10. ASSUME Shutdown
      PROVE  OutputFollowsMain' /\ FirstLineIsReady'
  BY <1>10 DEF Shutdown, At, Alive, Goto, setting, ideVars, outVars, TypeOK,
         Stages, Starting, Stopping, RequestStages, FilesFollowMain,
         OutputFollowsMain, FirstLineIsReady, Serving
<1>11. ASSUME Drain
      PROVE  OutputFollowsMain' /\ FirstLineIsReady'
  BY <1>11 DEF Drain, At, Alive, Goto, Tracked, procVars, setting, ideVars,
         outVars, TypeOK, Stages, Starting, Stopping, RequestStages,
         FilesFollowMain, OutputFollowsMain, FirstLineIsReady, Serving
<1>12. ASSUME Remove
      PROVE  OutputFollowsMain' /\ FirstLineIsReady'
  BY <1>12 DEF Remove, At, Alive, Goto, procVars, setting, ideVars, outVars,
         TypeOK, Stages, Starting, Stopping, RequestStages, FilesFollowMain,
         OutputFollowsMain, FirstLineIsReady, Serving
<1>13. ASSUME Return
      PROVE  OutputFollowsMain' /\ FirstLineIsReady'
  BY <1>13 DEF Return, At, Alive, Die, mainVars, setting, ideVars, outVars,
         TypeOK, Stages, Starting, Stopping, RequestStages, FilesFollowMain,
         OutputFollowsMain, FirstLineIsReady, Serving
<1>14. ASSUME ReadCommand
      PROVE  OutputFollowsMain' /\ FirstLineIsReady'
  BY <1>14 DEF ReadCommand, Alive, mainVars, procVars, setting, ideVars,
         outVars, TypeOK, Stages, Starting, Stopping, RequestStages,
         FilesFollowMain, OutputFollowsMain, FirstLineIsReady, Serving
<1>15. ASSUME Announce
      PROVE  OutputFollowsMain' /\ FirstLineIsReady'
  BY <1>15 DEF Announce, Alive, Put, mainVars, procVars, setting, ideVars,
         TypeOK, Stages, Starting, Stopping, RequestStages, FilesFollowMain,
         OutputFollowsMain, FirstLineIsReady, Serving
<1>16. ASSUME AnnounceToNobody
      PROVE  OutputFollowsMain' /\ FirstLineIsReady'
  BY <1>16 DEF AnnounceToNobody, Alive, Die, BrokenPipe, mainVars, setting,
         ideVars, outVars, TypeOK, Stages, Starting, Stopping, RequestStages,
         FilesFollowMain, OutputFollowsMain, FirstLineIsReady, Serving
<1>17. ASSUME EndOfInput \/ InputFails
      PROVE  OutputFollowsMain' /\ FirstLineIsReady'
  BY <1>17 DEF EndOfInput, InputFails, Alive, mainVars, procVars, setting, ideVars,
         outVars, TypeOK, Stages, Starting, Stopping, RequestStages,
         FilesFollowMain, OutputFollowsMain, FirstLineIsReady, Serving
<1>18. ASSUME SendCommand
      PROVE  OutputFollowsMain' /\ FirstLineIsReady'
  BY <1>18 DEF SendCommand, mainVars, procVars, setting, outVars, TypeOK,
         Stages, Starting, Stopping, RequestStages, FilesFollowMain,
         OutputFollowsMain, FirstLineIsReady, Serving, Alive
<1>19. ASSUME ReadLine
      PROVE  OutputFollowsMain' /\ FirstLineIsReady'
  BY <1>19 DEF ReadLine, mainVars, procVars, setting, ideVars, TypeOK, Stages,
         Starting, Stopping, RequestStages, FilesFollowMain,
         OutputFollowsMain, FirstLineIsReady, Serving, Alive
<1>20. ASSUME CloseStdin
      PROVE  OutputFollowsMain' /\ FirstLineIsReady'
  BY <1>20 DEF CloseStdin, Alive, NoteStop, mainVars, procVars, setting,
         outVars, TypeOK, Stages, Starting, Stopping, RequestStages,
         FilesFollowMain, OutputFollowsMain, FirstLineIsReady, Serving
<1>21. ASSUME Crash
      PROVE  OutputFollowsMain' /\ FirstLineIsReady'
  BY <1>21 DEF Crash, Alive, NoteStop, mainVars, procVars, setting, outVars,
         TypeOK, Stages, Starting, Stopping, RequestStages, FilesFollowMain,
         OutputFollowsMain, FirstLineIsReady, Serving
<1>22. ASSUME Signal
      PROVE  OutputFollowsMain' /\ FirstLineIsReady'
  BY <1>22 DEF Signal, Alive, Die, NoteStop, mainVars, procVars, setting,
         outVars, TypeOK, Stages, Starting, Stopping, RequestStages,
         FilesFollowMain, OutputFollowsMain, FirstLineIsReady, Serving
<1>23. ASSUME Kill
      PROVE  OutputFollowsMain' /\ FirstLineIsReady'
  BY <1>23 DEF Kill, Alive, Die, mainVars, setting, ideVars, outVars, TypeOK,
         Stages, Starting, Stopping, RequestStages, FilesFollowMain,
         OutputFollowsMain, FirstLineIsReady, Serving
<1>24. ASSUME NEW r \in Requests, Arrive(r)
      PROVE  OutputFollowsMain' /\ FirstLineIsReady'
  BY <1>24 DEF Arrive, Alive, Reachable, Announced, mainVars, procVars,
         setting, ideVars, outVars, Starting, TypeOK, Stages, Stopping,
         RequestStages, FilesFollowMain, OutputFollowsMain, FirstLineIsReady,
         Serving
<1>25. ASSUME NEW r \in Requests, Complete(r)
      PROVE  OutputFollowsMain' /\ FirstLineIsReady'
  BY <1>25 DEF Complete, Alive, mainVars, procVars, setting, ideVars, outVars,
         TypeOK, Stages, Starting, Stopping, RequestStages, FilesFollowMain,
         OutputFollowsMain, FirstLineIsReady, Serving
<1>26. ASSUME NEW r \in Requests, WriteRow(r)
      PROVE  OutputFollowsMain' /\ FirstLineIsReady'
  BY <1>26 DEF WriteRow, Alive, Put, mainVars, procVars, setting, ideVars,
         TypeOK, Stages, Starting, Stopping, RequestStages, FilesFollowMain,
         OutputFollowsMain, FirstLineIsReady, Serving
<1>27. ASSUME NEW r \in Requests, RowToNobody(r)
      PROVE  OutputFollowsMain' /\ FirstLineIsReady'
  BY <1>27 DEF RowToNobody, Alive, Die, BrokenPipe, mainVars, setting,
         ideVars, outVars, TypeOK, Stages, Starting, Stopping, RequestStages,
         FilesFollowMain, OutputFollowsMain, FirstLineIsReady, Serving
<1>28. ASSUME UNCHANGED vars
      PROVE  OutputFollowsMain' /\ FirstLineIsReady'
  BY <1>28 DEF vars, mainVars, procVars, setting, ideVars, outVars, TypeOK,
         FilesFollowMain, OutputFollowsMain, FirstLineIsReady, Serving, Alive,
         Tracked, Stages, Starting, Stopping, RequestStages
<1> QED
  BY <1>1, <1>2, <1>3, <1>4, <1>5, <1>6, <1>7, <1>8, <1>9, <1>10, <1>11,
     <1>12, <1>13, <1>14, <1>15, <1>16, <1>17, <1>18, <1>19, <1>20, <1>21,
     <1>22, <1>23, <1>24, <1>25, <1>26, <1>27, <1>28 DEF Next, Main, Control, Handler, Environment
-----------------------------------------------------------------------------
(* Type correctness for any set of requests and any bounds.                   *)
THEOREM TypeCorrect == Spec => []TypeOK
<1>1. Init => TypeOK
  BY InitialTypes
<1>2. TypeOK /\ [Next]_vars => TypeOK'
  BY TypeStays
<1> QED
  BY <1>1, <1>2, PTL DEF Spec

(* The invariant is inductive.                                                *)
LEMMA Inductive == Spec => []IInv
<1>1. Init => IInv
  BY InitialTypes
  DEF Init, IInv, TypeOK, Stages, Starting, Stopping, RequestStages, Alive,
      FilesFollowMain, StopFollowsMain, OutputFollowsMain, DrainedBeforeRemoval,
      FirstLineIsReady, Serving
<1>2. IInv /\ [Next]_vars => IInv'
  <2> SUFFICES ASSUME IInv, [Next]_vars
               PROVE  IInv'
    OBVIOUS
  <2>1. TypeOK'
    BY TypeStays DEF IInv
  <2> QED
    BY <2>1, FilesStay, StopsStay, OutputStays DEF IInv
<1> QED
  BY <1>1, <1>2, PTL DEF Spec

(* The certificate, trust store and overlay exist while the proxy accepts     *)
(* connections.                                                               *)
THEOREM FilesStayReadable == Spec => []FilesOutliveListener
<1>1. IInv => FilesOutliveListener
  BY DEF IInv, FilesFollowMain, FilesOutliveListener, Serving
<1> QED
  BY <1>1, Inductive, PTL

(* A process that returns by itself, on any path, leaves no files.            *)
THEOREM ReturnsClean == Spec => []OrderlyExitLeavesNothing
<1>1. IInv => OrderlyExitLeavesNothing
  BY DEF IInv, FilesFollowMain, OrderlyExitLeavesNothing
<1> QED
  BY <1>1, Inductive, PTL

(* A single stop of a serving engine ends without an error and without files. *)
THEOREM SingleStopIsClean == Spec => []OneStopCleansUp
<1>1. IInv => OneStopCleansUp
  BY DEF IInv, FilesFollowMain, StopFollowsMain, OneStopCleansUp
<1> QED
  BY <1>1, Inductive, PTL

(* Files are removed after the tracked connections are served, unless the     *)
(* deadline of Shutdown has passed.                                           *)
THEOREM RemovalWaits == Spec => []DrainedBeforeRemoval
<1>1. IInv => DrainedBeforeRemoval
  BY DEF IInv
<1> QED
  BY <1>1, Inductive, PTL

(* Unless Environment's tools use the proxy, the first line is "ready".       *)
THEOREM ReadyComesFirst == Spec => []FirstLineIsReady
<1>1. IInv => FirstLineIsReady
  BY DEF IInv
<1> QED
  BY <1>1, Inductive, PTL

-----------------------------------------------------------------------------
(* The engine implements its contract. *)

(* What the contract sees is a function of five variables.                    *)
LEMMA ContractStutters ==
    ASSUME UNCHANGED <<pc, code, death, temp, listening>>
    PROVE  UNCHANGED Contract!vars
BY DEF Contract!vars, ToldAddress, Progress

(* An end the process did not choose is the Cut of the contract.              *)
LEMMA DyingCuts ==
    ASSUME Alive, UNCHANGED <<pc, code, temp>>,
           NEW cause \in {"signal", "sigkill", "sigpipe"}, Die(cause)
    PROVE  Contract!Cut
BY DEF Alive, Die, Contract!Cut, ToldAddress, Progress

(* Before the listener opens and after it is closed nothing is accepted.      *)
LEMMA NotServing ==
    ASSUME IInv, pc \notin Serving
    PROVE  listening = FALSE
<1>1. ~listening
  BY DEF IInv, FilesFollowMain
<1> QED
  BY <1>1, Zenon DEF IInv, TypeOK

(* The steps of the main goroutine that the contract sees.                    *)
LEMMA MainKeepsContract ==
    ASSUME IInv, Main
    PROVE  Contract!Next \/ UNCHANGED Contract!vars
<1> USE DEF At, Alive, Goto, ToldAddress, Progress, Starting, Stopping, IInv,
            FilesFollowMain, Serving
<1>1. ASSUME MakeDirectory
      PROVE  Contract!Prepare \/ Contract!Return
  BY <1>1, NotServing DEF MakeDirectory, Die, procVars, Contract!Prepare, Contract!Return
<1>2. ASSUME Listen
      PROVE  Contract!Open \/ UNCHANGED Contract!vars
  BY <1>2 DEF Listen, Contract!Open, Contract!vars
<1>3. ASSUME Abort
      PROVE  Contract!GiveUp
  BY <1>3, NotServing DEF Abort, Die, Contract!GiveUp
<1>4. ASSUME WriteReady
      PROVE  Contract!Tell \/ UNCHANGED Contract!vars
  BY <1>4 DEF WriteReady, procVars, Contract!Tell, Contract!vars
<1>5. ASSUME Shutdown
      PROVE  Contract!Close
  BY <1>5 DEF Shutdown, Contract!Close
<1>6. ASSUME Remove
      PROVE  Contract!Clean
  BY <1>6 DEF Remove, procVars, Contract!Clean
<1>7. ASSUME Return
      PROVE  Contract!Return
  BY <1>7, NotServing DEF Return, Die, mainVars, Contract!Return
<1>8. ASSUME WriteCA \/ BuildEnvironment \/ Notify \/ Select \/ Drain
      PROVE  UNCHANGED Contract!vars
  BY <1>8 DEF WriteCA, BuildEnvironment, Notify, Select, Drain, procVars, Contract!vars
<1>9. ASSUME ReadyToNobody
      PROVE  Contract!Cut
  BY <1>9, DyingCuts DEF ReadyToNobody, BrokenPipe, mainVars
<1> QED
  BY <1>1, <1>2, <1>3, <1>4, <1>5, <1>6, <1>7, <1>8, <1>9 DEF Main, Contract!Next

(* The other goroutines and the environment can only end the process.         *)
LEMMA OthersKeepContract ==
    ASSUME Control \/ (\E r \in Requests : Handler(r)) \/ Environment
    PROVE  Contract!Next \/ UNCHANGED Contract!vars
<1>1. ASSUME \/ AnnounceToNobody
             \/ \E r \in Requests : RowToNobody(r)
             \/ Kill
      PROVE  Contract!Cut
  BY <1>1, DyingCuts DEF AnnounceToNobody, RowToNobody, Kill, BrokenPipe, mainVars
<1>2. ASSUME Signal
      PROVE  Contract!Cut \/ UNCHANGED Contract!vars
  BY <1>2, DyingCuts, ContractStutters DEF Signal, mainVars, procVars
<1>3. ASSUME \/ ReadCommand \/ Announce \/ EndOfInput \/ InputFails
             \/ \E r \in Requests : Arrive(r) \/ Complete(r) \/ WriteRow(r)
             \/ SendCommand \/ ReadLine \/ CloseStdin \/ Crash
      PROVE  UNCHANGED Contract!vars
  BY <1>3, ContractStutters
  DEF ReadCommand, Announce, EndOfInput, InputFails, Arrive, Complete, WriteRow, SendCommand,
      ReadLine, CloseStdin, Crash, mainVars, procVars
<1> QED
  BY <1>1, <1>2, <1>3 DEF Control, Handler, Environment, Contract!Next

(* Whatever fails, whenever it is stopped or killed, and for any number of    *)
(* requests, an engine behaves as its contract allows.                        *)
THEOREM EngineKeepsContract == Spec => KeepsContract
<1>1. Init => Contract!Init
  BY DEF Init, Contract!Init, ToldAddress, Progress, Stopping
<1>2. IInv /\ [Next]_vars => [Contract!Next]_(Contract!vars)
  <2>1. CASE Next
    BY <2>1, MainKeepsContract, OthersKeepContract DEF Next
  <2>2. CASE UNCHANGED vars
    BY <2>2, ContractStutters DEF vars, mainVars, procVars
  <2> QED
    BY <2>1, <2>2
<1> QED
  BY <1>1, <1>2, Inductive, PTL DEF Spec, KeepsContract, Contract!Spec

-----------------------------------------------------------------------------
(* A stop that was asked for: what StopIsHeard rests on but for fairness.     *)

\* While the engine starts and serves, a stop it was sent is in the channel or
\* at the end of stdin; from Notify on somebody looks for the latter.
StopIsKept ==
    /\ Alive /\ stops > 0 /\ pc \in Starting \cup {"select"}
          => (notified /\ signals > 0) \/ (lifetimeStdin /\ stdin = "closed")
    /\ pc = "select" /\ lifetimeStdin => control # "none"
    /\ pc \in Starting => control = "none"

(* Only Select takes a stop away, and it heeds it.                            *)
LEMMA StopStaysKept == Spec => []StopIsKept
<1>1. Init => StopIsKept
  BY DEF Init, StopIsKept, Starting
<1>2. TypeOK /\ StopIsKept /\ [Next]_vars => StopIsKept'
  <2> SUFFICES ASSUME TypeOK, StopIsKept, [Next]_vars PROVE StopIsKept'
    OBVIOUS
  <2>1. ASSUME UNCHANGED <<death, stops, notified, signals, lifetimeStdin, stdin, control>>,
               pc' = pc \/ pc' = "abort" \/ pc' \in Stopping
                  \/ (pc \in Starting /\ pc' \in Starting)
        PROVE  StopIsKept'
    BY <2>1 DEF StopIsKept, Alive, Starting, Stopping
  <2>2. ASSUME death' # "alive", UNCHANGED <<pc, lifetimeStdin, control>> PROVE StopIsKept'
    BY <2>2 DEF StopIsKept, Alive
  <2>3. ASSUME UNCHANGED <<pc, death, stops, notified, signals, lifetimeStdin, stdin>>,
               control # "none", control' # "none"
        PROVE  StopIsKept'
    BY <2>3 DEF StopIsKept, Alive
  <2>4. CASE MakeDirectory
    <3>1. CASE death' = "exit" /\ UNCHANGED <<pc, lifetimeStdin, control>>
      BY <2>2, <3>1
    <3>2. CASE pc = "authority" /\ pc' = "writeCA" /\ UNCHANGED procVars
      BY <2>1, <2>4, <3>2 DEF MakeDirectory, procVars, ideVars, setting, Starting
    <3> QED
      BY <2>4, <3>1, <3>2 DEF MakeDirectory, At, Goto, Die, ideVars, setting
  <2>5. CASE WriteCA \/ Listen \/ BuildEnvironment
    <3>1. /\ UNCHANGED <<death, stops, notified, signals, lifetimeStdin, stdin, control>>
          /\ pc \in Starting /\ (pc' \in Starting \/ pc' = "abort")
      BY <2>5 DEF WriteCA, Listen, BuildEnvironment, At, Goto, procVars, ideVars, setting, Starting
    <3> QED
      BY <2>1, <3>1
  <2>6. CASE WriteReady
    <3>1. /\ UNCHANGED <<death, stops, notified, signals, lifetimeStdin, stdin, control>>
          /\ pc \in Starting /\ (pc' \in Starting \/ pc' \in Stopping)
      BY <2>6 DEF WriteReady, At, Goto, procVars, ideVars, setting, Starting, Stopping
    <3> QED
      BY <2>1, <3>1
  <2>7. CASE Notify
    <3>1. /\ pc = "notify" /\ pc' = "select" /\ notified' = TRUE
          /\ control' = IF lifetimeStdin THEN "scan" ELSE "none"
          /\ UNCHANGED <<death, stops, signals, lifetimeStdin, stdin>>
      BY <2>7 DEF Notify, At, Goto, ideVars, setting
    <3> QED
      BY <3>1 DEF StopIsKept, Alive, Starting
  <2>8. CASE Select \/ Shutdown \/ Drain \/ Remove
    <3>1. pc' \in Stopping
      BY <2>8 DEF Select, Shutdown, Drain, Remove, Goto, Stopping
    <3> QED
      BY <3>1 DEF StopIsKept, Starting, Stopping
  <2>9. CASE \/ Abort \/ Return \/ ReadyToNobody \/ AnnounceToNobody \/ Kill
             \/ \E r \in Requests : RowToNobody(r)
    <3>1. death' # "alive" /\ UNCHANGED <<pc, lifetimeStdin, control>>
      BY <2>9 DEF Abort, Return, ReadyToNobody, AnnounceToNobody, Kill, RowToNobody, BrokenPipe, Die,
         mainVars, ideVars, setting
    <3> QED
      BY <2>2, <3>1
  <2>10. CASE ReadCommand \/ Announce \/ EndOfInput \/ InputFails
    <3>1. /\ UNCHANGED <<pc, death, stops, notified, signals, lifetimeStdin, stdin>>
          /\ control # "none" /\ control' # "none"
      BY <2>10 DEF ReadCommand, Announce, EndOfInput, InputFails, mainVars, procVars, ideVars, setting
    <3> QED
      BY <2>3, <3>1
  <2>11. CASE CloseStdin \/ Crash
    <3>1. /\ UNCHANGED <<pc, death, notified, signals, lifetimeStdin, control>> /\ stdin' = "closed"
          /\ UNCHANGED stops \/ lifetimeStdin
      BY <2>11 DEF CloseStdin, Crash, NoteStop, mainVars, procVars, setting
    <3> QED
      BY <3>1 DEF StopIsKept, Alive
  <2>12. CASE Signal
    <3>1. UNCHANGED <<pc, lifetimeStdin, control>>
      BY <2>12 DEF Signal, mainVars, setting
    <3>2. CASE notified
      <4>1. notified' = notified /\ signals' > 0
        BY <2>12, <3>2 DEF Signal, procVars, TypeOK
      <4> QED
        BY <3>1, <3>2, <4>1 DEF StopIsKept
    <3>3. CASE ~notified
      BY <2>2, <2>12, <3>1, <3>3 DEF Signal, Die
    <3> QED
      BY <3>2, <3>3
  <2>13. CASE \/ \E r \in Requests : Arrive(r) \/ Complete(r) \/ WriteRow(r)
              \/ SendCommand \/ ReadLine \/ UNCHANGED vars
    BY <2>1, <2>13 DEF Arrive, Complete, WriteRow, SendCommand, ReadLine, vars, mainVars, procVars,
       ideVars, setting
  <2> QED
    BY <2>4, <2>5, <2>6, <2>7, <2>8, <2>9, <2>10, <2>11, <2>12, <2>13
    DEF Next, Main, Control, Handler, Environment
<1> QED
  BY <1>1, <1>2, TypeCorrect, PTL DEF Spec

(***************************************************************************)
(* No stop is forgotten, whenever it was asked for: at the select a signal *)
(* is there to be taken, or the end of stdin was met, or the control       *)
(* goroutine is on its way to it, with commands to read before or a state  *)
(* line to write.                                                          *)
(***************************************************************************)
NoStopForgotten ==
    Alive /\ stops > 0 /\ pc = "select" =>
        \/ signals > 0 \/ control = "done"
        \/ lifetimeStdin /\ stdin = "closed" /\ control \in {"scan", "announce"}

(* A stop asked for while the engine starts or serves is there to be heard    *)
(* (Notify before the control goroutine, the channel's capacity, Select).     *)
THEOREM StopIsRemembered == Spec => []NoStopForgotten
<1>1. TypeOK /\ StopIsKept => NoStopForgotten
  BY DEF TypeOK, StopIsKept, NoStopForgotten
<1> QED
  BY <1>1, TypeCorrect, StopStaysKept, PTL

\* Steps of the control goroutine to the end of stdin: two for each command.
Ahead == 2 * commands + (IF control = "done" THEN 0 ELSE IF control = "scan" THEN 1
                         ELSE IF control = "announce" THEN 2 ELSE 3)

(***************************************************************************)
(* The end of stdin is not put off: once it is closed every step of the    *)
(* control goroutine comes nearer to it and no other step goes back.       *)
(***************************************************************************)
EndOfStdinDrawsNear ==
    [][stdin = "closed" => /\ Ahead \in Nat /\ Ahead' <= Ahead
                           /\ ReadCommand \/ Announce \/ EndOfInput \/ InputFails => Ahead' < Ahead]_vars

(* Whatever was sent before it, the end of stdin is met after finitely many   *)
(* steps of the control goroutine (the scanner of proxyCommand).              *)
THEOREM EndOfStdinIsMet == Spec => EndOfStdinDrawsNear
<1> DEFINE Near == stdin = "closed" => /\ Ahead \in Nat /\ Ahead' <= Ahead
                                       /\ ReadCommand \/ Announce \/ EndOfInput \/ InputFails => Ahead' < Ahead
<1>1. TypeOK /\ StopIsKept /\ [Next]_vars => [Near]_vars
  <2> SUFFICES ASSUME TypeOK, StopIsKept, Next, stdin = "closed" PROVE Near
    OBVIOUS
  <2>0. commands \in Nat /\ control \in {"none", "scan", "announce", "done"}
    BY ConstantsAssumption DEF TypeOK
  <2>1. Ahead \in Nat
    BY <2>0 DEF Ahead
  <2>2. CASE ReadCommand \/ Announce \/ EndOfInput \/ InputFails
    <3>1. \/ control = "scan" /\ control' = "announce" /\ commands > 0 /\ commands' = commands - 1
          \/ control = "announce" /\ control' = "scan" /\ commands' = commands
          \/ control = "scan" /\ control' = "done" /\ commands' = commands
      BY <2>2 DEF ReadCommand, Announce, EndOfInput, InputFails
    <3>2. Ahead' < Ahead
      BY <2>0, <3>1 DEF Ahead
    <3>3. Ahead' \in Nat
      BY <2>0, <3>1 DEF Ahead
    <3> QED
      BY <2>1, <3>2, <3>3
  <2>3. CASE Notify
    <3>1. pc = "notify" /\ UNCHANGED commands /\ control' \in {"scan", "none"}
      BY <2>3 DEF Notify, At
    <3>2. control = "none"
      BY <3>1 DEF StopIsKept, Starting
    <3>3. Ahead = 2 * commands + 3 /\ Ahead' \in {2 * commands + 1, 2 * commands + 3}
      BY <2>0, <3>1, <3>2 DEF Ahead
    <3>4. ~(ReadCommand \/ Announce \/ EndOfInput \/ InputFails)
      BY <3>2 DEF ReadCommand, Announce, EndOfInput, InputFails
    <3> QED
      BY <2>0, <2>1, <3>3, <3>4
  <2>4. CASE ~(ReadCommand \/ Announce \/ EndOfInput \/ InputFails \/ Notify)
    <3>1. UNCHANGED <<commands, control>>
      BY <2>4 DEF Next, Main, Control, Handler, Environment, MakeDirectory, WriteCA, Listen, Abort,
         BuildEnvironment, WriteReady, ReadyToNobody, Select, Shutdown, Drain, Remove, Return,
         AnnounceToNobody, BrokenPipe, Arrive, Complete, WriteRow, RowToNobody, SendCommand, ReadLine,
         CloseStdin, Crash, Signal, Kill
    <3> QED
      BY <2>1, <2>4, <3>1 DEF Ahead
  <2> QED
    BY <2>2, <2>3, <2>4
<1> QED
  BY <1>1, TypeCorrect, StopStaysKept, PTL DEF Spec, EndOfStdinDrawsNear
===============================================================================
