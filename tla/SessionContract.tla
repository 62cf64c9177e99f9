---------------------------- MODULE SessionContract ----------------------------
(***************************************************************************)
(* What the sessions of both plugins promise, whatever their fields,       *)
(* promises and threads are: at most one engine runs at a time; an engine  *)
(* is begun once, and told to stop only if it was begun; an application    *)
(* gets the proxy of an engine that was begun, and keeps it until it is    *)
(* over.  VSCodeSession and JetBrainsSession implement this.               *)
(***************************************************************************)
CONSTANTS Engines, Apps, None

VARIABLES
    begun,    \* engines for which a process was asked for
    running,  \* ... whose process runs
    told,     \* ... whose stdin was closed
    proxy     \* per application: the engine it is pointed at, or None

vars == <<begun, running, told, proxy>>

Init == begun = {} /\ running = {} /\ told = {} /\ proxy = [a \in Apps |-> None]

\* It may be that no process comes of it.
Begin(e) ==
    /\ e \notin begun /\ running = {}
    /\ begun' = begun \cup {e} /\ running' \in {{}, {e}}
    /\ UNCHANGED <<told, proxy>>

End(e) ==
    /\ running = {e} /\ running' = {}
    /\ UNCHANGED <<begun, told, proxy>>

Tell(e) == e \in begun /\ told' = told \cup {e}

Stop(e) == Tell(e) /\ UNCHANGED <<begun, running, proxy>>

\* Everyone who waited gets it at once.
Give(waiting, e) ==
    /\ e \in begun /\ \A a \in waiting : proxy[a] = None
    /\ proxy' = [a \in Apps |-> IF a \in waiting THEN e ELSE proxy[a]]
    /\ UNCHANGED <<begun, running, told>>

\* The last one to leave stops the engine.
Leave(a) ==
    /\ proxy[a] # None /\ proxy' = [proxy EXCEPT ![a] = None]
    /\ UNCHANGED told \/ \E e \in Engines : Tell(e)
    /\ UNCHANGED <<begun, running>>

Next ==
    \/ \E e \in Engines : Begin(e) \/ End(e) \/ Stop(e)
    \/ \E e \in Engines, waiting \in SUBSET Apps : Give(waiting, e)
    \/ \E a \in Apps : Leave(a)

Spec == Init /\ [][Next]_vars
=============================================================================
