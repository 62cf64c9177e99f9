---------------------------- MODULE EngineContract ----------------------------
(***************************************************************************)
(* What an engine promises to whoever started it, and nothing of how: the  *)
(* files a child is pointed at (the certificate, the trust stores, the     *)
(* overlay) are there before the proxy accepts the first connection and    *)
(* until it accepts no more; the address is announced while the proxy      *)
(* accepts; a process that returns of its own accord leaves no file.       *)
(* EngineLifecycle implements this, and RunCommand, which shows some of    *)
(* its steps as one.                                                       *)
(***************************************************************************)

VARIABLES
    files,      \* the temporary files exist
    accepting,  \* the proxy accepts connections
    announced,  \* the user has been told the address
    process     \* "fresh", "up", "stopping", "clean", "returned" or "cut"

vars == <<files, accepting, announced, process>>

Init ==
    /\ files = FALSE /\ accepting = FALSE /\ announced = FALSE
    /\ process = "fresh"

\* The proxy may accept at once.
Prepare ==
    /\ process = "fresh" /\ process' = "up"
    /\ files' = TRUE /\ accepting' \in {accepting, TRUE}
    /\ UNCHANGED announced

Open ==
    /\ process = "up" /\ ~accepting /\ accepting' = TRUE
    /\ UNCHANGED <<files, announced, process>>

Tell ==
    /\ process = "up" /\ accepting
    /\ announced' = TRUE
    /\ UNCHANGED <<files, accepting, process>>

GiveUp ==
    /\ process = "up" /\ ~accepting /\ ~announced
    /\ files' = FALSE /\ process' = "returned"
    /\ UNCHANGED <<accepting, announced>>

Close ==
    /\ process = "up" /\ accepting
    /\ accepting' = FALSE /\ process' = "stopping"
    /\ UNCHANGED <<files, announced>>

\* The process may return at once.
Clean ==
    /\ process = "stopping" /\ process' \in {"clean", "returned"}
    /\ files' = FALSE
    /\ UNCHANGED <<accepting, announced>>

Return ==
    /\ process \in {"fresh", "clean"} /\ process' = "returned"
    /\ UNCHANGED <<files, accepting, announced>>

\* A signal nobody catches, a kill, a broken pipe.
Cut ==
    /\ process \notin {"returned", "cut"} /\ process' = "cut"
    /\ accepting' = FALSE
    /\ UNCHANGED <<files, announced>>

Next == \/ Prepare \/ Open \/ Tell \/ GiveUp
        \/ Close \/ Clean \/ Return \/ Cut

Spec == Init /\ [][Next]_vars
=============================================================================
