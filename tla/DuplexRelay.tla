------------------------------ MODULE DuplexRelay ------------------------------
(***************************************************************************)
(* Protocol switches and tunnels: handleHTTP1Switch, the switch of         *)
(* serveTLS's loop and the end of tunnel, and relayDuplex, which they      *)
(* share (src/internal/capture/proxy.go).                                  *)
(*                                                                         *)
(* A client may send before it sees the answer to its upgrade; those bytes *)
(* wait in the bufio.Reader that parsed the request (the ClientHello of a  *)
(* tunnel in the one that was peeked).  The peers (external) read what     *)
(* they get; bytes that Close finds in flight are the kernel's business.   *)
(***************************************************************************)
EXTENDS Naturals, Sequences

CONSTANTS MaxChunks  \* bound: chunks each peer sends

ASSUME MaxChunksAssumption == MaxChunks \in Nat

VARIABLES
    via,       \* "plain" (handleHTTP1Switch), "intercepted" (serveTLS) or "tunnel"
    pc,        \* stage of the handler
    held,      \* chunks of the client in the handler's reader
    wire,      \* per peer: chunks on their way to the proxy
    sent,      \* ... how many it has sent
    peer,      \* ... open, finished (it sends no more but reads), or gone
    received,  \* ... chunks the proxy has written to it
    copier,    \* per source: the goroutine that copies from it
    proxyEnd,  \* per peer: the proxy's connection to it is open
    events,    \* events emitted for the request
    first      \* history: the source whose copy was the first to end, if by end of file

vars == <<via, pc, held, wire, sent, peer, received, copier, proxyEnd, events, first>>

Peers == {"client", "upstream"}
Other(p) == IF p = "client" THEN "upstream" ELSE "client"
All(value) == [p \in Peers |-> value]

Init ==
    /\ via \in {"plain", "intercepted", "tunnel"}
    /\ pc = IF via = "tunnel" THEN "relay" ELSE "switch"
    /\ held \in {<<>>, <<1>>}
    /\ Len(held) <= MaxChunks
    /\ wire = All(<<>>) /\ received = All(<<>>)
    /\ sent = [p \in Peers |-> IF p = "client" THEN Len(held) ELSE 0]
    /\ peer = All("open") /\ proxyEnd = All(TRUE)
    /\ copier = All(IF via = "tunnel" THEN "copying" ELSE "off")
    /\ events = 0
    /\ first = "none"

-----------------------------------------------------------------------------
(* The handler. *)

Close(peers) == proxyEnd' = [p \in Peers |-> p \notin peers /\ proxyEnd[p]]

NotWritableLeaks ==
    /\ pc = "switch"
    /\ events' = events + 1
    /\ pc' = "failed"
    /\ UNCHANGED <<via, held, wire, sent, peer, received, copier, proxyEnd, first>>

\* The body of the 101 answer cannot be written to, or the plain request's
\* connection cannot be hijacked: net/http goes on with it.
NotWritable ==
    /\ pc = "switch"
    /\ Close(IF via = "plain" THEN {"upstream"} ELSE Peers)
    /\ events' = events + 1
    /\ pc' = "failed"
    /\ UNCHANGED <<via, held, wire, sent, peer, received, copier, first>>

\* The answer cannot be written or flushed: the deferred Close calls, in
\* serveTLS's case those of serveConnect.
SwitchFails ==
    /\ pc = "switch"
    /\ Close(Peers)
    /\ events' = events + 1
    /\ pc' = "failed"
    /\ UNCHANGED <<via, held, wire, sent, peer, received, copier, first>>

\* The answer is written and the event emitted before the relay begins.
Switch ==
    /\ pc = "switch"
    /\ events' = events + 1
    /\ copier' = All("copying")
    /\ pc' = "relay"
    /\ UNCHANGED <<via, held, wire, sent, peer, received, proxyEnd, first>>

CloseLate ==
    /\ pc = "relay"
    /\ copier = All("done")
    /\ Close(Peers)
    /\ pc' = "closing"
    /\ UNCHANGED <<via, held, wire, sent, peer, received, copier, events, first>>

\* relayDuplex: one of the copies is done, ...
CloseBoth ==
    /\ pc = "relay"
    /\ \E p \in Peers : copier[p] = "done"
    /\ Close(Peers)
    /\ pc' = "closing"
    /\ UNCHANGED <<via, held, wire, sent, peer, received, copier, events, first>>

\* ... then the other.
Join ==
    /\ pc = "closing"
    /\ copier = All("done")
    /\ pc' = "closed"
    /\ UNCHANGED <<via, held, wire, sent, peer, received, copier, proxyEnd, events, first>>

-----------------------------------------------------------------------------
(* The two copies. *)

\* The connection, past what its reader holds.
CopyRaw(p) ==
    /\ copier[p] = "copying" /\ proxyEnd[p] /\ proxyEnd[Other(p)]
    /\ peer[Other(p)] # "gone"
    /\ wire[p] # <<>>
    /\ received' = [received EXCEPT ![Other(p)] = Append(@, Head(wire[p]))]
    /\ wire' = [wire EXCEPT ![p] = Tail(@)]
    /\ UNCHANGED <<via, pc, held, sent, peer, copier, proxyEnd, events, first>>

Source(p) == IF p = "client" THEN held \o wire[p] ELSE wire[p]

\* io.Copy from peer p to the other; the client is read through the reader
\* that holds what came early.
Copy(p) ==
    /\ copier[p] = "copying" /\ proxyEnd[p] /\ proxyEnd[Other(p)]
    /\ peer[Other(p)] # "gone"
    /\ Source(p) # <<>>
    /\ received' = [received EXCEPT ![Other(p)] = Append(@, Head(Source(p)))]
    /\ IF p = "client" /\ held # <<>>
       THEN held' = Tail(held) /\ UNCHANGED wire
       ELSE wire' = [wire EXCEPT ![p] = Tail(@)] /\ UNCHANGED held
    /\ UNCHANGED <<via, pc, sent, peer, copier, proxyEnd, events, first>>

CopyDone(p) ==
    /\ copier' = [copier EXCEPT ![p] = "done"]
    /\ UNCHANGED <<via, pc, held, wire, sent, peer, received, proxyEnd, events>>

EndOfFile(p) ==
    /\ copier[p] = "copying" /\ proxyEnd[p]
    /\ peer[p] # "open" /\ Source(p) = <<>>
    /\ CopyDone(p)
    /\ first' = IF copier[Other(p)] = "copying" THEN p ELSE first

\* A read or write error: the peer has gone, or CloseBoth closed the connection.
CopyFails(p) ==
    /\ copier[p] = "copying"
    /\ \/ ~proxyEnd[p]
       \/ Source(p) # <<>> /\ (peer[Other(p)] = "gone" \/ ~proxyEnd[Other(p)])
    /\ CopyDone(p)
    /\ UNCHANGED first

-----------------------------------------------------------------------------
(* The peers. *)

Send(p) ==
    /\ peer[p] = "open" /\ proxyEnd[p]
    /\ pc # "switch"
    /\ sent[p] < MaxChunks
    /\ sent' = [sent EXCEPT ![p] = @ + 1]
    /\ wire' = [wire EXCEPT ![p] = Append(@, sent'[p])]
    /\ UNCHANGED <<via, pc, held, peer, received, copier, proxyEnd, events, first>>

\* It closes its side, for writing only or altogether.
Finish(p, how) ==
    /\ peer[p] = "open" \/ (peer[p] = "finished" /\ how = "gone")
    /\ peer' = [peer EXCEPT ![p] = how]
    /\ UNCHANGED <<via, pc, held, wire, sent, received, copier, proxyEnd, events, first>>

Relay ==
    \/ CloseBoth \/ Join
    \/ \E p \in Peers : Copy(p) \/ EndOfFile(p) \/ CopyFails(p)

Next ==
    \/ NotWritable \/ SwitchFails \/ Switch
    \/ Relay
    \/ \E p \in Peers : Send(p) \/ (\E how \in {"finished", "gone"} : Finish(p, how))

\* Goroutines that can run do run.
Spec == Init /\ [][Next]_vars /\ WF_vars(CloseBoth) /\ WF_vars(Join)
             /\ \A p \in Peers : WF_vars(Copy(p) \/ EndOfFile(p) \/ CopyFails(p))

-----------------------------------------------------------------------------
(***************************************************************************)
(* Each peer gets the other's bytes from the first on, those of the client *)
(* that came before the switch included, and without a gap; and from the   *)
(* peer that is the first to end its stream it gets all of them.  (The     *)
(* other direction is cut there, also for a peer that only half-closed.)   *)
(***************************************************************************)
StreamsArriveIntact ==
    \A p \in Peers :
        /\ received[Other(p)] = [i \in 1..Len(received[Other(p)]) |-> i]
        /\ first = p => Len(received[Other(p)]) = sent[p]

(***************************************************************************)
(* Whatever fails in a switch, one event is emitted for its request, and   *)
(* no connection is left open but the one net/http goes on to serve.       *)
(***************************************************************************)
SwitchLeavesNothingOpen ==
    pc \in {"failed", "closed"} =>
        /\ events = IF via = "tunnel" THEN 0 ELSE 1
        /\ ~proxyEnd["upstream"]
        /\ ~proxyEnd["client"] \/ (via = "plain" /\ pc = "failed")

(***************************************************************************)
(* A relay ends when either peer has ended its stream: neither copy is     *)
(* left waiting for a peer that has nothing to say (relayDuplex).          *)
(***************************************************************************)
RelayEnds == pc = "relay" /\ (\E p \in Peers : peer[p] # "open") ~> pc = "closed"
=============================================================================
