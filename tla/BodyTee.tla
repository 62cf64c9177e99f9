------------------------------- MODULE BodyTee -------------------------------
(***************************************************************************)
(* How one request body is captured while it is forwarded: roundTrip       *)
(* installs a TeeReader over the client's body, the transport reads it in  *)
(* its own goroutine, every read is copied into a limitedBuffer, and       *)
(* finalizeEvent takes a snapshot of the buffer for the event              *)
(* (src/internal/capture/proxy.go).                                        *)
(*                                                                         *)
(* RoundTrip may return while the transport is still reading the body: an  *)
(* upstream may answer early.  Nothing synchronises finalizeEvent with the *)
(* writes of the tee, so a snapshot taken meanwhile reads two fields at    *)
(* two moments, and the slice header itself may be torn.                   *)
(***************************************************************************)
EXTENDS Integers, Sequences

CONSTANTS
    Byte,     \* values of a byte
    Garbage,  \* a byte read through a torn slice header
    Bodies,   \* request bodies considered
    Limit     \* --max-body

\* proxyCommand and runCommand refuse a limit below 1; NewProxy replaces it.
ASSUME LimitAssumption == Limit \in Nat \ {0}
ASSUME BodiesAssumption == Bodies \subseteq Seq(Byte)
ASSUME GarbageAssumption == Garbage \notin Byte

VARIABLES
    body,       \* the bytes the client sends
    forwarded,  \* how many of them the transport has read
    transport,  \* "sending" while its goroutine may read the body
    buffer,     \* capturedBody
    handler,    \* the request's handler: waiting, answered, copied, done
    event,      \* Body and BodyTruncated of the emitted event
    failed,     \* event.Error is set
    raced       \* history: the snapshot began while the transport was sending

teeVars == <<body, forwarded, transport, buffer, handler, event, failed, raced>>

EmptyBuffer == [data |-> <<>>, truncated |-> FALSE]

\* limitedBuffer.Write
Write(b, chunk) ==
    LET remaining == Limit - Len(b.data) IN
    IF remaining <= 0 THEN [data |-> b.data, truncated |-> TRUE]
    ELSE IF Len(chunk) > remaining
    THEN [data |-> b.data \o SubSeq(chunk, 1, remaining), truncated |-> TRUE]
    ELSE [data |-> b.data \o chunk, truncated |-> b.truncated]

-----------------------------------------------------------------------------
TeeInit ==
    /\ body \in Bodies
    /\ forwarded = 0
    /\ transport = "sending"
    /\ buffer = EmptyBuffer
    /\ handler = "waiting"
    /\ event = EmptyBuffer
    /\ failed = FALSE
    /\ raced = FALSE

\* The transport reads the next k bytes; the TeeReader writes a non-empty read
\* into the buffer before it returns.
Forward(k) ==
    /\ transport = "sending"
    /\ k <= Len(body) - forwarded
    /\ forwarded' = forwarded + k
    /\ buffer' = Write(buffer, SubSeq(body, forwarded + 1, forwarded + k))
    /\ UNCHANGED <<body, transport, handler, event, failed, raced>>

\* The transport reads EOF after the last byte.
BodyEnds ==
    /\ transport = "sending"
    /\ forwarded = Len(body)
    /\ transport' = "finished"
    /\ UNCHANGED <<body, forwarded, buffer, handler, event, failed, raced>>

\* The transport stops reading: the client went away, or the upstream
\* connection was closed after an early answer.
TransportStops ==
    /\ transport = "sending"
    /\ transport' = "stopped"
    /\ UNCHANGED <<body, forwarded, buffer, handler, event, failed, raced>>

\* RoundTrip returns a response, which the handler relays to the client.  With
\* an HTTP/1 or HTTP/2 upstream this may happen before the body is sent.
Answer ==
    /\ handler = "waiting"
    /\ handler' = "answered"
    /\ UNCHANGED <<body, forwarded, transport, buffer, event, failed, raced>>

\* RoundTrip fails, or copying or writing the response does.
AnswerFails ==
    /\ handler = "waiting"
    /\ handler' = "answered"
    /\ failed' = TRUE
    /\ UNCHANGED <<body, forwarded, transport, buffer, event, raced>>

\* finalizeEvent, event.Body: a copy of the bytes captured so far.
SnapshotBody ==
    /\ handler = "answered"
    /\ handler' = "copied"
    /\ event' = [event EXCEPT !.data = buffer.data]
    /\ raced' = (transport = "sending")
    /\ UNCHANGED <<body, forwarded, transport, buffer, failed>>

\* The same copy, overlapping an append that moves the data: a new length is
\* read with the old pointer.
SnapshotTorn ==
    /\ handler = "answered"
    /\ transport = "sending"
    /\ forwarded < Len(body)
    /\ Len(buffer.data) < Limit
    /\ handler' = "copied"
    /\ event' = [event EXCEPT !.data = Append(buffer.data, Garbage)]
    /\ raced' = TRUE
    /\ UNCHANGED <<body, forwarded, transport, buffer, failed>>

SnapshotFlagBug ==
    /\ handler = "copied"
    /\ handler' = "done"
    /\ event' = [event EXCEPT !.truncated = Len(event.data) >= Limit]
    /\ UNCHANGED <<body, forwarded, transport, buffer, failed, raced>>

\* finalizeEvent, event.BodyTruncated; then the event is emitted.
SnapshotFlag ==
    /\ handler = "copied"
    /\ handler' = "done"
    /\ event' = [event EXCEPT !.truncated = buffer.truncated]
    /\ UNCHANGED <<body, forwarded, transport, buffer, failed, raced>>

TeeNext ==
    \/ \E k \in 1..Len(body) : Forward(k)
    \/ BodyEnds
    \/ TransportStops
    \/ Answer
    \/ AnswerFails
    \/ SnapshotBody
    \/ SnapshotTorn
    \/ SnapshotFlag

TeeSpec == TeeInit /\ [][TeeNext]_teeVars

-----------------------------------------------------------------------------
Least(m, n) == IF m < n THEN m ELSE n

\* Every variable keeps its shape.
TypeOK ==
    /\ body \in Seq(Byte)
    /\ forwarded \in 0..Len(body)
    /\ transport \in {"sending", "finished", "stopped"}
    /\ buffer \in [data : Seq(Byte), truncated : BOOLEAN]
    /\ handler \in {"waiting", "answered", "copied", "done"}
    /\ event \in [data : Seq(Byte \cup {Garbage}), truncated : BOOLEAN]
    /\ failed \in BOOLEAN
    /\ raced \in BOOLEAN

(***************************************************************************)
(* The buffer holds exactly the first Limit bytes of what the transport    *)
(* has read, and says "truncated" if and only if there was more, however   *)
(* the stream is cut into reads.  (limitedBuffer.Write.)                   *)
(***************************************************************************)
CapturedIsPrefix ==
    /\ buffer.data = SubSeq(body, 1, Least(forwarded, Limit))
    /\ buffer.truncated <=> forwarded > Limit

(***************************************************************************)
(* At most --max-body bytes are retained, whatever races with the snapshot *)
(* (docs/architecture.md:70).                                              *)
(***************************************************************************)
RetentionIsBounded ==
    Len(buffer.data) <= Limit /\ Len(event.data) <= Limit

(***************************************************************************)
(* When the transport had finished with the body before the snapshot, the  *)
(* event tells the truth: an unmarked body is the whole body, a marked one *)
(* is its first Limit bytes.  (finalizeEvent after a normal round trip.)   *)
(***************************************************************************)
QuietSnapshotIsExact ==
    handler = "done" /\ ~raced /\ transport = "finished" =>
        /\ event.data = SubSeq(body, 1, Least(Len(body), Limit))
        /\ event.truncated <=> Len(body) > Limit

=============================================================================
