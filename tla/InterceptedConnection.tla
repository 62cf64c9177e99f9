------------------------- MODULE InterceptedConnection -------------------------
(***************************************************************************)
(* The request loop of one intercepted HTTP/1.1 connection: serveTLS after *)
(* the handshake, with the round trip of each request and the reading of   *)
(* its body (src/internal/capture/proxy.go).                               *)
(*                                                                         *)
(* The loop parses request heads from a bufio.Reader.  The body it hands   *)
(* to roundTrip is a view of the SAME reader, which the transport reads in *)
(* a goroutine of its own and, when it gives up, drains by closing the     *)
(* body.  Nothing makes the loop wait for that goroutine, so after an      *)
(* answer that came early both take bytes from the reader: a data race,    *)
(* modelled by its mildest outcomes, where each chunk goes to one of them. *)
(*                                                                         *)
(* The client (external) is well behaved: it sends the next request when   *)
(* the last one is sent completely and answered.                           *)
(***************************************************************************)
EXTENDS Naturals, Sequences

CONSTANTS
    MaxRequests,  \* bound: requests on the connection
    MaxBody       \* bound: chunks of a request body

ASSUME BoundsAssumption == MaxRequests \in Nat \ {0} /\ MaxBody \in Nat

Requests == 1..MaxRequests

VARIABLES
    size,      \* chunks of each request's body
    sent,      \* the last chunk the client has sent: <<request, part>>
    wire,      \* chunks the proxy has received and nobody has read
    open,      \* the client has not closed its side
    pc,        \* read, malformed, roundTrip, respond, relay or closed
    current,   \* the request in the loop's hands, 0 before the first
    left,      \* chunks of its body that its body reader has still to take
    copying,   \* "forward" to the upstream, "drain", or "none": nobody reads it
    upstream,  \* per request: the body chunks the upstream received
    answers,   \* requests answered, in order
    events,    \* events emitted, in order; 0 is an error without request
    (* history *)
    early,     \* requests answered while their body was being read
    broken     \* requests whose round trip failed

clientVars == <<size, sent, open>>
loopVars   == <<pc, current, answers, events>>
bodyVars   == <<left, copying, upstream>>
vars == <<clientVars, wire, loopVars, bodyVars, early, broken>>

\* Part 0 of a request is its head; the others are chunks of its body.
Chunks == Requests \X (0..MaxBody)

Open == pc # "closed"

-----------------------------------------------------------------------------
(* Helpers. *)

\* One of the readers takes the next chunk, if the connection is open.
Take(chunk) ==
    /\ Open
    /\ wire # <<>>
    /\ chunk = Head(wire)
    /\ wire' = Tail(wire)

\* The loop returns; serveConnect's deferred Close ends the connection, and
\* whoever reads the body meets an error.
Leave ==
    /\ pc' = "closed"
    /\ copying' = "none"

Init ==
    /\ size \in [Requests -> 0..MaxBody]
    /\ sent = <<0, 0>>
    /\ wire = <<>>
    /\ open = TRUE
    /\ pc = "read"
    /\ current = 0
    /\ left = 0
    /\ copying = "none"
    /\ upstream = [r \in Requests |-> <<>>]
    /\ answers = <<>>
    /\ events = <<>>
    /\ early = {}
    /\ broken = {}

-----------------------------------------------------------------------------
(* The client. *)

Send(chunk) ==
    /\ Open /\ open
    /\ sent' = chunk
    /\ wire' = Append(wire, chunk)
    /\ UNCHANGED <<size, open, loopVars, bodyVars, early, broken>>

SentWhole == IF sent[1] = 0 THEN TRUE ELSE sent[2] = size[sent[1]]

SendHead ==
    /\ SentWhole
    /\ sent[1] < MaxRequests
    /\ Len(answers) = sent[1]
    /\ Send(<<sent[1] + 1, 0>>)

SendBody ==
    /\ ~SentWhole
    /\ Send(<<sent[1], sent[2] + 1>>)

ClientCloses ==
    /\ Open /\ open
    /\ open' = FALSE
    /\ UNCHANGED <<size, sent, wire, loopVars, bodyVars, early, broken>>

-----------------------------------------------------------------------------
(* The loop. *)

ReadHeadBug ==
    \E chunk \in Chunks :
        /\ pc = "read"
        /\ Take(chunk)
        /\ chunk[2] = 0
        /\ pc' = "roundTrip"
        /\ current' = chunk[1]
        /\ left' = 0
        /\ copying' = "none"
        /\ UNCHANGED <<clientVars, answers, events, upstream, early, broken>>

\* http.ReadRequest finds a head; roundTrip tees the body to the transport.
ReadHead ==
    \E chunk \in Chunks :
        /\ pc = "read"
        /\ Take(chunk)
        /\ chunk[2] = 0
        /\ pc' = "roundTrip"
        /\ current' = chunk[1]
        /\ left' = size[chunk[1]]
        /\ copying' = IF left' = 0 THEN "none" ELSE "forward"
        /\ UNCHANGED <<clientVars, answers, events, upstream, early, broken>>

\* http.ReadRequest meets a chunk of a body where a head should be.
ReadGarbage ==
    \E chunk \in Chunks :
        /\ pc = "read"
        /\ Take(chunk)
        /\ chunk[2] # 0
        /\ pc' = "malformed"
        /\ UNCHANGED <<clientVars, current, answers, events, bodyVars, early, broken>>

GiveUpBug ==
    /\ pc = "malformed"
    /\ events' = Append(events, 0)
    /\ pc' = "read"
    /\ UNCHANGED <<clientVars, wire, current, answers, bodyVars, early, broken>>

\* ... which is an error event and the end of the connection.
GiveUp ==
    /\ pc = "malformed"
    /\ events' = Append(events, 0)
    /\ Leave
    /\ UNCHANGED <<clientVars, wire, current, answers, left, upstream, early, broken>>

\* The client went away: end of file, a reset, or an error worth an event.
ReadEnds ==
    /\ pc = "read"
    /\ wire = <<>> /\ ~open
    /\ events' \in {events, Append(events, 0)}
    /\ Leave
    /\ UNCHANGED <<clientVars, wire, current, answers, left, upstream, early, broken>>

\* RoundTrip returns a response, possibly before the body is sent.
Answer ==
    /\ pc = "roundTrip"
    /\ pc' = "respond"
    /\ early' = IF copying = "none" THEN early ELSE early \cup {current}
    /\ UNCHANGED <<clientVars, wire, current, answers, events, bodyVars, broken>>

\* RoundTrip fails and closes the body; the loop makes up a 502 response.
AnswerFails ==
    /\ pc = "roundTrip"
    /\ pc' = "respond"
    /\ broken' = broken \cup {current}
    /\ copying' = IF copying = "none" THEN "none" ELSE "drain"
    /\ UNCHANGED <<clientVars, wire, current, answers, events, left, upstream, early>>

RespondBug(stage) ==
    /\ pc = "respond"
    /\ answers' = Append(answers, current)
    /\ events' = IF stage = "closed" THEN events ELSE Append(events, current)
    /\ IF stage = "closed" THEN Leave
       ELSE /\ stage = "relay" => current \notin broken
            /\ pc' = stage
            /\ UNCHANGED copying
    /\ UNCHANGED <<clientVars, wire, current, left, upstream, early, broken>>

\* The response is written and the request's event emitted, in this order.  The
\* loop goes on, or returns (the write failed, request.Close, response.Close, a
\* switch that cannot be completed), or relays a protocol switch.
Respond(stage) ==
    /\ pc = "respond"
    /\ answers' = Append(answers, current)
    /\ events' = Append(events, current)
    /\ IF stage = "closed" THEN Leave
       ELSE /\ stage = "relay" => current \notin broken
            /\ pc' = stage
            /\ UNCHANGED copying
    /\ UNCHANGED <<clientVars, wire, current, left, upstream, early, broken>>

RelayEnds ==
    /\ pc = "relay"
    /\ Leave
    /\ UNCHANGED <<clientVars, wire, current, answers, events, left, upstream, early,
                   broken>>

-----------------------------------------------------------------------------
(* The goroutine that reads the body of the current request. *)

\* The transport takes what is next in the reader for the body of the request.
BodyReads ==
    \E chunk \in Chunks :
        /\ copying # "none"
        /\ Take(chunk)
        /\ left' = left - 1
        /\ copying' = IF left' = 0 THEN "none" ELSE copying
        /\ upstream' = IF copying = "forward"
                       THEN [upstream EXCEPT ![current] = Append(@, chunk)]
                       ELSE upstream
        /\ UNCHANGED <<clientVars, loopVars, early, broken>>

\* The upstream takes no more (it answered and closed): the transport closes
\* the body, which reads the rest of it to nowhere.
UpstreamStops ==
    /\ Open
    /\ copying = "forward"
    /\ pc # "roundTrip"
    /\ copying' = "drain"
    /\ UNCHANGED <<clientVars, wire, loopVars, left, upstream, early, broken>>

Next ==
    \/ SendHead \/ SendBody \/ ClientCloses
    \/ ReadHead \/ ReadGarbage \/ GiveUp \/ ReadEnds
    \/ Answer \/ AnswerFails
    \/ \E stage \in {"read", "relay", "closed"} : Respond(stage)
    \/ RelayEnds
    \/ BodyReads \/ UpstreamStops

Spec == Init /\ [][Next]_vars

-----------------------------------------------------------------------------
Body(r) == [i \in 1..size[r] |-> <<r, i>>]

(***************************************************************************)
(* A request whose answer came after its body was read, and whose round    *)
(* trip did not fail, was forwarded with exactly the body the client sent. *)
(***************************************************************************)
BodiesArriveWhole ==
    \A i \in DOMAIN answers :
        LET r == answers[i] IN
        r \notin early \cup broken => upstream[r] = Body(r)

(***************************************************************************)
(* Whatever races on the reader, no round trip begins while the body of an *)
(* earlier request is still being read: the loop finds no head before that *)
(* body has gone, and gives up the connection when it took a part of it.   *)
(***************************************************************************)
BodiesDoNotOverlap == [][current' # current => copying = "none"]_vars

(***************************************************************************)
(* The requests of a connection are answered and reported once each and in *)
(* the order they were sent.  An error ends the report; as long as the     *)
(* client, which is well behaved, stays and its requests were answered in  *)
(* time, there is none, and its connection is not dropped as malformed.    *)
(***************************************************************************)
OneEventPerRequest ==
    /\ \A i \in DOMAIN answers : answers[i] = i
    /\ \A i \in DOMAIN answers : i \in DOMAIN events /\ events[i] = i
    /\ \A i \in DOMAIN events : i > Len(answers) =>
          /\ i = Len(events) /\ events[i] = 0
          /\ open => early \cup broken # {}

(***************************************************************************)
(* "The upstream receives the original stream" (docs/architecture.md:70):  *)
(* what arrived of a body is a prefix of it.  Broken after an early answer *)
(* when the loop takes a chunk for the next request.                       *)
(***************************************************************************)
UpstreamGetsOriginal ==
    \A r \in Requests : \A i \in DOMAIN upstream[r] : upstream[r][i] = <<r, i>>
=============================================================================
