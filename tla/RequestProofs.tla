------------------------------ MODULE RequestProofs ------------------------------
(***************************************************************************)
(* Machine-checked proofs about what becomes of a request: its way over an *)
(* intercepted connection, for any number of requests with bodies of any   *)
(* length (InterceptedConnection), and the cURL made of it, for any        *)
(* headers, any URL and any JSON (CurlCommand).                            *)
(*                                                                         *)
(* On the connection, what is in the reader is the rest of the current     *)
(* body, then what the client has sent of the next request; this holds     *)
(* until the loop takes a chunk of a body for a head, and then the         *)
(* connection ends.  What is computed by recursion, on a list of headers   *)
(* or down a JSON value, is proved by its least counterexample.            *)
(***************************************************************************)
EXTENDS InterceptedConnection, CurlCommand, SequenceTheorems, FiniteSetTheorems, TLAPS

-----------------------------------------------------------------------------
(* InterceptedConnection: the inductive invariant. *)

SizeOf(r) == IF r = 0 THEN 0 ELSE size[r]

Parts == Nat \X Nat

ClientShape ==
    /\ size \in [Requests -> 0..MaxBody]
    /\ sent \in Parts
    /\ sent[1] <= MaxRequests /\ sent[2] <= SizeOf(sent[1])
    /\ open \in BOOLEAN

LoopShape ==
    /\ pc \in {"read", "malformed", "roundTrip", "respond", "relay", "closed"}
    /\ current \in 0..MaxRequests
    /\ left \in 0..SizeOf(current)
    /\ copying \in {"forward", "drain", "none"}
    /\ early \subseteq 1..current /\ broken \subseteq 1..current

WireShape     == wire \in Seq(Parts)
UpstreamShape == upstream \in [Requests -> Seq(Parts)]
ReportShape   == answers \in Seq(Nat) /\ events \in Seq(Nat)

Shape == ClientShape /\ LoopShape /\ WireShape /\ UpstreamShape /\ ReportShape

\* The i-th chunk in the reader: the current body comes before the next head.
Place(i) ==
    IF i <= left THEN <<current, SizeOf(current) - left + i>> ELSE <<current + 1, i - left - 1>>

Ahead ==
    /\ sent[1] \in {current, current + 1}
    /\ Len(wire) = IF sent[1] = current THEN sent[2] + left - SizeOf(current) ELSE left + 1 + sent[2]

\* Nobody has taken a chunk that was not his.
InOrder ==
    pc \notin {"malformed", "closed"} => Ahead /\ \A i \in 1..Len(wire) : wire[i] = Place(i)

\* Where the loop is, and who reads the body.
Loop ==
    /\ pc \in {"roundTrip", "respond"} => current = Len(answers) + 1
    /\ pc \notin {"roundTrip", "respond"} => current = Len(answers)
    /\ pc # "closed" => (copying # "none" <=> left > 0)
    /\ pc = "roundTrip" => copying # "drain" /\ current \notin early \cup broken
    /\ pc # "roundTrip" /\ copying = "forward" => current \in early
    /\ pc # "roundTrip" /\ copying # "none" => current \in early \cup broken
    /\ pc = "malformed" => early \cup broken # {}

Report ==
    /\ \A i \in 1..Len(answers) : answers[i] = i
    /\ \A i \in 1..Len(answers) : i <= Len(events) /\ events[i] = i
    /\ Len(events) # Len(answers) =>
          /\ pc = "closed"
          /\ Len(events) = Len(answers) + 1 /\ events[Len(events)] = 0
          /\ open => early \cup broken # {}

Bodies ==
    \A r \in Requests :
        /\ r \notin early => \A i \in 1..Len(upstream[r]) : upstream[r][i] = <<r, i>>
        /\ r > current => upstream[r] = <<>>
        /\ r = current /\ pc \in {"roundTrip", "respond"} /\ r \notin early \cup broken =>
              Len(upstream[r]) = size[r] - left
        /\ r <= Len(answers) /\ r \notin early \cup broken => Len(upstream[r]) = size[r]

ConnectionInv == Shape /\ InOrder /\ Loop /\ Report /\ Bodies

-----------------------------------------------------------------------------
(* Numbers of chunks. *)

LEMMA Sizes ==
    ASSUME BoundsAssumption, Shape
    PROVE  /\ \A r \in 0..MaxRequests : SizeOf(r) \in Nat
           /\ sent[1] \in 0..MaxRequests /\ sent[2] \in 0..SizeOf(sent[1])
           /\ SentWhole <=> sent[2] = SizeOf(sent[1])
           /\ current \in 0..MaxRequests /\ left \in 0..SizeOf(current)
           /\ Len(wire) \in Nat /\ Len(answers) \in Nat /\ Len(events) \in Nat
           /\ MaxRequests \in Nat \ {0}
  <1>1. \A r \in 0..MaxRequests : SizeOf(r) \in Nat
    BY DEF BoundsAssumption, Shape, ClientShape, SizeOf, Requests
  <1>2. MaxRequests \in Nat \ {0}
    BY DEF BoundsAssumption
  <1>3. sent[1] \in 0..MaxRequests /\ sent[2] \in 0..SizeOf(sent[1])
    BY <1>1, <1>2 DEF Shape, ClientShape, Parts
  <1>4. SentWhole <=> sent[2] = SizeOf(sent[1])
    BY <1>3 DEF SentWhole, SizeOf
  <1>5. current \in 0..MaxRequests /\ left \in 0..SizeOf(current)
    BY DEF Shape, LoopShape
  <1>6. Len(wire) \in Nat /\ Len(answers) \in Nat /\ Len(events) \in Nat
    BY DEF Shape, WireShape, ReportShape
  <1> QED
    BY <1>1, <1>2, <1>3, <1>4, <1>5, <1>6

LEMMA Numbers ==
    ASSUME BoundsAssumption, Shape
    PROVE  /\ sent[1] \in Nat /\ sent[2] \in Nat /\ current \in Nat /\ left \in Nat /\ Len(wire) \in Nat
           /\ SizeOf(current) \in Nat /\ SizeOf(sent[1]) \in Nat
           /\ left <= SizeOf(current) /\ sent[2] <= SizeOf(sent[1])
  BY Sizes

LEMMA SizesStay == UNCHANGED size => \A r : SizeOf(r)' = SizeOf(r)
  BY DEF SizeOf

-----------------------------------------------------------------------------
(* A reader takes the next chunk. *)

LEMMA Taken ==
    ASSUME Shape, NEW chunk \in Chunks, Take(chunk)
    PROVE  /\ chunk \in Parts /\ chunk = wire[1] /\ Len(wire) \in Nat \ {0}
           /\ wire' \in Seq(Parts) /\ Len(wire') = Len(wire) - 1
           /\ \A i \in 1..Len(wire') : i + 1 \in 1..Len(wire) /\ wire'[i] = wire[i + 1]
  <1>1. wire \in Seq(Parts) /\ wire # <<>>
    BY DEF Shape, WireShape, Take
  <1>2. wire' = Tail(wire) /\ chunk = Head(wire)
    BY DEF Take
  <1> QED
    BY <1>1, <1>2, HeadTailProperties DEF Parts, Chunks, Requests

\* The head of a request is next only when the body before it has gone.
LEMMA HeadIsNext ==
    ASSUME BoundsAssumption, Shape, InOrder, Loop, pc = "read",
           NEW chunk \in Chunks, Take(chunk), chunk[2] = 0
    PROVE  /\ left = 0 /\ copying = "none" /\ sent[1] = current + 1
           /\ chunk[1] = current + 1 /\ Len(wire) = 1 + sent[2]
  <1>1. chunk = wire[1] /\ Len(wire) \in Nat \ {0}
    BY Taken
  <1>2. chunk = Place(1)
    BY <1>1 DEF InOrder
  <1>3. /\ current \in Nat /\ SizeOf(current) \in Nat /\ left \in 0..SizeOf(current)
        /\ sent[1] \in Nat /\ sent[2] \in Nat
    BY Sizes
  <1>4. left = 0
    BY <1>2, <1>3 DEF Place
  <1>5. copying = "none"
    BY <1>4 DEF Loop
  <1>6. chunk = <<current + 1, 0>>
    BY <1>2, <1>3, <1>4 DEF Place
  <1>7. sent[1] = current + 1
    BY <1>1, <1>3, <1>4, Sizes DEF InOrder, Ahead
  <1> QED
    BY <1>3, <1>4, <1>5, <1>6, <1>7 DEF InOrder, Ahead

\* A chunk of a body where a head should be: that body is still being read.
LEMMA GarbageIsBody ==
    ASSUME BoundsAssumption, Shape, InOrder, Loop, pc = "read",
           NEW chunk \in Chunks, Take(chunk), chunk[2] # 0
    PROVE  current \in early \cup broken
  <1>1. chunk = wire[1] /\ Len(wire) \in Nat \ {0}
    BY Taken
  <1>2. chunk = Place(1)
    BY <1>1 DEF InOrder
  <1>3. current \in Nat /\ SizeOf(current) \in Nat /\ left \in 0..SizeOf(current)
    BY Sizes
  <1>4. left > 0
    BY <1>2, <1>3 DEF Place
  <1> QED
    BY <1>4 DEF Loop

\* The reader of the body takes the next chunk of it.
LEMMA BodyIsNext ==
    ASSUME BoundsAssumption, Shape, InOrder, pc \notin {"malformed", "closed"}, left > 0,
           NEW chunk \in Chunks, Take(chunk)
    PROVE  chunk = <<current, SizeOf(current) - left + 1>>
  <1>1. chunk = wire[1] /\ Len(wire) \in Nat \ {0}
    BY Taken
  <1>2. chunk = Place(1)
    BY <1>1 DEF InOrder
  <1>3. current \in Nat /\ SizeOf(current) \in Nat /\ left \in 0..SizeOf(current)
    BY Sizes
  <1> QED
    BY <1>2, <1>3 DEF Place

-----------------------------------------------------------------------------
(* Every step keeps the invariant. *)

LEMMA InitConnection == Init => ConnectionInv
  <1> SUFFICES ASSUME Init PROVE ConnectionInv
    OBVIOUS
  <1> USE BoundsAssumption
  <1>1. Shape
    <2>1. ClientShape
      BY DEF Init, ClientShape, SizeOf, Parts, BoundsAssumption
    <2>2. LoopShape
      BY DEF Init, LoopShape, SizeOf, BoundsAssumption
    <2>3. WireShape /\ UpstreamShape /\ ReportShape
      BY DEF Init, WireShape, UpstreamShape, ReportShape
    <2> QED
      BY <2>1, <2>2, <2>3 DEF Shape
  <1>2. InOrder
    BY DEF Init, InOrder, Ahead, SizeOf
  <1>3. Loop
    BY DEF Init, Loop
  <1>4. Report
    BY DEF Init, Report
  <1>5. Bodies
    BY DEF Init, Bodies, Requests
  <1> QED
    BY <1>1, <1>2, <1>3, <1>4, <1>5 DEF ConnectionInv

LEMMA ClientSends ==
    ASSUME BoundsAssumption, ConnectionInv, SendHead \/ SendBody \/ ClientCloses
    PROVE  ConnectionInv'
  <1> USE DEF ConnectionInv
  <1>0. UNCHANGED <<size, pc, current, answers, events, left, copying, upstream, early, broken>>
    BY DEF SendHead, SendBody, ClientCloses, Send, loopVars, bodyVars
  <1>1. LoopShape' /\ UpstreamShape' /\ ReportShape'
    BY <1>0 DEF Shape, LoopShape, UpstreamShape, ReportShape, SizeOf
  <1>2. ASSUME NEW chunk \in Parts, chunk[1] <= MaxRequests, chunk[2] <= SizeOf(chunk[1]),
               sent' = chunk, wire' = Append(wire, chunk), open' = open
        PROVE  /\ ClientShape' /\ WireShape'
               /\ Len(wire') = Len(wire) + 1 /\ wire'[Len(wire) + 1] = chunk
               /\ \A i \in 1..Len(wire) : wire'[i] = wire[i]
    <2>1. ClientShape'
      BY <1>0, <1>2, SizesStay DEF Shape, ClientShape
    <2> QED
      BY <1>2, <2>1, AppendProperties DEF Shape, WireShape
  <1>3. ASSUME SendHead PROVE ClientShape' /\ WireShape' /\ InOrder'
    <2>1. /\ SentWhole /\ sent[1] < MaxRequests /\ Len(answers) = sent[1]
          /\ sent' = <<sent[1] + 1, 0>> /\ wire' = Append(wire, <<sent[1] + 1, 0>>) /\ open' = open
      BY <1>3 DEF SendHead, Send
    <2>2. sent[1] + 1 \in 0..MaxRequests /\ SizeOf(sent[1] + 1) \in Nat /\ <<sent[1] + 1, 0>> \in Parts
      <3>1. sent[1] + 1 \in 0..MaxRequests
        BY <2>1, Sizes
      <3>2. SizeOf(sent[1] + 1) \in Nat
        BY <3>1, Sizes
      <3> QED
        BY <3>1, <3>2 DEF Parts
    <2>3. /\ ClientShape' /\ WireShape'
          /\ Len(wire') = Len(wire) + 1 /\ wire'[Len(wire) + 1] = <<sent[1] + 1, 0>>
          /\ \A i \in 1..Len(wire) : wire'[i] = wire[i]
      BY <1>2, <2>1, <2>2
    <2>4. SUFFICES ASSUME pc \notin {"malformed", "closed"}
                   PROVE  Ahead' /\ \A i \in 1..Len(wire') : wire'[i] = Place(i)'
      BY <1>0, <2>3 DEF InOrder
    <2>5. sent[1] = current /\ Len(wire) = left
      BY <2>1, <2>4, Sizes DEF InOrder, Ahead, Loop
    <2>6. Ahead'
      BY <1>0, <2>1, <2>3, <2>5, Sizes DEF Ahead
    <2>7. \A i : Place(i)' = Place(i)
      BY <1>0 DEF Place, SizeOf
    <2>8. wire'[Len(wire) + 1] = Place(Len(wire) + 1)
      BY <2>3, <2>5, Sizes DEF Place
    <2> QED
      <3>1. ASSUME NEW i \in 1..Len(wire') PROVE i \in 1..Len(wire) \/ i = Len(wire) + 1
        BY <2>3, Numbers
      <3> QED
        BY <2>3, <2>4, <2>6, <2>7, <2>8, <3>1 DEF InOrder
  <1>4. ASSUME SendBody PROVE ClientShape' /\ WireShape' /\ InOrder'
    <2>1. /\ ~SentWhole
          /\ sent' = <<sent[1], sent[2] + 1>> /\ wire' = Append(wire, <<sent[1], sent[2] + 1>>)
          /\ open' = open
      BY <1>4 DEF SendBody, Send
    <2>2. sent[2] < SizeOf(sent[1]) /\ <<sent[1], sent[2] + 1>> \in Parts
      BY <2>1, Sizes DEF Parts
    <2>3. /\ ClientShape' /\ WireShape'
          /\ Len(wire') = Len(wire) + 1 /\ wire'[Len(wire) + 1] = <<sent[1], sent[2] + 1>>
          /\ \A i \in 1..Len(wire) : wire'[i] = wire[i]
      <3>1. sent[1] <= MaxRequests /\ sent[2] + 1 <= SizeOf(sent[1])
        BY <2>2, Sizes
      <3> QED
        BY <1>2, <2>1, <2>2, <3>1
    <2>4. SUFFICES ASSUME pc \notin {"malformed", "closed"}
                   PROVE  Ahead' /\ \A i \in 1..Len(wire') : wire'[i] = Place(i)'
      BY <1>0, <2>3 DEF InOrder
    <2>5. Ahead
      BY <2>4 DEF InOrder
    <2>6. Ahead'
      <3>1. sent'[1] = sent[1] /\ sent'[2] = sent[2] + 1 /\ SizeOf(current)' = SizeOf(current)
        BY <1>0, <2>1, SizesStay
      <3> QED
        <4>1. Len(wire) + 1 = IF sent[1] = current THEN (sent[2] + 1) + left - SizeOf(current)
                                                   ELSE left + 1 + (sent[2] + 1)
          BY <2>5, Numbers DEF Ahead
        <4> QED
          BY <1>0, <2>3, <2>5, <3>1, <4>1 DEF Ahead
    <2>7. \A i : Place(i)' = Place(i)
      BY <1>0 DEF Place, SizeOf
    <2>8. wire'[Len(wire) + 1] = Place(Len(wire) + 1)
      <3>1. CASE sent[1] = current
        <4>1. Len(wire) + 1 <= left /\ SizeOf(current) - left + (Len(wire) + 1) = sent[2] + 1
          BY <2>2, <2>5, <3>1, Numbers DEF Ahead
        <4> QED
          BY <2>3, <3>1, <4>1 DEF Place
      <3>2. CASE sent[1] = current + 1
        <4>1. ~(Len(wire) + 1 <= left) /\ (Len(wire) + 1) - left - 1 = sent[2] + 1
          BY <2>5, <3>2, Numbers DEF Ahead
        <4> QED
          BY <2>3, <3>2, <4>1 DEF Place
      <3> QED
        BY <2>5, <3>1, <3>2 DEF Ahead
    <2> QED
      <3>1. ASSUME NEW i \in 1..Len(wire') PROVE i \in 1..Len(wire) \/ i = Len(wire) + 1
        BY <2>3, Numbers
      <3> QED
        BY <2>3, <2>4, <2>6, <2>7, <2>8, <3>1 DEF InOrder
  <1>5. ASSUME ClientCloses PROVE ClientShape' /\ WireShape' /\ InOrder'
    BY <1>0, <1>5 DEF ClientCloses, Shape, ClientShape, WireShape, InOrder, Ahead, Place, SizeOf
  <1>6. Loop' /\ Bodies'
    BY <1>0 DEF Loop, Bodies
  <1>7. open' => open
    BY DEF SendHead, SendBody, ClientCloses, Send
  <1>8. Report'
    BY <1>0, <1>7 DEF Report
  <1> QED
    BY <1>1, <1>3, <1>4, <1>5, <1>6, <1>8 DEF Shape

LEMMA HeadIsRead ==
    ASSUME BoundsAssumption, ConnectionInv, ReadHead
    PROVE  ConnectionInv'
  <1> USE BoundsAssumption DEF ConnectionInv
  <1>1. PICK chunk \in Chunks :
            /\ pc = "read" /\ Take(chunk) /\ chunk[2] = 0
            /\ pc' = "roundTrip" /\ current' = chunk[1] /\ left' = size[chunk[1]]
            /\ copying' = IF left' = 0 THEN "none" ELSE "forward"
            /\ UNCHANGED <<size, sent, open, answers, events, upstream, early, broken>>
    BY DEF ReadHead, clientVars
  <1>2. /\ left = 0 /\ sent[1] = current + 1 /\ chunk[1] = current + 1 /\ Len(wire) = 1 + sent[2]
    BY <1>1, HeadIsNext
  <1>3. /\ wire' \in Seq(Parts) /\ Len(wire') = Len(wire) - 1
        /\ \A i \in 1..Len(wire') : i + 1 \in 1..Len(wire) /\ wire'[i] = wire[i + 1]
    BY <1>1, Taken
  <1>4. current' = current + 1 /\ current' \in 1..MaxRequests
    BY <1>1, <1>2, Sizes
  <1>5. left' = SizeOf(current + 1) /\ left' \in Nat
    BY <1>1, <1>2, <1>4, Sizes DEF SizeOf
  <1>6. \A r : SizeOf(r)' = SizeOf(r)
    BY <1>1, SizesStay
  <1>7. Shape'
    <2>1. ClientShape' /\ WireShape' /\ UpstreamShape' /\ ReportShape'
      BY <1>1, <1>3, <1>6 DEF Shape, ClientShape, WireShape, UpstreamShape, ReportShape
    <2>2. LoopShape'
      BY <1>1, <1>4, <1>5, <1>6, Sizes DEF Shape, LoopShape
    <2> QED
      BY <2>1, <2>2 DEF Shape
  <1>8. InOrder'
    <2>1. \A i \in 1..Len(wire) : wire[i] = <<current + 1, i - 1>>
      <3>1. \A i \in 1..Len(wire) : wire[i] = Place(i)
        BY <1>1 DEF InOrder
      <3>2. \A i \in 1..Len(wire) : Place(i) = <<current + 1, i - 1>>
        BY <1>2, Numbers DEF Place
      <3> QED
        BY <3>1, <3>2
    <2>2. ASSUME NEW i \in 1..Len(wire') PROVE wire'[i] = <<current', i>>
      <3>1. i + 1 \in 1..Len(wire) /\ wire'[i] = wire[i + 1]
        BY <1>3
      <3>2. (i + 1) - 1 = i
        BY <1>3, Sizes
      <3> QED
        BY <1>4, <2>1, <3>1, <3>2
    <2>3. sent' = sent /\ Len(wire') = sent[2] /\ sent[2] <= left'
      BY <1>1, <1>2, <1>3, <1>5, Numbers
    <2>4. Ahead'
      BY <1>2, <1>4, <1>5, <1>6, <2>3, Sizes DEF Ahead
    <2>5. ASSUME NEW i \in 1..Len(wire') PROVE Place(i)' = <<current', i>>
      <3>1. SizeOf(current)' = left' /\ i \in Nat /\ i <= left'
        BY <1>4, <1>5, <1>6, <2>3, Numbers
      <3> QED
        BY <1>5, <3>1 DEF Place
    <2> QED
      BY <2>2, <2>4, <2>5 DEF InOrder
  <1>9. Loop'
    BY <1>1, <1>2, <1>4, <1>5, Sizes DEF Loop, Shape, LoopShape
  <1>10. Report'
    BY <1>1 DEF Report
  <1>11. Bodies'
    <2> SUFFICES ASSUME NEW r \in Requests
                 PROVE  /\ r > current' => upstream[r] = <<>>
                        /\ r = current' => Len(upstream[r]) = size[r] - left'
      BY <1>1 DEF Bodies
    <2>1. r > current => upstream[r] = <<>>
      BY DEF Bodies
    <2>2. r = current' => size[r] = left'
      BY <1>1
    <2> QED
      BY <1>4, <1>5, <2>1, <2>2, Sizes DEF Requests
  <1> QED
    BY <1>7, <1>8, <1>9, <1>10, <1>11

LEMMA LoopLeaves ==
    ASSUME BoundsAssumption, ConnectionInv, ReadGarbage \/ GiveUp \/ ReadEnds \/ RelayEnds
    PROVE  ConnectionInv'
  <1> USE DEF ConnectionInv
  <1>0. UNCHANGED <<size, sent, open, current, answers, left, upstream, early, broken>>
    BY DEF ReadGarbage, GiveUp, ReadEnds, RelayEnds, bodyVars, clientVars
  <1>1. ASSUME ReadGarbage
        PROVE  WireShape' /\ Loop' /\ events' = events /\ copying' = copying /\ pc' = "malformed"
    <2>1. PICK chunk \in Chunks :
              /\ pc = "read" /\ Take(chunk) /\ chunk[2] # 0 /\ pc' = "malformed"
              /\ UNCHANGED <<events, copying>>
      BY <1>1 DEF ReadGarbage, bodyVars
    <2>2. wire' \in Seq(Parts) /\ current \in early \cup broken
      BY <2>1, Taken, GarbageIsBody
    <2>3. Loop'
      BY <1>0, <2>1, <2>2 DEF Loop
    <2> QED
      BY <2>1, <2>2, <2>3 DEF WireShape
  <1>2. ASSUME GiveUp \/ ReadEnds \/ RelayEnds
        PROVE  /\ pc' = "closed" /\ copying' = "none" /\ wire' = wire
               /\ pc \in {"malformed", "read", "relay"}
               /\ \/ events' = events
                  \/ events' = Append(events, 0) /\ (pc = "malformed" \/ ~open)
    BY <1>2 DEF GiveUp, ReadEnds, RelayEnds, Leave
  <1>3. pc' \in {"malformed", "closed"}
    BY <1>1, <1>2
  <1>4. Loop'
    BY <1>0, <1>1, <1>2 DEF Loop
  <1>5. events' \in {events, Append(events, 0)}
    BY <1>1, <1>2
  <1>6. Shape'
    <2>1. ClientShape' /\ UpstreamShape'
      BY <1>0, SizesStay DEF Shape, ClientShape, UpstreamShape
    <2>2. LoopShape'
      BY <1>0, <1>1, <1>2, <1>3, SizesStay DEF Shape, LoopShape
    <2>3. WireShape'
      BY <1>1, <1>2 DEF Shape, WireShape
    <2>4. ReportShape'
      <3>1. answers \in Seq(Nat) /\ events \in Seq(Nat)
        BY DEF Shape, ReportShape
      <3>2. Append(events, 0) \in Seq(Nat)
        BY <3>1
      <3> QED
        BY <1>0, <1>5, <3>1, <3>2 DEF ReportShape
    <2> QED
      BY <2>1, <2>2, <2>3, <2>4 DEF Shape
  <1>7. Report'
    <2>1. CASE events' = events
      <3>1. pc' = "closed" \/ pc # "closed"
        BY <1>1, <1>2 DEF ReadGarbage
      <3>2. Len(events) # Len(answers) => pc = "closed"
        BY DEF Report
      <3> QED
        BY <1>0, <2>1, <3>1, <3>2 DEF Report
    <2>2. CASE events' = Append(events, 0) /\ pc' = "closed" /\ (pc = "malformed" \/ ~open)
               /\ Len(events) = Len(answers)
      <3>1. /\ Len(events') = Len(answers) + 1 /\ events'[Len(events')] = 0
            /\ \A i \in 1..Len(answers) : events'[i] = events[i]
        BY <2>2, AppendProperties DEF Shape, ReportShape
      <3>2. open' => early' \cup broken' # {}
        BY <1>0, <2>2 DEF Loop
      <3> QED
        BY <1>0, <2>2, <3>1, <3>2, Sizes DEF Report
    <2> QED
      BY <1>1, <1>2, <2>1, <2>2 DEF Report
  <1>8. InOrder'
    BY <1>3 DEF InOrder
  <1>9. Bodies'
    BY <1>0, <1>3 DEF Bodies
  <1> QED
    BY <1>4, <1>6, <1>7, <1>8, <1>9

LEMMA RoundTripReturns ==
    ASSUME BoundsAssumption, ConnectionInv, Answer \/ AnswerFails
    PROVE  ConnectionInv'
  <1> USE DEF ConnectionInv
  <1>0. /\ pc = "roundTrip" /\ pc' = "respond"
        /\ UNCHANGED <<size, sent, open, wire, current, answers, events, left, upstream>>
        /\ \/ /\ early' = IF copying = "none" THEN early ELSE early \cup {current}
              /\ UNCHANGED <<copying, broken>>
           \/ /\ broken' = broken \cup {current}
              /\ copying' = IF copying = "none" THEN "none" ELSE "drain"
              /\ UNCHANGED early
    BY DEF Answer, AnswerFails, bodyVars, clientVars
  <1>1. current \in 1..MaxRequests /\ current = Len(answers) + 1
    BY <1>0, Sizes DEF Loop
  <1>2. Shape'
    <2>1. ClientShape' /\ WireShape' /\ UpstreamShape' /\ ReportShape'
      BY <1>0, SizesStay DEF Shape, ClientShape, WireShape, UpstreamShape, ReportShape
    <2>2. early' \subseteq 1..current /\ broken' \subseteq 1..current
      <3>1. current \in 1..current
        BY <1>1
      <3>2. early \subseteq 1..current /\ broken \subseteq 1..current
        BY DEF Shape, LoopShape
      <3> QED
        BY <1>0, <3>1, <3>2
    <2>3. LoopShape'
      BY <1>0, <2>2, SizesStay DEF Shape, LoopShape
    <2> QED
      BY <2>1, <2>3 DEF Shape
  <1>3. InOrder'
    BY <1>0, SizesStay DEF InOrder, Ahead, Place
  <1>4. Loop'
    BY <1>0 DEF Loop
  <1>5. Report'
    BY <1>0 DEF Report
  <1>6. Bodies'
    BY <1>0, <1>1, Sizes DEF Bodies
  <1> QED
    BY <1>2, <1>3, <1>4, <1>5, <1>6

LEMMA AnswerIsWritten ==
    ASSUME BoundsAssumption, ConnectionInv, NEW place \in {"read", "relay", "closed"}, Respond(place)
    PROVE  ConnectionInv'
  <1> USE DEF ConnectionInv
  <1>0. /\ pc = "respond" /\ answers' = Append(answers, current) /\ events' = Append(events, current)
        /\ pc' = place /\ copying' \in {copying, "none"} /\ (place # "closed" => copying' = copying)
        /\ (place = "closed" => copying' = "none")
        /\ UNCHANGED <<size, sent, open, wire, current, left, upstream, early, broken>>
    BY DEF Respond, Leave, clientVars
  <1>1. current = Len(answers) + 1 /\ current \in Nat /\ Len(events) = Len(answers)
    BY <1>0, Sizes DEF Loop, Report
  <1>2. /\ answers' \in Seq(Nat) /\ Len(answers') = current /\ answers'[current] = current
        /\ \A i \in 1..Len(answers) : answers'[i] = answers[i]
        /\ events' \in Seq(Nat) /\ Len(events') = current /\ events'[current] = current
        /\ \A i \in 1..Len(answers) : events'[i] = events[i]
    BY <1>0, <1>1, AppendProperties DEF Shape, ReportShape
  <1>3. Shape'
    <2>1. ClientShape' /\ WireShape' /\ UpstreamShape' /\ ReportShape'
      BY <1>0, <1>2, SizesStay DEF Shape, ClientShape, WireShape, UpstreamShape, ReportShape
    <2>2. LoopShape'
      BY <1>0, SizesStay DEF Shape, LoopShape
    <2> QED
      BY <2>1, <2>2 DEF Shape
  <1>4. InOrder'
    BY <1>0, SizesStay DEF InOrder, Ahead, Place
  <1>5. Loop'
    BY <1>0, <1>2 DEF Loop
  <1>6. Report'
    BY <1>0, <1>1, <1>2, Sizes DEF Report
  <1>7. ASSUME current \in Requests, current \notin early \cup broken
        PROVE  Len(upstream[current]) = size[current]
    <2>1. left = 0
      BY <1>0, <1>7, Sizes DEF Loop
    <2>2. size[current] \in Nat /\ Len(upstream[current]) = size[current] - left
      BY <1>0, <1>7 DEF Bodies, Shape, ClientShape
    <2> QED
      BY <2>1, <2>2
  <1>8. Bodies'
    <2>1. \A r \in Nat : r <= Len(answers') => r <= Len(answers) \/ r = current
      BY <1>1, <1>2, Sizes
    <2> QED
      BY <1>0, <1>7, <2>1 DEF Bodies, Requests
  <1> QED
    BY <1>3, <1>4, <1>5, <1>6, <1>8

LEMMA BodyIsRead ==
    ASSUME BoundsAssumption, ConnectionInv, BodyReads
    PROVE  ConnectionInv'
  <1> USE DEF ConnectionInv
  <1>1. PICK chunk \in Chunks :
            /\ copying # "none" /\ pc # "closed" /\ Take(chunk)
            /\ left' = left - 1
            /\ copying' = IF left' = 0 THEN "none" ELSE copying
            /\ upstream' = IF copying = "forward"
                           THEN [upstream EXCEPT ![current] = Append(@, chunk)]
                           ELSE upstream
            /\ UNCHANGED <<size, sent, open, pc, current, answers, events, early, broken>>
    BY DEF BodyReads, Take, Open, clientVars, loopVars
  <1>2. left > 0 /\ left \in Nat /\ SizeOf(current) \in Nat
    BY <1>1, Sizes DEF Loop
  <1>3. current \in Requests /\ SizeOf(current) = size[current]
    BY <1>2, Sizes DEF SizeOf, Requests
  <1>4. /\ chunk \in Parts /\ wire' \in Seq(Parts) /\ Len(wire') = Len(wire) - 1
        /\ \A i \in 1..Len(wire') : i + 1 \in 1..Len(wire) /\ wire'[i] = wire[i + 1]
    BY <1>1, Taken
  <1>5. /\ upstream[current] \in Seq(Parts)
        /\ copying = "forward" => upstream'[current] = Append(upstream[current], chunk)
        /\ copying # "forward" => upstream' = upstream
        /\ \A r \in Requests : r # current => upstream'[r] = upstream[r]
    BY <1>1, <1>3 DEF Shape, UpstreamShape
  <1>6. Shape'
    <2>1. ClientShape' /\ WireShape' /\ ReportShape'
      BY <1>1, <1>4, SizesStay DEF Shape, ClientShape, WireShape, ReportShape
    <2>2. LoopShape'
      BY <1>1, <1>2, SizesStay DEF Shape, LoopShape
    <2>3. UpstreamShape'
      <3>1. upstream \in [Requests -> Seq(Parts)]
        BY DEF Shape, UpstreamShape
      <3>2. Append(upstream[current], chunk) \in Seq(Parts)
        BY <1>4, <1>5, AppendProperties
      <3> QED
        BY <1>1, <3>1, <3>2 DEF UpstreamShape
    <2> QED
      BY <2>1, <2>2, <2>3 DEF Shape
  <1>7. InOrder'
    <2>1. SUFFICES ASSUME pc \notin {"malformed", "closed"}
                   PROVE  Ahead' /\ \A i \in 1..Len(wire') : wire'[i] = Place(i)'
      BY <1>1 DEF InOrder
    <2>2. Ahead
      BY <2>1 DEF InOrder
    <2>3. Ahead'
      <3>1. SizeOf(current)' = SizeOf(current) /\ UNCHANGED <<sent, current>>
        BY <1>1, SizesStay
      <3> QED
        <4>1. Len(wire') = IF sent[1] = current THEN sent[2] + left' - SizeOf(current)
                                                ELSE left' + 1 + sent[2]
          <5>1. left' = left - 1 /\ Len(wire') = Len(wire) - 1
            BY <1>1, <1>4
          <5>2. CASE sent[1] = current
            BY <2>2, <5>1, <5>2, Numbers DEF Ahead
          <5>3. CASE sent[1] # current
            <6>1. Len(wire) = left + 1 + sent[2]
              BY <2>2, <5>3 DEF Ahead
            <6> QED
              BY <5>1, <5>3, <6>1, Numbers
          <5> QED
            BY <5>2, <5>3
        <4> QED
          BY <2>2, <3>1, <4>1 DEF Ahead
    <2>4. ASSUME NEW i \in 1..Len(wire') PROVE wire'[i] = Place(i)'
      <3>1. wire'[i] = Place(i + 1)
        BY <1>4, <2>1 DEF InOrder
      <3>2. i \in Nat
        BY <1>4, Sizes
      <3>3. Place(i + 1) = Place(i)'
        <4>1. SizeOf(current)' = SizeOf(current) /\ UNCHANGED current
          BY <1>1, SizesStay
        <4> QED
          <5>1. /\ i + 1 <= left <=> i <= left'
                /\ SizeOf(current) - left + (i + 1) = SizeOf(current) - left' + i
                /\ (i + 1) - left - 1 = i - left' - 1
            BY <1>1, <1>2, <3>2, Numbers
          <5> QED
            BY <4>1, <5>1 DEF Place
      <3> QED
        BY <3>1, <3>3
    <2> QED
      BY <2>3, <2>4
  <1>8. Loop'
    BY <1>1, <1>2 DEF Loop
  <1>9. Report'
    BY <1>1 DEF Report
  <1>10. ASSUME current \notin early
         PROVE  /\ \A i \in 1..Len(upstream'[current]) : upstream'[current][i] = <<current, i>>
                /\ pc = "roundTrip" => Len(upstream'[current]) = size[current] - left'
    <2>1. CASE copying # "forward"
      BY <1>1, <1>3, <1>5, <1>10, <2>1 DEF Bodies, Loop, Shape, LoopShape
    <2>2. CASE copying = "forward"
      <3>1. pc = "roundTrip" /\ current \notin early \cup broken
        BY <1>1, <1>10, <2>2 DEF Loop
      <3>2. chunk = <<current, size[current] - left + 1>>
        BY <1>1, <1>2, <1>3, <3>1, BodyIsNext
      <3>3. /\ \A i \in 1..Len(upstream[current]) : upstream[current][i] = <<current, i>>
            /\ Len(upstream[current]) = size[current] - left
        BY <1>3, <3>1 DEF Bodies
      <3>4. /\ Len(upstream'[current]) = Len(upstream[current]) + 1
            /\ upstream'[current][Len(upstream[current]) + 1] = chunk
            /\ \A i \in 1..Len(upstream[current]) : upstream'[current][i] = upstream[current][i]
        BY <1>4, <1>5, <2>2, AppendProperties
      <3>5. Len(upstream[current]) \in Nat /\ size[current] \in Nat
        BY <1>2, <1>3, <1>5
      <3>6. Len(upstream'[current]) = size[current] - left'
        BY <1>1, <1>2, <3>3, <3>4, <3>5
      <3>7. \A i \in 1..Len(upstream'[current]) :
                i \in 1..Len(upstream[current]) \/ i = Len(upstream[current]) + 1
        BY <3>4, <3>5
      <3> QED
        BY <3>2, <3>3, <3>4, <3>6, <3>7
    <2> QED
      BY <2>1, <2>2
  <1>11. Bodies'
    <2>1. ASSUME pc \in {"roundTrip", "respond"}, current \notin early \cup broken PROVE pc = "roundTrip"
      BY <1>1, <2>1 DEF Loop
    <2>2. ASSUME current <= Len(answers) PROVE current \in early \cup broken
      BY <1>1, <2>2, Sizes DEF Loop
    <2>3. current \in Nat
      BY Sizes
    <2> SUFFICES ASSUME NEW r \in Requests
                 PROVE  /\ r \notin early => \A i \in 1..Len(upstream'[r]) : upstream'[r][i] = <<r, i>>
                        /\ r > current => upstream'[r] = <<>>
                        /\ r = current /\ pc \in {"roundTrip", "respond"} /\ r \notin early \cup broken =>
                              Len(upstream'[r]) = size[r] - left'
                        /\ r <= Len(answers) /\ r \notin early \cup broken => Len(upstream'[r]) = size[r]
      BY <1>1 DEF Bodies
    <2>4. CASE r = current
      BY <1>10, <2>1, <2>2, <2>3, <2>4
    <2>5. CASE r # current
      BY <1>5, <2>5 DEF Bodies
    <2> QED
      BY <2>4, <2>5
  <1> QED
    BY <1>6, <1>7, <1>8, <1>9, <1>11

LEMMA TransportCloses ==
    ASSUME BoundsAssumption, ConnectionInv, UpstreamStops
    PROVE  ConnectionInv'
  <1> USE DEF ConnectionInv
  <1>0. /\ pc # "roundTrip" /\ copying = "forward" /\ copying' = "drain"
        /\ UNCHANGED <<size, sent, open, wire, pc, current, answers, events, left, upstream, early, broken>>
    BY DEF UpstreamStops, clientVars, loopVars
  <1>1. Shape'
    BY <1>0, SizesStay DEF Shape, ClientShape, LoopShape, WireShape, UpstreamShape, ReportShape
  <1>2. InOrder'
    BY <1>0, SizesStay DEF InOrder, Ahead, Place
  <1>3. Loop'
    BY <1>0 DEF Loop
  <1>4. Report' /\ Bodies'
    BY <1>0 DEF Report, Bodies
  <1> QED
    BY <1>1, <1>2, <1>3, <1>4

LEMMA ConnectionInductive == ConnectionInv /\ [Next]_vars => ConnectionInv'
  <1> SUFFICES ASSUME ConnectionInv, [Next]_vars PROVE ConnectionInv'
    OBVIOUS
  <1>1. CASE UNCHANGED vars
    <2>1. UNCHANGED <<size, sent, open, wire, pc, current, answers, events, left, copying, upstream,
                      early, broken>>
      BY <1>1 DEF vars, clientVars, loopVars, bodyVars
    <2>2. Shape'
      BY <2>1, SizesStay DEF ConnectionInv, Shape, ClientShape, LoopShape, WireShape,
                             UpstreamShape, ReportShape
    <2>3. InOrder'
      BY <2>1, SizesStay DEF ConnectionInv, InOrder, Ahead, Place
    <2>4. Loop' /\ Report' /\ Bodies'
      BY <2>1 DEF ConnectionInv, Loop, Report, Bodies
    <2> QED
      BY <2>2, <2>3, <2>4 DEF ConnectionInv
  <1>2. CASE Next
    BY <1>2, BoundsAssumption, ClientSends, HeadIsRead, LoopLeaves, RoundTripReturns,
       AnswerIsWritten, BodyIsRead, TransportCloses DEF Next
  <1> QED
    BY <1>1, <1>2

LEMMA ConnectionInvariant == Spec => []ConnectionInv
  BY InitConnection, ConnectionInductive, PTL DEF Spec

-----------------------------------------------------------------------------
(* What the connection keeps. *)

(* A body that was read before its answer reached the upstream as the       *)
(* client sent it (roundTrip's tee over the shared reader).                 *)
THEOREM BodiesAreForwarded == Spec => []BodiesArriveWhole
  <1>1. ConnectionInv => BodiesArriveWhole
    <2> SUFFICES ASSUME ConnectionInv, NEW i \in DOMAIN answers, NEW r, r = answers[i],
                        r \notin early \cup broken
                 PROVE  upstream[r] = Body(r)
      BY Zenon DEF BodiesArriveWhole
    <2> USE BoundsAssumption DEF ConnectionInv
    <2>1. r = i /\ i \in 1..Len(answers)
      BY DEF Report, Shape, ReportShape
    <2>2. Len(answers) <= current
      BY Sizes DEF Loop
    <2>3. r \in Requests /\ r <= Len(answers)
      BY <2>1, <2>2, Sizes DEF Requests
    <2>4. upstream[r] \in Seq(Parts) /\ Len(upstream[r]) = size[r] /\ size[r] \in Nat
      BY <2>3 DEF Bodies, Shape, ClientShape, UpstreamShape
    <2>5. \A j \in 1..size[r] : upstream[r][j] = <<r, j>>
      BY <2>3, <2>4 DEF Bodies
    <2> QED
      <3>1. Body(r) = [j \in 1..Len(upstream[r]) |-> upstream[r][j]]
        BY <2>4, <2>5 DEF Body
      <3> QED
        BY <2>4, <3>1
  <1> QED
    BY <1>1, ConnectionInvariant, PTL

(* The events of a connection are its answers, in the order of the          *)
(* requests, and an error only at its end (serveTLS).                       *)
THEOREM AnswersAreReported == Spec => []OneEventPerRequest
  <1>1. ConnectionInv => OneEventPerRequest
    <2> SUFFICES ASSUME ConnectionInv PROVE OneEventPerRequest
      OBVIOUS
    <2>1. DOMAIN answers = 1..Len(answers) /\ DOMAIN events = 1..Len(events)
      BY DEF ConnectionInv, Shape, ReportShape
    <2>2. Len(answers) \in Nat /\ Len(events) \in Nat
      BY DEF ConnectionInv, Shape, ReportShape
    <2> QED
      <3>1. Report
        BY DEF ConnectionInv
      <3>2. \A i \in 1..Len(answers) : answers[i] = i /\ i \in 1..Len(events) /\ events[i] = i
        BY <2>2, <3>1 DEF Report
      <3>3. ASSUME NEW i \in 1..Len(events), i > Len(answers)
            PROVE  i = Len(events) /\ events[i] = 0 /\ (open => early \cup broken # {})
        <4>1. Len(events) # Len(answers)
          BY <2>2, <3>3
        <4> QED
          BY <2>2, <3>1, <3>3, <4>1 DEF Report
      <3> QED
        BY <2>1, <3>2, <3>3 DEF OneEventPerRequest
  <1> QED
    BY <1>1, ConnectionInvariant, PTL

(* No head is read while a body is: the loop takes the next request only    *)
(* when nobody reads the last one's body (serveTLS, http.ReadRequest).      *)
THEOREM OneBodyAtATime == Spec => BodiesDoNotOverlap
  <1>1. ConnectionInv /\ [Next]_vars => [current' # current => copying = "none"]_vars
    <2> SUFFICES ASSUME ConnectionInv, [Next]_vars, current' # current PROVE copying = "none"
      BY Zenon
    <2>1. ReadHead
      BY DEF Next, vars, clientVars, loopVars, bodyVars, SendHead, SendBody, Send, ClientCloses, ReadGarbage,
             GiveUp, ReadEnds, Answer, AnswerFails, Respond, RelayEnds, BodyReads, UpstreamStops
    <2> QED
      BY <2>1, BoundsAssumption, HeadIsNext DEF ReadHead, ConnectionInv
  <1> QED
    BY <1>1, ConnectionInvariant, PTL DEF Spec, BodiesDoNotOverlap

(* The upstream misses bytes of a body only when an answer came before it:  *)
(* a round trip that fails, a client that leaves and a relay cut a body     *)
(* short, but never leave a gap in it.                                      *)
THEOREM OnlyEarlyAnswersLoseBytes == Spec => [](early = {} => UpstreamGetsOriginal)
  <1>1. ConnectionInv => (early = {} => UpstreamGetsOriginal)
    <2> SUFFICES ASSUME ConnectionInv, early = {}, NEW r \in Requests, NEW i \in DOMAIN upstream[r]
                 PROVE  upstream[r][i] = <<r, i>>
      BY DEF UpstreamGetsOriginal
    <2>1. i \in 1..Len(upstream[r])
      BY DEF ConnectionInv, Shape, UpstreamShape
    <2> QED
      BY <2>1 DEF ConnectionInv, Bodies
  <1> QED
    BY <1>1, ConnectionInvariant, PTL

-----------------------------------------------------------------------------
(* CurlCommand: lists of headers. *)

\* A set of natural numbers that is not empty has a least one: the intervals
\* up to them are subsets of a finite set.
LEMMA LeastNumber ==
    ASSUME NEW T, T \subseteq Nat, T # {}
    PROVE  \E x \in T : \A y \in T : x <= y
  <1> PICK t \in T : TRUE
    OBVIOUS
  <1> DEFINE Upto == {1..x : x \in {y \in T : y <= t}}
             R    == StrictSubsetOrdering(1..t)
  <1>1. IsWellFoundedOn(R, SUBSET (1..t))
    <2>1. IsFiniteSet(1..t)
      BY FS_Interval
    <2> QED
      BY <2>1, FS_StrictSubsetOrderingWellFounded, FS_FiniteSubsetsOfFinite DEF R
  <1>2. Upto \subseteq SUBSET (1..t) /\ Upto # {}
    OBVIOUS
  <1> HIDE DEF R, Upto
  <1>3. PICK least \in Upto : \A up \in Upto : <<up, least>> \notin R
    BY <1>1, <1>2, WFMin
  <1>4. PICK x \in T : x <= t /\ least = 1..x
    BY DEF Upto
  <1>5. SUFFICES ASSUME NEW y \in T, y < x
                 PROVE  FALSE
    BY <1>4
  <1>6. 1..y \in Upto
    BY <1>4, <1>5 DEF Upto
  <1>7. 1..y \subseteq 1..x /\ x \in 1..x /\ x \notin 1..y
    BY <1>5
  <1>8. <<1..y, least>> \in R
    BY <1>2, <1>4, <1>6, <1>7 DEF R, StrictSubsetOrdering
  <1>9. QED
    BY <1>3, <1>6, <1>8

\* The entry of a name that LastOf finds is the last one.
LEMMA LastOfIsLast ==
    ASSUME NEW list, IsList(list), NEW n
    PROVE  LET last == LastOf(list, n)
           IN  /\ last \in 0..Len(list)
               /\ last # 0 => list[last].name = n
               /\ \A i \in 1..Len(list) : list[i].name = n => i <= last
  <1> DEFINE named == {i \in 1..Len(list) : list[i].name = n}
             back  == {Len(list) - i : i \in named}
  <1>1. LastOf(list, n) = IF named # {} THEN Max(named) ELSE 0
    BY DEF LastOf, SelectLastInSeq
  <1>2. Len(list) \in Nat
    BY DEF IsList
  <1>3. CASE named = {}
    BY <1>1, <1>2, <1>3
  <1>4. CASE named # {}
    <2>1. back \subseteq Nat /\ back # {}
      BY <1>2, <1>4
    <2> HIDE DEF back
    <2>2. PICK least \in back : \A b \in back : least <= b
      BY <2>1, LeastNumber
    <2>3. PICK i \in named : least = Len(list) - i
      BY DEF back
    <2>4. ASSUME NEW j \in named
          PROVE  i >= j
      <3>1. Len(list) - j \in back
        BY DEF back
      <3>2. Len(list) - i <= Len(list) - j /\ i \in Nat /\ j \in Nat
        BY <2>2, <2>3, <3>1
      <3>3. QED
        BY <1>2, <3>2
    <2>5. Max(named) \in named /\ \A j \in named : Max(named) >= j
      BY <2>3, <2>4 DEF Max
    <2>6. QED
      BY <1>1, <1>2, <1>4, <2>5
  <1>5. QED
    BY <1>3, <1>4

\* A later header replaces an earlier one of its name.
LEMMA OverriddenByOneMore ==
    ASSUME NEW headers, IsFunction(headers), NEW S, NEW list \in Seq(S), NEW h \in S
    PROVE  Overridden(headers, Append(list, h)) = Put(Overridden(headers, list), h.name, h.value)
  <1> DEFINE longer == Append(list, h)
  <1>1. /\ Len(list) \in Nat /\ Len(longer) = Len(list) + 1
        /\ \A i \in 1..Len(list) : longer[i] = list[i]
        /\ longer[Len(longer)] = h
        /\ IsList(list) /\ IsList(longer)
    BY DEF IsList, Range
  <1> HIDE DEF longer
  <1>2. Range(longer) = Range(list) \cup {h}
    <2>1. DOMAIN list = 1..Len(list) /\ DOMAIN longer = 1..Len(list) \cup {Len(longer)}
      BY <1>1 DEF IsList
    <2>2. QED
      BY <1>1, <2>1 DEF Range
  <1>3. LastOf(longer, h.name) = Len(longer)
    BY <1>1, LastOfIsLast
  <1>4. ASSUME NEW n, n # h.name
        PROVE  LastOf(longer, n) = LastOf(list, n)
    <2>1. /\ LastOf(longer, n) \in 0..Len(longer)
          /\ LastOf(longer, n) # 0 => longer[LastOf(longer, n)].name = n
          /\ \A i \in 1..Len(longer) : longer[i].name = n => i <= LastOf(longer, n)
      BY <1>1, LastOfIsLast
    <2>2. /\ LastOf(list, n) \in 0..Len(list)
          /\ LastOf(list, n) # 0 => list[LastOf(list, n)].name = n
          /\ \A i \in 1..Len(list) : list[i].name = n => i <= LastOf(list, n)
      BY <1>1, LastOfIsLast
    <2>3. LastOf(longer, n) # Len(longer)
      BY <1>1, <1>4, <2>1
    <2>4. QED
      BY <1>1, <2>1, <2>2, <2>3
  <1>5. DOMAIN Overridden(headers, longer) = DOMAIN Overridden(headers, list) \cup {h.name}
    BY <1>2 DEF Overridden
  <1>6. ASSUME NEW n \in DOMAIN Overridden(headers, longer)
        PROVE  Overridden(headers, longer)[n] = Put(Overridden(headers, list), h.name, h.value)[n]
    <2>1. CASE n = h.name
      <3>1. Overridden(headers, longer)[n] = <<h.value>>
        BY <1>1, <1>3, <1>6, <2>1 DEF Overridden
      <3>2. Put(Overridden(headers, list), h.name, h.value)[n] = <<h.value>>
        BY <2>1 DEF Put
      <3>3. QED
        BY <3>1, <3>2
    <2>2. CASE n # h.name
      <3>1. n \in DOMAIN Overridden(headers, list)
        BY <1>5, <1>6, <2>2
      <3>2. Put(Overridden(headers, list), h.name, h.value)[n] = Overridden(headers, list)[n]
        BY <2>2, <3>1 DEF Put
      <3>3. LastOf(list, n) = LastOf(longer, n) /\ LastOf(list, n) \in 0..Len(list)
        BY <1>1, <1>4, <2>2, LastOfIsLast
      <3>4. LastOf(list, n) # 0 => longer[LastOf(list, n)] = list[LastOf(list, n)]
        BY <1>1, <3>3
      <3>5. QED
        BY <1>6, <3>1, <3>2, <3>3, <3>4 DEF Overridden
    <2>3. QED
      BY <2>1, <2>2
  <1>7. DOMAIN Put(Overridden(headers, list), h.name, h.value) = DOMAIN Overridden(headers, list) \cup {h.name}
    BY DEF Put
  <1>8. IsFunction(Overridden(headers, longer)) /\ IsFunction(Put(Overridden(headers, list), h.name, h.value))
    BY DEF IsFunction, Overridden, Put
  <1>9. QED
    BY <1>5, <1>6, <1>7, <1>8 DEF IsFunction, longer

\* Headers replaced one by one, as the code does it, are those the properties state at
\* once: the last of each name.
LEMMA ReplacedOneByOne ==
    ASSUME NEW headers, IsFunction(headers), NEW list, IsList(list)
    PROVE  ApplyHeaders(headers, list) = Overridden(headers, list)
  <1> DEFINE Step(f) == [i \in 0..Len(list) |->
                            IF i = 0 THEN headers ELSE Put(f[i - 1], list[i].name, list[i].value)]
             after == CHOOSE f : f = Step(f)
             upto  == [i \in 0..Len(list) |-> Overridden(headers, SubSeq(list, 1, i))]
  <1>1. ApplyHeaders(headers, list) = after[Len(list)]
    BY DEF ApplyHeaders
  <1>2. Len(list) \in Nat /\ list \in Seq(Range(list)) /\ SubSeq(list, 1, Len(list)) = list
    BY DEF IsList
  <1>3. Overridden(headers, SubSeq(list, 1, 0)) = headers
    <2>1. SubSeq(list, 1, 0) = <<>>
      BY <1>2
    <2>2. ASSUME NEW n
          PROVE  LastOf(<<>>, n) = 0
      <3>1. IsList(<<>>) /\ Len(<<>>) = 0
        BY DEF IsList
      <3>2. LastOf(<<>>, n) \in 0..Len(<<>>)
        BY <3>1, LastOfIsLast
      <3>3. QED
        BY <3>1, <3>2
    <2>3. {h.name : h \in Range(<<>>)} = {}
      BY DEF Range
    <2>4. QED
      BY <2>1, <2>2, <2>3 DEF Overridden, IsFunction
  <1>4. ASSUME NEW i \in 1..Len(list)
        PROVE  Overridden(headers, SubSeq(list, 1, i))
                 = Put(Overridden(headers, SubSeq(list, 1, i - 1)), list[i].name, list[i].value)
    <2>1. /\ SubSeq(list, 1, i) = Append(SubSeq(list, 1, i - 1), list[i])
          /\ SubSeq(list, 1, i - 1) \in Seq(Range(list)) /\ list[i] \in Range(list)
      BY <1>2 DEF Range
    <2>2. Overridden(headers, Append(SubSeq(list, 1, i - 1), list[i]))
            = Put(Overridden(headers, SubSeq(list, 1, i - 1)), list[i].name, list[i].value)
      <3> DEFINE before == SubSeq(list, 1, i - 1)
                 h      == list[i]
      <3>1. before \in Seq(Range(list)) /\ h \in Range(list)
        BY <2>1
      <3> HIDE DEF before, h
      <3>2. Overridden(headers, Append(before, h)) = Put(Overridden(headers, before), h.name, h.value)
        BY <3>1, OverriddenByOneMore
      <3>3. QED
        BY <3>2 DEF before, h
    <2>3. QED
      BY <2>1, <2>2
  <1>5. upto = Step(upto)
    BY <1>2, <1>3, <1>4
  <1>6. after = Step(after)
    BY <1>5
  <1> HIDE DEF after, upto
  <1>7. ASSUME after # upto PROVE FALSE
    <2> DEFINE differ == {i \in 0..Len(list) : after[i] # upto[i]}
    <2>1. differ \subseteq Nat /\ differ # {}
      BY <1>2, <1>5, <1>6, <1>7
    <2>2. PICK i \in differ : \A j \in differ : i <= j
      BY <2>1, LeastNumber
    <2>3. i # 0
      BY <1>2, <1>5, <1>6
    <2>4. i - 1 \in 0..Len(list) /\ i - 1 \notin differ /\ i \in 0..Len(list)
      BY <1>2, <2>2, <2>3
    <2>5. after[i - 1] = upto[i - 1]
      BY <2>4
    <2>6. after[i] = upto[i]
      BY <1>5, <1>6, <2>3, <2>4, <2>5
    <2>7. QED
      BY <2>6
  <1>8. QED
    BY <1>1, <1>2, <1>7 DEF upto

-----------------------------------------------------------------------------
(* CurlCommand: JSON values. *)

(* Both definitions by recursion on JSON values, as equations.               *)
RedactedBy(R, v) ==
    IF ~Compound(v) THEN [value |-> v, changed |-> FALSE]
    ELSE LET child == [n \in DOMAIN v.items |->
                 IF v.kind = "object" /\ IsSensitive(n)
                 THEN [value |-> Text(Redacted), changed |-> TRUE]
                 ELSE R[v.items[n]]]
         IN  [value   |-> [v EXCEPT !.items = [n \in DOMAIN child |-> child[n].value]],
              changed |-> \E n \in DOMAIN child : child[n].changed]

\* The equation of Leaves, for any function in its place.
Step(v, n) == IF v.kind = "object" THEN [key |-> n] ELSE [index |-> n]

LeavesBy(L, v) ==
    IF ~Compound(v) \/ DOMAIN v.items = {} THEN {<<<<>>, v>>}
    ELSE UNION {{<<<<Step(v, n)>> \o leaf[1], leaf[2]>> : leaf \in L[v.items[n]]} : n \in DOMAIN v.items}

\* Equal answers for the parts of a value give equal answers for the value.
LEMMA RecursionIsLocal ==
    ASSUME NEW v \in JSONValues, NEW f, NEW g,
           \A w \in JSONValues : Depth(w) < Depth(v) => f[w] = g[w]
    PROVE  RedactedBy(f, v) = RedactedBy(g, v) /\ LeavesBy(f, v) = LeavesBy(g, v)
  <1> DEFINE Child(h) == [n \in DOMAIN v.items |->
                     IF v.kind = "object" /\ IsSensitive(n)
                     THEN [value |-> Text(Redacted), changed |-> TRUE]
                     ELSE h[v.items[n]]]
             Longer(h, n) == {<<<<Step(v, n)>> \o leaf[1], leaf[2]>> : leaf \in h[v.items[n]]}
             Made(child) == [value   |-> [v EXCEPT !.items = [n \in DOMAIN child |-> child[n].value]],
                             changed |-> \E n \in DOMAIN child : child[n].changed]
  <1>1. /\ RedactedBy(f, v) = IF ~Compound(v) THEN [value |-> v, changed |-> FALSE] ELSE Made(Child(f))
        /\ RedactedBy(g, v) = IF ~Compound(v) THEN [value |-> v, changed |-> FALSE] ELSE Made(Child(g))
    BY DEF RedactedBy
  <1>2. ASSUME Compound(v), NEW n \in DOMAIN v.items
        PROVE  f[v.items[n]] = g[v.items[n]]
    BY <1>2, JSONAssumption
  <1>3. Compound(v) => Child(f) = Child(g)
    BY <1>2
  <1>4. Compound(v) => \A n \in DOMAIN v.items : Longer(f, n) = Longer(g, n)
    BY <1>2
  <1>5. LeavesBy(f, v) = LeavesBy(g, v)
    <2>1. CASE ~Compound(v) \/ DOMAIN v.items = {}
      BY <2>1 DEF LeavesBy
    <2>2. CASE Compound(v) /\ DOMAIN v.items # {}
      <3>1. /\ LeavesBy(f, v) = UNION {Longer(f, n) : n \in DOMAIN v.items}
            /\ LeavesBy(g, v) = UNION {Longer(g, n) : n \in DOMAIN v.items}
        BY <2>2 DEF LeavesBy
      <3> HIDE DEF Longer
      <3>2. QED
        BY <1>4, <2>2, <3>1
    <2>3. QED
      BY <2>1, <2>2
  <1> HIDE DEF Child, Made
  <1>6. QED
    BY <1>1, <1>3, <1>5

\* One function answers both: it is put together from those for smaller depths.
LEMMA RecursionHasASolution ==
    \E R, L : /\ R = [v \in JSONValues |-> RedactedBy(R, v)]
              /\ L = [v \in JSONValues |-> LeavesBy(L, v)]
  <1> DEFINE Value(f, v) == [redacted |-> RedactedBy([w \in JSONValues |-> f[w].redacted], v),
                             leaves   |-> LeavesBy([w \in JSONValues |-> f[w].leaves], v)]
             Below(d) == {v \in JSONValues : Depth(v) < d}
             Solves(f, d) == f = [v \in Below(d) |-> Value(f, v)]
             Solution(d) == CHOOSE f : Solves(f, d)
             F == [v \in JSONValues |-> Solution(Depth(v) + 1)[v]]
  <1>1. ASSUME NEW f, NEW g, NEW v \in JSONValues,
               \A w \in JSONValues : Depth(w) < Depth(v) => f[w] = g[w]
        PROVE  Value(f, v) = Value(g, v)
    <2> DEFINE R(h) == [w \in JSONValues |-> h[w].redacted]
               L(h) == [w \in JSONValues |-> h[w].leaves]
    <2>1. \A w \in JSONValues : Depth(w) < Depth(v) => R(f)[w] = R(g)[w] /\ L(f)[w] = L(g)[w]
      BY <1>1
    <2> HIDE DEF R, L
    <2>2. RedactedBy(R(f), v) = RedactedBy(R(g), v)
      BY <2>1, RecursionIsLocal
    <2>3. LeavesBy(L(f), v) = LeavesBy(L(g), v)
      BY <2>1, RecursionIsLocal
    <2>4. QED
      BY <2>2, <2>3 DEF R, L
  <1> HIDE DEF Value
  <1>3. ASSUME NEW d \in Nat, NEW e \in Nat, NEW f, Solves(f, d), NEW g, Solves(g, e),
               NEW v \in Below(d) \cap Below(e)
        PROVE  f[v] = g[v]
    <2> DEFINE Differ == {w \in Below(d) \cap Below(e) : f[w] # g[w]}
               Depths == {Depth(w) : w \in Differ}
    <2>1. SUFFICES ASSUME Differ # {}
                   PROVE  FALSE
      OBVIOUS
    <2>2. Depths \subseteq Nat /\ Depths # {}
      BY <2>1, JSONAssumption
    <2> HIDE DEF Depths
    <2>3. PICK least \in Depths : \A k \in Depths : least <= k
      BY <2>2, LeastNumber
    <2>4. PICK w \in Differ : least = Depth(w)
      BY DEF Depths
    <2>5. ASSUME NEW u \in JSONValues, Depth(u) < Depth(w)
          PROVE  f[u] = g[u]
      <3>1. Depth(u) \in Nat /\ Depth(w) \in Nat /\ Depth(w) < d /\ Depth(w) < e
        BY <2>4, JSONAssumption
      <3>2. u \in Below(d) \cap Below(e)
        BY <2>5, <3>1
      <3>3. Depth(u) \notin Depths
        BY <2>3, <2>4, <2>5, <3>1
      <3>4. QED
        BY <3>2, <3>3 DEF Depths
    <2>6. Value(f, w) = Value(g, w)
      BY <1>1, <2>5
    <2>7. f[w] = Value(f, w) /\ g[w] = Value(g, w)
      BY <1>3, <2>4
    <2>8. QED
      BY <2>4, <2>6, <2>7
  <1>4. ASSUME NEW d \in Nat
        PROVE  Solves(Solution(d), d)
    <2> DEFINE Unsolved == {k \in Nat : ~\E f : Solves(f, k)}
    <2>1. SUFFICES ASSUME Unsolved # {}
                   PROVE  FALSE
      <3>1. \E f : Solves(f, d)
        BY <2>1
      <3> HIDE DEF Solves
      <3>2. QED
        BY <3>1
    <2>2. PICK k \in Unsolved : \A j \in Unsolved : k <= j
      BY <2>1, LeastNumber
    <2>3. CASE k = 0
      <3>1. Below(0) = {}
        BY JSONAssumption
      <3>2. Solves([v \in {} |-> 0], 0)
        BY <3>1
      <3>3. QED
        BY <2>2, <2>3, <3>2
    <2>4. CASE k # 0
      <3>1. k \in Nat /\ k - 1 \in Nat
        BY <2>4
      <3>2. k - 1 \notin Unsolved
        <4> HIDE DEF Unsolved
        <4> QED
          BY <2>2, <3>1
      <3>3. PICK f : Solves(f, k - 1)
        BY <3>1, <3>2
      <3> DEFINE g == [v \in Below(k) |-> Value(f, v)]
      <3>4. ASSUME NEW v \in Below(k)
            PROVE  Value(f, v) = Value(g, v)
        <4>1. ASSUME NEW w \in JSONValues, Depth(w) < Depth(v)
              PROVE  f[w] = g[w]
          <5>1. Depth(w) \in Nat /\ Depth(v) \in Nat /\ k \in Nat /\ Depth(v) < k
            BY <3>4, JSONAssumption
          <5>2. w \in Below(k - 1) /\ w \in Below(k)
            BY <4>1, <5>1
          <5>3. QED
            BY <3>3, <5>2
        <4> HIDE DEF g
        <4>2. QED
          BY <1>1, <4>1
      <3>5. Solves(g, k)
        BY <3>4
      <3>6. QED
        BY <2>2, <3>5
    <2>5. QED
      BY <2>3, <2>4
  <1>5. ASSUME NEW v \in JSONValues
        PROVE  F[v] = Value(F, v)
    <2> DEFINE f == Solution(Depth(v) + 1)
    <2>1. Depth(v) + 1 \in Nat /\ v \in Below(Depth(v) + 1)
      BY JSONAssumption
    <2>2. Solves(f, Depth(v) + 1)
      BY <1>4, <2>1
    <2>3. ASSUME NEW w \in JSONValues, Depth(w) < Depth(v)
          PROVE  f[w] = F[w]
      <3>1. Depth(w) + 1 \in Nat /\ w \in Below(Depth(w) + 1) /\ w \in Below(Depth(v) + 1)
        BY <2>3, JSONAssumption
      <3>2. Solves(Solution(Depth(w) + 1), Depth(w) + 1)
        BY <1>4, <3>1
      <3> HIDE DEF Solves, Solution, f, Below
      <3>3. f[w] = Solution(Depth(w) + 1)[w]
        BY <1>3, <2>1, <2>2, <3>1, <3>2
      <3>4. QED
        BY <3>3
    <2>4. f[v] = Value(f, v)
      BY <2>1, <2>2
    <2>5. Value(f, v) = Value(F, v)
      <3> HIDE DEF f, F
      <3> QED
        BY <1>1, <2>3
    <2>6. QED
      BY <2>4, <2>5
  <1>6. F = [v \in JSONValues |-> Value(F, v)]
    <2> DEFINE G == [v \in JSONValues |-> Value(F, v)]
    <2>1. F = [v \in JSONValues |-> F[v]]
      OBVIOUS
    <2> HIDE DEF F
    <2>2. QED
      BY <1>5, <2>1
  <1> DEFINE R == [v \in JSONValues |-> F[v].redacted]
             L == [v \in JSONValues |-> F[v].leaves]
  <1>7. ASSUME NEW v \in JSONValues
        PROVE  R[v] = RedactedBy(R, v) /\ L[v] = LeavesBy(L, v)
    <2>1. R[v] = F[v].redacted /\ L[v] = F[v].leaves
      BY DEF R, L
    <2>2. F[v] = Value(F, v)
      BY <1>5
    <2>3. Value(F, v) = [redacted |-> RedactedBy(R, v), leaves |-> LeavesBy(L, v)]
      BY DEF Value
    <2> HIDE DEF F, R, L
    <2>4. QED
      BY <2>1, <2>2, <2>3
  <1>8. R = [v \in JSONValues |-> R[v]] /\ L = [v \in JSONValues |-> L[v]]
    OBVIOUS
  <1> HIDE DEF R, L
  <1>9. R = [v \in JSONValues |-> RedactedBy(R, v)] /\ L = [v \in JSONValues |-> LeavesBy(L, v)]
    BY <1>7, <1>8
  <1>10. QED
    BY <1>9

\* The recursive functions satisfy their own equations.
LEMMA JSONEquations ==
    ASSUME NEW v \in JSONValues
    PROVE  RedactJSONValue[v] = RedactedBy(RedactJSONValue, v) /\ Leaves[v] = LeavesBy(Leaves, v)
  <1>1. RedactJSONValue = CHOOSE R : R = [w \in JSONValues |-> RedactedBy(R, w)]
    BY DEF RedactJSONValue, RedactedBy
  <1>2. Leaves = CHOOSE L : L = [w \in JSONValues |-> LeavesBy(L, w)]
    BY DEF Leaves, LeavesBy, Step
  <1>3. /\ RedactJSONValue = [w \in JSONValues |-> RedactedBy(RedactJSONValue, w)]
        /\ Leaves = [w \in JSONValues |-> LeavesBy(Leaves, w)]
    BY <1>1, <1>2, RecursionHasASolution
  <1>4. QED
    BY <1>3

\* Nothing is wrong with any JSON value if what is wrong with one is wrong with a part of it.
LEMMA JSONInduction ==
    ASSUME NEW Bad, Bad \subseteq JSONValues,
           \A v \in Bad : Compound(v) /\ \E n \in DOMAIN v.items : v.items[n] \in Bad
    PROVE  Bad = {}
  <1> DEFINE Depths == {Depth(v) : v \in Bad}
  <1>1. SUFFICES ASSUME Bad # {}
                 PROVE  FALSE
    OBVIOUS
  <1>2. Depths \subseteq Nat /\ Depths # {}
    BY <1>1, JSONAssumption
  <1> HIDE DEF Depths
  <1>3. PICK least \in Depths : \A d \in Depths : least <= d
    BY <1>2, LeastNumber
  <1>4. PICK v \in Bad : least = Depth(v)
    BY DEF Depths
  <1>5. PICK n \in DOMAIN v.items : v.items[n] \in Bad
    BY <1>4
  <1>6. Depth(v.items[n]) < Depth(v) /\ Depth(v) \in Nat /\ Depth(v.items[n]) \in Nat
    BY <1>4, <1>5, JSONAssumption
  <1>7. Depth(v.items[n]) \in Depths
    BY <1>5 DEF Depths
  <1>8. QED
    BY <1>3, <1>4, <1>6, <1>7

\* Redaction that says it has changed nothing has not.
LEMMA UnchangedIsKept ==
    ASSUME NEW v \in JSONValues
    PROVE  /\ ~RedactJSONValue[v].changed => RedactJSONValue[v].value = v
           /\ RedactJSONValue[v] = [value |-> RedactJSONValue[v].value, changed |-> RedactJSONValue[v].changed]
           /\ RedactJSONValue[v].changed \in BOOLEAN
  <1> DEFINE R == RedactJSONValue
             Bad == {w \in JSONValues : ~R[w].changed /\ R[w].value # w}
  <1>1. ASSUME NEW w \in Bad
        PROVE  Compound(w) /\ \E n \in DOMAIN w.items : w.items[n] \in Bad
    <2> DEFINE child == [n \in DOMAIN w.items |->
                     IF w.kind = "object" /\ IsSensitive(n)
                     THEN [value |-> Text(Redacted), changed |-> TRUE]
                     ELSE R[w.items[n]]]
    <2>1. R[w] = RedactedBy(R, w)
      BY JSONEquations
    <2>2. Compound(w)
      BY <2>1 DEF RedactedBy
    <2>3. R[w] = [value   |-> [w EXCEPT !.items = [n \in DOMAIN w.items |-> child[n].value]],
                  changed |-> \E n \in DOMAIN w.items : child[n].changed]
      BY <2>1, <2>2 DEF RedactedBy
    <2>4. \A n \in DOMAIN w.items : ~child[n].changed /\ child[n] = R[w.items[n]]
      BY <2>3
    <2> HIDE DEF child
    <2>5. ASSUME \A n \in DOMAIN w.items : w.items[n] \notin Bad
          PROVE  FALSE
      <3>1. \A n \in DOMAIN w.items : child[n].value = w.items[n]
        BY <2>2, <2>4, <2>5, JSONAssumption
      <3>2. w = [kind |-> w.kind, items |-> w.items] /\ w.items = [n \in DOMAIN w.items |-> w.items[n]]
        BY <2>2, JSONAssumption DEF IsFunction
      <3>3. [n \in DOMAIN w.items |-> child[n].value] = w.items
        BY <3>1, <3>2
      <3>4. [w EXCEPT !.items = w.items] = w
        BY <3>2
      <3>5. QED
        BY <2>3, <3>3, <3>4
    <2>6. QED
      BY <2>2, <2>5
  <1> HIDE DEF Bad
  <1>2. Bad = {}
    BY <1>1, JSONInduction DEF Bad
  <1>3. R[v] = RedactedBy(R, v)
    BY JSONEquations
  <1>4. R[v] = [value |-> R[v].value, changed |-> R[v].changed] /\ R[v].changed \in BOOLEAN
    <2>1. CASE Compound(v)
      <3> DEFINE child == [n \in DOMAIN v.items |->
                     IF v.kind = "object" /\ IsSensitive(n)
                     THEN [value |-> Text(Redacted), changed |-> TRUE]
                     ELSE R[v.items[n]]]
      <3>1. R[v] = [value   |-> [v EXCEPT !.items = [n \in DOMAIN child |-> child[n].value]],
                    changed |-> \E n \in DOMAIN child : child[n].changed]
        BY <1>3, <2>1 DEF RedactedBy
      <3> HIDE DEF child, R
      <3>2. QED
        BY <3>1
    <2>2. CASE ~Compound(v)
      BY <1>3, <2>2 DEF RedactedBy
    <2>3. QED
      BY <2>1, <2>2
  <1>5. QED
    BY <1>2, <1>4 DEF Bad

\* A list with one entry more in front.
LEMMA ListsGrow ==
    ASSUME NEW list, IsList(list), NEW s
    PROVE  /\ IsList(<<s>> \o list)
           /\ Len(<<s>> \o list) = Len(list) + 1
           /\ (<<s>> \o list)[1] = s
           /\ \A i \in 1..Len(list) : (<<s>> \o list)[i + 1] = list[i]
  <1> DEFINE S == Range(list) \cup {s}
             longer == <<s>> \o list
  <1>1. list \in Seq(S) /\ <<s>> \in Seq(S) /\ Len(list) \in Nat
    BY DEF IsList
  <1>2. longer \in Seq(S) /\ Len(longer) = Len(list) + 1
    BY <1>1
  <1>3. longer[1] = s /\ \A i \in 1..Len(list) : longer[i + 1] = list[i]
    BY <1>1
  <1> HIDE DEF longer
  <1>4. longer \in Seq(Range(longer))
    BY <1>2 DEF Range
  <1>5. QED
    BY <1>2, <1>3, <1>4 DEF IsList, longer

\* Every JSON value has a leaf, and the way to one is a list.
LEMMA LeavesAreLists ==
    ASSUME NEW v \in JSONValues
    PROVE  /\ Leaves[v] # {}
           /\ \A leaf \in Leaves[v] : leaf = <<leaf[1], leaf[2]>> /\ IsList(leaf[1])
  <1> DEFINE Good(w) == /\ Leaves[w] # {}
                        /\ \A leaf \in Leaves[w] : leaf = <<leaf[1], leaf[2]>> /\ IsList(leaf[1])
             Bad == {w \in JSONValues : ~Good(w)}
  <1>1. ASSUME NEW w \in Bad
        PROVE  Compound(w) /\ \E n \in DOMAIN w.items : w.items[n] \in Bad
    <2>1. Leaves[w] = LeavesBy(Leaves, w)
      BY JSONEquations
    <2>2. Compound(w) /\ DOMAIN w.items # {}
      <3>1. SUFFICES ASSUME ~(Compound(w) /\ DOMAIN w.items # {})
                     PROVE  FALSE
        OBVIOUS
      <3>2. Leaves[w] = {<<<<>>, w>>}
        BY <2>1, <3>1 DEF LeavesBy
      <3>3. IsList(<<>>)
        BY DEF IsList
      <3>4. Good(w)
        BY <3>2, <3>3
      <3>5. QED
        BY <3>4
    <2>3. ASSUME \A n \in DOMAIN w.items : w.items[n] \notin Bad
          PROVE  FALSE
      <3>1. \A n \in DOMAIN w.items : Good(w.items[n])
        BY <2>2, <2>3, JSONAssumption
      <3>2. Leaves[w] = UNION {{<<<<Step(w, n)>> \o leaf[1], leaf[2]>> : leaf \in Leaves[w.items[n]]} :
                               n \in DOMAIN w.items}
        BY <2>1, <2>2 DEF LeavesBy
      <3>3. Leaves[w] # {}
        <4>1. PICK n \in DOMAIN w.items : TRUE
          BY <2>2
        <4>2. PICK leaf \in Leaves[w.items[n]] : TRUE
          BY <3>1
        <4>3. <<<<Step(w, n)>> \o leaf[1], leaf[2]>> \in Leaves[w]
          BY <3>2
        <4>4. QED
          BY <4>3
      <3>4. ASSUME NEW longer \in Leaves[w]
            PROVE  longer = <<longer[1], longer[2]>> /\ IsList(longer[1])
        <4>1. PICK n \in DOMAIN w.items :
                   longer \in {<<<<Step(w, n)>> \o leaf[1], leaf[2]>> : leaf \in Leaves[w.items[n]]}
          BY <3>2, <3>4
        <4>2. PICK leaf \in Leaves[w.items[n]] : longer = <<<<Step(w, n)>> \o leaf[1], leaf[2]>>
          BY <4>1
        <4>3. IsList(leaf[1])
          BY <3>1, <4>2
        <4>4. IsList(<<Step(w, n)>> \o leaf[1])
          BY <4>3, ListsGrow
        <4>5. QED
          BY <4>2, <4>4
      <3>5. QED
        BY <3>3, <3>4
    <2>4. QED
      BY <2>2, <2>3
  <1> HIDE DEF Bad
  <1>2. Bad = {}
    BY <1>1, JSONInduction DEF Bad
  <1>3. QED
    BY <1>2 DEF Bad

\* A step of the way to a leaf under a name that is hidden, and the first such step.
Secret(s) == "key" \in DOMAIN s /\ Hidden(s.key)
FirstSecret(path) == SelectInSeq(path, LAMBDA s : "key" \in DOMAIN s /\ Hidden(s.key))

\* FirstSecret finds the first step that is secret, if there is one.
LEMMA FirstSecretIsFirst ==
    ASSUME NEW path, IsList(path)
    PROVE  LET first == FirstSecret(path)
           IN  /\ first \in 0..Len(path)
               /\ first # 0 => Secret(path[first])
               /\ \A i \in 1..Len(path) : Secret(path[i]) => first # 0 /\ first <= i
  <1> DEFINE secrets == {i \in 1..Len(path) : Secret(path[i])}
  <1>1. FirstSecret(path) = IF secrets # {} THEN Min(secrets) ELSE 0
    BY DEF FirstSecret, SelectInSeq, Secret
  <1>2. Len(path) \in Nat
    BY DEF IsList
  <1>3. CASE secrets = {}
    BY <1>1, <1>2, <1>3
  <1>4. CASE secrets # {}
    <2>1. secrets \subseteq Nat
      BY <1>2
    <2> HIDE DEF secrets
    <2>2. \E x \in secrets : \A y \in secrets : x <= y
      BY <1>4, <2>1, LeastNumber
    <2>3. Min(secrets) \in secrets /\ \A y \in secrets : Min(secrets) <= y
      BY <2>2 DEF Min
    <2>4. QED
      BY <1>1, <1>2, <1>4, <2>3 DEF secrets
  <1>5. QED
    BY <1>3, <1>4

\* One step further up: a secret one there hides all below, another one nothing.
LEMMA HidingFromAbove ==
    ASSUME NEW path, IsList(path), NEW value, NEW s
    PROVE  HiddenLeaf(<<<<s>> \o path, value>>) =
             IF Secret(s) THEN <<<<s>>, Text(Redacted)>>
             ELSE LET hidden == HiddenLeaf(<<path, value>>) IN <<<<s>> \o hidden[1], hidden[2]>>
  <1> DEFINE longer == <<s>> \o path
             first  == FirstSecret(path)
             above  == FirstSecret(longer)
  <1>1. /\ IsList(longer) /\ Len(longer) = Len(path) + 1 /\ longer[1] = s /\ Len(path) \in Nat
        /\ \A i \in 1..Len(path) : longer[i + 1] = path[i]
    BY ListsGrow DEF IsList
  <1>2. /\ HiddenLeaf(<<path, value>>) =
             IF first = 0 THEN <<path, value>> ELSE <<SubSeq(path, 1, first), Text(Redacted)>>
        /\ HiddenLeaf(<<longer, value>>) =
             IF above = 0 THEN <<longer, value>> ELSE <<SubSeq(longer, 1, above), Text(Redacted)>>
    BY DEF HiddenLeaf, FirstSecret
  <1> HIDE DEF longer, first, above
  <1>3. /\ first \in 0..Len(path)
        /\ first # 0 => Secret(path[first])
        /\ \A i \in 1..Len(path) : Secret(path[i]) => first # 0 /\ first <= i
    BY FirstSecretIsFirst DEF first
  <1>4. /\ above \in 0..Len(longer)
        /\ above # 0 => Secret(longer[above])
        /\ \A i \in 1..Len(longer) : Secret(longer[i]) => above # 0 /\ above <= i
    BY <1>1, FirstSecretIsFirst DEF above
  <1>5. CASE Secret(s)
    <2>1. above = 1
      BY <1>1, <1>4, <1>5
    <2>2. SubSeq(longer, 1, 1) = <<s>>
      <3>1. longer \in Seq(Range(longer)) /\ Len(longer) >= 1
        BY <1>1 DEF IsList
      <3>2. /\ SubSeq(longer, 1, 1) \in Seq(Range(longer)) /\ Len(SubSeq(longer, 1, 1)) = 1
            /\ SubSeq(longer, 1, 1)[1] = longer[1]
        BY <3>1
      <3> DEFINE front == SubSeq(longer, 1, 1)
      <3>3. front \in Seq(Range(longer)) /\ Len(front) = 1 /\ front[1] = s
        BY <1>1, <3>2
      <3> HIDE DEF front
      <3>4. front = <<s>>
        BY <3>3
      <3>5. QED
        BY <3>4 DEF front
    <2>3. QED
      BY <1>2, <1>5, <2>1, <2>2 DEF longer
  <1>6. CASE ~Secret(s)
    <2>1. above = IF first = 0 THEN 0 ELSE first + 1
      <3>1. ASSUME above # 0
            PROVE  above - 1 \in 1..Len(path) /\ Secret(path[above - 1])
        <4>1. above # 1
          BY <1>1, <1>4, <1>6, <3>1
        <4>2. above - 1 \in 1..Len(path) /\ (above - 1) + 1 = above
          BY <1>1, <1>4, <3>1, <4>1
        <4>3. longer[above] = path[above - 1]
          BY <1>1, <4>2
        <4>4. QED
          BY <1>4, <3>1, <4>2, <4>3
      <3>2. ASSUME first # 0
            PROVE  above # 0 /\ above <= first + 1
        <4>1. first \in 1..Len(path) /\ first + 1 \in 1..Len(longer)
          BY <1>1, <1>3, <3>2
        <4>2. Secret(longer[first + 1])
          BY <1>1, <1>3, <3>2, <4>1
        <4>3. QED
          BY <1>4, <4>1, <4>2
      <3>3. QED
        BY <1>1, <1>3, <1>4, <3>1, <3>2
    <2>2. first # 0 => SubSeq(longer, 1, first + 1) = <<s>> \o SubSeq(path, 1, first)
      BY <1>1, <1>3 DEF IsList, longer
    <2>3. CASE first = 0
      <3> DEFINE hidden == HiddenLeaf(<<path, value>>)
      <3>1. hidden = <<path, value>> /\ HiddenLeaf(<<longer, value>>) = <<longer, value>>
        BY <1>2, <2>1, <2>3
      <3> HIDE DEF hidden
      <3>2. HiddenLeaf(<<longer, value>>) = <<<<s>> \o hidden[1], hidden[2]>>
        BY <3>1 DEF longer
      <3>3. QED
        BY <1>6, <3>2 DEF longer, hidden
    <2>4. CASE first # 0
      <3>1. above # 0 /\ SubSeq(longer, 1, above) = <<s>> \o SubSeq(path, 1, first)
        BY <1>3, <2>1, <2>2, <2>4
      <3> DEFINE hidden == HiddenLeaf(<<path, value>>)
      <3>2. hidden = <<SubSeq(path, 1, first), Text(Redacted)>>
        BY <1>2, <2>4
      <3>3. HiddenLeaf(<<longer, value>>) = <<<<s>> \o SubSeq(path, 1, first), Text(Redacted)>>
        BY <1>2, <3>1
      <3> HIDE DEF hidden
      <3>4. HiddenLeaf(<<longer, value>>) = <<<<s>> \o hidden[1], hidden[2]>>
        BY <3>2, <3>3
      <3>5. QED
        BY <1>6, <3>4 DEF longer, hidden
    <2>5. QED
      BY <2>3, <2>4
  <1>7. QED
    BY <1>5, <1>6

\* Redaction replaces exactly what is under a sensitive name.
LEMMA LeavesAreHidden ==
    ASSUME NEW v \in JSONValues, ~request.showSecrets
    PROVE  Leaves[RedactJSONValue[v].value] = {HiddenLeaf(leaf) : leaf \in Leaves[v]}
  <1> DEFINE R(w) == RedactJSONValue[w].value
             Bad == {w \in JSONValues : Leaves[R(w)] # {HiddenLeaf(leaf) : leaf \in Leaves[w]}}
  <1>1. \A n : Hidden(n) <=> IsSensitive(n)
    BY DEF Hidden
  <1>2. ASSUME NEW w \in Bad
        PROVE  Compound(w) /\ \E n \in DOMAIN w.items : w.items[n] \in Bad
    <2>1. /\ Leaves[w] = LeavesBy(Leaves, w)
          /\ Leaves[R(w)] = LeavesBy(Leaves, R(w))
          /\ RedactJSONValue[w] = RedactedBy(RedactJSONValue, w)
      BY JSONEquations, RedactionAssumption
    <2>2. ASSUME ~Compound(w) \/ DOMAIN w.items = {}
          PROVE  FALSE
      <3>1. R(w) = w
        <4>1. CASE ~Compound(w)
          BY <2>1, <4>1 DEF RedactedBy
        <4>2. CASE Compound(w)
          <5>1. DOMAIN w.items = {}
            BY <2>2, <4>2
          <5>2. ~RedactJSONValue[w].changed
            BY <2>1, <4>2, <5>1 DEF RedactedBy
          <5>3. QED
            BY <5>2, UnchangedIsKept
        <4>3. QED
          BY <4>1, <4>2
      <3>2. Leaves[w] = {<<<<>>, w>>}
        BY <2>1, <2>2 DEF LeavesBy
      <3>3. HiddenLeaf(<<<<>>, w>>) = <<<<>>, w>>
        <4>1. IsList(<<>>) /\ Len(<<>>) = 0
          BY DEF IsList
        <4>2. FirstSecret(<<>>) = 0
          <5>1. FirstSecret(<<>>) \in 0..Len(<<>>)
            BY <4>1, FirstSecretIsFirst
          <5>2. QED
            BY <4>1, <5>1
        <4>3. QED
          BY <4>2 DEF HiddenLeaf, FirstSecret
      <3> HIDE DEF R
      <3>4. QED
        BY <3>1, <3>2, <3>3
    <2>3. ASSUME \A n \in DOMAIN w.items : w.items[n] \notin Bad, Compound(w), DOMAIN w.items # {}
          PROVE  FALSE
      <3> DEFINE r == R(w)
                 secret(n) == w.kind = "object" /\ IsSensitive(n)
                 Under(x, n) == {<<<<Step(x, n)>> \o leaf[1], leaf[2]>> : leaf \in Leaves[x.items[n]]}
      <3>1. /\ Compound(r) /\ r.kind = w.kind /\ DOMAIN r.items = DOMAIN w.items
            /\ \A n \in DOMAIN w.items : r.items[n] = IF secret(n) THEN Text(Redacted) ELSE R(w.items[n])
        <4> DEFINE child == [n \in DOMAIN w.items |->
                     IF w.kind = "object" /\ IsSensitive(n)
                     THEN [value |-> Text(Redacted), changed |-> TRUE]
                     ELSE RedactJSONValue[w.items[n]]]
        <4>1. r = [w EXCEPT !.items = [n \in DOMAIN w.items |-> child[n].value]]
          BY <2>1, <2>3 DEF RedactedBy
        <4>2. w = [kind |-> w.kind, items |-> w.items]
          BY <2>3, JSONAssumption
        <4>3. r = [kind |-> w.kind, items |-> [n \in DOMAIN w.items |-> child[n].value]]
          BY <4>1, <4>2
        <4>4. \A n \in DOMAIN w.items : child[n].value = IF secret(n) THEN Text(Redacted) ELSE R(w.items[n])
          OBVIOUS
        <4> HIDE DEF child, r, R
        <4>5. QED
          BY <2>3, <4>3, <4>4 DEF Compound
      <3>2. /\ Leaves[w] = UNION {Under(w, n) : n \in DOMAIN w.items}
            /\ Leaves[r] = UNION {Under(r, n) : n \in DOMAIN w.items}
        <4> HIDE DEF r
        <4>1. LeavesBy(Leaves, w) = UNION {Under(w, n) : n \in DOMAIN w.items}
          BY <2>3 DEF LeavesBy
        <4>2. LeavesBy(Leaves, r) = UNION {Under(r, n) : n \in DOMAIN w.items}
          BY <2>3, <3>1 DEF LeavesBy
        <4>3. QED
          BY <2>1, <4>1, <4>2 DEF r
      <3>3. ASSUME NEW n \in DOMAIN w.items
            PROVE  Under(r, n) = {HiddenLeaf(leaf) : leaf \in Under(w, n)}
        <4> DEFINE part == w.items[n]
                   step == Step(w, n)
        <4>1. part \in JSONValues /\ Step(r, n) = step /\ (Secret(step) <=> secret(n))
          <5>1. Step(r, n) = step
            BY <3>1 DEF Step
          <5>2. Secret(step) <=> secret(n)
            BY <1>1 DEF Secret, Step
          <5>3. QED
            BY <2>3, <5>1, <5>2, JSONAssumption
        <4>2. Leaves[R(part)] = {HiddenLeaf(leaf) : leaf \in Leaves[part]}
          BY <2>3, <4>1
        <4>3. Leaves[part] # {} /\ \A leaf \in Leaves[part] : leaf = <<leaf[1], leaf[2]>> /\ IsList(leaf[1])
          BY <4>1, LeavesAreLists
        <4>4. r.items[n] = IF secret(n) THEN Text(Redacted) ELSE R(part)
          BY <3>1
        <4> HIDE DEF part, step, secret, R, r
        <4> DEFINE Longer(leaf) == <<<<step>> \o leaf[1], leaf[2]>>
        <4>5. /\ Under(w, n) = {Longer(leaf) : leaf \in Leaves[part]}
              /\ Under(r, n) = {Longer(leaf) : leaf \in Leaves[r.items[n]]}
          BY <4>1 DEF part, step
        <4>6. ASSUME NEW leaf \in Leaves[part]
              PROVE  HiddenLeaf(Longer(leaf)) = IF secret(n) THEN <<<<step>>, Text(Redacted)>>
                                                ELSE Longer(HiddenLeaf(leaf))
          <5> DEFINE path == leaf[1]
                     value == leaf[2]
          <5>1. leaf = <<path, value>> /\ IsList(path)
            BY <4>3
          <5> HIDE DEF path, value
          <5>2. HiddenLeaf(<<<<step>> \o path, value>>) =
                  IF Secret(step) THEN <<<<step>>, Text(Redacted)>>
                  ELSE LET hidden == HiddenLeaf(<<path, value>>) IN <<<<step>> \o hidden[1], hidden[2]>>
            BY <5>1, HidingFromAbove
          <5>3. Longer(leaf) = <<<<step>> \o path, value>>
            BY DEF path, value
          <5>4. QED
            BY <4>1, <5>1, <5>2, <5>3
        <4> HIDE DEF Under
        <4>7. CASE secret(n)
          <5> DEFINE bare == <<<<>>, Text(Redacted)>>
          <5>1. Leaves[r.items[n]] = {bare}
            <6>1. Text(Redacted) \in JSONValues
              BY <2>1, <3>1, <4>4, <4>7, RedactionAssumption, JSONAssumption DEF r, R
            <6>2. ~Compound(Text(Redacted))
              BY DEF Compound, Text
            <6>3. QED
              BY <4>4, <4>7, <6>1, <6>2, JSONEquations DEF LeavesBy
          <5>2. Longer(bare) = <<<<step>>, Text(Redacted)>>
            <6>1. <<step>> \o <<>> = <<step>>
              OBVIOUS
            <6>2. QED
              BY <6>1
          <5> HIDE DEF bare, Longer
          <5>3. Under(r, n) = {<<<<step>>, Text(Redacted)>>}
            BY <4>5, <5>1, <5>2
          <5>4. QED
            BY <4>3, <4>5, <4>6, <4>7, <5>3
        <4>8. CASE ~secret(n)
          <5> HIDE DEF Longer
          <5>1. Under(r, n) = {Longer(hidden) : hidden \in {HiddenLeaf(leaf) : leaf \in Leaves[part]}}
            BY <4>2, <4>4, <4>5, <4>8
          <5>2. QED
            BY <4>5, <4>6, <4>8, <5>1
        <4>9. QED
          BY <4>7, <4>8
      <3> HIDE DEF Under, r, secret
      <3>4. Leaves[r] = {HiddenLeaf(leaf) : leaf \in Leaves[w]}
        BY <3>2, <3>3
      <3>5. QED
        BY <3>4 DEF r
    <2>4. QED
      BY <2>2, <2>3
  <1> HIDE DEF Bad, R
  <1>3. Bad = {}
    BY <1>2, JSONInduction DEF Bad
  <1>4. QED
    BY <1>3 DEF Bad, R

-----------------------------------------------------------------------------
(* CurlCommand: every stage of a request, and what Curl makes of it. *)

\* What RequestOfEvent and Decode make is a request: its parts are what Curl expects.
IsRequest(r) ==
    /\ IsURL(r.url) /\ IsBody(r.body) /\ IsFunction(r.headers) /\ IsList(r.replay)
    /\ r.showSecrets \in BOOLEAN

\* Headers stay a function whatever is put into them or taken out.
LEMMA HeadersAreAFunction ==
    /\ \A headers, list : IsFunction(headers) /\ IsList(list) => IsFunction(ApplyHeaders(headers, list))
    /\ \A headers, name, value : IsFunction(Put(headers, name, value))
    /\ \A headers : IsFunction(headers) => IsFunction(RemoveHopByHopHeaders(headers))
  <1>1. ASSUME NEW headers, NEW list, IsFunction(headers), IsList(list)
        PROVE  IsFunction(ApplyHeaders(headers, list))
    <2>1. ApplyHeaders(headers, list) = Overridden(headers, list)
      BY <1>1, ReplacedOneByOne
    <2>2. IsFunction(Overridden(headers, list))
      BY DEF IsFunction, Overridden
    <2>3. QED
      BY <2>1, <2>2
  <1>2. \A headers, name, value : IsFunction(Put(headers, name, value))
    BY DEF IsFunction, Put
  <1>3. ASSUME NEW headers, IsFunction(headers)
        PROVE  IsFunction(RemoveHopByHopHeaders(headers))
    <2>1. \A S : IsFunction(Restrict(headers, S))
      BY DEF IsFunction, Restrict
    <2>2. QED
      BY <1>2, <2>1 DEF RemoveHopByHopHeaders
  <1>4. QED
    BY <1>1, <1>2, <1>3

\* What Curl gets of a captured request, and of an envelope.
LEMMA CapturedIsARequest ==
    ASSUME NEW i \in Incoming
    PROVE  IsRequest(RequestOfEvent(i, i.live, i.replay, i.showSecrets))
  <1>1. IsURL(i.url) /\ IsBody(i.body) /\ IsFunction(i.headers) /\ IsList(i.live) /\ IsList(i.replay)
        /\ i.showSecrets \in BOOLEAN
    BY InputsAssumption
  <1>2. IsFunction(ForwardedHeaders(i, i.live))
    BY <1>1, HeadersAreAFunction DEF ForwardedHeaders
  <1>3. QED
    BY <1>1, <1>2 DEF IsRequest, RequestOfEvent

\* The headers described by an envelope are a function, too.
LEMMA DescribedHeadersAreAFunction ==
    ASSUME NEW render \in Renders, ~Refused(render)
    PROVE  IsFunction(RequestOf(render).headers)
  <1>1. CASE "json" \in DOMAIN render
    <2> DEFINE root == Root(render.json)
               headers == DecodeDebuggerHeaders(RawHeaders(root))
    <2>1. IsFunction(headers)
      BY DEF DecodeDebuggerHeaders, IsFunction
    <2>2. RequestOf(render).headers = IF IsJSONBody(RawBody(root)) /\ Get(headers, "Content-Type") = ""
                                      THEN Put(headers, "Content-Type", "application/json") ELSE headers
      BY <1>1 DEF RequestOf, RequestFromEnvelope, Described
    <2> HIDE DEF headers, root
    <2>3. QED
      BY <2>1, <2>2, HeadersAreAFunction
  <1>2. CASE "json" \notin DOMAIN render
    <2> DEFINE list == render.flags.headers
               canonical == [i \in DOMAIN list |-> [name |-> Canonical(list[i].name), value |-> list[i].value]]
    <2>1. RequestOf(render).headers = ApplyHeaders(<<>>, canonical)
      BY <1>2 DEF RequestOf, RequestFromFlags, Described
    <2>2. IsList(list)
      BY <1>2, InputsAssumption
    <2>3. IsList(canonical)
      <3>1. Len(list) \in Nat /\ DOMAIN list = 1..Len(list)
        BY <2>2 DEF IsList
      <3> HIDE DEF list
      <3>2. canonical \in [1..Len(list) -> Range(canonical)]
        BY <3>1 DEF Range
      <3> HIDE DEF canonical
      <3>3. QED
        BY <3>1, <3>2 DEF IsList
    <2>4. IsFunction(<<>>)
      BY DEF IsFunction
    <2> HIDE DEF canonical
    <2>5. QED
      BY <2>1, <2>3, <2>4, HeadersAreAFunction
  <1>3. QED
    BY <1>1, <1>2

\* What is rendered is a request, and what was returned is its command.
RenderedInv ==
    /\ input \in Incoming \cup Renders
    /\ stage \in {"rendering", "emitted", "copying", "writing", "reporting"} => IsRequest(request)
    /\ stage \in {"parsing", "template", "reading", "decoding", "copying", "writing", "reporting"} =>
          input \in Renders
    /\ stage = "arrived" => input \in Incoming
    /\ Rendered => result = Curl(request)

\* A command is always Curl of the request that is there.
LEMMA RenderedInvariant == CurlSpec => []RenderedInv
  <1>1. CurlInit => RenderedInv
    BY DEF CurlInit, RenderedInv, Rendered
  <1>2. RenderedInv /\ [CurlNext]_curlVars => RenderedInv'
    <2> SUFFICES ASSUME RenderedInv, [CurlNext]_curlVars
                 PROVE  RenderedInv'
      OBVIOUS
    <2> USE DEF RenderedInv, Rendered
    <2>1. CASE Forward
      <3>1. input \in Incoming
        BY <2>1 DEF Forward
      <3>2. IsRequest(request')
        BY <2>1, <3>1, CapturedIsARequest DEF Forward
      <3>3. QED
        BY <2>1, <3>2 DEF Forward
    <2>2. CASE ParseFlags
      BY <2>2 DEF ParseFlags, WriteRenderError, Exit
    <2>3. CASE PrintTemplate
      BY <2>3 DEF PrintTemplate, WriteRenderError, Exit
    <2>4. CASE ReadRenderInput
      BY <2>4 DEF ReadRenderInput, WriteRenderError, Exit
    <2>5. CASE Refuse \/ Panic
      BY <2>5 DEF Refuse, Panic, WriteRenderError, Exit
    <2>6. CASE Decode
      <3>1. input \in Renders /\ ~Refused(input)
        BY <2>6 DEF Decode
      <3>2. /\ IsURL(RequestOf(input).url) /\ IsBody(RequestOf(input).body)
            /\ input.showSecrets \in BOOLEAN /\ IsFunction(RequestOf(input).headers)
        BY <3>1, InputsAssumption, DescribedHeadersAreAFunction
      <3>3. IsList(<<>>)
        BY DEF IsList
      <3>4. IsRequest(request')
        BY <2>6, <3>2, <3>3 DEF Decode, IsRequest
      <3>5. QED
        BY <2>6, <3>4 DEF Decode
    <2>7. CASE Render
      BY <2>7 DEF Render
    <2>8. CASE Copy
      BY <2>8 DEF Copy
    <2>9. CASE WriteOutput
      BY <2>9 DEF WriteOutput
    <2>10. CASE PrintResult
      BY <2>10 DEF PrintResult, Exit
    <2>11. CASE UNCHANGED curlVars
      BY <2>11 DEF curlVars
    <2>12. QED
      BY <2>1, <2>2, <2>3, <2>4, <2>5, <2>6, <2>7, <2>8, <2>9, <2>10, <2>11 DEF CurlNext
  <1>3. QED
    BY <1>1, <1>2, PTL DEF CurlSpec

\* The parts of Curl: the headers with those to replay, and body and headers as shown.
AllHeaders(r) == ApplyHeaders(r.headers, r.replay)
BodyOf(r) == IF ~r.showSecrets THEN RedactBody(r.body, Get(AllHeaders(r), "Content-Type"))
             ELSE [body |-> r.body, changed |-> FALSE]
HeadersOf(r) == IF ~r.showSecrets THEN RedactValues(AllHeaders(r)) ELSE AllHeaders(r)

\* Curl is put together from them.
LEMMA PartsOfCommand ==
    ASSUME NEW r
    PROVE  /\ Curl(r).command.method = r.method
           /\ Curl(r).command.url = IF ~r.showSecrets THEN RedactURL(r.url) ELSE r.url
           /\ Curl(r).command.headers = Restrict(HeadersOf(r), DOMAIN HeadersOf(r) \ SkippedHeaders)
           /\ Curl(r).command.data = IF BodyOf(r).body.form = "binary" THEN NoBody ELSE BodyOf(r).body
           /\ Curl(r).redacted = (~r.showSecrets /\ \/ HasSensitive(AllHeaders(r)) \/ BodyOf(r).changed
                                                    \/ r.url.kind = "url" /\ HasSensitive(r.url.query))
           /\ Curl(r).warnings = Warnings(r, BodyOf(r).body)
  BY DEF Curl, AllHeaders, BodyOf, HeadersOf

\* What the property hides of a map of values is what the code redacts.
LEMMA HidingIsRedaction ==
    ASSUME NEW map, IsFunction(map)
    PROVE  /\ ~request.showSecrets => Hide(map) = RedactValues(map)
           /\ request.showSecrets => Hide(map) = map
           /\ ~HasSensitive(map) => RedactValues(map) = map
  <1>1. map = [n \in DOMAIN map |-> map[n]]
    BY DEF IsFunction
  <1>2. ~request.showSecrets => Hide(map) = RedactValues(map)
    BY DEF Hide, Hidden, RedactValues
  <1>3. request.showSecrets => Hide(map) = [n \in DOMAIN map |-> map[n]]
    BY DEF Hide, Hidden
  <1>4. ~HasSensitive(map) => RedactValues(map) = [n \in DOMAIN map |-> map[n]]
    BY DEF HasSensitive, RedactValues
  <1>5. QED
    BY <1>1, <1>2, <1>3, <1>4

\* With showSecrets the leaves are hidden by nothing.
LEMMA NothingHidden ==
    ASSUME NEW v \in JSONValues, request.showSecrets
    PROVE  Leaves[v] = {HiddenLeaf(leaf) : leaf \in Leaves[v]}
  <1>1. ASSUME NEW leaf \in Leaves[v]
        PROVE  HiddenLeaf(leaf) = leaf
    <2>1. IsList(leaf[1])
      BY LeavesAreLists
    <2>2. \A s : ~Secret(s)
      BY DEF Secret, Hidden
    <2>3. FirstSecret(leaf[1]) = 0
      BY <2>1, <2>2, FirstSecretIsFirst
    <2>4. QED
      BY <2>3 DEF HiddenLeaf, FirstSecret
  <1>2. QED
    BY <1>1

\* The body is repeated, redacted by its form.
LEMMA BodyIsRepeated ==
    ASSUME IsRequest(request)
    PROVE  LET body == request.body
               done == BodyOf(request)
               declaredForm == Get(AllHeaders(request), "Content-Type") = "application/x-www-form-urlencoded"
           IN  /\ done.body.form = body.form
               /\ body.form = "json" /\ ~declaredForm =>
                     Leaves[done.body.value] = {HiddenLeaf(leaf) : leaf \in Leaves[body.value]}
               /\ body.form = "form" =>
                     done.body.values = IF declaredForm THEN Hide(body.values) ELSE body.values
               /\ body.form \notin {"form", "json"} => done.body = body
               /\ ~done.changed => done.body = body
  <1> DEFINE body == request.body
             done == BodyOf(request)
             type == Get(AllHeaders(request), "Content-Type")
             declaredForm == type = "application/x-www-form-urlencoded"
  <1>1. IsBody(body) /\ IsFunction(body) /\ request.showSecrets \in BOOLEAN
    BY DEF IsRequest, IsBody
  <1>2. /\ body.form = "form" => "values" \in DOMAIN body /\ IsFunction(body.values)
        /\ body.form = "json" => "value" \in DOMAIN body /\ body.value \in JSONValues
        /\ "form" \in DOMAIN body
    BY <1>1 DEF IsBody
  <1>3. done = IF ~request.showSecrets THEN RedactBody(body, type) ELSE [body |-> body, changed |-> FALSE]
    BY DEF BodyOf
  <1> HIDE DEF body, done, type
  <1>4. CASE request.showSecrets
    <2>1. done.body = body
      BY <1>3, <1>4
    <2>2. body.form = "json" => Leaves[body.value] = {HiddenLeaf(leaf) : leaf \in Leaves[body.value]}
      BY <1>2, <1>4, NothingHidden
    <2>3. body.form = "form" => Hide(body.values) = body.values
      BY <1>2, <1>4, HidingIsRedaction
    <2>4. QED
      BY <2>1, <2>2, <2>3 DEF body, done, type
  <1>5. CASE ~request.showSecrets /\ body.form = "form" /\ declaredForm
    <2>1. done = [body    |-> [body EXCEPT !.values = RedactValues(body.values)],
                  changed |-> HasSensitive(body.values)]
      BY <1>3, <1>5 DEF RedactBody, RedactForm
    <2>2. /\ Hide(body.values) = RedactValues(body.values)
          /\ ~HasSensitive(body.values) => RedactValues(body.values) = body.values
      BY <1>2, <1>5, HidingIsRedaction
    <2>3. /\ [body EXCEPT !.values = RedactValues(body.values)].form = body.form
          /\ [body EXCEPT !.values = RedactValues(body.values)].values = RedactValues(body.values)
          /\ [body EXCEPT !.values = body.values] = body
      BY <1>1, <1>2, <1>5 DEF IsFunction
    <2>4. /\ done.body.form = body.form /\ done.body.values = Hide(body.values)
          /\ ~done.changed => done.body = body
      BY <2>1, <2>2, <2>3
    <2>5. QED
      BY <1>5, <2>4 DEF body, done, type
  <1>6. CASE ~request.showSecrets /\ body.form = "json" /\ ~declaredForm
    <2> DEFINE redacted == RedactJSONValue[body.value]
    <2>1. done = [body |-> [body EXCEPT !.value = redacted.value], changed |-> redacted.changed]
      BY <1>3, <1>6 DEF RedactBody, RedactJSON
    <2>2. ~redacted.changed => redacted.value = body.value
      BY <1>2, <1>6, UnchangedIsKept
    <2>3. Leaves[redacted.value] = {HiddenLeaf(leaf) : leaf \in Leaves[body.value]}
      BY <1>2, <1>6, LeavesAreHidden
    <2> HIDE DEF redacted
    <2>4. /\ [body EXCEPT !.value = redacted.value].form = body.form
          /\ [body EXCEPT !.value = redacted.value].value = redacted.value
          /\ [body EXCEPT !.value = body.value] = body
      BY <1>1, <1>2, <1>6 DEF IsFunction
    <2>5. /\ done.body.form = body.form /\ done.body.value = redacted.value
          /\ ~done.changed => done.body = body
      BY <2>1, <2>2, <2>4
    <2>6. QED
      BY <1>6, <2>3, <2>5 DEF body, done, type
  <1>7. CASE /\ ~request.showSecrets
             /\ ~(body.form = "form" /\ declaredForm) /\ ~(body.form = "json" /\ ~declaredForm)
    <2>1. done = [body |-> body, changed |-> FALSE]
      BY <1>3, <1>7 DEF RedactBody
    <2>2. QED
      BY <1>7, <2>1 DEF body, done, type
  <1>8. QED
    BY <1>4, <1>5, <1>6, <1>7

\* So is the whole command.
LEMMA CommandIsRepeated ==
    ASSUME RenderedInv, Rendered
    PROVE  CommandRepeatsRequest
  <1> DEFINE r == request
             command == result.command
             headers == Overridden(r.headers, r.replay)
             body == r.body
             done == BodyOf(r)
             declaredForm == Get(headers, "Content-Type") = "application/x-www-form-urlencoded"
  <1>1. IsRequest(r) /\ result = Curl(r)
    BY DEF RenderedInv, Rendered
  <1>2. IsURL(r.url) /\ IsBody(body) /\ IsFunction(r.headers) /\ IsList(r.replay) /\ r.showSecrets \in BOOLEAN
    BY <1>1 DEF IsRequest
  <1>3. AllHeaders(r) = headers /\ IsFunction(headers)
    <2>1. AllHeaders(r) = headers
      BY <1>2, ReplacedOneByOne DEF AllHeaders
    <2>2. IsFunction(headers)
      BY DEF IsFunction, Overridden
    <2>3. QED
      BY <2>1, <2>2
  <1>4. /\ command.method = r.method
        /\ command.url = IF ~r.showSecrets THEN RedactURL(r.url) ELSE r.url
        /\ command.headers = Restrict(HeadersOf(r), DOMAIN HeadersOf(r) \ SkippedHeaders)
        /\ command.data = IF done.body.form = "binary" THEN NoBody ELSE done.body
        /\ result.redacted = (~r.showSecrets /\ \/ HasSensitive(headers) \/ done.changed
                                                \/ r.url.kind = "url" /\ HasSensitive(r.url.query))
        /\ result.warnings = Warnings(r, done.body)
    BY <1>1, <1>3, PartsOfCommand
  <1>5. /\ done.body.form = body.form
        /\ body.form = "json" /\ ~declaredForm =>
              Leaves[done.body.value] = {HiddenLeaf(leaf) : leaf \in Leaves[body.value]}
        /\ body.form = "form" =>
              done.body.values = IF declaredForm THEN Hide(body.values) ELSE body.values
        /\ body.form \notin {"form", "json"} => done.body = body
        /\ ~done.changed => done.body = body
    BY <1>1, <1>3, BodyIsRepeated
  <1>6. HeadersOf(r) = Hide(headers)
    BY <1>2, <1>3, HidingIsRedaction DEF HeadersOf
  <1>7. command.headers = Hide(Restrict(headers, DOMAIN headers \ SkippedHeaders))
    <2>1. Restrict(Hide(headers), DOMAIN Hide(headers) \ SkippedHeaders)
            = Hide(Restrict(headers, DOMAIN headers \ SkippedHeaders))
      BY DEF Hide, Restrict
    <2>2. QED
      BY <1>4, <1>6, <2>1
  <1>8. /\ r.url.kind = "url" => command.url = [r.url EXCEPT !.query = Hide(r.url.query)]
        /\ (r.showSecrets \/ r.url.kind # "url" \/ ~HasSensitive(r.url.query)) => command.url = r.url
    <2>1. CASE r.url.kind = "url"
      <3>1. IsFunction(r.url) /\ "query" \in DOMAIN r.url /\ IsFunction(r.url.query)
        BY <1>2, <2>1 DEF IsURL
      <3>2. [r.url EXCEPT !.query = r.url.query] = r.url
        BY <3>1 DEF IsFunction
      <3>3. RedactURL(r.url) = IF r.url.kind = "malformed" THEN r.url
                               ELSE [r.url EXCEPT !.query = RedactValues(r.url.query)]
        BY DEF RedactURL
      <3>4. r.url.kind # "malformed"
        BY <2>1
      <3>5. /\ ~r.showSecrets => Hide(r.url.query) = RedactValues(r.url.query)
            /\ r.showSecrets => Hide(r.url.query) = r.url.query
            /\ ~HasSensitive(r.url.query) => RedactValues(r.url.query) = r.url.query
        BY <3>1, HidingIsRedaction
      <3>6. QED
        BY <1>2, <1>4, <2>1, <3>2, <3>3, <3>4, <3>5
    <2>2. CASE r.url.kind # "url"
      <3>1. r.url.kind = "malformed"
        BY <1>2, <2>2 DEF IsURL
      <3>2. QED
        BY <1>4, <2>2, <3>1 DEF RedactURL
    <2>3. QED
      BY <2>1, <2>2
  <1>9. body.form = "binary" <=> "binary" \in result.warnings
    BY <1>4, <1>5 DEF Warnings
  <1>10. ~result.redacted => /\ command.url = r.url /\ command.data \in {body, NoBody}
                             /\ command.headers = Restrict(headers, DOMAIN headers \ SkippedHeaders)
    <2>1. ASSUME ~result.redacted
          PROVE  /\ r.showSecrets \/ ~done.changed
                 /\ Hide(headers) = headers
                 /\ r.showSecrets \/ r.url.kind # "url" \/ ~HasSensitive(r.url.query)
      <3>1. /\ ~r.showSecrets => Hide(headers) = RedactValues(headers)
            /\ r.showSecrets => Hide(headers) = headers
            /\ ~HasSensitive(headers) => RedactValues(headers) = headers
        BY <1>3, HidingIsRedaction
      <3>2. QED
        BY <1>2, <1>4, <2>1, <3>1
    <2>2. r.showSecrets => done.body = body
      BY DEF BodyOf
    <2>3. QED
      BY <1>4, <1>5, <1>6, <1>8, <2>1, <2>2
  <1>11. command.data.form = IF body.form = "binary" THEN "none" ELSE body.form
    BY <1>4, <1>5 DEF NoBody
  <1>12. /\ body.form = "json" /\ ~declaredForm =>
                  Leaves[command.data.value] = {HiddenLeaf(leaf) : leaf \in Leaves[body.value]}
         /\ body.form = "form" =>
                  command.data.values = IF declaredForm THEN Hide(body.values) ELSE body.values
         /\ body.form = "text" => command.data = body
    BY <1>4, <1>5
  <1> HIDE DEF headers, body, command, r
  <1>13. QED
    BY <1>4, <1>7, <1>8, <1>9, <1>10, <1>11, <1>12 DEF CommandRepeatsRequest, headers, body, command, r

(* The command repeats the request, with exactly the secrets in it hidden,   *)
(* however many headers it has and however deep they are in a body (Curl).   *)
THEOREM RequestIsRepeated == CurlSpec => []CommandRepeatsRequest
  <1>1. RenderedInv => CommandRepeatsRequest
    <2>1. CASE Rendered
      BY <2>1, CommandIsRepeated
    <2>2. CASE ~Rendered
      BY <2>2 DEF CommandRepeatsRequest
    <2>3. QED
      BY <2>1, <2>2
  <1>2. QED
    BY <1>1, RenderedInvariant, PTL

-----------------------------------------------------------------------------
(* CurlCommand: the exit code. *)

\* What each stage of render has left so far.
ExitInv ==
    /\ RenderedInv
    /\ stage \in {"arrived", "parsing", "template", "reading", "decoding", "rendering", "copying"} =>
          printed = Nothing /\ clipboard = Nothing /\ file = Nothing
    /\ stage \in {"writing", "reporting"} =>
          /\ printed = Nothing
          /\ clipboard \in {Nothing, result.command}
          /\ ~input.copy => clipboard = Nothing
    /\ stage = "writing" => file = Nothing
    /\ stage = "template" => input.template # ""
    /\ stage \in {"reading", "decoding", "copying", "writing", "reporting"} => input.template = ""
    /\ stage = "rendering" => input \in Incoming \/ input.template = ""
    /\ ExitTellsTruth

\* A command that was rendered is one that can be printed.
LEMMA CommandIsThere ==
    ASSUME Rendered, RenderedInv
    PROVE  result.command \notin {Nothing, Broken}
  <1>1. "method" \in DOMAIN result.command
    <2>1. \A r : "method" \in DOMAIN Curl(r).command
      BY DEF Curl
    <2>2. QED
      BY <2>1 DEF RenderedInv
  <1>2. "method" \notin DOMAIN Nothing /\ "method" \notin DOMAIN Broken
    BY DEF Nothing, Broken
  <1>3. QED
    BY <1>1, <1>2

\* What --help leaves.
LEMMA HelpTellsTruth ==
    ASSUME stage' = "exited", exitCode' = 0, input'.flaw = "help", printed' = Nothing
    PROVE  ExitTellsTruth'
  <1>1. exitCode' # 1 /\ exitCode' # 2
    OBVIOUS
  <1>2. QED
    BY <1>1 DEF ExitTellsTruth

\* What an error leaves that is not on standard output.
LEMMA ErrorTellsTruth ==
    ASSUME stage' = "exited", exitCode' = 2, printed' = Nothing, clipboard' = Nothing, file' = Nothing
    PROVE  ExitTellsTruth'
  <1>1. exitCode' # 0 /\ exitCode' # 1
    OBVIOUS
  <1>2. QED
    BY <1>1 DEF ExitTellsTruth

\* What writeRenderError leaves.
LEMMA RenderErrorTellsTruth ==
    ASSUME WriteRenderError, printed = Nothing, input' = input, clipboard' = Nothing, file' = Nothing
    PROVE  ExitTellsTruth'
  <1>1. stage' = "exited" /\ exitCode' = 2
    BY DEF WriteRenderError, Exit
  <1>2. exitCode' # 0 /\ exitCode' # 1
    BY <1>1
  <1>3. CASE input.asJSON
    <2>1. printed' \in {ErrorObject, Broken, Nothing} /\ ErrorObject' = ErrorObject
      BY <1>3 DEF WriteRenderError, Arrives, ErrorObject
    <2>2. QED
      BY <1>1, <1>2, <1>3, <2>1 DEF ExitTellsTruth
  <1>4. CASE ~input.asJSON
    BY <1>1, <1>2, <1>4 DEF WriteRenderError, ExitTellsTruth
  <1>5. QED
    BY <1>3, <1>4

\* What a command that was rendered leaves.
LEMMA ResultTellsTruth ==
    ASSUME ExitInv, PrintResult
    PROVE  ExitTellsTruth'
  <1> DEFINE copied  == input.copy => clipboard = result.command
             written == input.output => file = result.command
  <1>1. result.command \notin {Nothing, Broken}
    BY CommandIsThere DEF ExitInv, PrintResult, Rendered
  <1>2. input.copy \in BOOLEAN /\ input.output \in BOOLEAN
    BY InputsAssumption DEF ExitInv, RenderedInv, PrintResult
  <1>3. CopyFailed <=> ~copied
    BY <1>1, <1>2 DEF CopyFailed, PrintResult, ExitInv
  <1>4. input.template = ""
    BY DEF ExitInv, PrintResult
  <1>5. /\ stage' = "exited" /\ printed' \in {ResultLine, Broken, Nothing}
        /\ exitCode' = IF CopyFailed \/ (input.output /\ file # result.command) THEN 1 ELSE 0
        /\ UNCHANGED <<input, result, clipboard, file>>
    BY DEF PrintResult, Exit, Arrives
  <1>6. exitCode' \in {0, 1} /\ (exitCode' = 0 <=> copied /\ written)
    <2>1. CASE CopyFailed \/ (input.output /\ file # result.command)
      BY <1>2, <1>3, <1>5, <2>1
    <2>2. CASE ~(CopyFailed \/ (input.output /\ file # result.command))
      BY <1>2, <1>3, <1>5, <2>2
    <2>3. QED
      BY <2>1, <2>2
  <1>7. exitCode' # 2
    BY <1>6
  <1>8. ResultLine = IF input.asJSON
                     THEN [curl |-> result.command, copied |-> input.copy /\ copied,
                           copyFailed |-> ~copied, outputFailed |-> ~written]
                     ELSE result.command
    BY <1>2, <1>3 DEF ResultLine
  <1>9. (exitCode' = 1 => ~(copied /\ written)) /\ (exitCode' = 0 => copied /\ written)
    BY <1>6
  <1>10. QED
    BY <1>4, <1>5, <1>7, <1>8, <1>9 DEF ExitTellsTruth

\* Every stage leaves what ExitInv says of it.
LEMMA ExitInvariant == CurlSpec => []ExitInv
  <1>1. CurlInit => ExitInv
    BY DEF CurlInit, ExitInv, RenderedInv, Rendered, ExitTellsTruth
  <1>2. ExitInv /\ RenderedInv' /\ [CurlNext]_curlVars => ExitInv'
    <2> SUFFICES ASSUME ExitInv, RenderedInv', [CurlNext]_curlVars
                 PROVE  ExitInv'
      OBVIOUS
    <2> USE DEF ExitInv
    <2>1. CASE Forward
      <3>1. input \in Incoming
        BY <2>1 DEF Forward, RenderedInv
      <3>2. QED
        BY <2>1, <3>1 DEF Forward, ExitTellsTruth
    <2>2. CASE ParseFlags
      <3>1. clipboard' = Nothing /\ file' = Nothing /\ UNCHANGED input
        BY <2>2 DEF ParseFlags
      <3>2. CASE stage' = "exited" /\ exitCode' = 0 /\ input.flaw = "help" /\ UNCHANGED printed
        <4>1. printed' = Nothing
          BY <2>2, <3>2 DEF ParseFlags
        <4>2. QED
          BY <3>1, <3>2, <4>1, HelpTellsTruth
      <3>3. CASE stage' = "exited" /\ exitCode' = 2 /\ UNCHANGED printed
        <4>1. printed' = Nothing
          BY <2>2, <3>3 DEF ParseFlags
        <4>2. QED
          BY <3>1, <3>3, <4>1, ErrorTellsTruth
      <3>4. CASE WriteRenderError
        <4>1. printed = Nothing /\ stage' = "exited"
          BY <2>2, <3>4 DEF ParseFlags, WriteRenderError, Exit
        <4>2. QED
          BY <3>1, <3>4, <4>1, RenderErrorTellsTruth
      <3>5. CASE /\ stage' = IF input.template # "" THEN "template" ELSE "reading"
                 /\ UNCHANGED <<exitCode, printed>>
        BY <2>2, <3>1, <3>5 DEF ParseFlags, ExitTellsTruth
      <3>6. QED
        BY <2>2, <3>2, <3>3, <3>4, <3>5 DEF ParseFlags, Exit
    <2>3. CASE PrintTemplate
      <3>1. clipboard' = Nothing /\ file' = Nothing /\ input.template # "" /\ UNCHANGED input
        BY <2>3 DEF PrintTemplate
      <3>2. CASE Exit(0) /\ printed' \in Arrives(TemplateLine)
        <4>1. stage' = "exited" /\ exitCode' = 0 /\ printed' \in {TemplateLine, Broken, Nothing}
          BY <3>2 DEF Exit, Arrives
        <4>2. TemplateLine' = TemplateLine
          BY <3>1 DEF TemplateLine
        <4>3. ExitTellsTruth'
          <5> HIDE DEF ExitInv
          <5>1. exitCode' # 1 /\ exitCode' # 2
            BY <4>1
          <5>2. QED
            BY <3>1, <4>1, <4>2, <5>1 DEF ExitTellsTruth
        <4>4. QED
          BY <4>1, <4>3
      <3>3. CASE WriteRenderError
        <4>1. printed = Nothing /\ stage' = "exited"
          BY <2>3, <3>3 DEF PrintTemplate, WriteRenderError, Exit
        <4>2. QED
          BY <3>1, <3>3, <4>1, RenderErrorTellsTruth
      <3>4. QED
        BY <2>3, <3>2, <3>3 DEF PrintTemplate
    <2>4. CASE ReadRenderInput
      <3>1. clipboard' = Nothing /\ file' = Nothing /\ UNCHANGED input /\ printed = Nothing
        BY <2>4 DEF ReadRenderInput
      <3>2. CASE stage' = "decoding" /\ UNCHANGED <<exitCode, printed>>
        BY <2>4, <3>1, <3>2 DEF ReadRenderInput, ExitTellsTruth
      <3>3. CASE WriteRenderError
        <4>1. stage' = "exited"
          BY <3>3 DEF WriteRenderError, Exit
        <4>2. QED
          BY <3>1, <3>3, <4>1, RenderErrorTellsTruth
      <3>4. QED
        BY <2>4, <3>2, <3>3 DEF ReadRenderInput
    <2>5. CASE Refuse
      <3>1. clipboard' = Nothing /\ file' = Nothing /\ UNCHANGED input /\ printed = Nothing
        BY <2>5 DEF Refuse
      <3>2. WriteRenderError /\ stage' = "exited"
        BY <2>5 DEF Refuse, WriteRenderError, Exit
      <3>3. QED
        BY <3>1, <3>2, RenderErrorTellsTruth
    <2>6. CASE Panic
      BY <2>6 DEF Panic, ExitTellsTruth
    <2>7. CASE Decode
      BY <2>7 DEF Decode, ExitTellsTruth
    <2>8. CASE Render
      BY <2>8 DEF Render, ExitTellsTruth
    <2>9. CASE Copy
      BY <2>9 DEF Copy, ExitTellsTruth
    <2>10. CASE WriteOutput
      BY <2>10 DEF WriteOutput, ExitTellsTruth
    <2>11. CASE PrintResult
      <3>1. ExitTellsTruth'
        BY <2>11, ResultTellsTruth
      <3>2. stage' = "exited"
        BY <2>11 DEF PrintResult, Exit
      <3>3. QED
        BY <3>1, <3>2
    <2>12. CASE UNCHANGED curlVars
      BY <2>12 DEF curlVars, ExitTellsTruth, TemplateLine
    <2>13. QED
      BY <2>1, <2>2, <2>3, <2>4, <2>5, <2>6, <2>7, <2>8, <2>9, <2>10, <2>11, <2>12 DEF CurlNext
  <1>3. QED
    BY <1>1, <1>2, RenderedInvariant, PTL DEF CurlSpec

(* The exit code of render tells whether the command was copied and written, *)
(* and whatever arrives on standard output says the same, with --json too    *)
(* (renderCommand, writeRenderError, copyToClipboard).                       *)
THEOREM CodeCanBeTrusted == CurlSpec => []ExitTellsTruth
  BY ExitInvariant, PTL DEF ExitInv

-----------------------------------------------------------------------------
(* CurlCommand: what roundTrip forwards. *)

\* Once forwarded, a captured request has the headers roundTrip made of it.
ForwardedInv ==
    /\ input \in Incoming \cup Renders
    /\ stage \in {"parsing", "template", "reading", "decoding", "arrived"} =>
          (input \in Incoming <=> stage = "arrived")
    /\ input \in Incoming /\ stage # "arrived" => forwarded = ForwardedHeaders(input, input.live)

\* No later stage changes them.
LEMMA ForwardedInvariant == CurlSpec => []ForwardedInv
  <1>1. CurlInit => ForwardedInv
    BY DEF CurlInit, ForwardedInv
  <1>2. ForwardedInv /\ [CurlNext]_curlVars => ForwardedInv'
    BY DEF ForwardedInv, CurlNext, curlVars, Forward, ParseFlags, PrintTemplate, ReadRenderInput, Refuse, Panic,
           Decode, Render, Copy, WriteOutput, PrintResult, WriteRenderError, Exit
  <1>3. QED
    BY <1>1, <1>2, PTL DEF CurlSpec

\* The headers kept of a request: the hop-by-hop ones, Te aside, are gone.
LEMMA HopByHopHeadersStay ==
    ASSUME NEW headers, IsFunction(headers)
    PROVE  LET kept == RemoveHopByHopHeaders(headers)
               hop  == HopByHop \cup {Canonical(v) : v \in Range(Values(headers, "Connection"))}
           IN  /\ IsFunction(kept)
               /\ \A n \in DOMAIN headers \ hop : n \in DOMAIN kept /\ kept[n] = headers[n]
               /\ DOMAIN kept \subseteq (DOMAIN headers \ hop) \cup {"Te"}
               /\ "Te" \in DOMAIN kept => kept["Te"] = <<"trailers">>
  <1> DEFINE hop  == HopByHop \cup {Canonical(v) : v \in Range(Values(headers, "Connection"))}
             rest == Restrict(headers, DOMAIN headers \ hop)
             kept == RemoveHopByHopHeaders(headers)
  <1>1. kept = IF HeaderHasToken(headers, "Te", "trailers") THEN Put(rest, "Te", "trailers") ELSE rest
    BY DEF RemoveHopByHopHeaders
  <1>2. "Te" \in hop
    BY DEF HopByHop
  <1>3. DOMAIN rest = DOMAIN headers \ hop /\ \A n \in DOMAIN rest : rest[n] = headers[n]
    BY DEF Restrict
  <1>4. IsFunction(kept)
    BY HeadersAreAFunction
  <1> HIDE DEF hop, rest, kept
  <1>5. CASE HeaderHasToken(headers, "Te", "trailers")
    <2>1. /\ DOMAIN kept = DOMAIN rest \cup {"Te"} /\ kept["Te"] = <<"trailers">>
          /\ \A n \in DOMAIN rest : n # "Te" => kept[n] = rest[n]
      BY <1>1, <1>5 DEF Put
    <2>2. QED
      BY <1>2, <1>3, <1>4, <2>1 DEF hop, kept
  <1>6. CASE ~HeaderHasToken(headers, "Te", "trailers")
    BY <1>1, <1>2, <1>3, <1>4, <1>6 DEF hop, kept
  <1>7. QED
    BY <1>5, <1>6

\* The headers of a request that the transport gets, before the live ones.
SentHeaders(i) ==
    LET kept == RemoveHopByHopHeaders(i.headers)
    IN  IF IsHTTP1UpgradeRequest(i)
        THEN Put(Put(kept, "Connection", "Upgrade"), "Upgrade", Get(i.headers, "Upgrade"))
        ELSE kept

\* A request that switches protocols keeps the two headers that do it.
LEMMA SwitchIsRestored ==
    ASSUME NEW i, IsFunction(i.headers)
    PROVE  LET basic   == SentHeaders(i)
               hop    == HopByHop \cup {Canonical(v) : v \in Range(Values(i.headers, "Connection"))}
               switch == IF IsHTTP1UpgradeRequest(i) THEN {"Connection", "Upgrade"} ELSE {}
           IN  /\ IsFunction(basic)
               /\ \A n \in DOMAIN i.headers \ hop : n \in DOMAIN basic /\ basic[n] = i.headers[n]
               /\ DOMAIN basic \subseteq (DOMAIN i.headers \ hop) \cup {"Te"} \cup switch
               /\ "Te" \in DOMAIN basic => basic["Te"] = <<"trailers">>
               /\ "Upgrade" \in switch =>
                     "Upgrade" \in DOMAIN basic /\ basic["Upgrade"] = <<Get(i.headers, "Upgrade")>>
  <1> DEFINE hop    == HopByHop \cup {Canonical(v) : v \in Range(Values(i.headers, "Connection"))}
             switch == IF IsHTTP1UpgradeRequest(i) THEN {"Connection", "Upgrade"} ELSE {}
             kept   == RemoveHopByHopHeaders(i.headers)
             basic   == SentHeaders(i)
  <1>1. /\ IsFunction(kept)
        /\ \A n \in DOMAIN i.headers \ hop : n \in DOMAIN kept /\ kept[n] = i.headers[n]
        /\ DOMAIN kept \subseteq (DOMAIN i.headers \ hop) \cup {"Te"}
        /\ "Te" \in DOMAIN kept => kept["Te"] = <<"trailers">>
    BY HopByHopHeadersStay
  <1>2. basic = IF IsHTTP1UpgradeRequest(i)
               THEN Put(Put(kept, "Connection", "Upgrade"), "Upgrade", Get(i.headers, "Upgrade"))
               ELSE kept
    BY DEF SentHeaders
  <1>3. {"Connection", "Upgrade"} \subseteq hop
    BY DEF HopByHop
  <1>4. switch = IF IsHTTP1UpgradeRequest(i) THEN {"Connection", "Upgrade"} ELSE {}
    OBVIOUS
  <1> HIDE DEF hop, switch, kept, basic
  <1>5. CASE IsHTTP1UpgradeRequest(i)
    <2>1. IsFunction(basic)
      BY <1>2, <1>5, HeadersAreAFunction
    <2>2. /\ DOMAIN basic = DOMAIN kept \cup {"Connection", "Upgrade"}
          /\ basic["Upgrade"] = <<Get(i.headers, "Upgrade")>>
          /\ \A n \in DOMAIN kept \ {"Connection", "Upgrade"} : basic[n] = kept[n]
      BY <1>2, <1>5 DEF Put
    <2>3. switch = {"Connection", "Upgrade"}
      BY <1>4, <1>5
    <2>4. QED
      BY <1>1, <1>3, <2>1, <2>2, <2>3 DEF hop, switch, kept, basic
  <1>6. CASE ~IsHTTP1UpgradeRequest(i)
    <2>1. basic = kept /\ switch = {}
      BY <1>2, <1>4, <1>6
    <2>2. QED
      BY <1>1, <2>1 DEF hop, switch, kept, basic
  <1>7. QED
    BY <1>5, <1>6

\* What the transport gets, whatever it makes of it.
HandedOver ==
    LET live  == {h.name : h \in Range(input.live)}
        named == {Canonical(v) : v \in Range(Values(input.headers, "Connection"))}
        hop   == HopByHop \cup named
        switch == IF IsHTTP1UpgradeRequest(input) THEN {"Connection", "Upgrade"} ELSE {}
        all    == Overridden(input.headers, input.live)
    IN  /\ \A n \in live \cup (DOMAIN input.headers \ hop) :
              n \in DOMAIN forwarded /\ n \in DOMAIN all /\ forwarded[n] = all[n]
        /\ DOMAIN forwarded \cap (hop \ live) \subseteq switch \cup {"Te"}
        /\ "Upgrade" \in switch \ live => Get(forwarded, "Upgrade") = Get(input.headers, "Upgrade")
        /\ "Te" \in DOMAIN forwarded \ live => forwarded["Te"] = <<"trailers">>

\* It gets the headers that were kept with the live ones put in.
LEMMA HeadersAreHandedOver ==
    ASSUME ForwardedInv, input \in Incoming, stage # "arrived"
    PROVE  HandedOver
  <1> DEFINE basic   == SentHeaders(input)
             live   == {h.name : h \in Range(input.live)}
             named  == {Canonical(v) : v \in Range(Values(input.headers, "Connection"))}
             hop    == HopByHop \cup named
             switch == IF IsHTTP1UpgradeRequest(input) THEN {"Connection", "Upgrade"} ELSE {}
  <1>1. IsFunction(input.headers) /\ IsList(input.live)
    BY InputsAssumption
  <1>2. /\ IsFunction(basic)
        /\ \A n \in DOMAIN input.headers \ hop : n \in DOMAIN basic /\ basic[n] = input.headers[n]
        /\ DOMAIN basic \subseteq (DOMAIN input.headers \ hop) \cup {"Te"} \cup switch
        /\ "Te" \in DOMAIN basic => basic["Te"] = <<"trailers">>
        /\ "Upgrade" \in switch =>
              "Upgrade" \in DOMAIN basic /\ basic["Upgrade"] = <<Get(input.headers, "Upgrade")>>
    BY <1>1, SwitchIsRestored
  <1>3. forwarded = Overridden(basic, input.live)
    <2>1. forwarded = ApplyHeaders(basic, input.live)
      BY DEF ForwardedInv, ForwardedHeaders, SentHeaders
    <2> HIDE DEF basic
    <2>2. QED
      BY <1>1, <1>2, <2>1, ReplacedOneByOne
  <1>4. ASSUME NEW n
        PROVE  LastOf(input.live, n) # 0 <=> n \in live
    <2>1. /\ LastOf(input.live, n) \in 0..Len(input.live)
          /\ LastOf(input.live, n) # 0 => input.live[LastOf(input.live, n)].name = n
          /\ \A j \in 1..Len(input.live) : input.live[j].name = n => j <= LastOf(input.live, n)
      BY <1>1, LastOfIsLast
    <2>2. DOMAIN input.live = 1..Len(input.live) /\ Len(input.live) \in Nat
      BY <1>1 DEF IsList
    <2>3. n \in live <=> \E j \in 1..Len(input.live) : input.live[j].name = n
      BY <2>2 DEF Range
    <2>4. QED
      BY <2>1, <2>2, <2>3
  <1> HIDE DEF basic, live, hop, switch
  <1>5. DOMAIN forwarded = DOMAIN basic \cup live
    BY <1>3 DEF Overridden, live
  <1>6. /\ \A n \in live : forwarded[n] = <<input.live[LastOf(input.live, n)].value>>
        /\ \A n \in DOMAIN basic \ live : forwarded[n] = basic[n]
    <2>1. ASSUME NEW n \in DOMAIN basic \cup live
          PROVE  forwarded[n] = IF LastOf(input.live, n) = 0 THEN basic[n]
                                ELSE <<input.live[LastOf(input.live, n)].value>>
      BY <1>3, <2>1 DEF Overridden, live
    <2>2. QED
      BY <1>4, <2>1
  <1> DEFINE all == Overridden(input.headers, input.live)
  <1>7. ASSUME NEW n \in live
        PROVE  n \in DOMAIN forwarded /\ n \in DOMAIN all /\ forwarded[n] = all[n]
    <2>1. n \in DOMAIN all /\ all[n] = <<input.live[LastOf(input.live, n)].value>>
      BY <1>4, <1>7 DEF Overridden, live
    <2>2. QED
      BY <1>5, <1>6, <2>1
  <1>8. ASSUME NEW n \in DOMAIN input.headers \ hop, n \notin live
        PROVE  n \in DOMAIN forwarded /\ n \in DOMAIN all /\ forwarded[n] = all[n]
    <2>1. n \in DOMAIN all /\ all[n] = input.headers[n]
      BY <1>4, <1>8 DEF Overridden, live
    <2>2. QED
      BY <1>2, <1>5, <1>6, <1>8, <2>1
  <1>9. DOMAIN forwarded \cap (hop \ live) \subseteq switch \cup {"Te"}
    BY <1>2, <1>5
  <1>10. ASSUME "Upgrade" \in switch \ live
         PROVE  Get(forwarded, "Upgrade") = Get(input.headers, "Upgrade")
    <2>1. "Upgrade" \in DOMAIN forwarded /\ forwarded["Upgrade"] = <<Get(input.headers, "Upgrade")>>
      BY <1>2, <1>5, <1>6, <1>10
    <2>2. Get(forwarded, "Upgrade") = forwarded["Upgrade"][1]
      BY <2>1 DEF Get
    <2>3. QED
      BY <2>1, <2>2
  <1>11. "Te" \in DOMAIN forwarded \ live => forwarded["Te"] = <<"trailers">>
    BY <1>2, <1>5, <1>6
  <1>12. QED
    BY <1>7, <1>8, <1>9, <1>10, <1>11 DEF HandedOver, live, hop, switch

\* The transport writes what it gets, less the names it writes itself.
LEMMA EndToEndHeaders ==
    ASSUME HandedOver, input \in Incoming
    PROVE  UpstreamGetsEndToEndHeaders
  <1> DEFINE live   == {h.name : h \in Range(input.live)}
             named  == {Canonical(v) : v \in Range(Values(input.headers, "Connection"))}
             hop    == HopByHop \cup named
             switch == IF IsHTTP1UpgradeRequest(input) THEN {"Connection", "Upgrade"} ELSE {}
             all    == Overridden(input.headers, input.live)
  <1> SUFFICES ASSUME NEW protocol \in UpstreamProtocols(input)
               PROVE  LET reached == Written(forwarded, protocol)
                          direct  == Written(all, protocol)
                          own     == OwnHeaders(protocol)
                      IN  /\ \A n \in live \ own : n \in DOMAIN reached /\ reached[n] = direct[n]
                          /\ \A n \in DOMAIN input.headers \ (hop \cup own) :
                                n \in DOMAIN reached /\ reached[n] = direct[n]
                          /\ DOMAIN reached \cap (hop \ live) \subseteq switch \cup {"Te"}
                          /\ "Upgrade" \in switch \ live =>
                                Get(reached, "Upgrade") = Get(input.headers, "Upgrade")
                          /\ "Te" \in DOMAIN reached \ live => reached["Te"] = <<"trailers">>
    BY DEF UpstreamGetsEndToEndHeaders
  <1> DEFINE reached == Written(forwarded, protocol)
             direct  == Written(all, protocol)
             own     == OwnHeaders(protocol)
  <1>1. /\ \A n \in live \cup (DOMAIN input.headers \ hop) :
              n \in DOMAIN forwarded /\ n \in DOMAIN all /\ forwarded[n] = all[n]
        /\ DOMAIN forwarded \cap (hop \ live) \subseteq switch \cup {"Te"}
        /\ "Upgrade" \in switch \ live => Get(forwarded, "Upgrade") = Get(input.headers, "Upgrade")
        /\ "Te" \in DOMAIN forwarded \ live => forwarded["Te"] = <<"trailers">>
    BY DEF HandedOver
  <1>2. /\ DOMAIN reached = DOMAIN forwarded \ own
        /\ \A n \in DOMAIN forwarded \ own :
              reached[n] = IF n = "User-Agent" THEN <<forwarded[n][1]>> ELSE forwarded[n]
    BY DEF Written
  <1>3. \A n \in DOMAIN all \ own : direct[n] = IF n = "User-Agent" THEN <<all[n][1]>> ELSE all[n]
    BY DEF Written
  <1>4. "Upgrade" \in switch => "Upgrade" \notin own
    BY DEF UpstreamProtocols, OwnHeaders
  <1> HIDE DEF live, named, hop, switch, all, reached, direct, own
  <1>5. \A n \in (live \cup (DOMAIN input.headers \ hop)) \ own :
            n \in DOMAIN reached /\ reached[n] = direct[n]
    BY <1>1, <1>2, <1>3
  <1>6. DOMAIN reached \cap (hop \ live) \subseteq switch \cup {"Te"}
    BY <1>1, <1>2
  <1>7. "Upgrade" \in switch \ live => Get(reached, "Upgrade") = Get(input.headers, "Upgrade")
    BY <1>1, <1>2, <1>4 DEF Get
  <1>8. "Te" \in DOMAIN reached \ live => reached["Te"] = <<"trailers">>
    BY <1>1, <1>2
  <1>9. QED
    BY <1>5, <1>6, <1>7, <1>8 DEF reached, direct, own

(* The client's end-to-end headers and the live ones reach the upstream over *)
(* either protocol, but for the names net/http writes itself, and of its own *)
(* connection's only what switches protocols (roundTrip).                    *)
THEOREM HeadersReachUpstream == CurlSpec => []UpstreamGetsEndToEndHeaders
  <1>1. ForwardedInv => UpstreamGetsEndToEndHeaders
    <2>1. CASE input \in Incoming /\ stage # "arrived"
      BY <2>1, HeadersAreHandedOver, EndToEndHeaders
    <2>2. CASE ~(input \in Incoming /\ stage # "arrived")
      BY <2>2 DEF UpstreamGetsEndToEndHeaders
    <2>3. QED
      BY <2>1, <2>2
  <1>2. QED
    BY <1>1, ForwardedInvariant, PTL

-----------------------------------------------------------------------------
(* CurlRender: what is hidden has no influence. *)

\* The same map but for what is under sensitive names.
AlikeMaps(m1, m2) ==
    /\ IsFunction(m1) /\ IsFunction(m2) /\ DOMAIN m1 = DOMAIN m2
    /\ \A n \in DOMAIN m1 : IsSensitive(n) \/ m1[n] = m2[n]

\* The same JSON but for that, at any depth: some relation between JSON values
\* that relates the two relates equals, or what is under the same names.
Alike(pairs) ==
    /\ pairs \subseteq JSONValues \X JSONValues
    /\ \A p \in pairs :
          LET v == p[1]  w == p[2]
          IN  \/ v = w
              \/ /\ Compound(v) /\ w.kind = v.kind /\ DOMAIN w.items = DOMAIN v.items
                 /\ \A n \in DOMAIN v.items :
                       (v.kind = "object" /\ IsSensitive(n)) \/ <<v.items[n], w.items[n]>> \in pairs

AlikeJSON(v, w) == \E pairs \in SUBSET (JSONValues \X JSONValues) : Alike(pairs) /\ <<v, w>> \in pairs

AlikeLists(l1, l2) ==
    /\ IsList(l1) /\ IsList(l2) /\ Len(l1) = Len(l2)
    /\ \A i \in 1..Len(l1) : l1[i].name = l2[i].name /\ (IsSensitive(l1[i].name) \/ l1[i].value = l2[i].value)

AlikeURLs(u1, u2) ==
    \/ u1 = u2
    \/ /\ u1.kind = "url" /\ u2.kind = "url" /\ u2 = [u1 EXCEPT !.query = u2.query]
       /\ IsFunction(u1) /\ {"kind", "query"} \subseteq DOMAIN u1 /\ AlikeMaps(u1.query, u2.query)

AlikeBodies(b1, b2, type) ==
    \/ b1 = b2
    \/ /\ b1.form = "form" /\ type = "application/x-www-form-urlencoded"
       /\ b2 = [b1 EXCEPT !.values = b2.values]
       /\ IsBody(b1) /\ AlikeMaps(b1.values, b2.values)
    \/ /\ b1.form = "json" /\ type # "application/x-www-form-urlencoded"
       /\ b2 = [b1 EXCEPT !.value = b2.value]
       /\ IsBody(b1) /\ AlikeJSON(b1.value, b2.value)

\* Two requests, to be shown without their secrets, that differ in those only.
AlikeRequests(r1, r2) ==
    LET type == Get(ApplyHeaders(r1.headers, r1.replay), "Content-Type")
    IN  /\ ~r1.showSecrets /\ ~r2.showSecrets
        /\ r1.method = r2.method /\ r1.protocol = r2.protocol /\ r1.kind = r2.kind
        /\ r1.timings = r2.timings /\ r1.truncated = r2.truncated
        /\ AlikeURLs(r1.url, r2.url)
        /\ AlikeMaps(r1.headers, r2.headers) /\ AlikeLists(r1.replay, r2.replay)
        /\ AlikeBodies(r1.body, r2.body, type)

\* A map redacted does not tell what was under its sensitive names.
LEMMA AlikeMapsRedacted ==
    ASSUME NEW m1, NEW m2, AlikeMaps(m1, m2)
    PROVE  RedactValues(m1) = RedactValues(m2) /\ HasSensitive(m1) = HasSensitive(m2)
  BY DEF AlikeMaps, RedactValues, HasSensitive

\* Redaction does not see the difference: one with no smaller one in its parts would see it.
LEMMA AlikeJSONRedacted ==
    ASSUME NEW v0, NEW w0, AlikeJSON(v0, w0)
    PROVE  RedactJSONValue[v0] = RedactJSONValue[w0]
  <1>1. PICK pairs \in SUBSET (JSONValues \X JSONValues) : Alike(pairs) /\ <<v0, w0>> \in pairs
    BY DEF AlikeJSON
  <1> DEFINE R == RedactJSONValue
             Bad == {v \in JSONValues : \E w \in JSONValues : <<v, w>> \in pairs /\ R[v] # R[w]}
  <1>2. ASSUME NEW v \in Bad
        PROVE  Compound(v) /\ \E n \in DOMAIN v.items : v.items[n] \in Bad
    <2>1. PICK w \in JSONValues : <<v, w>> \in pairs /\ R[v] # R[w]
      OBVIOUS
    <2>2. /\ Compound(v) /\ w.kind = v.kind /\ DOMAIN w.items = DOMAIN v.items
          /\ \A n \in DOMAIN v.items :
                (v.kind = "object" /\ IsSensitive(n)) \/ <<v.items[n], w.items[n]>> \in pairs
      BY <1>1, <2>1 DEF Alike
    <2> SUFFICES ASSUME \A n \in DOMAIN v.items : v.items[n] \notin Bad
                 PROVE  FALSE
      BY <2>2
    <2>3. Compound(w) /\ v \in JSONValues /\ w \in JSONValues
      BY <2>2 DEF Compound
    <2>4. /\ v = [kind |-> v.kind, items |-> v.items] /\ w = [kind |-> v.kind, items |-> w.items]
          /\ \A n \in DOMAIN v.items : v.items[n] \in JSONValues /\ w.items[n] \in JSONValues
      BY <2>2, <2>3, JSONAssumption
    <2> DEFINE child(u) == [n \in DOMAIN v.items |->
                     IF v.kind = "object" /\ IsSensitive(n)
                     THEN [value |-> Text(Redacted), changed |-> TRUE]
                     ELSE R[u.items[n]]]
               made(c) == [value   |-> [kind |-> v.kind, items |-> [n \in DOMAIN v.items |-> c[n].value]],
                           changed |-> \E n \in DOMAIN v.items : c[n].changed]
    <2>5. child(v) = child(w)
      <3>1. \A n \in DOMAIN v.items : (v.kind = "object" /\ IsSensitive(n)) \/ R[v.items[n]] = R[w.items[n]]
        BY <2>2, <2>4
      <3>2. QED
        BY <3>1
    <2>6. R[v] = RedactedBy(R, v) /\ R[w] = RedactedBy(R, w)
      BY <2>3, JSONEquations
    <2>7. /\ R[v] = [value   |-> [v EXCEPT !.items = [n \in DOMAIN v.items |-> child(v)[n].value]],
                     changed |-> \E n \in DOMAIN v.items : child(v)[n].changed]
          /\ R[w] = [value   |-> [w EXCEPT !.items = [n \in DOMAIN v.items |-> child(w)[n].value]],
                     changed |-> \E n \in DOMAIN v.items : child(w)[n].changed]
      BY <2>2, <2>3, <2>6 DEF RedactedBy
    <2>8. \A x : [v EXCEPT !.items = x] = [kind |-> v.kind, items |-> x]
                 /\ [w EXCEPT !.items = x] = [kind |-> v.kind, items |-> x]
      BY <2>4
    <2> HIDE DEF child, R
    <2>9. R[v] = made(child(v)) /\ R[w] = made(child(w))
      BY <2>7, <2>8
    <2> HIDE DEF made
    <2>10. QED
      BY <2>1, <2>5, <2>9
  <1>3. Bad = {}
    <2> HIDE DEF R
    <2> QED
      BY <1>2, JSONInduction DEF Bad
  <1>4. v0 \in JSONValues /\ w0 \in JSONValues
    BY <1>1
  <1>5. QED
    BY <1>1, <1>3, <1>4

\* Replacing headers keeps the likeness.
LEMMA AlikeHeadersApplied ==
    ASSUME NEW h1, NEW h2, NEW l1, NEW l2, AlikeMaps(h1, h2), AlikeLists(l1, l2)
    PROVE  AlikeMaps(ApplyHeaders(h1, l1), ApplyHeaders(h2, l2))
  <1>1. /\ ApplyHeaders(h1, l1) = Overridden(h1, l1) /\ ApplyHeaders(h2, l2) = Overridden(h2, l2)
    BY ReplacedOneByOne DEF AlikeMaps, AlikeLists
  <1>2. {h.name : h \in Range(l1)} = {h.name : h \in Range(l2)}
    <2>1. \A l : IsList(l) => Range(l) = {l[i] : i \in 1..Len(l)}
      BY DEF IsList, Range
    <2>2. /\ {h.name : h \in Range(l1)} = {l1[i].name : i \in 1..Len(l1)}
          /\ {h.name : h \in Range(l2)} = {l2[i].name : i \in 1..Len(l2)}
      BY <2>1 DEF AlikeLists
    <2>3. QED
      BY <2>2 DEF AlikeLists
  <1>3. ASSUME NEW n
        PROVE  LastOf(l1, n) = LastOf(l2, n)
    <2>1. {i \in 1..Len(l1) : l1[i].name = n} = {i \in 1..Len(l2) : l2[i].name = n}
      BY DEF AlikeLists
    <2>2. QED
      BY <2>1 DEF LastOf, SelectLastInSeq
  <1> DEFINE o1 == Overridden(h1, l1)
             o2 == Overridden(h2, l2)
  <1>4. DOMAIN o1 = DOMAIN o2 /\ IsFunction(o1) /\ IsFunction(o2)
    BY <1>2 DEF Overridden, IsFunction, AlikeMaps
  <1>5. ASSUME NEW n \in DOMAIN o1, ~IsSensitive(n)
        PROVE  o1[n] = o2[n]
    <2>1. n \in DOMAIN o2
      BY <1>4
    <2>2. /\ o1[n] = IF LastOf(l1, n) = 0 THEN h1[n] ELSE <<l1[LastOf(l1, n)].value>>
          /\ o2[n] = IF LastOf(l1, n) = 0 THEN h2[n] ELSE <<l2[LastOf(l1, n)].value>>
          /\ n \in DOMAIN h1 \cup {h.name : h \in Range(l1)}
      BY <1>3, <1>5, <2>1 DEF Overridden
    <2>3. CASE LastOf(l1, n) = 0
      <3>1. n \in DOMAIN h1
        <4>1. \A h \in Range(l1) : \E i \in 1..Len(l1) : h = l1[i]
          BY DEF AlikeLists, IsList, Range
        <4>2. \A h \in Range(l1) : h.name # n
          <5>1. Len(l1) \in Nat
            BY DEF AlikeLists, IsList
          <5>2. \A i \in 1..Len(l1) : l1[i].name # n
            BY <2>3, <5>1, LastOfIsLast DEF AlikeLists
          <5>3. QED
            BY <4>1, <5>2
        <4>3. QED
          BY <2>2, <4>2
      <3>2. h1[n] = h2[n]
        BY <1>5, <3>1 DEF AlikeMaps
      <3>3. QED
        BY <2>2, <2>3, <3>2
    <2>4. CASE LastOf(l1, n) # 0
      <3> DEFINE i == LastOf(l1, n)
      <3>1. i \in 1..Len(l1) /\ l1[i].name = n
        <4>1. i \in 0..Len(l1) /\ (i # 0 => l1[i].name = n) /\ Len(l1) \in Nat
          BY LastOfIsLast DEF AlikeLists, IsList
        <4> HIDE DEF i
        <4>2. QED
          BY <2>4, <4>1 DEF i
      <3> HIDE DEF i
      <3>2. l1[i].value = l2[i].value
        BY <1>5, <3>1 DEF AlikeLists
      <3>3. QED
        BY <2>2, <2>4, <3>2 DEF i
    <2>5. QED
      BY <2>3, <2>4
  <1> HIDE DEF o1, o2
  <1>6. AlikeMaps(o1, o2)
    BY <1>4, <1>5 DEF AlikeMaps
  <1>7. QED
    BY <1>1, <1>6 DEF o1, o2

\* Nor does a body redacted, which is redacted by its form and its type.
LEMMA AlikeBodiesRedacted ==
    ASSUME NEW b1, NEW b2, NEW type, AlikeBodies(b1, b2, type)
    PROVE  RedactBody(b1, type) = RedactBody(b2, type) /\ b1.form = b2.form
  <1>1. CASE b1 = b2
    BY <1>1
  <1>2. CASE /\ b1.form = "form" /\ type = "application/x-www-form-urlencoded"
             /\ b2 = [b1 EXCEPT !.values = b2.values]
             /\ IsBody(b1) /\ AlikeMaps(b1.values, b2.values)
    <2>1. b2.form = "form"
      BY <1>2 DEF IsBody, IsFunction
    <2>2. RedactValues(b1.values) = RedactValues(b2.values) /\ HasSensitive(b1.values) = HasSensitive(b2.values)
      BY <1>2, AlikeMapsRedacted
    <2>3. \A x : [b2 EXCEPT !.values = x] = [b1 EXCEPT !.values = x]
      BY <1>2 DEF IsBody, IsFunction
    <2>4. RedactForm(b1) = RedactForm(b2)
      BY <2>2, <2>3 DEF RedactForm
    <2>5. QED
      BY <1>2, <2>1, <2>4 DEF RedactBody
  <1>3. CASE /\ b1.form = "json" /\ type # "application/x-www-form-urlencoded"
             /\ b2 = [b1 EXCEPT !.value = b2.value]
             /\ IsBody(b1) /\ AlikeJSON(b1.value, b2.value)
    <2>1. b2.form = "json"
      BY <1>3 DEF IsBody, IsFunction
    <2>2. RedactJSONValue[b1.value] = RedactJSONValue[b2.value]
      BY <1>3, AlikeJSONRedacted
    <2>3. \A x : [b2 EXCEPT !.value = x] = [b1 EXCEPT !.value = x]
      BY <1>3 DEF IsBody, IsFunction
    <2>4. RedactJSON(b1) = RedactJSON(b2)
      BY <2>2, <2>3 DEF RedactJSON
    <2>5. QED
      BY <1>3, <2>1, <2>4 DEF RedactBody
  <1>4. QED
    BY <1>1, <1>2, <1>3 DEF AlikeBodies

(***************************************************************************)
(* What is under a sensitive name has no influence on what is shown: of    *)
(* requests that differ only there, at any depth of a JSON body, the cURL  *)
(* is the same, and so are the mark that something was hidden and the      *)
(* warnings (Curl with redaction).                                         *)
(***************************************************************************)
THEOREM SecretsHaveNoInfluence ==
    ASSUME NEW r1, NEW r2, AlikeRequests(r1, r2), ~IsSensitive("Content-Type")
    PROVE  Curl(r1) = Curl(r2)
  <1> DEFINE all1 == ApplyHeaders(r1.headers, r1.replay)
             all2 == ApplyHeaders(r2.headers, r2.replay)
             type == Get(all1, "Content-Type")
  <1>1. AlikeMaps(all1, all2)
    BY AlikeHeadersApplied DEF AlikeRequests
  <1> HIDE DEF all1, all2
  <1>2. Get(all2, "Content-Type") = type
    BY <1>1 DEF AlikeMaps, Get
  <1>3. RedactBody(r1.body, type) = RedactBody(r2.body, type) /\ r1.body.form = r2.body.form
    BY AlikeBodiesRedacted DEF AlikeRequests, all1
  <1>4. RedactValues(all1) = RedactValues(all2) /\ HasSensitive(all1) = HasSensitive(all2)
    BY <1>1, AlikeMapsRedacted
  <1>5. /\ RedactURL(r1.url) = RedactURL(r2.url)
        /\ (r1.url.kind = "url" /\ HasSensitive(r1.url.query))
              = (r2.url.kind = "url" /\ HasSensitive(r2.url.query))
    <2>1. CASE r1.url = r2.url
      BY <2>1
    <2>2. CASE r1.url # r2.url
      <3> DEFINE u1 == r1.url
                 u2 == r2.url
      <3>1. /\ u1.kind = "url" /\ u2 = [u1 EXCEPT !.query = u2.query]
            /\ IsFunction(u1) /\ "query" \in DOMAIN u1 /\ "kind" \in DOMAIN u1 /\ AlikeMaps(u1.query, u2.query)
        BY <2>2 DEF IsURL, AlikeRequests, AlikeURLs
      <3>a. u2.kind = "url"
        BY <3>1 DEF IsFunction
      <3>2. \A x : [u2 EXCEPT !.query = x] = [u1 EXCEPT !.query = x]
        BY <3>1 DEF IsFunction
      <3>3. RedactValues(u1.query) = RedactValues(u2.query) /\ HasSensitive(u1.query) = HasSensitive(u2.query)
        BY <3>1, AlikeMapsRedacted
      <3>4. RedactURL(u1) = RedactURL(u2)
        BY <3>1, <3>a, <3>2, <3>3 DEF RedactURL
      <3>5. QED
        BY <3>1, <3>a, <3>3, <3>4
    <2>3. QED
      BY <2>1, <2>2
  <1>6. /\ r1.method = r2.method /\ r1.protocol = r2.protocol /\ r1.kind = r2.kind
        /\ r1.timings = r2.timings /\ r1.truncated = r2.truncated
        /\ ~r1.showSecrets /\ ~r2.showSecrets
    BY DEF AlikeRequests
  <1> DEFINE body == RedactBody(r1.body, type)
             url == RedactURL(r1.url)
             headers == RedactValues(all1)
             shown(r) == [command |->
            [method  |-> r.method, url |-> url,
             option  |-> CurlProtocolOption(r.protocol),
             headers |-> Restrict(headers, DOMAIN headers \ SkippedHeaders),
             data    |-> IF body.body.form = "binary" THEN NoBody ELSE body.body,
             compressed |-> Get(headers, "Accept-Encoding") \notin {"", "identity"},
             writeOut   |-> r.timings],
         redacted |-> HasSensitive(all1) \/ body.changed \/ (r1.url.kind = "url" /\ HasSensitive(r1.url.query)),
         warnings |-> Warnings(r, body.body)]
  <1>7. Warnings(r1, body.body) = Warnings(r2, body.body)
    BY <1>6 DEF Warnings
  <1>8. Curl(r1) = shown(r1)
    BY <1>6 DEF Curl, all1
  <1>9. Curl(r2) = shown(r2)
    BY <1>2, <1>3, <1>4, <1>5, <1>6 DEF Curl, all2
  <1>10. shown(r1) = shown(r2)
    <2> HIDE DEF body, url, headers
    <2>1. QED
      BY <1>6, <1>7
  <1> HIDE DEF shown
  <1>11. QED
    BY <1>8, <1>9, <1>10

-----------------------------------------------------------------------------
(* CurlCommand: the templates. *)

\* FirstJSONField of a list of names gives the field with the first name there is.
LEMMA FirstField ==
    ASSUME NEW items, NEW names, Len(names) \in Nat
    PROVE  /\ \A k \in 1..Len(names) :
                  names[k] \in DOMAIN items /\ (\A j \in 1..Len(names) : j < k => names[j] \notin DOMAIN items)
                  => FirstJSONField(items, names) = items[names[k]]
           /\ (\A j \in 1..Len(names) : names[j] \notin DOMAIN items) => FirstJSONField(items, names) = Absent
  <1> DEFINE there == {i \in 1..Len(names) : names[i] \in DOMAIN items}
             i0    == IF there # {} THEN Min(there) ELSE 0
  <1>1. FirstJSONField(items, names) = IF i0 = 0 THEN Absent ELSE items[names[i0]]
    BY DEF FirstJSONField, SelectInSeq
  <1>2. ASSUME NEW k \in 1..Len(names), names[k] \in DOMAIN items,
               \A j \in 1..Len(names) : j < k => names[j] \notin DOMAIN items
        PROVE  i0 = k
    <2>1. k \in there /\ \A j \in there : k <= j
      BY <1>2
    <2>2. \A x \in there : (\A y \in there : x <= y) => x = k
      BY <2>1
    <2> HIDE DEF there
    <2>3. Min(there) = k
      BY <2>1, <2>2 DEF Min
    <2>4. QED
      BY <2>1, <2>3
  <1>3. (\A j \in 1..Len(names) : names[j] \notin DOMAIN items) => i0 = 0
    OBVIOUS
  <1>4. \A k \in 1..Len(names) : k # 0
    OBVIOUS
  <1> HIDE DEF i0
  <1>5. QED
    BY <1>1, <1>2, <1>3, <1>4

\* The first three of up to five names, which is as far as the templates need.
LEMMA FirstOf ==
    ASSUME NEW items, NEW names, Len(names) \in 2..5
    PROVE  LET has(k) == names[k] \in DOMAIN items
               first  == FirstJSONField(items, names)
           IN  /\ has(1) => first = items[names[1]]
               /\ ~has(1) /\ has(2) => first = items[names[2]]
               /\ ~has(1) /\ ~has(2) /\ Len(names) > 2 /\ has(3) => first = items[names[3]]
               /\ (\A j \in 1..Len(names) : ~has(j)) => first = Absent
  <1>1. Len(names) \in Nat
    OBVIOUS
  <1>2. \A k \in 1..Len(names) :
            names[k] \in DOMAIN items /\ (\A j \in 1..Len(names) : j < k => names[j] \notin DOMAIN items)
            => FirstJSONField(items, names) = items[names[k]]
    BY <1>1, FirstField
  <1>3. (\A j \in 1..Len(names) : names[j] \notin DOMAIN items) => FirstJSONField(items, names) = Absent
    BY <1>1, FirstField
  <1>4. names[1] \in DOMAIN items => FirstJSONField(items, names) = items[names[1]]
    BY <1>2
  <1>5. names[1] \notin DOMAIN items /\ names[2] \in DOMAIN items
        => FirstJSONField(items, names) = items[names[2]]
    BY <1>2
  <1>6. /\ names[1] \notin DOMAIN items /\ names[2] \notin DOMAIN items
        /\ Len(names) > 2 /\ names[3] \in DOMAIN items
        => FirstJSONField(items, names) = items[names[3]]
    <2>1. Len(names) > 2 => 3 \in 1..Len(names)
      OBVIOUS
    <2>2. \A j \in 1..Len(names) : j < 3 => j \in {1, 2}
      BY <1>1
    <2>3. QED
      BY <1>2, <2>1, <2>2
  <1>7. QED
    BY <1>3, <1>4, <1>5, <1>6

\* What the templates say, in one spelling or another.
SaysType(raw)    == raw \in {TypeIs(JSONType), TypeIs(Array(<<JSONType>>))}
SaysOrder(raw)   == raw \in {Order, Document([form |-> "json", value |-> Order])}
SaysOrders(root) ==
    \/ RawURL(root) = Address(Orders) /\ RawBase(root) = Absent
    \/ /\ RawURL(root) = Object([Scheme |-> Text("https"), Host |-> Text("api.example.com"),
                                 Path |-> Address(URL("", "", <<"orders">>))])
       /\ RawBase(root) = Absent
    \/ /\ RawURL(root)  = Address(URL("", "", <<"orders">>))
       /\ RawBase(root) = Address(URL("https", "api.example.com", <<>>))
SaysPost(root) ==
    /\ RawMethod(root) \in {Text("POST"), Text("post")}
    /\ RawProtocol(root) \in {Absent, Text("HTTP/2")}
    /\ RawBase64(root) = Absent
    /\ SaysOrder(RawBody(root)) /\ SaysType(RawHeaders(root)) /\ SaysOrders(root)
    /\ Field(root, "Body") \in {Absent, Order}

\* So the fields of a description are read by their first spelling in it.
LEMMA RawFields ==
    ASSUME NEW root
    PROVE  LET D == DOMAIN root
           IN  /\ "url" \in D => RawURL(root) = root["url"]
               /\ "url" \notin D /\ "uri" \in D => RawURL(root) = root["uri"]
               /\ "url" \notin D /\ "uri" \notin D /\ "URL" \in D => RawURL(root) = root["URL"]
               /\ "baseURL" \in D => RawBase(root) = root["baseURL"]
               /\ D \cap {"baseURL", "baseUrl"} = {} => RawBase(root) = Absent
               /\ "method" \in D => RawMethod(root) = root["method"]
               /\ "method" \notin D /\ "Method" \in D => RawMethod(root) = root["Method"]
               /\ "protocol" \in D => RawProtocol(root) = root["protocol"]
               /\ D \cap {"protocol", "Protocol"} = {} => RawProtocol(root) = Absent
               /\ D \cap {"body_base64", "bodyBase64"} = {} => RawBase64(root) = Absent
               /\ "body" \in D => RawBody(root) = root["body"]
               /\ "body" \notin D /\ "Body" \in D => RawBody(root) = root["Body"]
               /\ D \cap {"body", "Body"} = {} /\ "data" \in D => RawBody(root) = root["data"]
  <1> DEFINE D == DOMAIN root
  <1>1. /\ "url" \in D => RawURL(root) = root["url"]
        /\ "url" \notin D /\ "uri" \in D => RawURL(root) = root["uri"]
        /\ "url" \notin D /\ "uri" \notin D /\ "URL" \in D => RawURL(root) = root["URL"]
    BY FirstOf DEF RawURL
  <1>2. /\ "baseURL" \in D => RawBase(root) = root["baseURL"]
        /\ D \cap {"baseURL", "baseUrl"} = {} => RawBase(root) = Absent
    BY FirstOf DEF RawBase
  <1>3. /\ "method" \in D => RawMethod(root) = root["method"]
        /\ "method" \notin D /\ "Method" \in D => RawMethod(root) = root["Method"]
    BY FirstOf DEF RawMethod
  <1>4. /\ "protocol" \in D => RawProtocol(root) = root["protocol"]
        /\ D \cap {"protocol", "Protocol"} = {} => RawProtocol(root) = Absent
    BY FirstOf DEF RawProtocol
  <1>5. D \cap {"body_base64", "bodyBase64"} = {} => RawBase64(root) = Absent
    BY FirstOf DEF RawBase64
  <1>6. /\ "body" \in D => RawBody(root) = root["body"]
        /\ "body" \notin D /\ "Body" \in D => RawBody(root) = root["Body"]
        /\ D \cap {"body", "Body"} = {} /\ "data" \in D => RawBody(root) = root["data"]
    BY FirstOf DEF RawBody
  <1>7. QED
    BY <1>1, <1>2, <1>3, <1>4, <1>5, <1>6

\* Headers are read from one level down if they have a map.
LEMMA HeaderFields ==
    ASSUME NEW root
    PROVE  LET D == DOMAIN root
               flat(raw) == DOMAIN ItemsOf(raw) \cap {"map", "Map"} = {}
           IN  /\ "headers" \in D /\ flat(root["headers"]) => RawHeaders(root) = root["headers"]
               /\ "headers" \notin D /\ "Header" \in D /\ flat(root["Header"])
                     => RawHeaders(root) = root["Header"]
               /\ "headers" \in D /\ "map" \in DOMAIN ItemsOf(root["headers"])
                  /\ ItemsOf(root["headers"])["map"] # Absent
                     => RawHeaders(root) = ItemsOf(root["headers"])["map"]
  <1> DEFINE raw == FirstJSONField(root, <<"headers", "Header", "Headers">>)
             nested == FirstJSONField(ItemsOf(raw), <<"map", "Map">>)
  <1>1. RawHeaders(root) = IF nested = Absent THEN raw ELSE nested
    BY DEF RawHeaders
  <1>2. /\ "headers" \in DOMAIN root => raw = root["headers"]
        /\ "headers" \notin DOMAIN root /\ "Header" \in DOMAIN root => raw = root["Header"]
    BY FirstOf
  <1> HIDE DEF raw
  <1>3. /\ DOMAIN ItemsOf(raw) \cap {"map", "Map"} = {} => nested = Absent
        /\ "map" \in DOMAIN ItemsOf(raw) => nested = ItemsOf(raw)["map"]
    BY FirstOf
  <1> HIDE DEF nested
  <1>4. QED
    BY <1>1, <1>2, <1>3

WellFormed(json) ==
    /\ ObjectOrNone(json) /\ ObjectOrNone(Field(ItemsOf(json), "request"))
    /\ ObjectOrNone(Field(UnliftedRoot(json), "options"))

\* Without "request" and "options" the description is its own root.
LEMMA PlainRoot ==
    ASSUME NEW items, IsFunction(items), DOMAIN items \cap {"request", "options"} = {}
    PROVE  Root(Object(items)) = items /\ WellFormed(Object(items))
  <1>1. ItemsOf(Object(items)) = items /\ Object(items).kind = "object"
    BY DEF ItemsOf, Object
  <1>2. UnliftedRoot(Object(items)) = items
    BY <1>1 DEF UnliftedRoot
  <1>3. Field(items, "options") = Absent /\ Field(items, "request") = Absent /\ Absent.kind = "absent"
    BY DEF Field, Absent
  <1>4. ItemsOf(Absent) = <<>>
    BY <1>3 DEF ItemsOf
  <1>5. Root(Object(items)) = [n \in DOMAIN items |-> items[n]]
    BY <1>2, <1>3, <1>4 DEF Root
  <1>6. QED
    BY <1>1, <1>2, <1>3, <1>5 DEF WellFormed, ObjectOrNone, IsFunction

\* Headers that say the type are no absent value and have no map.
LEMMA TypeFacts ==
    /\ \A v : TypeIs(v).kind = "object" /\ ItemsOf(TypeIs(v)) = [n \in {"Content-Type"} |-> v]
    /\ \A v : DOMAIN ItemsOf(TypeIs(v)) \cap {"map", "Map"} = {}
    /\ \A v : TypeIs(v) # Absent
    /\ Absent # Order /\ Order.kind = "object"
  BY DEF TypeIs, Object, ItemsOf, Absent, Order

\* Each template, by the spelling of its fields, says the same.
LEMMA GenericTemplate ==
    ASSUME NEW language \in {"generic", "python"}
    PROVE  WellFormed(RenderRequestTemplate(language)) /\ SaysPost(Root(RenderRequestTemplate(language)))
  <1> DEFINE plain == [method |-> Text("POST"), url |-> Address(Orders), headers |-> TypeIs(JSONType),
                       body |-> Order]
             more  == [method |-> Text("POST"), url |-> Address(Orders), headers |-> TypeIs(JSONType),
                       body |-> Order, protocol |-> Text("HTTP/2")]
             root  == IF language = "generic" THEN more ELSE plain
  <1>1. RenderRequestTemplate(language) = Object(root)
    BY DEF RenderRequestTemplate
  <1>2. /\ IsFunction(root) /\ DOMAIN root \cap {"request", "options", "Body"} = {}
        /\ {"method", "url", "headers", "body"} \subseteq DOMAIN root
        /\ DOMAIN root \subseteq {"method", "url", "headers", "body", "protocol"}
        /\ "protocol" \in DOMAIN root => root["protocol"] = Text("HTTP/2")
        /\ root["method"] = Text("POST") /\ root["url"] = Address(Orders)
        /\ root["headers"] = TypeIs(JSONType) /\ root["body"] = Order
    BY DEF IsFunction
  <1> HIDE DEF root
  <1>3. Root(Object(root)) = root /\ WellFormed(Object(root))
    BY <1>2, PlainRoot
  <1>4. /\ RawMethod(root) = Text("POST") /\ RawURL(root) = Address(Orders) /\ RawBody(root) = Order
        /\ RawBase(root) = Absent /\ RawBase64(root) = Absent
        /\ RawProtocol(root) \in {Absent, Text("HTTP/2")}
    <2>1. DOMAIN root \cap {"protocol", "Protocol"} = {} \/ "protocol" \in DOMAIN root
      BY <1>2
    <2>2. QED
      BY <1>2, <2>1, RawFields
  <1>5. RawHeaders(root) = TypeIs(JSONType)
    BY <1>2, HeaderFields, TypeFacts
  <1>6. Field(root, "Body") = Absent
    BY <1>2 DEF Field
  <1>7. SaysPost(root)
    BY <1>4, <1>5, <1>6 DEF SaysPost, SaysOrder, SaysType, SaysOrders
  <1>8. QED
    BY <1>1, <1>3, <1>7

\* Go: the URL in parts, a list of values, and a Body that is not the empty one.
LEMMA GoTemplate ==
    WellFormed(RenderRequestTemplate("go")) /\ SaysPost(Root(RenderRequestTemplate("go")))
  <1> DEFINE address == Object([Scheme |-> Text("https"), Host |-> Text("api.example.com"),
                                Path |-> Address(URL("", "", <<"orders">>))])
             root == [Method |-> Text("POST"), Header |-> TypeIs(Array(<<JSONType>>)), Body |-> Order,
                      URL |-> address]
  <1>1. RenderRequestTemplate("go") = Object(root)
    BY DEF RenderRequestTemplate
  <1>2. /\ IsFunction(root) /\ DOMAIN root = {"Method", "Header", "Body", "URL"}
        /\ root["Method"] = Text("POST") /\ root["URL"] = address
        /\ root["Header"] = TypeIs(Array(<<JSONType>>)) /\ root["Body"] = Order
    BY DEF IsFunction
  <1> HIDE DEF root
  <1>3. Root(Object(root)) = root /\ WellFormed(Object(root))
    BY <1>2, PlainRoot
  <1>4. /\ RawMethod(root) = Text("POST") /\ RawURL(root) = address /\ RawBody(root) = Order
        /\ RawBase(root) = Absent /\ RawBase64(root) = Absent /\ RawProtocol(root) = Absent
    BY <1>2, RawFields
  <1>5. RawHeaders(root) = TypeIs(Array(<<JSONType>>))
    BY <1>2, HeaderFields, TypeFacts
  <1>6. Field(root, "Body") = Order
    BY <1>2 DEF Field
  <1>7. SaysPost(root)
    BY <1>4, <1>5, <1>6 DEF SaysPost, SaysOrder, SaysType, SaysOrders
  <1>8. QED
    BY <1>1, <1>3, <1>7

\* Java: the headers one level down, and uri.
LEMMA JavaTemplate ==
    WellFormed(RenderRequestTemplate("java")) /\ SaysPost(Root(RenderRequestTemplate("java")))
  <1> DEFINE nested == Object([map |-> TypeIs(Array(<<JSONType>>))])
             root == [method |-> Text("POST"), uri |-> Address(Orders), body |-> Order, headers |-> nested]
  <1>1. RenderRequestTemplate("java") = Object(root)
    BY DEF RenderRequestTemplate
  <1>2. /\ IsFunction(root) /\ DOMAIN root = {"method", "uri", "body", "headers"}
        /\ root["method"] = Text("POST") /\ root["uri"] = Address(Orders)
        /\ root["headers"] = nested /\ root["body"] = Order
    BY DEF IsFunction
  <1>a. "map" \in DOMAIN ItemsOf(nested) /\ ItemsOf(nested)["map"] = TypeIs(Array(<<JSONType>>))
    BY DEF ItemsOf, Object
  <1> HIDE DEF root, nested
  <1>3. Root(Object(root)) = root /\ WellFormed(Object(root))
    BY <1>2, PlainRoot
  <1>4. /\ RawMethod(root) = Text("POST") /\ RawURL(root) = Address(Orders) /\ RawBody(root) = Order
        /\ RawBase(root) = Absent /\ RawBase64(root) = Absent /\ RawProtocol(root) = Absent
    BY <1>2, RawFields
  <1>5. RawHeaders(root) = TypeIs(Array(<<JSONType>>))
    BY <1>2, <1>a, HeaderFields, TypeFacts
  <1>6. Field(root, "Body") = Absent
    BY <1>2 DEF Field
  <1>7. SaysPost(root)
    BY <1>4, <1>5, <1>6 DEF SaysPost, SaysOrder, SaysType, SaysOrders
  <1>8. QED
    BY <1>1, <1>3, <1>7

\* Node: the path joined to the base, a method in lower case, and data.
LEMMA NodeTemplate ==
    WellFormed(RenderRequestTemplate("node")) /\ SaysPost(Root(RenderRequestTemplate("node")))
  <1> DEFINE base == Address(URL("https", "api.example.com", <<>>))
             path == Address(URL("", "", <<"orders">>))
             root == [method |-> Text("post"), baseURL |-> base, url |-> path, headers |-> TypeIs(JSONType),
                      data |-> Order]
  <1>1. RenderRequestTemplate("node") = Object(root)
    BY DEF RenderRequestTemplate
  <1>2. /\ IsFunction(root) /\ DOMAIN root = {"method", "baseURL", "url", "headers", "data"}
        /\ root["method"] = Text("post") /\ root["baseURL"] = base /\ root["url"] = path
        /\ root["headers"] = TypeIs(JSONType) /\ root["data"] = Order
    BY DEF IsFunction
  <1> HIDE DEF root
  <1>3. Root(Object(root)) = root /\ WellFormed(Object(root))
    BY <1>2, PlainRoot
  <1>4. /\ RawMethod(root) = Text("post") /\ RawURL(root) = path /\ RawBody(root) = Order
        /\ RawBase(root) = base /\ RawBase64(root) = Absent /\ RawProtocol(root) = Absent
    BY <1>2, RawFields
  <1>5. RawHeaders(root) = TypeIs(JSONType)
    BY <1>2, HeaderFields, TypeFacts
  <1>6. Field(root, "Body") = Absent
    BY <1>2 DEF Field
  <1>7. SaysPost(root)
    BY <1>4, <1>5, <1>6 DEF SaysPost, SaysOrder, SaysType, SaysOrders
  <1>8. QED
    BY <1>1, <1>3, <1>7

\* fetch: what the options name is lifted.
LEMMA FetchTemplate ==
    WellFormed(RenderRequestTemplate("fetch")) /\ SaysPost(Root(RenderRequestTemplate("fetch")))
  <1> DEFINE document == Document([form |-> "json", value |-> Order])
             options  == [method |-> Text("POST"), headers |-> TypeIs(JSONType), body |-> document]
             items    == [url |-> Address(Orders), options |-> Object(options)]
             json     == RenderRequestTemplate("fetch")
             root     == Root(json)
  <1>1. json = Object(items)
    BY DEF RenderRequestTemplate
  <1>2. /\ DOMAIN items = {"url", "options"}
        /\ items["url"] = Address(Orders) /\ items["options"] = Object(options)
        /\ DOMAIN options = {"method", "headers", "body"} /\ options["method"] = Text("POST")
        /\ options["headers"] = TypeIs(JSONType) /\ options["body"] = document
    OBVIOUS
  <1> HIDE DEF options, items, document
  <1>3. /\ ItemsOf(Object(items)) = items /\ ItemsOf(Object(options)) = options
        /\ Object(items).kind = "object" /\ Object(options).kind = "object" /\ Absent.kind = "absent"
    BY DEF ItemsOf, Object, Absent
  <1>4. /\ UnliftedRoot(json) = items
        /\ Field(items, "options") = Object(options) /\ Field(items, "request") = Absent
    BY <1>1, <1>2, <1>3 DEF UnliftedRoot, Field
  <1>5. WellFormed(json)
    BY <1>1, <1>3, <1>4 DEF WellFormed, ObjectOrNone
  <1>6. root = [n \in DOMAIN items \cup (DOMAIN options \cap {"method", "headers", "body"}) |->
                  IF n \in DOMAIN items THEN items[n] ELSE options[n]]
    BY <1>3, <1>4 DEF Root
  <1>7. /\ DOMAIN root = {"url", "options", "method", "headers", "body"}
        /\ root["method"] = Text("POST") /\ root["url"] = Address(Orders)
        /\ root["headers"] = TypeIs(JSONType) /\ root["body"] = document
    BY <1>2, <1>6
  <1> HIDE DEF root, json
  <1>8. /\ RawMethod(root) = Text("POST") /\ RawURL(root) = Address(Orders) /\ RawBody(root) = document
        /\ RawBase(root) = Absent /\ RawBase64(root) = Absent /\ RawProtocol(root) = Absent
    BY <1>7, RawFields
  <1>9. RawHeaders(root) = TypeIs(JSONType)
    BY <1>7, HeaderFields, TypeFacts
  <1>10. Field(root, "Body") = Absent
    BY <1>7 DEF Field
  <1>11. SaysPost(root)
    BY <1>8, <1>9, <1>10 DEF SaysPost, SaysOrder, SaysType, SaysOrders, document
  <1>12. QED
    BY <1>5, <1>11 DEF root, json

OrderBody   == [form |-> "json", value |-> Order]
JSONHeaders == [n \in {"Content-Type"} |-> <<"application/json">>]

\* Headers that say the type become that header, and none is refused.
LEMMA TypeIsUnderstood ==
    ASSUME NEW raw, SaysType(raw)
    PROVE  /\ DecodeDebuggerHeaders(raw) = JSONHeaders /\ ObjectOrNone(raw)
           /\ \A n \in DOMAIN ItemsOf(raw) : ~HeaderRefused(n, ItemsOf(raw)[n])
  <1>1. PICK v \in {JSONType, Array(<<JSONType>>)} : raw = TypeIs(v)
    BY DEF SaysType
  <1>2. ItemsOf(raw) = [n \in {"Content-Type"} |-> v] /\ raw.kind = "object"
    BY <1>1, TypeFacts
  <1>3. IsScalar(JSONType) /\ JSONType.text = "application/json" /\ JSONType.kind = "text"
    BY DEF IsScalar, JSONType, Text
  <1>4. v.kind = "array" => v = Array(<<JSONType>>) /\ v.items = <<JSONType>>
    BY <1>3 DEF Array
  <1>5. v.kind # "array" => v = JSONType
    BY DEF Array
  <1>6. HeaderTexts(v) = <<"application/json">>
    <2>1. CASE v.kind = "array"
      <3>1. HeaderTexts(v) = [i \in DOMAIN v.items |-> IF IsScalar(v.items[i]) THEN v.items[i].text ELSE ""]
        BY <2>1 DEF HeaderTexts
      <3>2. DOMAIN v.items = 1..1 /\ \A i \in 1..1 : v.items[i] = JSONType
        BY <2>1, <1>4
      <3>3. HeaderTexts(v) = [i \in 1..1 |-> "application/json"]
        BY <3>1, <3>2, <1>3
      <3>4. QED
        BY <3>3
    <2>2. CASE v.kind # "array"
      BY <2>2, <1>3, <1>5 DEF HeaderTexts
    <2>3. QED
      BY <2>1, <2>2
  <1>7. DecodeDebuggerHeaders(raw) = JSONHeaders
    <2>1. {Canonical(n) : n \in DOMAIN ItemsOf(raw)} = {"Content-Type"}
      BY <1>2, WordsAssumption
    <2>2. (CHOOSE n \in DOMAIN ItemsOf(raw) : Canonical(n) = "Content-Type") = "Content-Type"
      BY <1>2, WordsAssumption
    <2>3. QED
      BY <1>2, <1>6, <2>1, <2>2 DEF DecodeDebuggerHeaders, JSONHeaders
  <1>8. ~HeaderRefused("Content-Type", v)
    <2>1. Range(HeaderTexts(v)) = {"application/json"}
      BY <1>6 DEF Range
    <2>2. v.kind = "array" => \A i \in DOMAIN v.items : IsScalar(v.items[i])
      <3>1. v.kind = "array" => DOMAIN v.items = 1..1 /\ \A i \in 1..1 : v.items[i] = JSONType
        BY <1>4
      <3>2. QED
        BY <1>3, <3>1
    <2>3. IsScalar(v) \/ v.kind = "array"
      BY <1>3, <1>5
    <2>4. QED
      BY <2>1, <2>2, <2>3, WordsAssumption DEF HeaderRefused
  <1>9. QED
    BY <1>2, <1>7, <1>8 DEF ObjectOrNone

\* The URL comes out the same, whole, in parts or joined.
LEMMA OrdersAreFound ==
    ASSUME NEW root, SaysOrders(root)
    PROVE  /\ EnvelopeURL(root) = Orders
           /\ StringOrNone(RawURL(root)) \/ RawURL(root).kind = "object"
           /\ RawURL(root).kind = "object" =>
                 "" \notin {TextOf(Field(RawURL(root).items, part)) : part \in {"Scheme", "Host"}}
           /\ StringOrNone(RawBase(root))
  <1> DEFINE parts   == [Scheme |-> Text("https"), Host |-> Text("api.example.com"),
                         Path |-> Address(URL("", "", <<"orders">>))]
             address == Object(parts)
             path    == URL("", "", <<"orders">>)
             base    == URL("https", "api.example.com", <<>>)
  <1>1. CASE RawURL(root) = Address(Orders) /\ RawBase(root) = Absent
    <2>1. DecodeDebuggerURL(Address(Orders)) = Orders
      BY DEF DecodeDebuggerURL, Address
    <2>2. QED
      BY <1>1, <2>1 DEF EnvelopeURL, StringOrNone, IsString, Address, Absent
  <1>2. CASE RawURL(root) = address /\ RawBase(root) = Absent
    <2>1. /\ address.kind = "object" /\ address.items = parts
          /\ DOMAIN parts = {"Scheme", "Host", "Path"} /\ parts["Path"] = Address(path)
          /\ Field(parts, "Scheme") = Text("https") /\ Field(parts, "Host") = Text("api.example.com")
      BY DEF Object, Field
    <2>2. TextOf(Text("https")) = "https" /\ TextOf(Text("api.example.com")) = "api.example.com"
      BY DEF TextOf, Text
    <2>3. Address(path).url.path = <<"orders">>
      BY DEF Address, URL
    <2> HIDE DEF parts, address
    <2>4. DecodeDebuggerURL(address) = [URL("https", "api.example.com", <<"orders">>) EXCEPT !.query = <<>>]
      BY <2>1, <2>2, <2>3 DEF DecodeDebuggerURL
    <2>5. DecodeDebuggerURL(address) = Orders
      BY <2>4 DEF Orders, URL
    <2>6. EnvelopeURL(root) = Orders
      BY <1>2, <2>5 DEF EnvelopeURL
    <2>7. StringOrNone(RawBase(root))
      BY <1>2 DEF StringOrNone, Absent
    <2>8. "" \notin {TextOf(Field(parts, part)) : part \in {"Scheme", "Host"}}
      BY <2>1, <2>2
    <2>9. QED
      BY <1>2, <2>1, <2>6, <2>7, <2>8
  <1>3. CASE RawURL(root) = Address(path) /\ RawBase(root) = Address(base)
    <2>1. DecodeDebuggerURL(Address(path)) = path /\ DecodeDebuggerURL(Address(base)) = base
          /\ Address(base) # Absent
      BY DEF DecodeDebuggerURL, Address, Absent
    <2>2. path # NoURL
      BY DEF URL, NoURL
    <2>3. EnvelopeURL(root) = CombineDebuggerURL(base, path)
      BY <1>3, <2>1, <2>2 DEF EnvelopeURL
    <2>4. CombineDebuggerURL(base, path)
            = [path EXCEPT !.scheme = "https", !.host = "api.example.com", !.path = <<>> \o <<"orders">>]
      BY DEF CombineDebuggerURL, URL
    <2>5. <<>> \o <<"orders">> = <<"orders">>
      OBVIOUS
    <2>6. CombineDebuggerURL(base, path) = Orders
      BY <2>4, <2>5 DEF Orders, URL
    <2>7. \A url : StringOrNone(Address(url)) /\ Address(url).kind # "object"
      BY DEF StringOrNone, IsString, Address
    <2>8. QED
      BY <1>3, <2>3, <2>6, <2>7
  <1>4. QED
    BY <1>1, <1>2, <1>3 DEF SaysOrders

\* What says that request is not refused and is read as it.
LEMMA PostIsUnderstood ==
    ASSUME NEW json, WellFormed(json), SaysPost(Root(json))
    PROVE  /\ ~EnvelopeRefused(json)
           /\ RequestFromEnvelope(json).method = "POST"
           /\ RequestFromEnvelope(json).url = Orders
           /\ RequestFromEnvelope(json).protocol \in {"", "HTTP/2.0"}
           /\ RequestFromEnvelope(json).headers = JSONHeaders
           /\ RequestFromEnvelope(json).body = OrderBody
  <1> DEFINE root == Root(json)
  <1>1. /\ DecodeDebuggerHeaders(RawHeaders(root)) = JSONHeaders /\ ObjectOrNone(RawHeaders(root))
        /\ \A n \in DOMAIN ItemsOf(RawHeaders(root)) : ~HeaderRefused(n, ItemsOf(RawHeaders(root))[n])
    BY TypeIsUnderstood DEF SaysPost
  <1>2. /\ EnvelopeURL(root) = Orders
        /\ StringOrNone(RawURL(root)) \/ RawURL(root).kind = "object"
        /\ RawURL(root).kind = "object" =>
              "" \notin {TextOf(Field(RawURL(root).items, part)) : part \in {"Scheme", "Host"}}
        /\ StringOrNone(RawBase(root))
    BY OrdersAreFound DEF SaysPost
  <1>3. TextOf(RawMethod(root)) \in {"POST", "post"} /\ StringOrNone(RawMethod(root))
    BY DEF SaysPost, TextOf, Text, StringOrNone, IsString
  <1>4. TextOf(RawProtocol(root)) \in {"", "HTTP/2"} /\ StringOrNone(RawProtocol(root))
    <2>1. CASE RawProtocol(root) = Absent
      BY <2>1 DEF TextOf, Absent, StringOrNone
    <2>2. CASE RawProtocol(root) = Text("HTTP/2")
      BY <2>2 DEF TextOf, Text, StringOrNone, IsString
    <2>3. QED
      BY <2>1, <2>2 DEF SaysPost
  <1>5. RawBase64(root).kind = "absent" /\ StringOrNone(RawBase64(root)) /\ TextOf(RawBase64(root)) = ""
    BY DEF SaysPost, Absent, StringOrNone, TextOf
  <1>6. EnvelopeBody(RawBody(root), RawBase64(root)) = OrderBody
    <2>1. CASE RawBody(root) = Order
      BY <1>5, <2>1, TypeFacts DEF EnvelopeBody, IsJSONBody, StringOrNone, IsString, OrderBody
    <2>2. CASE RawBody(root) = Document(OrderBody)
      <3>1. RawBody(root).kind = "document" /\ RawBody(root).body = OrderBody
        BY <2>2 DEF Document
      <3>2. ~IsJSONBody(RawBody(root))
        BY <3>1 DEF IsJSONBody, StringOrNone, IsString
      <3>3. QED
        BY <1>5, <3>1, <3>2 DEF EnvelopeBody
    <2>3. QED
      BY <2>1, <2>2 DEF SaysPost, SaysOrder, OrderBody
  <1>7. ~OpaqueGoBody(root)
    <2>1. Field(root, "Body") # Object(<<>>)
      <3>1. Absent # Object(<<>>)
        BY DEF Absent, Object
      <3>2. Order # Object(<<>>)
        <4>1. Order.items = [order_id |-> Text("demo-42")] /\ Object(<<>>).items = <<>>
          BY DEF Order, Object
        <4>2. DOMAIN Order.items = {"order_id"} /\ DOMAIN <<>> = {}
          BY <4>1
        <4>3. QED
          BY <4>1, <4>2
      <3>3. QED
        BY <3>1, <3>2 DEF SaysPost
    <2>2. QED
      BY <2>1 DEF OpaqueGoBody
  <1> HIDE DEF root
  <1>8. ~EnvelopeRefused(json)
    BY <1>1, <1>2, <1>3, <1>4, <1>5, <1>7 DEF EnvelopeRefused, WellFormed, root
  <1>9. Get(JSONHeaders, "Content-Type") = "application/json"
    BY DEF Get, JSONHeaders
  <1>10. RequestFromEnvelope(json) = Described(TextOf(RawMethod(root)), Orders, TextOf(RawProtocol(root)),
                                               JSONHeaders, OrderBody)
    BY <1>1, <1>2, <1>6, <1>9 DEF RequestFromEnvelope, root
  <1>11. MethodOf(TextOf(RawMethod(root)), OrderBody) = "POST"
    BY <1>3, WordsAssumption DEF MethodOf
  <1>12. NormalizeProtocol("") = "" /\ NormalizeProtocol("HTTP/2") = "HTTP/2.0"
    BY WordsAssumption DEF NormalizeProtocol
  <1>13. NormalizeProtocol(TextOf(RawProtocol(root))) \in {"", "HTTP/2.0"}
    BY <1>4, <1>12
  <1>14. RequestFromEnvelope(json) = [method |-> "POST", url |-> Orders,
              protocol |-> NormalizeProtocol(TextOf(RawProtocol(root))),
              headers |-> JSONHeaders, body |-> OrderBody]
    BY <1>10, <1>11 DEF Described
  <1>15. /\ RequestFromEnvelope(json).method = "POST" /\ RequestFromEnvelope(json).url = Orders
         /\ RequestFromEnvelope(json).protocol = NormalizeProtocol(TextOf(RawProtocol(root)))
         /\ RequestFromEnvelope(json).headers = JSONHeaders /\ RequestFromEnvelope(json).body = OrderBody
    BY <1>14
  <1>16. QED
    BY <1>8, <1>13, <1>15

\* So every template is understood, and as the same request but for the protocol.
LEMMA TemplatesAreUnderstood ==
    ASSUME NEW language \in Languages
    PROVE  LET described == RequestFromEnvelope(RenderRequestTemplate(language))
           IN  /\ ~EnvelopeRefused(RenderRequestTemplate(language))
               /\ ~RenderKindPanics(described.headers, described.url) /\ ValidateRenderRequest(described)
               /\ described.method = "POST" /\ described.url = Orders
               /\ described.headers = JSONHeaders /\ described.body = OrderBody
  <1> DEFINE json == RenderRequestTemplate(language)
             described == RequestFromEnvelope(json)
  <1>1. WellFormed(json) /\ SaysPost(Root(json))
    BY GenericTemplate, GoTemplate, JavaTemplate, NodeTemplate, FetchTemplate DEF Languages
  <1>2. /\ ~EnvelopeRefused(json)
        /\ described.method = "POST" /\ described.url = Orders /\ described.protocol \in {"", "HTTP/2.0"}
        /\ described.headers = JSONHeaders /\ described.body = OrderBody
    BY <1>1, PostIsUnderstood
  <1>3. Orders.kind = "url" /\ Orders.host = "api.example.com" /\ Orders.scheme = "https"
    BY DEF Orders, URL
  <1> HIDE DEF json, described
  <1>4. ValidateRenderRequest(described) /\ ~RenderKindPanics(described.headers, described.url)
    BY <1>2, <1>3, WordsAssumption DEF ValidateRenderRequest, RenderKindPanics
  <1>5. QED
    BY <1>2, <1>4 DEF json, described

\* Curl of that request: nothing in it is redacted.
LEMMA CurlOfOrder ==
    ASSUME NEW r, Order \in JSONValues, r.method = "POST", r.url = Orders, r.headers = JSONHeaders,
           r.body = OrderBody, r.replay = <<>>
    PROVE  LET command == Curl(r).command
           IN  /\ command.method = "POST" /\ command.url = Orders
               /\ command.headers = JSONHeaders /\ command.data = OrderBody
  <1>1. ~IsSensitive("Content-Type") /\ ~IsSensitive("order_id")
    BY WordsAssumption DEF IsSensitive, sensitiveNames
  <1>2. IsFunction(JSONHeaders) /\ IsList(<<>>)
    BY DEF IsFunction, JSONHeaders, IsList
  <1>3. AllHeaders(r) = JSONHeaders
    <2>1. AllHeaders(r) = Overridden(JSONHeaders, <<>>)
      BY <1>2, ReplacedOneByOne DEF AllHeaders
    <2>2. {h.name : h \in Range(<<>>)} = {}
      BY DEF Range
    <2>3. \A n : LastOf(<<>>, n) = 0
      BY <1>2, LastOfIsLast
    <2>4. Overridden(JSONHeaders, <<>>) = [n \in DOMAIN JSONHeaders |-> JSONHeaders[n]]
      BY <2>2, <2>3 DEF Overridden
    <2>5. QED
      BY <1>2, <2>1, <2>4 DEF IsFunction
  <1>4. RedactValues(JSONHeaders) = JSONHeaders
    BY <1>1 DEF RedactValues, JSONHeaders
  <1>5. HeadersOf(r) = JSONHeaders
    BY <1>3, <1>4 DEF HeadersOf
  <1>6. Restrict(JSONHeaders, DOMAIN JSONHeaders \ SkippedHeaders) = JSONHeaders
    BY DEF Restrict, JSONHeaders, SkippedHeaders
  <1>7. RedactURL(Orders) = Orders
    <2>1. RedactValues(<<>>) = <<>>
      BY DEF RedactValues
    <2>2. Orders.kind # "malformed" /\ Orders.query = <<>>
          /\ [Orders EXCEPT !.query = <<>>] = Orders
      BY DEF Orders, URL
    <2>3. QED
      BY <2>1, <2>2 DEF RedactURL
  <1>8. RedactJSONValue[Order].value = Order
    <2>1. /\ Order = [kind |-> "object", items |-> [order_id |-> Text("demo-42")]]
          /\ Order.kind = "object" /\ Order.items = [order_id |-> Text("demo-42")]
          /\ DOMAIN Order.items = {"order_id"} /\ Order.items["order_id"] = Text("demo-42")
      BY DEF Order, Object
    <2>2. Compound(Order) /\ ~Compound(Text("demo-42"))
      BY <2>1 DEF Compound, Text
    <2>3. Text("demo-42") \in JSONValues
      BY <2>1, <2>2, JSONAssumption
    <2> DEFINE R == RedactJSONValue
    <2>4. R[Text("demo-42")] = [value |-> Text("demo-42"), changed |-> FALSE]
      BY <2>2, <2>3, JSONEquations DEF RedactedBy
    <2>5. R[Order] = RedactedBy(R, Order)
      BY JSONEquations
    <2> HIDE DEF R
    <2> DEFINE child == [n \in DOMAIN Order.items |->
                 IF Order.kind = "object" /\ IsSensitive(n)
                 THEN [value |-> Text(Redacted), changed |-> TRUE] ELSE R[Order.items[n]]]
    <2>6. child = [n \in {"order_id"} |-> [value |-> Text("demo-42"), changed |-> FALSE]]
      BY <1>1, <2>1, <2>4
    <2>7. R[Order].value = [Order EXCEPT !.items = [n \in DOMAIN child |-> child[n].value]]
      BY <2>2, <2>5 DEF RedactedBy
    <2> HIDE DEF child
    <2>8. [n \in DOMAIN child |-> child[n].value] = Order.items
      BY <2>1, <2>6
    <2>9. [Order EXCEPT !.items = Order.items] = Order
      BY <2>1
    <2>10. QED
      BY <2>7, <2>8, <2>9 DEF R
  <1>9. BodyOf(r).body = OrderBody
    <2>1. OrderBody.form = "json" /\ OrderBody.value = Order /\ [OrderBody EXCEPT !.value = Order] = OrderBody
      BY DEF OrderBody
    <2>2. Get(JSONHeaders, "Content-Type") = "application/json"
      BY DEF Get, JSONHeaders
    <2>3. RedactJSON(OrderBody).body = OrderBody
      BY <1>8, <2>1 DEF RedactJSON
    <2>4. RedactBody(OrderBody, "application/json") = RedactJSON(OrderBody)
      BY <2>1 DEF RedactBody
    <2>5. QED
      BY <1>3, <2>2, <2>3, <2>4 DEF BodyOf
  <1>10. OrderBody.form = "json"
    BY DEF OrderBody
  <1>11. QED
    BY <1>5, <1>6, <1>7, <1>9, <1>10, PartsOfCommand

\* The command lines that give a template back, and what they come to.
Templated == "json" \in DOMAIN input /\ input.json \in {RenderRequestTemplate(l) : l \in Languages}

TemplateInv ==
    Templated =>
        /\ input \in Renders
        /\ stage = "template" => input.template # ""
        /\ stage = "rendering" \/ Rendered =>
              /\ request.method = "POST" /\ request.url = Orders /\ request.headers = JSONHeaders
              /\ request.body = OrderBody /\ request.replay = <<>> /\ Order \in JSONValues
        /\ exitCode = 2 => input.flaw # "none" \/ ~input.readable \/ input.template # ""

\* A template given back is that request from decoding on, and nothing refuses it.
LEMMA TemplateInvariant == CurlSpec => []TemplateInv
  <1>1. CurlInit => TemplateInv
    BY InputsAssumption DEF CurlInit, TemplateInv, Templated, Rendered, NoCode
  <1>2. TemplateInv /\ RenderedInv /\ [CurlNext]_curlVars => TemplateInv'
    <2> SUFFICES ASSUME TemplateInv, RenderedInv, [CurlNext]_curlVars, Templated
                 PROVE  TemplateInv'
      BY DEF CurlNext, Forward, ParseFlags, PrintTemplate, ReadRenderInput, Refuse, Panic, Decode, Render,
             Copy, WriteOutput, PrintResult, curlVars, TemplateInv, Templated
    <2>1. PICK language \in Languages : input.json = RenderRequestTemplate(language)
      BY DEF Templated
    <2>2. Refused(input) = EnvelopeRefused(input.json) /\ RequestOf(input) = RequestFromEnvelope(input.json)
      BY DEF Refused, RequestOf, Templated
    <2>3. /\ ~Refused(input)
          /\ ~RenderKindPanics(RequestOf(input).headers, RequestOf(input).url)
          /\ ValidateRenderRequest(RequestOf(input))
          /\ RequestOf(input).method = "POST" /\ RequestOf(input).url = Orders
          /\ RequestOf(input).headers = JSONHeaders /\ RequestOf(input).body = OrderBody
      BY <2>1, <2>2, TemplatesAreUnderstood
    <2>4. input \in Renders /\ Order \in JSONValues
      <3>1. input \in Renders
        BY DEF TemplateInv
      <3>2. IsBody(OrderBody)
        BY <2>3, <3>1, InputsAssumption
      <3>3. QED
        BY <3>1, <3>2 DEF IsBody, OrderBody
    <2> USE DEF TemplateInv, Rendered
    <2>5. CASE Forward
      BY <2>4, <2>5, InputsAssumption DEF Forward, RenderedInv, Templated
    <2>6. CASE ParseFlags
      BY <2>6 DEF ParseFlags, WriteRenderError, Exit, Templated
    <2>7. CASE PrintTemplate
      BY <2>7 DEF PrintTemplate, WriteRenderError, Exit, Templated
    <2>8. CASE ReadRenderInput
      BY <2>8 DEF ReadRenderInput, WriteRenderError, Exit, Templated
    <2>9. CASE Refuse \/ Panic
      BY <2>3, <2>9 DEF Refuse, Panic
    <2>10. CASE Decode
      BY <2>3, <2>4, <2>10 DEF Decode, Templated
    <2>11. CASE Render \/ Copy \/ WriteOutput
      BY <2>11 DEF Render, Copy, WriteOutput, Templated
    <2>12. CASE PrintResult
      <3>1. exitCode' \in {0, 1} /\ stage' = "exited" /\ UNCHANGED <<input, request>>
        BY <2>12 DEF PrintResult, Exit
      <3>2. exitCode' # 2
        <4> HIDE DEF TemplateInv, Rendered
        <4>1. QED
          BY <3>1
      <3>3. QED
        BY <2>4, <3>1, <3>2 DEF Templated
    <2>13. CASE UNCHANGED curlVars
      BY <2>13 DEF curlVars, Templated
    <2>14. QED
      BY <2>5, <2>6, <2>7, <2>8, <2>9, <2>10, <2>11, <2>12, <2>13 DEF CurlNext
  <1>3. QED
    BY <1>1, <1>2, RenderedInvariant, PTL DEF CurlSpec

(* The six templates mean one request, whatever else render is told          *)
(* (renderRequestTemplate, requestFromEnvelopeFile).                         *)
THEOREM TemplatesMeanTheSame == CurlSpec => []TemplatesAgree
  <1>1. TemplateInv /\ RenderedInv => TemplatesAgree
    <2> SUFFICES ASSUME TemplateInv, RenderedInv, Templated
                 PROVE  TemplatesAgree
      BY DEF TemplatesAgree, Templated
    <2>1. exitCode = 2 => input.flaw # "none" \/ ~input.readable \/ input.template # ""
      BY DEF TemplateInv
    <2>2. ASSUME Rendered
          PROVE  /\ result.command.method = "POST" /\ result.command.url = Orders
                 /\ result.command.headers = JSONHeaders /\ result.command.data = OrderBody
      <3>1. result = Curl(request)
        BY <2>2 DEF RenderedInv
      <3>2. QED
        BY <2>2, <3>1, CurlOfOrder DEF TemplateInv
    <2>3. QED
      BY <2>1, <2>2 DEF TemplatesAgree, JSONHeaders, OrderBody
  <1>2. QED
    BY <1>1, TemplateInvariant, RenderedInvariant, PTL

=============================================================================
