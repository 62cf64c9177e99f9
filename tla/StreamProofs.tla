----------------------------- MODULE StreamProofs -----------------------------
(***************************************************************************)
(* Machine-checked proofs about the two places where the proxy copies a    *)
(* stream: the tee that captures a body while it is forwarded (BodyTee),   *)
(* and the relay of a switched protocol or a tunnel (DuplexRelay).  They   *)
(* hold for streams of any length, every --max-body and every way of       *)
(* cutting a stream into reads.                                            *)
(***************************************************************************)
EXTENDS BodyTee, DuplexRelay, SequenceTheorems, TLAPS

-----------------------------------------------------------------------------
(* BodyTee: lemmas about prefixes and limitedBuffer.Write. *)

(* A prefix extended by the chunk that follows it is the longer prefix.     *)
LEMMA PrefixExtends ==
    ASSUME NEW S, NEW s \in Seq(S), NEW m \in 0..Len(s), NEW n \in m..Len(s)
    PROVE  SubSeq(s, 1, m) \o SubSeq(s, m + 1, n) = SubSeq(s, 1, n)
  <1> DEFINE p == SubSeq(s, 1, m)
             q == SubSeq(s, m + 1, n)
             r == SubSeq(s, 1, n)
  <1>1. p \in Seq(S) /\ Len(p) = m /\ \A i \in 1..m : p[i] = s[i]
    BY SubSeqProperties
  <1>2. q \in Seq(S) /\ Len(q) = n - m /\ \A i \in 1..(n - m) : q[i] = s[m + i]
    BY SubSeqProperties
  <1>3. r \in Seq(S) /\ Len(r) = n /\ \A i \in 1..n : r[i] = s[i]
    BY SubSeqProperties
  <1> HIDE DEF p, q, r
  <1>4. p \o q \in Seq(S) /\ Len(p \o q) = n
    BY <1>1, <1>2, ConcatProperties
  <1>5. \A i \in 1..n : (p \o q)[i] = s[i]
    BY <1>1, <1>2
  <1>6. p \o q = r
    BY <1>3, <1>4, <1>5, SeqEqual
  <1> QED
    BY <1>6 DEF p, q, r

(* A prefix of a chunk of s is a chunk of s.                                *)
LEMMA ChunkPrefix ==
    ASSUME NEW S, NEW s \in Seq(S), NEW m \in 0..Len(s), NEW n \in m..Len(s),
           NEW k \in 0..(n - m)
    PROVE  SubSeq(SubSeq(s, m + 1, n), 1, k) = SubSeq(s, m + 1, m + k)
  <1> DEFINE q == SubSeq(s, m + 1, n)
             t == SubSeq(q, 1, k)
             u == SubSeq(s, m + 1, m + k)
  <1>1. q \in Seq(S) /\ Len(q) = n - m /\ \A i \in 1..(n - m) : q[i] = s[m + i]
    BY SubSeqProperties
  <1>2. u \in Seq(S) /\ Len(u) = k /\ \A i \in 1..k : u[i] = s[m + i]
    BY SubSeqProperties
  <1> HIDE DEF q, u
  <1>3. t \in Seq(S) /\ Len(t) = k /\ \A i \in 1..k : t[i] = q[i]
    BY <1>1, SubSeqProperties
  <1> HIDE DEF t
  <1>4. t = u
    BY <1>1, <1>2, <1>3, SeqEqual
  <1> QED
    BY <1>4 DEF t, u, q

(* The three branches of limitedBuffer.Write.                               *)
LEMMA WriteCases ==
    ASSUME NEW b, NEW chunk, NEW room \in Int, room = Limit - Len(b.data),
           Len(chunk) \in Nat
    PROVE  /\ room <= 0 =>
                Write(b, chunk) = [data |-> b.data, truncated |-> TRUE]
           /\ room > 0 /\ Len(chunk) > room =>
                Write(b, chunk) = [data |-> b.data \o SubSeq(chunk, 1, room),
                                   truncated |-> TRUE]
           /\ room > 0 /\ Len(chunk) <= room =>
                Write(b, chunk) = [data |-> b.data \o chunk,
                                   truncated |-> b.truncated]
  BY DEF Write

(* One write keeps the buffer exact: it extends the first Limit bytes of the  *)
(* n bytes already read to the first Limit bytes of n + k, and marks the      *)
(* buffer as soon as a byte is left out.                                      *)
LEMMA WriteExtends ==
    ASSUME NEW s \in Seq(Byte), NEW n \in 0..Len(s), NEW k \in 1..(Len(s) - n),
           NEW b \in [data : Seq(Byte), truncated : BOOLEAN],
           b.data = SubSeq(s, 1, Least(n, Limit)),
           b.truncated <=> n > Limit
    PROVE  LET w == Write(b, SubSeq(s, n + 1, n + k))
           IN  /\ w \in [data : Seq(Byte), truncated : BOOLEAN]
               /\ w.data = SubSeq(s, 1, Least(n + k, Limit))
               /\ (w.truncated <=> n + k > Limit)
  <1> DEFINE chunk == SubSeq(s, n + 1, n + k)
             w == Write(b, chunk)
  <1> SUFFICES /\ w \in [data : Seq(Byte), truncated : BOOLEAN]
               /\ w.data = SubSeq(s, 1, Least(n + k, Limit))
               /\ (w.truncated <=> n + k > Limit)
    OBVIOUS
  <1>1. n \in Nat /\ k \in Nat /\ k >= 1 /\ n + k <= Len(s) /\ Limit \in Nat
        /\ Limit >= 1 /\ Len(s) \in Nat
    BY LimitAssumption
  <1>2. /\ Len(b.data) = Least(n, Limit)
        /\ Len(b.data) \in Nat /\ Limit - Len(b.data) \in Int
        /\ b.data \in Seq(Byte) /\ b.truncated \in BOOLEAN
    BY <1>1, SubSeqProperties DEF Least
  <1>3. chunk \in Seq(Byte) /\ Len(chunk) = k
    BY <1>1, SubSeqProperties
  <1> HIDE DEF chunk
  <1>4. CASE Limit <= n
    <2>1. Limit - Len(b.data) <= 0
      BY <1>1, <1>2, <1>4 DEF Least
    <2>2. w = [data |-> b.data, truncated |-> TRUE]
      BY <1>1, <1>2, <1>3, <2>1, WriteCases
    <2> HIDE DEF w
    <2>3. Least(n + k, Limit) = Least(n, Limit) /\ n + k > Limit
      BY <1>1, <1>4 DEF Least
    <2> QED
      BY <1>2, <2>2, <2>3
  <1>5. CASE n < Limit /\ n + k > Limit
    <2>1. Limit - Len(b.data) = Limit - n /\ Limit - n > 0 /\ k > Limit - n
      BY <1>1, <1>2, <1>5 DEF Least
    <2>2. w = [data |-> b.data \o SubSeq(chunk, 1, Limit - n), truncated |-> TRUE]
      BY <1>1, <1>2, <1>3, <2>1, WriteCases
    <2> HIDE DEF w
    <2>3. SubSeq(chunk, 1, Limit - n) = SubSeq(s, n + 1, Limit)
      <3>1. n + k \in n..Len(s) /\ Limit - n \in 0..(n + k - n)
        BY <1>1, <1>5
      <3>2. SubSeq(SubSeq(s, n + 1, n + k), 1, Limit - n)
               = SubSeq(s, n + 1, n + (Limit - n))
        BY <3>1, ChunkPrefix
      <3>3. n + (Limit - n) = Limit
        BY <1>1
      <3> QED
        BY <3>2, <3>3 DEF chunk
    <2>4. b.data \o SubSeq(s, n + 1, Limit) = SubSeq(s, 1, Limit)
      <3>1. Limit \in n..Len(s) /\ Least(n, Limit) = n
        BY <1>1, <1>5 DEF Least
      <3> QED
        BY <3>1, PrefixExtends
    <2>5. Least(n + k, Limit) = Limit
      BY <1>1, <1>5 DEF Least
    <2>6. SubSeq(s, 1, Limit) \in Seq(Byte)
      BY <1>1, <1>5, SubSeqProperties
    <2> QED
      BY <1>5, <2>2, <2>3, <2>4, <2>5, <2>6
  <1>6. CASE n + k <= Limit
    <2>1. Limit - Len(b.data) = Limit - n /\ Limit - n > 0 /\ k <= Limit - n
      BY <1>1, <1>2, <1>6 DEF Least
    <2>2. w = [data |-> b.data \o chunk, truncated |-> b.truncated]
      <3>1. PICK room \in Int : room = Limit - Len(b.data)
        BY <1>2
      <3>2. room > 0 /\ Len(chunk) <= room /\ Len(chunk) \in Nat
        BY <1>1, <1>3, <2>1, <3>1
      <3> QED
        BY <3>1, <3>2, WriteCases
    <2> HIDE DEF w
    <2>3. b.data \o chunk = SubSeq(s, 1, n + k)
      <3>1. n + k \in n..Len(s) /\ Least(n, Limit) = n
        BY <1>1, <1>6 DEF Least
      <3> QED
        BY <3>1, PrefixExtends DEF chunk
    <2>4. Least(n + k, Limit) = n + k /\ ~(n > Limit) /\ ~(n + k > Limit)
      BY <1>1, <1>6 DEF Least
    <2>5. SubSeq(s, 1, n + k) \in Seq(Byte)
      BY <1>1, SubSeqProperties
    <2> QED
      BY <1>6, <2>2, <2>3, <2>4, <2>5
  <1> QED
    BY <1>1, <1>4, <1>5, <1>6

-----------------------------------------------------------------------------
(* The inductive invariant: types, the buffer, and what the snapshot has kept *)
(* of it.  A snapshot that did not race saw a transport that will never write *)
(* again, so what it copied stays equal to the buffer.                        *)

TeeInv ==
    /\ TypeOK
    /\ CapturedIsPrefix
    /\ transport = "finished" => forwarded = Len(body)
    /\ Len(event.data) <= Limit
    /\ handler \in {"copied", "done"} /\ ~raced =>
          transport # "sending" /\ event.data = buffer.data
    /\ handler = "done" /\ ~raced => event.truncated = buffer.truncated

LEMMA InitTeeInv == TeeInit => TeeInv
  <1> SUFFICES ASSUME TeeInit PROVE TeeInv
    OBVIOUS
  <1>1. body \in Seq(Byte)
    BY BodiesAssumption DEF TeeInit
  <1>2. SubSeq(body, 1, Least(0, Limit)) = <<>>
    BY LimitAssumption, SubSeqEmpty DEF Least
  <1> QED
    <2>0. <<>> \in Seq(Byte) /\ <<>> \in Seq(Byte \cup {Garbage}) /\ Len(<<>>) = 0
      OBVIOUS
    <2>1. TypeOK
      <3>1. EmptyBuffer.data = <<>> /\ EmptyBuffer.truncated = FALSE
        BY DEF EmptyBuffer
      <3>2. EmptyBuffer \in [data : Seq(Byte), truncated : BOOLEAN]
        BY <2>0 DEF EmptyBuffer
      <3>3. EmptyBuffer \in [data : Seq(Byte \cup {Garbage}), truncated : BOOLEAN]
        BY <2>0 DEF EmptyBuffer
      <3>4. 0 \in 0..Len(body)
        BY <1>1
      <3> QED
        BY <1>1, <3>2, <3>3, <3>4 DEF TeeInit, TypeOK
    <2>2. CapturedIsPrefix
      <3>1. EmptyBuffer.data = <<>> /\ EmptyBuffer.truncated = FALSE
        BY DEF EmptyBuffer
      <3>2. ~(0 > Limit)
        BY LimitAssumption
      <3> QED
        BY <1>2, <3>1, <3>2 DEF TeeInit, CapturedIsPrefix
    <2>3. Len(event.data) <= Limit
      BY LimitAssumption DEF TeeInit, EmptyBuffer
    <2> QED
      BY <2>1, <2>2, <2>3 DEF TeeInit, TeeInv

LEMMA CapturedLength ==
    ASSUME TypeOK, CapturedIsPrefix
    PROVE  Len(buffer.data) = Least(forwarded, Limit) /\ Len(buffer.data) <= Limit
  BY LimitAssumption, SubSeqProperties DEF TypeOK, CapturedIsPrefix, Least

LEMMA TeeInductive == TeeInv /\ [TeeNext]_teeVars => TeeInv'
  <1> SUFFICES ASSUME TeeInv, [TeeNext]_teeVars PROVE TeeInv'
    OBVIOUS
  <1> USE DEF TeeInv
  <1>1. ASSUME NEW k \in 1..Len(body), Forward(k) PROVE TeeInv'
    <2>1. /\ forwarded \in 0..Len(body) /\ k \in 1..(Len(body) - forwarded)
          /\ body \in Seq(Byte) /\ Len(body) \in Nat
          /\ buffer \in [data : Seq(Byte), truncated : BOOLEAN]
      BY <1>1 DEF Forward, TypeOK
    <2>2. /\ buffer' \in [data : Seq(Byte), truncated : BOOLEAN]
          /\ buffer'.data = SubSeq(body, 1, Least(forwarded + k, Limit))
          /\ (buffer'.truncated <=> forwarded + k > Limit)
      BY <1>1, <2>1, WriteExtends DEF Forward, CapturedIsPrefix
    <2>3. transport = "sending" /\ forwarded' = forwarded + k
          /\ UNCHANGED <<body, transport, handler, event, failed, raced>>
      BY <1>1 DEF Forward
    <2> QED
      BY <2>1, <2>2, <2>3 DEF TypeOK, CapturedIsPrefix
  <1>2. CASE BodyEnds
    BY <1>2 DEF BodyEnds, TypeOK, CapturedIsPrefix
  <1>3. CASE TransportStops
    BY <1>3 DEF TransportStops, TypeOK, CapturedIsPrefix
  <1>4. CASE Answer
    BY <1>4 DEF Answer, TypeOK, CapturedIsPrefix
  <1>5. CASE AnswerFails
    BY <1>5 DEF AnswerFails, TypeOK, CapturedIsPrefix
  <1>6. CASE SnapshotBody
    <2>1. Len(buffer.data) <= Limit
      BY CapturedLength
    <2>2. buffer.data \in Seq(Byte) /\ buffer.data \in Seq(Byte \cup {Garbage})
      BY DEF TypeOK
    <2> QED
      BY <1>6, <2>1, <2>2 DEF SnapshotBody, TypeOK, CapturedIsPrefix
  <1>7. CASE SnapshotTorn
    <2>1. buffer.data \in Seq(Byte)
      BY DEF TypeOK
    <2>2. /\ Append(buffer.data, Garbage) \in Seq(Byte \cup {Garbage})
          /\ Len(Append(buffer.data, Garbage)) = Len(buffer.data) + 1
      BY <2>1
    <2>3. Len(buffer.data) + 1 <= Limit
      BY <1>7, <2>1, LimitAssumption DEF SnapshotTorn
    <2> QED
      BY <1>7, <2>2, <2>3 DEF SnapshotTorn, TypeOK, CapturedIsPrefix
  <1>8. CASE SnapshotFlag
    BY <1>8 DEF SnapshotFlag, TypeOK, CapturedIsPrefix
  <1>9. CASE UNCHANGED teeVars
    BY <1>9 DEF teeVars, TypeOK, CapturedIsPrefix
  <1> QED
    BY <1>1, <1>2, <1>3, <1>4, <1>5, <1>6, <1>7, <1>8, <1>9 DEF TeeNext

LEMMA TeeInvariant == TeeSpec => []TeeInv
  BY InitTeeInv, TeeInductive, PTL DEF TeeSpec

(* The limited buffer is an exact prefix with an exact truncation mark, for   *)
(* every body and however the transport cuts it into reads.                   *)
THEOREM BufferIsExact == TeeSpec => []CapturedIsPrefix
  BY TeeInvariant, PTL DEF TeeInv

(* No more than --max-body bytes are retained, even by a racing snapshot.     *)
THEOREM RetentionBound == TeeSpec => []RetentionIsBounded
  <1>1. TeeInv => RetentionIsBounded
    BY CapturedLength DEF TeeInv, RetentionIsBounded
  <1> QED
    BY <1>1, TeeInvariant, PTL

(* A snapshot taken after the transport finished is an exact account of the   *)
(* body: finalizeEvent is right whenever the upstream did not answer early.   *)
THEOREM QuietSnapshots == TeeSpec => []QuietSnapshotIsExact
  <1>1. TeeInv => QuietSnapshotIsExact
    BY DEF TeeInv, QuietSnapshotIsExact, CapturedIsPrefix
  <1> QED
    BY <1>1, TeeInvariant, PTL

-----------------------------------------------------------------------------
(* DuplexRelay: every way out of a switch. *)

\* What has been emitted and closed at each stage of the handler.
SwitchStage ==
    /\ via \in {"plain", "intercepted", "tunnel"}
    /\ pc = "switch" => via # "tunnel" /\ events = 0
    /\ pc # "switch" => events = IF via = "tunnel" THEN 0 ELSE 1
    /\ pc = "failed" => ~proxyEnd["upstream"] /\ (proxyEnd["client"] => via = "plain")
    /\ pc \in {"closing", "closed"} => ~proxyEnd["upstream"] /\ ~proxyEnd["client"]

(* Each early return of handleHTTP1Switch and serveTLS, and the end of      *)
(* relayDuplex, leaves one event and no connection behind.                  *)
THEOREM SwitchClosesBoth == Spec => []SwitchLeavesNothingOpen
  <1>1. Init => SwitchStage
    BY DEF Init, SwitchStage
  <1>2. SwitchStage /\ [Next]_vars => SwitchStage'
    <2> SUFFICES ASSUME SwitchStage, [Next]_vars PROVE SwitchStage'
      OBVIOUS
    <2>1. CASE NotWritable
      <3>1. /\ ~proxyEnd'["upstream"]
            /\ proxyEnd'["client"] => via = "plain"
        BY <2>1, Zenon DEF NotWritable, Close, Peers
      <3> QED
        BY <2>1, <3>1 DEF NotWritable, SwitchStage
    <2>2. CASE SwitchFails
      <3>1. ~proxyEnd'["upstream"] /\ ~proxyEnd'["client"]
        BY <2>2, Zenon DEF SwitchFails, Close, Peers
      <3> QED
        BY <2>2, <3>1 DEF SwitchFails, SwitchStage
    <2>3. CASE Switch
      BY <2>3 DEF Switch, SwitchStage
    <2>4. CASE CloseBoth
      BY <2>4 DEF CloseBoth, Close, Peers, SwitchStage
    <2>5. CASE Join
      BY <2>5 DEF Join, SwitchStage
    <2>6. ASSUME NEW p \in Peers, Copy(p) \/ EndOfFile(p) \/ CopyFails(p) PROVE SwitchStage'
      BY <2>6 DEF Copy, EndOfFile, CopyFails, CopyDone, SwitchStage
    <2>7. ASSUME NEW p \in Peers, Send(p) \/ \E how \in {"finished", "gone"} : Finish(p, how)
          PROVE  SwitchStage'
      BY <2>7 DEF Send, Finish, SwitchStage
    <2>8. CASE UNCHANGED vars
      BY <2>8 DEF vars, SwitchStage
    <2> QED
      BY <2>1, <2>2, <2>3, <2>4, <2>5, <2>6, <2>7, <2>8 DEF Next, Relay
  <1>3. SwitchStage => SwitchLeavesNothingOpen
    BY DEF SwitchStage, SwitchLeavesNothingOpen
  <1> QED
    BY <1>1, <1>2, <1>3, PTL DEF Spec

-----------------------------------------------------------------------------
(* The streams. *)

\* A stretch of a stream: the chunks that come after the k-th.
From(s, k) == s \in Seq(Nat) /\ \A i \in 1..Len(s) : s[i] = k + i

\* What the handler's reader still holds of peer p.
Early(p) == IF p = "client" THEN held ELSE <<>>

Got(p) == received[Other(p)]

\* A stream lies in three places: received, held in the reader, on the wire.
Stream(p) ==
    /\ From(Got(p), 0)
    /\ From(Early(p), Len(Got(p)))
    /\ From(wire[p], Len(Got(p)) + Len(Early(p)))
    /\ sent[p] = Len(Got(p)) + Len(Early(p)) + Len(wire[p])
    /\ first = p => peer[p] # "open" /\ Len(Got(p)) = sent[p]

Streams ==
    /\ {DOMAIN wire, DOMAIN received, DOMAIN sent, DOMAIN peer} = {Peers}
    /\ wire = [p \in Peers |-> wire[p]] /\ received = [p \in Peers |-> received[p]]
    /\ sent = [p \in Peers |-> sent[p]] /\ peer = [p \in Peers |-> peer[p]]
    /\ \A p \in Peers : Stream(p)

LEMMA PeerFacts ==
    /\ "client" \in Peers
    /\ \A p \in Peers : Other(p) \in Peers /\ Other(p) # p
    /\ \A p, q \in Peers : Other(p) = Other(q) => p = q
    /\ \A p, q \in Peers : q # p => q = Other(p)
  BY DEF Peers, Other

LEMMA Empty == ASSUME NEW k PROVE From(<<>>, k) /\ Len(<<>>) = 0
  BY DEF From

LEMMA Lengths == ASSUME NEW s, NEW k, From(s, k) PROVE Len(s) \in Nat /\ (Len(s) = 0 <=> s = <<>>)
  BY DEF From

LEMMA Longer ==
    ASSUME NEW s, NEW k \in Nat, From(s, k)
    PROVE  /\ From(Append(s, k + Len(s) + 1), k)
           /\ Len(Append(s, k + Len(s) + 1)) = Len(s) + 1
  <1>1. s \in Seq(Nat) /\ Len(s) \in Nat /\ \A i \in 1..Len(s) : s[i] = k + i
    BY DEF From
  <1> DEFINE n == k + Len(s) + 1
  <1>2. n \in Nat
    BY <1>1
  <1>3. n = k + (Len(s) + 1)
    BY <1>1
  <1> HIDE DEF n
  <1>4. /\ Append(s, n) \in Seq(Nat) /\ Len(Append(s, n)) = Len(s) + 1
        /\ Append(s, n)[Len(s) + 1] = n
        /\ \A i \in 1..Len(s) : Append(s, n)[i] = s[i]
    BY <1>1, <1>2
  <1>5. ASSUME NEW i \in 1..Len(s) + 1 PROVE Append(s, n)[i] = k + i
    <2>1. CASE i = Len(s) + 1
      BY <1>3, <1>4, <2>1
    <2>2. CASE i # Len(s) + 1
      <3>1. i \in 1..Len(s)
        BY <1>1, <1>5, <2>2
      <3> QED
        BY <1>1, <1>4, <3>1
    <2> QED
      BY <2>1, <2>2
  <1> QED
    BY <1>4, <1>5 DEF From, n

LEMMA Shorter ==
    ASSUME NEW s, NEW k \in Nat, From(s, k), s # <<>>
    PROVE  /\ Head(s) = k + 1
           /\ From(Tail(s), k + 1)
           /\ Len(Tail(s)) = Len(s) - 1
  <1>1. s \in Seq(Nat) /\ Len(s) \in Nat /\ Len(s) > 0 /\ \A i \in 1..Len(s) : s[i] = k + i
    BY DEF From
  <1>2. /\ Head(s) = s[1] /\ 1 \in 1..Len(s)
        /\ Tail(s) \in Seq(Nat) /\ Len(Tail(s)) = Len(s) - 1
        /\ \A i \in 1..Len(s) - 1 : Tail(s)[i] = s[i + 1]
    BY <1>1
  <1>3. ASSUME NEW i \in 1..Len(s) - 1 PROVE Tail(s)[i] = k + 1 + i
    <2>1. i + 1 \in 1..Len(s) /\ k + (i + 1) = k + 1 + i
      BY <1>1
    <2> QED
      BY <1>1, <1>2, <2>1
  <1> QED
    BY <1>1, <1>2, <1>3 DEF From

LEMMA SourceFacts ==
    ASSUME NEW p \in Peers, Stream(p)
    PROVE  /\ Source(p) = <<>> <=> Early(p) = <<>> /\ wire[p] = <<>>
           /\ Early(p) # <<>> => Head(Source(p)) = Head(Early(p))
           /\ Early(p) = <<>> => Source(p) = wire[p]
  <1>1. Early(p) \in Seq(Nat) /\ wire[p] \in Seq(Nat)
    BY DEF Stream, From
  <1>2. CASE p = "client"
    <2>1. Source(p) = held \o wire[p] /\ Early(p) = held
      BY <1>2 DEF Source, Early
    <2>2. held = <<>> => held \o wire[p] = wire[p]
      BY <1>1, <2>1
    <2>3. held # <<>> => held \o wire[p] # <<>> /\ Head(held \o wire[p]) = Head(held)
      BY <1>1, <2>1
    <2> QED
      BY <2>1, <2>2, <2>3
  <1>3. CASE p # "client"
    BY <1>3 DEF Source, Early
  <1> QED
    BY <1>2, <1>3

(* A stream that an action does not touch stays as it is.                   *)
LEMMA StreamKept ==
    ASSUME NEW p \in Peers, Stream(p), Early(p)' = Early(p), wire'[p] = wire[p],
           received'[Other(p)] = received[Other(p)], sent'[p] = sent[p],
           peer[p] # "open" => peer'[p] # "open", first' = p => first = p
    PROVE  Stream(p)'
  BY DEF Stream, Got

LEMMA StreamsInvariant == Spec => []Streams
  <1>1. Init => Streams
    <2> SUFFICES ASSUME Init PROVE Streams
      OBVIOUS
    <2>1. /\ wire = [p \in Peers |-> <<>>] /\ received = [p \in Peers |-> <<>>]
          /\ peer = [p \in Peers |-> "open"] /\ first = "none"
          /\ sent = [p \in Peers |-> IF p = "client" THEN Len(held) ELSE 0]
      BY DEF Init, All
    <2>2. From(held, 0)
      <3>1. CASE held = <<>>
        BY <3>1, Empty
      <3>2. CASE held = <<1>>
        BY <3>2 DEF From
      <3> QED
        BY <3>1, <3>2 DEF Init
    <2>3. ASSUME NEW p \in Peers PROVE Stream(p)
      <3>1. Got(p) = <<>> /\ wire[p] = <<>> /\ first # p
        BY <2>1, PeerFacts DEF Got, Peers
      <3>2. Len(held) \in Nat
        BY <2>2, Lengths
      <3>3. sent[p] = Len(Early(p)) /\ From(Early(p), 0) /\ Len(Early(p)) \in Nat
        BY <2>1, <2>2, <3>2, Empty DEF Early
      <3> QED
        BY <3>1, <3>3, Empty DEF Stream
    <2> QED
      BY <2>1, <2>3 DEF Streams
  <1>2. Streams /\ [Next]_vars => Streams'
    <2> SUFFICES ASSUME Streams, [Next]_vars PROVE Streams'
      OBVIOUS
    <2>0. \A p \in Peers : Stream(p)
      BY DEF Streams
    <2>1. ASSUME NEW p \in Peers, Copy(p) PROVE Streams'
      <3> DEFINE q     == Other(p)
                 chunk == Head(Source(p))
                 g     == Len(Got(p))
                 h     == Len(Early(p))
                 w     == Len(wire[p])
      <3>1. /\ Source(p) # <<>>
            /\ UNCHANGED <<sent, peer, first>>
            /\ received' = [received EXCEPT ![q] = Append(@, chunk)]
        BY <2>1 DEF Copy
      <3>2. q \in Peers /\ q # p /\ Other(q) # q
        BY PeerFacts
      <3>3. /\ From(Got(p), 0) /\ From(Early(p), g) /\ From(wire[p], g + h)
            /\ sent[p] = g + h + w
            /\ first = p => peer[p] # "open" /\ g = sent[p]
        BY <2>0 DEF Stream
      <3>4. g \in Nat /\ h \in Nat /\ w \in Nat
        BY <3>3, Lengths
      <3>5. Early(p) # <<>> => Head(Early(p)) = g + 1 /\ From(Tail(Early(p)), g + 1) /\ Len(Tail(Early(p))) = h - 1
        BY <3>3, <3>4, Shorter
      <3>6. Early(p) = <<>> => wire[p] # <<>> /\ h = 0
        BY <2>0, <3>1, SourceFacts, Empty
      <3>7. wire[p] # <<>> => /\ Head(wire[p]) = g + h + 1 /\ From(Tail(wire[p]), g + h + 1)
                              /\ Len(Tail(wire[p])) = w - 1
        BY <3>3, <3>4, Shorter
      <3>8. chunk = g + 1
        <4>1. CASE Early(p) # <<>>
          BY <2>0, <3>5, <4>1, SourceFacts
        <4>2. CASE Early(p) = <<>>
          <5>1. chunk = g + h + 1 /\ h = 0
            BY <2>0, <3>6, <3>7, <4>2, SourceFacts
          <5> QED
            BY <3>4, <5>1
        <4> QED
          BY <4>1, <4>2
      <3>9. h + w > 0 /\ first # p
        <4>1. h = 0 => w # 0
          BY <3>3, <3>6, Lengths
        <4>2. h + w > 0
          BY <3>4, <4>1
        <4>3. g # sent[p]
          <5>1. sent[p] = g + h + w /\ g \in Nat /\ h \in Nat /\ w \in Nat
            BY <3>3, <3>4
          <5> HIDE DEF g, h, w
          <5> QED
            BY <4>2, <5>1
        <4> QED
          BY <3>3, <4>2, <4>3
      <3>10. received'[q] = Append(Got(p), g + 1) /\ Got(p)' = received'[q]
        BY <3>1, <3>2, <3>8 DEF Streams, Got
      <3>11. From(Got(p)', 0) /\ Len(Got(p)') = g + 1
        <4>1. 0 + g + 1 = g + 1
          BY <3>4
        <4> QED
          BY <3>3, <3>10, <4>1, Longer
      <3>12. /\ Early(p)' = IF Early(p) # <<>> THEN Tail(Early(p)) ELSE <<>>
             /\ wire'[p] = IF Early(p) # <<>> THEN wire[p] ELSE Tail(wire[p])
             /\ wire'[q] = wire[q] /\ Early(q)' = Early(q)
             /\ wire' = [r \in Peers |-> wire'[r]]
             /\ DOMAIN wire' = Peers
        <4>1. Early(p) # <<>> <=> p = "client" /\ held # <<>>
          BY DEF Early
        <4>2. CASE Early(p) # <<>>
          <5>1. held' = Tail(held) /\ wire' = wire
            BY <2>1, <4>1, <4>2 DEF Copy
          <5> QED
            BY <3>2, <4>1, <4>2, <5>1 DEF Early, Streams
        <4>3. CASE Early(p) = <<>>
          <5>1. held' = held /\ wire' = [wire EXCEPT ![p] = Tail(@)]
            BY <2>1, <4>1, <4>3 DEF Copy
          <5>2. Early(p)' = Early(p) /\ Early(q)' = Early(q)
            BY <5>1 DEF Early
          <5> QED
            BY <3>2, <4>3, <5>1, <5>2 DEF Streams
        <4> QED
          BY <4>2, <4>3
      <3> HIDE DEF q, g, h, w, chunk
      <3>13. Stream(p)'
        <4>1. CASE Early(p) # <<>>
          <5>1. /\ From(Early(p)', g + 1) /\ Len(Early(p)') = h - 1
                /\ wire'[p] = wire[p]
            BY <3>5, <3>12, <4>1
          <5>2. g + 1 + (h - 1) = g + h /\ g + 1 + (h - 1) + w = g + h + w
            BY <3>4
          <5> QED
            BY <3>1, <3>3, <3>9, <3>11, <5>1, <5>2 DEF Stream, w
        <4>2. CASE Early(p) = <<>>
          <5>1. Early(p)' = <<>> /\ h = 0 /\ From(wire'[p], g + h + 1) /\ Len(wire'[p]) = w - 1
            BY <3>6, <3>7, <3>12, <4>2
          <5>2. From(Early(p)', g + 1) /\ Len(Early(p)') = 0
            BY <5>1, Empty
          <5>3. g + h + 1 = g + 1 + 0 /\ g + 1 + 0 + (w - 1) = g + h + w
            BY <3>4, <5>1
          <5> QED
            BY <3>1, <3>3, <3>9, <3>11, <5>1, <5>2, <5>3 DEF Stream
        <4> QED
          BY <4>1, <4>2
      <3>14. Stream(q)'
        <4>1. received'[Other(q)] = received[Other(q)]
          BY <3>1, <3>2, PeerFacts DEF Streams
        <4> QED
          BY <2>0, <3>1, <3>2, <3>12, <4>1, StreamKept
      <3>15. \A r \in Peers : r = p \/ r = q
        BY PeerFacts DEF q
      <3>16. received' = [r \in Peers |-> received'[r]] /\ DOMAIN received' = Peers
        BY <3>1 DEF Streams
      <3> QED
        BY <3>1, <3>12, <3>13, <3>14, <3>15, <3>16 DEF Streams
    <2>2. ASSUME NEW p \in Peers, EndOfFile(p) PROVE Streams'
      <3>1. /\ UNCHANGED <<held, wire, received, sent, peer>>
            /\ peer[p] # "open" /\ Source(p) = <<>>
            /\ first' \in {p, first}
        BY <2>2 DEF EndOfFile, CopyDone
      <3>2. Len(Early(p)) = 0 /\ Len(wire[p]) = 0
        BY <2>0, <3>1, SourceFacts, Empty
      <3>3. Len(Got(p)) \in Nat /\ sent[p] = Len(Got(p)) + Len(Early(p)) + Len(wire[p])
        BY <2>0, Lengths DEF Stream
      <3>4. Len(Got(p)) = sent[p]
        BY <3>2, <3>3
      <3>5. \A r \in Peers : Early(r)' = Early(r) /\ Got(r)' = Got(r)
        BY <3>1 DEF Early, Got
      <3>6. \A r \in Peers : Stream(r)'
        BY <2>0, <3>1, <3>4, <3>5 DEF Stream
      <3> QED
        BY <3>1, <3>6 DEF Streams
    <2>3. ASSUME NEW p \in Peers, Send(p) PROVE Streams'
      <3> DEFINE k == Len(Got(p)) + Len(Early(p))
                 w == Len(wire[p])
      <3>1. /\ UNCHANGED <<held, received, peer, first>>
            /\ peer[p] = "open"
            /\ sent' = [sent EXCEPT ![p] = @ + 1]
            /\ wire' = [wire EXCEPT ![p] = Append(@, sent'[p])]
        BY <2>3 DEF Send
      <3>2. From(wire[p], k) /\ sent[p] = k + w /\ From(Got(p), 0) /\ From(Early(p), Len(Got(p)))
        BY <2>0 DEF Stream
      <3>3. k \in Nat /\ w \in Nat
        BY <3>2, Lengths
      <3>4. sent'[p] = k + w + 1 /\ wire'[p] = Append(wire[p], k + w + 1)
        BY <3>1, <3>2 DEF Streams
      <3>5. From(wire'[p], k) /\ Len(wire'[p]) = w + 1
        BY <3>2, <3>3, <3>4, Longer
      <3>6. \A r \in Peers : Early(r)' = Early(r) /\ Got(r)' = Got(r)
        BY <3>1 DEF Early, Got
      <3>7. Stream(p)'
        <4>1. first # p
          BY <2>0, <3>1 DEF Stream
        <4>2. k + w + 1 = k + (w + 1)
          <5> HIDE DEF k, w
          <5> QED
            BY <3>3
        <4> QED
          BY <3>1, <3>2, <3>4, <3>5, <3>6, <4>1, <4>2 DEF Stream
      <3>8. \A r \in Peers : r # p => Stream(r)'
        BY <2>0, <3>1, <3>6, StreamKept DEF Streams
      <3> QED
        BY <3>1, <3>7, <3>8 DEF Streams
    <2>4. ASSUME NEW p \in Peers, NEW how \in {"finished", "gone"}, Finish(p, how) PROVE Streams'
      <3>1. /\ UNCHANGED <<held, wire, received, sent, first>>
            /\ peer' = [peer EXCEPT ![p] = how]
        BY <2>4 DEF Finish
      <3>2. \A r \in Peers : Early(r)' = Early(r) /\ (peer[r] # "open" => peer'[r] # "open")
        BY <3>1 DEF Early, Streams
      <3>3. \A r \in Peers : Stream(r)'
        BY <2>0, <3>1, <3>2, StreamKept
      <3> QED
        BY <3>1, <3>3 DEF Streams
    <2>5. ASSUME UNCHANGED <<held, wire, received, sent, peer, first>> PROVE Streams'
      BY <2>5 DEF Streams, Stream, Early, Got
    <2>6. CASE \/ NotWritable \/ SwitchFails \/ Switch \/ CloseBoth \/ Join
               \/ \E p \in Peers : CopyFails(p)
               \/ UNCHANGED vars
      BY <2>5, <2>6 DEF NotWritable, SwitchFails, Switch, CloseBoth, Join, CopyFails, CopyDone, vars
    <2> QED
      BY <2>1, <2>2, <2>3, <2>4, <2>6 DEF Next, Relay
  <1> QED
    BY <1>1, <1>2, PTL DEF Spec

(* Each peer gets the other's stream in order and without a gap, the bytes  *)
(* that came before the switch included, and all of it from the peer that   *)
(* ends its stream first (relayDuplex over the request's bufio.Reader).     *)
THEOREM StreamsAreWhole == Spec => []StreamsArriveIntact
  <1>1. Streams => StreamsArriveIntact
    <2> SUFFICES ASSUME Streams, NEW p \in Peers
                 PROVE  /\ Got(p) = [i \in 1..Len(Got(p)) |-> i]
                        /\ first = p => Len(Got(p)) = sent[p]
      BY DEF StreamsArriveIntact, Got
    <2>1. Stream(p)
      BY DEF Streams
    <2>2. Got(p) \in Seq(Nat) /\ \A i \in 1..Len(Got(p)) : Got(p)[i] = i
      <3>1. From(Got(p), 0)
        BY <2>1 DEF Stream
      <3>2. \A i \in 1..Len(Got(p)) : 0 + i = i
        OBVIOUS
      <3> QED
        BY <3>1, <3>2 DEF From
    <2>3. Got(p) = [i \in 1..Len(Got(p)) |-> Got(p)[i]]
      BY <2>2
    <2>4. [i \in 1..Len(Got(p)) |-> Got(p)[i]] = [i \in 1..Len(Got(p)) |-> i]
      BY <2>2, Zenon
    <2> QED
      BY <2>1, <2>3, <2>4 DEF Stream
  <1> QED
    BY <1>1, StreamsInvariant, PTL

-----------------------------------------------------------------------------
(* The relay draws to its end: what RelayEnds rests on but for fairness. *)

Relaying == pc \in {"relay", "closing"}

\* Which copies run and which connections are open while the relay does.
Halves ==
    /\ copier = [p \in Peers |-> copier[p]] /\ proxyEnd = [p \in Peers |-> proxyEnd[p]]
    /\ \A p \in Peers :
          /\ Relaying => copier[p] \in {"copying", "done"}
          /\ pc = "closed" => copier[p] = "done"
          /\ pc \in {"switch", "relay"} => proxyEnd[p] = TRUE
          /\ pc = "closing" => proxyEnd[p] = FALSE
          /\ sent[p] \in 0..MaxChunks

LEMMA HalvesInvariant == Spec => []Halves
  <1>1. Init => Halves
    <2> SUFFICES ASSUME Init PROVE Halves
      OBVIOUS
    <2>1. Len(held) \in 0..MaxChunks
      BY MaxChunksAssumption DEF Init
    <2>2. 0 \in 0..MaxChunks
      BY MaxChunksAssumption
    <2> QED
      BY <2>1, <2>2 DEF Init, Halves, Relaying, All
  <1>2. Streams /\ Halves /\ [Next]_vars => Halves'
    <2> SUFFICES ASSUME Streams, Halves, [Next]_vars PROVE Halves'
      OBVIOUS
    <2>1. CASE NotWritable \/ SwitchFails
      <3>1. /\ pc' = "failed" /\ UNCHANGED <<copier, sent>>
            /\ proxyEnd' = [p \in Peers |-> proxyEnd'[p]]
        BY <2>1, Zenon DEF NotWritable, SwitchFails, Close
      <3> QED
        BY <3>1 DEF Halves, Relaying
    <2>2. CASE Switch
      BY <2>2 DEF Switch, Halves, Relaying, All
    <2>3. CASE CloseBoth
      <3>1. /\ pc = "relay" /\ pc' = "closing" /\ UNCHANGED <<copier, sent>>
            /\ proxyEnd' = [p \in Peers |-> FALSE]
        BY <2>3 DEF CloseBoth, Close
      <3> QED
        BY <3>1 DEF Halves, Relaying
    <2>4. CASE Join
      BY <2>4 DEF Join, Halves, Relaying, All
    <2>5. ASSUME NEW p \in Peers, Copy(p) PROVE Halves'
      BY <2>5 DEF Copy, Halves, Relaying
    <2>6. ASSUME NEW p \in Peers, EndOfFile(p) \/ CopyFails(p) PROVE Halves'
      <3>1. copier' = [copier EXCEPT ![p] = "done"] /\ UNCHANGED <<pc, proxyEnd, sent>>
        BY <2>6 DEF EndOfFile, CopyFails, CopyDone
      <3> QED
        BY <3>1 DEF Halves, Relaying
    <2>7. ASSUME NEW p \in Peers, Send(p) PROVE Halves'
      <3>1. sent' = [sent EXCEPT ![p] = sent[p] + 1] /\ sent[p] < MaxChunks /\ UNCHANGED <<pc, proxyEnd, copier>>
        BY <2>7 DEF Send
      <3>2. sent[p] + 1 \in 0..MaxChunks
        BY <3>1, MaxChunksAssumption DEF Halves
      <3> QED
        BY <3>1, <3>2 DEF Halves, Relaying, Streams
    <2>8. CASE (\E p \in Peers, how \in {"finished", "gone"} : Finish(p, how)) \/ UNCHANGED vars
      BY <2>8 DEF Finish, vars, Halves, Relaying
    <2> QED
      BY <2>1, <2>2, <2>3, <2>4, <2>5, <2>6, <2>7, <2>8 DEF Next, Relay
  <1> QED
    BY <1>1, <1>2, StreamsInvariant, PTL DEF Spec

LEMMA PartOf ==
    ASSUME NEW m \in Nat, NEW s \in 0..m, NEW a \in Nat, NEW b \in Nat, NEW c \in Nat, s = a + b + c
    PROVE  a \in 0..m
  OBVIOUS

\* What is left to do for the copy from p, and for the relay.
Left(p) == (MaxChunks - Len(received[Other(p)])) + (IF copier[p] = "copying" THEN 1 ELSE 0)

Todo == Left("client") + Left("upstream")
        + (IF pc = "relay" THEN 2 ELSE IF pc = "closing" THEN 1 ELSE 0)

(***************************************************************************)
(* Once a peer has ended its stream the relay is never stuck: one of the   *)
(* guards of its steps holds until it is closed.                           *)
(***************************************************************************)
RelayCanMove ==
    pc = "closing" \/ (pc = "relay" /\ \E p \in Peers : peer[p] # "open") =>
        \/ pc = "relay" /\ \E p \in Peers : copier[p] = "done"
        \/ pc = "closing" /\ copier = All("done")
        \/ \E p \in Peers : copier[p] = "copying" /\
              \/ ~proxyEnd[p]
              \/ proxyEnd[p] /\ peer[p] # "open" /\ Source(p) = <<>>
              \/ Source(p) # <<>> /\ (peer[Other(p)] = "gone" \/ ~proxyEnd[Other(p)])
              \/ Source(p) # <<>> /\ proxyEnd[p] /\ proxyEnd[Other(p)] /\ peer[Other(p)] # "gone"

(***************************************************************************)
(* And every step of a relay lowers a number that no other step changes:   *)
(* it takes no more than 2 * MaxChunks + 4 of them.                        *)
(***************************************************************************)
RelayDrawsToEnd ==
    [][Relaying => /\ Todo \in Nat
                   /\ Relay => Todo' < Todo
                   /\ Relay \/ Todo' = Todo]_vars

(* A relay in which a peer has ended its stream has a step to take          *)
(* (relayDuplex: both copies, the first that is done, the Close calls).     *)
THEOREM RelayIsNotStuck == Spec => []RelayCanMove
  <1>1. Halves => RelayCanMove
    <2> SUFFICES ASSUME Halves, Relaying, pc = "relay" => \E p \in Peers : peer[p] # "open",
                        pc = "relay" => \A p \in Peers : copier[p] # "done",
                        pc = "closing" => copier # All("done")
                 PROVE  \E p \in Peers : copier[p] = "copying" /\
                           \/ ~proxyEnd[p]
                           \/ proxyEnd[p] /\ peer[p] # "open" /\ Source(p) = <<>>
                           \/ Source(p) # <<>> /\ (peer[Other(p)] = "gone" \/ ~proxyEnd[Other(p)])
                           \/ Source(p) # <<>> /\ proxyEnd[p] /\ proxyEnd[Other(p)] /\ peer[Other(p)] # "gone"
      BY DEF RelayCanMove, Relaying
    <2>1. CASE pc = "relay"
      BY <2>1, PeerFacts DEF Halves, Relaying
    <2>2. CASE pc = "closing"
      <3>1. \E p \in Peers : copier[p] # "done"
        BY <2>2 DEF Halves, All
      <3> QED
        BY <2>2, <3>1 DEF Halves, Relaying
    <2> QED
      BY <2>1, <2>2 DEF Relaying
  <1> QED
    BY <1>1, HalvesInvariant, PTL

(* Every step of a relay comes nearer to its end (relayDuplex, io.Copy).    *)
THEOREM RelayEndsInTime == Spec => RelayDrawsToEnd
  <1> DEFINE Nearer == Relaying => /\ Todo \in Nat
                                   /\ Relay => Todo' < Todo
                                   /\ Relay \/ Todo' = Todo
  <1>1. Streams /\ Streams' /\ Halves /\ Halves' /\ [Next]_vars => [Nearer]_vars
    <2> SUFFICES ASSUME Streams, Streams', Halves, Halves', Next, Relaying PROVE Nearer
      OBVIOUS
    <2>0. /\ \A p \in Peers : /\ Len(received[Other(p)]) \in 0..MaxChunks
                              /\ Len(received'[Other(p)]) \in 0..MaxChunks
                              /\ Left(p) \in Nat /\ Left(p)' \in Nat
          /\ "client" \in Peers /\ "upstream" \in Peers
      <3>1. ASSUME NEW p \in Peers, Stream(p), sent[p] \in 0..MaxChunks
            PROVE  Len(received[Other(p)]) \in 0..MaxChunks
        <4>1. Len(Got(p)) \in Nat /\ Len(Early(p)) \in Nat /\ Len(wire[p]) \in Nat
          BY <3>1, Lengths DEF Stream
        <4>2. sent[p] = Len(Got(p)) + Len(Early(p)) + Len(wire[p])
          BY <3>1 DEF Stream
        <4>3. Len(Got(p)) \in 0..MaxChunks
          BY <3>1, <4>1, <4>2, MaxChunksAssumption, PartOf
        <4> QED
          BY <4>3 DEF Got
      <3>2. ASSUME NEW p \in Peers, Stream(p)', sent'[p] \in 0..MaxChunks
            PROVE  Len(received'[Other(p)]) \in 0..MaxChunks
        <4>1. Len(Got(p)') \in Nat /\ Len(Early(p)') \in Nat /\ Len(wire'[p]) \in Nat
          BY <3>2, Lengths DEF Stream
        <4>2. sent'[p] = Len(Got(p)') + Len(Early(p)') + Len(wire'[p])
          BY <3>2 DEF Stream
        <4>3. Len(Got(p)') \in 0..MaxChunks
          BY <3>2, <4>1, <4>2, MaxChunksAssumption, PartOf
        <4> QED
          BY <4>3 DEF Got
      <3>3. \A p \in Peers : /\ Len(received[Other(p)]) \in 0..MaxChunks
                             /\ Len(received'[Other(p)]) \in 0..MaxChunks
        BY <3>1, <3>2 DEF Streams, Halves
      <3> QED
        BY <3>3, MaxChunksAssumption DEF Left, Peers
    <2>1. Todo \in Nat
      BY <2>0 DEF Todo
    \* A step of one copy.
    <2>2. ASSUME NEW p \in Peers, Left(p)' < Left(p), Left(Other(p))' = Left(Other(p)), UNCHANGED pc
          PROVE  Todo' < Todo
      <3>1. CASE p = "client"
        BY <2>0, <2>2, <3>1 DEF Todo, Other
      <3>2. CASE p = "upstream"
        BY <2>0, <2>2, <3>2 DEF Todo, Other
      <3> QED
        BY <3>1, <3>2 DEF Peers
    <2>3. CASE CloseBoth \/ Join
      <3>1. UNCHANGED <<received, copier>>
        BY <2>3 DEF CloseBoth, Join
      <3>2. Left("client")' = Left("client") /\ Left("upstream")' = Left("upstream")
        BY <3>1 DEF Left
      <3>3. \/ pc = "relay" /\ pc' = "closing"
            \/ pc = "closing" /\ pc' = "closed"
        BY <2>3 DEF CloseBoth, Join
      <3>4. Todo' < Todo
        BY <2>0, <3>2, <3>3 DEF Todo
      <3> QED
        BY <2>1, <2>3, <3>4 DEF Relay
    <2>4. ASSUME NEW p \in Peers, Copy(p) PROVE Nearer
      <3>1. /\ received' = [received EXCEPT ![Other(p)] = Append(received[Other(p)], Head(Source(p)))]
            /\ UNCHANGED <<pc, copier>>
        BY <2>4 DEF Copy
      <3>2. /\ Other(p) \in Peers /\ Other(p) # p /\ received = [q \in Peers |-> received[q]]
            /\ received[Other(p)] \in Seq(Nat) /\ Other(Other(p)) # Other(p)
        <4>1. Got(p) \in Seq(Nat)
          BY DEF Streams, Stream, From
        <4> QED
          BY <4>1, PeerFacts DEF Got, Streams
      <3>3. /\ received'[Other(p)] = Append(received[Other(p)], Head(Source(p)))
            /\ received'[Other(Other(p))] = received[Other(Other(p))]
        BY <3>1, <3>2, PeerFacts
      <3>4. Len(received'[Other(p)]) = Len(received[Other(p)]) + 1
        BY <3>2, <3>3
      <3>5. Left(p)' < Left(p)
        <4> DEFINE c == IF copier[p] = "copying" THEN 1 ELSE 0
        <4>1. /\ Left(p) = (MaxChunks - Len(received[Other(p)])) + c
              /\ Left(p)' = (MaxChunks - Len(received'[Other(p)])) + c
          BY <3>1 DEF Left
        <4> DEFINE a == Len(received[Other(p)])
                   b == Len(received'[Other(p)])
        <4>2. c \in 0..1 /\ a \in 0..MaxChunks /\ b \in 0..MaxChunks /\ b = a + 1
          BY <2>0, <3>4
        <4>3. Left(p) = (MaxChunks - a) + c /\ Left(p)' = (MaxChunks - b) + c
          BY <4>1
        <4> HIDE DEF a, b, c
        <4>4. (MaxChunks - b) + c < (MaxChunks - a) + c
          BY <4>2, MaxChunksAssumption
        <4> QED
          BY <4>3, <4>4
      <3>6. Left(Other(p))' = Left(Other(p))
        BY <3>1, <3>3 DEF Left
      <3> QED
        BY <2>1, <2>2, <2>4, <3>1, <3>5, <3>6 DEF Relay
    <2>5. ASSUME NEW p \in Peers, EndOfFile(p) \/ CopyFails(p) PROVE Nearer
      <3>1. /\ copier[p] = "copying" /\ copier' = [copier EXCEPT ![p] = "done"]
            /\ UNCHANGED <<pc, received>>
        BY <2>5 DEF EndOfFile, CopyFails, CopyDone
      <3>2. copier'[p] = "done" /\ copier'[Other(p)] = copier[Other(p)]
        BY <3>1, PeerFacts DEF Halves
      <3>3. Left(p)' < Left(p)
        <4>1. /\ Left(p) = (MaxChunks - Len(received[Other(p)])) + 1
              /\ Left(p)' = (MaxChunks - Len(received[Other(p)])) + 0
          BY <3>1, <3>2 DEF Left
        <4> DEFINE a == Len(received[Other(p)])
        <4>2. a \in 0..MaxChunks
          BY <2>0
        <4>3. Left(p) = (MaxChunks - a) + 1 /\ Left(p)' = (MaxChunks - a) + 0
          BY <4>1
        <4> HIDE DEF a
        <4>4. (MaxChunks - a) + 0 < (MaxChunks - a) + 1
          BY <4>2, MaxChunksAssumption
        <4> QED
          BY <4>3, <4>4
      <3>4. Left(Other(p))' = Left(Other(p))
        BY <3>1, <3>2 DEF Left
      <3> QED
        BY <2>1, <2>2, <2>5, <3>1, <3>3, <3>4 DEF Relay
    <2>6. CASE \/ \E p \in Peers : Send(p) \/ (\E how \in {"finished", "gone"} : Finish(p, how))
               \/ NotWritable \/ SwitchFails \/ Switch
      <3>1. ~(NotWritable \/ SwitchFails \/ Switch)
        BY DEF Relaying, NotWritable, SwitchFails, Switch
      <3>2. UNCHANGED <<pc, received, copier, proxyEnd>>
        BY <2>6, <3>1 DEF Send, Finish
      <3>3. UNCHANGED Todo
        BY <3>2 DEF Todo, Left
      <3>4. ~Relay
        <4>1. ~(CloseBoth \/ Join)
          BY <3>2 DEF CloseBoth, Join, Relaying
        <4>2. \A p \in Peers : ~(EndOfFile(p) \/ CopyFails(p))
          BY <3>2 DEF EndOfFile, CopyFails, CopyDone, Halves
        <4>3. ASSUME NEW p \in Peers, Copy(p) PROVE FALSE
          <5>1. received'[Other(p)] = Append(received[Other(p)], Head(Source(p)))
            BY <4>3, PeerFacts DEF Copy, Streams
          <5>2. received[Other(p)] \in Seq(Nat)
            BY DEF Streams, Stream, From, Got
          <5> QED
            BY <3>2, <5>1, <5>2
        <4> QED
          BY <4>1, <4>2, <4>3 DEF Relay
      <3> QED
        BY <2>1, <3>3, <3>4
    <2> QED
      BY <2>3, <2>4, <2>5, <2>6 DEF Next, Relay
  <1> QED
    BY <1>1, StreamsInvariant, HalvesInvariant, PTL DEF Spec, RelayDrawsToEnd
=============================================================================
