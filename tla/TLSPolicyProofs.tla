--------------------------- MODULE TLSPolicyProofs ---------------------------
(***************************************************************************)
(* Machine-checked proofs about TLSPolicy, for every set of connections    *)
(* and hosts and for both modes.                                           *)
(***************************************************************************)
EXTENDS TLSPolicy, TLAPS

\* What every action needs to be expanded into.
\* (The definitions are cited per step; this list only names the constants of
\* the module that are sets of strings.)
LEMMA StageFacts ==
    /\ Intercepted \subseteq Stages
    /\ BypassCodes \subseteq Codes
    /\ "absent" \notin Codes
    /\ ~Bypass("absent")
    /\ ~Bypass("upstream_unreachable")
    /\ ~Bypass("tls_interception_supported")
    /\ Bypass("client_rejected_ca")
    /\ \A code \in Codes : ~Bypass(code) =>
          code \in {"tls_interception_supported", "upstream_unreachable"}
  BY DEF Intercepted, Stages, BypassCodes, Codes, Bypass

\* The answers of a probe are codes.
LEMMA ProbeAnswersAreCodes ==
    ASSUME TypeOK, NEW h \in Hosts
    PROVE  ProbeAnswers(h) \subseteq Codes
  BY DEF ProbeAnswers, KindCode, UpstreamKinds, Codes, BypassCodes, TypeOK

\* The mode and the destinations are those of the session.
LEMMA SettingIsFixed == [Next]_vars => UNCHANGED setting
  BY DEF vars, Next, Connect, PeekFails, FirstByteP, StrictHello, CacheHit,
         CacheMiss, ProbeReturns, TunnelDials, TunnelReports, RelayEnds, HandshakeFails,
         ClientRejects, ReportRejection, HandshakeSucceeds, ServingEnds

-----------------------------------------------------------------------------
(* Type correctness. *)

LEMMA InitTypeOK == Init => TypeOK
  BY DEF Init, TypeOK, Tunnelling, Stages, Codes, Diagnostic

LEMMA NextTypeOK == TypeOK /\ [Next]_vars => TypeOK'
  <1> SUFFICES ASSUME TypeOK, [Next]_vars PROVE TypeOK'
    OBVIOUS
  <1> USE DEF TypeOK, Tunnelling, vars, setting, codeVars, historyVars, Goto, Close
  <1>1. CASE UNCHANGED vars
    BY <1>1 DEF Probing
  <1>2. ASSUME NEW c \in Conns, NEW h \in Hosts, Connect(c, h) PROVE TypeOK'
    BY <1>2, HostAssumption DEF Connect, Stages
  <1>3. ASSUME NEW c \in Conns, PeekFails(c) PROVE TypeOK'
    BY <1>3 DEF PeekFails, Stages, Codes
  <1>4. ASSUME NEW c \in Conns, FirstByteP(c) PROVE TypeOK'
    BY <1>4 DEF FirstByteP, Stages, Codes
  <1>5. ASSUME NEW c \in Conns, StrictHello(c) PROVE TypeOK'
    BY <1>5 DEF StrictHello, Stages
  <1>6. ASSUME NEW c \in Conns, CacheHit(c) PROVE TypeOK'
    BY <1>6 DEF CacheHit, Stages, Branch
  <1>7. ASSUME NEW c \in Conns, CacheMiss(c) PROVE TypeOK'
    BY <1>7 DEF CacheMiss, Stages
  <1>8. ASSUME NEW c \in Conns, ProbeReturns(c) PROVE TypeOK'
    <2>1. PICK code \in ProbeAnswers(host[c]) :
             /\ decision' = [decision EXCEPT ![c] = code]
             /\ tlsDecisions' = IF Cacheable(code)
                                THEN [tlsDecisions EXCEPT ![host[c]] = code]
                                ELSE tlsDecisions
             /\ pc' = [pc EXCEPT ![c] = Branch(code)]
      BY <1>8 DEF ProbeReturns
    <2>2. host[c] \in Hosts
      BY <1>8 DEF ProbeReturns
    <2>3. code \in Codes
      BY <2>1, <2>2, ProbeAnswersAreCodes
    <2> QED
      BY <1>8, <2>1, <2>2, <2>3 DEF ProbeReturns, Stages, Branch
  <1>9. ASSUME NEW c \in Conns, TunnelDials(c) PROVE TypeOK'
    BY <1>9 DEF TunnelDials, Stages
  <1>16. ASSUME NEW c \in Conns, TunnelReports(c) PROVE TypeOK'
    <2>1. host[c] \in Hosts /\ Bypass(decision[c])
      BY <1>16 DEF TunnelReports
    <2>2. UnreachableDiagnostic(c) \in Diagnostic
      BY <2>1 DEF UnreachableDiagnostic, Diagnostic, Codes
    <2>3. TunnelDiagnostic(c) \in Diagnostic
      BY <2>1, StageFacts DEF TunnelDiagnostic, Diagnostic, Bypass
    <2>4. diagnostics' \subseteq Diagnostic
      BY <1>16, <2>2, <2>3 DEF TunnelReports
    <2> QED
      BY <1>16, <2>1, <2>4, StageFacts DEF TunnelReports, Stages
  <1>10. ASSUME NEW c \in Conns, RelayEnds(c) PROVE TypeOK'
    BY <1>10 DEF RelayEnds, Stages
  <1>11. ASSUME NEW c \in Conns, HandshakeFails(c) PROVE TypeOK'
    BY <1>11 DEF HandshakeFails, Stages
  <1>12. ASSUME NEW c \in Conns, ClientRejects(c) PROVE TypeOK'
    BY <1>12 DEF ClientRejects, Stages, Codes, BypassCodes
  <1>13. ASSUME NEW c \in Conns, ReportRejection(c) PROVE TypeOK'
    <2>1. RejectionDiagnostic(host[c]) \in Diagnostic
      BY <1>13, StageFacts
         DEF ReportRejection, RejectionDiagnostic, Diagnostic, Bypass
    <2> QED
      BY <1>13, <2>1 DEF ReportRejection, Stages
  <1>14. ASSUME NEW c \in Conns, HandshakeSucceeds(c) PROVE TypeOK'
    BY <1>14 DEF HandshakeSucceeds, Stages
  <1>15. ASSUME NEW c \in Conns, ServingEnds(c) PROVE TypeOK'
    BY <1>15 DEF ServingEnds, Stages
  <1> QED
    BY <1>1, <1>2, <1>3, <1>4, <1>5, <1>6, <1>7, <1>8, <1>9, <1>10, <1>11,
       <1>12, <1>13, <1>14, <1>15, <1>16 DEF Next

(* Every variable keeps its shape, in every run of the policy. *)
THEOREM TypeCorrect == Spec => []TypeOK
  BY InitTypeOK, NextTypeOK, PTL DEF Spec

-----------------------------------------------------------------------------
(* Safe mode leaves incompatible destinations alone.  A verdict "supported",  *)
(* cached or held by a connection, is true of the destination, and            *)
(* "unreachable" is never cached; only then does a decision that is not a     *)
(* bypass say something about the destination.                                *)

VerdictsAreTrue ==
    /\ \A h \in Hosts :
          /\ tlsDecisions[h] # "upstream_unreachable"
          /\ tlsDecisions[h] = "tls_interception_supported" =>
                upstream[h] \notin Detectable
    /\ mode = "safe" =>
          \A c \in Conns : pc[c] \in Intercepted =>
             \/ decision[c] = "upstream_unreachable"
             \/ upstream[host[c]] \notin Detectable

LEMMA VerdictsInductive ==
    ASSUME TypeOK, TypeOK', VerdictsAreTrue, [Next]_vars
    PROVE  VerdictsAreTrue'
  <1> USE DEF TypeOK, Tunnelling, VerdictsAreTrue, Intercepted, vars, setting, codeVars,
              historyVars, Goto, Close
  <1>1. CASE UNCHANGED vars
    BY <1>1
  <1>2. ASSUME NEW c \in Conns, NEW h \in Hosts, Connect(c, h)
        PROVE VerdictsAreTrue'
    BY <1>2 DEF Connect
  <1>3. ASSUME NEW c \in Conns, PeekFails(c) PROVE VerdictsAreTrue'
    BY <1>3 DEF PeekFails
  <1>4. ASSUME NEW c \in Conns, FirstByteP(c) PROVE VerdictsAreTrue'
    BY <1>4 DEF FirstByteP
  <1>5. ASSUME NEW c \in Conns, StrictHello(c) PROVE VerdictsAreTrue'
    BY <1>5 DEF StrictHello
  <1>6. ASSUME NEW c \in Conns, CacheHit(c) PROVE VerdictsAreTrue'
    <2>1. host[c] \in Hosts /\ tlsDecisions[host[c]] \in Codes
      BY <1>6 DEF CacheHit
    <2>2. ~Bypass(tlsDecisions[host[c]]) => upstream[host[c]] \notin Detectable
      BY <2>1, StageFacts
    <2> QED
      BY <1>6, <2>1, <2>2 DEF CacheHit, Branch
  <1>7. ASSUME NEW c \in Conns, CacheMiss(c) PROVE VerdictsAreTrue'
    BY <1>7 DEF CacheMiss
  <1>8. ASSUME NEW c \in Conns, ProbeReturns(c) PROVE VerdictsAreTrue'
    <2>1. PICK code \in ProbeAnswers(host[c]) :
             /\ decision' = [decision EXCEPT ![c] = code]
             /\ tlsDecisions' = IF Cacheable(code)
                                THEN [tlsDecisions EXCEPT ![host[c]] = code]
                                ELSE tlsDecisions
             /\ pc' = [pc EXCEPT ![c] = Branch(code)]
      BY <1>8 DEF ProbeReturns
    <2>2. host[c] \in Hosts /\ UNCHANGED <<setting, host>>
      BY <1>8 DEF ProbeReturns
    <2>3. /\ code \in Codes
          /\ code = "tls_interception_supported" =>
                upstream[host[c]] \notin Detectable
      BY <2>1, <2>2, ProbeAnswersAreCodes
         DEF ProbeAnswers, KindCode, UpstreamKinds, Detectable
    <2>4. code = "upstream_unreachable" => ~Cacheable(code)
      BY StageFacts DEF Cacheable
    <2>5. Branch(code) = "handshake" =>
             \/ code = "upstream_unreachable"
             \/ upstream[host[c]] \notin Detectable
      BY <2>3, StageFacts DEF Branch
    <2>6. Branch(code) \in {"dial", "handshake"}
      BY DEF Branch
    <2> QED
      BY <2>1, <2>2, <2>3, <2>4, <2>5, <2>6
  <1>9. ASSUME NEW c \in Conns, TunnelDials(c) PROVE VerdictsAreTrue'
    BY <1>9 DEF TunnelDials
  <1>16. ASSUME NEW c \in Conns, TunnelReports(c) PROVE VerdictsAreTrue'
    BY <1>16 DEF TunnelReports
  <1>10. ASSUME NEW c \in Conns, RelayEnds(c) PROVE VerdictsAreTrue'
    BY <1>10 DEF RelayEnds
  <1>11. ASSUME NEW c \in Conns, HandshakeFails(c) PROVE VerdictsAreTrue'
    BY <1>11 DEF HandshakeFails
  <1>12. ASSUME NEW c \in Conns, ClientRejects(c) PROVE VerdictsAreTrue'
    BY <1>12 DEF ClientRejects
  <1>13. ASSUME NEW c \in Conns, ReportRejection(c) PROVE VerdictsAreTrue'
    BY <1>13 DEF ReportRejection
  <1>14. ASSUME NEW c \in Conns, HandshakeSucceeds(c) PROVE VerdictsAreTrue'
    BY <1>14 DEF HandshakeSucceeds
  <1>15. ASSUME NEW c \in Conns, ServingEnds(c) PROVE VerdictsAreTrue'
    BY <1>15 DEF ServingEnds
  <1> QED
    BY <1>1, <1>2, <1>3, <1>4, <1>5, <1>6, <1>7, <1>8, <1>9, <1>10, <1>11,
       <1>12, <1>13, <1>14, <1>15, <1>16 DEF Next

(* Safe mode intercepts an incompatible destination only when the probe could *)
(* not reach it: serveConnect acts on verdicts that are true.                 *)
THEOREM SafeModeIsSafe == Spec => []SafeLeavesIncompatibleAlone
  <1>1. Init => VerdictsAreTrue
    BY DEF Init, VerdictsAreTrue, Intercepted
  <1>2. VerdictsAreTrue => SafeLeavesIncompatibleAlone
    BY DEF VerdictsAreTrue, SafeLeavesIncompatibleAlone
  <1> QED
    BY <1>1, <1>2, TypeCorrect, VerdictsInductive, PTL DEF Spec

-----------------------------------------------------------------------------
(* A settled host stays settled. *)

LEMMA SettledStep ==
    ASSUME TypeOK, [Next]_vars, NEW h \in Hosts, Settled(h)
    PROVE  Settled(h)'
  <1> USE DEF TypeOK, Tunnelling, Settled, Probing, vars, setting, codeVars, historyVars,
              Goto, Close
  <1>0. tlsDecisions[h] # "absent"
    BY StageFacts
  <1>1. CASE UNCHANGED vars
    BY <1>1 DEF Bypass
  <1>2. ASSUME NEW c \in Conns, NEW g \in Hosts, Connect(c, g)
        PROVE Settled(h)'
    BY <1>2 DEF Connect, Bypass
  <1>3. ASSUME NEW c \in Conns, PeekFails(c) PROVE Settled(h)'
    BY <1>3 DEF PeekFails, Bypass
  <1>4. ASSUME NEW c \in Conns, FirstByteP(c) PROVE Settled(h)'
    BY <1>4 DEF FirstByteP, Bypass
  <1>5. ASSUME NEW c \in Conns, StrictHello(c) PROVE Settled(h)'
    BY <1>5 DEF StrictHello, Bypass
  <1>6. ASSUME NEW c \in Conns, CacheHit(c) PROVE Settled(h)'
    BY <1>6 DEF CacheHit, Bypass, Branch
  <1>7. ASSUME NEW c \in Conns, CacheMiss(c) PROVE Settled(h)'
    BY <1>7, <1>0 DEF CacheMiss, Bypass
  <1>8. ASSUME NEW c \in Conns, ProbeReturns(c) PROVE Settled(h)'
    <2>1. host[c] # h
      BY <1>8 DEF ProbeReturns
    <2>2. /\ tlsDecisions'[h] = tlsDecisions[h]
          /\ UNCHANGED host
      BY <1>8, <2>1 DEF ProbeReturns
    <2>3. Probing(h)' \subseteq Probing(h)
      BY <1>8, <2>1 DEF ProbeReturns, Branch
    <2> QED
      BY <2>2, <2>3 DEF Bypass
  <1>9. ASSUME NEW c \in Conns, TunnelDials(c) PROVE Settled(h)'
    BY <1>9 DEF TunnelDials, Bypass
  <1>16. ASSUME NEW c \in Conns, TunnelReports(c) PROVE Settled(h)'
    BY <1>16 DEF TunnelReports, Bypass
  <1>10. ASSUME NEW c \in Conns, RelayEnds(c) PROVE Settled(h)'
    BY <1>10 DEF RelayEnds, Bypass
  <1>11. ASSUME NEW c \in Conns, HandshakeFails(c) PROVE Settled(h)'
    BY <1>11 DEF HandshakeFails, Bypass
  <1>12. ASSUME NEW c \in Conns, ClientRejects(c) PROVE Settled(h)'
    BY <1>12 DEF ClientRejects, Bypass, BypassCodes
  <1>13. ASSUME NEW c \in Conns, ReportRejection(c) PROVE Settled(h)'
    BY <1>13 DEF ReportRejection, Bypass
  <1>14. ASSUME NEW c \in Conns, HandshakeSucceeds(c) PROVE Settled(h)'
    BY <1>14 DEF HandshakeSucceeds, Bypass
  <1>15. ASSUME NEW c \in Conns, ServingEnds(c) PROVE Settled(h)'
    BY <1>15 DEF ServingEnds, Bypass
  <1> QED
    BY <1>1, <1>2, <1>3, <1>4, <1>5, <1>6, <1>7, <1>8, <1>9, <1>10, <1>11,
       <1>12, <1>13, <1>14, <1>15, <1>16 DEF Next

(* Once the cached verdict of a host is a bypass and no probe of the host is  *)
(* in flight, tlsDecision never probes it again and never answers otherwise.  *)
THEOREM SettledIsPermanent == Spec => SettledStaysSettled
  <1>1. TypeOK /\ [Next]_vars =>
           [\A h \in Hosts : Settled(h) => Settled(h)']_vars
    BY SettledStep
  <1> QED
    BY <1>1, TypeCorrect, PTL DEF Spec, SettledStaysSettled

-----------------------------------------------------------------------------
(* The promise made after a rejection.  Inductive form: a host with a         *)
(* rejection reported, or stored and about to be reported, is settled unless  *)
(* the rejection was stored while a probe of the host was in flight.          *)

PromiseInv ==
    /\ \A h \in Hosts \ overlapped : RetryPromised(h) => Settled(h)
    /\ mode = "safe" =>
          \A c \in Conns : pc[c] = "rejected" /\ host[c] \notin overlapped
                              => Settled(host[c])
    /\ \A c \in afterRetry : pc[c] # "idle" /\ RetryPromised(host[c])
    /\ PromiseKeptUnlessOverlapped

(* Diagnostics and the set of overlapped hosts only grow; a rejection         *)
(* diagnostic is added by ReportRejection alone.                              *)
LEMMA PromiseSources ==
    ASSUME TypeOK, [Next]_vars, NEW h \in Hosts
    PROVE  /\ RetryPromised(h) => RetryPromised(h)'
           /\ overlapped \subseteq overlapped'
           /\ RetryPromised(h)' /\ ~RetryPromised(h) =>
                 \E c \in Conns : pc[c] = "rejected" /\ host[c] = h
  <1> USE DEF RetryPromised, RejectionDiagnostic, vars, setting, codeVars, historyVars
  <1>1. CASE UNCHANGED vars
    BY <1>1
  <1>2. CASE \E c \in Conns : ReportRejection(c)
    BY <1>2 DEF ReportRejection
  <1>3. CASE \E c \in Conns : TunnelReports(c)
    BY <1>3 DEF TunnelReports, TunnelDiagnostic, UnreachableDiagnostic
  <1>4. CASE \E c \in Conns : ClientRejects(c)
    BY <1>4 DEF ClientRejects
  <1> QED
    BY <1>1, <1>2, <1>3, <1>4
       DEF Next, Connect, PeekFails, FirstByteP, StrictHello, CacheHit,
           CacheMiss, ProbeReturns, TunnelDials, RelayEnds, HandshakeFails,
           HandshakeSucceeds, ServingEnds

(* A stream enters "rejected" by ClientRejects alone, which settles its host  *)
(* or records the overlap.                                                    *)
LEMMA RejectionSettles ==
    ASSUME TypeOK, mode = "safe", NEW c \in Conns, NEW h \in Hosts,
           ClientRejects(c), host[c] = h
    PROVE  Settled(h)' \/ h \in overlapped'
  <1>1. CASE Probing(h) # {}
    BY <1>1 DEF ClientRejects
  <1>2. CASE Probing(h) = {}
    <2>1. Probing(h)' = {}
      BY <1>2 DEF ClientRejects, Probing, Goto, TypeOK
    <2>2. Bypass(tlsDecisions'[h])
      BY StageFacts DEF ClientRejects, TypeOK, Bypass, BypassCodes
    <2> QED
      BY <2>1, <2>2 DEF Settled, Bypass
  <1> QED
    BY <1>1, <1>2

LEMMA PromiseInductive ==
    ASSUME TypeOK, TypeOK', PromiseInv, [Next]_vars
    PROVE  PromiseInv'
  <1>1. \A h \in Hosts \ overlapped' : RetryPromised(h)' => Settled(h)'
    <2> SUFFICES ASSUME NEW h \in Hosts, h \notin overlapped', RetryPromised(h)'
                 PROVE  Settled(h)'
      OBVIOUS
    <2>1. h \notin overlapped
      BY PromiseSources
    <2>2. CASE RetryPromised(h)
      BY <2>1, <2>2, SettledStep DEF PromiseInv
    <2>3. CASE ~RetryPromised(h)
      <3>1. PICK c \in Conns : pc[c] = "rejected" /\ host[c] = h
        BY <2>3, PromiseSources
      <3>2. mode = "safe"
        BY SettingIsFixed DEF RetryPromised, setting
      <3> QED
        BY <2>1, <3>1, <3>2, SettledStep DEF PromiseInv
    <2> QED
      BY <2>2, <2>3
  <1>2. ASSUME mode = "safe", NEW c \in Conns, NEW h \in Hosts,
               pc'[c] = "rejected", host'[c] = h, h \notin overlapped'
        PROVE  Settled(h)'
    <2>1. \/ ClientRejects(c) /\ host[c] = h
          \/ pc[c] = "rejected" /\ host[c] = h
      BY <1>2 DEF TypeOK, vars, setting, codeVars, historyVars, Goto, Close, Branch, Next,
         Connect, PeekFails, FirstByteP, StrictHello, CacheHit, CacheMiss,
         ProbeReturns, TunnelDials, TunnelReports, RelayEnds, HandshakeFails, ClientRejects,
         ReportRejection, HandshakeSucceeds, ServingEnds
    <2>2. CASE ClientRejects(c) /\ host[c] = h
      BY <1>2, <2>2, RejectionSettles
    <2>3. CASE pc[c] = "rejected" /\ host[c] = h
      <3>1. h \notin overlapped
        BY <1>2, PromiseSources
      <3> QED
        BY <1>2, <2>3, <3>1, SettledStep DEF PromiseInv
    <2> QED
      BY <2>1, <2>2, <2>3
  <1>3. ASSUME NEW c \in afterRetry', NEW h \in Hosts, host'[c] = h
        PROVE  RetryPromised(h)'
    <2>1. c \in Conns
      BY <1>3 DEF TypeOK
    <2>2. \/ c \in afterRetry /\ host[c] = h
          \/ RetryPromised(h)
      BY <1>3, <2>1 DEF PromiseInv, TypeOK, vars, setting, codeVars, historyVars, Goto, Close, Next,
         Connect, PeekFails, FirstByteP, StrictHello, CacheHit, CacheMiss,
         ProbeReturns, TunnelDials, TunnelReports, RelayEnds, HandshakeFails, ClientRejects,
         ReportRejection, HandshakeSucceeds, ServingEnds
    <2> QED
      BY <2>2, PromiseSources DEF PromiseInv
  <1>4. ASSUME NEW c \in Conns, NEW h \in Hosts,
               pc'[c] \in Intercepted, c \in afterRetry', host'[c] = h
        PROVE  h \in overlapped'
    <2> SUFFICES ASSUME h \notin overlapped' PROVE FALSE
      OBVIOUS
    <2>1. h \notin overlapped
      BY PromiseSources
    <2>2. c \in afterRetry /\ host[c] = h
      BY <1>4 DEF TypeOK, vars, setting, codeVars, historyVars, Goto, Close, Next,
         Intercepted, Connect, PeekFails, FirstByteP, StrictHello, CacheHit,
         CacheMiss, ProbeReturns, TunnelDials, TunnelReports, RelayEnds, HandshakeFails,
         ClientRejects, ReportRejection, HandshakeSucceeds, ServingEnds
    <2>3. pc[c] \notin Intercepted
      BY <2>1, <2>2 DEF PromiseInv, PromiseKeptUnlessOverlapped
    <2>4. Settled(h) /\ mode = "safe"
      BY <2>1, <2>2 DEF PromiseInv, RetryPromised
    <2>5. CacheHit(c) \/ ProbeReturns(c)
      BY <1>4, <2>3, <2>4 DEF TypeOK, vars, setting, codeVars, historyVars, Goto, Close,
         Next, Intercepted, Connect, PeekFails, FirstByteP, StrictHello,
         CacheHit, CacheMiss, ProbeReturns, TunnelDials, TunnelReports, RelayEnds,
         HandshakeFails, ClientRejects, ReportRejection, HandshakeSucceeds,
         ServingEnds
    <2>6. CASE CacheHit(c)
      BY <1>4, <2>2, <2>4, <2>6
         DEF CacheHit, Settled, Branch, Goto, TypeOK, Intercepted
    <2>7. CASE ProbeReturns(c)
      BY <2>2, <2>4, <2>7 DEF ProbeReturns, Settled, Probing
    <2> QED
      BY <2>5, <2>6, <2>7
  <1>5. \A c \in Conns : pc'[c] = "rejected" => host'[c] \in Hosts
    BY DEF TypeOK
  <1>6. \A c \in afterRetry' :
           c \in Conns /\ host'[c] \in Hosts /\ pc'[c] # "idle"
    <2> SUFFICES ASSUME NEW c \in afterRetry' PROVE c \in Conns /\ pc'[c] # "idle"
      BY DEF TypeOK
    <2>1. c \in Conns
      BY DEF TypeOK
    <2> QED
      BY <2>1 DEF PromiseInv, TypeOK, vars, setting, codeVars, historyVars, Goto, Close,
         Branch, Next, Connect, PeekFails, FirstByteP, StrictHello, CacheHit,
         CacheMiss, ProbeReturns, TunnelDials, TunnelReports, RelayEnds, HandshakeFails,
         ClientRejects, ReportRejection, HandshakeSucceeds, ServingEnds
  <1> QED
    <2>1. mode = "safe" =>
            \A c \in Conns : pc'[c] = "rejected" /\ host'[c] \notin overlapped'
                                => Settled(host[c])'
      BY <1>2, <1>5 DEF Settled, Probing, Bypass
    <2>2. \A c \in afterRetry' : pc'[c] # "idle" /\ RetryPromised(host[c])'
      BY <1>3, <1>6 DEF RetryPromised, RejectionDiagnostic
    <2>3. PromiseKeptUnlessOverlapped'
      BY <1>4, <1>6 DEF PromiseKeptUnlessOverlapped
    <2> QED
      BY <1>1, <2>1, <2>2, <2>3, SettingIsFixed DEF PromiseInv, setting

(* The diagnostic's "Retry the request. Safe mode will keep the next          *)
(* connection end-to-end" is true of every host whose rejection was not       *)
(* stored while another connection's probe of that host was running.          *)
THEOREM PromiseHolds == Spec => []PromiseKeptUnlessOverlapped
  <1>1. Init => PromiseInv
    BY DEF Init, PromiseInv, PromiseKeptUnlessOverlapped, RetryPromised
  <1>2. PromiseInv => PromiseKeptUnlessOverlapped
    BY DEF PromiseInv
  <1> QED
    BY <1>1, <1>2, TypeCorrect, PromiseInductive, PTL DEF Spec

-----------------------------------------------------------------------------
(* Strict mode: the conjuncts of the property are inductive once pc says      *)
(* which branches of serveConnect were never taken.                           *)

THEOREM StrictModeIsStrict == Spec => []StrictNeverDegrades
  <1>1. Init => StrictNeverDegrades
    BY DEF Init, StrictNeverDegrades, Tunnelling
  <1>2. ASSUME TypeOK, StrictNeverDegrades, [Next]_vars
        PROVE  StrictNeverDegrades'
    <2> SUFFICES ASSUME mode = "strict" PROVE StrictNeverDegrades'
      BY <1>2, SettingIsFixed DEF StrictNeverDegrades, setting
    <2>1. \A c \in Conns : pc[c] \notin {"probing"} \cup Tunnelling
      BY <1>2 DEF StrictNeverDegrades
    <2>2. /\ \A h \in Hosts : tlsDecisions[h] = "absent"
          /\ \A d \in diagnostics : ~d.autoApplied
      BY <1>2 DEF StrictNeverDegrades
    <2> USE <1>2 DEF TypeOK, Tunnelling, vars, setting, codeVars, historyVars, Goto, Close
    <2>3. CASE UNCHANGED vars
      BY <2>1, <2>2, <2>3 DEF StrictNeverDegrades
    <2>4. CASE \E c \in Conns : ReportRejection(c)
      <3>1. PICK c \in Conns : ReportRejection(c)
        BY <2>4
      <3>2. ~RejectionDiagnostic(host[c]).autoApplied
        BY DEF RejectionDiagnostic
      <3> QED
        BY <2>1, <2>2, <3>1, <3>2 DEF StrictNeverDegrades, ReportRejection
    <2>5. CASE \E c \in Conns : ClientRejects(c)
      BY <2>1, <2>2, <2>5 DEF StrictNeverDegrades, ClientRejects
    <2> QED
      BY <2>1, <2>2, <2>3, <2>4, <2>5
         DEF StrictNeverDegrades, Next, Connect, PeekFails, FirstByteP,
             StrictHello, CacheHit, CacheMiss, ProbeReturns, TunnelDials,
             TunnelReports, RelayEnds, HandshakeFails, HandshakeSucceeds, ServingEnds
  <1> QED
    BY <1>1, <1>2, TypeCorrect, PTL DEF Spec

-----------------------------------------------------------------------------
(* Tunnels are explained.  A verdict in the cache is one the probe can give   *)
(* of this destination, or stems from a rejection that was, or is about to    *)
(* be, reported; so is the decision of a connection that tunnels.             *)

Explained(h) ==
    \/ RetryPromised(h)
    \/ \E d \in Conns : pc[d] = "rejected" /\ host[d] = h

Accounted(code, h) ==
    \/ code = "tls_interception_unsupported"
    \/ code = KindCode(upstream[h])
    \/ code = "client_rejected_ca" /\ Explained(h)

ExplainedInv ==
    /\ \A h \in Hosts : Bypass(tlsDecisions[h]) => Accounted(tlsDecisions[h], h)
    /\ \A c \in Conns : pc[c] \in Tunnelling => Accounted(decision[c], host[c])
    /\ \A c \in Conns : pc[c] = "relay" => TunnelDiagnostic(c) \in diagnostics

(* In safe mode a rejection stays accounted for: its stream reports it.       *)
LEMMA ExplainedStays ==
    ASSUME TypeOK, [Next]_vars, mode = "safe", NEW h \in Hosts, Explained(h)
    PROVE  Explained(h)'
  <1>1. CASE RetryPromised(h)
    <2>1. RetryPromised(h)'
      BY <1>1, PromiseSources
    <2> QED
      BY <2>1 DEF Explained, RetryPromised, RejectionDiagnostic
  <1>2. CASE \E d \in Conns : pc[d] = "rejected" /\ host[d] = h
    <2>1. PICK d \in Conns : pc[d] = "rejected" /\ host[d] = h
      BY <1>2
    <2>2. CASE ReportRejection(d)
      BY <2>1, <2>2
         DEF ReportRejection, Explained, RetryPromised, RejectionDiagnostic, setting
    <2>3. CASE ~ReportRejection(d)
      <3>1. pc'[d] = "rejected" /\ host'[d] = h
        BY <2>1, <2>3 DEF TypeOK, vars, codeVars, historyVars, Goto, Close,
           Next, Connect, PeekFails, FirstByteP, StrictHello, CacheHit,
           CacheMiss, ProbeReturns, TunnelDials, TunnelReports, RelayEnds, HandshakeFails,
           ClientRejects, ReportRejection, HandshakeSucceeds, ServingEnds
      <3> QED
        BY <3>1 DEF Explained
    <2> QED
      BY <2>2, <2>3
  <1> QED
    BY <1>1, <1>2 DEF Explained

(* ... and so does every code, as long as no strict session holds a bypass.   *)
LEMMA AccountedStays ==
    ASSUME TypeOK, [Next]_vars, mode = "safe",
           NEW h \in Hosts, NEW code, Accounted(code, h)
    PROVE  Accounted(code, h)'
  <1>1. upstream' = upstream
    BY SettingIsFixed DEF setting
  <1>2. Explained(h) => Explained(h)'
    BY ExplainedStays
  <1> QED
    BY <1>1, <1>2 DEF Accounted, KindCode

(* The bypass a probe answers is its own.                                     *)
LEMMA ProbeAnswersAreAccounted ==
    ASSUME NEW h \in Hosts, NEW code \in ProbeAnswers(h), Bypass(code)
    PROVE  Accounted(code, h)
  BY StageFacts DEF ProbeAnswers, Accounted

LEMMA ExplainedInductive ==
    ASSUME TypeOK, TypeOK', StrictNeverDegrades', ExplainedInv, [Next]_vars
    PROVE  ExplainedInv'
  <1>1. CASE mode = "strict"
    <2>1. mode' = "strict"
      BY <1>1, SettingIsFixed DEF setting
    <2>2. \A h \in Hosts : tlsDecisions'[h] = "absent"
      BY <2>1 DEF StrictNeverDegrades
    <2>3. \A c \in Conns : pc'[c] \notin Tunnelling
      BY <2>1 DEF StrictNeverDegrades
    <2> QED
      BY <2>2, <2>3, StageFacts DEF ExplainedInv, Bypass, Tunnelling
  <1>2. CASE mode = "safe"
    <2>1. ASSUME NEW h \in Hosts, NEW code, tlsDecisions'[h] = code, Bypass(code)
          PROVE  Accounted(code, h)'
      <3>1. \/ tlsDecisions[h] = code
            \/ \E c \in Conns : /\ ProbeReturns(c)
                               /\ host[c] = h /\ code \in ProbeAnswers(h)
            \/ \E c \in Conns : /\ ClientRejects(c)
                               /\ host[c] = h /\ code = "client_rejected_ca"
        BY <2>1 DEF TypeOK, vars, codeVars, historyVars, Next, Connect,
           PeekFails, FirstByteP, StrictHello, CacheHit, CacheMiss,
           ProbeReturns, TunnelDials, TunnelReports, RelayEnds, HandshakeFails,
           ClientRejects, ReportRejection, HandshakeSucceeds, ServingEnds
      <3>2. CASE tlsDecisions[h] = code
        BY <1>2, <2>1, <3>2, AccountedStays DEF ExplainedInv
      <3>3. CASE \E c \in Conns : /\ ProbeReturns(c)
                                 /\ host[c] = h /\ code \in ProbeAnswers(h)
        BY <1>2, <2>1, <3>3, ProbeAnswersAreAccounted, AccountedStays
      <3>4. CASE \E c \in Conns : /\ ClientRejects(c)
                                 /\ host[c] = h /\ code = "client_rejected_ca"
        <4>1. PICK c \in Conns : ClientRejects(c) /\ host[c] = h
          BY <3>4
        <4>2. pc'[c] = "rejected" /\ host'[c] = h
          BY <4>1 DEF ClientRejects, Goto, TypeOK
        <4> QED
          BY <3>4, <4>2 DEF Accounted, Explained
      <3> QED
        BY <3>1, <3>2, <3>3, <3>4
    <2>2. ASSUME NEW c \in Conns, NEW h \in Hosts, NEW code,
                 pc'[c] \in Tunnelling, host'[c] = h, decision'[c] = code
          PROVE  Accounted(code, h)'
      <3>1. \/ /\ pc[c] \in Tunnelling
               /\ host[c] = h /\ decision[c] = code
            \/ /\ CacheHit(c)
               /\ tlsDecisions[h] = code /\ Bypass(code)
            \/ /\ ProbeReturns(c)
               /\ code \in ProbeAnswers(h) /\ Bypass(code)
        BY <2>2 DEF TypeOK, Tunnelling, vars, codeVars, historyVars, Goto, Close, Branch,
           Next, Connect, PeekFails, FirstByteP, StrictHello, CacheHit,
           CacheMiss, ProbeReturns, TunnelDials, TunnelReports, RelayEnds, HandshakeFails,
           ClientRejects, ReportRejection, HandshakeSucceeds, ServingEnds
      <3>2. Accounted(code, h)
        BY <2>2, <3>1, ProbeAnswersAreAccounted DEF ExplainedInv
      <3> QED
        BY <1>2, <3>2, AccountedStays
    <2>3. ASSUME NEW c \in Conns, pc'[c] = "relay"
          PROVE  TunnelDiagnostic(c)' \in diagnostics'
      <3>1. \/ TunnelReports(c)
            \/ /\ pc[c] = "relay" /\ diagnostics \subseteq diagnostics'
               /\ host'[c] = host[c] /\ decision'[c] = decision[c]
        BY <2>3 DEF TypeOK, vars, codeVars, historyVars, Goto, Close, Branch,
           Next, Connect, PeekFails, FirstByteP, StrictHello, CacheHit,
           CacheMiss, ProbeReturns, TunnelDials, TunnelReports, RelayEnds, HandshakeFails,
           ClientRejects, ReportRejection, HandshakeSucceeds, ServingEnds
      <3>2. CASE TunnelReports(c)
        BY <2>3, <3>2 DEF TunnelReports, TunnelDiagnostic, Close, Goto, TypeOK
      <3>3. CASE /\ pc[c] = "relay" /\ diagnostics \subseteq diagnostics'
                 /\ host'[c] = host[c] /\ decision'[c] = decision[c]
        BY <3>3 DEF ExplainedInv, TunnelDiagnostic
      <3> QED
        BY <3>1, <3>2, <3>3
    <2>4. \A c \in Conns : pc'[c] \in Tunnelling =>
             host'[c] \in Hosts /\ Accounted(decision[c], host[c])'
      <3> SUFFICES ASSUME NEW c \in Conns, pc'[c] \in Tunnelling
                   PROVE  host'[c] \in Hosts /\ Accounted(decision[c], host[c])'
        OBVIOUS
      <3>1. host'[c] \in Hosts
        BY DEF TypeOK, Tunnelling
      <3>2. PICK h \in Hosts : h = host'[c]
        BY <3>1
      <3>3. PICK code \in Codes \cup {"absent"} : code = decision'[c]
        BY DEF TypeOK
      <3>4. Accounted(code, h)'
        BY <2>2, <3>2, <3>3
      <3> QED
        BY <3>1, <3>2, <3>3, <3>4 DEF Accounted, Explained, RetryPromised,
           RejectionDiagnostic, KindCode
    <2>5. \A h \in Hosts :
             Bypass(tlsDecisions[h])' => Accounted(tlsDecisions[h], h)'
      <3> SUFFICES ASSUME NEW h \in Hosts, Bypass(tlsDecisions[h])'
                   PROVE  Accounted(tlsDecisions[h], h)'
        OBVIOUS
      <3>1. PICK code \in Codes \cup {"absent"} : code = tlsDecisions'[h]
        BY DEF TypeOK
      <3>2. Accounted(code, h)'
        BY <2>1, <3>1 DEF Bypass
      <3> QED
        BY <3>1, <3>2 DEF Accounted
    <2> QED
      BY <2>3, <2>4, <2>5 DEF ExplainedInv
  <1> QED
    BY <1>1, <1>2 DEF TypeOK, Modes

(* Nothing escapes capture without a reason the user was given: every tunnel  *)
(* is announced with its own code, and a tunnel "because the client rejected  *)
(* the CA" follows a rejection reported for that very host.                   *)
THEOREM TunnelsAreExplained == Spec => []EndToEndIsExplained
  <1>1. Init => ExplainedInv
    BY StageFacts DEF Init, ExplainedInv, Bypass, Tunnelling
  <1>2. TypeOK /\ ExplainedInv => EndToEndIsExplained
    BY DEF TypeOK, ExplainedInv, EndToEndIsExplained, Accounted, Explained
  <1> QED
    BY <1>1, <1>2, TypeCorrect, StrictModeIsStrict, ExplainedInductive, PTL DEF Spec
=============================================================================
