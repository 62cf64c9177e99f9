------------------------------ MODULE TLSPolicy ------------------------------
(***************************************************************************)
(* How the capture proxy decides, for each CONNECT stream, between         *)
(* intercepting the TLS connection and leaving it end-to-end.  Models      *)
(* serveConnect, tlsDecision, tunnel, serveTLS (up to the handshake),      *)
(* rememberTLSBypass and probeTLSCompatibility of                          *)
(* src/internal/capture/proxy.go.                                          *)
(*                                                                         *)
(* Every connection is a goroutine.  They share one map, tlsDecisions,     *)
(* guarded by tlsMu: a critical section is one action, and the probe,      *)
(* which runs OUTSIDE the lock, separates the two critical sections of     *)
(* tlsDecision.  Peers (the client and the destination) are                *)
(* nondeterministic.  A slot of Conns is reused when its stream closes.    *)
(***************************************************************************)
EXTENDS Naturals

CONSTANTS
    Conns,   \* slots for concurrent CONNECT streams
    Hosts,   \* CONNECT targets ("host:port"), the keys of tlsDecisions
    NoHost   \* the host of an idle slot

ASSUME HostAssumption == NoHost \notin Hosts

(***************************************************************************)
(* What a destination does to a TLS client that has no certificate.  A     *)
(* destination of kind "lateMtls" wants one too, but speaks TLS 1.3, where *)
(* the client is the last to speak in the handshake: a missing certificate *)
(* shows only at the first read after it, and the probe never reads.       *)
(***************************************************************************)
UpstreamKinds == {"interceptable", "untrusted", "mtls", "lateMtls", "odd"}

\* The handshake of the probe fails.
Detectable == {"untrusted", "mtls", "odd"}

\* The codes a TLSProbeResult carries.  "absent" stands for "no entry in the
\* map" and for a decision that was never computed.
BypassCodes == {"upstream_tls_untrusted", "mtls_detected",
                "tls_interception_unsupported", "client_rejected_ca"}

Codes == BypassCodes \cup {"tls_interception_supported", "upstream_unreachable"}

Stages == {"idle", "peek", "cleartext", "probing", "dial", "unreached",
           "reached", "relay", "handshake", "rejected", "https"}

\* tunnel runs: it dials, reports what came of it, and relays.
Tunnelling == {"dial", "unreached", "reached", "relay"}

\* The connection is being intercepted, or an interception was attempted.
Intercepted == {"handshake", "rejected", "https"}

Diagnostic == [code : Codes, host : Hosts, severity : {"warning", "error"},
               autoApplied : BOOLEAN, retry : BOOLEAN]

Modes == {"safe", "strict"}

VARIABLES
    mode,         \* Proxy.mode, chosen when the session starts
    upstream,     \* kind of each destination; constant during a session
    pc, host,     \* per connection: stage of its goroutine, CONNECT target
    decision,     \* per connection: code of the TLSProbeResult it acts upon
    tlsDecisions, \* the shared cache
    diagnostics,  \* diagnostics handed to OnDiagnostic
    errorEvents,  \* targets for which an operational error was emitted
    (* history *)
    afterRetry,   \* connections opened after their host's "retry" diagnostic
    overlapped    \* hosts whose rejection was stored while a probe was running

setting     == <<mode, upstream>>
codeVars    == <<pc, host, decision, tlsDecisions, diagnostics, errorEvents>>
historyVars == <<afterRetry, overlapped>>
vars        == <<setting, codeVars, historyVars>>

-----------------------------------------------------------------------------
(* Helpers.  A name ending in Bug is a plausible slip in the definition    *)
(* after it; nothing refers to it but the mutation checks.                 *)

Bypass(code) == code \in BypassCodes

\* tlsDecision stores an answer unless the destination was unreachable.
Cacheable(code) == Bypass(code) \/ code # "upstream_unreachable"

KindCodeBug(kind) ==
    IF kind = "untrusted" THEN "upstream_tls_untrusted"
    ELSE IF kind = "odd" THEN "tls_interception_unsupported"
    ELSE "tls_interception_supported"

\* The answer of a probe whose TLS handshake ran to its end; a nil error gives
\* the empty code, which tlsDecision replaces by "tls_interception_supported".
KindCode(kind) ==
    IF kind = "untrusted" THEN "upstream_tls_untrusted"
    ELSE IF kind = "mtls" THEN "mtls_detected"
    ELSE IF kind = "odd" THEN "tls_interception_unsupported"
    ELSE "tls_interception_supported"

\* probeTLSCompatibility: the dial fails or times out; or the handshake is cut
\* short (timeout, reset) and classified by the default case; or it completes.
ProbeAnswers(h) ==
    {KindCode(upstream[h]), "upstream_unreachable", "tls_interception_unsupported"}

Probing(h) == {c \in Conns : pc[c] = "probing" /\ host[c] = h}

TunnelDiagnostic(c) ==
    [code |-> decision[c], host |-> host[c], severity |-> "warning",
     autoApplied |-> TRUE, retry |-> FALSE]

UnreachableDiagnostic(c) ==
    [code |-> "upstream_unreachable", host |-> host[c], severity |-> "error",
     autoApplied |-> FALSE, retry |-> FALSE]

RejectionDiagnostic(h) ==
    [code |-> "client_rejected_ca", host |-> h, severity |-> "warning",
     autoApplied |-> mode = "safe", retry |-> TRUE]

\* The user was told: "Retry the request. Safe mode will keep the next
\* connection end-to-end".
RetryPromised(h) == mode = "safe" /\ RejectionDiagnostic(h) \in diagnostics

Goto(c, stage) == pc' = [pc EXCEPT ![c] = stage]

Close(c) ==
    /\ Goto(c, "idle")
    /\ host' = [host EXCEPT ![c] = NoHost]
    /\ decision' = [decision EXCEPT ![c] = "absent"]
    /\ afterRetry' = afterRetry \ {c}

\* Where serveConnect goes with a decision, after "decision.Bypass".
Branch(code) == IF Bypass(code) THEN "dial" ELSE "handshake"

-----------------------------------------------------------------------------
Init ==
    /\ mode \in Modes
    /\ upstream \in [Hosts -> UpstreamKinds]
    /\ pc = [c \in Conns |-> "idle"]
    /\ host = [c \in Conns |-> NoHost]
    /\ decision = [c \in Conns |-> "absent"]
    /\ tlsDecisions = [h \in Hosts |-> "absent"]
    /\ diagnostics = {}
    /\ errorEvents = {}
    /\ afterRetry = {}
    /\ overlapped = {}

\* handleConnect: hijack, answer 200, start serveConnect.
Connect(c, h) ==
    /\ pc[c] = "idle"
    /\ Goto(c, "peek")
    /\ host' = [host EXCEPT ![c] = h]
    /\ afterRetry' = IF RetryPromised(h) THEN afterRetry \cup {c} ELSE afterRetry
    /\ UNCHANGED <<setting, decision, tlsDecisions, diagnostics, errorEvents, overlapped>>

\* The first byte never comes: EOF or a closed connection end the goroutine in
\* silence, any other error is an event.
PeekFails(c) ==
    /\ pc[c] = "peek"
    /\ errorEvents' \in {errorEvents, errorEvents \cup {host[c]}}
    /\ Close(c)
    /\ UNCHANGED <<setting, tlsDecisions, diagnostics, overlapped>>

\* The first byte is 'P': the HTTP/2 preface is served in clear text, anything
\* else is refused with an event.
FirstByteP(c) ==
    /\ pc[c] = "peek"
    /\ \/ /\ Goto(c, "cleartext")
          /\ UNCHANGED <<host, decision, errorEvents, afterRetry>>
       \/ /\ errorEvents' = errorEvents \cup {host[c]}
          /\ Close(c)
    /\ UNCHANGED <<setting, tlsDecisions, diagnostics, overlapped>>

\* A TLS stream in strict mode goes straight to serveTLS.
StrictHello(c) ==
    /\ pc[c] = "peek"
    /\ mode = "strict"
    /\ Goto(c, "handshake")
    /\ UNCHANGED <<setting, host, decision, tlsDecisions, diagnostics,
                   errorEvents, historyVars>>

\* First critical section of tlsDecision, the entry exists.
CacheHit(c) ==
    /\ pc[c] = "peek"
    /\ mode = "safe"
    /\ tlsDecisions[host[c]] # "absent"
    /\ decision' = [decision EXCEPT ![c] = tlsDecisions[host[c]]]
    /\ Goto(c, Branch(decision'[c]))
    /\ UNCHANGED <<setting, host, tlsDecisions, diagnostics, errorEvents,
                   historyVars>>

\* First critical section of tlsDecision, no entry: unlock and start a probe.
CacheMiss(c) ==
    /\ pc[c] = "peek"
    /\ mode = "safe"
    /\ tlsDecisions[host[c]] = "absent"
    /\ Goto(c, "probing")
    /\ UNCHANGED <<setting, host, decision, tlsDecisions, diagnostics,
                   errorEvents, afterRetry, overlapped>>

ProbeReturnsBug(c) ==
    /\ pc[c] = "probing"
    /\ \E code \in ProbeAnswers(host[c]) :
          /\ decision' = [decision EXCEPT ![c] = code]
          /\ tlsDecisions' = IF Cacheable(code)
                             THEN [tlsDecisions EXCEPT ![host[c]] = code]
                             ELSE tlsDecisions
          /\ Goto(c, IF Cacheable(code) THEN Branch(code) ELSE "peek")
    /\ UNCHANGED <<setting, host, diagnostics, errorEvents, historyVars>>

\* The probe answers (or its 5 s deadline passes); second critical section of
\* tlsDecision.  The entry is overwritten whatever it now holds.
ProbeReturns(c) ==
    /\ pc[c] = "probing"
    /\ \E code \in ProbeAnswers(host[c]) :
          /\ decision' = [decision EXCEPT ![c] = code]
          /\ tlsDecisions' = IF Cacheable(code)
                             THEN [tlsDecisions EXCEPT ![host[c]] = code]
                             ELSE tlsDecisions
          /\ Goto(c, Branch(code))
    /\ UNCHANGED <<setting, host, diagnostics, errorEvents, historyVars>>

\* tunnel: the dial fails, in 10 s at the latest, or reaches the destination.
TunnelDials(c) ==
    /\ pc[c] = "dial"
    /\ \E stage \in {"unreached", "reached"} : Goto(c, stage)
    /\ UNCHANGED <<setting, host, decision, tlsDecisions, diagnostics,
                   errorEvents, historyVars>>

TunnelReportsBug(c) ==
    \/ /\ pc[c] = "unreached"
       /\ diagnostics' = diagnostics \cup {UnreachableDiagnostic(c)}
       /\ Close(c)
       /\ UNCHANGED <<setting, tlsDecisions, errorEvents, overlapped>>
    \/ /\ pc[c] = "reached"
       /\ Goto(c, "relay")
       /\ UNCHANGED <<setting, host, decision, tlsDecisions, diagnostics,
                      errorEvents, historyVars>>

\* ... and then, under the mutex of the emitter and as soon as the pipe to the
\* IDE has room, the error diagnostic, or the warning that the connection stays
\* end-to-end, after which it is relayed.
TunnelReports(c) ==
    /\ \/ /\ pc[c] = "unreached"
          /\ diagnostics' = diagnostics \cup {UnreachableDiagnostic(c)}
          /\ Close(c)
       \/ /\ pc[c] = "reached"
          /\ diagnostics' = diagnostics \cup {TunnelDiagnostic(c)}
          /\ Goto(c, "relay")
          /\ UNCHANGED <<host, decision, afterRetry>>
    /\ UNCHANGED <<setting, tlsDecisions, errorEvents, overlapped>>

\* relayDuplex returns when either side is done.
RelayEnds(c) ==
    /\ pc[c] = "relay"
    /\ Close(c)
    /\ UNCHANGED <<setting, tlsDecisions, diagnostics, errorEvents,
                   overlapped>>

\* serveTLS: no certificate for the host, or a handshake error that does not
\* look like a rejected certificate.
HandshakeFails(c) ==
    /\ pc[c] = "handshake"
    /\ errorEvents' = errorEvents \cup {host[c]}
    /\ Close(c)
    /\ UNCHANGED <<setting, tlsDecisions, diagnostics, overlapped>>

ClientRejectsBug(c) ==
    /\ pc[c] = "handshake"
    /\ tlsDecisions' =
          IF mode = "safe" /\ tlsDecisions[host[c]] = "absent"
          THEN [tlsDecisions EXCEPT ![host[c]] = "client_rejected_ca"]
          ELSE tlsDecisions
    /\ overlapped' = IF Probing(host[c]) # {} THEN overlapped \cup {host[c]}
                                              ELSE overlapped
    /\ Goto(c, "rejected")
    /\ UNCHANGED <<setting, host, decision, diagnostics, errorEvents,
                   afterRetry>>

\* serveTLS: the client answers the leaf certificate with an alert.  In safe
\* mode rememberTLSBypass stores a bypass for the host.
ClientRejects(c) ==
    /\ pc[c] = "handshake"
    /\ tlsDecisions' =
          IF mode = "safe"
          THEN [tlsDecisions EXCEPT ![host[c]] = "client_rejected_ca"]
          ELSE tlsDecisions
    /\ overlapped' = IF Probing(host[c]) # {} THEN overlapped \cup {host[c]}
                                              ELSE overlapped
    /\ Goto(c, "rejected")
    /\ UNCHANGED <<setting, host, decision, diagnostics, errorEvents,
                   afterRetry>>

\* ... and, after the lock is released, the diagnostic and the error event.
ReportRejection(c) ==
    /\ pc[c] = "rejected"
    /\ diagnostics' = diagnostics \cup {RejectionDiagnostic(host[c])}
    /\ errorEvents' = errorEvents \cup {host[c]}
    /\ Close(c)
    /\ UNCHANGED <<setting, tlsDecisions, overlapped>>

HandshakeSucceedsBug(c) ==
    /\ pc[c] = "handshake"
    /\ tlsDecisions' = IF mode = "safe"
                       THEN [tlsDecisions EXCEPT ![host[c]] = "tls_interception_supported"]
                       ELSE tlsDecisions
    /\ Goto(c, "https")
    /\ UNCHANGED <<setting, host, decision, diagnostics, errorEvents, historyVars>>

\* serveTLS: the client accepts the leaf certificate; the cache is left alone.
HandshakeSucceeds(c) ==
    /\ pc[c] = "handshake"
    /\ Goto(c, "https")
    /\ UNCHANGED <<setting, host, decision, tlsDecisions, diagnostics,
                   errorEvents, historyVars>>

\* The request loop (or the HTTP/2 server) ends; a request that cannot be read
\* is an event.  Requests themselves are in module RequestCapture.
ServingEnds(c) ==
    /\ pc[c] \in {"https", "cleartext"}
    /\ errorEvents' \in {errorEvents,
                         IF pc[c] = "https" THEN errorEvents \cup {host[c]}
                                            ELSE errorEvents}
    /\ Close(c)
    /\ UNCHANGED <<setting, tlsDecisions, diagnostics, overlapped>>

Next ==
    \E c \in Conns :
        \/ \E h \in Hosts : Connect(c, h)
        \/ PeekFails(c)
        \/ FirstByteP(c)
        \/ StrictHello(c)
        \/ CacheHit(c)
        \/ CacheMiss(c)
        \/ ProbeReturns(c)
        \/ TunnelDials(c)
        \/ TunnelReports(c)
        \/ RelayEnds(c)
        \/ HandshakeFails(c)
        \/ ClientRejects(c)
        \/ ReportRejection(c)
        \/ HandshakeSucceeds(c)
        \/ ServingEnds(c)

(***************************************************************************)
(* No fairness is assumed.  A client may stall for ever before its first   *)
(* byte, in the handshake (which has no deadline), in the relay and        *)
(* between requests; and every report takes the emitter's mutex and writes *)
(* to a pipe that an idle reader leaves full (module RequestCapture), so   *)
(* that it may not come either.                                            *)
(***************************************************************************)
Spec == Init /\ [][Next]_vars

-----------------------------------------------------------------------------
\* Every variable keeps its shape.
TypeOK ==
    /\ mode \in Modes
    /\ upstream \in [Hosts -> UpstreamKinds]
    /\ pc \in [Conns -> Stages]
    /\ host \in [Conns -> Hosts \cup {NoHost}]
    /\ \A c \in Conns : pc[c] # "idle" => host[c] \in Hosts
    /\ decision \in [Conns -> Codes \cup {"absent"}]
    /\ \A c \in Conns : pc[c] \in Tunnelling => Bypass(decision[c])
    /\ tlsDecisions \in [Hosts -> Codes \cup {"absent"}]
    /\ diagnostics \subseteq Diagnostic
    /\ errorEvents \subseteq Hosts
    /\ afterRetry \subseteq Conns
    /\ overlapped \subseteq Hosts

(***************************************************************************)
(* Safe mode never intercepts a destination whose handshake interception   *)
(* would break (mutual TLS up to version 1.2, a certificate the engine     *)
(* cannot verify, an unusable handshake), unless its probe could not reach *)
(* it at all: the answer the connection acts upon, its own or one cached   *)
(* by another connection, is true.  (serveConnect, tlsDecision.)           *)
(***************************************************************************)
SafeLeavesIncompatibleAlone ==
    mode = "safe" =>
        \A c \in Conns :
            /\ pc[c] \in Intercepted
            /\ upstream[host[c]] \in Detectable
            => decision[c] = "upstream_unreachable"

(***************************************************************************)
(* Nothing escapes capture without a reason the user was given: a relayed  *)
(* connection was announced with its own code, and a tunnel taken because  *)
(* "the client rejected the CA" follows a rejection that was, or is being, *)
(* reported for that very host.  (tunnel, serveTLS.)                       *)
(***************************************************************************)
EndToEndIsExplained ==
    \A c \in Conns :
        /\ pc[c] = "relay" => TunnelDiagnostic(c) \in diagnostics
        /\ pc[c] \in Tunnelling =>
             \/ decision[c] = "tls_interception_unsupported"
             \/ decision[c] = KindCode(upstream[host[c]])
             \/ /\ decision[c] = "client_rejected_ca"
                /\ \/ RetryPromised(host[c])
                   \/ \E d \in Conns : pc[d] = "rejected" /\ host[d] = host[c]

(***************************************************************************)
(* Strict mode never degrades: no tunnel, no probe, no cached verdict, and *)
(* no diagnostic claims that a fallback was applied.                       *)
(***************************************************************************)
StrictNeverDegrades ==
    mode = "strict" =>
        /\ \A c \in Conns : pc[c] \notin {"probing"} \cup Tunnelling
        /\ \A h \in Hosts : tlsDecisions[h] = "absent"
        /\ \A d \in diagnostics : ~d.autoApplied

(***************************************************************************)
(* What is true of the promise "Safe mode will keep the next connection    *)
(* end-to-end" (serveTLS): it is kept for every host whose rejection was   *)
(* not stored while another connection's probe of it was in flight.        *)
(***************************************************************************)
PromiseKeptUnlessOverlapped ==
    \A c \in Conns :
        pc[c] \in Intercepted /\ c \in afterRetry => host[c] \in overlapped

\* A host is settled when its cached verdict is a bypass and no probe of it is
\* in flight.
Settled(h) == Bypass(tlsDecisions[h]) /\ Probing(h) = {}

(***************************************************************************)
(* A settled host stays settled for the session: no later connection       *)
(* probes it again, no connection that decided before the verdict can      *)
(* overwrite it, and no late answer makes the host intercepted.  The       *)
(* promise "keep the next connection end-to-end" rests on it.              *)
(* (tlsDecision, rememberTLSBypass.)                                       *)
(***************************************************************************)
SettledStaysSettled == [][\A h \in Hosts : Settled(h) => Settled(h)']_vars

=============================================================================
