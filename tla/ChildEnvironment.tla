--------------------------- MODULE ChildEnvironment ---------------------------
(***************************************************************************)
(* The environment of a captured process: buildChildEnvironment of         *)
(* src/internal/cli/cli.go and the Go trust overlay of go_overlay.go.      *)
(*                                                                         *)
(* An environment is a function from the names that are set to values: a   *)
(* list of targets or of options is a sequence, a file is named by what it *)
(* holds.  os.Environ, the base of every environment, has no duplicates.   *)
(***************************************************************************)
EXTENDS BypassTargets, SequencesExt

ProxyNames  == {"ALL_PROXY", "HTTP_PROXY", "HTTPS_PROXY", "all_proxy", "http_proxy", "https_proxy",
                "grpc_proxy"}
CANames     == {"CURL_CA_BUNDLE", "GRPC_DEFAULT_SSL_ROOTS_FILE_PATH", "NODE_EXTRA_CA_CERTS",
                "PIP_CERT", "REQUESTS_CA_BUNDLE", "SSL_CERT_FILE"}
BypassNames == {"NO_PROXY", "no_proxy", "no_grpc_proxy"}
Flags       == {"NODE_USE_ENV_PROXY", "AUTOCURL_CA_FILE"}
Overridden  == ProxyNames \cup CANames \cup BypassNames \cup Flags  \* not extended

EnvironmentValue(environment, name) ==
    IF name \in DOMAIN environment THEN environment[name] ELSE <<>>

MergeEnvironment(base, overrides) ==
    [name \in DOMAIN base \cup DOMAIN overrides |->
        IF name \in DOMAIN overrides THEN overrides[name] ELSE base[name]]

\* Each element where it first occurs.
Once(seq) ==
    LET first == {i \in DOMAIN seq : \A j \in 1..i - 1 : seq[j] # seq[i]}
    IN  [k \in 1..Cardinality(first) |->
            seq[CHOOSE i \in first : Cardinality({j \in first : j <= i}) = k]]

InheritedTargets(base) == UNION {Elements(EnvironmentValue(base, name)) : name \in BypassNames}

\* The targets of the three inherited variables, then the configured ones.
MergeBypassTargets(base, configured) ==
    Once(EnvironmentValue(base, "NO_PROXY") \o EnvironmentValue(base, "no_proxy")
         \o EnvironmentValue(base, "no_grpc_proxy") \o configured)

-----------------------------------------------------------------------------
(* Java: keytool writes a truststore, or the JVM gets nothing at all. *)

Option(name, value) == [name |-> name, value |-> value]

JavaOptionsAlone(base, bypass) ==
    <<Option("http.proxy", "proxy"), Option("https.proxy", "proxy")>>
    \o (IF bypass = <<>> THEN <<>> ELSE <<Option("http.nonProxyHosts", JavaNonProxyHosts(bypass))>>)
    \o <<Option("javax.net.ssl.trustStore", "truststore")>>

JavaOptions(base, bypass) ==
    EnvironmentValue(base, "JAVA_TOOL_OPTIONS")
    \o <<Option("http.proxy", "proxy"), Option("https.proxy", "proxy")>>
    \o (IF bypass = <<>> THEN <<>> ELSE <<Option("http.nonProxyHosts", JavaNonProxyHosts(bypass))>>)
    \o <<Option("javax.net.ssl.trustStore", "truststore")>>

BuildChildEnvironment(base, configured, keytool) ==
    LET bypass == MergeBypassTargets(base, configured)
        java   == IF keytool THEN [JAVA_TOOL_OPTIONS |-> JavaOptions(base, bypass)] ELSE <<>>
        direct == IF bypass = <<>> THEN <<>> ELSE [name \in BypassNames |-> bypass]
        fixed  == [name \in ProxyNames \cup CANames \cup {"NODE_USE_ENV_PROXY"} |->
                      CASE name \in ProxyNames -> "proxy"
                        [] name \in CANames    -> "ca"
                        [] OTHER               -> "1"]
    IN  MergeEnvironment(base, MergeEnvironment(fixed, MergeEnvironment(java, direct)))

-----------------------------------------------------------------------------
(* Go ignores SSL_CERT_FILE on macOS and Windows; a build overlay of its   *)
(* root verifier reads AUTOCURL_CA_FILE instead.  machine.go is where on   *)
(* the machine a go executable stands.                                     *)

GoPlaces == <<"GOROOT", "PATH", "standard", "login_shell">>

Searched(environment, machine, place) ==
    CASE place = "GOROOT"      -> "GOROOT" \in DOMAIN environment
      [] place = "login_shell" -> machine.os # "windows"
      [] OTHER                 -> TRUE

DiscoverGoExecutable(environment, machine) ==
    IF "AUTOCURL_GO_EXECUTABLE" \in DOMAIN environment
    THEN "configured" \in machine.go
    ELSE \E place \in Elements(GoPlaces) : place \in machine.go /\ Searched(environment, machine, place)

\* The step at which an overlay is given up; each leaves the environment alone.
OverlayFailures == {"read_goroot", "patch", "write_source", "write_overlay"}

AddGoTrustOverlay(environment, machine, failure) ==
    LET wanted == /\ machine.os \in {"darwin", "windows"}
                  /\ DiscoverGoExecutable(environment, machine)
    IN  CASE ~wanted \/ failure \in {"read_goroot", "patch", "write_source"} ->
                [environment |-> environment, files |-> {}]
          [] wanted /\ failure = "write_overlay" ->
                [environment |-> environment, files |-> {"go_roots"}]
          [] OTHER ->
                [environment |-> MergeEnvironment(environment,
                     [AUTOCURL_CA_FILE |-> "ca",
                      GOFLAGS |-> Append(EnvironmentValue(environment, "GOFLAGS"),
                                         Option("overlay", "overlay"))]),
                 files |-> {"go_roots", "overlay"}]

\* The files of the session an environment refers to.
Sets(environment, name, option) ==
    \E o \in Elements(EnvironmentValue(environment, name)) : o.name = option[1] /\ o.value = option[2]

NamedFiles(environment) ==
    {file \in {"ca", "truststore", "go_roots", "overlay"} :
        CASE file = "ca"         -> \E name \in CANames : EnvironmentValue(environment, name) = "ca"
          [] file = "truststore" -> Sets(environment, "JAVA_TOOL_OPTIONS",
                                         <<"javax.net.ssl.trustStore", "truststore">>)
          [] OTHER               -> Sets(environment, "GOFLAGS", <<"overlay", "overlay">>)}

-----------------------------------------------------------------------------
\* What os.Environ and the command line can be.  Every value is read as a list;
\* netip.ParsePrefix checked the prefixes; and nothing inherited names a file
\* of the session's directory, which os.MkdirTemp has just made.
IsList(value) == value \in Seq(Elements(value))

IsTarget(target) ==
    /\ target.kind = "cidr4" => target \in Prefix
    /\ target.kind = "cidr6" => target.bits \in 0..128

IsEnvironment(base) ==
    /\ \A name \in DOMAIN base : IsList(base[name])
    /\ \A target \in InheritedTargets(base) : IsTarget(target)
    /\ ~Sets(base, "JAVA_TOOL_OPTIONS", <<"javax.net.ssl.trustStore", "truststore">>)
    /\ ~Sets(base, "GOFLAGS", <<"overlay", "overlay">>)

IsCommandLine(bypass) == IsList(bypass) /\ \A target \in Elements(bypass) : IsTarget(target)

=============================================================================
