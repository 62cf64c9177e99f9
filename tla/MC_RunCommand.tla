---------------------------- MODULE MC_RunCommand -----------------------------
(* Command lines and machines for TLC: every kind of target, CIDRs that end  *)
(* inside an octet, at its border, nowhere and everywhere.                   *)
EXTENDS RunCommand

CIDR(a, b, c, d, bits) == [kind |-> "cidr4", addr |-> <<a, b, c, d>>, bits |-> bits]
Name(kind, name)       == [kind |-> kind, name |-> name]

Bypasses == {
    <<>>,
    <<CIDR(10, 77, 3, 9, 9), Name("suffix", ".example.com"), Name("host", "localhost")>>,
    <<CIDR(198, 51, 100, 130, 25), CIDR(192, 0, 2, 10, 32), CIDR(10, 200, 0, 0, 16)>>,
    <<CIDR(172, 17, 0, 1, 12), CIDR(10, 1, 2, 3, 23),
      [kind |-> "cidr6", name |-> "fd00::1/8", bits |-> 8],
      [kind |-> "cidr6", name |-> "::1/128", bits |-> 128]>>,
    <<CIDR(0, 0, 0, 0, 0)>>,
    <<Name("url", "https://localhost")>>}

Bases == {
    [HOME |-> <<"/root">>],
    [NO_PROXY |-> <<Name("host", "localhost")>>, no_grpc_proxy |-> <<CIDR(10, 128, 0, 0, 10)>>,
     HTTP_PROXY |-> <<"corporate">>, JAVA_TOOL_OPTIONS |-> <<Option("agent", "a")>>,
     GOFLAGS |-> <<Option("mod", "vendor")>>, NODE_USE_ENV_PROXY |-> <<"0">>]}

MCInputs ==
    {[flaw |-> "none", base |-> base, bypass |-> bypass, keytool |-> keytool,
      os |-> "darwin", go |-> {"standard"}, copy |-> FALSE, output |-> FALSE] :
        base \in Bases, bypass \in Bypasses, keytool \in BOOLEAN}
    \cup {[flaw |-> flaw, base |-> [HOME |-> <<"/root">>], bypass |-> <<>>, keytool |-> FALSE,
           os |-> os, go |-> {"GOROOT"}, copy |-> TRUE, output |-> TRUE] :
        flaw \in Flaws, os \in {"linux", "windows"}}

MCAddresses == {<<a, b, c, d>> : a \in {10, 172, 198}, b \in {31, 32, 51, 77, 127, 128, 191, 192},
                                 c \in {2, 3, 100}, d \in {10, 130}}

=============================================================================
