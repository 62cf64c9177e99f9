---------------------------- MODULE BypassTargets -----------------------------
(***************************************************************************)
(* Bypass targets: what --bypass accepts, how the targets of the user and  *)
(* of the inherited NO_PROXY variables are merged, and how Java gets them, *)
(* whose http.nonProxyHosts knows patterns but no CIDR                     *)
(* (src/internal/cli/cli.go).                                              *)
(*                                                                         *)
(* A target is a record: an IPv4 CIDR, an IPv6 CIDR, or a text that is one *)
(* of the forms below.  Octets keep their width.                           *)
(***************************************************************************)
EXTENDS Naturals, Sequences

Elements(seq) == {seq[i] : i \in DOMAIN seq}

Octet   == 0..255
Address == [1..4 -> Octet]
Prefix  == [kind: {"cidr4"}, addr: Address, bits: 0..32]

\* 1 << k
Shift(k) == <<1, 2, 4, 8, 16, 32, 64, 128, 256>>[k + 1]

\* How many leading bits of octet i a prefix of that length fixes.
Kept(bits, i) == IF bits >= 8 * i THEN 8 ELSE IF bits <= 8 * (i - 1) THEN 0 ELSE bits - 8 * (i - 1)

\* netip.Prefix.Masked
Masked(prefix) ==
    [prefix EXCEPT !.addr = [i \in 1..4 |->
        prefix.addr[i] - (prefix.addr[i] % Shift(8 - Kept(prefix.bits, i)))]]

\* What Go's own NO_PROXY handling takes a CIDR to mean.
InPrefix(prefix, address) == Masked([prefix EXCEPT !.addr = address]) = Masked(prefix)

-----------------------------------------------------------------------------
(* Java patterns: fixed leading octets, then a star or the end; or a name, *)
(* with or without a leading star.                                         *)

UnmaskedPatterns(prefix) ==
    LET full    == prefix.bits \div 8
        partial == prefix.bits % 8
        fixed   == SubSeq(prefix.addr, 1, full)
    IN  IF partial = 0
        THEN {[fixed |-> fixed, star |-> full < 4]}
        ELSE {[fixed |-> Append(fixed, value), star |-> full + 1 < 4] :
                 value \in prefix.addr[full + 1] .. prefix.addr[full + 1] + Shift(8 - partial) - 1}

JavaCIDRPatterns(prefix) == UnmaskedPatterns(Masked(prefix))

Matches(pattern, address) ==
    /\ Len(pattern.fixed) = 4 \/ pattern.star
    /\ \A i \in DOMAIN pattern.fixed : pattern.fixed[i] = address[i]

PatternsOf(target) ==
    CASE target.kind = "cidr4"  -> JavaCIDRPatterns(target)
      [] target.kind = "cidr6"  -> IF target.bits = 128 THEN {[name |-> target.name, star |-> FALSE]} ELSE {}
      [] target.kind = "suffix" -> {[name |-> target.name, star |-> TRUE]}
      [] OTHER                  -> {[name |-> target.name, star |-> FALSE]}

JavaNonProxyHosts(bypass) == UNION {PatternsOf(target) : target \in Elements(bypass)}

-----------------------------------------------------------------------------
\* The forms validateBypassTargets refuses: a URL, a text with whitespace, a
\* port out of range, an empty host, a host with a slash or a strange character.
Refused == {"url", "spaced", "bad_port", "empty_host", "slashed", "bad_character"}

ValidateBypassTargets(targets) == \A target \in Elements(targets) : target.kind \notin Refused

\* What the user is told: the targets that clients which know no CIDR (Node and
\* some Python clients) may not take, and those that Java cannot have.
BypassCompatibilityNotes(bypass) ==
    [clients |-> {t \in Elements(bypass) : t.kind \in {"cidr4", "cidr6"}},
     java    |-> {t \in Elements(bypass) : t.kind = "cidr6" /\ t.bits < 128}]

=============================================================================
