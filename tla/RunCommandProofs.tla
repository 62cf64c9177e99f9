--------------------------- MODULE RunCommandProofs ---------------------------
(***************************************************************************)
(* Machine-checked proofs about RunCommand and the modules it is built of, *)
(* for any command lines, environments, requests and signals: what Java    *)
(* bypasses, what the child finds in its environment, what is reported     *)
(* when autocurl returns, and what --copy and --output hold.               *)
(***************************************************************************)
EXTENDS RunCommand, SequenceTheorems, FiniteSetTheorems, TLAPS

-----------------------------------------------------------------------------
(* Java's patterns.  For every IPv4 CIDR and every address they match       *)
(* exactly the addresses Go's NO_PROXY handling puts into the CIDR.  TLC   *)
(* compares them on a few hundred addresses, there are 2^32.               *)

CIDR(addr, bits) == [kind |-> "cidr4", addr |-> addr, bits |-> bits]

Sizes == {1, 2, 4, 8, 16, 32, 64, 128, 256}

\* The size of the block that octet i of a prefix of that length leaves open.
Open(bits, i) == Shift(8 - Kept(bits, i))

\* An octet rounded down to its block.
Floor(octet, size) == octet - (octet % size)

\* The block of an octet.
BlockOf(octet, size) == Floor(octet, size) .. Floor(octet, size) + size - 1

\* Two octets are in the same block exactly when one lies in the block the
\* other begins; a block of one is the octet itself, one of 256 holds all.
LEMMA BlockMembership ==
    ASSUME NEW x \in Octet, NEW m \in Octet,
           NEW size \in Sizes
    PROVE  /\ Floor(m, size) \in Octet /\ BlockOf(m, size) \subseteq Octet
           /\ Floor(x, size) = Floor(m, size) <=> x \in BlockOf(m, size)
           /\ size = 1 => Floor(x, size) = x
           /\ size = 256 => Floor(x, size) = Floor(m, size)
BY SMTT(60) DEF Floor, BlockOf, Octet, Sizes

\* The octets of a prefix: whole ones are fixed, the ones beyond it are open.
LEMMA OpenBlocks ==
    ASSUME NEW bits \in 0..32, NEW full, full = bits \div 8, NEW partial, partial = bits % 8,
           NEW i \in 1..4
    PROVE  /\ Open(bits, i) \in Sizes
           /\ i <= full => Open(bits, i) = 1
           /\ i > full /\ partial = 0 => Open(bits, i) = 256
           /\ i > full + 1 => Open(bits, i) = 256
           /\ i = full + 1 /\ partial # 0 => Open(bits, i) = Shift(8 - partial)
<1>1. Kept(bits, i) \in 0..8
  BY DEF Kept
<1>2. Open(bits, i) \in Sizes
  BY <1>1 DEF Open, Shift, Sizes
<1>3. i <= full => Kept(bits, i) = 8
  BY DEF Kept
<1>4. i > full /\ partial = 0 => Kept(bits, i) = 0
  BY DEF Kept
<1>5. i > full + 1 => Kept(bits, i) = 0
  BY DEF Kept
<1>6. i = full + 1 /\ partial # 0 => Kept(bits, i) = partial
  BY DEF Kept
<1>7. Shift(0) = 1 /\ Shift(8) = 256
  BY DEF Shift
<1>8. QED
  BY <1>2, <1>3, <1>4, <1>5, <1>6, <1>7 DEF Open

\* Masking an address rounds each octet down to its block.
LEMMA MaskFloors ==
    ASSUME NEW addr \in Address, NEW bits \in 0..32
    PROVE  Masked(CIDR(addr, bits)) = CIDR([i \in 1..4 |-> Floor(addr[i], Open(bits, i))], bits)
BY DEF Masked, CIDR, Floor, Open

\* An address is in a prefix exactly when its octets are in the same blocks.
LEMMA PrefixMembership ==
    ASSUME NEW addr \in Address, NEW bits \in 0..32, NEW a \in Address
    PROVE  InPrefix(CIDR(addr, bits), a)
               <=> \A i \in 1..4 : Floor(a[i], Open(bits, i)) = Floor(addr[i], Open(bits, i))
<1>1. [CIDR(addr, bits) EXCEPT !.addr = a] = CIDR(a, bits)
  BY DEF CIDR
<1> DEFINE left  == [i \in 1..4 |-> Floor(a[i], Open(bits, i))]
           right == [i \in 1..4 |-> Floor(addr[i], Open(bits, i))]
<1>2. left = right <=> \A i \in 1..4 : left[i] = right[i]
  BY Zenon
<1>3. Masked(CIDR(a, bits)) = CIDR(left, bits) /\ Masked(CIDR(addr, bits)) = CIDR(right, bits)
  BY MaskFloors
<1> HIDE DEF left, right
<1>4. CIDR(left, bits) = CIDR(right, bits) <=> left = right
  BY DEF CIDR
<1>5. InPrefix(CIDR(addr, bits), a) <=> left = right
  BY <1>1, <1>3, <1>4 DEF InPrefix
<1>6. QED
  BY <1>2, <1>5 DEF left, right

\* A pattern of n octets, with a star unless it names all four, matches the
\* addresses that begin with them.
LEMMA PatternMatches ==
    ASSUME NEW n \in 0..4, NEW fixed \in [1..n -> Octet], NEW a \in Address
    PROVE  Matches([fixed |-> fixed, star |-> n < 4], a)
               <=> \A i \in 1..n : fixed[i] = a[i]
<1>1. fixed \in Seq(Octet)
  BY SeqDef
<1>2. DOMAIN fixed = 1..n
  OBVIOUS
<1>3. Len(fixed) = n
  BY <1>1, <1>2, LenProperties
<1>4. Matches([fixed |-> fixed, star |-> n < 4], a)
        <=> (Len(fixed) = 4 \/ n < 4) /\ \A i \in DOMAIN fixed : fixed[i] = a[i]
  BY DEF Matches
<1>5. QED
  BY <1>2, <1>3, <1>4

(* The theorem: the patterns Java gets mean the CIDR the user wrote.         *)
THEOREM JavaPatternsAreTheCIDR ==
    ASSUME NEW addr \in Address, NEW bits \in 0..32, NEW a \in Address
    PROVE  InPrefix(CIDR(addr, bits), a)
               <=> \E pattern \in JavaCIDRPatterns(CIDR(addr, bits)) : Matches(pattern, a)
<1> DEFINE full    == bits \div 8
           partial == bits % 8
           m       == [i \in 1..4 |-> Floor(addr[i], Open(bits, i))]
           fixed   == SubSeq(m, 1, full)
<1>1. full \in 0..4 /\ partial \in 0..7 /\ (partial # 0 => full \in 0..3)
  OBVIOUS
<1>2. m \in [1..4 -> Octet]
  <2>1. ASSUME NEW i \in 1..4
        PROVE  Floor(addr[i], Open(bits, i)) \in Octet
    <3>1. addr[i] \in Octet
      BY DEF Address
    <3>2. Open(bits, i) \in Sizes
      BY OpenBlocks
    <3>3. QED
      BY <3>1, <3>2, BlockMembership
  <2>2. QED
    BY <2>1
<1>3. fixed \in Seq(Octet) /\ Len(fixed) = full /\ \A i \in 1..full : fixed[i] = m[i]
  <2>1. \A i \in 1..full : m[i] \in Octet
    BY <1>1, <1>2
  <2>2. QED
    BY <1>1, <2>1, SubSeqProperties
<1>4. fixed \in [1..full -> Octet]
  BY <1>3, LenProperties
<1>5. Masked(CIDR(addr, bits)) = CIDR(m, bits)
  BY MaskFloors
<1>6. InPrefix(CIDR(addr, bits), a) <=> \A i \in 1..4 : Floor(a[i], Open(bits, i)) = m[i]
  BY PrefixMembership
<1> DEFINE Block == m[full + 1] .. m[full + 1] + Shift(8 - partial) - 1
<1>7. ASSUME NEW i \in 1..4
      PROVE  /\ a[i] \in Octet /\ addr[i] \in Octet /\ m[i] = Floor(addr[i], Open(bits, i))
             /\ Open(bits, i) \in Sizes
             /\ i <= full => Open(bits, i) = 1
             /\ i > full /\ partial = 0 => Open(bits, i) = 256
             /\ i > full + 1 => Open(bits, i) = 256
             /\ i = full + 1 /\ partial # 0 => Open(bits, i) = Shift(8 - partial)
  <2>1. a[i] \in Octet /\ addr[i] \in Octet
    BY DEF Address
  <2>2. m[i] = Floor(addr[i], Open(bits, i))
    OBVIOUS
  <2> HIDE DEF m
  <2>3. /\ Open(bits, i) \in Sizes
        /\ i <= full => Open(bits, i) = 1
        /\ i > full /\ partial = 0 => Open(bits, i) = 256
        /\ i > full + 1 => Open(bits, i) = 256
        /\ i = full + 1 /\ partial # 0 => Open(bits, i) = Shift(8 - partial)
    <3>1. full = bits \div 8 /\ partial = bits % 8
      OBVIOUS
    <3> HIDE DEF full, partial, fixed, Block
    <3>2. QED
      BY <3>1, OpenBlocks
  <2>4. QED
    BY <2>1, <2>2, <2>3, Zenon
<1>8. JavaCIDRPatterns(CIDR(addr, bits)) =
        IF partial = 0 THEN {[fixed |-> fixed, star |-> full < 4]}
        ELSE {[fixed |-> Append(fixed, value), star |-> full + 1 < 4] : value \in Block}
  <2>1. Masked(CIDR(addr, bits)).bits = bits /\ Masked(CIDR(addr, bits)).addr = m
    BY <1>5 DEF CIDR
  <2> HIDE DEF m
  <2>2. QED
    BY <2>1, Zenon DEF JavaCIDRPatterns, UnmaskedPatterns
<1> HIDE DEF full, partial, m, fixed
<1>9. ASSUME NEW i \in 1..4
      PROVE  /\ BlockOf(addr[i], Open(bits, i)) \subseteq Octet
             /\ Floor(a[i], Open(bits, i)) = m[i] <=> a[i] \in BlockOf(addr[i], Open(bits, i))
             /\ Open(bits, i) = 1 => Floor(a[i], Open(bits, i)) = a[i]
             /\ Open(bits, i) = 256 => Floor(a[i], Open(bits, i)) = m[i]
  <2> DEFINE size == Open(bits, i)
             x    == a[i]
             y    == addr[i]
  <2>1. /\ x \in Octet /\ y \in Octet /\ size \in Sizes
        /\ m[i] = Floor(y, size)
    BY <1>7
  <2> HIDE DEF size, x, y, Block
  <2>2. /\ Floor(y, size) \in Octet /\ BlockOf(y, size) \subseteq Octet
        /\ Floor(x, size) = Floor(y, size) <=> x \in BlockOf(y, size)
        /\ size = 1 => Floor(x, size) = x
        /\ size = 256 => Floor(x, size) = Floor(y, size)
    BY <2>1, BlockMembership
  <2>3. QED
    BY <2>1, <2>2, Zenon DEF size, x, y
<1>10. CASE partial = 0
  <2>1. Matches([fixed |-> fixed, star |-> full < 4], a) <=> \A i \in 1..full : fixed[i] = a[i]
    BY <1>1, <1>4, PatternMatches
  <2>2. (\A i \in 1..4 : Floor(a[i], Open(bits, i)) = m[i]) <=> \A i \in 1..full : fixed[i] = a[i]
    BY <1>1, <1>3, <1>7, <1>9, <1>10
  <2>3. QED
    BY <1>6, <1>8, <1>10, <2>1, <2>2
<1>11. CASE partial # 0
  <2>1. full + 1 \in 1..4 /\ Open(bits, full + 1) = Shift(8 - partial)
    BY <1>1, <1>7, <1>11
  <2>2. Block = BlockOf(addr[full + 1], Open(bits, full + 1)) /\ Block \subseteq Octet
    BY <1>7, <1>9, <2>1 DEF BlockOf
  <2> HIDE DEF Block
  <2> DEFINE Pattern(value) == [fixed |-> Append(fixed, value), star |-> full + 1 < 4]
  <2>3. ASSUME NEW value \in Block
        PROVE  Matches(Pattern(value), a)
                  <=> (\A i \in 1..full : fixed[i] = a[i]) /\ value = a[full + 1]
    <3>1. /\ Append(fixed, value) \in Seq(Octet) /\ Len(Append(fixed, value)) = full + 1
          /\ \A i \in 1..full : Append(fixed, value)[i] = fixed[i]
          /\ Append(fixed, value)[full + 1] = value
      BY <1>3, <2>1, <2>2, AppendProperties
    <3>2. Append(fixed, value) \in [1..full + 1 -> Octet]
      BY <3>1, LenProperties
    <3>3. Matches(Pattern(value), a) <=> \A i \in 1..full + 1 : Append(fixed, value)[i] = a[i]
      <4> DEFINE n == full + 1
                 s == Append(fixed, value)
      <4>1. n \in 0..4 /\ s \in [1..n -> Octet]
        BY <2>1, <3>2
      <4> HIDE DEF n, s
      <4>2. Matches([fixed |-> s, star |-> n < 4], a) <=> \A i \in 1..n : s[i] = a[i]
        BY <4>1, PatternMatches
      <4>3. QED
        BY <4>2, Zenon DEF n, s
    <3>4. QED
      BY <1>1, <3>1, <3>3
  <2>4. (\A i \in 1..4 : Floor(a[i], Open(bits, i)) = m[i])
           <=> (\A i \in 1..full : fixed[i] = a[i]) /\ a[full + 1] \in Block
    BY <1>1, <1>3, <1>7, <1>9, <1>11, <2>1, <2>2
  <2>5. JavaCIDRPatterns(CIDR(addr, bits)) = {Pattern(value) : value \in Block}
    BY <1>8, <1>11 DEF Block
  <2> HIDE DEF Pattern
  <2>6. QED
    BY <1>6, <2>3, <2>4, <2>5
<1>12. QED
  BY <1>10, <1>11

-----------------------------------------------------------------------------
(* Lists of targets.                                                        *)

\* A set of positions has a first one.
LEMMA FirstPosition ==
    ASSUME NEW T \in SUBSET Nat, T # {}
    PROVE  \E m \in T : \A n \in T : m <= n
  <1>1. PICK m \in T : \A n \in T : <<n, m>> \notin OpToRel(<, Nat)
    BY NatLessThanWellFounded, WFMin
  <1>2. \A n \in T : ~(n < m)
    BY <1>1 DEF OpToRel
  <1> QED
    BY <1>2

First(seq)   == {i \in DOMAIN seq : \A j \in 1..i - 1 : seq[j] # seq[i]}
UpTo(seq, i) == {j \in First(seq) : j <= i}

\* Positions of first occurrences are counted by 1, 2, ... without a gap.
LEMMA RanksOfFirst ==
    ASSUME NEW S, NEW seq \in Seq(S)
    PROVE  /\ Cardinality(First(seq)) \in Nat
           /\ \A i \in First(seq) : Cardinality(UpTo(seq, i)) \in 1..Cardinality(First(seq))
           /\ \A k \in 1..Cardinality(First(seq)) :
                \E i \in First(seq) : Cardinality(UpTo(seq, i)) = k
           /\ \A i, j \in First(seq) : Cardinality(UpTo(seq, i)) = Cardinality(UpTo(seq, j)) => i = j
  <1> DEFINE F       == First(seq)
             n       == Cardinality(F)
             rank    == [i \in F |-> Cardinality(UpTo(seq, i))]
  <1>1. F \subseteq 1..Len(seq) /\ Len(seq) \in Nat
    BY DEF First
  <1>2. IsFiniteSet(F) /\ n \in Nat
    <2>1. IsFiniteSet(1..Len(seq))
      BY <1>1, FS_Interval
    <2>2. IsFiniteSet(F)
      BY <1>1, <2>1, FS_Subset
    <2> QED
      BY <2>2, FS_CardinalityType
  <1>3. ASSUME NEW i \in F
        PROVE  /\ IsFiniteSet(UpTo(seq, i)) /\ Cardinality(UpTo(seq, i)) \in 1..n
               /\ i \in UpTo(seq, i)
    <2>1. UpTo(seq, i) \in SUBSET F /\ i \in UpTo(seq, i)
      BY <1>1 DEF UpTo
    <2>2. IsFiniteSet(UpTo(seq, i)) /\ Cardinality(UpTo(seq, i)) <= n
      BY <1>2, <2>1, FS_Subset
    <2>3. Cardinality(UpTo(seq, i)) \in Nat /\ Cardinality(UpTo(seq, i)) # 0
      BY <2>1, <2>2, FS_EmptySet, FS_CardinalityType
    <2> HIDE DEF F, n
    <2> QED
      BY <1>2, <2>1, <2>2, <2>3
  <1>4. ASSUME NEW i \in F, NEW j \in F, Cardinality(UpTo(seq, i)) = Cardinality(UpTo(seq, j))
        PROVE  i = j
    <2>1. ASSUME NEW a \in F, NEW b \in F, a < b,
                 Cardinality(UpTo(seq, a)) = Cardinality(UpTo(seq, b))
          PROVE  FALSE
      <3>1. UpTo(seq, a) \in SUBSET UpTo(seq, b) /\ b \notin UpTo(seq, a) /\ b \in UpTo(seq, b)
        BY <1>1, <2>1 DEF UpTo
      <3>2. UpTo(seq, b) = UpTo(seq, a)
        BY <1>3, <2>1, <3>1, FS_Subset
      <3> QED
        BY <3>1, <3>2
    <2>2. i \in Nat /\ j \in Nat
      BY <1>1
    <2> QED
      BY <1>4, <2>1, <2>2
  <1> HIDE DEF F, n
  <1>5. rank \in Injection(F, 1..n)
    <2>1. rank \in [F -> 1..n]
      BY <1>3
    <2>2. \A i, j \in F : rank[i] = rank[j] => i = j
      BY <1>4
    <2> QED
      BY <2>1, <2>2 DEF Injection, IsInjective
  <1>6. IsFiniteSet(1..n) /\ Cardinality(1..n) = n
    BY <1>2, FS_Interval
  <1>7. rank \in Surjection(F, 1..n)
    BY <1>2, <1>5, <1>6, FS_Injection DEF n
  <1>8. ASSUME NEW k \in 1..n PROVE \E i \in F : Cardinality(UpTo(seq, i)) = k
    BY <1>7 DEF Surjection
  <1> QED
    BY <1>2, <1>3, <1>4, <1>8 DEF F, n

\* A list of targets keeps each of them, once.
LEMMA OnceKeepsAll ==
    ASSUME NEW S, NEW seq \in Seq(S)
    PROVE  /\ Once(seq) \in Seq(S)
           /\ Elements(Once(seq)) = Elements(seq)
           /\ \A i, j \in DOMAIN Once(seq) : Once(seq)[i] = Once(seq)[j] => i = j
           /\ Once(seq) = <<>> <=> seq = <<>>
  <1> DEFINE n     == Cardinality(First(seq))
             at(k) == CHOOSE i \in First(seq) : Cardinality(UpTo(seq, i)) = k
  <1>1. Once(seq) = [k \in 1..n |-> seq[at(k)]]
    BY DEF Once, First, UpTo
  <1>2. n \in Nat
    BY RanksOfFirst
  <1>3. \A k \in 1..n : at(k) \in First(seq) /\ Cardinality(UpTo(seq, at(k))) = k
    BY RanksOfFirst
  <1>4. \A i \in First(seq) : \E k \in 1..n : at(k) = i
    <2> SUFFICES ASSUME NEW i \in First(seq) PROVE at(Cardinality(UpTo(seq, i))) = i
      BY RanksOfFirst
    <2> QED
      BY RanksOfFirst
  <1>5. First(seq) \subseteq 1..Len(seq) /\ Len(seq) \in Nat /\ DOMAIN seq = 1..Len(seq)
    BY DEF First
  <1>6. ASSUME NEW m \in DOMAIN seq
        PROVE  \E i \in First(seq) : seq[i] = seq[m]
    <2> DEFINE T == {i \in DOMAIN seq : seq[i] = seq[m]}
    <2>1. T \in SUBSET Nat /\ T # {}
      BY <1>5
    <2> HIDE DEF T
    <2>2. PICK i \in T : \A j \in T : i <= j
      BY <2>1, FirstPosition
    <2>3. i \in DOMAIN seq /\ seq[i] = seq[m]
      BY DEF T
    <2>4. \A j \in 1..i - 1 : seq[j] # seq[i]
      <3> SUFFICES ASSUME NEW j \in 1..i - 1, seq[j] = seq[i] PROVE FALSE
        OBVIOUS
      <3>1. j \in T
        BY <1>5, <2>3 DEF T
      <3> QED
        BY <1>5, <2>2, <2>3, <3>1
    <2> QED
      BY <2>3, <2>4 DEF First
  <1>7. \A i, j \in First(seq) : seq[i] = seq[j] => i = j
    <2> SUFFICES ASSUME NEW i \in First(seq), NEW j \in First(seq), seq[i] = seq[j], i < j
                 PROVE  FALSE
      BY <1>5
    <2> QED
      BY <1>5 DEF First
  <1> HIDE DEF n, at
  <1>8. DOMAIN Once(seq) = 1..n /\ \A k \in 1..n : Once(seq)[k] = seq[at(k)]
    BY <1>1
  <1>9. Once(seq) \in Seq(S) /\ Len(Once(seq)) = n
    <2>1. \A k \in 1..n : seq[at(k)] \in S
      BY <1>3, <1>5, ElementOfSeq
    <2> QED
      BY <1>1, <1>2, <2>1
  <1>10. Elements(Once(seq)) = Elements(seq)
    <2>1. ASSUME NEW x \in Elements(Once(seq)) PROVE x \in Elements(seq)
      BY <1>3, <1>5, <1>8 DEF Elements
    <2>2. ASSUME NEW x \in Elements(seq) PROVE x \in Elements(Once(seq))
      <3>1. PICK i \in First(seq) : seq[i] = x
        BY <1>6 DEF Elements
      <3>2. PICK k \in 1..n : at(k) = i
        BY <1>4
      <3> QED
        BY <1>8, <3>1, <3>2 DEF Elements
    <2> QED
      BY <2>1, <2>2
  <1>11. \A i, j \in DOMAIN Once(seq) : Once(seq)[i] = Once(seq)[j] => i = j
    BY <1>3, <1>7, <1>8
  <1>12. Once(seq) = <<>> <=> seq = <<>>
    <2>1. ASSUME NEW s \in Seq(S) PROVE s = <<>> <=> Elements(s) = {}
      <3>1. s # <<>> => 1 \in DOMAIN s
        BY EmptySeq, LenProperties
      <3>2. s = <<>> => DOMAIN s = {}
        OBVIOUS
      <3> QED
        BY <3>1, <3>2 DEF Elements
    <2> QED
      BY <1>9, <1>10, <2>1
  <1> QED
    BY <1>9, <1>10, <1>11, <1>12

\* A list that begins with another.
Extends(t, s) ==
    /\ IsList(t)
    /\ Len(s) <= Len(t) /\ \A i \in 1..Len(s) : t[i] = s[i]
    /\ Elements(s) \subseteq Elements(t)

LEMMA ShortLists ==
    /\ IsList(<<>>) /\ Elements(<<>>) = {}
    /\ \A a : IsList(<<a>>) /\ Elements(<<a>>) = {a}
    /\ \A a, b : IsList(<<a, b>>) /\ Elements(<<a, b>>) = {a, b}
  BY DEF IsList, Elements

LEMMA Concatenation ==
    ASSUME NEW s, NEW t, IsList(s), IsList(t)
    PROVE  /\ Extends(s \o t, s)
           /\ Elements(s \o t) = Elements(s) \cup Elements(t)
  <1> DEFINE S == Elements(s) \cup Elements(t)
  <1>1. s \in Seq(S) /\ t \in Seq(S)
    BY SeqMonotonic DEF IsList
  <1>2. /\ s \o t \in Seq(S) /\ Len(s \o t) = Len(s) + Len(t)
        /\ \A i \in 1..Len(s) + Len(t) : (s \o t)[i] = IF i <= Len(s) THEN s[i] ELSE t[i - Len(s)]
    BY <1>1, ConcatProperties
  <1>3. /\ Len(s) \in Nat /\ DOMAIN s = 1..Len(s) /\ Len(t) \in Nat /\ DOMAIN t = 1..Len(t)
        /\ DOMAIN (s \o t) = 1..Len(s) + Len(t)
    BY <1>1, <1>2, LenProperties
  <1> HIDE DEF S
  <1>4. ASSUME NEW x \in Elements(s) PROVE x \in Elements(s \o t)
    <2>1. PICK i \in 1..Len(s) : s[i] = x
      BY <1>3 DEF Elements
    <2>2. i \in 1..Len(s) + Len(t) /\ (s \o t)[i] = x
      BY <1>2, <1>3, <2>1
    <2> QED
      BY <1>3, <2>2 DEF Elements
  <1>5. ASSUME NEW x \in Elements(t) PROVE x \in Elements(s \o t)
    <2>1. PICK i \in 1..Len(t) : t[i] = x
      BY <1>3 DEF Elements
    <2>2. i + Len(s) \in 1..Len(s) + Len(t) /\ (s \o t)[i + Len(s)] = x
      BY <1>2, <1>3, <2>1
    <2> QED
      BY <1>3, <2>2 DEF Elements
  <1>6. ASSUME NEW x \in Elements(s \o t) PROVE x \in Elements(s) \cup Elements(t)
    <2>1. PICK i \in 1..Len(s) + Len(t) : (s \o t)[i] = x
      BY <1>3 DEF Elements
    <2>2. CASE i <= Len(s)
      BY <1>2, <1>3, <2>1, <2>2 DEF Elements
    <2>3. CASE ~(i <= Len(s))
      <3>1. i - Len(s) \in 1..Len(t) /\ t[i - Len(s)] = x
        BY <1>2, <1>3, <2>1, <2>3
      <3> QED
        BY <1>3, <3>1 DEF Elements
    <2> QED
      BY <2>2, <2>3
  <1>7. Elements(s \o t) = S
    BY <1>4, <1>5, <1>6 DEF S
  <1>8. Len(s) <= Len(s \o t) /\ \A i \in 1..Len(s) : (s \o t)[i] = s[i]
    BY <1>2, <1>3
  <1> QED
    BY <1>2, <1>7, <1>8 DEF Extends, IsList, S

LEMMA ExtendsTransitive ==
    ASSUME NEW s, NEW t, NEW u, IsList(s), Extends(t, s), Extends(u, t)
    PROVE  Extends(u, s)
  <1>1. Len(s) \in Nat /\ Len(t) \in Nat /\ Len(u) \in Nat
    BY DEF Extends, IsList
  <1> QED
    BY <1>1 DEF Extends

LEMMA ExtendsIsPrefix ==
    ASSUME NEW s, NEW t, IsList(s), Extends(t, s)
    PROVE  IsPrefix(s, t)
  <1> DEFINE n == Len(s)
             S == Elements(t)
  <1>1. n \in Nat /\ Len(t) \in Nat /\ n <= Len(t) /\ DOMAIN t = 1..Len(t) /\ DOMAIN s = 1..n
    BY DEF Extends, IsList
  <1>2. \A i \in 1..n : s[i] = t[i] /\ t[i] \in S
    BY <1>1 DEF Extends, Elements
  <1> HIDE DEF n, S
  <1>3. /\ SubSeq(s, 1, n) \in Seq(S) /\ Len(SubSeq(s, 1, n)) = n
        /\ \A i \in 1..n : SubSeq(s, 1, n)[i] = s[i]
    BY <1>1, <1>2, SubSeqProperties
  <1>4. /\ SubSeq(t, 1, n) \in Seq(S) /\ Len(SubSeq(t, 1, n)) = n
        /\ \A i \in 1..n : SubSeq(t, 1, n)[i] = t[i]
    BY <1>1, <1>2, SubSeqProperties
  <1>5. SubSeq(s, 1, n) = SubSeq(t, 1, n)
    BY <1>2, <1>3, <1>4
  <1> QED
    BY <1>1, <1>5 DEF IsPrefix, n

-----------------------------------------------------------------------------
(* The environment buildChildEnvironment and addGoTrustOverlay make.         *)

LEMMA ValuesAreLists ==
    ASSUME NEW base, IsEnvironment(base), NEW name
    PROVE  IsList(EnvironmentValue(base, name))
  BY ShortLists DEF EnvironmentValue, IsEnvironment

LEMMA MergedTargets ==
    ASSUME NEW base, IsEnvironment(base), NEW configured, IsCommandLine(configured)
    PROVE  LET bypass == MergeBypassTargets(base, configured)
               all    == InheritedTargets(base) \cup Elements(configured)
           IN  Elements(bypass) = all /\ (bypass = <<>> <=> all = {})
  <1> DEFINE a == EnvironmentValue(base, "NO_PROXY")
             b == EnvironmentValue(base, "no_proxy")
             c == EnvironmentValue(base, "no_grpc_proxy")
             s == a \o b \o c \o configured
  <1>1. IsList(a) /\ IsList(b) /\ IsList(c) /\ IsList(configured)
    BY ValuesAreLists DEF IsCommandLine
  <1>2. InheritedTargets(base) = Elements(a) \cup Elements(b) \cup Elements(c)
    BY DEF InheritedTargets, BypassNames
  <1> HIDE DEF a, b, c
  <1>3. IsList(a \o b) /\ Elements(a \o b) = Elements(a) \cup Elements(b)
    BY <1>1, Concatenation DEF Extends
  <1>4. IsList(a \o b \o c) /\ Elements(a \o b \o c) = Elements(a) \cup Elements(b) \cup Elements(c)
    BY <1>1, <1>3, Concatenation DEF Extends
  <1>5. IsList(s) /\ Elements(s) = InheritedTargets(base) \cup Elements(configured)
    BY <1>1, <1>2, <1>4, Concatenation DEF Extends
  <1>6. MergeBypassTargets(base, configured) = Once(s)
    BY DEF MergeBypassTargets, a, b, c
  <1> HIDE DEF s
  <1>7. Elements(Once(s)) = Elements(s) /\ (Once(s) = <<>> <=> s = <<>>)
    BY <1>5, OnceKeepsAll DEF IsList
  <1>8. s = <<>> <=> Elements(s) = {}
    <2>1. s # <<>> => 1 \in DOMAIN s
      BY <1>5, EmptySeq, LenProperties DEF IsList
    <2> QED
      BY <2>1, ShortLists DEF Elements
  <1> QED
    BY <1>5, <1>6, <1>7, <1>8

Truststore    == Option("javax.net.ssl.trustStore", "truststore")
NonProxyHosts(bypass) == Option("http.nonProxyHosts", JavaNonProxyHosts(bypass))

\* Java gets its options after the user's.
LEMMA JavaOptionsExtend ==
    ASSUME NEW base, IsEnvironment(base), NEW bypass
    PROVE  LET own == EnvironmentValue(base, "JAVA_TOOL_OPTIONS") IN
           /\ Extends(JavaOptions(base, bypass), own)
           /\ bypass # <<>> => NonProxyHosts(bypass) \in Elements(JavaOptions(base, bypass))
  <1> DEFINE own   == EnvironmentValue(base, "JAVA_TOOL_OPTIONS")
             proxy == <<Option("http.proxy", "proxy"), Option("https.proxy", "proxy")>>
             hosts == IF bypass = <<>> THEN <<>> ELSE <<NonProxyHosts(bypass)>>
             trust == <<Truststore>>
  <1>1. JavaOptions(base, bypass) = own \o proxy \o hosts \o trust
    BY Zenon DEF JavaOptions, Truststore, NonProxyHosts
  <1>2. IsList(own) /\ IsList(proxy) /\ IsList(hosts) /\ IsList(trust)
    BY ValuesAreLists, ShortLists
  <1>3. bypass # <<>> => NonProxyHosts(bypass) \in Elements(hosts)
    BY ShortLists
  <1> HIDE DEF own, proxy, hosts, trust
  <1>4. Extends(own \o proxy, own) /\ IsList(own \o proxy)
    BY <1>2, Concatenation DEF Extends
  <1>5. /\ Extends(own \o proxy \o hosts, own \o proxy) /\ IsList(own \o proxy \o hosts)
        /\ Elements(hosts) \subseteq Elements(own \o proxy \o hosts)
    BY <1>2, <1>4, Concatenation DEF Extends
  <1>6. Extends(own \o proxy \o hosts \o trust, own \o proxy \o hosts)
    BY <1>2, <1>5, Concatenation
  <1>7. Extends(own \o proxy \o hosts, own)
    BY <1>2, <1>4, <1>5, ExtendsTransitive
  <1>8. Extends(own \o proxy \o hosts \o trust, own)
    BY <1>2, <1>6, <1>7, ExtendsTransitive
  <1>9. Elements(own \o proxy \o hosts) \subseteq Elements(own \o proxy \o hosts \o trust)
    BY <1>6 DEF Extends
  <1> QED
    BY <1>1, <1>3, <1>5, <1>8, <1>9 DEF own

\* buildChildEnvironment: what each variable of the child's environment is.
LEMMA Built ==
    ASSUME NEW base, NEW configured, NEW keytool
    PROVE  LET built  == BuildChildEnvironment(base, configured, keytool)
               bypass == MergeBypassTargets(base, configured)
           IN  /\ bypass # <<>> => \A name \in BypassNames : name \in DOMAIN built /\ built[name] = bypass
               /\ keytool => /\ "JAVA_TOOL_OPTIONS" \in DOMAIN built
                             /\ built["JAVA_TOOL_OPTIONS"] = JavaOptions(base, bypass)
               /\ ~keytool => EnvironmentValue(built, "JAVA_TOOL_OPTIONS")
                                 = EnvironmentValue(base, "JAVA_TOOL_OPTIONS")
               /\ EnvironmentValue(built, "GOFLAGS") = EnvironmentValue(base, "GOFLAGS")
               /\ \A name \in DOMAIN base \ Overridden :
                    name \in DOMAIN built /\ (name # "JAVA_TOOL_OPTIONS" => built[name] = base[name])
  <1> DEFINE built  == BuildChildEnvironment(base, configured, keytool)
             bypass == MergeBypassTargets(base, configured)
             java   == IF keytool THEN [JAVA_TOOL_OPTIONS |-> JavaOptions(base, bypass)] ELSE <<>>
             direct == IF bypass = <<>> THEN <<>> ELSE [name \in BypassNames |-> bypass]
             names  == ProxyNames \cup CANames \cup {"NODE_USE_ENV_PROXY"}
             fixed  == [name \in names |->
                          CASE name \in ProxyNames -> "proxy"
                            [] name \in CANames    -> "ca"
                            [] OTHER               -> "1"]
             others == MergeEnvironment(java, direct)
             ours   == MergeEnvironment(fixed, others)
  <1>1. built = MergeEnvironment(base, ours)
    BY Zenon DEF BuildChildEnvironment
  <1>2. /\ DOMAIN java = IF keytool THEN {"JAVA_TOOL_OPTIONS"} ELSE {}
        /\ keytool => java["JAVA_TOOL_OPTIONS"] = JavaOptions(base, bypass)
    OBVIOUS
  <1>3. /\ DOMAIN direct = IF bypass = <<>> THEN {} ELSE BypassNames
        /\ bypass # <<>> => \A name \in BypassNames : direct[name] = bypass
    OBVIOUS
  <1>4. DOMAIN fixed = names
    OBVIOUS
  <1> HIDE DEF java, direct, fixed, bypass
  <1>5. /\ DOMAIN others = DOMAIN java \cup DOMAIN direct
        /\ \A name \in DOMAIN others : others[name] = IF name \in DOMAIN direct THEN direct[name] ELSE java[name]
    BY Zenon DEF MergeEnvironment
  <1> HIDE DEF others
  <1>6. /\ DOMAIN ours = DOMAIN fixed \cup DOMAIN others
        /\ \A name \in DOMAIN others : ours[name] = others[name]
    BY Zenon DEF MergeEnvironment
  <1> HIDE DEF ours
  <1>7. /\ DOMAIN built = DOMAIN base \cup DOMAIN ours
        /\ \A name \in DOMAIN built : built[name] = IF name \in DOMAIN ours THEN ours[name] ELSE base[name]
    BY <1>1, Zenon DEF MergeEnvironment
  <1> HIDE DEF built
  <1>8. /\ "JAVA_TOOL_OPTIONS" \notin names \cup BypassNames /\ "GOFLAGS" \notin names \cup BypassNames
        /\ names \cup BypassNames \subseteq Overridden
    BY DEF ProxyNames, CANames, BypassNames, Overridden, Flags
  <1> HIDE DEF names
  <1>9. bypass # <<>> => \A name \in BypassNames : name \in DOMAIN built /\ built[name] = bypass
    BY <1>3, <1>5, <1>6, <1>7
  <1>10. keytool => /\ "JAVA_TOOL_OPTIONS" \in DOMAIN built
                    /\ built["JAVA_TOOL_OPTIONS"] = JavaOptions(base, bypass)
    BY <1>2, <1>3, <1>5, <1>6, <1>7, <1>8
  <1>11. ~keytool => "JAVA_TOOL_OPTIONS" \notin DOMAIN ours
    BY <1>2, <1>3, <1>4, <1>5, <1>6, <1>8
  <1>12. "GOFLAGS" \notin DOMAIN ours
    BY <1>2, <1>3, <1>4, <1>5, <1>6, <1>8
  <1>13. \A name : name \notin DOMAIN ours => EnvironmentValue(built, name) = EnvironmentValue(base, name)
    BY <1>7 DEF EnvironmentValue
  <1>14. \A name \in DOMAIN base \ Overridden :
            name \in DOMAIN built /\ (name # "JAVA_TOOL_OPTIONS" => built[name] = base[name])
    BY <1>2, <1>3, <1>4, <1>5, <1>6, <1>7, <1>8
  <1> QED
    BY <1>9, <1>10, <1>11, <1>12, <1>13, <1>14 DEF built, bypass

\* addGoTrustOverlay: all of it or, whatever fails, nothing in the environment.
LEMMA Overlaid ==
    ASSUME NEW environment, NEW machine, NEW failure
    PROVE  LET done == AddGoTrustOverlay(environment, machine, failure) IN
           \/ done.environment = environment
           \/ /\ {"go_roots", "overlay"} \subseteq done.files
              /\ \A name : name \notin {"AUTOCURL_CA_FILE", "GOFLAGS"} =>
                   /\ name \in DOMAIN done.environment <=> name \in DOMAIN environment
                   /\ name \in DOMAIN environment => done.environment[name] = environment[name]
              /\ "GOFLAGS" \in DOMAIN done.environment
              /\ done.environment["GOFLAGS"]
                    = Append(EnvironmentValue(environment, "GOFLAGS"), Option("overlay", "overlay"))
  <1> DEFINE done  == AddGoTrustOverlay(environment, machine, failure)
             flags == Append(EnvironmentValue(environment, "GOFLAGS"), Option("overlay", "overlay"))
             added == [AUTOCURL_CA_FILE |-> "ca", GOFLAGS |-> flags]
             merged == MergeEnvironment(environment, added)
  <1>1. \/ \E left : done = [environment |-> environment, files |-> left]
        \/ done = [environment |-> merged, files |-> {"go_roots", "overlay"}]
    BY DEF AddGoTrustOverlay
  <1>2. DOMAIN added = {"AUTOCURL_CA_FILE", "GOFLAGS"} /\ added["GOFLAGS"] = flags
    OBVIOUS
  <1> HIDE DEF added, flags
  <1>3. /\ DOMAIN merged = DOMAIN environment \cup DOMAIN added
        /\ \A name \in DOMAIN merged : merged[name] = IF name \in DOMAIN added THEN added[name] ELSE environment[name]
    BY Zenon DEF MergeEnvironment
  <1> HIDE DEF done, merged
  <1>4. \/ done.environment = environment
        \/ done.environment = merged /\ done.files = {"go_roots", "overlay"}
    BY <1>1
  <1> QED
    BY <1>2, <1>3, <1>4 DEF done, flags

LEMMA AppendExtends ==
    ASSUME NEW s, IsList(s), NEW x
    PROVE  Extends(Append(s, x), s)
  <1> DEFINE S == Elements(s) \cup {x}
  <1>1. s \in Seq(S)
    BY SeqMonotonic DEF IsList
  <1>2. Append(s, x) = s \o <<x>>
    BY <1>1, AppendIsConcat
  <1> QED
    BY <1>2, ShortLists, Concatenation

LEMMA PatternShapes ==
    ASSUME NEW target, IsTarget(target)
    PROVE  /\ target.kind = "cidr4" =>
                /\ \E addr \in Address, bits \in 0..32 : target = CIDR(addr, bits)
                /\ PatternsOf(target) = JavaCIDRPatterns(target)
                /\ \A p \in PatternsOf(target) : "fixed" \in DOMAIN p
           /\ target.kind # "cidr4" => \A p \in PatternsOf(target) : "fixed" \notin DOMAIN p
           /\ PatternsOf(target) = {} <=> target.kind = "cidr6" /\ target.bits < 128
  <1>1. CASE target.kind = "cidr4"
    <2>1. PICK addr \in Address, bits \in 0..32 : target = CIDR(addr, bits)
      BY <1>1 DEF IsTarget, Prefix, CIDR
    <2>2. PatternsOf(target) = JavaCIDRPatterns(target)
      BY <1>1 DEF PatternsOf
    <2>3. \A p \in JavaCIDRPatterns(target) : \E fixed, star : p = [fixed |-> fixed, star |-> star]
      <3> DEFINE masked == Masked(target)
      <3>1. JavaCIDRPatterns(target) = UnmaskedPatterns(masked)
        BY DEF JavaCIDRPatterns
      <3> HIDE DEF masked
      <3>2. \A p \in UnmaskedPatterns(masked) : \E fixed, star : p = [fixed |-> fixed, star |-> star]
        BY Zenon DEF UnmaskedPatterns
      <3> QED
        BY <3>1, <3>2
    <2>4. \A fixed, star : "fixed" \in DOMAIN [fixed |-> fixed, star |-> star]
      OBVIOUS
    <2>5. InPrefix(target, addr)
      BY <2>1 DEF InPrefix, CIDR
    <2>6. JavaCIDRPatterns(target) # {}
      BY <2>1, <2>5, JavaPatternsAreTheCIDR
    <2> QED
      BY <1>1, <2>1, <2>2, <2>3, <2>4, <2>6
  <1>2. CASE target.kind # "cidr4"
    <2>1. \/ PatternsOf(target) = {} /\ target.kind = "cidr6" /\ target.bits # 128
          \/ /\ \E star \in BOOLEAN : PatternsOf(target) = {[name |-> target.name, star |-> star]}
             /\ target.kind = "cidr6" => target.bits = 128
      BY <1>2 DEF PatternsOf
    <2>2. \A name, star : "fixed" \notin DOMAIN [name |-> name, star |-> star]
      OBVIOUS
    <2>3. target.kind = "cidr6" => target.bits \in 0..128
      BY DEF IsTarget
    <2>4. CASE PatternsOf(target) = {}
      <3>1. target.kind = "cidr6" /\ target.bits # 128
        BY <2>1, <2>4
      <3>2. target.bits < 128
        BY <2>3, <3>1
      <3> QED
        BY <1>2, <2>4, <3>1, <3>2, Zenon
    <2>5. ASSUME NEW star, PatternsOf(target) = {[name |-> target.name, star |-> star]},
                 target.kind = "cidr6" => target.bits = 128
          PROVE  /\ \A p \in PatternsOf(target) : "fixed" \notin DOMAIN p
                 /\ PatternsOf(target) # {} /\ ~(target.kind = "cidr6" /\ target.bits < 128)
      <3>1. target.bits = 128 => ~(target.bits < 128)
        OBVIOUS
      <3> QED
        BY <2>2, <2>5, <3>1, Zenon
    <2> QED
      BY <1>2, <2>1, <2>4, <2>5
  <1> QED
    BY <1>1, <1>2

\* What Java bypasses of a list of targets are the addresses of its CIDRs.
LEMMA PatternsCover ==
    ASSUME NEW bypass, \A t \in Elements(bypass) : IsTarget(t), NEW a \in Address
    PROVE  LET cidrs    == {t \in Elements(bypass) : t.kind = "cidr4"}
               patterns == {p \in JavaNonProxyHosts(bypass) : "fixed" \in DOMAIN p}
           IN  (\E t \in cidrs : InPrefix(t, a)) <=> \E p \in patterns : Matches(p, a)
  <1>1. ASSUME NEW t \in Elements(bypass), t.kind = "cidr4"
        PROVE  InPrefix(t, a) <=> \E p \in PatternsOf(t) : Matches(p, a)
    <2>1. PICK addr \in Address, bits \in 0..32 : t = CIDR(addr, bits)
      BY <1>1, PatternShapes
    <2>2. PatternsOf(t) = JavaCIDRPatterns(t)
      BY <1>1, PatternShapes
    <2> QED
      BY <2>1, <2>2, JavaPatternsAreTheCIDR
  <1>2. \A p : p \in JavaNonProxyHosts(bypass) <=> \E t \in Elements(bypass) : p \in PatternsOf(t)
    BY DEF JavaNonProxyHosts
  <1>3. \A p : \A t \in Elements(bypass) :
            p \in PatternsOf(t) => ("fixed" \in DOMAIN p <=> t.kind = "cidr4")
    BY PatternShapes
  <1> QED
    BY <1>1, <1>2, <1>3, Zenon

-----------------------------------------------------------------------------
\* What the child will find, from the moment its environment is made.
EnvironmentInv ==
    /\ input \in Inputs
    /\ main = "building" => "ca" \in files
    /\ main \in {"spawning", "subscribing", "waiting"} => NamedFiles(environ) \subseteq files
    /\ SettingsAreKept
    /\ BypassReachesEveryClient

LEMMA EnvironmentMade ==
    ASSUME EnvironmentInv, BuildEnvironment
    PROVE  EnvironmentInv'
  <1> DEFINE built  == BuildChildEnvironment(input.base, input.bypass, input.keytool)
             bypass == MergeBypassTargets(input.base, input.bypass)
             own    == EnvironmentValue(input.base, "JAVA_TOOL_OPTIONS")
             flags  == EnvironmentValue(input.base, "GOFLAGS")
  <1>1. /\ input \in Inputs /\ UNCHANGED input /\ IsEnvironment(input.base) /\ IsCommandLine(input.bypass)
        /\ main' = "spawning" /\ notes' = BypassCompatibilityNotes(bypass)
    BY InputsAssumption DEF EnvironmentInv, BuildEnvironment
  <1>2. Elements(bypass) = Targets /\ (bypass = <<>> <=> Targets = {})
    BY <1>1, MergedTargets DEF Targets
  <1>3. /\ bypass # <<>> => \A name \in BypassNames : name \in DOMAIN built /\ built[name] = bypass
        /\ input.keytool => /\ "JAVA_TOOL_OPTIONS" \in DOMAIN built
                            /\ built["JAVA_TOOL_OPTIONS"] = JavaOptions(input.base, bypass)
        /\ ~input.keytool => EnvironmentValue(built, "JAVA_TOOL_OPTIONS") = own
        /\ EnvironmentValue(built, "GOFLAGS") = flags
        /\ \A name \in DOMAIN input.base \ Overridden :
              name \in DOMAIN built /\ (name # "JAVA_TOOL_OPTIONS" => built[name] = input.base[name])
    BY Built
  <1>4. /\ Extends(JavaOptions(input.base, bypass), own) /\ IsList(own) /\ IsList(flags)
        /\ bypass # <<>> => NonProxyHosts(bypass) \in Elements(JavaOptions(input.base, bypass))
        /\ ~Sets(input.base, "JAVA_TOOL_OPTIONS", <<"javax.net.ssl.trustStore", "truststore">>)
        /\ ~Sets(input.base, "GOFLAGS", <<"overlay", "overlay">>)
    BY <1>1, JavaOptionsExtend, ValuesAreLists DEF IsEnvironment
  <1>5. PICK failure \in OverlayFailures \cup {"none"} :
           LET done == AddGoTrustOverlay(built, input, failure)
           IN  /\ environ' = done.environment
               /\ files' = files \cup done.files \cup (IF input.keytool THEN {"truststore"} ELSE {})
    BY DEF BuildEnvironment
  <1> HIDE DEF bypass, built, own, flags
  <1>6. /\ "ca" \in files' /\ (input.keytool => "truststore" \in files')
        /\ \/ environ' = built
           \/ /\ {"go_roots", "overlay"} \subseteq files'
              /\ \A name : name \notin {"AUTOCURL_CA_FILE", "GOFLAGS"} =>
                   /\ name \in DOMAIN environ' <=> name \in DOMAIN built
                   /\ name \in DOMAIN built => environ'[name] = built[name]
              /\ "GOFLAGS" \in DOMAIN environ'
              /\ environ'["GOFLAGS"] = Append(flags, Option("overlay", "overlay"))
    <2> DEFINE done == AddGoTrustOverlay(built, input, failure)
    <2>1. \/ done.environment = built
          \/ /\ {"go_roots", "overlay"} \subseteq done.files
             /\ \A name : name \notin {"AUTOCURL_CA_FILE", "GOFLAGS"} =>
                  /\ name \in DOMAIN done.environment <=> name \in DOMAIN built
                  /\ name \in DOMAIN built => done.environment[name] = built[name]
             /\ "GOFLAGS" \in DOMAIN done.environment
             /\ done.environment["GOFLAGS"] = Append(flags, Option("overlay", "overlay"))
      BY <1>3, Overlaid
    <2>2. environ' = done.environment /\ done.files \subseteq files'
      BY <1>5
    <2>3. "ca" \in files' /\ (input.keytool => "truststore" \in files')
      BY <1>5 DEF EnvironmentInv, BuildEnvironment
    <2> HIDE DEF done
    <2> QED
      BY <2>1, <2>2, <2>3
  <1>7. \A name : name \notin {"AUTOCURL_CA_FILE", "GOFLAGS"} =>
           /\ name \in DOMAIN environ' <=> name \in DOMAIN built
           /\ name \in DOMAIN built => environ'[name] = built[name]
    BY <1>6
  <1>8. NamedFiles(environ') \subseteq files'
    <2>1. Sets(environ', "JAVA_TOOL_OPTIONS", <<"javax.net.ssl.trustStore", "truststore">>)
             => "truststore" \in files'
      <3>1. ~input.keytool => EnvironmentValue(environ', "JAVA_TOOL_OPTIONS") = own
        BY <1>3, <1>7 DEF EnvironmentValue
      <3> QED
        BY <1>4, <1>6, <3>1 DEF Sets, own
    <2>2. Sets(environ', "GOFLAGS", <<"overlay", "overlay">>) => {"go_roots", "overlay"} \subseteq files'
      <3>1. environ' = built => EnvironmentValue(environ', "GOFLAGS") = flags
        BY <1>3
      <3> QED
        BY <1>4, <1>6, <3>1 DEF Sets, flags
    <2> QED
      BY <1>6, <2>1, <2>2 DEF NamedFiles
  <1>9. SettingsAreKept'
    <2> SUFFICES ASSUME NEW name \in DOMAIN input.base \ Overridden
                 PROVE  name \in DOMAIN environ' /\ IsPrefix(input.base[name], environ'[name])
      BY <1>1 DEF SettingsAreKept
    <2>1. name \notin {"AUTOCURL_CA_FILE"} /\ IsList(input.base[name])
      BY <1>1 DEF Overridden, Flags, IsEnvironment
    <2>2. EnvironmentValue(input.base, name) = input.base[name]
      BY DEF EnvironmentValue
    <2>3. ASSUME environ'[name] = input.base[name]
          PROVE  Extends(environ'[name], input.base[name])
      BY <2>1, <2>3 DEF Extends, IsList
    <2>4. name \in DOMAIN environ' /\ Extends(environ'[name], input.base[name])
      <3>1. CASE name = "GOFLAGS"
        <4>1. flags = input.base[name]
          BY <2>2, <3>1 DEF flags
        <4>2. Extends(Append(flags, Option("overlay", "overlay")), flags)
          BY <1>4, AppendExtends
        <4> QED
          BY <1>3, <1>6, <2>3, <3>1, <4>1, <4>2
      <3>2. CASE name = "JAVA_TOOL_OPTIONS"
        <4>1. own = input.base[name] /\ name \in DOMAIN built /\ name \in DOMAIN environ'
          BY <1>3, <1>7, <2>2, <3>2 DEF own
        <4>2. environ'[name] = built[name]
          BY <1>7, <3>2, <4>1
        <4>3. CASE input.keytool
          BY <1>3, <1>4, <3>2, <4>1, <4>2, <4>3
        <4>4. CASE ~input.keytool
          <5>1. built[name] = own
            BY <1>3, <3>2, <4>1, <4>4 DEF EnvironmentValue
          <5> QED
            BY <2>3, <4>1, <4>2, <5>1
        <4> QED
          BY <4>3, <4>4
      <3>3. CASE name \notin {"GOFLAGS", "JAVA_TOOL_OPTIONS"}
        BY <1>3, <1>7, <2>1, <2>3, <3>3
      <3> QED
        BY <3>1, <3>2, <3>3
    <2> QED
      BY <2>1, <2>4, ExtendsIsPrefix
  <1>10. BypassReachesEveryClient'
    <2> SUFFICES ASSUME Targets # {}
        PROVE  /\ \A name \in BypassNames : Elements(environ'[name]) = Targets
               /\ notes'.java = {target \in Targets : PatternsOf(target) = {}}
               /\ notes'.clients = {target \in Targets : target.kind \in {"cidr4", "cidr6"}}
               /\ input.keytool => \E option \in Elements(environ'["JAVA_TOOL_OPTIONS"]) :
                    /\ option.name = "http.nonProxyHosts"
                    /\ LET cidrs    == {t \in Targets : t.kind = "cidr4"}
                           patterns == {p \in option.value : "fixed" \in DOMAIN p}
                       IN  \A a \in Addresses :
                               (\E t \in cidrs : InPrefix(t, a)) <=> \E p \in patterns : Matches(p, a)
      <3>1. input' = input /\ Targets' = Targets
        BY <1>1 DEF Targets
      <3> QED
        BY <3>1, Zenon DEF BypassReachesEveryClient
    <2>1. \A t \in Targets : IsTarget(t)
      BY <1>1 DEF Targets, IsEnvironment, IsCommandLine
    <2>2. \A name \in BypassNames : Elements(environ'[name]) = Targets
      <3>1. \A name \in BypassNames : name \notin {"AUTOCURL_CA_FILE", "GOFLAGS"}
        BY DEF BypassNames
      <3> QED
        BY <1>2, <1>3, <1>7, <3>1
    <2>3. /\ notes'.java = {target \in Targets : PatternsOf(target) = {}}
          /\ notes'.clients = {target \in Targets : target.kind \in {"cidr4", "cidr6"}}
      <3>1. \A t \in Targets : PatternsOf(t) = {} <=> t.kind = "cidr6" /\ t.bits < 128
        BY <2>1, PatternShapes
      <3> QED
        BY <1>1, <1>2, <3>1 DEF BypassCompatibilityNotes
    <2>4. ASSUME input.keytool
          PROVE  \E option \in Elements(environ'["JAVA_TOOL_OPTIONS"]) :
                    /\ option.name = "http.nonProxyHosts"
                    /\ LET cidrs    == {t \in Targets : t.kind = "cidr4"}
                           patterns == {p \in option.value : "fixed" \in DOMAIN p}
                       IN  \A a \in Addresses :
                               (\E t \in cidrs : InPrefix(t, a)) <=> \E p \in patterns : Matches(p, a)
      <3> DEFINE option == NonProxyHosts(bypass)
      <3>1. option \in Elements(environ'["JAVA_TOOL_OPTIONS"])
        BY <1>2, <1>3, <1>4, <1>7, <2>4
      <3>2. option.name = "http.nonProxyHosts" /\ option.value = JavaNonProxyHosts(bypass)
        BY DEF NonProxyHosts, Option
      <3>3. \A a \in Addresses : a \in Address
        BY RequestsAssumption
      <3>4. \A a \in Address :
               (\E t \in {t \in Targets : t.kind = "cidr4"} : InPrefix(t, a))
                  <=> \E p \in {p \in JavaNonProxyHosts(bypass) : "fixed" \in DOMAIN p} : Matches(p, a)
        BY <1>2, <2>1, PatternsCover
      <3> HIDE DEF option
      <3> QED
        BY <3>1, <3>2, <3>3, <3>4, Zenon
    <2> QED
      BY <2>2, <2>3, <2>4
  <1> QED
    BY <1>1, <1>8, <1>9, <1>10 DEF EnvironmentInv

LEMMA EnvironmentInvariant == Spec => []EnvironmentInv
  <1>1. Init => EnvironmentInv
    BY DEF Init, EnvironmentInv, SettingsAreKept, BypassReachesEveryClient
  <1>2. EnvironmentInv /\ [Next]_vars => EnvironmentInv'
    <2> SUFFICES ASSUME EnvironmentInv, [Next]_vars PROVE EnvironmentInv'
      OBVIOUS
    <2>1. CASE BuildEnvironment
      BY <2>1, EnvironmentMade
    <2>2. CASE ~BuildEnvironment
      <3>1. /\ UNCHANGED <<input, environ, notes>>
            /\ main' = "spawning" => main = "spawning"
            /\ main' \in {"spawning", "subscribing", "waiting"} =>
                 main \in {"spawning", "subscribing", "waiting"} /\ UNCHANGED files
            /\ main' = "building" => "ca" \in files' \/ (main = "building" /\ UNCHANGED files)
        <4>1. CASE ParseFlags
          BY <4>1, Zenon DEF ParseFlags, Exit, envVars
        <4>2. CASE StartSession
          BY <4>2 DEF StartSession, Exit, envVars
        <4>3. CASE Spawn
          BY <4>3 DEF Spawn, envVars, sessionVars
        <4>4. CASE Attend
          BY <4>4 DEF Attend, Subscribe, Reap, Shutdown, Drain, DrainDeadline, RemoveAll, Exit, envVars, sessionVars
        <4>5. CASE Forward \/ ChildEnds
          BY <4>5 DEF Forward, ChildEnds, envVars, sessionVars, mainVars
        <4>6. ASSUME NEW terminal \in BOOLEAN, Interrupt(terminal)
              PROVE  /\ UNCHANGED <<input, environ, notes, files>>
                     /\ UNCHANGED main \/ main' = "killed"
          BY <4>6 DEF Interrupt, envVars
        <4>7. ASSUME NEW r \in Requests, Handler(r)
              PROVE  UNCHANGED <<input, environ, notes, files, main>>
          BY <4>7 DEF Handler, Send, Answer, Emit, CopyText, OpenOutput, WriteOutput, PrintRow, EmitKeeps,
             envVars, sessionVars, mainVars
        <4>8. CASE UNCHANGED vars
          BY <4>8 DEF vars, envVars, sessionVars, mainVars
        <4> QED
          BY <2>2, <4>1, <4>2, <4>3, <4>4, <4>5, <4>6, <4>7, <4>8 DEF Next, Setup
      <3>3. SettingsAreKept'
        BY <3>1 DEF EnvironmentInv, SettingsAreKept
      <3>4. BypassReachesEveryClient'
        BY <3>1, Zenon DEF EnvironmentInv, BypassReachesEveryClient, Targets
      <3> QED
        BY <3>1, <3>3, <3>4 DEF EnvironmentInv
    <2> QED
      BY <2>1, <2>2
  <1> QED
    BY <1>1, <1>2, PTL DEF Spec


(* What is to be bypassed is bypassed by every runtime of the child: no     *)
(* target is lost in the merge, and Java's patterns mean the same addresses *)
(* (mergeBypassTargets, javaNonProxyHosts, bypassCompatibilityNotes).       *)
THEOREM EveryClientBypasses == Spec => []BypassReachesEveryClient
  <1>1. EnvironmentInv => BypassReachesEveryClient
    BY DEF EnvironmentInv
  <1> QED
    BY <1>1, EnvironmentInvariant, PTL

-----------------------------------------------------------------------------
(* The session around the child.                                            *)

Before == {"parsing", "starting", "building", "spawning"}
Listening   == {"building", "spawning", "subscribing", "waiting", "closing"}
Mains  == Before \cup Listening \cup {"draining", "removing", "exited", "killed"}
Stages == {"idle", "inflight", "answered", "reported"} \cup Emitting

\* The session around the child: the listener is open from its start to the
\* deferred Close, the child runs within that time, and no request without it.
SessionInv ==
    /\ main \in Mains
    /\ late \in BOOLEAN
    /\ request \in [Requests -> Stages]
    /\ serving <=> main \in Listening
    /\ main \in Before => child = "none"
    /\ child = "running" => main \in {"subscribing", "waiting", "killed"}
    /\ child = "none" => \A r \in Requests : request[r] = "idle"
    /\ main \in {"removing", "exited"} /\ ~late => Busy = {}

LEMMA SessionInvariant == Spec => []SessionInv
  <1> USE DEF Before, Listening, Mains, Stages, Emitting
  <1>1. Init => SessionInv
    BY DEF Init, SessionInv
  <1>2. SessionInv /\ [Next]_vars => SessionInv'
    <2> SUFFICES ASSUME SessionInv, [Next]_vars PROVE SessionInv'
      OBVIOUS
    <2>1. CASE ParseFlags \/ StartSession \/ BuildEnvironment
      <3>1. /\ main \in {"parsing", "starting", "building"} /\ UNCHANGED <<child, request, late>>
            /\ \/ main' = "exited" /\ main # "building" /\ UNCHANGED serving
               \/ main = "parsing" /\ main' = "starting" /\ UNCHANGED serving
               \/ main = "starting" /\ main' = "building" /\ serving' = TRUE
               \/ main = "building" /\ main' = "spawning" /\ UNCHANGED serving
        BY <2>1 DEF ParseFlags, StartSession, BuildEnvironment, Exit, sessionVars, childVars, emitVars
      <3>2. Busy' = {}
        BY <3>1 DEF SessionInv, Busy, Requests
      <3> QED
        BY <3>1, <3>2 DEF SessionInv
    <2>2. CASE Spawn
      BY <2>2 DEF Spawn, SessionInv, sessionVars, emitVars
    <2>3. CASE Attend
      <3>1. UNCHANGED <<child, request, Busy>>
        BY <2>3 DEF Attend, Subscribe, Reap, Shutdown, Drain, DrainDeadline, RemoveAll, childVars, emitVars, Busy
      <3>2. CASE Subscribe \/ Reap \/ Shutdown
        BY <3>1, <3>2 DEF Subscribe, Reap, Shutdown, SessionInv, sessionVars
      <3>3. CASE Drain
        BY <3>1, <3>3 DEF Drain, SessionInv, sessionVars
      <3>4. CASE DrainDeadline
        <4>1. main = "draining" /\ main' = "removing" /\ late' = TRUE /\ UNCHANGED serving
          BY <3>4 DEF DrainDeadline, sessionVars
        <4> QED
          BY <3>1, <4>1 DEF SessionInv
      <3>5. CASE RemoveAll
        BY <3>1, <3>5 DEF RemoveAll, Exit, SessionInv
      <3> QED
        BY <2>3, <3>2, <3>3, <3>4, <3>5 DEF Attend
    <2>4. CASE Forward
      BY <2>4 DEF Forward, SessionInv, mainVars, sessionVars, emitVars, Busy
    <2>5. CASE ChildEnds
      BY <2>5 DEF ChildEnds, SessionInv, mainVars, sessionVars, emitVars, Busy
    <2>6. ASSUME NEW terminal \in BOOLEAN, Interrupt(terminal) PROVE SessionInv'
      <3>1. /\ UNCHANGED <<child, request, late, Busy>>
            /\ UNCHANGED <<main, serving>> \/ (main' = "killed" /\ serving' = FALSE)
        BY <2>6 DEF Interrupt, emitVars, Busy
      <3> QED
        BY <3>1 DEF SessionInv
    <2>7. ASSUME NEW r \in Requests, Handler(r) PROVE SessionInv'
      <3>1. UNCHANGED <<main, serving, child, late>>
        BY <2>7 DEF Handler, Send, Answer, Emit, CopyText, OpenOutput, WriteOutput, PrintRow,
           EmitKeeps, mainVars, sessionVars, childVars
      <3>2. CASE Send(r)
        BY <3>1, <3>2 DEF Send, GoTo, SessionInv
      <3>3. CASE ~Send(r)
        <4>1. /\ request[r] \notin {"idle", "reported"}
              /\ \E stage \in Stages \ {"idle"} : request' = [request EXCEPT ![r] = stage]
          BY <2>7, <3>3 DEF Handler, Answer, Emit, CopyText, OpenOutput, WriteOutput, PrintRow, GoTo
        <4>2. Busy' \subseteq Busy
          BY <4>1 DEF Busy, SessionInv, Requests
        <4> QED
          BY <3>1, <4>1, <4>2 DEF SessionInv
      <3> QED
        BY <3>2, <3>3
    <2>8. CASE UNCHANGED vars
      BY <2>8 DEF SessionInv, vars, mainVars, sessionVars, childVars, emitVars, Busy
    <2> QED
      BY <2>1, <2>2, <2>3, <2>4, <2>5, <2>6, <2>7, <2>8 DEF Next, Setup
  <1> QED
    BY <1>1, <1>2, PTL DEF Spec

(* Whatever fails while the environment is made, the child finds a proxy    *)
(* that listens and the files it is told of for as long as it runs, and the *)
(* settings of the user (runCommand's defers, addGoTrustOverlay).           *)
THEOREM ChildCanRely == Spec => []EnvironmentIsSound
  <1>1. SessionInv /\ EnvironmentInv => EnvironmentIsSound
    BY DEF SessionInv, EnvironmentInv, EnvironmentIsSound, EnvironmentKeepsItsFiles, Listening
  <1> QED
    BY <1>1, SessionInvariant, EnvironmentInvariant, PTL

(* No request of the child on a connection of net/http goes unreported when *)
(* autocurl returns before the drain's deadline (Proxy.Close).              *)
THEOREM DrainWaits == Spec => []RowsPrecedeExit
  <1>1. SessionInv => RowsPrecedeExit
    BY DEF SessionInv, RowsPrecedeExit, Busy, Requests
  <1> QED
    BY <1>1, SessionInvariant, PTL

-----------------------------------------------------------------------------
(* The emitter.                                                             *)

\* Outside of the requests' handlers nothing of the emission moves.
LEMMA EmissionSteps ==
    ASSUME [Next]_vars
    PROVE  /\ UNCHANGED input
           /\ UNCHANGED emitVars \/ \E r \in Requests : Handler(r)
  <1>1. CASE Setup
    <2>1. CASE ParseFlags
      BY <2>1 DEF ParseFlags
    <2>2. CASE StartSession
      BY <2>2 DEF StartSession
    <2>3. CASE BuildEnvironment
      BY <2>3 DEF BuildEnvironment
    <2>4. CASE Spawn
      BY <2>4 DEF Spawn
    <2> QED
      BY <1>1, <2>1, <2>2, <2>3, <2>4 DEF Setup
  <1>2. CASE Attend
    BY <1>2 DEF Attend, Subscribe, Reap, Shutdown, Drain, DrainDeadline, RemoveAll
  <1>3. CASE Forward \/ ChildEnds \/ \E terminal \in BOOLEAN : Interrupt(terminal)
    BY <1>3 DEF Forward, ChildEnds, Interrupt
  <1>4. ASSUME NEW r \in Requests, Handler(r) PROVE UNCHANGED input
    BY <1>4 DEF Handler, Send, Answer, Emit, CopyText, OpenOutput, WriteOutput, PrintRow, EmitKeeps
  <1>5. CASE UNCHANGED vars
    BY <1>5 DEF vars, emitVars
  <1> QED
    BY <1>1, <1>2, <1>3, <1>4, <1>5 DEF Next

-----------------------------------------------------------------------------
Reports == [id : Nat, copied : BOOLEAN, written : BOOLEAN]

\* What an update of one field of one request's report leaves and sets.
LEMMA NumberUpdate ==
    ASSUME NEW f \in [Requests -> Reports], NEW r \in Requests, NEW n \in Nat,
           NEW g, g = [f EXCEPT ![r].id = n]
    PROVE  /\ g \in [Requests -> Reports] /\ \A q \in Requests : q # r => g[q] = f[q]
           /\ g[r].id = n /\ g[r].copied = f[r].copied /\ g[r].written = f[r].written
  <1> DEFINE a == [f[r] EXCEPT !.id = n]
  <1>1. f[r] \in Reports
    OBVIOUS
  <1>2. a \in Reports /\ a.id = n /\ a.copied = f[r].copied /\ a.written = f[r].written
    BY <1>1 DEF Reports
  <1>3. g = [f EXCEPT ![r] = a]
    BY Zenon
  <1> HIDE DEF a
  <1>4. g \in [Requests -> Reports] /\ g[r] = a /\ \A q \in Requests : q # r => g[q] = f[q]
    BY <1>2, <1>3
  <1> QED
    BY <1>2, <1>4

LEMMA FlagUpdate ==
    ASSUME NEW f \in [Requests -> Reports], NEW r \in Requests, NEW on \in BOOLEAN, NEW g
    PROVE  /\ g = [f EXCEPT ![r].copied = on] =>
                /\ g \in [Requests -> Reports] /\ \A q \in Requests : q # r => g[q] = f[q]
                /\ g[r].id = f[r].id /\ g[r].copied = on /\ g[r].written = f[r].written
           /\ g = [f EXCEPT ![r].written = on] =>
                /\ g \in [Requests -> Reports] /\ \A q \in Requests : q # r => g[q] = f[q]
                /\ g[r].id = f[r].id /\ g[r].copied = f[r].copied /\ g[r].written = on
  <1> DEFINE b == [f[r] EXCEPT !.copied = on]
             c == [f[r] EXCEPT !.written = on]
  <1>1. f[r] \in Reports
    OBVIOUS
  <1>2. /\ b \in Reports /\ b.id = f[r].id /\ b.copied = on /\ b.written = f[r].written
        /\ c \in Reports /\ c.id = f[r].id /\ c.copied = f[r].copied /\ c.written = on
    BY <1>1 DEF Reports
  <1>3. /\ [f EXCEPT ![r].copied = on] = [f EXCEPT ![r] = b]
        /\ [f EXCEPT ![r].written = on] = [f EXCEPT ![r] = c]
    BY Zenon
  <1> HIDE DEF b, c
  <1>4. \A x \in Reports : LET h == [f EXCEPT ![r] = x] IN
           h \in [Requests -> Reports] /\ h[r] = x /\ \A q \in Requests : q # r => h[q] = f[q]
    BY Zenon
  <1> QED
    BY <1>2, <1>3, <1>4

WithNumber == {r \in Requests : report[r].id > 0}
Quiet      == \A r \in Requests : request[r] \notin Emitting

\* One request at a time is with the emitter; it has the number its row will
\* have, and the rows are the requests numbered before it.
NumberInv ==
    /\ input \in Inputs
    /\ request \in [Requests -> Stages]
    /\ report \in [Requests -> Reports]
    /\ rows \in Seq(Requests)
    /\ \A q, r \in Requests : request[q] \in Emitting /\ request[r] \in Emitting => q = r
    /\ \A r \in Requests :
        /\ request[r] \in {"idle", "inflight", "answered"} => report[r] = NoReport
        /\ request[r] \in Emitting => report[r].id = Len(rows) + 1
    /\ \A i \in DOMAIN rows : request[rows[i]] = "reported" /\ report[rows[i]].id = i
    /\ IsFiniteSet(WithNumber)
    /\ Cardinality(WithNumber) = IF Quiet THEN Len(rows) ELSE Len(rows) + 1

LEMMA NumberInvariant == Spec => []NumberInv
  <1> USE DEF Stages, Emitting
  <1>1. Init => NumberInv
    <2> SUFFICES ASSUME Init PROVE NumberInv
      OBVIOUS
    <2>1. /\ input \in Inputs /\ request = [r \in Requests |-> "idle"] /\ report = [r \in Requests |-> NoReport]
          /\ rows = <<>>
      BY DEF Init
    <2>2. WithNumber = {}
      BY <2>1 DEF WithNumber, NoReport
    <2>3. IsFiniteSet(WithNumber) /\ Cardinality(WithNumber) = 0
      BY <2>2, FS_EmptySet
    <2>4. rows \in Seq(Requests) /\ Len(rows) = 0 /\ DOMAIN rows = {}
      BY <2>1
    <2>5. report \in [Requests -> Reports]
      BY <2>1 DEF Reports, NoReport
    <2> QED
      BY <2>1, <2>3, <2>4, <2>5 DEF NumberInv, Quiet
  <1>2. NumberInv /\ [Next]_vars => NumberInv'
    <2> SUFFICES ASSUME NumberInv, [Next]_vars PROVE NumberInv'
      OBVIOUS
    <2>0. /\ Len(rows) \in Nat /\ DOMAIN rows = 1..Len(rows) /\ \A i \in DOMAIN rows : rows[i] \in Requests
          /\ UNCHANGED input /\ input \in Inputs /\ input.copy \in BOOLEAN
      BY EmissionSteps, InputsAssumption DEF NumberInv
    <2>1. CASE UNCHANGED emitVars
      BY <2>0, <2>1 DEF NumberInv, emitVars, WithNumber, Quiet
    <2>2. ASSUME NEW r \in Requests, Send(r) \/ Answer(r) PROVE NumberInv'
      <3>1. /\ UNCHANGED <<report, rows, WithNumber>>
            /\ request[r] \in {"idle", "inflight"}
            /\ \E stage \in {"inflight", "answered"} : request' = [request EXCEPT ![r] = stage]
        BY <2>2 DEF Send, Answer, GoTo, WithNumber
      <3> QED
        BY <2>0, <3>1 DEF NumberInv, Quiet
    <2>3. ASSUME NEW r \in Requests, Emit(r) PROVE NumberInv'
      <3> DEFINE n == Cardinality(WithNumber)
      <3>1. /\ request[r] = "answered" /\ Quiet /\ UNCHANGED rows
            /\ request' = [request EXCEPT ![r] = "copy"]
            /\ report' = [report EXCEPT ![r].id = n + 1]
        BY <2>3 DEF Emit, GoTo, Numbered, Quiet, WithNumber
      <3>2. n = Len(rows) /\ IsFiniteSet(WithNumber) /\ report[r] = NoReport
        BY <3>1 DEF NumberInv
      <3>3. report' \in [Requests -> Reports] /\ report'[r].id = n + 1
               /\ \A q \in Requests : q # r => report'[q] = report[q]
        <4> DEFINE id == n + 1
        <4>1. /\ id \in Nat /\ report \in [Requests -> Reports]
              /\ report' = [report EXCEPT ![r].id = id]
          BY <2>0, <3>1, <3>2 DEF NumberInv
        <4> HIDE DEF id
        <4>2. report' \in [Requests -> Reports] /\ report'[r].id = id
               /\ \A q \in Requests : q # r => report'[q] = report[q]
          BY <4>1, NumberUpdate
        <4> QED
          BY <4>2 DEF id
      <3> HIDE DEF n
      <3>4. WithNumber' = WithNumber \cup {r}
        BY <2>0, <3>2, <3>3 DEF WithNumber
      <3>5. IsFiniteSet(WithNumber') /\ Cardinality(WithNumber') = Len(rows) + 1
        <4>1. r \notin WithNumber
          BY <3>2 DEF WithNumber, NoReport
        <4> QED
          BY <3>2, <3>4, <4>1, FS_AddElement DEF n
      <3>6. \A i \in DOMAIN rows : rows[i] # r
        BY <3>1 DEF NumberInv
      <3>7. ~Quiet'
        BY <3>1 DEF Quiet, NumberInv
      <3> QED
        BY <2>0, <3>1, <3>2, <3>3, <3>5, <3>6, <3>7 DEF NumberInv, Quiet
    <2>4. ASSUME NEW r \in Requests, CopyText(r) \/ OpenOutput(r) \/ WriteOutput(r)
          PROVE  NumberInv'
      <3>1. /\ request[r] \in Emitting /\ UNCHANGED rows
            /\ \E stage \in Emitting : request' = [request EXCEPT ![r] = stage]
        BY <2>4 DEF CopyText, OpenOutput, WriteOutput, GoTo
      <3>2. \/ UNCHANGED report
            \/ \E on \in BOOLEAN : \/ report' = [report EXCEPT ![r].copied = on]
                                   \/ report' = [report EXCEPT ![r].written = on]
        BY <2>0, <2>4 DEF CopyText, OpenOutput, WriteOutput
      <3>3. /\ report' \in [Requests -> Reports]
            /\ \A q \in Requests : report'[q].id = report[q].id
            /\ \A q \in Requests : q # r => report'[q] = report[q]
        <4>1. report \in [Requests -> Reports]
          BY DEF NumberInv
        <4>2. CASE UNCHANGED report
          BY <4>1, <4>2
        <4>3. ASSUME NEW on \in BOOLEAN,
                     \/ report' = [report EXCEPT ![r].copied = on]
                     \/ report' = [report EXCEPT ![r].written = on]
              PROVE  report' \in [Requests -> Reports] /\ report'[r].id = report[r].id
                       /\ \A q \in Requests : q # r => report'[q] = report[q]
          BY <4>1, <4>3, FlagUpdate
        <4> QED
          BY <3>2, <4>2, <4>3
      <3>4. WithNumber' = WithNumber
        BY <3>3 DEF WithNumber
      <3>5. ~Quiet'
        BY <3>1 DEF Quiet, NumberInv
      <3>6. ~Quiet
        BY <3>1 DEF Quiet
      <3>7. IsFiniteSet(WithNumber') /\ Cardinality(WithNumber') = Len(rows) + 1
        BY <3>4, <3>6 DEF NumberInv
      <3>8. /\ request' \in [Requests -> Stages]
            /\ \A q, p \in Requests : request'[q] \in Emitting /\ request'[p] \in Emitting => q = p
            /\ \A q \in Requests : request'[q] # request[q] => q = r
        BY <3>1 DEF NumberInv
      <3>9. \A q \in Requests :
              /\ request'[q] \in {"idle", "inflight", "answered"} => report'[q] = NoReport
              /\ request'[q] \in Emitting => report'[q].id = Len(rows) + 1
        BY <3>1, <3>3, <3>8 DEF NumberInv
      <3>10. \A i \in DOMAIN rows : request'[rows[i]] = "reported" /\ report'[rows[i]].id = i
        BY <2>0, <3>1, <3>3, <3>8 DEF NumberInv
      <3> QED
        BY <2>0, <3>1, <3>3, <3>5, <3>7, <3>8, <3>9, <3>10 DEF NumberInv
    <2>5. ASSUME NEW r \in Requests, PrintRow(r) PROVE NumberInv'
      <3>1. /\ request[r] = "print" /\ rows' = Append(rows, r)
            /\ request' = [request EXCEPT ![r] = "reported"] /\ UNCHANGED <<report, WithNumber>>
        BY <2>5 DEF PrintRow, GoTo, WithNumber
      <3>2. /\ rows' \in Seq(Requests) /\ Len(rows') = Len(rows) + 1
            /\ \A i \in 1..Len(rows) : rows'[i] = rows[i]
            /\ rows'[Len(rows) + 1] = r
        BY <3>1, AppendProperties DEF NumberInv
      <3>3. DOMAIN rows' = 1..Len(rows) + 1
        BY <2>0, <3>2
      <3>4. ~Quiet /\ Quiet'
        BY <3>1 DEF Quiet, NumberInv
      <3>5. \A i \in DOMAIN rows' : request'[rows'[i]] = "reported" /\ report[rows'[i]].id = i
        <4> SUFFICES ASSUME NEW i \in 1..Len(rows) + 1
                     PROVE  request'[rows'[i]] = "reported" /\ report[rows'[i]].id = i
          BY <3>3
        <4>1. CASE i = Len(rows) + 1
          BY <3>1, <3>2, <4>1 DEF NumberInv
        <4>2. CASE i # Len(rows) + 1
          <5>1. i \in DOMAIN rows /\ rows'[i] = rows[i]
            BY <2>0, <3>2, <4>2
          <5> QED
            BY <2>0, <3>1, <5>1 DEF NumberInv
        <4> QED
          BY <4>1, <4>2
      <3> QED
        BY <2>0, <3>1, <3>2, <3>4, <3>5 DEF NumberInv, Quiet
    <2> QED
      BY <2>1, <2>2, <2>3, <2>4, <2>5, EmissionSteps DEF Handler
  <1> QED
    BY <1>1, <1>2, PTL DEF Spec

LEMMA LatestOfOneMore ==
    ASSUME NEW n \in Nat, NEW S \in SUBSET (1..n)
    PROVE  Latest(S \cup {n + 1}) = n + 1
  <1> DEFINE T == S \cup {n + 1}
  <1>1. T # {} /\ n + 1 \in T /\ \A x \in T : x \in Nat /\ x <= n + 1
    OBVIOUS
  <1> HIDE DEF T
  <1>2. Max(T) \in T /\ \A y \in T : Max(T) >= y
    BY <1>1 DEF Max
  <1>3. Max(T) = n + 1
    BY <1>1, <1>2
  <1> QED
    BY <1>1, <1>3 DEF Latest, T

CopiedRows  == {i \in DOMAIN rows : report[rows[i]].copied}
WrittenRows == {i \in DOMAIN rows : report[rows[i]].written}

OutputFits ==
    \/ output = Latest(WrittenRows)
    \/ output = Empty /\ rows # <<>> /\ ~report[Last(rows)].written

\* How far the emitter has come with the request it holds, between the latest
\* of the rows and the one it will add.
LatestInv ==
    /\ Quiet => clipboard = Latest(CopiedRows) /\ OutputFits
    /\ \A r \in Requests :
        /\ request[r] \in {"copy", "open", "write"} => ~report[r].written
        /\ request[r] \in {"copy", "open"} => OutputFits
        /\ request[r] = "copy" => clipboard = Latest(CopiedRows)
        /\ request[r] \in {"open", "write", "print"} =>
              clipboard = IF report[r].copied THEN report[r].id ELSE Latest(CopiedRows)
        /\ request[r] = "print" =>
              IF report[r].written THEN output = report[r].id
              ELSE output \in {Empty, Latest(WrittenRows)}

\* What happens to a request without a row leaves the rows' reports alone.
LEMMA RowsKeep ==
    ASSUME NumberInv, NEW r \in Requests, request[r] # "reported", UNCHANGED rows,
           \A q \in Requests : q # r => report'[q] = report[q]
    PROVE  /\ CopiedRows' = CopiedRows /\ WrittenRows' = WrittenRows
           /\ UNCHANGED output => OutputFits' = OutputFits
  <1>1. \A i \in DOMAIN rows : rows[i] \in Requests /\ report'[rows[i]] = report[rows[i]]
    BY DEF NumberInv
  <1>2. CopiedRows' = CopiedRows /\ WrittenRows' = WrittenRows
    BY <1>1 DEF CopiedRows, WrittenRows
  <1>3. rows # <<>> => report'[Last(rows)] = report[Last(rows)]
    <2>1. rows # <<>> => Len(rows) \in DOMAIN rows
      BY DEF NumberInv
    <2> QED
      BY <1>1, <2>1 DEF Last
  <1> QED
    BY <1>2, <1>3 DEF OutputFits

LEMMA LatestInvariant == Spec => []LatestInv
  <1>1. Init => LatestInv
    BY DEF Init, LatestInv, CopiedRows, WrittenRows, OutputFits, Latest, Empty, Quiet, Emitting
  <1>2. NumberInv /\ NumberInv' /\ LatestInv /\ [Next]_vars => LatestInv'
    <2> SUFFICES ASSUME NumberInv, NumberInv', LatestInv, [Next]_vars PROVE LatestInv'
      OBVIOUS
    <2>0. input.copy \in BOOLEAN
      BY InputsAssumption DEF NumberInv
    <2>1. CASE UNCHANGED emitVars
      BY <2>1 DEF LatestInv, emitVars, Quiet, CopiedRows, WrittenRows, OutputFits
    <2>2. ASSUME NEW r \in Requests, Send(r) \/ Answer(r) PROVE LatestInv'
      <3>1. /\ UNCHANGED <<report, rows, clipboard, output>>
            /\ request[r] \in {"idle", "inflight"}
            /\ \E stage \in {"inflight", "answered"} : request' = [request EXCEPT ![r] = stage]
        BY <2>2 DEF Send, Answer, GoTo
      <3>2. UNCHANGED <<CopiedRows, WrittenRows, OutputFits>>
        BY <3>1 DEF CopiedRows, WrittenRows, OutputFits
      <3>3. Quiet' <=> Quiet
        BY <3>1 DEF Quiet, NumberInv, Emitting
      <3> QED
        BY <3>1, <3>2, <3>3 DEF LatestInv, NumberInv
    <2>3. ASSUME NEW r \in Requests, Emit(r) PROVE LatestInv'
      <3> DEFINE id == Cardinality(WithNumber) + 1
      <3>1. /\ request[r] = "answered" /\ Quiet /\ UNCHANGED <<rows, clipboard, output>>
            /\ request' = [request EXCEPT ![r] = "copy"]
            /\ report' = [report EXCEPT ![r].id = id]
        BY <2>3 DEF Emit, GoTo, Quiet, Numbered, WithNumber
      <3>2. report[r] = NoReport /\ report \in [Requests -> Reports] /\ id \in Nat
        BY <3>1 DEF NumberInv
      <3> HIDE DEF id
      <3>3. /\ \A q \in Requests : q # r => report'[q] = report[q]
            /\ ~report'[r].written
        BY <3>1, <3>2, NumberUpdate DEF NoReport
      <3>4. UNCHANGED <<CopiedRows, WrittenRows, OutputFits>>
        BY <3>1, <3>3, RowsKeep
      <3>5. request'[r] = "copy" /\ \A q \in Requests : q # r => request'[q] \notin Emitting
        BY <3>1 DEF NumberInv, Quiet
      <3>6. clipboard = Latest(CopiedRows) /\ OutputFits
        BY <3>1 DEF LatestInv
      <3> QED
        BY <3>1, <3>3, <3>4, <3>5, <3>6 DEF LatestInv, Quiet, Emitting
    <2>4. ASSUME NEW r \in Requests, CopyText(r) PROVE LatestInv'
      <3>1. PICK on \in BOOLEAN :
              /\ report' = [report EXCEPT ![r].copied = on]
              /\ clipboard' = IF on THEN report[r].id ELSE clipboard
        <4>1. \A on \in {FALSE, input.copy} : on \in BOOLEAN
          BY <2>0
        <4>2. \E on \in {FALSE, input.copy} :
                 /\ report' = [report EXCEPT ![r].copied = on]
                 /\ clipboard' = IF on THEN report[r].id ELSE clipboard
          BY <2>4, Zenon DEF CopyText
        <4> QED
          BY <4>1, <4>2, Zenon
      <3>2. /\ request[r] = "copy" /\ UNCHANGED <<rows, output>>
            /\ request' = [request EXCEPT ![r] = "open"]
        BY <2>4 DEF CopyText, GoTo
      <3>3. /\ \A q \in Requests : q # r => report'[q] = report[q]
            /\ report'[r].id = report[r].id /\ report'[r].copied = on
            /\ report'[r].written = report[r].written
        BY <3>1, FlagUpdate DEF NumberInv
      <3>4. UNCHANGED <<CopiedRows, WrittenRows, OutputFits>>
        BY <3>2, <3>3, RowsKeep
      <3>5. request'[r] = "open" /\ \A q \in Requests : q # r => request'[q] \notin Emitting
        BY <3>2 DEF NumberInv, Emitting
      <3>6. clipboard = Latest(CopiedRows) /\ OutputFits /\ ~report[r].written
        BY <3>2 DEF LatestInv
      <3>7. clipboard' = IF report'[r].copied THEN report'[r].id ELSE Latest(CopiedRows')
        BY <3>1, <3>3, <3>4, <3>6
      <3> QED
        BY <3>3, <3>4, <3>5, <3>6, <3>7 DEF LatestInv, Quiet, Emitting
    <2>5. ASSUME NEW r \in Requests, OpenOutput(r) PROVE LatestInv'
      <3>1. /\ request[r] = "open" /\ UNCHANGED <<report, rows, clipboard>>
            /\ \/ request' = [request EXCEPT ![r] = "print"] /\ UNCHANGED output
               \/ request' = [request EXCEPT ![r] = "write"] /\ output' = Empty
        BY <2>5 DEF OpenOutput, GoTo
      <3>2. UNCHANGED <<CopiedRows, WrittenRows>>
        BY <3>1 DEF CopiedRows, WrittenRows
      <3>3. /\ request'[r] \in {"print", "write"}
            /\ request'[r] = "print" => UNCHANGED output
            /\ \A q \in Requests : q # r => request'[q] \notin Emitting
        BY <3>1 DEF NumberInv, Emitting
      <3>4. /\ output \in {Empty, Latest(WrittenRows)} /\ ~report[r].written
            /\ clipboard = IF report[r].copied THEN report[r].id ELSE Latest(CopiedRows)
        BY <3>1 DEF LatestInv, OutputFits
      <3> QED
        BY <3>1, <3>2, <3>3, <3>4 DEF LatestInv, Quiet, Emitting
    <2>6. ASSUME NEW r \in Requests, WriteOutput(r) PROVE LatestInv'
      <3>1. PICK on \in BOOLEAN :
              /\ report' = [report EXCEPT ![r].written = on]
              /\ output' = IF on THEN report[r].id ELSE Empty
        BY <2>6 DEF WriteOutput
      <3>2. /\ request[r] = "write" /\ UNCHANGED <<rows, clipboard>>
            /\ request' = [request EXCEPT ![r] = "print"]
        BY <2>6 DEF WriteOutput, GoTo
      <3>3. /\ \A q \in Requests : q # r => report'[q] = report[q]
            /\ report'[r].id = report[r].id /\ report'[r].written = on
            /\ report'[r].copied = report[r].copied
        BY <3>1, FlagUpdate DEF NumberInv
      <3>4. UNCHANGED <<CopiedRows, WrittenRows>>
        BY <3>2, <3>3, RowsKeep
      <3>5. request'[r] = "print" /\ \A q \in Requests : q # r => request'[q] \notin Emitting
        BY <3>2 DEF NumberInv, Emitting
      <3>6. clipboard = IF report[r].copied THEN report[r].id ELSE Latest(CopiedRows)
        BY <3>2 DEF LatestInv
      <3>7. IF report'[r].written THEN output' = report'[r].id ELSE output' \in {Empty, Latest(WrittenRows')}
        BY <3>1, <3>3
      <3> QED
        BY <3>2, <3>3, <3>4, <3>5, <3>6, <3>7 DEF LatestInv, Quiet, Emitting
    <2>7. ASSUME NEW r \in Requests, PrintRow(r) PROVE LatestInv'
      <3> DEFINE n == Len(rows)
      <3>1. /\ request[r] = "print" /\ rows' = Append(rows, r) /\ UNCHANGED <<report, clipboard, output>>
            /\ request' = [request EXCEPT ![r] = "reported"]
        BY <2>7 DEF PrintRow, GoTo
      <3>2. /\ n \in Nat /\ DOMAIN rows = 1..n /\ Len(rows') = n + 1 /\ DOMAIN rows' = 1..n + 1
            /\ \A i \in 1..n : rows'[i] = rows[i]
            /\ rows'[n + 1] = r /\ rows' # <<>>
        BY <3>1, AppendProperties DEF NumberInv
      <3>3. report[r].id = n + 1
        BY <3>1 DEF NumberInv, Emitting
      <3>4. Quiet'
        BY <3>1 DEF NumberInv, Quiet, Emitting
      <3>5. clipboard = IF report[r].copied THEN n + 1 ELSE Latest(CopiedRows)
        BY <3>1, <3>3 DEF LatestInv
      <3>6. IF report[r].written THEN output = n + 1 ELSE output \in {Empty, Latest(WrittenRows)}
        BY <3>1, <3>3 DEF LatestInv
      <3>7. Last(rows') = r
        BY <3>2 DEF Last
      <3> HIDE DEF n
      <3>8. /\ CopiedRows' = CopiedRows \cup (IF report[r].copied THEN {n + 1} ELSE {})
            /\ WrittenRows' = WrittenRows \cup (IF report[r].written THEN {n + 1} ELSE {})
            /\ CopiedRows \in SUBSET (1..n) /\ WrittenRows \in SUBSET (1..n)
        BY <3>1, <3>2 DEF CopiedRows, WrittenRows
      <3>9. clipboard' = Latest(CopiedRows')
        BY <3>1, <3>2, <3>5, <3>8, LatestOfOneMore
      <3>10. OutputFits'
        BY <3>1, <3>2, <3>6, <3>7, <3>8, LatestOfOneMore DEF OutputFits
      <3> QED
        BY <3>4, <3>9, <3>10 DEF LatestInv, Quiet, Emitting
    <2> QED
      BY <2>1, <2>2, <2>3, <2>4, <2>5, <2>6, <2>7, EmissionSteps DEF Handler
  <1> QED
    BY <1>1, <1>2, NumberInvariant, PTL DEF Spec

(* Between two reports the rows are numbered in their order, and clipboard  *)
(* and file hold the latest that was copied or written, however many        *)
(* requests finish together and whichever copies and writes fail            *)
(* (emitter.Emit).                                                          *)
THEOREM LatestIsKept == Spec => []OutputIsLatest
  <1>1. NumberInv /\ LatestInv => OutputIsLatest
    BY DEF NumberInv, LatestInv, OutputIsLatest, OutputFits, Quiet, CopiedRows, WrittenRows
  <1> QED
    BY <1>1, NumberInvariant, LatestInvariant, PTL

-----------------------------------------------------------------------------
(* Signals and the return: what FirstSignalArrives and RunReturns rest on   *)
(* but for fairness.                                                        *)

\* The forwarder is there exactly while runCommand waits for a child.
SignalInv ==
    /\ told \in Nat /\ signals \in Nat
    /\ forwarder \in {"off", "listening", "done"}
    /\ forwarder # "off" <=> main = "waiting"
    /\ main \in {"subscribing", "waiting"} => child # "none"
    /\ child \in {"none", "running", "ended"}

LEMMA SignalInvariant == Spec => []SignalInv
  <1>1. Init => SignalInv
    BY DEF Init, SignalInv
  <1>2. SignalInv /\ [Next]_vars => SignalInv'
    <2> SUFFICES ASSUME SignalInv, [Next]_vars PROVE SignalInv'
      OBVIOUS
    <2>1. CASE ParseFlags \/ StartSession \/ BuildEnvironment
      <3>1. /\ main \in {"parsing", "starting", "building"} /\ UNCHANGED <<childVars, signalVars>>
            /\ main' \in {"exited", "starting", "building", "spawning"}
        BY <2>1 DEF ParseFlags, StartSession, BuildEnvironment, Exit
      <3> QED
        BY <3>1 DEF SignalInv, childVars, signalVars
    <2>2. CASE Spawn
      BY <2>2 DEF Spawn, SignalInv, signalVars
    <2>3. CASE Attend
      <3>1. UNCHANGED <<child, told, signals>>
        BY <2>3 DEF Attend, Subscribe, Reap, Shutdown, Drain, DrainDeadline, RemoveAll, childVars, signalVars
      <3>2. \/ main = "subscribing" /\ main' = "waiting" /\ forwarder' = "listening"
            \/ main = "waiting" /\ main' = "closing" /\ forwarder' = "off"
            \/ /\ main \in {"closing", "draining", "removing"} /\ UNCHANGED forwarder
               /\ main' \in {"draining", "removing", "exited"}
        BY <2>3 DEF Attend, Subscribe, Reap, Shutdown, Drain, DrainDeadline, RemoveAll, signalVars, Exit
      <3> QED
        BY <3>1, <3>2 DEF SignalInv
    <2>4. CASE Forward
      BY <2>4 DEF Forward, SignalInv, mainVars
    <2>5. CASE ChildEnds
      BY <2>5 DEF ChildEnds, SignalInv, mainVars, signalVars
    <2>6. ASSUME NEW terminal \in BOOLEAN, Interrupt(terminal) PROVE SignalInv'
      <3>1. told' \in Nat /\ UNCHANGED <<child, forwarder>>
        BY <2>6 DEF Interrupt, SignalInv
      <3>2. \/ forwarder = "off" /\ main' = "killed" /\ UNCHANGED signals
            \/ UNCHANGED main /\ signals' \in Nat
        BY <2>6 DEF Interrupt, SignalInv
      <3> QED
        BY <3>1, <3>2 DEF SignalInv
    <2>7. CASE (\E r \in Requests : Handler(r)) \/ UNCHANGED vars
      <3>1. UNCHANGED <<main, childVars, signalVars>>
        BY <2>7 DEF Handler, Send, Answer, Emit, CopyText, OpenOutput, WriteOutput, PrintRow,
           EmitKeeps, mainVars, vars
      <3> QED
        BY <3>1 DEF SignalInv, childVars, signalVars
    <2> QED
      BY <2>1, <2>2, <2>3, <2>4, <2>5, <2>6, <2>7 DEF Next, Setup
  <1> QED
    BY <1>1, <1>2, PTL DEF Spec

\* A signal in the channel of a forwarder that listens stays there, and the
\* forwarder goes on listening, until the child has a signal or is gone: the
\* channel drops only further ones, and runCommand stops the forwarder only
\* after Wait (the forwarder and the defers of runCommand).
SignalIsHeld ==
    [][forwarder = "listening" /\ signals > 0 =>
           \/ forwarder' = "listening" /\ signals' > 0
           \/ told' > 0 \/ child' = "ended"]_vars

(* The first signal of a waiting autocurl is not lost (safety of            *)
(* FirstSignalArrives; that the forwarder is scheduled is left to TLC).     *)
THEOREM SignalIsNotLost == Spec => SignalIsHeld
  <1> DEFINE Held == forwarder = "listening" /\ signals > 0 =>
                         \/ forwarder' = "listening" /\ signals' > 0
                         \/ told' > 0 \/ child' = "ended"
  <1>1. SignalInv /\ [Next]_vars => [Held]_vars
    <2> SUFFICES ASSUME SignalInv, Next, forwarder = "listening", signals > 0 PROVE Held
      OBVIOUS
    <2>0. main = "waiting" /\ child \in {"running", "ended"} /\ told \in Nat /\ signals \in Nat
      BY DEF SignalInv
    <2>1. CASE Setup
      BY <2>0, <2>1 DEF Setup, ParseFlags, StartSession, BuildEnvironment, Spawn
    <2>2. CASE Attend
      <3>1. child = "ended" /\ UNCHANGED child
        BY <2>0, <2>2 DEF Attend, Subscribe, Reap, Shutdown, Drain, DrainDeadline, RemoveAll, childVars
      <3> QED
        BY <3>1
    <2>3. CASE Forward
      BY <2>0, <2>3 DEF Forward
    <2>4. CASE ChildEnds
      BY <2>4 DEF ChildEnds
    <2>5. ASSUME NEW terminal \in BOOLEAN, Interrupt(terminal) PROVE Held
      BY <2>0, <2>5 DEF Interrupt
    <2>6. CASE \E r \in Requests : Handler(r)
      <3>1. UNCHANGED <<signals, forwarder>>
        BY <2>6 DEF Handler, Send, Answer, Emit, CopyText, OpenOutput, WriteOutput, PrintRow,
           EmitKeeps, signalVars
      <3> QED
        BY <3>1
    <2> QED
      BY <2>1, <2>2, <2>3, <2>4, <2>5, <2>6 DEF Next
  <1> QED
    BY <1>1, SignalInvariant, PTL DEF Spec, SignalIsHeld

\* Steps runCommand has to take to its return, once it has a child.
Left == CASE main = "subscribing" -> 5 [] main = "waiting" -> 4 [] main = "closing" -> 3
          [] main = "draining" -> 2 [] main = "removing" -> 1 [] OTHER -> 0

\* Once the child has ended every step of runCommand brings it nearer to its
\* return, nothing takes it back, no handler's row is waited for beyond the
\* deadline, and until it has returned there is a step to take.
ReturnDrawsNear ==
    [][child = "ended" =>
           /\ child' = "ended" /\ Left' <= Left
           /\ Attend => Left' < Left
           /\ Alive => Left > 0]_vars

(* Whatever the handlers and the signals do, autocurl is at most five steps *)
(* from its return when its child ends (safety of RunReturns).              *)
THEOREM ReturnIsNear == Spec => ReturnDrawsNear
  <1> DEFINE Near == child = "ended" => /\ child' = "ended" /\ Left' <= Left
                                        /\ Attend => Left' < Left
                                        /\ Alive => Left > 0
  <1>1. SessionInv /\ SignalInv /\ [Next]_vars => [Near]_vars
    <2> SUFFICES ASSUME SessionInv, SignalInv, Next, child = "ended" PROVE Near
      OBVIOUS
    <2>0. main \in {"subscribing", "waiting", "closing", "draining", "removing", "exited", "killed"}
      BY DEF SessionInv, Before, Mains, Listening
    <2>1. Left \in Nat /\ (Alive => Left > 0)
      BY <2>0 DEF Left, Alive
    <2>2. CASE Attend
      <3>1. UNCHANGED child
        BY <2>2 DEF Attend, Subscribe, Reap, Shutdown, Drain, DrainDeadline, RemoveAll, childVars
      <3>2. \/ main = "subscribing" /\ main' = "waiting"
            \/ main = "waiting" /\ main' = "closing"
            \/ main = "closing" /\ main' = "draining"
            \/ main = "draining" /\ main' = "removing"
            \/ main = "removing" /\ main' = "exited"
        BY <2>2 DEF Attend, Subscribe, Reap, Shutdown, Drain, DrainDeadline, RemoveAll, Exit
      <3>3. Left' < Left /\ Left' <= Left
        BY <3>2 DEF Left
      <3> QED
        BY <2>1, <3>1, <3>3
    <2>3. CASE ~Attend
      <3>1. UNCHANGED child /\ main' \in {main, "killed"}
        BY <2>0, <2>3 DEF Next, Setup, ParseFlags, StartSession, BuildEnvironment, Spawn, Forward,
           ChildEnds, Interrupt, Handler, Send, Answer, Emit, CopyText, OpenOutput, WriteOutput, PrintRow,
           EmitKeeps, mainVars, childVars
      <3>2. Left' \in {Left, 0}
        BY <3>1 DEF Left
      <3> QED
        BY <2>1, <2>3, <3>1, <3>2
    <2> QED
      BY <2>2, <2>3
  <1> QED
    BY <1>1, SessionInvariant, SignalInvariant, PTL DEF Spec, ReturnDrawsNear

-----------------------------------------------------------------------------
(* `run` keeps the promise of an engine: EngineContract.                    *)

\* The child knows the address.
ToldAddress == child # "none"

Progress ==
    CASE main \in {"parsing", "starting"}   -> "fresh"
      [] main \in {"draining", "removing"}  -> "stopping"
      [] main = "exited"                    -> "returned"
      [] main = "killed"                    -> "cut"
      [] OTHER                              -> "up"

Contract == INSTANCE EngineContract WITH
    files <- files # {}, accepting <- serving, announced <- ToldAddress, process <- Progress

\* Files by the stage of runCommand.
FilesFollowMain ==
    /\ serving \in BOOLEAN
    /\ main \in Listening \cup {"draining", "removing"} => files # {}
    /\ main \in {"parsing", "starting", "exited"} => files = {}

LEMMA FilesInvariant == Spec => []FilesFollowMain
  <1> USE DEF Listening
  <1>1. Init => FilesFollowMain
    BY DEF Init, FilesFollowMain
  <1>2. SessionInv /\ FilesFollowMain /\ [Next]_vars => FilesFollowMain'
    <2> SUFFICES ASSUME SessionInv, FilesFollowMain, [Next]_vars PROVE FilesFollowMain'
      OBVIOUS
    <2>1. CASE ParseFlags \/ StartSession
      BY <2>1 DEF ParseFlags, StartSession, Exit, sessionVars, FilesFollowMain
    <2>2. CASE BuildEnvironment
      <3>1. files \subseteq files' /\ main = "building" /\ main' = "spawning" /\ UNCHANGED serving
        BY <2>2 DEF BuildEnvironment
      <3> QED
        BY <3>1 DEF FilesFollowMain
    <2>3. CASE Spawn
      BY <2>3 DEF Spawn, sessionVars, FilesFollowMain
    <2>4. CASE Attend
      BY <2>4 DEF Attend, Subscribe, Reap, Shutdown, Drain, DrainDeadline, RemoveAll, Exit, sessionVars,
         FilesFollowMain
    <2>5. ASSUME NEW terminal \in BOOLEAN, Interrupt(terminal) PROVE FilesFollowMain'
      BY <2>5 DEF Interrupt, FilesFollowMain
    <2>6. CASE Forward \/ ChildEnds \/ (\E r \in Requests : Handler(r)) \/ UNCHANGED vars
      <3>1. UNCHANGED <<main, serving, files>>
        BY <2>6 DEF Forward, ChildEnds, Handler, Send, Answer, Emit, CopyText, OpenOutput, WriteOutput,
           PrintRow, EmitKeeps, mainVars, sessionVars, vars
      <3> QED
        BY <3>1 DEF FilesFollowMain
    <2> QED
      BY <2>1, <2>2, <2>3, <2>4, <2>5, <2>6 DEF Next, Setup
  <1> QED
    BY <1>1, <1>2, SessionInvariant, PTL DEF Spec

(***************************************************************************)
(* `autocurl run` promises its child what `autocurl proxy` promises an     *)
(* IDE: whatever fails and whenever it is killed, the files are there from *)
(* before the first connection until the last can be made, the child has   *)
(* an address that accepts, and a run that returns leaves no file.         *)
(***************************************************************************)
THEOREM RunKeepsContract == Spec => Contract!Spec
  <1>1. Init => Contract!Init
    BY DEF Init, Contract!Init, ToldAddress, Progress
  <1>2. SessionInv /\ FilesFollowMain /\ [Next]_vars => [Contract!Next]_(Contract!vars)
    <2> SUFFICES ASSUME SessionInv, FilesFollowMain, [Next]_vars
                 PROVE  Contract!Next \/ UNCHANGED Contract!vars
      OBVIOUS
    <2> USE DEF ToldAddress, Progress
    <2>1. CASE ParseFlags
      <3>1. main = "parsing" /\ main' \in {"exited", "starting"} /\ UNCHANGED <<files, serving, child>>
        BY <2>1 DEF ParseFlags, Exit, sessionVars, childVars
      <3> QED
        BY <3>1 DEF Contract!Return, Contract!Next, Contract!vars
    <2>2. CASE StartSession
      <3>0. ~serving /\ files = {} /\ UNCHANGED child /\ main = "starting"
        BY <2>2 DEF StartSession, SessionInv, FilesFollowMain, Listening, childVars
      <3>1. CASE main' = "exited" /\ UNCHANGED <<files, serving>>
        BY <3>0, <3>1 DEF Contract!Return, Contract!Next
      <3>2. CASE main' = "building" /\ files' = {"ca"} /\ serving' = TRUE
        BY <3>0, <3>2 DEF Contract!Prepare, Contract!Next
      <3> QED
        BY <2>2, <3>1, <3>2 DEF StartSession, Exit, sessionVars
    <2>3. CASE BuildEnvironment
      <3>1. /\ files \subseteq files' /\ main = "building" /\ main' = "spawning"
            /\ UNCHANGED <<serving, child>>
        BY <2>3 DEF BuildEnvironment, childVars
      <3>2. files # {}
        BY <3>1 DEF FilesFollowMain, Listening
      <3>3. files' # {}
        BY <3>1, <3>2
      <3> QED
        BY <3>1, <3>2, <3>3 DEF Contract!vars
    <2>4. CASE Spawn
      <3>1. /\ main = "spawning" /\ child = "none" /\ UNCHANGED <<files, serving>> /\ serving
            /\ \/ child' = "running" /\ main' = "subscribing"
               \/ child' = "none" /\ main' = "closing"
        BY <2>4 DEF Spawn, SessionInv, Before, Listening, sessionVars
      <3> QED
        BY <3>1 DEF Contract!Tell, Contract!Next, Contract!vars
    <2>5. CASE Attend
      <3>0. UNCHANGED child
        BY <2>5 DEF Attend, Subscribe, Reap, Shutdown, Drain, DrainDeadline, RemoveAll, childVars
      <3>1. CASE Subscribe \/ Reap \/ Drain \/ DrainDeadline
        BY <3>0, <3>1 DEF Subscribe, Reap, Drain, DrainDeadline, sessionVars, Contract!vars
      <3>2. CASE Shutdown
        <4>1. main = "closing" /\ main' = "draining" /\ serving /\ serving' = FALSE /\ UNCHANGED files
          BY <3>2 DEF Shutdown, SessionInv, Listening
        <4> QED
          BY <3>0, <4>1 DEF Contract!Close, Contract!Next
      <3>3. CASE RemoveAll
        <4>1. main = "removing" /\ main' = "exited" /\ files' = {} /\ UNCHANGED serving
          BY <3>3 DEF RemoveAll, Exit
        <4> QED
          BY <3>0, <4>1 DEF Contract!Clean, Contract!Next
      <3> QED
        BY <2>5, <3>1, <3>2, <3>3 DEF Attend
    <2>6. ASSUME NEW terminal \in BOOLEAN, Interrupt(terminal) PROVE Contract!Next \/ UNCHANGED Contract!vars
      <3>0. UNCHANGED <<child, files>> /\ main \notin {"exited", "killed"}
        BY <2>6 DEF Interrupt, Alive
      <3>1. CASE main' = "killed" /\ serving' = FALSE
        BY <3>0, <3>1 DEF Contract!Cut, Contract!Next
      <3>2. CASE UNCHANGED <<main, serving>>
        BY <3>0, <3>2 DEF Contract!vars
      <3> QED
        BY <2>6, <3>1, <3>2 DEF Interrupt
    <2>7. CASE ChildEnds
      BY <2>7 DEF ChildEnds, mainVars, sessionVars, Contract!vars
    <2>8. CASE Forward \/ (\E r \in Requests : Handler(r)) \/ UNCHANGED vars
      <3>1. UNCHANGED <<main, serving, files, child>>
        BY <2>8 DEF Forward, Handler, Send, Answer, Emit, CopyText, OpenOutput, WriteOutput,
           PrintRow, EmitKeeps, mainVars, sessionVars, childVars, vars
      <3> QED
        BY <3>1 DEF Contract!vars
    <2> QED
      BY <2>1, <2>2, <2>3, <2>4, <2>5, <2>6, <2>7, <2>8 DEF Next, Setup
  <1> QED
    BY <1>1, <1>2, SessionInvariant, FilesInvariant, PTL DEF Spec, Contract!Spec
===============================================================================
