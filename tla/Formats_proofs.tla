--------------------------- MODULE Formats_proofs ---------------------------
(***************************************************************************)
(* Proofs about what the texts in the tables mean.                         *)
(*                                                                         *)
(* Networks: two identifiers are equivalent exactly if they name one       *)
(* chain.                                                                  *)
(*                                                                         *)
(* Amounts: for every amount and every number of decimals the text that    *)
(* the database makes of a transfer's minor units equals that of           *)
(* toMinorUnits exactly if the two are worth the same.  Both texts come    *)
(* from recursive functions.  What they compute is proved                  *)
(* by induction over sets of numbers, or of texts, rather than predicates: *)
(* the provers cannot instantiate an operator parameter, but they can a    *)
(* set.                                                                    *)
(***************************************************************************)
EXTENDS Networks, Amounts, SequenceTheorems, WellFoundedInduction, TLAPS

-----------------------------------------------------------------------------
(* Network identifiers.                                                    *)

\* Normalising yields an identifier, changes nothing twice, and keeps the chain.
LEMMA NormalizeFacts ==
  ASSUME NEW C, NEW n \in NetworkIds(C)
  PROVE  /\ NormalizeNetworkId(n) \in NetworkIds(C)
         /\ NormalizeNetworkId(NormalizeNetworkId(n)) = NormalizeNetworkId(n)
         /\ CanonicalChainId(NormalizeNetworkId(n)) = CanonicalChainId(n)
BY DEF NetworkIds, NormalizeNetworkId, CanonicalChainId, Schemes, Forms, KnownChains

\* Two normalised identifiers have one canonical name if they are the same, or the two
\* names of a known chain.
LEMMA NamesOfChain ==
  ASSUME NEW C, NEW a \in NetworkIds(C), NEW b \in NetworkIds(C),
         NormalizeNetworkId(a) = a, NormalizeNetworkId(b) = b
  PROVE  CanonicalChainId(a) = CanonicalChainId(b) <=>
           b = a \/ (b = Twin(a) /\ a.scheme # "other" /\ a.chain \in KnownChains)
<1> DEFINE Named(n) == n.scheme # "other" /\ n.chain \in KnownChains
           Ccd(n) == [scheme |-> "ccd", chain |-> n.chain, form |-> "plain"]
<1>1. \A n \in {a, b} : /\ n = [scheme |-> n.scheme, chain |-> n.chain, form |-> n.form]
                        /\ n.scheme \in Schemes
  BY DEF NetworkIds
<1>2. \A n \in {a, b} : CanonicalChainId(n) = IF Named(n) THEN Ccd(n) ELSE n
  <2>1. ASSUME NEW n \in {a, b}, Named(n) PROVE CanonicalChainId(n) = Ccd(n)
    <3>1. CanonicalChainId(n) = [n EXCEPT !.scheme = "ccd", !.form = "plain"]
      BY <2>1 DEF CanonicalChainId
    <3> QED BY <1>1, <3>1
  <2>2. ASSUME NEW n \in {a, b}, ~Named(n) PROVE CanonicalChainId(n) = n
    BY <2>2 DEF CanonicalChainId
  <2> QED BY <2>1, <2>2
<1>3. \A n \in {a, b} : Named(n) => n.form = "plain"
  BY <1>1 DEF NormalizeNetworkId, Schemes, KnownChains
<1>4. \A n \in {a, b} : Named(n) =>
        Twin(n) = [scheme |-> IF n.scheme = "ccd" THEN "concordium" ELSE "ccd",
                   chain |-> n.chain, form |-> "plain"]
  BY <1>1, <1>3 DEF Twin
<1>5. CASE Named(a) /\ Named(b)
  <2>1. CanonicalChainId(a) = CanonicalChainId(b) <=> a.chain = b.chain
    BY <1>2, <1>5
  <2>2. a.chain = b.chain => b = a \/ b = Twin(a)
    BY <1>1, <1>3, <1>4, <1>5 DEF Schemes
  <2>3. b = Twin(a) => a.chain = b.chain
    BY <1>4, <1>5
  <2> QED BY <1>5, <2>1, <2>2, <2>3
<1>6. CASE ~Named(a) /\ ~Named(b)
  BY <1>2, <1>6
<1>7. CASE Named(a) /\ ~Named(b)
  <2>1. b # a /\ b # Ccd(a)
    BY <1>7
  <2>2. b # Twin(a)
    BY <1>4, <1>7 DEF Schemes
  <2> QED BY <1>2, <1>7, <2>1, <2>2
<1>8. CASE ~Named(a) /\ Named(b)
  <2>1. b # a /\ a # Ccd(b)
    BY <1>8
  <2> QED BY <1>2, <1>8, <2>1
<1> QED BY <1>5, <1>6, <1>7, <1>8

\* The candidates of an identifier are the two names of its chain: networksEquivalent
\* holds exactly for the identifiers with one canonical name, so that it is an
\* equivalence, though the code computes it from the left identifier only.
THEOREM Equivalence ==
  ASSUME NEW C, NEW m \in NetworkIds(C), NEW n \in NetworkIds(C)
  PROVE  NetworksEquivalent(m, n) <=> CanonicalChainId(m) = CanonicalChainId(n)
<1> DEFINE a == NormalizeNetworkId(m)
           b == NormalizeNetworkId(n)
<1>1. a \in NetworkIds(C) /\ b \in NetworkIds(C)
  BY NormalizeFacts
<1>2. /\ CanonicalChainId(m) = CanonicalChainId(a)
      /\ CanonicalChainId(n) = CanonicalChainId(b)
      /\ NormalizeNetworkId(a) = a /\ NormalizeNetworkId(b) = b
  BY NormalizeFacts
<1>3. NetworksEquivalent(m, n) <=>
        b = a \/ (b = Twin(a) /\ a.scheme # "other" /\ a.chain \in KnownChains)
  BY DEF NetworksEquivalent, NetworkCandidates
<1>4. CanonicalChainId(a) = CanonicalChainId(b) <=>
        b = a \/ (b = Twin(a) /\ a.scheme # "other" /\ a.chain \in KnownChains)
  BY <1>1, <1>2, NamesOfChain
<1> QED BY <1>2, <1>3, <1>4

\* The names under which the tables are searched for a network are in normal form, and
\* they are all the normal names of its chain.
LEMMA CandidatesFacts ==
  ASSUME NEW C, NEW m \in NetworkIds(C)
  PROVE  /\ \A n \in NetworkCandidates(m) : n \in NetworkIds(C) /\ NormalizeNetworkId(n) = n
         /\ \A n \in NetworkIds(C) :
              NormalizeNetworkId(n) = n =>
                (n \in NetworkCandidates(m) <=> CanonicalChainId(n) = CanonicalChainId(m))
         /\ NetworkCandidates(NormalizeNetworkId(m)) = NetworkCandidates(m)
<1> DEFINE a == NormalizeNetworkId(m)
<1>1. a \in NetworkIds(C) /\ NormalizeNetworkId(a) = a
  BY NormalizeFacts
<1>2. ASSUME NEW n \in NetworkCandidates(m)
      PROVE  n \in NetworkIds(C) /\ NormalizeNetworkId(n) = n
  <2>1. n = a \/ (n = Twin(a) /\ a.scheme # "other" /\ a.chain \in KnownChains)
    BY DEF NetworkCandidates
  <2>2. CASE n = Twin(a) /\ a.scheme # "other" /\ a.chain \in KnownChains
    <3>1. /\ a = [scheme |-> a.scheme, chain |-> a.chain, form |-> a.form]
          /\ a.scheme \in Schemes
      BY <1>1 DEF NetworkIds
    <3>2. a.form = "plain"
      BY <1>1, <2>2, <3>1 DEF NormalizeNetworkId, Schemes, KnownChains
    <3>3. n = [scheme |-> IF a.scheme = "ccd" THEN "concordium" ELSE "ccd",
               chain |-> a.chain, form |-> "plain"]
      BY <2>2, <3>1, <3>2 DEF Twin
    <3>4. n \in NetworkIds(C)
      BY <1>1, <3>3 DEF NetworkIds, Schemes, Forms
    <3>5. NormalizeNetworkId(n) = n
      BY <3>3 DEF NormalizeNetworkId
    <3> QED BY <3>4, <3>5
  <2> QED BY <1>1, <2>1, <2>2
<1>3. ASSUME NEW n \in NetworkIds(C), NormalizeNetworkId(n) = n
      PROVE  n \in NetworkCandidates(m) <=> CanonicalChainId(n) = CanonicalChainId(m)
  <2>1. NetworksEquivalent(m, n) <=> CanonicalChainId(m) = CanonicalChainId(n)
    BY Equivalence
  <2> QED BY <1>3, <2>1 DEF NetworksEquivalent
<1>4. NetworkCandidates(a) = NetworkCandidates(m)
  BY <1>1 DEF NetworkCandidates
<1> QED BY <1>2, <1>3, <1>4

-----------------------------------------------------------------------------
(* Induction.                                                              *)

Digit == 0..9

\* A set of numbers that has what all smaller ones being in it implies has them all.
LEMMA NumbersInduction ==
  ASSUME NEW S, \A n \in Nat : (\A m \in Nat : m < n => m \in S) => n \in S
  PROVE  Nat \subseteq S
<1> DEFINE R == OpToRel(<, Nat)
           T == Nat \ S
<1> SUFFICES ASSUME T # {} PROVE FALSE
  OBVIOUS
<1>1. IsWellFoundedOn(R, Nat)
  BY NatLessThanWellFounded
<1>2. T \subseteq Nat
  OBVIOUS
<1>3. PICK m \in T : \A n \in T : ~(<<n, m>> \in R)
  <2> HIDE DEF R, T
  <2> QED BY <1>1, <1>2, WFMin
<1>4. \A n \in T : ~(n < m)
  BY <1>3 DEF OpToRel
<1> QED BY <1>4

\* A set of texts over S that has the empty one, and with each one those that are one
\* element longer, has them all.
LEMMA TextsInduction ==
  ASSUME NEW S, NEW T, <<>> \in T,
         \A s \in Seq(S), d \in S : s \in T => Append(s, d) \in T
  PROVE  Seq(S) \subseteq T
<1> DEFINE N == {n \in Nat : \A s \in Seq(S) : Len(s) = n => s \in T}
<1>1. ASSUME NEW n \in Nat, \A m \in Nat : m < n => m \in N
      PROVE  n \in N
  <2> SUFFICES ASSUME NEW s \in Seq(S), Len(s) = n PROVE s \in T
    OBVIOUS
  <2>1. CASE s = <<>>
    BY <2>1
  <2>2. CASE s # <<>>
    <3>1. PICK r \in Seq(S), d \in S : s = Append(r, d)
      BY <2>2, SequenceEmptyOrAppend
    <3>2. Len(r) \in Nat /\ Len(r) < n
      BY <3>1, AppendProperties, LenProperties
    <3>3. r \in T
      BY <3>2, <1>1
    <3> QED BY <3>1, <3>3
  <2> QED BY <2>1, <2>2
<1>2. Nat \subseteq N
  <2> HIDE DEF N
  <2> QED BY <1>1, NumbersInduction
<1> QED BY <1>2, LenProperties

-----------------------------------------------------------------------------
(* The number that digits write.                                           *)

\* The values of the first i digits, for every i up to n.
AreValues(v, s, n) ==
  v = [i \in 0..n |-> IF i = 0 THEN 0 ELSE 10 * v[i - 1] + s[i]]

\* The recursion has a solution, over any beginning of the digits.
LEMMA ValuesExist ==
  ASSUME NEW s \in Seq(Digit), NEW n \in Nat, n <= Len(s)
  PROVE  \E v \in [0..n -> Nat] : AreValues(v, s, n)
<1> DEFINE N == {m \in Nat : m <= Len(s) => \E v \in [0..m -> Nat] : AreValues(v, s, m)}
<1>1. ASSUME NEW m \in Nat, \A k \in Nat : k < m => k \in N
      PROVE  m \in N
  <2> SUFFICES ASSUME m <= Len(s)
               PROVE  \E v \in [0..m -> Nat] : AreValues(v, s, m)
    OBVIOUS
  <2>1. CASE m = 0
    <3>1. AreValues([i \in 0..0 |-> 0], s, 0)
      BY DEF AreValues
    <3> QED BY <2>1, <3>1
  <2>2. CASE m > 0
    <3> DEFINE k == m - 1
    <3>1. k \in Nat /\ k < m /\ k <= Len(s) /\ m = k + 1
      BY <2>2, LenProperties
    <3>2. PICK v \in [0..k -> Nat] : AreValues(v, s, k)
      BY <3>1, <1>1
    <3>3. s[m] \in Nat
      BY <3>1, LenProperties, ElementOfSeq
    <3> DEFINE w == [i \in 0..m |-> IF i = m THEN 10 * v[k] + s[m] ELSE v[i]]
    <3>4. w \in [0..m -> Nat]
      BY <3>1, <3>3
    <3>5. \A i \in 0..k : v[i] = IF i = 0 THEN 0 ELSE 10 * v[i - 1] + s[i]
      BY <3>2 DEF AreValues
    <3>6. \A i \in 0..m : w[i] = IF i = 0 THEN 0 ELSE 10 * w[i - 1] + s[i]
      <4> TAKE i \in 0..m
      <4>1. CASE i = m
        BY <3>1, <4>1
      <4>2. CASE i # m
        <5>1. i \in 0..k /\ (i # 0 => i - 1 \in 0..k)
          BY <3>1, <4>2
        <5>2. w[i] = v[i] /\ (i # 0 => w[i - 1] = v[i - 1])
          BY <3>1, <4>2, <5>1
        <5> QED BY <3>5, <5>1, <5>2
      <4> QED BY <4>1, <4>2
    <3>7. AreValues(w, s, m)
      <4> HIDE DEF w, k
      <4> QED BY <3>4, <3>6 DEF AreValues
    <3> QED BY <3>4, <3>7
  <2> QED BY <2>1, <2>2
<1>2. Nat \subseteq N
  <2> HIDE DEF N
  <2> QED BY <1>1, NumbersInduction
<1> QED BY <1>2

\* Two solutions agree for as long as the digits do.
LEMMA ValuesUnique ==
  ASSUME NEW s, NEW t, NEW v, NEW w, NEW m \in Nat, NEW n \in Nat, NEW k \in Nat,
         AreValues(v, s, m), AreValues(w, t, n), k <= m, k <= n,
         \A i \in 1..k : s[i] = t[i]
  PROVE  v[k] = w[k]
<1> DEFINE N == {i \in Nat : i <= k => v[i] = w[i]}
<1>1. ASSUME NEW i \in Nat, \A j \in Nat : j < i => j \in N
      PROVE  i \in N
  <2> SUFFICES ASSUME i <= k PROVE v[i] = w[i]
    OBVIOUS
  <2>1. CASE i = 0
    BY <2>1 DEF AreValues
  <2>2. CASE i > 0
    <3>1. v[i - 1] = w[i - 1]
      BY <2>2, <1>1
    <3>2. v[i] = 10 * v[i - 1] + s[i] /\ w[i] = 10 * w[i - 1] + t[i]
      BY <2>2 DEF AreValues
    <3> QED BY <2>2, <3>1, <3>2
  <2> QED BY <2>1, <2>2
<1>2. Nat \subseteq N
  <2> HIDE DEF N
  <2> QED BY <1>1, NumbersInduction
<1> QED BY <1>2

\* A number is the last value of any solution.
LEMMA NumberIsLast ==
  ASSUME NEW s \in Seq(Digit)
  PROVE  \E v \in [0..Len(s) -> Nat] : AreValues(v, s, Len(s)) /\ Number(s) = v[Len(s)]
<1> DEFINE c == CHOOSE v : AreValues(v, s, Len(s))
<1>1. Len(s) \in Nat
  BY LenProperties
<1>2. PICK v \in [0..Len(s) -> Nat] : AreValues(v, s, Len(s))
  BY <1>1, ValuesExist
<1>3. AreValues(c, s, Len(s))
  BY <1>2
<1>4. Number(s) = c[Len(s)]
  BY DEF Number, AreValues
<1>5. c[Len(s)] = v[Len(s)]
  <2> HIDE DEF c
  <2> QED BY <1>1, <1>2, <1>3, ValuesUnique
<1> QED BY <1>2, <1>4, <1>5

\* What else is used of Number: its type, no digits, and one digit more.
LEMMA NumberOfNone == Number(<<>>) = 0
<1>1. <<>> \in Seq(Digit) /\ Len(<<>>) = 0
  OBVIOUS
<1>2. PICK v : AreValues(v, <<>>, 0) /\ Number(<<>>) = v[0]
  BY <1>1, NumberIsLast
<1> QED BY <1>2 DEF AreValues

LEMMA NumberType ==
  ASSUME NEW s \in Seq(Digit)
  PROVE  Number(s) \in Nat
BY NumberIsLast, LenProperties

LEMMA NumberOfAppend ==
  ASSUME NEW s \in Seq(Digit), NEW d \in Digit
  PROVE  Number(Append(s, d)) = 10 * Number(s) + d
<1> DEFINE t == Append(s, d)
           n == Len(s)
<1>1. /\ t \in Seq(Digit) /\ Len(t) = n + 1 /\ n \in Nat /\ t[n + 1] = d
      /\ \A i \in 1..n : t[i] = s[i]
  BY AppendProperties, LenProperties
<1> HIDE DEF t, n
<1>2. PICK v : AreValues(v, s, n) /\ Number(s) = v[n]
  BY NumberIsLast DEF n
<1>3. PICK w : AreValues(w, t, n + 1) /\ Number(t) = w[n + 1]
  BY <1>1, NumberIsLast
<1>4. w[n] = v[n]
  BY <1>1, <1>2, <1>3, ValuesUnique
<1>5. w[n + 1] = 10 * w[n] + t[n + 1]
  BY <1>1, <1>3 DEF AreValues
<1> QED BY <1>1, <1>2, <1>3, <1>4, <1>5 DEF t

-----------------------------------------------------------------------------
(* Zeros.                                                                  *)

LEMMA ZerosFacts ==
  ASSUME NEW n \in Nat
  PROVE  /\ Zeros(n) \in Seq(Digit) /\ Len(Zeros(n)) = n
         /\ Zeros(n + 1) = Append(Zeros(n), 0) /\ Zeros(0) = <<>>
<1>1. Zeros(n) \in Seq(Digit) /\ Len(Zeros(n)) = n
  BY IsASeq DEF Zeros, Digit
<1>2. Zeros(n + 1) = Append(Zeros(n), 0)
  <2>1. Zeros(n + 1) \in Seq(Digit) /\ Len(Zeros(n + 1)) = n + 1
    BY IsASeq DEF Zeros, Digit
  <2>2. /\ Append(Zeros(n), 0) \in Seq(Digit) /\ Len(Append(Zeros(n), 0)) = n + 1
        /\ \A i \in 1..n+1 : Append(Zeros(n), 0)[i] = 0
    BY <1>1, AppendProperties DEF Zeros, Digit
  <2>3. \A i \in 1..n+1 : Zeros(n + 1)[i] = 0
    BY DEF Zeros
  <2> QED BY <2>1, <2>2, <2>3, SeqEqual
<1>3. Zeros(0) = <<>>
  BY DEF Zeros
<1> QED BY <1>1, <1>2, <1>3

\* A text and a longer one, in front of which another is put.
LEMMA ConcatAppend ==
  ASSUME NEW S, NEW r \in Seq(S), NEW s \in Seq(S), NEW d \in S
  PROVE  r \o Append(s, d) = Append(r \o s, d)
<1>1. <<d>> \in Seq(S)
  OBVIOUS
<1>2. Append(s, d) = s \o <<d>> /\ Append(r \o s, d) = (r \o s) \o <<d>>
  BY AppendIsConcat, ConcatProperties
<1> QED BY <1>1, <1>2, ConcatAssociative

\* A zero behind the digits makes the number ten times as large.
LEMMA OneZeroBehind ==
  ASSUME NEW r \in Seq(Digit), NEW n \in Nat
  PROVE  /\ Number(r \o Zeros(0)) = Number(r)
         /\ Number(r \o Zeros(n + 1)) = 10 * Number(r \o Zeros(n))
<1> DEFINE z == Zeros(n)
           y == Zeros(n + 1)
<1>1. z \in Seq(Digit) /\ y = Append(z, 0) /\ Zeros(0) = <<>>
  BY ZerosFacts
<1>2. 0 \in Digit
  BY DEF Digit
<1> HIDE DEF z, y
<1>3. r \o y = Append(r \o z, 0) /\ r \o z \in Seq(Digit)
  BY <1>1, <1>2, ConcatAppend, ConcatProperties
<1>4. Number(Append(r \o z, 0)) = 10 * Number(r \o z) + 0 /\ Number(r \o z) \in Nat
  BY <1>2, <1>3, NumberOfAppend, NumberType
<1>5. Number(r \o y) = 10 * Number(r \o z)
  BY <1>3, <1>4
<1>6. r \o Zeros(0) = r
  BY <1>1, ConcatEmptySeq
<1> QED BY <1>5, <1>6 DEF z, y

\* The one of TenTo.
LEMMA NumberOfOne == <<1>> \in Seq(Digit) /\ Number(<<1>>) = 1
<1>1. <<1>> = Append(<<>>, 1) /\ <<>> \in Seq(Digit) /\ <<1>> \in Seq(Digit) /\ 1 \in Digit
  BY DEF Digit
<1>2. Number(Append(<<>>, 1)) = 10 * Number(<<>>) + 1
  BY <1>1, NumberOfAppend
<1> QED BY <1>1, <1>2, NumberOfNone

\* So n zeros make it 10^n times as large.
LEMMA ZerosBehind ==
  ASSUME NEW s \in Seq(Digit), NEW n \in Nat
  PROVE  /\ Number(s \o Zeros(n)) = Number(s) * TenTo(n)
         /\ TenTo(n) \in Nat /\ TenTo(n) > 0
<1> DEFINE N == {m \in Nat : /\ Number(s \o Zeros(m)) = Number(s) * TenTo(m)
                             /\ TenTo(m) \in Nat /\ TenTo(m) > 0}
<1>1. Number(s) \in Nat
  BY NumberType
<1>2. 0 \in N
  <2>1. TenTo(0) = 1
    BY NumberOfOne, OneZeroBehind DEF TenTo
  <2>2. Number(s \o Zeros(0)) = Number(s)
    BY OneZeroBehind
  <2> QED BY <1>1, <2>1, <2>2
<1>3. ASSUME NEW m \in Nat, m \in N PROVE m + 1 \in N
  <2>1. TenTo(m + 1) = 10 * TenTo(m)
    BY NumberOfOne, OneZeroBehind DEF TenTo
  <2>2. Number(s \o Zeros(m + 1)) = 10 * Number(s \o Zeros(m))
    BY OneZeroBehind
  <2>3. TenTo(m) \in Nat /\ TenTo(m) > 0 /\ Number(s \o Zeros(m)) = Number(s) * TenTo(m)
    BY <1>3
  <2>4. 10 * (Number(s) * TenTo(m)) = Number(s) * (10 * TenTo(m))
    BY <1>1, <2>3
  <2>5. 10 * TenTo(m) \in Nat /\ 10 * TenTo(m) > 0
    BY <2>3
  <2> QED BY <2>1, <2>2, <2>3, <2>4, <2>5
<1>4. Nat \subseteq N
  <2> SUFFICES ASSUME NEW m \in Nat, \A k \in Nat : k < m => k \in N PROVE m \in N
    <3> HIDE DEF N
    <3> QED BY NumbersInduction
  <2> HIDE DEF N
  <2>1. CASE m = 0
    BY <1>2, <2>1
  <2>2. CASE m > 0
    <3>1. m - 1 \in Nat /\ m - 1 \in N /\ (m - 1) + 1 = m
      BY <2>2
    <3> QED BY <1>3, <3>1
  <2> QED BY <2>1, <2>2
<1> QED BY <1>4

\* Zeros in front of the digits change nothing.
LEMMA ZerosBefore ==
  ASSUME NEW n \in Nat, NEW s \in Seq(Digit)
  PROVE  Number(Zeros(n) \o s) = Number(s)
<1> DEFINE T == {r \in Seq(Digit) : Number(Zeros(n) \o r) = Number(r)}
<1>1. Zeros(n) \in Seq(Digit) /\ <<>> \in Seq(Digit)
  BY ZerosFacts
<1>2. <<>> \in T
  <2>1. Number(<<>> \o Zeros(n)) = Number(<<>>) * TenTo(n) /\ TenTo(n) \in Nat
    BY <1>1, ZerosBehind
  <2>2. <<>> \o Zeros(n) = Zeros(n) /\ Zeros(n) \o <<>> = Zeros(n)
    BY <1>1, ConcatEmptySeq
  <2>3. 0 * TenTo(n) = 0
    BY <2>1
  <2> QED BY <1>1, <2>1, <2>2, <2>3, NumberOfNone
<1>3. ASSUME NEW r \in Seq(Digit), NEW d \in Digit, r \in T
      PROVE  Append(r, d) \in T
  <2>1. Zeros(n) \o Append(r, d) = Append(Zeros(n) \o r, d)
    BY <1>1, ConcatAppend
  <2>2. Zeros(n) \o r \in Seq(Digit) /\ Append(r, d) \in Seq(Digit)
    BY <1>1, ConcatProperties, AppendProperties
  <2>3. Number(Append(Zeros(n) \o r, d)) = 10 * Number(Zeros(n) \o r) + d
    BY <2>2, NumberOfAppend
  <2>4. Number(Append(r, d)) = 10 * Number(r) + d
    BY NumberOfAppend
  <2> QED BY <2>1, <2>2, <2>3, <2>4, <1>3
<1>4. Seq(Digit) \subseteq T
  <2> HIDE DEF T
  <2> QED BY <1>2, <1>3, TextsInduction
<1> QED BY <1>4

-----------------------------------------------------------------------------
(* Leading zeros.                                                          *)

\* Digits as the database writes a number: zero is one digit, any other number does not
\* begin with it.
IsNumeral(t) == t \in Seq(Digit) /\ t # <<>> /\ (t[1] = 0 => t = <<0>>)

\* The least-number principle.
LEMMA LeastNumber ==
  ASSUME NEW S, S \subseteq Nat, S # {}
  PROVE  \E i \in S : \A j \in S : i <= j
<1> SUFFICES ASSUME \A i \in S : \E j \in S : j < i PROVE FALSE
  OBVIOUS
<1> DEFINE N == Nat \ S
<1>1. \A n \in Nat : (\A m \in Nat : m < n => m \in N) => n \in N
  OBVIOUS
<1>2. Nat \subseteq N
  <2> HIDE DEF N
  <2> QED BY <1>1, NumbersInduction
<1> QED BY <1>2

LEMMA NumberOfZeros ==
  ASSUME NEW n \in Nat
  PROVE  Number(Zeros(n)) = 0 /\ IsNumeral(<<0>>) /\ Number(<<0>>) = 0
<1>1. /\ Zeros(n) \in Seq(Digit) /\ <<>> \in Seq(Digit) /\ 0 \in Digit
      /\ <<0>> \in Seq(Digit) /\ <<0>> # <<>> /\ <<0>> = Append(<<>>, 0)
  BY ZerosFacts DEF Digit
<1>2. Number(Zeros(n)) = 0
  <2>1. Number(Zeros(n) \o <<>>) = Number(<<>>)
    BY <1>1, ZerosBefore
  <2>2. Zeros(n) \o <<>> = Zeros(n)
    BY <1>1, ConcatEmptySeq
  <2> QED BY <2>1, <2>2, NumberOfNone
<1>3. Number(Append(<<>>, 0)) = 10 * Number(<<>>) + 0
  BY <1>1, NumberOfAppend
<1> QED BY <1>1, <1>2, <1>3, NumberOfNone DEF IsNumeral

\* Digits are the zeros they begin with and what follows.
LEMMA SplitZeros ==
  ASSUME NEW s \in Seq(Digit), NEW m \in Nat, m < Len(s), \A i \in 1..m : s[i] = 0
  PROVE  LET t == SubSeq(s, m + 1, Len(s))
         IN  t \in Seq(Digit) /\ t # <<>> /\ t[1] = s[m + 1] /\ s = Zeros(m) \o t
<1> DEFINE n == Len(s)
           t == SubSeq(s, m + 1, n)
           z == Zeros(m)
<1>1. n \in Nat /\ m + 1 \in 1..n+1 /\ m < n
  BY LenProperties
<1>2. /\ t \in Seq(Digit) /\ Len(t) = n - m
      /\ \A i \in 1..n-m : t[i] = s[m + i]
  <2>1. \A i \in (m+1)..n : s[i] \in Digit
    BY <1>1, ElementOfSeq
  <2> QED BY <1>1, <2>1, SubSeqProperties
<1>3. z \in Seq(Digit) /\ Len(z) = m /\ \A i \in 1..m : z[i] = 0
  BY ZerosFacts DEF Zeros
<1>4. t # <<>> /\ t[1] = s[m + 1]
  <2>1. 1 \in 1..n-m /\ Len(t) # 0
    BY <1>1, <1>2
  <2> HIDE DEF t
  <2>2. t # <<>>
    BY <2>1
  <2> QED BY <1>2, <2>1, <2>2
<1> HIDE DEF z, t
<1>5. z \o t \in Seq(Digit) /\ Len(z \o t) = n
  <2>1. z \o t \in Seq(Digit) /\ Len(z \o t) = Len(z) + Len(t)
    BY <1>2, <1>3, ConcatProperties
  <2>2. Len(z) + Len(t) = n
    BY <1>1, <1>2, <1>3
  <2> QED BY <2>1, <2>2
<1>6. \A i \in 1..n : (z \o t)[i] = IF i <= m THEN z[i] ELSE t[i - m]
  <2>1. \A i \in 1..Len(z) + Len(t) :
          (z \o t)[i] = IF i <= Len(z) THEN z[i] ELSE t[i - Len(z)]
    BY <1>2, <1>3, ConcatProperties
  <2>2. Len(z) + Len(t) = n
    BY <1>1, <1>2, <1>3
  <2> QED BY <1>3, <2>1, <2>2
<1> DEFINE c == z \o t
<1> HIDE DEF c, n
<1>7. \A i \in 1..n : c[i] = s[i]
  <2> TAKE i \in 1..n
  <2>1. CASE i <= m
    <3>1. i \in 1..m
      BY <1>1, <2>1
    <3>2. c[i] = z[i]
      BY <1>6, <2>1 DEF c
    <3> QED BY <1>3, <3>1, <3>2
  <2>2. CASE ~(i <= m)
    <3>1. i - m \in 1..n-m /\ m + (i - m) = i
      BY <1>1, <2>2
    <3>2. c[i] = t[i - m]
      BY <1>6, <2>2 DEF c
    <3> QED BY <1>2, <3>1, <3>2
  <2> QED BY <2>1, <2>2
<1>8. s = c
  BY <1>5, <1>7, SeqEqual DEF c, n
<1> QED BY <1>2, <1>4, <1>8 DEF z, t, c, n

\* Stripping zeros leaves a numeral of the same number.
LEMMA StripZerosFacts ==
  ASSUME NEW s \in Seq(Digit)
  PROVE  IsNumeral(StripZeros(s)) /\ Number(StripZeros(s)) = Number(s)
<1> DEFINE significant == {i \in DOMAIN s : s[i] # 0}
           n == Len(s)
<1>1. n \in Nat /\ DOMAIN s = 1..n
  BY LenProperties
<1>2. CASE significant = {}
  <2>1. s = Zeros(n)
    <3>1. Zeros(n) \in Seq(Digit) /\ Len(Zeros(n)) = n
      BY <1>1, ZerosFacts
    <3>2. \A i \in 1..n : s[i] = Zeros(n)[i]
      BY <1>1, <1>2 DEF Zeros
    <3> QED BY <3>1, <3>2, SeqEqual
  <2>2. StripZeros(s) = <<0>>
    BY <1>2 DEF StripZeros
  <2>3. Number(Zeros(n)) = 0
    BY <1>1, NumberOfZeros
  <2>4. IsNumeral(<<0>>) /\ Number(<<0>>) = 0
    BY <1>1, NumberOfZeros
  <2> QED BY <2>1, <2>2, <2>3, <2>4
<1>3. CASE significant # {}
  <2> DEFINE first == CHOOSE i \in significant : \A j \in significant : i <= j
             m == first - 1
             t == SubSeq(s, m + 1, n)
  <2>1. first \in significant /\ \A j \in significant : first <= j
    <3>1. significant \subseteq Nat
      BY <1>1
    <3> HIDE DEF significant
    <3> QED BY <1>3, <3>1, LeastNumber
  <2>2. StripZeros(s) = SubSeq(s, first, n)
    BY <1>3 DEF StripZeros
  <2>3. first \in 1..n /\ s[first] # 0
    BY <1>1, <2>1
  <2>4. m \in Nat /\ m < n /\ m + 1 = first
    BY <1>1, <2>3
  <2>5. \A i \in 1..m : s[i] = 0
    <3>1. \A i \in 1..m : i \in DOMAIN s /\ i \notin significant
      BY <1>1, <2>1, <2>3
    <3> QED BY <3>1
  <2> HIDE DEF first, m, significant
  <2>6. t \in Seq(Digit) /\ t # <<>> /\ t[1] = s[m + 1] /\ s = Zeros(m) \o t
    BY <2>4, <2>5, SplitZeros
  <2> HIDE DEF t
  <2>7. StripZeros(s) = t
    BY <2>2, <2>4 DEF t
  <2>8. IsNumeral(t)
    BY <2>3, <2>4, <2>6 DEF IsNumeral
  <2>9. Number(Zeros(m) \o t) = Number(t)
    BY <2>4, <2>6, ZerosBefore
  <2> QED BY <2>6, <2>7, <2>8, <2>9
<1> QED BY <1>2, <1>3

\* A text that does not begin with zero is not zero.
LEMMA NumeralIsPositive ==
  ASSUME NEW t \in Seq(Digit), t # <<>>, t[1] # 0
  PROVE  Number(t) > 0
<1> DEFINE T == {s \in Seq(Digit) : s # <<>> /\ s[1] # 0 => Number(s) > 0}
<1>1. <<>> \in T
  OBVIOUS
<1>2. ASSUME NEW s \in Seq(Digit), NEW d \in Digit, s \in T
      PROVE  Append(s, d) \in T
  <2> DEFINE r == Append(s, d)
  <2>1. r \in Seq(Digit) /\ Number(r) = 10 * Number(s) + d
    BY AppendProperties, NumberOfAppend
  <2>2. Number(s) \in Nat /\ d \in Nat
    BY NumberType DEF Digit
  <2>3. CASE s = <<>>
    <3>1. r[1] = d
      BY <2>3
    <3> HIDE DEF r
    <3>2. r[1] # 0 => Number(r) > 0
      BY <2>1, <2>2, <3>1
    <3> QED BY <2>1, <3>2 DEF r
  <2>4. CASE s # <<>>
    <3>1. r[1] = s[1]
      BY <2>4, AppendProperties, LenProperties, EmptySeq
    <3>2. s[1] # 0 => Number(s) > 0
      BY <1>2, <2>4
    <3> HIDE DEF r
    <3>3. r[1] # 0 => Number(r) > 0
      BY <2>1, <2>2, <3>1, <3>2
    <3> QED BY <2>1, <3>3 DEF r
  <2> QED BY <2>3, <2>4
<1>3. Seq(Digit) \subseteq T
  <2> HIDE DEF T
  <2> QED BY <1>1, <1>2, TextsInduction
<1> QED BY <1>3

-----------------------------------------------------------------------------
(* The text of a number.                                                   *)

\* The text of n, from those of smaller numbers.
TextOf(f, n) == IF n < 10 THEN <<n>> ELSE Append(f[n \div 10], n % 10)

\* The texts of all numbers up to n.
AreTexts(f, n) == f = [i \in 0..n |-> TextOf(f, i)]

\* A number without its last digit.
LEMMA LastDigit ==
  ASSUME NEW n \in Nat
  PROVE  /\ n % 10 \in Digit /\ n = 10 * (n \div 10) + (n % 10)
         /\ n \div 10 \in Nat /\ (n >= 10 => n \div 10 < n)
BY DEF Digit

LEMMA OneDigitMore ==
  ASSUME NEW n \in Nat, n > 0, NEW d \in Digit
  PROVE  /\ 10 * n + d \in Nat /\ 10 * n + d >= 10
         /\ (10 * n + d) \div 10 = n /\ (10 * n + d) % 10 = d
BY DEF Digit

LEMMA TextsExist ==
  ASSUME NEW n \in Nat
  PROVE  \E f \in [0..n -> Seq(Digit)] : AreTexts(f, n)
<1> DEFINE N == {m \in Nat : \E f \in [0..m -> Seq(Digit)] : AreTexts(f, m)}
<1>1. ASSUME NEW m \in Nat, \A k \in Nat : k < m => k \in N
      PROVE  m \in N
  <2>1. CASE m = 0
    <3> DEFINE f == [i \in 0..0 |-> <<0>>]
    <3>1. f \in [0..0 -> Seq(Digit)] /\ AreTexts(f, 0)
      BY DEF AreTexts, Digit, TextOf
    <3> QED BY <2>1, <3>1
  <2>2. CASE m > 0
    <3> DEFINE k == m - 1
    <3>1. k \in Nat /\ k < m /\ m = k + 1
      BY <2>2
    <3>2. PICK f \in [0..k -> Seq(Digit)] : AreTexts(f, k)
      BY <3>1, <1>1
    <3> DEFINE g == [i \in 0..m |-> IF i = m THEN TextOf(f, m) ELSE f[i]]
    <3>3. TextOf(f, m) \in Seq(Digit)
      <4>1. CASE m < 10
        BY <4>1 DEF Digit, TextOf
      <4>2. CASE ~(m < 10)
        <5>1. m \div 10 \in 0..k /\ m % 10 \in Digit
          BY <3>1, <4>2, LastDigit
        <5>2. f[m \div 10] \in Seq(Digit)
          BY <5>1
        <5> QED BY <4>2, <5>1, <5>2, AppendProperties DEF TextOf
      <4> QED BY <4>1, <4>2
    <3>4. g \in [0..m -> Seq(Digit)]
      BY <3>1, <3>3
    <3>5. \A i \in 0..m : g[i] = TextOf(g, i)
      <4> TAKE i \in 0..m
      <4>1. i >= 10 => i \div 10 \in 0..k
        BY <3>1, LastDigit
      <4>2. \A j \in 0..k : g[j] = f[j]
        BY <3>1
      <4>3. TextOf(g, i) = TextOf(f, i)
        <5> HIDE DEF g
        <5> QED BY <4>1, <4>2 DEF TextOf
      <4>4. g[i] = TextOf(f, i)
        <5>1. CASE i = m
          BY <5>1
        <5>2. CASE i # m
          <6>1. i \in 0..k
            BY <3>1, <5>2
          <6>2. f[i] = TextOf(f, i)
            BY <3>2, <6>1 DEF AreTexts
          <6> QED BY <4>2, <6>1, <6>2
        <5> QED BY <5>1, <5>2
      <4> QED BY <4>3, <4>4
    <3>6. AreTexts(g, m)
      <4> HIDE DEF g
      <4> QED BY <3>4, <3>5 DEF AreTexts
    <3> QED BY <3>4, <3>6
  <2> QED BY <2>1, <2>2
<1>2. Nat \subseteq N
  <2> HIDE DEF N
  <2> QED BY <1>1, NumbersInduction
<1> QED BY <1>2

LEMMA TextsUnique ==
  ASSUME NEW f, NEW g, NEW m \in Nat, NEW n \in Nat, NEW k \in Nat,
         AreTexts(f, m), AreTexts(g, n), k <= m, k <= n
  PROVE  f[k] = g[k]
<1> DEFINE N == {i \in Nat : i <= k => f[i] = g[i]}
<1>1. ASSUME NEW i \in Nat, \A j \in Nat : j < i => j \in N
      PROVE  i \in N
  <2> SUFFICES ASSUME i <= k PROVE f[i] = g[i]
    OBVIOUS
  <2>1. f[i] = TextOf(f, i) /\ g[i] = TextOf(g, i)
    <3> HIDE DEF N
    <3>1. i \in 0..m /\ i \in 0..n
      OBVIOUS
    <3> QED BY <3>1 DEF AreTexts
  <2>2. i >= 10 => f[i \div 10] = g[i \div 10]
    <3> SUFFICES ASSUME i >= 10 PROVE f[i \div 10] = g[i \div 10]
      OBVIOUS
    <3>1. i \div 10 \in Nat /\ i \div 10 < i
      BY LastDigit
    <3> QED BY <1>1, <3>1
  <2> QED BY <2>1, <2>2 DEF TextOf
<1>2. Nat \subseteq N
  <2> HIDE DEF N
  <2> QED BY <1>1, NumbersInduction
<1> QED BY <1>2

\* The recursion of RawText has a solution over all numbers.
LEMMA AllTexts ==
  \E f \in [Nat -> Seq(Digit)] : f = [n \in Nat |-> TextOf(f, n)]
<1> DEFINE Up(n) == CHOOSE f \in [0..n -> Seq(Digit)] : AreTexts(f, n)
           F == [n \in Nat |-> Up(n)[n]]
<1>1. ASSUME NEW n \in Nat PROVE Up(n) \in [0..n -> Seq(Digit)] /\ AreTexts(Up(n), n)
  BY TextsExist
<1> HIDE DEF Up
<1>2. F \in [Nat -> Seq(Digit)]
  BY <1>1
<1>3. ASSUME NEW n \in Nat PROVE F[n] = TextOf(F, n)
  <2>1. Up(n)[n] = TextOf(Up(n), n)
    <3>1. AreTexts(Up(n), n) /\ n \in 0..n
      BY <1>1
    <3> QED BY <3>1 DEF AreTexts
  <2>2. n >= 10 => F[n \div 10] = Up(n)[n \div 10]
    <3> SUFFICES ASSUME n >= 10 PROVE F[n \div 10] = Up(n)[n \div 10]
      OBVIOUS
    <3> DEFINE k == n \div 10
    <3>1. k \in Nat /\ k <= n /\ k <= k
      BY LastDigit
    <3> HIDE DEF k
    <3>2. AreTexts(Up(n), n) /\ AreTexts(Up(k), k)
      BY <1>1, <3>1
    <3>3. Up(k)[k] = Up(n)[k]
      BY <3>1, <3>2, TextsUnique
    <3> QED BY <3>1, <3>3 DEF k
  <2>3. F[n] = Up(n)[n]
    OBVIOUS
  <2> HIDE DEF F
  <2> QED BY <2>1, <2>2, <2>3 DEF TextOf
<1> HIDE DEF F
<1>4. F = [n \in Nat |-> TextOf(F, n)]
  BY <1>2, <1>3
<1> QED BY <1>2, <1>4

\* What is used of RawText: its sign, its type, and its last digit.
LEMMA RawTextFacts ==
  ASSUME NEW n \in Nat
  PROVE  /\ RawText(n) = [negative |-> FALSE, digits |-> RawText(n).digits]
         /\ RawText(n).digits \in Seq(Digit)
         /\ n < 10 => RawText(n).digits = <<n>>
         /\ n >= 10 => RawText(n).digits = Append(RawText(n \div 10).digits, n % 10)
<1> DEFINE IsAll(f) == f = [i \in Nat |-> TextOf(f, i)]
           F == CHOOSE f : IsAll(f)
<1>1. IsAll(F)
  BY AllTexts
<1>2. \A i \in Nat : RawText(i) = [negative |-> FALSE, digits |-> F[i]]
  BY DEF RawText, TextOf
<1>3. \A i \in Nat : F[i] = TextOf(F, i)
  <2> HIDE DEF F
  <2> QED BY <1>1
<1> HIDE DEF F, IsAll
<1>4. \A i \in Nat : F[i] \in Seq(Digit)
  <2> DEFINE N == {i \in Nat : F[i] \in Seq(Digit)}
  <2>1. ASSUME NEW i \in Nat, \A j \in Nat : j < i => j \in N
        PROVE  i \in N
    <3>1. TextOf(F, i) \in Seq(Digit)
      <4>1. CASE i < 10
        BY <4>1 DEF Digit, TextOf
      <4>2. CASE ~(i < 10)
        <5>1. i \div 10 \in N /\ i % 10 \in Digit
          BY <2>1, <4>2, LastDigit
        <5>2. F[i \div 10] \in Seq(Digit)
          BY <5>1
        <5> QED BY <4>2, <5>1, <5>2, AppendProperties DEF TextOf
      <4> QED BY <4>1, <4>2
    <3> QED BY <1>3, <3>1
  <2>2. Nat \subseteq N
    <3> HIDE DEF N
    <3> QED BY <2>1, NumbersInduction
  <2> QED BY <2>2
<1>5. RawText(n) = [negative |-> FALSE, digits |-> F[n]] /\ RawText(n).digits = F[n]
  BY <1>2
<1>6. RawText(n \div 10).digits = F[n \div 10]
  BY <1>2, LastDigit
<1>7. n < 10 => F[n] = <<n>>
  BY <1>3 DEF TextOf
<1>8. n >= 10 => F[n] = Append(F[n \div 10], n % 10)
  <2>1. F[n] = TextOf(F, n)
    BY <1>3
  <2> QED BY <2>1 DEF TextOf
<1> QED BY <1>4, <1>5, <1>6, <1>7, <1>8

\* The text of a number writes that number.
LEMMA NumberOfRawText ==
  ASSUME NEW raw \in Nat
  PROVE  Number(RawText(raw).digits) = raw
<1> DEFINE N == {n \in Nat : Number(RawText(n).digits) = n}
<1>1. ASSUME NEW n \in Nat, \A m \in Nat : m < n => m \in N
      PROVE  n \in N
  <2>1. CASE n < 10
    <3>1. n \in Digit /\ <<>> \in Seq(Digit) /\ <<n>> = Append(<<>>, n)
      BY <2>1 DEF Digit
    <3>2. Number(Append(<<>>, n)) = 10 * Number(<<>>) + n
      BY <3>1, NumberOfAppend
    <3>3. RawText(n).digits = <<n>>
      BY <2>1, RawTextFacts
    <3> QED BY <3>1, <3>2, <3>3, NumberOfNone
  <2>2. CASE ~(n < 10)
    <3> DEFINE k == n \div 10
               d == n % 10
    <3>1. k \in Nat /\ k < n /\ d \in Digit /\ n = 10 * k + d
      BY <2>2, LastDigit
    <3>2. RawText(n).digits = Append(RawText(k).digits, d)
      BY <2>2, RawTextFacts
    <3> HIDE DEF k, d
    <3>3. RawText(k).digits \in Seq(Digit) /\ Number(RawText(k).digits) = k
      BY <1>1, <3>1, RawTextFacts
    <3>4. Number(Append(RawText(k).digits, d)) = 10 * Number(RawText(k).digits) + d
      BY <3>1, <3>3, NumberOfAppend
    <3> QED BY <3>1, <3>2, <3>3, <3>4
  <2> QED BY <2>1, <2>2
<1>2. Nat \subseteq N
  <2> HIDE DEF N
  <2> QED BY <1>1, NumbersInduction
<1> QED BY <1>2

\* A numeral is the text of the number that it writes.
LEMMA RawTextOfNumber ==
  ASSUME NEW t, IsNumeral(t)
  PROVE  RawText(Number(t)).digits = t
<1> DEFINE T == {s \in Seq(Digit) : IsNumeral(s) => RawText(Number(s)).digits = s}
<1>1. <<>> \in T
  BY DEF IsNumeral
<1>2. ASSUME NEW s \in Seq(Digit), NEW d \in Digit, s \in T
      PROVE  Append(s, d) \in T
  <2> DEFINE r == Append(s, d)
  <2>1. r \in Seq(Digit) /\ Number(r) = 10 * Number(s) + d /\ Number(s) \in Nat
    BY AppendProperties, NumberOfAppend, NumberType
  <2> SUFFICES ASSUME IsNumeral(r) PROVE RawText(Number(r)).digits = r
    BY <2>1
  <2>2. CASE s = <<>>
    <3>1. r = <<d>>
      BY <2>2
    <3>2. d \in Nat /\ d < 10
      BY DEF Digit
    <3>3. Number(r) = d
      <4> HIDE DEF r
      <4> QED BY <2>1, <2>2, <3>2, NumberOfNone
    <3>4. RawText(d).digits = <<d>>
      BY <3>2, RawTextFacts
    <3> QED BY <3>1, <3>3, <3>4
  <2>3. CASE s # <<>>
    <3>1. r[1] = s[1] /\ r # <<0>>
      <4>1. Len(s) \in Nat \ {0} /\ Len(r) = Len(s) + 1 /\ r[1] = s[1]
        BY <2>3, AppendProperties, LenProperties, EmptySeq
      <4>2. Len(<<0>>) = 1
        OBVIOUS
      <4> HIDE DEF r
      <4> QED BY <4>1, <4>2
    <3>2. s[1] # 0
      BY <3>1 DEF IsNumeral
    <3>3. Number(s) > 0
      BY <2>3, <3>2, NumeralIsPositive
    <3>4. RawText(Number(s)).digits = s
      BY <1>2, <2>3, <3>2 DEF IsNumeral
    <3> DEFINE n == Number(s)
               m == Number(r)
    <3>5. n \in Nat /\ n > 0 /\ m = 10 * n + d
      BY <2>1, <3>3
    <3> HIDE DEF n, m
    <3>6. m \in Nat /\ m >= 10 /\ m \div 10 = n /\ m % 10 = d
      BY <3>5, OneDigitMore
    <3>7. RawText(m).digits = Append(RawText(n).digits, d)
      BY <3>6, RawTextFacts
    <3> QED BY <3>4, <3>7 DEF n, m
  <2> QED BY <2>2, <2>3
<1>3. Seq(Digit) \subseteq T
  <2> HIDE DEF T
  <2> QED BY <1>1, <1>2, TextsInduction
<1>4. t \in T
  BY <1>3 DEF IsNumeral
<1> QED BY <1>4

-----------------------------------------------------------------------------
(* Texts and numbers.                                                      *)

\* Both sides of an equation may be divided by a positive number.
LEMMA Cancel ==
  ASSUME NEW x \in Int, NEW y \in Int, NEW p \in Int, p > 0
  PROVE  x * p = y * p <=> x = y
OBVIOUS

\* What IsWorth says, in minor units: the number without point and with all places.
LEMMA WorthInMinorUnits ==
  ASSUME NEW a, IsAmount(a), NEW decimals \in Nat, HasMinorUnits(a, decimals),
         NEW raw \in Nat
  PROVE  LET all == a.int \o a.frac \o Zeros(decimals - Len(a.frac))
         IN  /\ all \in Seq(Digit)
             /\ IsWorth(raw, a, decimals)
                  <=> raw = IF a.negative THEN -Number(all) ELSE Number(all)
<1> DEFINE places == Len(a.frac)
           more == decimals - places
           both == a.int \o a.frac
           all == both \o Zeros(more)
<1>1. a.int \in Seq(Digit) /\ a.frac \in Seq(Digit) /\ a.negative \in BOOLEAN
  BY DEF IsAmount, Digit
<1>2. places \in Nat /\ more \in Nat /\ places + more = decimals
  BY <1>1, LenProperties DEF HasMinorUnits
<1>3. both \in Seq(Digit)
  BY <1>1, ConcatProperties
<1> HIDE DEF places, more, both
<1>4. all \in Seq(Digit)
  BY <1>2, <1>3, ZerosFacts, ConcatProperties
<1>5. TenTo(decimals) = TenTo(places) * TenTo(more)
  <2>1. Zeros(decimals) = Zeros(places) \o Zeros(more)
    <3>1. /\ Zeros(decimals) \in Seq(Digit) /\ Len(Zeros(decimals)) = decimals
          /\ Zeros(places) \in Seq(Digit) /\ Len(Zeros(places)) = places
          /\ Zeros(more) \in Seq(Digit) /\ Len(Zeros(more)) = more
      BY <1>2, ZerosFacts
    <3>2. /\ Zeros(places) \o Zeros(more) \in Seq(Digit)
          /\ Len(Zeros(places) \o Zeros(more)) = decimals
      BY <1>2, <3>1, ConcatProperties
    <3>3. \A i \in 1..decimals : (Zeros(places) \o Zeros(more))[i] = Zeros(decimals)[i]
      BY <1>2, <3>1, ConcatProperties DEF Zeros
    <3> QED BY <3>1, <3>2, <3>3, SeqEqual
  <2>2. <<1>> \o (Zeros(places) \o Zeros(more)) = (<<1>> \o Zeros(places)) \o Zeros(more)
    <3>1. Zeros(places) \in Seq(Digit) /\ Zeros(more) \in Seq(Digit) /\ <<1>> \in Seq(Digit)
      BY <1>2, ZerosFacts, NumberOfOne
    <3> DEFINE one == <<1>>
    <3> HIDE DEF one
    <3>2. one \o (Zeros(places) \o Zeros(more)) = (one \o Zeros(places)) \o Zeros(more)
      BY <3>1, ConcatAssociative DEF one
    <3> QED BY <3>2 DEF one
  <2>3. <<1>> \o Zeros(places) \in Seq(Digit)
    BY <1>2, ZerosFacts, NumberOfOne, ConcatProperties
  <2>4. Number((<<1>> \o Zeros(places)) \o Zeros(more))
          = Number(<<1>> \o Zeros(places)) * TenTo(more)
    BY <1>2, <2>3, ZerosBehind
  <2> QED BY <2>1, <2>2, <2>4 DEF TenTo
<1>6. Number(all) = Number(both) * TenTo(more)
  BY <1>2, <1>3, ZerosBehind
<1>7. /\ TenTo(places) \in Nat /\ TenTo(places) > 0 /\ TenTo(more) \in Nat
      /\ Number(both) \in Nat /\ Number(all) \in Nat
  BY <1>2, <1>3, <1>4, ZerosBehind, NumberType
<1> DEFINE number == IF a.negative THEN -Number(both) ELSE Number(both)
           total == IF a.negative THEN -Number(all) ELSE Number(all)
<1>8. IsWorth(raw, a, decimals)
        <=> raw * TenTo(places) = number * (TenTo(places) * TenTo(more))
  BY <1>5 DEF IsWorth, places, both
<1> HIDE DEF all
<1>9. number * (TenTo(places) * TenTo(more)) = total * TenTo(places)
  <2>1. \A n, p, q \in Nat : n * (p * q) = (n * q) * p /\ (-n) * (p * q) = (-(n * q)) * p
    OBVIOUS
  <2> QED BY <1>1, <1>6, <1>7, <2>1
<1>10. total \in Int
  BY <1>7
<1>11. raw * TenTo(places) = total * TenTo(places) <=> raw = total
  <2> HIDE DEF total
  <2> QED BY <1>7, <1>10, Cancel
<1> QED BY <1>4, <1>8, <1>9, <1>11 DEF all, both, more, places

\* A stored transfer is found to pay an amount, by its text, exactly if it is worth it:
\* no zero, sign or place before or behind the point makes two texts of toMinorUnits and
\* the database equal, or different, that should not be, however long they are.
THEOREM EqualTexts ==
  ASSUME NEW a, IsAmount(a), NEW decimals \in Nat, HasMinorUnits(a, decimals),
         NEW raw \in Nat
  PROVE  RawText(raw) = ToMinorUnits(a, decimals) <=> IsWorth(raw, a, decimals)
<1> DEFINE all == a.int \o a.frac \o Zeros(decimals - Len(a.frac))
           t == StripZeros(all)
           n == Number(all)
<1>1. /\ all \in Seq(Digit) /\ a.negative \in BOOLEAN
      /\ IsWorth(raw, a, decimals) <=> raw = IF a.negative THEN -n ELSE n
  BY WorthInMinorUnits DEF IsAmount
<1>2. ToMinorUnits(a, decimals) = [negative |-> a.negative /\ t # <<0>>, digits |-> t]
  BY DEF ToMinorUnits
<1> HIDE DEF all
<1>3. IsNumeral(t) /\ Number(t) = n /\ n \in Nat
  BY <1>1, StripZerosFacts, NumberType
<1> HIDE DEF t, n
<1>4. /\ RawText(raw) = [negative |-> FALSE, digits |-> RawText(raw).digits]
      /\ RawText(raw).digits = t <=> raw = n
  BY <1>3, RawTextFacts, NumberOfRawText, RawTextOfNumber
<1>5. t = <<0>> <=> n = 0
  <2>1. t = <<0>> => n = 0
    BY <1>3, NumberOfZeros
  <2>2. t # <<0>> => n > 0
    BY <1>3, NumeralIsPositive DEF IsNumeral
  <2> QED BY <1>3, <2>1, <2>2
<1>6. RawText(raw) = ToMinorUnits(a, decimals) <=> raw = n /\ ~(a.negative /\ n # 0)
  <2>1. ToMinorUnits(a, decimals) = [negative |-> a.negative /\ n # 0, digits |-> t]
    BY <1>2, <1>5
  <2>2. CASE a.negative /\ n # 0
    <3>1. ToMinorUnits(a, decimals) = [negative |-> TRUE, digits |-> t]
      BY <2>1, <2>2
    <3>2. \A x, y : [negative |-> TRUE, digits |-> x] # [negative |-> FALSE, digits |-> y]
      OBVIOUS
    <3> QED BY <1>4, <2>2, <3>1, <3>2
  <2>3. CASE ~(a.negative /\ n # 0)
    <3>1. ToMinorUnits(a, decimals) = [negative |-> FALSE, digits |-> t]
      BY <2>1, <2>3
    <3>2. RawText(raw) = ToMinorUnits(a, decimals) <=> RawText(raw).digits = t
      BY <1>4, <3>1
    <3> QED BY <1>4, <2>3, <3>2
  <2> QED BY <2>2, <2>3
<1>7. raw = n /\ ~(a.negative /\ n # 0) <=> raw = IF a.negative THEN -n ELSE n
  BY <1>1, <1>3
<1> QED BY <1>1, <1>6, <1>7
=============================================================================
