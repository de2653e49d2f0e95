---------------------------- MODULE CSRPolicyProofs ----------------------------
(***************************************************************************)
(* Proofs about CSRPolicy: for lists of any length, the comparison of two  *)
(* sorted lists is one of multisets, and the checks of a CSR accept exactly *)
(* what a workload certificate may ask for.                                *)
(***************************************************************************)
EXTENDS CSRPolicy, Integers, FiniteSetTheorems, FunctionTheorems, WellFoundedInduction,
        SequenceTheorems, TLAPS

\* A nonempty set of naturals has a least element.
LEMMA Least ==
  ASSUME NEW T \in SUBSET Nat, T # {}
  PROVE  \E x \in T : \A y \in T : x <= y
  <1> DEFINE R == {ss \in Nat \X Nat : ss[1] < ss[2]}
  <1>1. IsWellFoundedOn(R, Nat)
    BY NatLessThanWellFounded DEF OpToRel
  <1>2. \A x, y \in Nat : <<y, x>> \in R <=> y < x
    OBVIOUS
  <1> HIDE DEF R
  <1>3. PICK x \in T : \A y \in T : ~(<<y, x>> \in R)
    BY <1>1, WFMin, Zenon
  <1>4. \A y \in T : x \in Nat /\ y \in Nat /\ ~(y < x)
    BY <1>2, <1>3, Zenon
  <1>5. \A a, b \in Nat : ~(b < a) => a <= b
    OBVIOUS
  <1> QED BY <1>4, <1>5, Zenon

-----------------------------------------------------------------------------
(***************************************************************************)
(* Sorting. The place of an entry is the number of entries up to it, so    *)
(* that places order the entries and are a bijection.                      *)
(***************************************************************************)
UpTo(i, f) == {j \in DOMAIN f : f[j] < f[i] \/ (f[j] = f[i] /\ j <= i)}
Precedes(i, j, f) == f[i] < f[j] \/ (f[i] = f[j] /\ i < j)

\* An entry that precedes another has the smaller place.
LEMMA PlaceOrder ==
  ASSUME NEW D \in SUBSET Nat, IsFiniteSet(D), NEW f \in [D -> Nat],
         NEW i \in D, NEW j \in D, Precedes(i, j, f)
  PROVE  Place(i, f) < Place(j, f)
  <1>0. f[i] \in Nat /\ f[j] \in Nat /\ i \in Nat /\ j \in Nat
    OBVIOUS
  <1>1. UpTo(i, f) \subseteq UpTo(j, f) /\ j \in UpTo(j, f) /\ j \notin UpTo(i, f)
    <2>1. ASSUME NEW k \in UpTo(i, f) PROVE k \in UpTo(j, f)
      <3>1. k \in D /\ f[k] \in Nat /\ k \in Nat
        BY DEF UpTo
      <3> QED BY <1>0, <3>1 DEF UpTo, Precedes
    <2>2. j \in UpTo(j, f)
      BY <1>0 DEF UpTo
    <2>3. j \notin UpTo(i, f)
      BY <1>0 DEF UpTo, Precedes
    <2> QED BY <2>1, <2>2, <2>3
  <1>2. IsFiniteSet(UpTo(j, f))
    BY FS_Subset DEF UpTo
  <1>3. /\ Cardinality(UpTo(i, f)) \in Nat /\ Cardinality(UpTo(j, f)) \in Nat
        /\ Cardinality(UpTo(i, f)) <= Cardinality(UpTo(j, f))
        /\ Cardinality(UpTo(i, f)) # Cardinality(UpTo(j, f))
    BY <1>1, <1>2, FS_Subset, FS_CardinalityType
  <1> QED BY <1>3 DEF Place, UpTo

\* The places are 1 to the length of the list, each taken once.
LEMMA PlaceBijection ==
  ASSUME NEW D \in SUBSET Nat, IsFiniteSet(D), NEW f \in [D -> Nat]
  PROVE  [i \in D |-> Place(i, f)] \in Bijection(D, 1..Cardinality(D))
  <1> DEFINE n == Cardinality(D)
             p == [i \in D |-> Place(i, f)]
  <1>0. n \in Nat
    BY FS_CardinalityType
  <1>1. ASSUME NEW i \in D PROVE Place(i, f) \in 1..n
    <2>1. UpTo(i, f) \subseteq D /\ i \in UpTo(i, f)
      BY DEF UpTo
    <2>2. IsFiniteSet(UpTo(i, f)) /\ Cardinality(UpTo(i, f)) <= n
      BY <2>1, FS_Subset
    <2>3. Cardinality(UpTo(i, f)) \in Nat /\ Cardinality(UpTo(i, f)) # 0
      BY <2>1, <2>2, FS_CardinalityType, FS_EmptySet
    <2> QED BY <1>0, <2>2, <2>3 DEF Place, UpTo
  <1>2. p \in [D -> 1..n]
    BY <1>1
  <1>3. ASSUME NEW i \in D, NEW j \in D, p[i] = p[j] PROVE i = j
    <2>1. Precedes(i, j, f) \/ Precedes(j, i, f) \/ i = j
      BY DEF Precedes
    <2>2. Place(i, f) = Place(j, f) /\ Place(i, f) \in Nat
      BY <1>1, <1>3, <1>0
    <2>3. ~Precedes(i, j, f) /\ ~Precedes(j, i, f)
      BY <2>2, PlaceOrder
    <2> QED BY <2>1, <2>3
  <1>4. p \in Injection(D, 1..n)
    <2> HIDE DEF p
    <2> QED BY <1>2, <1>3, Fun_IsInj, Zenon
  <1>5. IsFiniteSet(1..n) /\ Cardinality(1..n) = n
    BY <1>0, FS_Interval
  <1>6. p \in Surjection(D, 1..n)
    <2> HIDE DEF p
    <2> QED BY <1>4, <1>5, FS_Injection
  <1> HIDE DEF p
  <1>7. p \in Bijection(D, 1..n)
    BY <1>4, <1>6, Fun_IsBij
  <1> QED BY <1>7 DEF p

InOrder(n, s) ==
    n \in Nat /\ s \in [1..n -> Nat] /\ \A k, l \in 1..n : k < l => s[k] <= s[l]
SameEntries(s, t) == \A x \in Nat : Occurrences(x, s) = Occurrences(x, t)

\* A sorted list has its entries in order, and each as often as the list.
LEMMA SortedProperties ==
  ASSUME NEW D \in SUBSET Nat, IsFiniteSet(D), NEW f \in [D -> Nat]
  PROVE  InOrder(Cardinality(D), Sorted(f)) /\ SameEntries(Sorted(f), f)
  <1> DEFINE n == Cardinality(D)
             at(k) == CHOOSE i \in D : Place(i, f) = k
             q == [k \in 1..n |-> at(k)]
             s == Sorted(f)
  <1>0. n \in Nat
    BY FS_CardinalityType
  <1>1. /\ \A i \in D : Place(i, f) \in 1..n
        /\ \A i, j \in D : Place(i, f) = Place(j, f) => i = j
        /\ \A k \in 1..n : \E i \in D : Place(i, f) = k
    <2> DEFINE p == [i \in D |-> Place(i, f)]
    <2>1. p \in Bijection(D, 1..n)
      BY PlaceBijection
    <2> HIDE DEF p
    <2>2. /\ p \in [D -> 1..n]
          /\ \A i, j \in D : p[i] = p[j] => i = j
          /\ \A k \in 1..n : \E i \in D : p[i] = k
      <3>1. p \in Injection(D, 1..n) /\ p \in Surjection(D, 1..n)
        BY <2>1, Fun_BijectionProperties
      <3>2. \A i, j \in D : p[i] = p[j] => i = j
        BY <3>1, Fun_InjectionProperties
      <3>3. p \in [D -> 1..n] /\ \A k \in 1..n : \E i \in D : p[i] = k
        BY <3>1, Fun_SurjectionProperties, Zenon
      <3> QED BY <3>2, <3>3
    <2>3. \A i \in D : p[i] = Place(i, f)
      BY DEF p
    <2> QED BY <2>2, <2>3
  <1>2. \A k \in 1..n : at(k) \in D /\ Place(at(k), f) = k
    BY <1>1
  <1>3. \A i \in D : at(Place(i, f)) = i
    BY <1>1, <1>2
  <1>4. DOMAIN f = D /\ s = [k \in 1..n |-> f[at(k)]]
    BY DEF Sorted
  <1> HIDE DEF at, s, n
  <1>5. s \in [1..n -> Nat] /\ \A k \in 1..n : s[k] = f[at(k)]
    BY <1>2, <1>4, Zenon
  <1>6. ASSUME NEW k \in 1..n, NEW l \in 1..n, k < l PROVE s[k] <= s[l]
    <2>1. CASE f[at(l)] < f[at(k)]
      <3>1. Place(at(l), f) < Place(at(k), f)
        BY <1>2, <2>1, PlaceOrder, Zenon DEF Precedes
      <3> QED BY <1>0, <1>2, <1>6, <3>1
    <2> QED BY <1>2, <1>5, <2>1
  <1>7. ASSUME NEW x PROVE Occurrences(x, s) = Occurrences(x, f)
    <2> DEFINE S == {k \in 1..n : s[k] = x}
               T == {i \in D : f[i] = x}
               g == [k \in S |-> at(k)]
    <2>1. g \in [S -> T]
      BY <1>2, <1>5
    <2>2. \A k, l \in S : g[k] = g[l] => k = l
      BY <1>2
    <2>3. \A i \in T : \E k \in S : g[k] = i
      <3> TAKE i \in T
      <3>1. Place(i, f) \in 1..n /\ at(Place(i, f)) = i
        BY <1>1, <1>3
      <3>2. Place(i, f) \in S
        BY <1>5, <3>1
      <3> QED BY <3>1, <3>2
    <2>4. IsFiniteSet(S)
      BY <1>0, FS_Interval, FS_Subset
    <2>5. ExistsBijection(S, T)
      <3> HIDE DEF g, S, T
      <3> QED BY <2>1, <2>2, <2>3, Fun_IsBij DEF ExistsBijection
    <2>6. Cardinality(T) = Cardinality(S)
      <3> HIDE DEF g, S, T
      <3> QED BY <2>4, <2>5, FS_Bijection
    <2>7. Occurrences(x, s) = Cardinality(S) /\ Occurrences(x, f) = Cardinality(T)
      BY <1>4, <1>5 DEF Occurrences
    <2> QED BY <2>6, <2>7
  <1>8. InOrder(n, s) /\ SameEntries(s, f)
    BY <1>0, <1>5, <1>6, <1>7 DEF InOrder, SameEntries
  <1> QED BY <1>8 DEF s, n

\* The lists s and t are the same up to i, where t has a greater entry or none.
Part(i, m, s, n, t) ==
    /\ i \in 1..m
    /\ \A j \in 1..(i - 1) : j \in 1..n /\ s[j] = t[j]
    /\ i \in 1..n => s[i] < t[i]

\* Where two lists part, the one in order has fewer of an entry that the other has
\* earlier, or that it has not at all.
LEMMA FewerAfterParting ==
  ASSUME NEW m, NEW n, NEW s, NEW t, InOrder(m, s), InOrder(n, t), NEW i, Part(i, m, s, n, t)
  PROVE  ~SameEntries(s, t)
  <1> DEFINE x == s[i]
             S == {j \in 1..m : s[j] = x}
             T == {j \in 1..n : t[j] = x}
  <1> USE DEF InOrder, Part
  <1>0. x \in Nat
    OBVIOUS
  <1>1. ASSUME NEW j \in T PROVE j \in S /\ j # i
    <2>1. j \in 1..n /\ t[j] = x /\ j \in Nat /\ i \in Nat
      OBVIOUS
    <2>2. CASE j < i
      BY <2>1, <2>2
    <2>3. CASE j >= i
      <3>1. i \in 1..n /\ x < t[i] /\ t[i] \in Nat
        BY <2>1, <2>3
      <3>2. t[i] <= t[j]
        BY <2>1, <2>3, <3>1
      <3> QED BY <1>0, <2>1, <3>1, <3>2
    <2> QED BY <2>1, <2>2, <2>3
  <1>2. i \in S /\ IsFiniteSet(S)
    BY FS_Interval, FS_Subset
  <1>3. Occurrences(x, t) = Cardinality(T) /\ Occurrences(x, s) = Cardinality(S)
    BY DEF Occurrences
  <1> HIDE DEF S, T
  <1>4. T \in SUBSET S /\ T # S
    BY <1>1, <1>2
  <1>5. Cardinality(T) # Cardinality(S)
    BY <1>2, <1>4, FS_Subset, Zenon
  <1> QED BY <1>0, <1>3, <1>5 DEF SameEntries

\* Two lists in order with the same entries, each as often, are the same.
LEMMA SortedUnique ==
  ASSUME NEW m, NEW n, NEW s, NEW t, InOrder(m, s), InOrder(n, t), SameEntries(s, t)
  PROVE  m = n /\ \A i \in 1..m : s[i] = t[i]
  <1> DEFINE Same(i) == i \in 1..m /\ i \in 1..n /\ s[i] = t[i]
             T == {i \in Nat : (i \in 1..m \/ i \in 1..n) /\ ~Same(i)}
  <1>0. m \in Nat /\ n \in Nat
    BY DEF InOrder
  <1>1. ASSUME T # {} PROVE FALSE
    <2>1. PICK i \in T : \A j \in T : i <= j
      <3> HIDE DEF T
      <3>1. T \in SUBSET Nat
        BY DEF T
      <3> QED BY <1>1, <3>1, Least
    <2>2. i \in Nat /\ (i \in 1..m \/ i \in 1..n) /\ ~Same(i)
      OBVIOUS
    <2>3. ASSUME NEW j \in 1..(i - 1) PROVE j \in 1..m /\ j \in 1..n /\ s[j] = t[j]
      <3>1. j \in Nat /\ j < i /\ (j \in 1..m \/ j \in 1..n)
        BY <1>0, <2>2
      <3>2. j \notin T
        BY <2>1, <2>2, <3>1
      <3> QED BY <3>1, <3>2
    <2>4. CASE i \in 1..m /\ (i \in 1..n => s[i] < t[i])
      <3>1. Part(i, m, s, n, t)
        BY <2>3, <2>4 DEF Part
      <3> QED BY <3>1, FewerAfterParting
    <2>5. CASE i \in 1..n /\ (i \in 1..m => t[i] < s[i])
      <3>1. Part(i, n, t, m, s)
        BY <2>3, <2>5 DEF Part
      <3>2. SameEntries(t, s)
        BY DEF SameEntries
      <3> QED BY <3>1, <3>2, FewerAfterParting
    <2>6. i \in 1..m /\ i \in 1..n => s[i] < t[i] \/ t[i] < s[i]
      BY <2>2 DEF InOrder
    <2> QED BY <2>2, <2>4, <2>5, <2>6
  <1>2. \A i \in Nat : i \in 1..m \/ i \in 1..n => Same(i)
    BY <1>1
  <1>3. \A i \in 1..m : i \in 1..n /\ s[i] = t[i]
    BY <1>2
  <1>4. \A i \in 1..n : i \in 1..m
    BY <1>2
  <1>5. m <= n /\ n <= m
    <2>1. m > 0 => m \in 1..n
      BY <1>3, <1>0
    <2>2. n > 0 => n \in 1..m
      BY <1>4, <1>0
    <2> QED BY <1>0, <2>1, <2>2
  <1> QED BY <1>0, <1>3, <1>5

\* identitiesMatch compares its lists as multisets: it accepts two lists exactly when
\* each identity is as often in the one as in the other.
THEOREM IdentitiesMatchExact ==
  ASSUME NEW A \in SUBSET Nat, IsFiniteSet(A), NEW a \in [A -> Nat],
         NEW B \in SUBSET Nat, IsFiniteSet(B), NEW b \in [B -> Nat]
  PROVE  identitiesMatch(a, b) <=> SameEntries(a, b)
  <1> DEFINE m == Cardinality(A)
             n == Cardinality(B)
             s == Sorted(a)
             t == Sorted(b)
  <1>1. InOrder(m, s) /\ SameEntries(s, a)
    BY SortedProperties
  <1>2. InOrder(n, t) /\ SameEntries(t, b)
    BY SortedProperties
  <1>3. identitiesMatch(a, b) <=> m = n /\ \A i \in 1..m : t[i] = s[i]
    BY DEF identitiesMatch
  <1> HIDE DEF m, n, s, t
  <1>4. ASSUME SameEntries(a, b) PROVE m = n /\ \A i \in 1..m : t[i] = s[i]
    <2>1. SameEntries(s, t)
      BY <1>1, <1>2, <1>4 DEF SameEntries
    <2>2. m = n /\ \A i \in 1..m : s[i] = t[i]
      BY <1>1, <1>2, <2>1, SortedUnique
    <2> QED BY <2>2
  <1>5. ASSUME m = n, \A i \in 1..m : t[i] = s[i] PROVE SameEntries(a, b)
    <2>1. s = t
      BY <1>1, <1>2, <1>5 DEF InOrder
    <2> QED BY <1>1, <1>2, <2>1 DEF SameEntries
  <1> QED BY <1>3, <1>4, <1>5

-----------------------------------------------------------------------------
(***************************************************************************)
(* Key usages. The bits that are left over decide, and of those only the   *)
(* ones of the last byte can be: DER fixes the others.                     *)
(***************************************************************************)

\* The four bytes of an encoded key usage.
LEMMA EncodedBytes ==
  ASSUME NEW bits
  PROVE  /\ Len(EncodedKeyUsage(bits)) = 4
         /\ EncodedKeyUsage(bits)[1] = {0, 1} /\ EncodedKeyUsage(bits)[2] = {1}
         /\ EncodedKeyUsage(bits)[3] \subseteq {0, 1, 2}
         /\ EncodedKeyUsage(bits)[4] = {7 - n : n \in bits}
  <1> DEFINE last == CHOOSE m \in bits : \A n \in bits : n <= m
             unused == {k \in 0..2 : ((7 - last) \div 2^k) % 2 = 1}
             used == {7 - n : n \in bits}
  <1>1. EncodedKeyUsage(bits) = << {0, 1}, {1}, unused, used >>
    BY DEF EncodedKeyUsage
  <1>2. unused \subseteq {0, 1, 2}
    <2>1. unused \subseteq 0..2
      BY Zenon
    <2> HIDE DEF unused
    <2> QED BY <2>1
  <1> HIDE DEF unused
  <1>3. EncodedKeyUsage(bits)[4] = used
    BY <1>1
  <1> QED BY <1>1, <1>2, <1>3

\* validateKeyUsageExtension accepts exactly digitalSignature, keyEncipherment or both.
LEMMA KeyUsageExact ==
  ASSUME NEW value \in Seq(Bytes),
         Len(value) = 4 => LET bits == {7 - n : n \in value[4]}
                           IN  bits # {} /\ value = EncodedKeyUsage(bits)
  PROVE  validateKeyUsageExtension(value)
           <=> \E bits \in (SUBSET {0, 2}) \ {{}} : value = EncodedKeyUsage(bits)
  <1>1. allowedKeyUsages = {<< {0, 1}, {1}, {0, 1, 2}, {7} >>, << {0, 1}, {1}, {0, 2}, {5} >>}
    BY DEF allowedKeyUsages
  <1>2. ASSUME Len(value) = 4
        PROVE  LeftOver(value) = [i \in 1..4 |-> {}]
                 <=> /\ value[1] \subseteq {0, 1} /\ value[2] \subseteq {1}
                     /\ value[3] \subseteq {0, 1, 2} /\ value[4] \subseteq {5, 7}
    <2> DEFINE allowed(i) == UNION {usage[i] : usage \in allowedKeyUsages}
    <2>1. /\ allowed(1) = {0, 1} /\ allowed(2) = {1} /\ allowed(3) = {0, 1, 2}
          /\ allowed(4) = {5, 7}
      BY <1>1
    <2>2. LeftOver(value) = [i \in 1..4 |-> value[i] \ allowed(i)]
      BY DEF LeftOver
    <2> HIDE DEF allowed
    <2>3. LeftOver(value) = [i \in 1..4 |-> {}] <=> \A i \in 1..4 : value[i] \subseteq allowed(i)
      BY <2>2
    <2> QED BY <2>1, <2>3
  <1>3. ASSUME validateKeyUsageExtension(value)
        PROVE  \E bits \in (SUBSET {0, 2}) \ {{}} : value = EncodedKeyUsage(bits)
    <2> DEFINE bits == {7 - n : n \in value[4]}
    <2>1. Len(value) = 4 /\ value[4] \subseteq {5, 7}
      BY <1>2, <1>3 DEF validateKeyUsageExtension
    <2>2. bits # {} /\ value = EncodedKeyUsage(bits)
      BY <2>1
    <2>3. bits \in SUBSET {0, 2}
      BY <2>1
    <2> HIDE DEF bits
    <2> QED BY <2>2, <2>3, Zenon
  <1>4. ASSUME NEW bits \in (SUBSET {0, 2}) \ {{}}, value = EncodedKeyUsage(bits)
        PROVE  validateKeyUsageExtension(value)
    <2>1. /\ Len(value) = 4 /\ value[1] = {0, 1} /\ value[2] = {1} /\ value[3] \subseteq {0, 1, 2}
          /\ value[4] = {7 - n : n \in bits}
      BY <1>4, EncodedBytes, Zenon
    <2>2. value[4] \subseteq {5, 7}
      BY <2>1
    <2> QED BY <1>2, <2>1, <2>2, Zenon DEF validateKeyUsageExtension
  <1> QED BY <1>3, <1>4

-----------------------------------------------------------------------------
(***************************************************************************)
(* The CSR. Once every element has the number of a URI, none is a DNS      *)
(* name, an IP address or an email address, and the URIs are those that    *)
(* x509 reads at all.                                                      *)
(***************************************************************************)
Names(csr) == IF "SubjectAltName" \in csr.present THEN csr.san.names ELSE <<>>
Read(csr) ==
    {i \in 1..Len(Names(csr)) : Names(csr)[i].class = "context" /\ ~Names(csr)[i].compound}
Values(csr) == [i \in Read(csr) |-> Names(csr)[i].value]
OnlyURIs(csr) == \A i \in 1..Len(Names(csr)) : Names(csr)[i].number = asn1TagURI

\* What is parsed of the names.
LEMMA ParsedNames ==
  ASSUME NEW csr \in CertificateRequest
  PROVE  /\ Names(csr) \in Seq(SANElement)
         /\ \A tag : Named(csr, tag) = {i \in Read(csr) : Names(csr)[i].number = tag}
         /\ OnlyURIs(csr) => URIs(csr) = Values(csr)
         /\ OnlyURIs(csr) => \A tag \in {DNSTag, IPTag, emailTag} : Named(csr, tag) = {}
  <1>1. csr.san.names \in Seq(SANElement)
    BY DEF CertificateRequest
  <1>2. Names(csr) \in Seq(SANElement)
    BY <1>1, EmptySeq DEF Names
  <1>3. ASSUME NEW tag
        PROVE  Named(csr, tag) = {i \in Read(csr) : Names(csr)[i].number = tag}
    <2>1. CASE "SubjectAltName" \in csr.present
      <3>1. Names(csr) = csr.san.names
        BY <2>1 DEF Names
      <3> QED BY <2>1, <3>1, Zenon DEF Named, Read
    <2>2. CASE "SubjectAltName" \notin csr.present
      <3>1. Named(csr, tag) = {}
        BY <2>2 DEF Named
      <3>2. Names(csr) = <<>> /\ Len(Names(csr)) = 0
        BY <2>2, EmptySeq DEF Names
      <3>3. 1..Len(Names(csr)) = {}
        BY <3>2
      <3> QED BY <3>1, <3>3 DEF Read
    <2> QED BY <2>1, <2>2
  <1>4. ASSUME OnlyURIs(csr) PROVE URIs(csr) = Values(csr)
    <2>1. Named(csr, asn1TagURI) = Read(csr)
      BY <1>3, <1>4, Zenon DEF OnlyURIs, Read
    <2>2. \A i \in Named(csr, asn1TagURI) : csr.san.names[i] = Names(csr)[i]
      BY DEF Named, Names
    <2> QED BY <2>1, <2>2 DEF URIs, Values
  <1>5. ASSUME OnlyURIs(csr), NEW tag \in {DNSTag, IPTag, emailTag} PROVE Named(csr, tag) = {}
    BY <1>3, <1>5 DEF OnlyURIs, Read, asn1TagURI, DNSTag, IPTag, emailTag
  <1> QED BY <1>2, <1>3, <1>4, <1>5

\* The names have values, and their number is a natural.
LEMMA NamedValues ==
  ASSUME NEW csr \in CertificateRequest
  PROVE  /\ Len(Names(csr)) \in Nat
         /\ \A i \in 1..Len(Names(csr)) : Names(csr)[i].value \in Nat
  <1> DEFINE names == Names(csr)
  <1>1. names \in Seq(SANElement)
    BY ParsedNames, Zenon
  <1> HIDE DEF names
  <1>2. Len(names) \in Nat /\ \A i \in 1..Len(names) : names[i] \in SANElement
    BY <1>1, LenProperties, ElementOfSeq, Zenon
  <1>3. \A i \in 1..Len(names) : names[i].value \in Nat
    BY <1>2 DEF SANElement
  <1> QED BY <1>2, <1>3 DEF names

\* Counting the identities that occur in a list or in the other is counting all.
LEMMA EntriesThatOccur ==
  ASSUME NEW ids \in Seq(Nat), NEW csr \in CertificateRequest
  PROVE  SameEntries(ids, Values(csr))
           <=> \A x \in {ids[i] : i \in 1..Len(ids)}
                         \cup {Names(csr)[i].value : i \in 1..Len(Names(csr))} :
                 Occurrences(x, ids) = Occurrences(x, Values(csr))
  <1> DEFINE occurring == {ids[i] : i \in 1..Len(ids)}
                          \cup {Names(csr)[i].value : i \in 1..Len(Names(csr))}
  <1>1. \A i \in 1..Len(Names(csr)) : Names(csr)[i].value \in Nat
    BY NamedValues
  <1>2. occurring \subseteq Nat
    BY <1>1, ElementOfSeq
  <1>3. ASSUME NEW x \in Nat, x \notin occurring PROVE Occurrences(x, ids) = Occurrences(x, Values(csr))
    <2>1. {i \in DOMAIN ids : ids[i] = x} = {}
      BY <1>3, LenProperties
    <2>2. {i \in DOMAIN Values(csr) : Values(csr)[i] = x} = {}
      BY <1>3 DEF Values, Read
    <2> QED BY <2>1, <2>2, Zenon DEF Occurrences
  <1> HIDE DEF occurring
  <1>4. SameEntries(ids, Values(csr))
          <=> \A x \in occurring : Occurrences(x, ids) = Occurrences(x, Values(csr))
    BY <1>2, <1>3 DEF SameEntries
  <1> QED BY <1>4 DEF occurring

\* The checks of the extensions, one by one.
LEMMA ExtensionsExact ==
  ASSUME NEW csr \in CertificateRequest, DER(csr)
  PROVE  ValidateCSRExtentions(csr)
           <=> /\ csr.present \subseteq {"SubjectAltName", "KeyUsage", "ExtendedKeyUsage"}
               /\ "SubjectAltName" \in csr.present => csr.san.decodes
               /\ OnlyURIs(csr)
               /\ "KeyUsage" \in csr.present =>
                    \E bits \in (SUBSET {0, 2}) \ {{}} : csr.keyUsage = EncodedKeyUsage(bits)
               /\ "ExtendedKeyUsage" \in csr.present =>
                    /\ csr.extKeyUsage.decodes
                    /\ csr.extKeyUsage.usages \subseteq {"ClientAuth", "ServerAuth"}
  <1>1. "other" \notin csr.present
          <=> csr.present \subseteq {"SubjectAltName", "KeyUsage", "ExtendedKeyUsage"}
    <2>1. csr.present \subseteq ExtensionIds
      BY DEF CertificateRequest
    <2> QED BY <2>1 DEF ExtensionIds
  <1>2. ("SubjectAltName" \in csr.present => validateSubjectAltNameExtension(csr.san))
          <=> ("SubjectAltName" \in csr.present => csr.san.decodes) /\ OnlyURIs(csr)
    <2>1. CASE "SubjectAltName" \in csr.present
      BY <2>1 DEF validateSubjectAltNameExtension, OnlyURIs, Names
    <2>2. CASE "SubjectAltName" \notin csr.present
      <3>1. 1..Len(Names(csr)) = {}
        BY <2>2, EmptySeq DEF Names
      <3> QED BY <2>2, <3>1 DEF OnlyURIs
    <2> QED BY <2>1, <2>2
  <1>3. ASSUME "KeyUsage" \in csr.present
        PROVE  validateKeyUsageExtension(csr.keyUsage)
                 <=> \E bits \in (SUBSET {0, 2}) \ {{}} : csr.keyUsage = EncodedKeyUsage(bits)
    <2>1. csr.keyUsage \in Seq(Bytes)
      BY DEF CertificateRequest
    <2>2. Len(csr.keyUsage) = 4 =>
            LET bits == {7 - n : n \in csr.keyUsage[4]}
            IN  bits # {} /\ csr.keyUsage = EncodedKeyUsage(bits)
      BY <1>3 DEF DER
    <2> QED BY <2>1, <2>2, KeyUsageExact, Zenon
  <1> QED
    BY <1>1, <1>2, <1>3, Zenon DEF ValidateCSRExtentions, validateExtendedKeyUsageExtension

\* authRequest accepts a CSR in DER exactly when the URIs x509 reads in it are the
\* identities, each as often, all its SubjectAltName elements have a URI's number, and it
\* asks for no common name and nothing but the two key usages and two extended key
\* usages; whatever the identities, their number and order, the extensions and the other
\* attributes, which are not looked at.
THEOREM CSRAllowedExact ==
  ASSUME NEW ids \in Seq(Nat), NEW csr \in CertificateRequest, DER(csr)
  PROVE  CSRAllowed(ids, csr) <=> Permitted(ids, csr)
  <1>1. ASSUME OnlyURIs(csr)
        PROVE  identitiesMatch(ids, URIs(csr)) <=> SameEntries(ids, Values(csr))
    <2> DEFINE A == 1..Len(ids)
               B == Read(csr)
    <2>1. A \in SUBSET Nat /\ IsFiniteSet(A) /\ ids \in [A -> Nat]
      <3>1. Len(ids) \in Nat
        BY LenProperties
      <3>2. IsFiniteSet(A)
        BY <3>1, FS_Interval
      <3>3. ids \in [A -> Nat]
        BY <3>1
      <3> QED BY <3>1, <3>2, <3>3
    <2>2. B \in SUBSET Nat /\ IsFiniteSet(B)
      <3>1. Len(Names(csr)) \in Nat /\ B \subseteq 1..Len(Names(csr))
        BY NamedValues DEF Read
      <3>2. IsFiniteSet(1..Len(Names(csr)))
        BY <3>1, FS_Interval
      <3>3. IsFiniteSet(B)
        BY <3>1, <3>2, FS_Subset
      <3> QED BY <3>1, <3>3
    <2>3. Values(csr) \in [B -> Nat]
      BY NamedValues DEF Values, Read
    <2> HIDE DEF A, B
    <2>4. identitiesMatch(ids, Values(csr)) <=> SameEntries(ids, Values(csr))
      BY <2>1, <2>2, <2>3, IdentitiesMatchExact
    <2>5. URIs(csr) = Values(csr)
      BY <1>1, ParsedNames
    <2> QED BY <2>4, <2>5
  <1>2. Permitted(ids, csr)
          <=> /\ csr.verifies /\ ~csr.commonName
              /\ ValidateCSRExtentions(csr)
              /\ SameEntries(ids, Values(csr))
    <2> DEFINE ByName(x) == {i \in 1..Len(Names(csr)) :
                              /\ Names(csr)[i].class = "context" /\ ~Names(csr)[i].compound
                              /\ Names(csr)[i].value = x}
    <2>1. \A x : Occurrences(x, Values(csr)) = Cardinality(ByName(x))
      <3>1. \A x : {i \in DOMAIN Values(csr) : Values(csr)[i] = x} = ByName(x)
        BY DEF Values, Read
      <3> QED BY <3>1 DEF Occurrences
    <2>2. SameEntries(ids, Values(csr))
            <=> \A x \in {ids[i] : i \in 1..Len(ids)}
                          \cup {Names(csr)[i].value : i \in 1..Len(Names(csr))} :
                  Occurrences(x, ids) = Cardinality(ByName(x))
      BY <2>1, EntriesThatOccur, Zenon
    <2> QED BY <2>2, ExtensionsExact, Zenon DEF Permitted, OnlyURIs, Names
  <1>3. ValidateCSRExtentions(csr) => OnlyURIs(csr)
    BY ExtensionsExact
  <1>4. OnlyURIs(csr) => \A tag \in {DNSTag, IPTag, emailTag} : Named(csr, tag) = {}
    BY ParsedNames
  <1> QED BY <1>1, <1>2, <1>3, <1>4, Zenon DEF CSRAllowed

\* A CSR that is accepted, in DER or not, asks for no key usages but the two permitted
\* ones, and is permitted in everything else.
THEOREM AllowedAsksForNoMore ==
  ASSUME NEW ids \in Seq(Nat), NEW csr \in CertificateRequest, CSRAllowed(ids, csr)
  PROVE  Permitted(ids, WithoutKeyUsage(csr)) /\ KeyUsageBits(csr) \subseteq {0, 2}
  <1> DEFINE rest == WithoutKeyUsage(csr)
  <1>1. /\ rest \in CertificateRequest
        /\ rest.present = csr.present \ {"KeyUsage"}
        /\ rest.verifies = csr.verifies /\ rest.commonName = csr.commonName
        /\ rest.san = csr.san /\ rest.extKeyUsage = csr.extKeyUsage
    BY Zenon DEF CertificateRequest, WithoutKeyUsage
  <1> HIDE DEF rest
  <1>2. DER(rest)
    BY <1>1 DEF DER
  <1>3. \A tag : Named(rest, tag) = Named(csr, tag)
    BY <1>1 DEF Named
  <1>4. URIs(rest) = URIs(csr)
    BY <1>1, <1>3 DEF URIs
  <1>5. ValidateCSRExtentions(rest)
    BY <1>1 DEF CSRAllowed, ValidateCSRExtentions
  <1>6. CSRAllowed(ids, rest)
    BY <1>1, <1>3, <1>4, <1>5 DEF CSRAllowed
  <1>7. Permitted(ids, rest)
    BY <1>1, <1>2, <1>6, CSRAllowedExact
  <1>8. ASSUME "KeyUsage" \in csr.present PROVE csr.keyUsage[4] \subseteq {5, 7}
    <2>1. LeftOver(csr.keyUsage) = [i \in 1..4 |-> {}]
      BY <1>8 DEF CSRAllowed, ValidateCSRExtentions, validateKeyUsageExtension
    <2>2. csr.keyUsage[4] \ UNION {usage[4] : usage \in allowedKeyUsages} = {}
      BY <2>1 DEF LeftOver
    <2>3. UNION {usage[4] : usage \in allowedKeyUsages} = {5, 7}
      BY DEF allowedKeyUsages
    <2> QED BY <2>2, <2>3
  <1>9. KeyUsageBits(csr) \subseteq {0, 2}
    BY <1>8 DEF KeyUsageBits
  <1> QED BY <1>7, <1>9 DEF rest
====
