------------------------------- MODULE CSRPolicy -------------------------------
(***************************************************************************)
(* What pkg/server accepts in a certificate signing request: the last part *)
(* of authRequest, identitiesMatch, and internal/extensions. Pure          *)
(* operators; decoding (x509, asn1, net/url) is external.                  *)
(*                                                                         *)
(* A byte is the set of its bits. An identity is a number, so that         *)
(* identities have an order. An element of the SubjectAltName extension    *)
(* has the class, form and number of its ASN.1 identifier and, when x509   *)
(* takes it for a URI, the string that url.URL.String() gives for it.      *)
(***************************************************************************)
EXTENDS Naturals, Sequences, FiniteSets

Bytes == SUBSET (0..7)

\* Of a CSR: does it decode and is its signature good; is Subject.CommonName not
\* empty; what else it holds besides extensions: other attributes of the subject, and
\* attributes other than the request for extensions; which extensions it asks for,
\* and their values.
ExtensionIds == {"SubjectAltName", "KeyUsage", "ExtendedKeyUsage", "other"}
Classes == {"universal", "application", "context", "private"}
SANElement == [class : Classes, compound : BOOLEAN, number : Nat, value : Nat]
CertificateRequest ==
    [verifies : BOOLEAN, commonName : BOOLEAN, others : SUBSET {"subject", "attributes"},
     present : SUBSET ExtensionIds,
     san : [decodes : BOOLEAN, names : Seq(SANElement)],
     keyUsage : Seq(Bytes),
     extKeyUsage : [decodes : BOOLEAN, usages : SUBSET STRING]]

-----------------------------------------------------------------------------
(* internal/extensions *)

\* {3, 2, 7, 128} and {3, 2, 5, 32}
allowedKeyUsages == {<< {0, 1}, {1}, {0, 1, 2}, {7} >>, << {0, 1}, {1}, {0, 2}, {5} >>}

\* Clear the allowed bits, then nothing may be left.
LeftOver(value) == [i \in 1..4 |-> value[i] \ UNION {usage[i] : usage \in allowedKeyUsages}]

validateKeyUsageExtension(value) ==
    Len(value) = 4 /\ LeftOver(value) = [i \in 1..4 |-> {}]

validateExtendedKeyUsageExtension(ext) ==
    ext.decodes /\ ext.usages \subseteq {"ClientAuth", "ServerAuth"}

asn1TagURI == 6

\* One well-encoded sequence. Of each element's identifier only the number is
\* compared, neither its class nor its form.
validateSubjectAltNameExtension(ext) ==
    ext.decodes /\ \A i \in 1..Len(ext.names) : ext.names[i].number = asn1TagURI

ValidateCSRExtentions(csr) ==
    /\ "other" \notin csr.present
    /\ "SubjectAltName" \in csr.present => validateSubjectAltNameExtension(csr.san)
    /\ "KeyUsage" \in csr.present => validateKeyUsageExtension(csr.keyUsage)
    /\ "ExtendedKeyUsage" \in csr.present => validateExtendedKeyUsageExtension(csr.extKeyUsage)

-----------------------------------------------------------------------------
(* auth.go *)

\* Where x509.ParseCertificateRequest finds names of a kind in the SubjectAltName
\* extension: it reads elements that are context-specific and primitive, and leaves
\* out the others and all other kinds. And the list of URIs it reads there, each at
\* its position in the extension.
emailTag == 1
DNSTag == 2
IPTag == 7
Named(csr, tag) ==
    {i \in 1..Len(csr.san.names) :
        /\ "SubjectAltName" \in csr.present
        /\ csr.san.names[i].class = "context" /\ ~csr.san.names[i].compound
        /\ csr.san.names[i].number = tag}
URIs(csr) == [i \in Named(csr, asn1TagURI) |-> csr.san.names[i].value]

\* Go's stable sort, of strings and of URLs by their strings: an entry's place is
\* after the smaller ones and after the equal ones that came before it.
Place(i, list) ==
    Cardinality({j \in DOMAIN list : list[j] < list[i] \/ (list[j] = list[i] /\ j <= i)})
Sorted(list) ==
    [k \in 1..Cardinality(DOMAIN list) |-> list[CHOOSE i \in DOMAIN list : Place(i, list) = k]]

MutantIdentitiesMatch(a, b) == \A i \in DOMAIN a : \E j \in DOMAIN b : a[i] = b[j]
identitiesMatch(a, b) ==
    /\ Cardinality(DOMAIN a) = Cardinality(DOMAIN b)
    /\ \A i \in 1..Cardinality(DOMAIN a) : Sorted(b)[i] = Sorted(a)[i]

\* authRequest, once the identities the CSR may ask for are known.
MutantCSRAllowed(ids, csr) ==
    /\ csr.verifies /\ ~csr.commonName
    /\ \A tag \in {DNSTag, IPTag, emailTag} : Named(csr, tag) = {}
    /\ identitiesMatch(ids, URIs(csr))
CSRAllowed(ids, csr) ==
    /\ csr.verifies
    /\ \A tag \in {DNSTag, IPTag, emailTag} : Named(csr, tag) = {}
    /\ ~csr.commonName
    /\ ValidateCSRExtentions(csr)
    /\ identitiesMatch(ids, URIs(csr))

-----------------------------------------------------------------------------
(* The same, declaratively: RFC 5280 key usages and multisets of names.      *)

\* The DER encoding of a nonempty set of named key usage bits, 0 to 7.
EncodedKeyUsage(bits) ==
    LET last == CHOOSE m \in bits : \A n \in bits : n <= m
        unused == 7 - last
    IN  << {0, 1}, {1}, {k \in 0..2 : (unused \div 2^k) % 2 = 1}, {7 - n : n \in bits} >>

\* A key usage of one byte is in DER: no more bits than up to the last one set.
DER(csr) ==
    "KeyUsage" \in csr.present /\ Len(csr.keyUsage) = 4 =>
        LET bits == {7 - n : n \in csr.keyUsage[4]}
        IN  bits # {} /\ csr.keyUsage = EncodedKeyUsage(bits)

Occurrences(x, list) == Cardinality({i \in DOMAIN list : list[i] = x})

\* What may be signed for a workload: the URIs that x509 reads, and so a certificate's
\* reader sees, are exactly the identities, each as often as the caller has it; there
\* are no names of other kinds, no common name and no key usage or extension but
\* digitalSignature (0), keyEncipherment (2), clientAuth and serverAuth. Let through
\* besides: whatever csr.others holds, and elements that share nothing with a URI but
\* the number in their identifier.
Permitted(ids, csr) ==
    LET names == IF "SubjectAltName" \in csr.present THEN csr.san.names ELSE <<>>
        IsURI(name) == name.class = "context" /\ ~name.compound
        ByName(x) == {i \in 1..Len(names) : IsURI(names[i]) /\ names[i].value = x}
    IN  /\ csr.verifies /\ ~csr.commonName
        /\ csr.present \subseteq {"SubjectAltName", "KeyUsage", "ExtendedKeyUsage"}
        /\ "SubjectAltName" \in csr.present => csr.san.decodes
        /\ \A i \in 1..Len(names) : names[i].number = asn1TagURI
        /\ \A x \in {ids[i] : i \in 1..Len(ids)} \cup {names[i].value : i \in 1..Len(names)} :
             Occurrences(x, ids) = Cardinality(ByName(x))
        /\ "KeyUsage" \in csr.present =>
             \E bits \in (SUBSET {0, 2}) \ {{}} : csr.keyUsage = EncodedKeyUsage(bits)
        /\ "ExtendedKeyUsage" \in csr.present =>
             csr.extKeyUsage.decodes /\ csr.extKeyUsage.usages \subseteq {"ClientAuth", "ServerAuth"}

\* What a CSR asks for besides key usages, and the key usage bits it asks for.
WithoutKeyUsage(csr) == [csr EXCEPT !.present = @ \ {"KeyUsage"}]
KeyUsageBits(csr) ==
    IF "KeyUsage" \in csr.present THEN {7 - n : n \in csr.keyUsage[4]} ELSE {}
====
