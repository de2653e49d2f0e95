----------------------------- MODULE MCGRPCServer -----------------------------
(* Instances of GRPCServer for TLC. *)
EXTENDS GRPCServer

CONSTANTS proxy, app, n1, n2   \* pods: a node proxy (account 1) and a workload (account 2)

Pod(i, n) == [uid |-> 1, sa |-> i, node |-> n]

\* The proxy runs; the workload runs on another node or is about to be scheduled. A
\* pod deleted and created again is unscheduled too.
SampleInitialPods ==
    {[p \in PodNames |-> IF p = proxy THEN Pod(1, n1) ELSE Pod(2, n)] : n \in {n2, NoNode}}
SamplePodAccounts == [p \in PodNames |-> IF p = proxy THEN {1} ELSE {2}]

\* Identity 3 is the workload's in another trust domain; 9 does not parse.
SampleAccount == [i \in 1..3 |-> IF i = 3 THEN 2 ELSE i]

NoToken == [pod |-> NoPod, uid |-> 0]
SampleRequests ==
    [hasCert : {TRUE}, cert : {<<>>, <<2, 1, 1>>}, token : {NoToken}, impersonated : {0}]
    \cup [hasCert : {FALSE}, cert : {<<>>}, token : [pod : {proxy}, uid : {1}], impersonated : {0, 2}]
    \cup [hasCert : {FALSE}, cert : {<<>>}, token : [pod : {proxy}, uid : {3}], impersonated : {3, 9}]

\* The CSR of an Istio agent with account 1, and variations of it: other names, one in
\* constructed form, an organization, key usages (one of nine bits, one not in DER),
\* other extensions.
Name(n, i) == [class |-> "context", compound |-> FALSE, number |-> n, value |-> i]
URI(i) == Name(asn1TagURI, i)
AgentCSR ==
    [verifies |-> TRUE, commonName |-> FALSE, others |-> {}, present |-> {"SubjectAltName"},
     san |-> [decodes |-> TRUE, names |-> <<URI(1)>>],
     keyUsage |-> <<>>, extKeyUsage |-> [decodes |-> TRUE, usages |-> {}]]
SampleNames ==
    {<<URI(1), Name(DNSTag, 1)>>, <<URI(1), Name(0, 1)>>, <<URI(1), [URI(2) EXCEPT !.compound = TRUE]>>}
    \cup {<<URI(i)>> : i \in {1, 2}}
    \cup {<<URI(1), URI(i), URI(2)>> : i \in {1, 2}}
SampleKeyUsages ==
    {EncodedKeyUsage(bits) : bits \in {{0, 2}, {0, 5}}}
        \cup {<< {0, 1}, {0, 1}, {0, 1, 2}, {7}, {7} >>, << {0, 1}, {1}, {}, {} >>}
SampleCSRs ==
    {[AgentCSR EXCEPT !.verifies = FALSE], [AgentCSR EXCEPT !.commonName = TRUE],
     [AgentCSR EXCEPT !.others = {"subject"}],
     [AgentCSR EXCEPT !.present = {}], [AgentCSR EXCEPT !.present = @ \cup {"other"}],
     [AgentCSR EXCEPT !.san.decodes = FALSE]}
    \cup {[AgentCSR EXCEPT !.san.names = names] : names \in SampleNames}
    \cup {[AgentCSR EXCEPT !.present = @ \cup {"KeyUsage"}, !.keyUsage = k] : k \in SampleKeyUsages}
    \cup {[AgentCSR EXCEPT !.present = @ \cup {"ExtendedKeyUsage"}, !.extKeyUsage = e] :
            e \in [decodes : {TRUE}, usages : {{"ClientAuth"}, {"ServerAuth", "CodeSigning"}}]}

\* In ten-nanosecond seconds and eight bits: 12 fits, 13 does not.
OverflowingValidities == {6, 12, 13}
====
