---------------------------- MODULE NodeAuthorizer ----------------------------
(***************************************************************************)
(* pkg/server/node_auth.go: may a node proxy ask for the identity of a     *)
(* workload? The ClusterNodeAuthorizer decides on its pod informer. Pods,  *)
(* the API server and the informer are external: versions is what the API  *)
(* server stored for each pod name, one after the other, and at the        *)
(* version the informer has got to. A version, once seen, is not seen to   *)
(* go back, but others may be skipped.                                     *)
(***************************************************************************)
EXTENDS Naturals, Sequences

CONSTANTS
    PodNames, Nodes,
    ServiceAccounts,         \* numbers
    Account,                 \* of each identity that parses, the account it names; an
                             \* account's number is its identity in the mesh's trust domain
    NoPod, NoNode,           \* no such pod; not scheduled yet
    CATrustedNodeAccounts,   \* the option; Malformed is an entry without "/"
    Malformed,
    PodAccounts,             \* the accounts pods of a name may run as
    InitialPods,             \* pods there may be at first, by name
    MaxChanges               \* bound: changes made by the environment

ASSUME NodeAuthorizerAssumption ==
    /\ ServiceAccounts \subseteq Nat \ {0} /\ NoNode \notin Nodes
    /\ DOMAIN Account \subseteq Nat \ {0}
    /\ \A i \in DOMAIN Account : Account[i] \in ServiceAccounts
    /\ \A sa \in ServiceAccounts : sa \in DOMAIN Account /\ Account[sa] = sa
    /\ NoPod \notin [uid : Nat, sa : ServiceAccounts, node : Nodes \cup {NoNode}]
    /\ CATrustedNodeAccounts \subseteq ServiceAccounts \cup {Malformed}
    /\ PodAccounts \in [PodNames -> SUBSET ServiceAccounts]
    /\ InitialPods \subseteq
         [PodNames -> {NoPod} \cup [uid : {1}, sa : ServiceAccounts, node : Nodes \cup {NoNode}]]
    /\ MaxChanges \in Nat

VARIABLES versions, at, changes

podVars == <<versions, at, changes>>

Pods == [uid : Nat, sa : ServiceAccounts, node : Nodes \cup {NoNode}]

PodsTypeOK ==
    /\ versions \in [PodNames -> Seq(Pods \cup {NoPod})]
    /\ at \in [PodNames -> Nat] /\ changes \in Nat

\* NewClusterNodeAuthorizer waits for the informer to sync.
PodsInit ==
    /\ \E pods \in InitialPods : versions = [p \in PodNames |-> <<pods[p]>>]
    /\ at = [p \in PodNames |-> 1] /\ changes = 0

Current(p) == versions[p][Len(versions[p])]
Cached(p) == versions[p][at[p]]

-----------------------------------------------------------------------------
(* The API server and the informer. *)

Change == changes < MaxChanges /\ changes' = changes + 1

Store(p, pod) ==
    /\ Change
    /\ versions' = [versions EXCEPT ![p] = Append(@, pod)]
    /\ UNCHANGED at

CreatePod(p, sa) ==
    /\ Current(p) = NoPod
    /\ Store(p, [uid |-> Len(versions[p]) + 1, sa |-> sa, node |-> NoNode])

\* A pod is scheduled once; its service account never changes.
SchedulePod(p, n) ==
    /\ Current(p) # NoPod /\ Current(p).node = NoNode
    /\ Store(p, [Current(p) EXCEPT !.node = n])

DeletePod(p) == Current(p) # NoPod /\ Store(p, NoPod)

ChangePods ==
    \E p \in PodNames :
        \/ \E sa \in PodAccounts[p] : CreatePod(p, sa)
        \/ \E n \in Nodes : SchedulePod(p, n)
        \/ DeletePod(p)

InformerUpdate(p) ==
    /\ \E k \in at[p] + 1 .. Len(versions[p]) : at' = [at EXCEPT ![p] = k]
    /\ UNCHANGED <<versions, changes>>

-----------------------------------------------------------------------------

trustedNodeAccounts == CATrustedNodeAccounts \ {Malformed}

\* Server.nodeAuthorizer is not nil.
HasNodeAuthorizer == CATrustedNodeAccounts # {}

\* spiffe.ParseIdentity: identities of any trust domain parse.
Parses(identity) == identity \in DOMAIN Account

MutantUIDMatches(info) == TRUE
UIDMatches(info) == Cached(info.pod).uid = info.uid

\* authenticateImpersonation, up to the pod the caller runs in.
CallerFound(info, identity) ==
    /\ info.sa \in trustedNodeAccounts
    /\ Parses(identity)
    /\ Cached(info.pod) # NoPod
    /\ UIDMatches(info)
    /\ Cached(info.pod).sa = info.sa

\* The (service account, node) index; the API server gives every pod an account.
MutantIndexed(p) == Cached(p) # NoPod /\ Cached(p).node = NoNode
Indexed(p) == Cached(p) # NoPod /\ Cached(p).node # NoNode

\* nodeIndex.Lookup, by the account; the trust domain is not compared.
FoundOnNode(identity, n) ==
    \E p \in PodNames : Indexed(p) /\ Cached(p).sa = Account[identity] /\ Cached(p).node = n
====
