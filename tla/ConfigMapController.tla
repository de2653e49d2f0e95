-------------------------- MODULE ConfigMapController --------------------------
(***************************************************************************)
(* pkg/controller: the controller that writes the root CAs into the        *)
(* istio-ca-root-cert ConfigMap of every selected namespace. It takes the  *)
(* root CAs from a RootCAsFeed, which TLSProvider implements. The API      *)
(* server, the informers and the workqueue are external; informers lag.    *)
(***************************************************************************)
EXTENDS Naturals, FiniteSets

CONSTANTS
    Roots, NoRoots, Namespaces,
    NoMap,                    \* the ConfigMap does not exist
    OtherData,                \* root-cert.pem missing or with other contents
    MaxConcurrentReconciles,
    MaxChanges, MaxFaults     \* bounds: root CA changes; failures and edits by others

ASSUME ControllerAssumption ==
    /\ NoRoots \notin Roots /\ OtherData \notin Roots /\ NoRoots # OtherData
    /\ NoMap \notin [data : Roots \cup {OtherData}, extra : BOOLEAN, label : BOOLEAN]
    /\ MaxConcurrentReconciles \in Nat \ {0}
    /\ MaxChanges \in Nat \ {0} /\ MaxFaults \in Nat

VARIABLES
    rootCAs, events,   \* the tls provider's feed
    phase,      \* API server: each namespace is absent, unselected, active or terminating
    configMap,  \* API server: each namespace's istio-ca-root-cert
    seen,       \* the namespace informer's copy of phase
    unseen,     \* namespaces whose ConfigMap event is not delivered yet
    leader,     \* the controller runs
    hpc, hroot, \* the root CA event handler and the root CAs it read
    rootCAsPEM, \* configmap.rootCAsPEM
    queue,      \* the workqueue
    rpc, root, found,   \* each namespace's Reconcile, the root CAs and the ConfigMap it read
    outdated,   \* namespaces whose ConfigMap changed since Reconcile's Get
    changes, faults

feedVars == <<rootCAs, events>>
apiVars  == <<phase, configMap>>
infVars  == <<seen, unseen>>
hVars    == <<hpc, hroot, rootCAsPEM>>
recVars  == <<rpc, root, found>>
bounds   == <<changes, faults>>
vars == <<feedVars, apiVars, infVars, leader, hVars, queue, recVars, outdated, bounds>>

Feed == INSTANCE RootCAsFeed

Phases == {"absent", "unselected", "active", "terminating"}
Maps == [data : Roots \cup {OtherData}, extra : BOOLEAN, label : BOOLEAN]

TypeOK ==
    /\ rootCAs \in Roots \cup {NoRoots} /\ events \in Nat
    /\ phase \in [Namespaces -> Phases] /\ seen \in [Namespaces -> Phases]
    /\ configMap \in [Namespaces -> Maps \cup {NoMap}]
    /\ unseen \in SUBSET Namespaces /\ queue \in SUBSET Namespaces
    /\ outdated \in SUBSET Namespaces
    /\ leader \in BOOLEAN
    /\ hpc \in {"idle", "read", "store", "list"} /\ hroot \in Roots \cup {NoRoots}
    /\ rootCAsPEM \in Roots \cup {NoRoots}
    /\ rpc \in [Namespaces -> {"idle", "root", "get", "write"}]
    /\ root \in [Namespaces -> Roots \cup {NoRoots}]
    /\ found \in [Namespaces -> Maps \cup {NoMap}]
    /\ changes \in Nat /\ faults \in Nat

\* The parts of the state that are in the process.
ProcessInit ==
    /\ Feed!Init
    /\ seen = phase /\ unseen = {} /\ leader = FALSE
    /\ hpc = "idle" /\ hroot = NoRoots /\ rootCAsPEM = NoRoots /\ queue = {}
    /\ rpc = [n \in Namespaces |-> "idle"] /\ root = [n \in Namespaces |-> NoRoots]
    /\ found = [n \in Namespaces |-> NoMap] /\ outdated = {}

\* A ConfigMap is there when an earlier process wrote it.
Init ==
    /\ phase \in [Namespaces -> {"absent", "active"}]
    /\ configMap \in [Namespaces -> {NoMap} \cup [data : Roots, extra : {FALSE}, label : {TRUE}]]
    /\ \A n \in Namespaces : phase[n] = "absent" => configMap[n] = NoMap
    /\ ProcessInit
    /\ changes = 0 /\ faults = 0

-----------------------------------------------------------------------------
(* The tls provider, the API server and leader election (external). *)

ChangeRootCAs(r) ==
    /\ Feed!Change(r)
    /\ changes < MaxChanges /\ changes' = changes + 1
    /\ UNCHANGED <<apiVars, infVars, leader, hVars, queue, recVars, outdated, faults>>

Fault == faults < MaxFaults /\ faults' = faults + 1

StoreConfigMap(n, m) ==
    /\ configMap' = [configMap EXCEPT ![n] = m]
    /\ outdated' = outdated \cup {n} /\ unseen' = unseen \cup {n}

Follows(p) ==
    CASE p = "absent" -> {"unselected", "active"}
      [] p = "unselected" -> {"active", "terminating"}
      [] p = "active" -> {"unselected", "terminating"}
      [] p = "terminating" -> {"absent"}

EditNamespace(n, p) ==
    /\ Fault
    /\ p \in Follows(phase[n]) /\ phase' = [phase EXCEPT ![n] = p]
    /\ IF p = "absent" /\ configMap[n] # NoMap
       THEN StoreConfigMap(n, NoMap)
       ELSE UNCHANGED <<configMap, outdated, unseen>>
    /\ UNCHANGED <<feedVars, seen, leader, hVars, queue, recVars, changes>>

\* Somebody else creates, edits or deletes the ConfigMap.
EditConfigMap(n, m) ==
    /\ Fault
    /\ m # configMap[n] /\ StoreConfigMap(n, m)
    /\ phase[n] # "absent" /\ (phase[n] = "terminating" => m = NoMap)
    /\ UNCHANGED <<feedVars, phase, seen, leader, hVars, queue, recVars, changes>>

Elected ==
    /\ ~leader /\ leader' = TRUE
    /\ queue' = {n \in Namespaces : seen[n] # "absent" \/ configMap[n] # NoMap}
    /\ UNCHANGED <<feedVars, apiVars, infVars, hVars, recVars, outdated, bounds>>

\* An informer catches up and the controller enqueues the namespace's request.
Inform(n) ==
    /\ \/ /\ seen[n] # phase[n] /\ seen' = [seen EXCEPT ![n] = phase[n]]
          /\ UNCHANGED unseen
       \/ n \in unseen /\ unseen' = unseen \ {n} /\ UNCHANGED seen
    /\ queue' = IF leader THEN queue \cup {n} ELSE queue
    /\ UNCHANGED <<feedVars, apiVars, leader, hVars, recVars, outdated, bounds>>

-----------------------------------------------------------------------------
(* The handler of root CA events, one event at a time. *)

TakeEvent ==
    /\ leader /\ hpc = "idle"
    /\ Feed!Take
    /\ hpc' = "read"
    /\ UNCHANGED <<apiVars, infVars, leader, hroot, rootCAsPEM, queue, recVars, outdated, bounds>>

\* RootCAs() blocks until there are root CAs.
ReadRootCAs ==
    /\ hpc = "read" /\ rootCAs # NoRoots
    /\ hroot' = rootCAs /\ hpc' = "store"
    /\ UNCHANGED <<feedVars, apiVars, infVars, leader, rootCAsPEM, queue, recVars, outdated, bounds>>

StoreRootCAs ==
    /\ hpc = "store"
    /\ rootCAsPEM' = hroot /\ hroot' = NoRoots /\ hpc' = "list"
    /\ UNCHANGED <<feedVars, apiVars, infVars, leader, queue, recVars, outdated, bounds>>

\* The namespaces whose labels match, whatever their phase.
MutantSelected == {n \in Namespaces : configMap[n] = NoMap /\ seen[n] = "active"}
Selected == {n \in Namespaces : seen[n] \in {"active", "terminating"}}

ListNamespaces ==
    /\ hpc = "list" /\ hpc' = "idle"
    /\ queue' = queue \cup Selected
    /\ UNCHANGED <<feedVars, apiVars, infVars, leader, hroot, rootCAsPEM, recVars, outdated, bounds>>

\* The process ends, by os.Exit when List fails or otherwise, and is started anew.
Restart ==
    /\ Fault
    /\ rootCAs' = NoRoots /\ events' = 0
    /\ seen' = phase /\ unseen' = {} /\ leader' = FALSE
    /\ hpc' = "idle" /\ hroot' = NoRoots /\ rootCAsPEM' = NoRoots /\ queue' = {}
    /\ rpc' = [n \in Namespaces |-> "idle"] /\ root' = [n \in Namespaces |-> NoRoots]
    /\ found' = [n \in Namespaces |-> NoMap] /\ outdated' = {}
    /\ changes' = 0 /\ UNCHANGED apiVars

-----------------------------------------------------------------------------
(* Reconcile. The workqueue keeps a request that arrives while it is being   *)
(* processed, and never processes one request twice at a time.              *)

ReadNamespace(n) ==
    /\ leader /\ n \in queue /\ rpc[n] = "idle"
    /\ Cardinality({k \in Namespaces : rpc[k] # "idle"}) < MaxConcurrentReconciles
    /\ queue' = queue \ {n}
    /\ rpc' = [rpc EXCEPT ![n] = IF seen[n] = "active" THEN "root" ELSE "idle"]
    /\ UNCHANGED <<feedVars, apiVars, infVars, leader, hVars, root, found, outdated, bounds>>

\* "RootCAs cache not ready, requeuing"
MutantCacheNotReady == FALSE
CacheNotReady == rootCAsPEM = NoRoots

ReadCache(n) ==
    /\ rpc[n] = "root"
    /\ IF CacheNotReady
       THEN rpc' = [rpc EXCEPT ![n] = "idle"] /\ queue' = queue \cup {n} /\ UNCHANGED root
       ELSE /\ rpc' = [rpc EXCEPT ![n] = "get"]
            /\ root' = [root EXCEPT ![n] = rootCAsPEM] /\ UNCHANGED queue
    /\ UNCHANGED <<feedVars, apiVars, infVars, leader, hVars, found, outdated, bounds>>

Desired(r) == [data |-> r, extra |-> FALSE, label |-> TRUE]

\* The ConfigMap is to be created or updated.
MutantUpdateNeeded(m, r) == m = NoMap \/ m.data # r \/ m.extra
UpdateNeeded(m, r) == m = NoMap \/ m.extra \/ m.data # r \/ ~m.label

GetConfigMap(n) ==
    /\ rpc[n] = "get"
    /\ outdated' = outdated \ {n}
    /\ IF UpdateNeeded(configMap[n], root[n])
       THEN /\ rpc' = [rpc EXCEPT ![n] = "write"]
            /\ found' = [found EXCEPT ![n] = configMap[n]] /\ UNCHANGED root
       ELSE /\ rpc' = [rpc EXCEPT ![n] = "idle"]
            /\ root' = [root EXCEPT ![n] = NoRoots] /\ UNCHANGED found
    /\ UNCHANGED <<feedVars, apiVars, infVars, leader, hVars, queue, bounds>>

\* The API server refuses to write over what changed since Get, and to create
\* in a namespace that is not there or is terminating. An error requeues.
Refused(n) ==
    n \in outdated \/ (found[n] = NoMap /\ phase[n] \in {"absent", "terminating"})

WriteConfigMap(n) ==
    /\ rpc[n] = "write" /\ rpc' = [rpc EXCEPT ![n] = "idle"]
    /\ IF Refused(n)
       THEN queue' = queue \cup {n} /\ UNCHANGED <<configMap, outdated, unseen>>
       ELSE StoreConfigMap(n, Desired(root[n])) /\ UNCHANGED queue
    /\ root' = [root EXCEPT ![n] = NoRoots] /\ found' = [found EXCEPT ![n] = NoMap]
    /\ UNCHANGED <<feedVars, phase, seen, leader, hVars, bounds>>

CallFails(n) ==
    /\ Fault
    /\ rpc[n] \in {"get", "write"} /\ rpc' = [rpc EXCEPT ![n] = "idle"]
    /\ queue' = queue \cup {n}
    /\ root' = [root EXCEPT ![n] = NoRoots] /\ found' = [found EXCEPT ![n] = NoMap]
    /\ UNCHANGED <<feedVars, apiVars, infVars, leader, hVars, outdated, changes>>

-----------------------------------------------------------------------------

Handler == TakeEvent \/ ReadRootCAs \/ StoreRootCAs \/ ListNamespaces
Reconcile(n) == ReadCache(n) \/ GetConfigMap(n) \/ WriteConfigMap(n)

Next ==
    \/ \E r \in Roots : ChangeRootCAs(r)
    \/ \E n \in Namespaces : \/ \E p \in Phases : EditNamespace(n, p)
                             \/ \E m \in Maps \cup {NoMap} : EditConfigMap(n, m)
    \/ Restart \/ Elected \/ Handler
    \/ \E n \in Namespaces : Inform(n) \/ ReadNamespace(n) \/ Reconcile(n) \/ CallFails(n)

Spec == Init /\ [][Next]_vars

\* The workqueue is first in, first out, so a queued request gets its turn.
Fairness ==
    /\ WF_vars(Elected) /\ WF_vars(Handler)
    /\ \A n \in Namespaces :
           WF_vars(Inform(n)) /\ SF_vars(ReadNamespace(n)) /\ WF_vars(Reconcile(n))

FairSpec == Spec /\ Fairness

-----------------------------------------------------------------------------

\* When the controller has nothing left to do, every active namespace has
\* exactly the root CAs the provider holds, whoever edited its ConfigMap, and
\* whatever the root CAs, the namespace or the process went through meanwhile.
Settled(n) == seen[n] = phase[n] /\ n \notin unseen \cup queue /\ rpc[n] = "idle"
Distributed ==
    leader /\ rootCAs # NoRoots /\ events = 0 /\ hpc = "idle" =>
        \A n \in Namespaces :
            phase[n] = "active" /\ Settled(n) => configMap[n] = Desired(rootCAs)

\* Root CAs that stay get into every namespace that stays active, for good.
DistributedInTheEnd ==
    \A n \in Namespaces, r \in Roots :
        <>[](phase[n] = "active" /\ rootCAs = r) => <>[](configMap[n] = Desired(r))
====
