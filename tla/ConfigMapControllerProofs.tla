----------------------- MODULE ConfigMapControllerProofs -----------------------
(***************************************************************************)
(* Proof that ConfigMapController distributes the root CAs, for any root   *)
(* CAs, namespaces and number of workers, and any number of changes, edits *)
(* by others, failed calls and restarts.                                   *)
(***************************************************************************)
EXTENDS ConfigMapController, TLAPS

(***************************************************************************)
(* The cached root CAs are the provider's, or the handler still has an     *)
(* event to take or is about to store the provider's.                      *)
(***************************************************************************)
CacheFollows ==
    \/ rootCAs = NoRoots \/ events > 0 \/ hpc = "read"
    \/ hpc = "store" /\ hroot = rootCAs
    \/ hpc # "store" /\ rootCAsPEM = rootCAs

(***************************************************************************)
(* A namespace the informer shows active has a ConfigMap with the cached   *)
(* root CAs, or something will have it looked at again: a queued request,  *)
(* an event, the handler's list, or a Reconcile that has read these root   *)
(* CAs, or whose write will be refused. It is stated for what the informer *)
(* shows: a namespace may cease to be active and become so again unseen.   *)
(***************************************************************************)
Pending(n) ==
    \/ n \in queue \/ n \in unseen \/ hpc = "list" \/ rpc[n] = "root"
    \/ rpc[n] = "get" /\ root[n] = rootCAsPEM
    \/ rpc[n] = "write" /\ (root[n] = rootCAsPEM \/ n \in outdated)

Covered(n) ==
    leader /\ rootCAsPEM # NoRoots /\ seen[n] = "active" =>
        configMap[n] = Desired(rootCAsPEM) \/ Pending(n)

\* A Reconcile past the cache has root CAs.
HasRoot == \A n \in Namespaces : rpc[n] \in {"get", "write"} => root[n] # NoRoots

IInv == TypeOK /\ CacheFollows /\ HasRoot /\ \A n \in Namespaces : Covered(n)

\* What the steps below are shown to keep; HasRootStep adds the rest.
Inv1 == TypeOK /\ CacheFollows /\ \A n \in Namespaces : Covered(n)

\* IInv holds at first.
LEMMA IInvInit == Init => IInv
  <1> SUFFICES ASSUME Init PROVE IInv
    OBVIOUS
  <1>1. TypeOK
    BY ControllerAssumption, Zenon DEF Init, ProcessInit, Feed!Init, TypeOK, Phases, Maps
  <1>2. CacheFollows
    BY DEF Init, ProcessInit, Feed!Init, CacheFollows
  <1>3. HasRoot /\ \A n \in Namespaces : Covered(n)
    BY DEF Init, ProcessInit, Covered, HasRoot
  <1> QED BY <1>1, <1>2, <1>3 DEF IInv

\* Once everything has settled, IInv leaves only the distributed root CAs.
LEMMA IInvDistributed == IInv => Distributed
  BY DEF IInv, CacheFollows, Covered, Pending, Distributed, Settled

\* What is not part of the API server, the informers or Reconcile is unchanged.
LEMMA CoveredKept ==
  ASSUME NEW n \in Namespaces, Covered(n),
         UNCHANGED <<leader, rootCAsPEM, hpc, seen, configMap, unseen, queue, rpc, root, outdated>>
  PROVE  Covered(n)'
  BY DEF Covered, Pending, Desired

\* A changed ConfigMap is an event.
LEMMA StoreKeeps ==
  ASSUME TypeOK, NEW n \in Namespaces, NEW m \in Maps \cup {NoMap}, StoreConfigMap(n, m),
         NEW k \in Namespaces, Covered(k), UNCHANGED <<leader, hVars, seen>>,
         k # n => UNCHANGED <<rpc[k], root[k]>> /\ (k \in queue => k \in queue')
  PROVE  Covered(k)'
  <1>1. CASE k = n
    BY <1>1 DEF StoreConfigMap, Covered, Pending
  <1>2. CASE k # n
    BY <1>2 DEF StoreConfigMap, Covered, Pending, Desired, TypeOK, hVars
  <1> QED BY <1>1, <1>2

\* The root CAs change, or the environment changes the API server's objects.
LEMMA EnvironmentStep ==
  ASSUME IInv,
         \/ \E r \in Roots : ChangeRootCAs(r)
         \/ \E n \in Namespaces : \/ \E p \in Phases : EditNamespace(n, p)
                                  \/ \E m \in Maps \cup {NoMap} : EditConfigMap(n, m)
  PROVE  Inv1'
  <1>0. TypeOK /\ CacheFollows /\ HasRoot /\ \A k \in Namespaces : Covered(k)
    BY DEF IInv
  <1>1. ASSUME NEW r \in Roots, ChangeRootCAs(r) PROVE Inv1'
    <2>1. rootCAs' = r /\ events' = events + 1
      BY <1>1 DEF ChangeRootCAs, Feed!Change
    <2>2. changes' = changes + 1 /\ UNCHANGED <<apiVars, infVars, leader, hVars, queue, recVars, outdated, faults>>
      BY <1>1 DEF ChangeRootCAs
    <2>3. TypeOK'
      BY <1>0, <2>1, <2>2 DEF TypeOK, apiVars, infVars, hVars, recVars
    <2>4. CacheFollows'
      BY <1>0, <2>1 DEF TypeOK, CacheFollows
    <2>5. \A k \in Namespaces : Covered(k)'
      BY <1>0, <2>2, CoveredKept DEF apiVars, infVars, hVars, recVars
    <2> QED BY <2>3, <2>4, <2>5 DEF Inv1
  <1>2. ASSUME NEW n \in Namespaces, NEW p \in Phases, EditNamespace(n, p) PROVE Inv1'
    <2>1. phase' = [phase EXCEPT ![n] = p] /\ faults' = faults + 1
      BY <1>2 DEF EditNamespace, Fault
    <2>2. UNCHANGED <<feedVars, seen, leader, hVars, queue, recVars, changes>>
      BY <1>2 DEF EditNamespace
    <2>3. StoreConfigMap(n, NoMap) \/ UNCHANGED <<configMap, outdated, unseen>>
      BY <1>2 DEF EditNamespace
    <2>4. TypeOK'
      BY <1>0, <2>1, <2>2, <2>3 DEF TypeOK, StoreConfigMap, feedVars, hVars, recVars
    <2>5. CacheFollows'
      BY <1>0, <2>2 DEF CacheFollows, feedVars, hVars
    <2>6. ASSUME NEW k \in Namespaces PROVE Covered(k)'
      <3>1. CASE StoreConfigMap(n, NoMap)
        BY <1>0, <2>2, <3>1, StoreKeeps DEF recVars
      <3>2. CASE UNCHANGED <<configMap, outdated, unseen>>
        BY <1>0, <2>2, <3>2, CoveredKept DEF hVars, recVars
      <3> QED BY <2>3, <3>1, <3>2
    <2> QED BY <2>4, <2>5, <2>6 DEF Inv1
  <1>3. ASSUME NEW n \in Namespaces, NEW m \in Maps \cup {NoMap}, EditConfigMap(n, m) PROVE Inv1'
    <2>1. StoreConfigMap(n, m) /\ faults' = faults + 1
      BY <1>3 DEF EditConfigMap, Fault
    <2>2. UNCHANGED <<feedVars, phase, seen, leader, hVars, queue, recVars, changes>>
      BY <1>3 DEF EditConfigMap
    <2>3. TypeOK'
      BY <1>0, <2>1, <2>2 DEF TypeOK, StoreConfigMap, feedVars, hVars, recVars
    <2>4. CacheFollows'
      BY <1>0, <2>2 DEF CacheFollows, feedVars, hVars
    <2>5. \A k \in Namespaces : Covered(k)'
      BY <1>0, <2>1, <2>2, StoreKeeps DEF recVars
    <2> QED BY <2>3, <2>4, <2>5 DEF Inv1
  <1> QED BY <1>1, <1>2, <1>3

\* The controller is elected or restarted, or an informer catches up.
LEMMA ControllerStep ==
  ASSUME IInv, Elected \/ Restart \/ \E n \in Namespaces : Inform(n)
  PROVE  Inv1'
  <1>0. TypeOK /\ CacheFollows /\ HasRoot /\ \A k \in Namespaces : Covered(k)
    BY DEF IInv
  <1>1. CASE Elected
    <2>1. TypeOK'
      BY <1>0, <1>1 DEF TypeOK, Elected, feedVars, apiVars, infVars, hVars, recVars, bounds
    <2>2. CacheFollows'
      BY <1>0, <1>1 DEF CacheFollows, Elected, feedVars, hVars
    <2>3. \A k \in Namespaces : Covered(k)'
      BY <1>1 DEF Covered, Pending, Elected, infVars
    <2> QED BY <2>1, <2>2, <2>3 DEF Inv1
  <1>2. CASE Restart
    <2>1. TypeOK'
      <3>1. rpc' \in [Namespaces -> {"idle", "root", "get", "write"}]
        BY <1>2 DEF Restart
      <3>2. root' \in [Namespaces -> Roots \cup {NoRoots}] /\ found' \in [Namespaces -> Maps \cup {NoMap}]
        BY <1>2 DEF Restart
      <3>3. faults' \in Nat /\ changes' \in Nat /\ seen' \in [Namespaces -> Phases]
        BY <1>0, <1>2 DEF Restart, Fault, TypeOK
      <3> QED BY <1>0, <1>2, <3>1, <3>2, <3>3, Zenon DEF TypeOK, Restart, apiVars
    <2>2. CacheFollows'
      BY <1>2 DEF CacheFollows, Restart
    <2>3. \A k \in Namespaces : Covered(k)'
      BY <1>2 DEF Covered, Restart
    <2> QED BY <2>1, <2>2, <2>3 DEF Inv1
  <1>3. ASSUME NEW n \in Namespaces, Inform(n) PROVE Inv1'
    <2>1. TypeOK'
      BY <1>0, <1>3 DEF TypeOK, Inform, feedVars, apiVars, hVars, recVars, bounds
    <2>2. CacheFollows'
      BY <1>0, <1>3 DEF CacheFollows, Inform, feedVars, hVars
    <2>3. ASSUME NEW k \in Namespaces PROVE Covered(k)'
      <3>1. CASE k = n
        BY <1>3, <3>1 DEF Covered, Pending, Inform
      <3>2. CASE k # n
        BY <1>0, <1>3, <3>2 DEF Covered, Pending, Desired, Inform, TypeOK, apiVars, hVars, recVars
      <3> QED BY <3>1, <3>2
    <2> QED BY <2>1, <2>2, <2>3 DEF Inv1
  <1> QED BY <1>1, <1>2, <1>3

\* The handler of root CA events takes one, reads, stores and lists.
LEMMA HandlerStep == ASSUME IInv, Handler PROVE Inv1'
  <1>0. TypeOK /\ CacheFollows /\ HasRoot /\ \A k \in Namespaces : Covered(k)
    BY DEF IInv
  <1> USE DEF feedVars, apiVars, infVars, recVars, bounds
  <1>1. CASE TakeEvent
    <2>1. TypeOK'
      BY <1>0, <1>1 DEF TypeOK, TakeEvent, Feed!Take
    <2>2. CacheFollows'
      BY <1>1 DEF CacheFollows, TakeEvent
    <2>3. \A k \in Namespaces : Covered(k)'
      BY <1>0, <1>1, Zenon DEF Covered, Pending, Desired, TakeEvent
    <2> QED BY <2>1, <2>2, <2>3 DEF Inv1
  <1>2. CASE ReadRootCAs
    <2>1. TypeOK'
      BY <1>0, <1>2 DEF TypeOK, ReadRootCAs
    <2>2. CacheFollows'
      BY <1>2 DEF CacheFollows, ReadRootCAs
    <2>3. \A k \in Namespaces : Covered(k)'
      BY <1>0, <1>2, Zenon DEF Covered, Pending, Desired, ReadRootCAs
    <2> QED BY <2>1, <2>2, <2>3 DEF Inv1
  <1>3. CASE StoreRootCAs
    <2>1. TypeOK'
      BY <1>0, <1>3 DEF TypeOK, StoreRootCAs
    <2>2. CacheFollows'
      BY <1>0, <1>3 DEF CacheFollows, StoreRootCAs, TypeOK
    <2>3. \A k \in Namespaces : Covered(k)'
      BY <1>3 DEF Covered, Pending, StoreRootCAs
    <2> QED BY <2>1, <2>2, <2>3 DEF Inv1
  <1>4. CASE ListNamespaces
    <2>1. TypeOK'
      BY <1>0, <1>4 DEF TypeOK, ListNamespaces, Selected
    <2>2. CacheFollows'
      BY <1>0, <1>4 DEF CacheFollows, ListNamespaces
    <2>3. \A k \in Namespaces : seen[k] = "active" => k \in queue'
      BY <1>4 DEF ListNamespaces, Selected
    <2>4. \A k \in Namespaces : Covered(k)'
      BY <1>4, <2>3 DEF Covered, Pending, ListNamespaces
    <2> QED BY <2>1, <2>2, <2>4 DEF Inv1
  <1> QED BY <1>1, <1>2, <1>3, <1>4 DEF Handler

\* A Reconcile that is the only thing to move leaves the other namespaces covered.
LEMMA OthersCovered ==
  ASSUME NEW n \in Namespaces, NEW k \in Namespaces \ {n}, Covered(k),
         UNCHANGED <<leader, hVars, infVars>>,
         UNCHANGED <<configMap[k], rpc[k], root[k]>>,
         k \in queue => k \in queue', k \in outdated => k \in outdated'
  PROVE  Covered(k)'
  BY DEF Covered, Pending, Desired, hVars, infVars

\* Reading the namespace and the cached root CAs, or a failed call.
LEMMA ReadStep ==
  ASSUME IInv, NEW n \in Namespaces, ReadNamespace(n) \/ ReadCache(n) \/ CallFails(n)
  PROVE  Inv1'
  <1>0. TypeOK /\ CacheFollows /\ HasRoot /\ \A k \in Namespaces : Covered(k)
    BY DEF IInv
  <1> USE DEF feedVars, apiVars, bounds
  <1>1. CASE ReadNamespace(n)
    <2>1. TypeOK'
      BY <1>0, <1>1 DEF TypeOK, ReadNamespace, hVars, infVars
    <2>2. CacheFollows'
      BY <1>0, <1>1 DEF CacheFollows, ReadNamespace, hVars
    <2>3. Covered(n)'
      BY <1>0, <1>1 DEF Covered, Pending, ReadNamespace, TypeOK, infVars
    <2>4. ASSUME NEW k \in Namespaces \ {n} PROVE Covered(k)'
      BY <1>0, <1>1, OthersCovered DEF ReadNamespace, TypeOK
    <2> QED BY <2>1, <2>2, <2>3, <2>4 DEF Inv1
  <1>2. CASE ReadCache(n)
    <2>1. TypeOK'
      BY <1>0, <1>2 DEF TypeOK, ReadCache, CacheNotReady, hVars, infVars
    <2>2. CacheFollows'
      BY <1>0, <1>2 DEF CacheFollows, ReadCache, hVars
    <2>3. Covered(n)'
      BY <1>0, <1>2 DEF Covered, Pending, ReadCache, TypeOK, hVars
    <2>4. ASSUME NEW k \in Namespaces \ {n} PROVE Covered(k)'
      BY <1>0, <1>2, OthersCovered DEF ReadCache, TypeOK
    <2> QED BY <2>1, <2>2, <2>3, <2>4 DEF Inv1
  <1>3. CASE CallFails(n)
    <2>1. TypeOK'
      BY <1>0, <1>3 DEF TypeOK, CallFails, Fault, hVars, infVars
    <2>2. CacheFollows'
      BY <1>0, <1>3 DEF CacheFollows, CallFails, hVars
    <2>3. Covered(n)'
      BY <1>3, Zenon DEF Covered, Pending, CallFails
    <2>4. ASSUME NEW k \in Namespaces \ {n} PROVE Covered(k)'
      BY <1>0, <1>3, OthersCovered DEF CallFails, TypeOK
    <2> QED BY <2>1, <2>2, <2>3, <2>4 DEF Inv1
  <1> QED BY <1>1, <1>2, <1>3

\* Get: a ConfigMap left as it is has exactly the root CAs.
LEMMA GetStep ==
  ASSUME IInv, NEW n \in Namespaces, GetConfigMap(n)
  PROVE  Inv1'
  <1>0. TypeOK /\ CacheFollows /\ HasRoot /\ \A k \in Namespaces : Covered(k)
    BY DEF IInv
  <1> USE DEF feedVars, apiVars, bounds
  <1>1. TypeOK'
    BY <1>0 DEF TypeOK, GetConfigMap, hVars, infVars
  <1>2. CacheFollows'
    BY <1>0 DEF CacheFollows, GetConfigMap, hVars
  <1>3. Covered(n)'
    <2>1. CASE UpdateNeeded(configMap[n], root[n])
      BY <1>0, <2>1 DEF Covered, Pending, Desired, GetConfigMap, TypeOK, hVars, infVars
    <2>2. CASE ~UpdateNeeded(configMap[n], root[n])
      <3>1. configMap[n] = Desired(root[n])
        BY <1>0, <2>2 DEF UpdateNeeded, Desired, TypeOK, Maps
      <3> QED BY <1>0, <2>2, <3>1, Zenon DEF Covered, Pending, Desired, GetConfigMap, TypeOK, hVars, infVars
    <2> QED BY <2>1, <2>2
  <1>4. ASSUME NEW k \in Namespaces \ {n} PROVE Covered(k)'
    BY <1>0, OthersCovered DEF GetConfigMap, TypeOK
  <1> QED BY <1>1, <1>2, <1>3, <1>4 DEF Inv1

\* Create or update: what is written is an event, what is refused is queued again.
LEMMA WriteStep ==
  ASSUME IInv, NEW n \in Namespaces, WriteConfigMap(n)
  PROVE  Inv1'
  <1>0. TypeOK /\ CacheFollows /\ HasRoot /\ \A k \in Namespaces : Covered(k)
    BY DEF IInv
  <1>1. UNCHANGED <<feedVars, phase, seen, leader, hVars, bounds>>
    BY DEF WriteConfigMap
  <1>2. /\ rpc' = [rpc EXCEPT ![n] = "idle"] /\ root' = [root EXCEPT ![n] = NoRoots]
        /\ found' = [found EXCEPT ![n] = NoMap] /\ rpc[n] = "write"
    BY DEF WriteConfigMap
  <1>3. CacheFollows'
    BY <1>0, <1>1 DEF CacheFollows, feedVars, hVars
  <1>4. CASE Refused(n)
    <2>1. queue' = queue \cup {n} /\ UNCHANGED <<configMap, outdated, unseen>>
      BY <1>4 DEF WriteConfigMap
    <2>2. TypeOK'
      BY <1>0, <1>1, <1>2, <2>1 DEF TypeOK, feedVars, hVars, bounds
    <2>3. Covered(n)'
      BY <2>1 DEF Covered, Pending
    <2>4. ASSUME NEW k \in Namespaces \ {n} PROVE Covered(k)'
      BY <1>0, <1>1, <1>2, <2>1, OthersCovered DEF TypeOK, infVars
    <2> QED BY <1>3, <2>2, <2>3, <2>4 DEF Inv1
  <1>5. CASE ~Refused(n)
    <2>1. StoreConfigMap(n, Desired(root[n])) /\ UNCHANGED queue
      BY <1>5 DEF WriteConfigMap
    <2>2. Desired(root[n]) \in Maps
      BY <1>0, <1>2 DEF Desired, Maps, HasRoot, TypeOK
    <2>3. TypeOK'
      BY <1>0, <1>1, <1>2, <2>1, <2>2 DEF TypeOK, StoreConfigMap, feedVars, hVars, bounds
    <2>4. \A k \in Namespaces : Covered(k)'
      BY <1>0, <1>1, <1>2, <2>1, <2>2, StoreKeeps DEF TypeOK
    <2> QED BY <1>3, <2>3, <2>4 DEF Inv1
  <1> QED BY <1>4, <1>5

\* Only ReadCache lets a Reconcile past the cache, when there is something in it.
LEMMA HasRootStep == TypeOK /\ HasRoot /\ [Next]_vars => HasRoot'
  <1> SUFFICES ASSUME TypeOK, HasRoot, [Next]_vars PROVE HasRoot'
    OBVIOUS
  <1>0. UNCHANGED recVars => HasRoot'
    BY DEF HasRoot, recVars
  <1>1. ASSUME NEW n \in Namespaces, rpc' = [rpc EXCEPT ![n] = "idle"],
               root' = root \/ root' = [root EXCEPT ![n] = NoRoots]
        PROVE  HasRoot'
    BY <1>1 DEF HasRoot, TypeOK
  <1>2. CASE \E r \in Roots : ChangeRootCAs(r)
    BY <1>0, <1>2 DEF ChangeRootCAs
  <1>3. ASSUME NEW n \in Namespaces, NEW p \in Phases, EditNamespace(n, p) PROVE HasRoot'
    BY <1>0, <1>3 DEF EditNamespace
  <1>4. ASSUME NEW n \in Namespaces, NEW m \in Maps \cup {NoMap}, EditConfigMap(n, m) PROVE HasRoot'
    BY <1>0, <1>4 DEF EditConfigMap
  <1>5. CASE Restart
    BY <1>5 DEF Restart, HasRoot
  <1>6. CASE Elected \/ Handler
    BY <1>0, <1>6 DEF Elected, Handler, TakeEvent, ReadRootCAs, StoreRootCAs, ListNamespaces
  <1>7. ASSUME NEW n \in Namespaces, Inform(n) PROVE HasRoot'
    BY <1>0, <1>7 DEF Inform
  <1>8. ASSUME NEW n \in Namespaces, ReadNamespace(n) PROVE HasRoot'
    BY <1>8 DEF ReadNamespace, HasRoot, TypeOK
  <1>9. ASSUME NEW n \in Namespaces, ReadCache(n) PROVE HasRoot'
    BY <1>9 DEF ReadCache, CacheNotReady, HasRoot, TypeOK
  <1>10. ASSUME NEW n \in Namespaces, GetConfigMap(n) PROVE HasRoot'
    BY <1>10 DEF GetConfigMap, HasRoot, TypeOK
  <1>11. ASSUME NEW n \in Namespaces, WriteConfigMap(n) PROVE HasRoot'
    BY <1>1, <1>11, Zenon DEF WriteConfigMap
  <1>12. ASSUME NEW n \in Namespaces, CallFails(n) PROVE HasRoot'
    BY <1>1, <1>12, Zenon DEF CallFails
  <1>13. CASE UNCHANGED vars
    BY <1>0, <1>13 DEF vars
  <1> QED
    BY <1>2, <1>3, <1>4, <1>5, <1>6, <1>7, <1>8, <1>9, <1>10, <1>11, <1>12, <1>13
    DEF Next, Reconcile

\* Every step keeps IInv.
LEMMA IInvStep == IInv /\ [Next]_vars => IInv'
  <1> SUFFICES ASSUME IInv, [Next]_vars PROVE IInv'
    OBVIOUS
  <1>1. ASSUME UNCHANGED vars PROVE Inv1'
    <2>1. TypeOK' /\ CacheFollows'
      BY <1>1 DEF IInv, TypeOK, CacheFollows, vars, feedVars, apiVars, infVars, hVars, recVars, bounds
    <2>2. \A k \in Namespaces : Covered(k)'
      BY <1>1, CoveredKept DEF IInv, vars, apiVars, infVars, hVars, recVars
    <2> QED BY <2>1, <2>2 DEF Inv1
  <1>2. ASSUME NEW n \in Namespaces, Reconcile(n) PROVE Inv1'
    BY <1>2, ReadStep, GetStep, WriteStep DEF Reconcile
  <1>3. Inv1'
    <2>1. CASE \E r \in Roots : ChangeRootCAs(r)
      BY <2>1, EnvironmentStep
    <2>2. ASSUME NEW n \in Namespaces,
                 \/ \E p \in Phases : EditNamespace(n, p)
                 \/ \E m \in Maps \cup {NoMap} : EditConfigMap(n, m)
          PROVE  Inv1'
      BY <2>2, EnvironmentStep
    <2>3. CASE Restart \/ Elected
      BY <2>3, ControllerStep
    <2>4. CASE Handler
      BY <2>4, HandlerStep
    <2>5. ASSUME NEW n \in Namespaces, Inform(n) PROVE Inv1'
      BY <2>5, ControllerStep
    <2>6. ASSUME NEW n \in Namespaces, ReadNamespace(n) \/ CallFails(n) PROVE Inv1'
      BY <2>6, ReadStep
    <2> QED BY <1>1, <1>2, <2>1, <2>2, <2>3, <2>4, <2>5, <2>6 DEF Next
  <1> QED BY <1>3, HasRootStep DEF IInv, Inv1

\* Every variable keeps its type.
THEOREM TypeCorrect == Spec => []TypeOK
  <1>1. IInv => TypeOK
    BY DEF IInv
  <1> QED BY <1>1, IInvInit, IInvStep, PTL DEF Spec

\* The controller never comes to rest with an active namespace whose ConfigMap is not
\* exactly the provider's root CAs: no event, edit or failed write gets lost.
THEOREM NoUpdateIsLost == Spec => []Distributed
  BY IInvInit, IInvStep, IInvDistributed, PTL DEF Spec

====
