--------------------------- MODULE GRPCServerProofs ---------------------------
(***************************************************************************)
(* Proofs about GRPCServer, for any clients, requests, pods, nodes and     *)
(* certificate authorities, and any number of changes to them.             *)
(***************************************************************************)
EXTENDS GRPCServer, TLAPS, SequenceTheorems

(***************************************************************************)
(* The life of the server. A handler runs only while Start is in Serve     *)
(* and the shutdown goroutine has not got past GracefulStop; Start leaves  *)
(* "config" only with a tlsConfig, which the provider only makes when it   *)
(* has root CAs; and ready is set once, by Start. A server that failed is  *)
(* no more.                                                                *)
(***************************************************************************)
LifeInv ==
    /\ spc \in {"config", "listen", "ready", "serve", "returned", "failed"}
    /\ gpc \in {"none", "wait", "stop", "drain", "done"}
    /\ hpc \in [Clients -> Labels]
    /\ \A c \in Clients : hpc[c] # "idle" => spc = "serve" /\ gpc \in {"wait", "stop", "drain"}
    /\ spc \in {"config", "listen", "failed"} => gpc = "none"
    /\ spc \in {"ready", "serve"} => gpc # "none"
    /\ spc = "returned" => gpc \in {"none", "done"}
    /\ spc \in {"listen", "ready", "serve"} => configured
    /\ configured => rootCAs # {}
    /\ ready => spc \in {"serve", "returned"}
    /\ ready /\ ~late => gpc = "wait"

\* The server starts with nothing going on.
LEMMA LifeInit == Init => LifeInv
  BY DEF Init, LifeInv, Labels

\* The steps of a handler, without what they leave unchanged.
AnyHandlerStep(c) ==
    \/ Authenticate(c) \/ AuthenticateFails(c) \/ GetCallerPod(c) \/ Lookup(c) \/ CheckCSR(c)
    \/ SignOK(c) \/ SignFails(c) \/ RootCAs(c) \/ Respond(c) \/ RootCAsNil(c)

\* A handler that takes a step was not idle, and it moves no other handler.
LEMMA HandlerMoves ==
  ASSUME NEW c \in Clients, AnyHandlerStep(c)
  PROVE  hpc[c] # "idle" /\ \E l \in Labels : hpc' = [hpc EXCEPT ![c] = l]
  <1>1. CASE Authenticate(c)  BY <1>1 DEF Authenticate, Goto, Labels
  <1>2. CASE AuthenticateFails(c)  BY <1>2 DEF AuthenticateFails, Fail, Finish, Labels
  <1>3. CASE GetCallerPod(c)  BY <1>3 DEF GetCallerPod, Goto, Fail, Finish, Labels
  <1>4. CASE Lookup(c)  BY <1>4 DEF Lookup, Goto, Fail, Finish, Labels
  <1>5. CASE CheckCSR(c)  BY <1>5 DEF CheckCSR, Goto, Fail, Finish, Labels
  <1>6. CASE SignOK(c)  BY <1>6 DEF SignOK, Goto, Labels
  <1>7. CASE SignFails(c)  BY <1>7 DEF SignFails, Fail, Finish, Labels
  <1>8. CASE RootCAs(c)  BY <1>8 DEF RootCAs, Goto, Labels
  <1>9. CASE Respond(c)  BY <1>9 DEF Respond, Fail, Finish, Labels
  <1>10. CASE RootCAsNil(c)  BY <1>10 DEF RootCAsNil, Fail, Finish, Labels
  <1> QED
    BY <1>1, <1>2, <1>3, <1>4, <1>5, <1>6, <1>7, <1>8, <1>9, <1>10 DEF AnyHandlerStep

\* A step of a handler keeps LifeInv.
LEMMA HandlerKeepsLife ==
  ASSUME LifeInv, NEW c \in Clients, AnyHandlerStep(c), UNCHANGED <<serverVars, providerVars>>
  PROVE  LifeInv'
  <1>1. hpc[c] # "idle"
    BY HandlerMoves
  <1>2. PICK l \in Labels : hpc' = [hpc EXCEPT ![c] = l]
    BY HandlerMoves
  <1> QED BY <1>1, <1>2 DEF LifeInv, serverVars, providerVars

\* So does every step.
LEMMA LifeStep == LifeInv /\ [Next]_vars => LifeInv'
  <1> SUFFICES ASSUME LifeInv, [Next]_vars PROVE LifeInv'
    OBVIOUS
  <1>1. CASE Environment
    <2>1. ASSUME NEW ca \in CAs, ChangeIssuer(ca) PROVE LifeInv'
      BY <2>1 DEF LifeInv, ChangeIssuer, serverVars, handlerVars
    <2>2. ASSUME NEW b \in Bundles, ChangeRootCAs(b) PROVE LifeInv'
      BY <2>2 DEF LifeInv, ChangeRootCAs, serverVars, handlerVars, Bundles
    <2>3. CASE SetConfig
      BY <2>3 DEF LifeInv, SetConfig, serverVars, handlerVars
    <2>4. CASE CancelContext
      BY <2>4 DEF LifeInv, CancelContext, serverVars, handlerVars
    <2> QED BY <1>1, <2>1, <2>2, <2>3, <2>4 DEF Environment
  <1>2. CASE GetConfig
    BY <1>2 DEF LifeInv, GetConfig, ConfigAvailable, providerVars, handlerVars
  <1>3. CASE Listen
    BY <1>3 DEF LifeInv, Listen, providerVars, handlerVars
  <1>4. CASE SetReady
    BY <1>4, Zenon DEF LifeInv, SetReady, providerVars, handlerVars
  <1>5. CASE ServeReturns
    BY <1>5 DEF LifeInv, ServeReturns, providerVars, handlerVars
  <1>6. CASE ClearReady
    BY <1>6 DEF LifeInv, ClearReady, providerVars, handlerVars
  <1>7. CASE CallGracefulStop \/ GracefulStop
    BY <1>7 DEF LifeInv, CallGracefulStop, GracefulStop, InFlight, providerVars, handlerVars
  <1>13. CASE ServeFails
    <2>1. \A c \in Clients : hpc'[c] = "idle"
      BY <1>13 DEF ServeFails
    <2>2. hpc' \in [Clients -> Labels]
      BY <1>13 DEF ServeFails, Labels
    <2> QED BY <1>13, <2>1, <2>2 DEF LifeInv, ServeFails, providerVars
  <1>8. ASSUME NEW c \in Clients, HandlerStep(c) PROVE LifeInv'
    BY <1>8, HandlerKeepsLife DEF HandlerStep, AnyHandlerStep
  <1>9. ASSUME NEW c \in Clients, RootCAsNil(c), UNCHANGED <<serverVars, providerVars, podVars>>
         PROVE  LifeInv'
    BY <1>9, HandlerKeepsLife DEF AnyHandlerStep
  <1>10. ASSUME NEW c \in Clients, NEW r \in Requests, Request(c, r) PROVE LifeInv'
    BY <1>10 DEF LifeInv, Request, Labels, serverVars, providerVars
  <1>11. CASE (ChangePods \/ Informer) /\ UNCHANGED <<serverVars, providerVars, handlerVars>>
    BY <1>11 DEF LifeInv, serverVars, providerVars, handlerVars
  <1>12. CASE UNCHANGED vars
    BY <1>12 DEF LifeInv, vars, serverVars, providerVars, handlerVars
  <1> QED
    BY <1>1, <1>2, <1>3, <1>4, <1>5, <1>6, <1>7, <1>8, <1>9, <1>10, <1>11, <1>12, <1>13
    DEF Next, Start, Shutdown

\* Start returns only when every request taken has been answered: Serve outlives
\* GracefulStop, which waits for the handlers.
THEOREM ServesToTheEnd == Spec => []NothingCutOff
  <1>1. LifeInv => NothingCutOff
    BY DEF LifeInv, NothingCutOff
  <1> QED BY <1>1, LifeInit, LifeStep, PTL DEF Spec

\* A server that reports ready takes requests and has root CAs to verify with,
\* unless it was cancelled while it started.
THEOREM ReadyMeansServing == Spec => []ReadyServes
  <1>1. LifeInv => ReadyServes
    BY DEF LifeInv, ReadyServes
  <1> QED BY <1>1, LifeInit, LifeStep, PTL DEF Spec

-----------------------------------------------------------------------------
(***************************************************************************)
(* Type correctness. Finish is common to every way a handler ends.         *)
(***************************************************************************)
Answers == [code : Codes, ca : CAs \cup {NoCA}, roots : SUBSET CAs]

\* TypeOK holds at first.
LEMMA TypeInit == Init => TypeOK
  <1> SUFFICES ASSUME Init PROVE TypeOK
    OBVIOUS
  <1> USE DEF Init
  <1>1. issuerCA \in CAs
    BY ServerAssumption
  <1>2. NoAnswer \in Answers
    BY DEF NoAnswer, Answers, Codes
  <1>3. caller \in [Clients -> [identities : Seq(Nat), info : Infos]]
    <2>1. <<>> \in Seq(Nat)
      BY EmptySeq
    <2> QED BY <2>1 DEF NoCaller, NoInfo, Infos
  <1>4. PodsTypeOK
    <2>1. PICK pods \in InitialPods : versions = [p \in PodNames |-> <<pods[p]>>]
      BY DEF PodsInit
    <2>2. pods \in [PodNames -> Pods \cup {NoPod}]
      BY <2>1, NodeAuthorizerAssumption DEF Pods
    <2>3. \A p \in PodNames : <<pods[p]>> \in Seq(Pods \cup {NoPod})
      BY <2>2
    <2> QED BY <2>1, <2>3 DEF PodsInit, PodsTypeOK
  <1> QED BY <1>1, <1>2, <1>3, <1>4, Zenon DEF TypeOK, Answers, Labels

\* A handler that ends with an answer leaves every variable its type.
LEMMA FinishTypes ==
  ASSUME TypeOK, NEW c \in Clients, NEW a \in Answers, Finish(c, a),
         UNCHANGED <<serverVars, providerVars, podVars>>
  PROVE  TypeOK'
  <1>1. NoCaller \in [identities : Seq(Nat), info : Infos]
    <2>1. <<>> \in Seq(Nat)
      BY EmptySeq
    <2> QED BY <2>1 DEF NoCaller, NoInfo, Infos
  <1>2. PodsTypeOK'
    BY DEF TypeOK, PodsTypeOK, podVars
  <1> HIDE DEF NoCaller
  <1> QED
    BY <1>1, <1>2 DEF TypeOK, Finish, Answers, Labels, serverVars, providerVars

\* So does one that ends with an error.
LEMMA FailTypes ==
  ASSUME TypeOK, NEW c \in Clients, NEW code \in Codes, Fail(c, code),
         UNCHANGED <<serverVars, providerVars, podVars>>
  PROVE  TypeOK'
  <1>1. [NoAnswer EXCEPT !.code = code] \in Answers
    BY DEF NoAnswer, Answers, Codes
  <1> QED BY <1>1, FinishTypes DEF Fail

\* The informer has got to a version of every pod.
PodsInv == \A p \in PodNames : at[p] \in 1..Len(versions[p])

\* An authenticated caller has the identities of its certificate, or those of the
\* pod its token names.
LEMMA CallerTypes ==
  ASSUME TypeOK, PodsInv, NEW r \in Requests, CertCaller(r) \/ TokenCaller(r)
  PROVE  /\ Caller(r) \in [identities : Seq(Nat), info : Infos]
         /\ Caller(r).info = NoInfo \/ Caller(r).info.pod \in PodNames
  <1>1. CASE CertCaller(r)
    <2>1. r.cert \in Seq(Nat) /\ NoInfo \in Infos
      BY RequestsAssumption DEF NoInfo, Infos
    <2>2. Caller(r) = [identities |-> r.cert, info |-> NoInfo]
      BY <1>1 DEF Caller
    <2> QED BY <2>1, <2>2
  <1>2. CASE ~CertCaller(r)
    <2> DEFINE p == r.token.pod
               sa == Current(p).sa
               info == [pod |-> p, uid |-> r.token.uid, sa |-> sa]
    <2>1. p \in PodNames /\ r.token.uid \in Nat /\ Current(p) # NoPod
      BY <1>2, RequestsAssumption DEF TokenCaller
    <2>2. versions[p] \in Seq(Pods \cup {NoPod})
      BY <2>1 DEF TypeOK, PodsTypeOK
    <2>3. Current(p) \in Pods
      <3>1. Len(versions[p]) \in 1..Len(versions[p])
        BY <2>1, <2>2, LenProperties DEF PodsInv
      <3>2. versions[p][Len(versions[p])] \in Pods \cup {NoPod}
        BY <2>2, <3>1, ElementOfSeq
      <3> QED BY <3>2, <2>1, Zenon DEF Current
    <2>4. sa \in Nat /\ sa \in ServiceAccounts
      BY <2>3, NodeAuthorizerAssumption, Zenon DEF Pods
    <2>5. <<sa>> \in Seq(Nat) /\ info \in Infos
      BY <2>1, <2>4 DEF Infos
    <2>6. Caller(r) = [identities |-> <<sa>>, info |-> info]
      BY <1>2 DEF Caller
    <2> HIDE DEF p, sa
    <2> QED BY <2>1, <2>5, <2>6
  <1> QED BY <1>1, <1>2

\* What has been stored is not lost: versions are only ever added.
VersionsKept ==
    \A p \in PodNames : \A k \in 1..Len(versions[p]) :
        k \in 1..Len(versions'[p]) /\ versions'[p][k] = versions[p][k]

\* A version added for a pod keeps the types and the versions before it.
LEMMA StoreStep ==
  ASSUME PodsTypeOK, PodsInv, NEW p \in PodNames, NEW pod \in Pods \cup {NoPod}, Store(p, pod)
  PROVE  PodsTypeOK' /\ PodsInv' /\ VersionsKept
  <1> DEFINE old == versions[p]
             new == Append(versions[p], pod)
  <1>1. old \in Seq(Pods \cup {NoPod})
    BY DEF PodsTypeOK
  <1>2. /\ new \in Seq(Pods \cup {NoPod}) /\ Len(new) = Len(old) + 1 /\ Len(old) \in Nat
        /\ \A k \in 1..Len(old) : new[k] = old[k]
    BY <1>1, AppendProperties, LenProperties
  <1>3. versions' = [versions EXCEPT ![p] = new] /\ at' = at /\ changes' = changes + 1
    BY DEF Store, Change
  <1> HIDE DEF new
  <1>4. \A q \in PodNames : versions'[q] = IF q = p THEN new ELSE versions[q]
    BY <1>3 DEF PodsTypeOK
  <1>5. PodsTypeOK'
    BY <1>2, <1>3, <1>4 DEF PodsTypeOK
  <1>6. PodsInv'
    BY <1>2, <1>3, <1>4 DEF PodsInv, PodsTypeOK
  <1>7. VersionsKept
    BY <1>2, <1>4 DEF VersionsKept
  <1> QED BY <1>5, <1>6, <1>7

\* So do all changes to the pods, and the informer.
LEMMA PodsStep ==
  ASSUME PodsTypeOK, PodsInv, ChangePods \/ Informer
  PROVE  PodsTypeOK' /\ PodsInv' /\ VersionsKept
  <1>1. ASSUME NEW p \in PodNames, NEW sa \in PodAccounts[p], CreatePod(p, sa)
        PROVE  PodsTypeOK' /\ PodsInv' /\ VersionsKept
    <2>1. sa \in ServiceAccounts
      BY <1>1, NodeAuthorizerAssumption
    <2>2. Len(versions[p]) + 1 \in Nat
      BY LenProperties DEF PodsTypeOK
    <2>3. [uid |-> Len(versions[p]) + 1, sa |-> sa, node |-> NoNode] \in Pods
      BY <2>1, <2>2 DEF Pods
    <2> QED BY <1>1, <2>3, StoreStep DEF CreatePod
  <1>2. ASSUME NEW p \in PodNames, NEW n \in Nodes, SchedulePod(p, n)
        PROVE  PodsTypeOK' /\ PodsInv' /\ VersionsKept
    <2>1. Len(versions[p]) \in 1..Len(versions[p])
      BY LenProperties DEF PodsTypeOK, PodsInv
    <2>2. Current(p) \in Pods
      BY <1>2, <2>1, ElementOfSeq DEF PodsTypeOK, Current, SchedulePod
    <2>3. [Current(p) EXCEPT !.node = n] \in Pods
      BY <2>2 DEF Pods
    <2> QED BY <1>2, <2>3, StoreStep DEF SchedulePod
  <1>3. ASSUME NEW p \in PodNames, DeletePod(p) PROVE PodsTypeOK' /\ PodsInv' /\ VersionsKept
    BY <1>3, StoreStep DEF DeletePod
  <1>4. ASSUME NEW p \in PodNames, InformerUpdate(p) PROVE PodsTypeOK' /\ PodsInv' /\ VersionsKept
    <2>1. PICK k \in at[p] + 1 .. Len(versions[p]) : at' = [at EXCEPT ![p] = k]
      BY <1>4, Zenon DEF InformerUpdate
    <2>2. versions' = versions /\ changes' = changes
      BY <1>4 DEF InformerUpdate
    <2>3. k \in 1..Len(versions[p]) /\ k \in Nat
      BY <2>1, LenProperties DEF PodsTypeOK
    <2>4. \A q \in PodNames : at'[q] = IF q = p THEN k ELSE at[q]
      BY <2>1 DEF PodsTypeOK
    <2>5. PodsTypeOK'
      BY <2>1, <2>2, <2>3 DEF PodsTypeOK
    <2> QED BY <2>2, <2>3, <2>4, <2>5 DEF PodsInv, VersionsKept
  <1> QED BY <1>1, <1>2, <1>3, <1>4 DEF ChangePods, Informer

-----------------------------------------------------------------------------
(***************************************************************************)
(* What a handler knows at each point. From "lookup" on, the calling pod   *)
(* was stored with the caller's UID and the node the handler holds; from   *)
(* "check" on, so was a pod of the impersonated account on that node.      *)
(***************************************************************************)
Backed(c) ==
    LET info == caller[c].info
    IN  /\ info.sa \in trustedNodeAccounts /\ info.pod \in PodNames
        /\ \E k \in 1..Len(versions[info.pod]) :
             versions[info.pod][k] = [uid |-> info.uid, sa |-> info.sa, node |-> node[c]]

Present(c) ==
    /\ node[c] \in Nodes
    /\ \E p \in PodNames : \E k \in 1..Len(versions[p]) :
         /\ versions[p][k] # NoPod
         /\ versions[p][k].sa = Account[req[c].impersonated] /\ versions[p][k].node = node[c]

Known(c) ==
    /\ hpc[c] \in {"authenticate", "get", "lookup", "check", "sign"} => req[c] \in Requests
    /\ hpc[c] = "get" => caller[c].info = NoInfo \/ caller[c].info.pod \in PodNames
    /\ hpc[c] = "lookup" => Backed(c)
    /\ hpc[c] \in {"check", "sign"} /\ req[c].impersonated # NoIdentity => Backed(c) /\ Present(c)

IInv == TypeOK /\ PodsInv /\ \A c \in Clients : Known(c)

\* IInv holds at first.
LEMMA IInvInit == Init => IInv
  <1> SUFFICES ASSUME Init PROVE IInv
    OBVIOUS
  <1>1. TypeOK
    BY TypeInit
  <1>2. PodsInv
    <2>1. \A p \in PodNames : \E x : versions[p] = <<x>>
      BY DEF Init, PodsInit
    <2> QED BY <2>1 DEF Init, PodsInit, PodsInv
  <1>3. \A c \in Clients : Known(c)
    BY DEF Init, Known
  <1> QED BY <1>1, <1>2, <1>3 DEF IInv

\* The pod a handler gets for an authorized caller is the one the caller runs in, as
\* it was stored at some time.
LEMMA CachedPod ==
  ASSUME TypeOK, PodsInv, NEW c \in Clients, Known(c), hpc[c] = "get",
         CallerFound(caller[c].info, req[c].impersonated)
  PROVE  LET info == caller[c].info
         IN  /\ info.sa \in trustedNodeAccounts /\ info.pod \in PodNames
             /\ Cached(info.pod).node \in Nodes \cup {NoNode}
             /\ at[info.pod] \in 1..Len(versions[info.pod])
             /\ Cached(info.pod) = [uid |-> info.uid, sa |-> info.sa, node |-> Cached(info.pod).node]
  <1> DEFINE info == caller[c].info
  <1>1. info.sa \in trustedNodeAccounts
    BY DEF CallerFound
  <1>2. info # NoInfo
    BY <1>1, NodeAuthorizerAssumption DEF NoInfo, trustedNodeAccounts
  <1>3. info.pod \in PodNames
    BY <1>2, Zenon DEF Known
  <1>4. at[info.pod] \in 1..Len(versions[info.pod])
    BY <1>3 DEF PodsInv
  <1>5. Cached(info.pod) \in Pods
    <2>1. versions[info.pod] \in Seq(Pods \cup {NoPod})
      BY <1>3 DEF TypeOK, PodsTypeOK
    <2>2. Cached(info.pod) \in Pods \cup {NoPod}
      BY <1>4, <2>1, ElementOfSeq, Zenon DEF Cached
    <2> QED BY <2>2 DEF CallerFound
  <1>6. Cached(info.pod).uid = info.uid /\ Cached(info.pod).sa = info.sa
    BY DEF CallerFound, UIDMatches
  <1>7. Cached(info.pod).node \in Nodes \cup {NoNode}
    BY <1>5, Zenon DEF Pods
  <1>8. Cached(info.pod) = [uid |-> info.uid, sa |-> info.sa, node |-> Cached(info.pod).node]
    BY <1>5, <1>6 DEF Pods
  <1> QED BY <1>1, <1>3, <1>4, <1>7, <1>8

\* A CSR that is accepted is what the handler goes on with.
Accepts(c, x) ==
    /\ CSRAllowed(Identities(c), x)
    /\ hpc' = [hpc EXCEPT ![c] = "sign"] /\ csr' = [csr EXCEPT ![c] = x]
    /\ \E t \in Validities : seconds' = [seconds EXCEPT ![c] = t]
    /\ UNCHANGED <<req, caller, node, signed, snapshot, answer>>

\* A check accepts a CSR or fails.
LEMMA CheckedCSR ==
  ASSUME NEW c \in Clients, CheckCSR(c)
  PROVE  Fail(c, Denied) \/ \E x \in CSRs : Accepts(c, x)
  BY Zenon DEF CheckCSR, Accepts, Goto

\* A step of a handler keeps TypeOK.
LEMMA HandlerTypes ==
  ASSUME TypeOK, PodsInv, NEW c \in Clients, Known(c), AnyHandlerStep(c),
         UNCHANGED <<serverVars, providerVars, podVars>>
  PROVE  TypeOK'
  <1>0. PodsTypeOK'
    BY DEF TypeOK, PodsTypeOK, podVars
  <1>c. "Unauthenticated" \in Codes /\ "Internal" \in Codes
    BY DEF Codes
  <1>1. CASE Authenticate(c)
    <2>1. Caller(req[c]) \in [identities : Seq(Nat), info : Infos]
      BY <1>1, CallerTypes, Zenon DEF Known, Authenticate
    <2>2. hpc' \in [Clients -> Labels]
      BY <1>1, Zenon DEF Authenticate, Goto, TypeOK, Labels
    <2>3. caller' \in [Clients -> [identities : Seq(Nat), info : Infos]]
      BY <1>1, <2>1, Zenon DEF Authenticate, TypeOK
    <2>4. UNCHANGED <<req, csr, seconds, node, signed, snapshot, answer>>
      BY <1>1, Zenon DEF Authenticate
    <2> QED BY <1>0, <2>2, <2>3, <2>4, Zenon DEF TypeOK, serverVars, providerVars
  <1>2. CASE AuthenticateFails(c)
    BY <1>2, <1>c, FailTypes, Zenon DEF AuthenticateFails, Denied
  <1>3. CASE GetCallerPod(c)
    <2>1. CASE ~CallerFound(caller[c].info, req[c].impersonated)
      BY <1>3, <2>1, <1>c, FailTypes, Zenon DEF GetCallerPod, Denied
    <2>2. CASE CallerFound(caller[c].info, req[c].impersonated)
      <3>1. Cached(caller[c].info.pod).node \in Nodes \cup {NoNode}
        BY <1>3, <2>2, CachedPod, Zenon DEF GetCallerPod
      <3>2. /\ hpc' = [hpc EXCEPT ![c] = "lookup"]
            /\ node' = [node EXCEPT ![c] = Cached(caller[c].info.pod).node]
            /\ UNCHANGED <<req, csr, seconds, caller, signed, snapshot, answer>>
        BY <1>3, <2>2 DEF GetCallerPod, Goto
      <3> QED BY <1>0, <3>1, <3>2, Zenon DEF TypeOK, Labels, serverVars, providerVars
    <2> QED BY <2>1, <2>2
  <1>4. CASE Lookup(c)
    <2>1. CASE ~FoundOnNode(req[c].impersonated, node[c])
      BY <1>4, <2>1, <1>c, FailTypes, Zenon DEF Lookup, Denied
    <2>2. CASE FoundOnNode(req[c].impersonated, node[c])
      <3>1. /\ hpc' = [hpc EXCEPT ![c] = "check"]
            /\ UNCHANGED <<req, csr, seconds, caller, node, signed, snapshot, answer>>
        BY <1>4, <2>2, Zenon DEF Lookup, Goto
      <3> QED BY <1>0, <3>1, Zenon DEF TypeOK, Labels, serverVars, providerVars
    <2> QED BY <2>1, <2>2, Zenon
  <1>5. CASE CheckCSR(c)
    <2>1. CASE Fail(c, Denied)
      BY <2>1, <1>c, FailTypes, Zenon DEF Denied
    <2>2. ASSUME NEW x \in CSRs, Accepts(c, x) PROVE TypeOK'
      <3>1. PICK t \in Validities : seconds' = [seconds EXCEPT ![c] = t]
        BY <2>2 DEF Accepts
      <3>2. /\ hpc' = [hpc EXCEPT ![c] = "sign"] /\ csr' = [csr EXCEPT ![c] = x]
            /\ UNCHANGED <<req, caller, node, signed, snapshot, answer>>
        BY <2>2, Zenon DEF Accepts
      <3> QED BY <1>0, <3>1, <3>2, Zenon DEF TypeOK, Labels, serverVars, providerVars
    <2> QED BY <1>5, <2>1, <2>2, CheckedCSR
  <1>6. CASE SignOK(c)
    <2>1. NoCaller \in [identities : Seq(Nat), info : Infos]
      BY EmptySeq, Zenon DEF NoCaller, NoInfo, Infos
    <2> QED BY <1>0, <1>6, <2>1, Zenon DEF SignOK, Goto, TypeOK, Labels, serverVars, providerVars
  <1>7. CASE SignFails(c)
    BY <1>7, <1>c, FailTypes DEF SignFails
  <1>8. CASE RootCAs(c)
    BY <1>0, <1>8, Zenon DEF RootCAs, Goto, TypeOK, Labels, serverVars, providerVars
  <1>9. CASE Respond(c)
    <2>1. CASE ~Verifies(c)
      BY <1>9, <2>1, <1>c, FailTypes, Zenon DEF Respond
    <2>2. CASE Verifies(c)
      <3>1. [code |-> "OK", ca |-> signed[c], roots |-> LastEntry(c)] \in Answers
        BY DEF TypeOK, Answers, Codes, LastEntry
      <3> QED BY <1>9, <2>2, <3>1, FinishTypes, Zenon DEF Respond
    <2> QED BY <2>1, <2>2
  <1>10. CASE RootCAsNil(c)
    BY <1>10, <1>c, FailTypes DEF RootCAsNil
  <1> QED
    BY <1>1, <1>2, <1>3, <1>4, <1>5, <1>6, <1>7, <1>8, <1>9, <1>10 DEF AnyHandlerStep

\* What a handler knows stays true while it does not move: versions are kept.
LEMMA KnownKept ==
  ASSUME NEW c \in Clients, Known(c), VersionsKept,
         hpc'[c] = hpc[c], req'[c] = req[c], caller'[c] = caller[c], node'[c] = node[c]
  PROVE  Known(c)'
  <1>1. Backed(c) => Backed(c)'
    BY Zenon DEF Backed, VersionsKept
  <1>2. Present(c) => Present(c)'
    BY Zenon DEF Present, VersionsKept
  <1> QED BY <1>1, <1>2, Zenon DEF Known

\* A step of a handler leaves the other handlers alone.
LEMMA OthersKept ==
  ASSUME TypeOK, NEW c \in Clients, AnyHandlerStep(c), NEW d \in Clients, d # c
  PROVE  /\ hpc'[d] = hpc[d] /\ req'[d] = req[d] /\ caller'[d] = caller[d] /\ node'[d] = node[d]
         /\ csr'[d] = csr[d]
  <1> USE DEF TypeOK
  <1>1. CASE Authenticate(c)  BY <1>1 DEF Authenticate, Goto
  <1>2. CASE AuthenticateFails(c)  BY <1>2 DEF AuthenticateFails, Fail, Finish
  <1>3. CASE GetCallerPod(c)  BY <1>3 DEF GetCallerPod, Goto, Fail, Finish
  <1>4. CASE Lookup(c)  BY <1>4 DEF Lookup, Goto, Fail, Finish
  <1>5. CASE CheckCSR(c)  BY <1>5 DEF CheckCSR, Goto, Fail, Finish
  <1>6. CASE SignOK(c)  BY <1>6 DEF SignOK, Goto
  <1>7. CASE SignFails(c)  BY <1>7 DEF SignFails, Fail, Finish
  <1>8. CASE RootCAs(c)  BY <1>8 DEF RootCAs, Goto
  <1>9. CASE Respond(c)  BY <1>9 DEF Respond, Fail, Finish
  <1>10. CASE RootCAsNil(c)  BY <1>10 DEF RootCAsNil, Fail, Finish
  <1> QED
    BY <1>1, <1>2, <1>3, <1>4, <1>5, <1>6, <1>7, <1>8, <1>9, <1>10, Zenon DEF AnyHandlerStep

\* A handler that ends, or has had its CSR signed, need not know anything.
LEMMA DoneKnown ==
  ASSUME TypeOK, NEW c \in Clients, NEW l \in {"idle", "roots", "respond"},
         hpc' = [hpc EXCEPT ![c] = l]
  PROVE  Known(c)'
  BY Zenon DEF Known, TypeOK

\* A handler that takes a step knows what it should at its next point.
LEMMA HandlerKnown ==
  ASSUME TypeOK, PodsInv, NEW c \in Clients, Known(c), AnyHandlerStep(c), UNCHANGED podVars
  PROVE  Known(c)'
  <1>1. CASE Authenticate(c)
    <2>1. Caller(req[c]).info = NoInfo \/ Caller(req[c]).info.pod \in PodNames
      BY <1>1, CallerTypes, Zenon DEF Known, Authenticate
    <2>2. caller'[c] = Caller(req[c]) /\ req'[c] = req[c] /\ req[c] \in Requests
      BY <1>1 DEF Authenticate, TypeOK, Known
    <2>3. \/ hpc'[c] = "check" /\ req[c].impersonated = NoIdentity
          \/ hpc'[c] = "get"
      BY <1>1 DEF Authenticate, Goto, TypeOK
    <2> QED BY <2>1, <2>2, <2>3 DEF Known
  <1>2. CASE AuthenticateFails(c)
    BY <1>2, DoneKnown, Zenon DEF AuthenticateFails, Fail, Finish
  <1>3. CASE GetCallerPod(c)
    <2>1. CASE ~CallerFound(caller[c].info, req[c].impersonated)
      BY <1>3, <2>1, DoneKnown DEF GetCallerPod, Fail, Finish
    <2>2. CASE CallerFound(caller[c].info, req[c].impersonated)
      <3> DEFINE info == caller[c].info
                 n == Cached(info.pod).node
      <3>1. /\ hpc'[c] = "lookup" /\ node'[c] = n /\ caller'[c] = caller[c] /\ req'[c] = req[c]
            /\ req[c] \in Requests
        BY <1>3, <2>2 DEF GetCallerPod, Goto, TypeOK, Known
      <3>2. /\ info.sa \in trustedNodeAccounts /\ info.pod \in PodNames
            /\ at[info.pod] \in 1..Len(versions[info.pod])
            /\ versions[info.pod][at[info.pod]] = [uid |-> info.uid, sa |-> info.sa, node |-> n]
        BY <1>3, <2>2, CachedPod, Zenon DEF GetCallerPod, Cached
      <3>3. versions' = versions
        BY DEF podVars
      <3> HIDE DEF n
      <3>4. Backed(c)'
        BY <3>1, <3>2, <3>3, Zenon DEF Backed
      <3> QED BY <3>1, <3>4, Zenon DEF Known
    <2> QED BY <2>1, <2>2
  <1>4. CASE Lookup(c)
    <2>1. CASE ~FoundOnNode(req[c].impersonated, node[c])
      BY <1>4, <2>1, DoneKnown DEF Lookup, Fail, Finish
    <2>2. CASE FoundOnNode(req[c].impersonated, node[c])
      <3>1. /\ hpc'[c] = "check" /\ node' = node /\ caller' = caller /\ req' = req
            /\ req[c] \in Requests /\ Backed(c) /\ versions' = versions
        BY <1>4, <2>2 DEF Lookup, Goto, TypeOK, Known, podVars
      <3>2. PICK p \in PodNames :
              /\ Cached(p) # NoPod /\ Cached(p).node # NoNode
              /\ Cached(p).sa = Account[req[c].impersonated] /\ Cached(p).node = node[c]
        BY <2>2, Zenon DEF FoundOnNode, Indexed
      <3>3. at[p] \in 1..Len(versions[p])
        BY DEF PodsInv
      <3>4. node[c] \in Nodes
        BY <3>2, Zenon DEF TypeOK
      <3>5. Present(c)
        BY <3>2, <3>3, <3>4, Zenon DEF Present, Cached
      <3>6. Backed(c)' /\ Present(c)'
        BY <3>1, <3>5, Zenon DEF Backed, Present
      <3> QED BY <3>1, <3>6, Zenon DEF Known
    <2> QED BY <2>1, <2>2, Zenon
  <1>5. CASE CheckCSR(c)
    <2>1. CASE Fail(c, Denied)
      BY <2>1, DoneKnown, Zenon DEF Fail, Finish
    <2>2. ASSUME NEW x \in CSRs, Accepts(c, x) PROVE Known(c)'
      <3>1. /\ hpc'[c] = "sign" /\ node' = node /\ caller' = caller /\ req' = req
            /\ versions' = versions /\ hpc[c] = "check"
        BY <1>5, <2>2 DEF CheckCSR, Accepts, TypeOK, podVars
      <3>2. (Backed(c) => Backed(c)') /\ (Present(c) => Present(c)')
        BY <3>1 DEF Backed, Present
      <3> QED BY <3>1, <3>2, Zenon DEF Known
    <2> QED BY <1>5, <2>1, <2>2, CheckedCSR
  <1>6. CASE SignOK(c)  BY <1>6, DoneKnown, Zenon DEF SignOK, Goto
  <1>7. CASE SignFails(c)  BY <1>7, DoneKnown, Zenon DEF SignFails, Fail, Finish
  <1>8. CASE RootCAs(c)  BY <1>8, DoneKnown, Zenon DEF RootCAs, Goto
  <1>9. CASE Respond(c)  BY <1>9, DoneKnown DEF Respond, Fail, Finish
  <1>10. CASE RootCAsNil(c)  BY <1>10, DoneKnown, Zenon DEF RootCAsNil, Fail, Finish
  <1> QED
    BY <1>1, <1>2, <1>3, <1>4, <1>5, <1>6, <1>7, <1>8, <1>9, <1>10, Zenon DEF AnyHandlerStep

\* A step of a handler keeps IInv.
LEMMA HandlerKeepsIInv ==
  ASSUME IInv, NEW c \in Clients, AnyHandlerStep(c), UNCHANGED <<serverVars, providerVars, podVars>>
  PROVE  IInv'
  <1>1. TypeOK /\ PodsInv /\ Known(c)
    BY DEF IInv
  <1>2. TypeOK'
    BY <1>1, HandlerTypes
  <1>3. PodsInv' /\ VersionsKept /\ UNCHANGED podVars
    BY <1>1 DEF PodsInv, VersionsKept, podVars
  <1>4. Known(c)'
    BY <1>1, <1>3, HandlerKnown
  <1>5. ASSUME NEW d \in Clients, d # c PROVE Known(d)'
    BY <1>1, <1>3, <1>5, OthersKept, KnownKept DEF IInv
  <1> QED BY <1>2, <1>3, <1>4, <1>5 DEF IInv

\* A step that moves no handler keeps what they know.
LEMMA StillKnown ==
  ASSUME IInv, UNCHANGED handlerVars, TypeOK', PodsInv', VersionsKept
  PROVE  IInv'
  <1>1. ASSUME NEW c \in Clients PROVE Known(c)'
    BY <1>1, KnownKept DEF IInv, handlerVars
  <1> QED BY <1>1 DEF IInv

\* So does a new request.
LEMMA RequestKeepsIInv ==
  ASSUME IInv, NEW c \in Clients, NEW r \in Requests, Request(c, r)
  PROVE  IInv'
  <1>1. TypeOK /\ PodsInv /\ UNCHANGED podVars
    BY DEF IInv, Request
  <1>2. PodsInv' /\ VersionsKept /\ PodsTypeOK'
    BY <1>1 DEF PodsInv, VersionsKept, podVars, TypeOK, PodsTypeOK
  <1>3. NoAnswer \in Answers
    BY DEF NoAnswer, Answers, Codes
  <1>4. TypeOK'
    BY <1>1, <1>2, <1>3, Zenon DEF TypeOK, Request, Answers, Labels, serverVars, providerVars
  <1>5. Known(c)'
    BY <1>1 DEF Known, Request, TypeOK
  <1>6. ASSUME NEW d \in Clients, d # c PROVE Known(d)'
    <2>1. hpc'[d] = hpc[d] /\ req'[d] = req[d] /\ caller'[d] = caller[d] /\ node'[d] = node[d]
      BY <1>1, <1>6 DEF Request, TypeOK
    <2> QED BY <1>2, <2>1, KnownKept DEF IInv
  <1> QED BY <1>2, <1>4, <1>5, <1>6 DEF IInv

\* Steps of the server and of its environment that touch neither handlers nor pods.
LEMMA ServerKeepsIInv ==
  ASSUME IInv, UNCHANGED <<handlerVars, versions, at>>, changes' \in Nat,
         \/ UNCHANGED providerVars
            /\ spc' \in {"config", "listen", "ready", "serve", "returned", "failed"}
            /\ gpc' \in {"none", "wait", "stop", "drain", "done"}
            /\ ready' \in BOOLEAN /\ late' \in BOOLEAN
         \/ UNCHANGED serverVars
            /\ ctxDone' \in BOOLEAN /\ configured' \in BOOLEAN
            /\ issuerCA' \in CAs /\ rootCAs' \in SUBSET CAs
  PROVE  IInv'
  <1>1. PodsInv' /\ VersionsKept /\ PodsTypeOK'
    BY DEF IInv, PodsInv, VersionsKept, TypeOK, PodsTypeOK
  <1>2. TypeOK'
    BY <1>1, Zenon DEF IInv, TypeOK, handlerVars, serverVars, providerVars
  <1> QED BY <1>1, <1>2, StillKnown

\* A server that fails has no handlers left.
LEMMA FailureKeepsIInv ==
  ASSUME IInv, ServeFails
  PROVE  IInv'
  <1>1. PodsInv' /\ PodsTypeOK'
    BY DEF IInv, PodsInv, TypeOK, PodsTypeOK, ServeFails, podVars
  <1>2. NoCaller \in [identities : Seq(Nat), info : Infos]
    BY EmptySeq, Zenon DEF NoCaller, NoInfo, Infos
  <1>3. TypeOK'
    BY <1>1, <1>2, Zenon DEF IInv, TypeOK, ServeFails, Labels, providerVars
  <1>4. ASSUME NEW c \in Clients PROVE Known(c)'
    <2>1. hpc'[c] = "idle"
      BY DEF ServeFails
    <2> QED BY <2>1 DEF Known
  <1> QED BY <1>1, <1>3, <1>4 DEF IInv

\* Every step keeps IInv.
LEMMA IInvStep == IInv /\ [Next]_vars => IInv'
  <1> SUFFICES ASSUME IInv, [Next]_vars PROVE IInv'
    OBVIOUS
  <1>0. TypeOK /\ PodsTypeOK /\ PodsInv /\ changes \in Nat
    BY Zenon DEF IInv, TypeOK, PodsTypeOK
  <1>1. ASSUME NEW ca \in CAs, ChangeIssuer(ca) PROVE IInv'
    BY <1>0, <1>1, ServerKeepsIInv DEF ChangeIssuer, Change, TypeOK
  <1>2. ASSUME NEW b \in Bundles, ChangeRootCAs(b) PROVE IInv'
    BY <1>0, <1>2, ServerKeepsIInv DEF ChangeRootCAs, Change, TypeOK, Bundles
  <1>3. CASE SetConfig
    BY <1>0, <1>3, ServerKeepsIInv DEF SetConfig, podVars, TypeOK
  <1>4. CASE CancelContext
    BY <1>0, <1>4, ServerKeepsIInv DEF CancelContext, podVars, TypeOK
  <1>5. CASE GetConfig
    BY <1>0, <1>5, ServerKeepsIInv DEF GetConfig, podVars, TypeOK
  <1>6. CASE Listen
    BY <1>0, <1>6, ServerKeepsIInv DEF Listen, podVars, TypeOK
  <1>7. CASE SetReady
    BY <1>0, <1>7, ServerKeepsIInv DEF SetReady, podVars, TypeOK
  <1>8. CASE ServeReturns
    BY <1>0, <1>8, ServerKeepsIInv DEF ServeReturns, podVars, TypeOK
  <1>9. CASE ClearReady
    BY <1>0, <1>9, ServerKeepsIInv, Zenon DEF ClearReady, podVars, TypeOK
  <1>10. CASE CallGracefulStop \/ GracefulStop
    BY <1>0, <1>10, ServerKeepsIInv DEF CallGracefulStop, GracefulStop, podVars, TypeOK
  <1>16. CASE ServeFails
    BY <1>16, FailureKeepsIInv
  <1>11. ASSUME NEW c \in Clients, HandlerStep(c) PROVE IInv'
    BY <1>11, HandlerKeepsIInv DEF HandlerStep, AnyHandlerStep
  <1>12. ASSUME NEW c \in Clients, RootCAsNil(c), UNCHANGED <<serverVars, providerVars, podVars>>
         PROVE  IInv'
    BY <1>12, HandlerKeepsIInv DEF AnyHandlerStep
  <1>13. ASSUME NEW c \in Clients, NEW r \in Requests, Request(c, r) PROVE IInv'
    BY <1>13, RequestKeepsIInv
  <1>14. CASE (ChangePods \/ Informer) /\ UNCHANGED <<serverVars, providerVars, handlerVars>>
    <2>1. PodsTypeOK' /\ PodsInv' /\ VersionsKept
      BY <1>0, <1>14, PodsStep
    <2>2. TypeOK'
      BY <1>0, <1>14, <2>1, Zenon DEF TypeOK, serverVars, providerVars, handlerVars
    <2> QED BY <1>14, <2>1, <2>2, StillKnown
  <1>15. CASE UNCHANGED vars
    BY <1>0, <1>15, ServerKeepsIInv DEF vars, podVars, serverVars, TypeOK
  <1> QED
    BY <1>1, <1>2, <1>3, <1>4, <1>5, <1>6, <1>7, <1>8, <1>9, <1>10, <1>11, <1>12, <1>13, <1>14,
       <1>15, <1>16
    DEF Next, Environment, Start, Shutdown

\* Every variable keeps its type, the pods and the handlers included.
THEOREM TypeCorrect == Spec => []TypeOK
  <1>1. IInv => TypeOK
    BY Zenon DEF IInv
  <1> QED BY <1>1, IInvInit, IInvStep, PTL DEF Spec

\* authenticateImpersonation grants only what the pods justified when the informer
\* saw them, for any number of pods, nodes and changes to them.
THEOREM GrantedOnlyIfJustified == Spec => []ImpersonationJustified
  <1>1. ASSUME IInv, NEW c \in Clients, hpc[c] \in {"check", "sign"},
               req[c].impersonated # NoIdentity
        PROVE  Backed(c) /\ Present(c)
    BY <1>1 DEF IInv, Known
  <1>2. IInv => ImpersonationJustified
    BY <1>1, Zenon DEF ImpersonationJustified, Backed, Present
  <1> QED BY <1>2, IInvInit, IInvStep, PTL DEF Spec
====
