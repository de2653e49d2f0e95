--------------------------- MODULE TLSProviderProofs ---------------------------
(***************************************************************************)
(* Proofs about TLSProvider, for any root CA bundles, and any number of    *)
(* edits of the file, changes of the issuer's CA and failed fetches.       *)
(***************************************************************************)
EXTENDS TLSProvider, TLAPS, SequenceTheorems

\* Steps of the environment, DeleteOld included.
EnvironmentStep == Environment \/ \E i \in old : DeleteOld(i)

\* TypeOK holds at first.
LEMMA TypeInit == Init => TypeOK
  <1> SUFFICES ASSUME Init PROVE TypeOK
    OBVIOUS
  <1>1. fsEvents \in Seq({"Remove", "Write"})
    BY EmptySeq DEF Init
  <1>2. content \in Roots \cup {NoRoots, Bad, Gone} /\ issuerCA \in Roots \cup {NoRoots, Bad}
    BY DEF Init
  <1>3. attempts \in 0..MaxRetries /\ edits \in Nat /\ failures \in Nat
    BY RootsAssumption DEF Init
  <1>4. ppc \in {"start", "fetch"} /\ wpc \in {"none", "load"}
    BY DEF Init
  <1>5. missed \in BOOLEAN /\ listening \in BOOLEAN /\ ctxDone \in BOOLEAN
    BY Zenon DEF Init, RootCAsCertFile
  <1>6. /\ inode = 1 /\ old = {} /\ watched = 0 /\ rootCAs = NoRoots /\ events = 0
        /\ rootCAsPEM = NoRoots /\ broadcast = NoRoots /\ received = NoRoots
        /\ tlsConfig = NoConfig /\ until = minDuration
    BY DEF Init
  <1> QED BY <1>1, <1>2, <1>3, <1>4, <1>5, <1>6 DEF TypeOK

\* Events of the file are appended to fsEvents.
LEMMA NotifiedTypes ==
  ASSUME TypeOK, NEW op \in {"Remove", "Write"}
  PROVE  Notified(op) \in Seq({"Remove", "Write"})
  BY AppendProperties DEF Notified, TypeOK

\* The environment keeps TypeOK.
LEMMA EnvironmentTypes == TypeOK /\ EnvironmentStep => TypeOK'
  <1> SUFFICES ASSUME TypeOK, EnvironmentStep PROVE TypeOK'
    OBVIOUS
  <1> USE DEF watcherVars, receiverVars, renewVars, providerVars, rootVars, bounds
  <1>1. ASSUME NEW c \in Roots \cup {NoRoots, Bad}, WriteFile(c) PROVE TypeOK'
    <2>1. fsEvents' \in Seq({"Remove", "Write"})
      BY <1>1, NotifiedTypes DEF WriteFile
    <2> QED BY <1>1, <2>1 DEF WriteFile, Edit, TypeOK
  <1>2. ASSUME NEW c \in Roots \cup {NoRoots, Bad}, ReplaceFile(c) PROVE TypeOK'
    BY <1>2 DEF ReplaceFile, Edit, TypeOK, notifyVars
  <1>3. CASE DeleteFile
    <2>1. fsEvents' \in Seq({"Remove", "Write"})
      BY <1>3, NotifiedTypes DEF DeleteFile
    <2> QED BY <1>3, <2>1 DEF DeleteFile, Edit, TypeOK
  <1>4. ASSUME NEW c \in Roots \cup {NoRoots, Bad}, ChangeIssuerCA(c) PROVE TypeOK'
    BY <1>4 DEF ChangeIssuerCA, TypeOK, fileVars, notifyVars
  <1>5. CASE CancelContext
    BY <1>5 DEF CancelContext, TypeOK, fileVars, notifyVars
  <1>6. ASSUME NEW i \in old, DeleteOld(i) PROVE TypeOK'
    <2>1. fsEvents' \in Seq({"Remove", "Write"}) /\ watched' \in Nat
      <3>1. Append(fsEvents, "Remove") \in Seq({"Remove", "Write"})
        BY AppendProperties DEF TypeOK
      <3> QED BY <1>6, <3>1 DEF DeleteOld, TypeOK, notifyVars
    <2> QED BY <1>6, <2>1 DEF DeleteOld, TypeOK
  <1> QED BY <1>1, <1>2, <1>3, <1>4, <1>5, <1>6 DEF EnvironmentStep, Environment

\* So do the watcher and the receiver.
LEMMA WatcherTypes == TypeOK /\ (Watcher \/ Receiver) => TypeOK'
  <1> SUFFICES ASSUME TypeOK, Watcher \/ Receiver PROVE TypeOK'
    OBVIOUS
  <1> USE DEF TypeOK, fileVars, rootVars, renewVars, providerVars, bounds
  <1>1. CASE LoadFile
    BY <1>1 DEF LoadFile, Updated, notifyVars, receiverVars
  <1>2. CASE AddWatch
    BY <1>2 DEF AddWatch, Added, receiverVars
  <1>3. CASE Broadcast
    BY <1>3 DEF Broadcast, notifyVars
  <1>4. CASE HandleEvent
    <2>1. fsEvents' \in Seq({"Remove", "Write"})
      BY <1>4, HeadTailProperties DEF HandleEvent
    <2> QED BY <1>4, <2>1 DEF HandleEvent, receiverVars
  <1>5. CASE Rearm
    <2>1. watched' \in Nat /\ wpc' = "reload"
      BY <1>5 DEF Rearm, AfterRearm, Added
    <2> QED BY <1>5, <2>1 DEF Rearm, receiverVars
  <1>6. CASE reloadConfig
    <2>1. missed' \in BOOLEAN /\ listening' \in BOOLEAN /\ ctxDone' \in BOOLEAN
      BY <1>6, Zenon DEF reloadConfig, receiverVars
    <2>2. /\ wpc' \in {"broadcast", "select"}
          /\ rootCAsPEM' \in Roots \cup {NoRoots} /\ broadcast' \in Roots \cup {NoRoots}
      BY <1>6 DEF reloadConfig, Updated
    <2>3. UNCHANGED <<fileVars, notifyVars, received, rootVars, providerVars, bounds>>
      BY <1>6 DEF reloadConfig, receiverVars
    <2> QED BY <2>1, <2>2, <2>3 DEF notifyVars
  <1>7. CASE StopWatcher
    BY <1>7 DEF StopWatcher, notifyVars, receiverVars
  <1>8. CASE Receive
    <2>1. rootCAs' = received /\ events' = events + 1 /\ received' = NoRoots
      BY <1>8 DEF Receive, SetRootCAs
    <2> QED BY <1>8, <2>1 DEF Receive, notifyVars, watcherVars
  <1>9. CASE StopReceiver
    <2>1. missed' \in BOOLEAN /\ listening' \in BOOLEAN /\ ctxDone' \in BOOLEAN
      BY <1>9, Zenon DEF StopReceiver
    <2>2. UNCHANGED <<fileVars, notifyVars, watcherVars, received, rootVars, providerVars, bounds>>
      BY <1>9 DEF StopReceiver
    <2> QED BY <2>1, <2>2 DEF notifyVars, watcherVars
  <1> QED BY <1>1, <1>2, <1>3, <1>4, <1>5, <1>6, <1>7, <1>8, <1>9 DEF Watcher, Receiver

\* So does the provider.
LEMMA ProviderTypes == TypeOK /\ Provider => TypeOK'
  <1> SUFFICES ASSUME TypeOK, Provider PROVE TypeOK'
    OBVIOUS
  <1> USE DEF TypeOK, fileVars, notifyVars, watcherVars, receiverVars, bounds
  <1>1. CASE FetchSigned
    BY <1>1 DEF FetchSigned, SetRootCAs, rootVars, renewVars
  <1>2. CASE ApplyConfig
    <2>1. tlsConfig' \in Roots /\ attempts' \in 0..MaxRetries /\ until' \in Untils
      BY <1>2, RootsAssumption DEF ApplyConfig, RootsUndefined, ClientCAs
    <2> QED BY <1>2, <2>1 DEF ApplyConfig, rootVars
  <1>3. CASE FetchFails
    <2>1. attempts' \in 0..MaxRetries
      BY <1>3, RootsAssumption DEF FetchFails, FirstFetch
    <2>2. ppc' \in {"fetch", "wait"} /\ failures' \in Nat
      BY <1>3 DEF FetchFails, AfterFailure
    <2> QED BY <1>3, <2>1, <2>2 DEF FetchFails, rootVars
  <1>4. CASE Abandon
    BY <1>4 DEF Abandon, rootVars, renewVars
  <1>5. CASE Renew
    BY <1>5 DEF Renew, rootVars
  <1>6. CASE StopProvider
    BY <1>6 DEF StopProvider, rootVars, renewVars
  <1> QED BY <1>1, <1>2, <1>3, <1>4, <1>5, <1>6 DEF Provider

\* Every variable keeps its type.
THEOREM TypeCorrect == Spec => []TypeOK
  <1>1. TypeOK /\ UNCHANGED vars => TypeOK'
    BY DEF TypeOK, vars, fileVars, notifyVars, watcherVars, receiverVars, renewVars, providerVars,
           rootVars, bounds
  <1>2. TypeOK /\ [Next]_vars => TypeOK'
    BY <1>1, EnvironmentTypes, WatcherTypes, ProviderTypes DEF Next, EnvironmentStep
  <1> QED BY <1>2, TypeInit, PTL DEF Spec

-----------------------------------------------------------------------------
(***************************************************************************)
(* From the file to rootCAs. Last is the bundle the watcher last sent. The *)
(* watcher only sends another one, so that what the receiver holds differs *)
(* from rootCAs, and an idle watcher's rootCAsPEM is the last one sent.    *)
(* Without a file there is neither watcher nor anything to receive.        *)
(***************************************************************************)
Last == IF received # NoRoots THEN received ELSE rootCAs

Chain ==
    /\ received # NoRoots => received # rootCAs
    /\ wpc \in {"select", "rearm", "reload"} => rootCAsPEM = Last
    /\ wpc \in {"add", "broadcast"} => broadcast \in Roots /\ broadcast # Last
    /\ wpc \in {"load", "add"} => rootCAsPEM = NoRoots /\ received = NoRoots /\ rootCAs = NoRoots
    /\ wpc = "none" => received = NoRoots

chainVars == <<wpc, rootCAsPEM, broadcast, received, rootCAs>>

\* Only the watcher, the receiver and loadCAsRoot touch the chain.
LEMMA ChainFrame ==
  ASSUME \/ EnvironmentStep \/ StopReceiver
         \/ ApplyConfig \/ FetchFails \/ Abandon \/ Renew \/ StopProvider \/ UNCHANGED vars
  PROVE  UNCHANGED <<chainVars, events>>
  <1> USE DEF chainVars, watcherVars, receiverVars, rootVars
  <1>1. ASSUME NEW c, WriteFile(c) \/ ReplaceFile(c) \/ DeleteFile \/ ChangeIssuerCA(c) \/ CancelContext
        PROVE  UNCHANGED <<chainVars, events>>
    BY <1>1 DEF WriteFile, ReplaceFile, DeleteFile, Edit, ChangeIssuerCA, CancelContext
  <1>2. ASSUME NEW i, DeleteOld(i) PROVE UNCHANGED <<chainVars, events>>
    BY <1>2 DEF DeleteOld
  <1>3. ASSUME EnvironmentStep PROVE UNCHANGED <<chainVars, events>>
    BY <1>1, <1>2, <1>3 DEF EnvironmentStep, Environment
  <1>4. ASSUME StopReceiver \/ UNCHANGED vars PROVE UNCHANGED <<chainVars, events>>
    BY <1>4 DEF StopReceiver, vars
  <1>5. ASSUME ApplyConfig \/ FetchFails \/ Abandon \/ Renew \/ StopProvider
        PROVE  UNCHANGED <<chainVars, events>>
    BY <1>5 DEF ApplyConfig, FetchFails, Abandon, Renew, StopProvider
  <1> QED BY <1>3, <1>4, <1>5

\* The watcher, the receiver and the provider keep Chain.
LEMMA ChainStep == TypeOK /\ Chain /\ [Next]_vars => Chain'
  <1> SUFFICES ASSUME TypeOK, Chain, [Next]_vars PROVE Chain'
    OBVIOUS
  <1> USE DEF Chain, Last
  <1>0. UNCHANGED chainVars => Chain'
    BY DEF chainVars
  <1>1. CASE LoadFile
    BY <1>1, RootsAssumption DEF LoadFile, Updated, receiverVars, rootVars
  <1>2. CASE AddWatch
    BY <1>2 DEF AddWatch, receiverVars, rootVars
  <1>3. CASE Broadcast
    BY <1>3, RootsAssumption DEF Broadcast, rootVars
  <1>4. CASE HandleEvent
    BY <1>4 DEF HandleEvent, receiverVars, rootVars
  <1>5. CASE Rearm
    BY <1>5 DEF Rearm, AfterRearm, receiverVars, rootVars
  <1>6. CASE reloadConfig
    BY <1>6 DEF reloadConfig, Updated, receiverVars, rootVars
  <1>7. CASE StopWatcher
    BY <1>7 DEF StopWatcher, receiverVars, rootVars
  <1>8. CASE Receive
    BY <1>8 DEF Receive, SetRootCAs, watcherVars
  <1>9. CASE FetchSigned
    BY <1>9 DEF FetchSigned, RootCAsCertFile, SetRootCAs, watcherVars, receiverVars, rootVars
  <1> QED
    BY <1>0, <1>1, <1>2, <1>3, <1>4, <1>5, <1>6, <1>7, <1>8, <1>9, ChainFrame
    DEF Next, Watcher, Receiver, Provider, EnvironmentStep

\* Chain holds at first.
LEMMA ChainInit == Init => Chain
  BY DEF Init, Chain, Last

\* Every step is a step of the RootCAsFeed or leaves it alone: root CAs are not
\* withdrawn, and an event is sent for changed ones only.
LEMMA FeedStep == TypeOK /\ Chain /\ [Next]_vars => [Feed!Next]_<<rootCAs, events>>
  <1> SUFFICES ASSUME TypeOK, Chain, [Next]_vars PROVE [Feed!Next]_<<rootCAs, events>>
    OBVIOUS
  <1>0. UNCHANGED <<rootCAs, events>> => [Feed!Next]_<<rootCAs, events>>
    OBVIOUS
  <1>1. CASE Watcher
    BY <1>1 DEF Watcher, LoadFile, AddWatch, Broadcast, HandleEvent, Rearm, reloadConfig, StopWatcher,
                rootVars
  <1>2. CASE Receive
    <2>1. received \in Roots /\ received # rootCAs
      BY <1>2 DEF Receive, TypeOK, Chain
    <2>2. Feed!Change(received)
      BY <1>2, <2>1 DEF Receive, SetRootCAs, Feed!Change
    <2> QED BY <2>1, <2>2 DEF Feed!Next
  <1>3. CASE FetchSigned
    <2>1. CASE issuerCA \in Roots \ {rootCAs} /\ SetRootCAs(issuerCA)
      <3>1. Feed!Change(issuerCA)
        BY <2>1 DEF SetRootCAs, Feed!Change
      <3> QED BY <2>1, <3>1 DEF Feed!Next
    <2>2. CASE UNCHANGED rootVars
      BY <2>2 DEF rootVars
    <2> QED BY <1>3, <2>1, <2>2 DEF FetchSigned
  <1>4. UNCHANGED <<chainVars, events>> => [Feed!Next]_<<rootCAs, events>>
    BY DEF chainVars
  <1> QED
    BY <1>1, <1>2, <1>3, <1>4, ChainFrame DEF Next, Receiver, Provider, EnvironmentStep

\* The TLS provider implements RootCAsFeed, what the ConfigMap controller relies on.
THEOREM Refinement == Spec => ImplementsFeed
  <1>1. Init => Feed!Init
    BY DEF Init, Feed!Init
  <1> QED BY <1>1, TypeCorrect, ChainInit, ChainStep, FeedStep, PTL DEF Spec, ImplementsFeed, Feed!Spec

-----------------------------------------------------------------------------
(***************************************************************************)
(* The serving config. Once there are root CAs there always are, and with  *)
(* the issuer's CA they only change while a fetch is in progress.          *)
(***************************************************************************)
ServeInv == ReadyHasRoots /\ IssuerRootsServed

\* With the issuer's CA, whoever leaves ppc and tlsConfig alone leaves the roots alone.
LEMMA ServeKept ==
  ASSUME TypeOK, Chain, ServeInv, UNCHANGED <<tlsConfig, ppc>>, ctxDone => ctxDone',
         wpc' = "none" <=> wpc = "none", rootCAs' # rootCAs => rootCAs' # NoRoots /\ wpc # "none"
  PROVE  ServeInv'
  BY DEF ServeInv, ReadyHasRoots, IssuerRootsServed, RootCAsCertFile

\* Every step keeps ServeInv.
LEMMA ServeStep == TypeOK /\ Chain /\ ServeInv /\ [Next]_vars => ServeInv'
  <1> SUFFICES ASSUME TypeOK, Chain, ServeInv, [Next]_vars PROVE ServeInv'
    OBVIOUS
  <1>1. ASSUME UNCHANGED <<chainVars, tlsConfig, ppc>>, ctxDone => ctxDone' PROVE ServeInv'
    BY <1>1, ServeKept DEF chainVars
  <1>2. CASE EnvironmentStep
    <2>1. ASSUME NEW c, WriteFile(c) \/ ReplaceFile(c) \/ DeleteFile \/ ChangeIssuerCA(c) \/ CancelContext
          PROVE  UNCHANGED <<tlsConfig, ppc>> /\ (ctxDone => ctxDone')
      BY <2>1 DEF WriteFile, ReplaceFile, DeleteFile, Edit, ChangeIssuerCA, CancelContext, providerVars
    <2>2. ASSUME NEW i, DeleteOld(i) PROVE UNCHANGED <<tlsConfig, ppc>> /\ (ctxDone => ctxDone')
      BY <2>2 DEF DeleteOld, providerVars
    <2>3. UNCHANGED <<tlsConfig, ppc>> /\ (ctxDone => ctxDone')
      BY <1>2, <2>1, <2>2 DEF EnvironmentStep, Environment
    <2> QED BY <1>1, <1>2, <2>3, ChainFrame
  <1>3. CASE LoadFile
    BY <1>3 DEF LoadFile, ServeInv, ReadyHasRoots, IssuerRootsServed, RootCAsCertFile, rootVars
  <1>4. CASE AddWatch
    BY <1>4 DEF AddWatch, ServeInv, ReadyHasRoots, IssuerRootsServed, RootCAsCertFile, rootVars
  <1>5. CASE Broadcast \/ HandleEvent \/ Rearm \/ reloadConfig \/ StopWatcher
    <2>1. wpc # "none" /\ wpc' # "none"
      BY <1>5 DEF Broadcast, HandleEvent, Rearm, AfterRearm, reloadConfig, StopWatcher
    <2>2. UNCHANGED <<tlsConfig, ppc, ctxDone, rootCAs>>
      BY <1>5 DEF Broadcast, HandleEvent, Rearm, reloadConfig, StopWatcher, rootVars, providerVars
    <2> QED BY <2>1, <2>2, ServeKept
  <1>6. CASE Receive
    <2>1. wpc # "none" /\ wpc' = wpc
      BY <1>6 DEF Receive, Chain, watcherVars
    <2>2. UNCHANGED <<tlsConfig, ppc, ctxDone>> /\ rootCAs' # NoRoots
      BY <1>6 DEF Receive, SetRootCAs, providerVars
    <2> QED BY <2>1, <2>2, ServeKept
  <1>7. CASE StopReceiver
    BY <1>1, <1>7, ChainFrame, Zenon DEF StopReceiver, providerVars
  <1>8. CASE FetchSigned
    <2>1. rootCAs' = rootCAs \/ rootCAs' \in Roots
      BY <1>8 DEF FetchSigned, SetRootCAs, rootVars
    <2> QED BY <1>8, <2>1, RootsAssumption DEF FetchSigned, ServeInv, ReadyHasRoots, IssuerRootsServed
  <1>9. CASE ApplyConfig
    BY <1>9 DEF ApplyConfig, RootsUndefined, ClientCAs, ServeInv, ReadyHasRoots, IssuerRootsServed, rootVars
  <1>10. CASE FetchFails
    <2>1. UNCHANGED <<tlsConfig, rootCAs>>
      BY <1>10 DEF FetchFails, rootVars
    <2>2. ppc' = "wait" => tlsConfig = NoConfig
      BY <1>10 DEF FetchFails, FirstFetch, AfterFailure
    <2> QED BY <2>1, <2>2 DEF ServeInv, ReadyHasRoots, IssuerRootsServed
  <1>11. CASE Abandon
    BY <1>11 DEF Abandon, ServeInv, ReadyHasRoots, IssuerRootsServed, rootVars
  <1>12. CASE Renew
    BY <1>12 DEF Renew, ServeInv, ReadyHasRoots, IssuerRootsServed, rootVars
  <1>13. CASE StopProvider
    BY <1>13 DEF StopProvider, ServeInv, ReadyHasRoots, IssuerRootsServed, rootVars
  <1>14. CASE UNCHANGED vars
    BY <1>1, <1>14, ChainFrame DEF vars, providerVars
  <1> QED
    BY <1>2, <1>3, <1>4, <1>5, <1>6, <1>7, <1>8, <1>9, <1>10, <1>11, <1>12, <1>13, <1>14
    DEF Next, EnvironmentStep, Watcher, Receiver, Provider

\* ServeInv is an invariant.
LEMMA ServingInvariant == Spec => []ServeInv
  <1>1. Init => ServeInv
    BY DEF Init, ServeInv, ReadyHasRoots, IssuerRootsServed
  <1> QED BY <1>1, TypeCorrect, ChainInit, ChainStep, ServeStep, PTL DEF Spec

\* Readiness means that RootCAs() does not block the gRPC handlers.
THEOREM ReadyMeansRoots == Spec => []ReadyHasRoots
  BY ServingInvariant, PTL DEF ServeInv

\* With the issuer's CA, clients are verified against the root CAs that are
\* distributed to the mesh whenever no fetch is in progress.
THEOREM ServedAreDistributed == Spec => []IssuerRootsServed
  BY ServingInvariant, PTL DEF ServeInv

-----------------------------------------------------------------------------
(***************************************************************************)
(* The renewal timer.                                                      *)
(***************************************************************************)

\* A number below the modulus is its own remainder, and one modulus more or less
\* does not change it.
LEMMA Remainder ==
  ASSUME NEW a \in Int, NEW m \in Nat, -m <= a, a < 2 * m
  PROVE  a % m = IF a < 0 THEN a + m ELSE IF a < m THEN a ELSE a - m
<1>1. CASE a < 0
  BY <1>1
<1>2. CASE 0 <= a /\ a < m
  BY <1>2
<1>3. CASE m <= a
  BY <1>3
<1> QED BY <1>1, <1>2, <1>3

\* Up to twice the range wraps around once: a result that fits is exact, one that
\* is too large comes out negative, one that is too small comes out nonnegative.
LEMMA WrapOnce ==
  ASSUME NEW x \in 2 * minDuration .. 2 * maxDuration + 1
  PROVE  Wrap(x) = IF x < minDuration THEN x + 2 * (maxDuration + 1)
                   ELSE IF x <= maxDuration THEN x
                   ELSE x - 2 * (maxDuration + 1)
<1> DEFINE m == 2 * (maxDuration + 1)
           a == x - minDuration
<1>1. m \in Nat /\ a \in Int /\ -m <= a /\ a < 2 * m
  BY DurationAssumption DEF minDuration
<1>2. Wrap(x) = (a % m) + minDuration
  BY DEF Wrap
<1> HIDE DEF m, a
<1>3. a % m = IF a < 0 THEN a + m ELSE IF a < m THEN a ELSE a - m
  BY <1>1, Remainder, Zenon
<1>4. m = 2 * (maxDuration + 1) /\ a = x - minDuration
  BY DEF m, a
<1> QED BY <1>2, <1>3, <1>4, DurationAssumption DEF minDuration

\* What twice the time left comes out as, and a third of that.
LEMMA RenewalBound ==
  ASSUME until \in minDuration .. maxDuration
  PROVE  /\ 0 < until /\ 2 * until <= maxDuration =>
              3 * RenewalTime <= 2 * until /\ 2 * until < 3 * (RenewalTime + 1)
         /\ 2 * until > maxDuration \/ until = minDuration \/ (until <= 0 /\ 2 * until >= minDuration) =>
              RenewalTime <= 0
  <1> DEFINE w == Wrap(2 * until)
  <1>1. 2 * until \in 2 * minDuration .. 2 * maxDuration + 1
    BY DurationAssumption DEF minDuration
  <1>2. w = IF 2 * until < minDuration THEN 2 * until + 2 * (maxDuration + 1)
            ELSE IF 2 * until <= maxDuration THEN 2 * until
            ELSE 2 * until - 2 * (maxDuration + 1)
    BY <1>1, WrapOnce
  <1>3. until = minDuration => 2 * until + 2 * (maxDuration + 1) = 0
    BY DurationAssumption DEF minDuration
  <1>4. /\ w \in Int /\ (0 < until /\ 2 * until <= maxDuration => w = 2 * until)
        /\ 2 * until > maxDuration \/ until = minDuration \/ (until <= 0 /\ 2 * until >= minDuration) =>
             w <= 0
    BY <1>2, <1>3, DurationAssumption DEF minDuration
  <1>5. RenewalTime = Quotient(w, 3)
    BY DEF RenewalTime
  <1> HIDE DEF w
  <1>6. until \in Int
    BY DurationAssumption DEF minDuration
  <1> QED BY <1>4, <1>5, <1>6 DEF Quotient

\* Two thirds of the time left exactly when twice that fits, and at once when it does
\* not or the certificate has expired, at whatever width durations overflow.
THEOREM RenewalInTime == Spec => []RenewedInTime
  <1>1. minDuration \in minDuration .. maxDuration
    BY DurationAssumption DEF minDuration
  <1>2. TypeOK => until \in minDuration .. maxDuration
    BY <1>1, RootsAssumption DEF TypeOK
  <1>3. TypeOK => RenewedInTime
    BY <1>2, RenewalBound DEF RenewedInTime
  <1> QED BY <1>3, TypeCorrect, PTL

-----------------------------------------------------------------------------
(***************************************************************************)
(* The file. fsnotify watches the path's inode, one that was replaced and  *)
(* whose deletion it will report, or none; it never watches an inode the   *)
(* path does not name yet. Read is the bundle the watcher last read: while *)
(* it watches the path's inode, that is the file's bundle, or an event or  *)
(* the watcher's next steps will have the file read again.                 *)
(***************************************************************************)
Watching ==
    /\ watched \in {0, inode} \cup old
    /\ \A i \in old : i < inode
    /\ content = Gone => watched # inode

Read == IF wpc \in {"add", "broadcast"} THEN broadcast ELSE rootCAsPEM

Following ==
    /\ wpc = "add" /\ ~missed => content = broadcast
    /\ wpc \in {"broadcast", "select"} /\ ~missed /\ watched = inode /\ content \in Roots =>
           content = Read \/ fsEvents # <<>>

\* With the path's inode watched, an edit in place is an event.
LEMMA WriteNotified ==
  ASSUME TypeOK, NEW op \in {"Remove", "Write"}
  PROVE  /\ watched = inode => Notified(op) # <<>>
         /\ fsEvents # <<>> => Notified(op) # <<>>
  <1>1. Append(fsEvents, op) # <<>>
    BY AppendProperties, EmptySeq DEF TypeOK
  <1> QED BY <1>1 DEF Notified

\* The environment keeps them.
LEMMA EnvironmentFollows ==
  ASSUME TypeOK, Watching, Following, EnvironmentStep
  PROVE  Watching' /\ Following'
  <1>1. ASSUME NEW c \in Roots \cup {NoRoots, Bad}, RootCAsCertFile, WriteFile(c)
        PROVE  Watching' /\ Following'
    <2>1. /\ content' = c /\ UNCHANGED <<inode, old, watched, wpc, rootCAsPEM, broadcast>>
          /\ content # Gone /\ fsEvents' = Notified("Write")
      BY <1>1 DEF WriteFile, Edit, watcherVars
    <2>2. missed' = (missed \/ wpc = "add")
      BY <1>1 DEF WriteFile, Edit
    <2>3. Watching'
      BY <2>1, RootsAssumption DEF Watching
    <2>4. watched = inode => fsEvents' # <<>>
      BY <2>1, WriteNotified
    <2> QED BY <2>1, <2>2, <2>3, <2>4, Zenon DEF Following, Read
  <1>2. ASSUME NEW c \in Roots \cup {NoRoots, Bad}, ReplaceFile(c) PROVE Watching' /\ Following'
    <2>1. /\ inode' = inode + 1 /\ content' = c /\ UNCHANGED <<watched, wpc>>
          /\ old' = IF content = Gone THEN old ELSE old \cup {inode}
      BY <1>2 DEF ReplaceFile, Edit, watcherVars, notifyVars
    <2>2. missed' = (missed \/ wpc = "add")
      BY <1>2 DEF ReplaceFile, Edit
    <2>3. watched' # inode'
      BY <2>1 DEF Watching, TypeOK
    <2>4. Watching'
      BY <2>1, <2>3 DEF Watching, TypeOK
    <2> QED BY <2>1, <2>2, <2>3, <2>4, Zenon DEF Following
  <1>3. CASE DeleteFile
    <2>1. /\ content' = Gone /\ UNCHANGED <<inode, old, wpc>>
          /\ watched' = IF watched = inode THEN 0 ELSE watched
      BY <1>3 DEF DeleteFile, Edit, watcherVars
    <2>2. missed' = (missed \/ wpc = "add")
      BY <1>3 DEF DeleteFile, Edit
    <2>3. watched' # inode'
      BY <2>1 DEF TypeOK
    <2>4. Watching'
      BY <2>1, <2>3 DEF Watching
    <2> QED BY <2>1, <2>2, <2>3, <2>4, Zenon DEF Following
  <1>4. ASSUME NEW c, ChangeIssuerCA(c) \/ CancelContext PROVE Watching' /\ Following'
    BY <1>4 DEF ChangeIssuerCA, CancelContext, Watching, Following, Read, fileVars, notifyVars, watcherVars
  <1>5. ASSUME NEW i \in old, DeleteOld(i) PROVE Watching' /\ Following'
    <2>1. old' = old \ {i} /\ UNCHANGED <<content, inode, wpc, rootCAsPEM, broadcast, missed>>
      BY <1>5 DEF DeleteOld, watcherVars
    <2>2. CASE watched = i
      <3>1. watched' = 0
        BY <1>5, <2>2 DEF DeleteOld
      <3> QED BY <2>1, <3>1 DEF Watching, Following, TypeOK
    <2>3. CASE watched # i
      <3>1. UNCHANGED <<watched, fsEvents>>
        BY <1>5, <2>3 DEF DeleteOld, notifyVars
      <3> QED BY <2>1, <2>3, <3>1 DEF Watching, Following, Read
    <2> QED BY <2>2, <2>3
  <1> QED BY <1>1, <1>2, <1>3, <1>4, <1>5 DEF EnvironmentStep, Environment

\* The watcher keeps them: it moves the watch before it reads the file again.
LEMMA WatcherFollows ==
  ASSUME TypeOK, Watching, Following, Watcher
  PROVE  Watching' /\ Following'
  <1> USE DEF fileVars, notifyVars
  <1>1. CASE LoadFile
    BY <1>1 DEF LoadFile, Watching, Following
  <1>2. CASE AddWatch
    BY <1>2 DEF AddWatch, Added, Watching, Following, Read, TypeOK
  <1>3. CASE Broadcast
    BY <1>3 DEF Broadcast, Watching, Following, Read
  <1>4. CASE HandleEvent
    BY <1>4 DEF HandleEvent, Watching, Following
  <1>5. CASE Rearm
    BY <1>5 DEF Rearm, AfterRearm, Added, Watching, Following, TypeOK
  <1>6. CASE reloadConfig
    BY <1>6 DEF reloadConfig, Updated, Watching, Following, Read
  <1>7. CASE StopWatcher
    BY <1>7 DEF StopWatcher, Watching, Following
  <1> QED BY <1>1, <1>2, <1>3, <1>4, <1>5, <1>6, <1>7 DEF Watcher

\* Every step keeps them.
LEMMA FollowStep == TypeOK /\ Watching /\ Following /\ [Next]_vars => Watching' /\ Following'
  <1> SUFFICES ASSUME TypeOK, Watching, Following, [Next]_vars PROVE Watching' /\ Following'
    OBVIOUS
  <1>1. ASSUME UNCHANGED <<fileVars, notifyVars, watcherVars, missed>> PROVE Watching' /\ Following'
    BY <1>1 DEF Watching, Following, Read, fileVars, notifyVars, watcherVars
  <1>2. CASE Receiver
    BY <1>1, <1>2 DEF Receiver, Receive, StopReceiver
  <1>3. CASE Provider
    BY <1>1, <1>3 DEF Provider, FetchSigned, ApplyConfig, FetchFails, Abandon, Renew, StopProvider
  <1>4. CASE UNCHANGED vars
    BY <1>1, <1>4 DEF vars
  <1> QED
    BY <1>2, <1>3, <1>4, EnvironmentFollows, WatcherFollows DEF Next, EnvironmentStep

\* An idle watcher has put the file's bundle into rootCAs, through any sequence of
\* volume swaps, edits in place, deletions and undecodable contents.
THEOREM FileIsFollowed == Spec => []FileFollowed
  <1>1. Init => Watching /\ Following
    BY DEF Init, Watching, Following
  <1>2. TypeOK /\ Chain /\ Watching /\ Following => FileFollowed
    BY DEF Chain, Last, Watching, Following, Read, FileFollowed, WatcherIdle
  <1> QED BY <1>1, <1>2, TypeCorrect, ChainInit, ChainStep, FollowStep, PTL DEF Spec

====
