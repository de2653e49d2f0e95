---------------------------- MODULE IstiodCertProofs ----------------------------
(***************************************************************************)
(* Proofs about IstiodCert, for any issuers and any number of edits of the *)
(* ConfigMap and of the Certificate, broken watches and failed calls. The  *)
(* composition is an IssuerManager, so that what is proved of that holds   *)
(* here too.                                                               *)
(***************************************************************************)
EXTENDS IstiodCert, IssuerManagerProofs

\* A step of the composition is a step of the manager or leaves it alone.
LEMMA ManagerStep == [IstiodNext]_istiodVars => [Next]_vars
  <1>1. ASSUME NEW g \in sending, ReceiveIssuer(g), ~panicked PROVE Next
    BY <1>1 DEF ReceiveIssuer, Next
  <1> QED BY <1>1 DEF IstiodNext, Next, istiodVars

\* The composition implements the manager.
THEOREM ComposedManager == IstiodSpec => Spec
  BY ManagerStep, PTL DEF IstiodSpec, IstiodInit, Spec

-----------------------------------------------------------------------------
(***************************************************************************)
(* Types. That the Certificate always names an issuer, although the        *)
(* provisioner may hold none, needs the mutex: Reconcile starts only with  *)
(* an issuer, and the one it holds stays until it is done.                 *)
(***************************************************************************)
Reconciling == rpc # "idle" => issuerRef # NoIssuer /\ dpc # "send"

\* The provisioner's own steps, and edits by others, keep the types.
LEMMA ProvisionerTypeStep ==
  ASSUME ProvisionerTypeOK, Reconciling,
         Elected \/ Provisioner \/ \E c \in Certificates : TouchCertificate(c)
  PROVE  ProvisionerTypeOK' /\ Reconciling'
  <1> USE DEF ProvisionerTypeOK, Reconciling
  <1>0. issuerRef # NoIssuer => issuerRef \in Certificates
    BY DEF Refs, Certificates
  <1>1. CASE Elected
    <2>1. (certificate # NoCertificate) \in BOOLEAN
      OBVIOUS
    <2> QED BY <1>1, <2>1 DEF Elected
  <1>2. CASE StartProvisioner
    BY <1>2, OriginalType
    DEF StartProvisioner, handleNewIssuer, FallsBack, issuerRefMutexFree
  <1>3. CASE StopProvisioner \/ TakeReconcileEvent
    BY <1>3, Zenon DEF StopProvisioner, TakeReconcileEvent
  <1>4. CASE BeginReconcile
    BY <1>4, Zenon DEF BeginReconcile, NothingToReconcile, issuerRefMutexFree
  <1>5. CASE GetCertificate
    BY <1>5, Zenon DEF GetCertificate
  <1>6. CASE WriteCertificate
    <2>1. certificate' \in Certificates /\ rpc' = "idle"
      BY <1>0, <1>6 DEF WriteCertificate
    <2>2. queued' \in BOOLEAN
      BY <1>6, Zenon DEF WriteCertificate, Requeued
    <2> QED BY <1>6, <2>1, <2>2 DEF WriteCertificate
  <1>7. CASE CallFails
    <2>1. certificate' \in Certificates /\ rpc' = "idle" /\ queued' = TRUE
      BY <1>0, <1>7 DEF CallFails, Requeued
    <2>2. touches' \in 0..MaxTouches
      BY <1>7, TouchesAssumption DEF CallFails
    <2> QED BY <1>7, <2>1, <2>2 DEF CallFails
  <1>8. ASSUME NEW c \in Certificates, TouchCertificate(c)
        PROVE  ProvisionerTypeOK' /\ Reconciling'
    <2>1. queued' \in BOOLEAN
      BY <1>8 DEF TouchCertificate
    <2>2. touches' \in 0..MaxTouches
      BY <1>8, TouchesAssumption DEF TouchCertificate
    <2> QED BY <1>8, <2>1, <2>2 DEF TouchCertificate
  <1> QED BY <1>1, <1>2, <1>3, <1>4, <1>5, <1>6, <1>7, <1>8 DEF Provisioner

\* What the provisioner holds and writes has its type; in particular the
\* Certificate never names a missing issuer, although the provisioner may hold none.
THEOREM ProvisionerTypeCorrect == IstiodSpec => []ProvisionerTypeOK
  <1> DEFINE Inv == TypeOK /\ EventsOK /\ ProvisionerTypeOK /\ Reconciling
  <1>1. IstiodInit => Inv
    <2> SUFFICES ASSUME IstiodInit PROVE Inv
      OBVIOUS
    <2>1. TypeOK /\ EventsOK
      BY InitType DEF IstiodInit
    <2>2. /\ leader = FALSE /\ dpc = "idle" /\ issuerRef = originalIssuerRef /\ queued = FALSE
          /\ rpc = "idle" /\ outdated = FALSE /\ heard = 0 /\ certificate \in Certificates
          /\ found \in Certificates
      BY DEF IstiodInit, Certificates
    <2>3. touches \in 0..MaxTouches
      BY TouchesAssumption DEF IstiodInit
    <2>4. ProvisionerTypeOK /\ Reconciling
      BY <2>2, <2>3, OriginalType, Zenon DEF ProvisionerTypeOK, Reconciling
    <2> QED BY <2>1, <2>4
  <1>2. Inv /\ [IstiodNext]_istiodVars => Inv'
    <2> SUFFICES ASSUME Inv, [IstiodNext]_istiodVars PROVE Inv'
      OBVIOUS
    <2>1. TypeOK' /\ EventsOK'
      BY ManagerStep, NextType
    <2>2. ASSUME UNCHANGED provisionerVars PROVE ProvisionerTypeOK' /\ Reconciling'
      BY <2>2 DEF ProvisionerTypeOK, Reconciling, provisionerVars
    <2>3. ASSUME NEW g \in sending, ReceiveIssuer(g) PROVE ProvisionerTypeOK' /\ Reconciling'
      <3>1. g.n \in Nat /\ g.ref \in Refs
        BY DEF TypeOK, Sending
      <3>2. rpc = "idle" /\ rpc' = "idle"
        BY <2>3 DEF ReceiveIssuer, handleNewIssuer, issuerRefMutexFree
      <3> QED
        BY <2>3, <3>1, <3>2, OriginalType
        DEF ProvisionerTypeOK, Reconciling, ReceiveIssuer, handleNewIssuer
    <2>4. ProvisionerTypeOK' /\ Reconciling'
      BY <2>2, <2>3, ProvisionerTypeStep DEF IstiodNext, istiodVars
    <2> QED BY <2>1, <2>4
  <1>3. Inv => ProvisionerTypeOK
    OBVIOUS
  <1> QED BY <1>1, <1>2, <1>3, PTL DEF IstiodSpec

-----------------------------------------------------------------------------
(***************************************************************************)
(* The Certificate. Without an issuer at startup the provisioner never     *)
(* falls back, so that every issuer it comes to hold is sent to            *)
(* reconcileChan; Reconcile holds the mutex, so the issuer does not change *)
(* while it runs.                                                          *)
(***************************************************************************)
Due ==
    leader /\ dpc \in {"loop", "stopped"} /\ issuerRef # NoIssuer
        => certificate = issuerRef \/ queued \/ rpc # "idle"

CertInv ==
    /\ dpc \in {"idle", "start"} => issuerRef = originalIssuerRef
    /\ ~leader <=> dpc = "idle"
    /\ Due

\* The steps of the provisioner, and edits by others, keep CertInv.
LEMMA ProvisionerStep ==
  ASSUME originalIssuerRef = NoIssuer, CertInv,
         Elected \/ Provisioner \/ \E c \in Certificates : TouchCertificate(c)
  PROVE  CertInv'
  <1> USE DEF CertInv, Due
  <1>1. CASE Elected
    BY <1>1 DEF Elected
  <1>2. CASE StartProvisioner
    BY <1>2 DEF StartProvisioner
  <1>3. CASE StopProvisioner
    BY <1>3 DEF StopProvisioner
  <1>4. CASE TakeReconcileEvent
    BY <1>4 DEF TakeReconcileEvent
  <1>5. CASE BeginReconcile
    BY <1>5 DEF BeginReconcile, NothingToReconcile
  <1>6. CASE GetCertificate
    BY <1>6 DEF GetCertificate
  <1>7. CASE WriteCertificate
    BY <1>7 DEF WriteCertificate, Requeued
  <1>8. CASE CallFails
    BY <1>8 DEF CallFails, Requeued
  <1>9. ASSUME NEW c \in Certificates, TouchCertificate(c) PROVE CertInv'
    BY <1>9, Zenon DEF TouchCertificate
  <1> QED BY <1>1, <1>2, <1>3, <1>4, <1>5, <1>6, <1>7, <1>8, <1>9 DEF Provisioner

\* Every step keeps CertInv.
LEMMA CertStep ==
  ASSUME originalIssuerRef = NoIssuer, CertInv, [IstiodNext]_istiodVars
  PROVE  CertInv'
  <1>1. ASSUME NEW g \in sending, ReceiveIssuer(g) PROVE CertInv'
    BY <1>1 DEF CertInv, Due, ReceiveIssuer, handleNewIssuer, FallsBack
  <1>2. CASE UNCHANGED provisionerVars
    BY <1>2 DEF CertInv, Due, provisionerVars
  <1> QED BY <1>1, <1>2, ProvisionerStep DEF IstiodNext, istiodVars

\* Without an issuer at startup, a leader with nothing left to do has the Certificate
\* at the issuer it holds. With one, falling back to it reconciles nothing.
THEOREM RuntimeCertificateReconciled ==
  ASSUME originalIssuerRef = NoIssuer
  PROVE  IstiodSpec => []CertificateReconciled
  <1>1. IstiodInit => CertInv
    BY DEF IstiodInit, CertInv, Due
  <1>2. CertInv => CertificateReconciled
    BY DEF CertInv, Due, CertificateReconciled
  <1>3. CertInv /\ [IstiodNext]_istiodVars => CertInv'
    BY CertStep
  <1> QED BY <1>1, <1>2, <1>3, PTL DEF IstiodSpec

-----------------------------------------------------------------------------
(***************************************************************************)
(* The notifications. While there is an active issuer, those of the newest *)
(* notifyIssuerChange stand for it: nil stands for the original issuer.    *)
(***************************************************************************)
Resolved(ref) == IF FallsBack(ref) THEN originalIssuerRef ELSE ref

Numbered == /\ \A g \in spawned \cup sending : g.n <= notices
            /\ notices = 0 => activeIssuerRef = originalIssuerRef

Newest ==
    HasIssuerConfig =>
        /\ wpc = "notify" => Resolved(notice) = activeIssuerRef
        /\ \A g \in spawned \cup sending : g.n = notices => Resolved(g.ref) = activeIssuerRef

HeardInv ==
    /\ dpc \in {"idle", "start"} => heard = 0 /\ issuerRef = originalIssuerRef
    /\ ~leader <=> dpc = "idle"
    /\ heard \in Nat /\ heard <= notices
    /\ LatestHeard

\* Numbers and resolved issuers are kept by steps that make no notification.
LEMMA NoNotification ==
  ASSUME TypeOK, Numbered, Newest, UNCHANGED <<activeIssuerRef, notices>>,
         wpc' = "notify" => wpc = "notify" /\ notice' = notice,
         \A g \in spawned' \cup sending' : \E h \in spawned \cup sending : g.n = h.n /\ g.ref = h.ref
  PROVE  Numbered' /\ Newest'
  <1>1. \A ref : Resolved(ref)' = Resolved(ref)
    BY DEF Resolved, FallsBack
  <1>2. Numbered'
    BY DEF Numbered
  <1>3. Newest'
    <2>1. ASSUME HasIssuerConfig', wpc' = "notify" PROVE (Resolved(notice) = activeIssuerRef)'
      BY <2>1 DEF Newest, HasIssuerConfig, Resolved, FallsBack
    <2>2. ASSUME HasIssuerConfig', NEW g \in spawned' \cup sending', g.n = notices'
          PROVE  (Resolved(g.ref) = activeIssuerRef)'
      BY <2>2 DEF Newest, HasIssuerConfig, Resolved, FallsBack
    <2> QED BY <2>1, <2>2 DEF Newest
  <1> QED BY <1>2, <1>3

\* A new notification gets a new number.
LEMMA Notification ==
  ASSUME TypeOK, Numbered, NEW ref, notice' = ref, notices' = notices + 1,
         Resolved(ref) = activeIssuerRef', UNCHANGED sendVars
  PROVE  Numbered' /\ Newest'
  <1>1. \A g \in spawned \cup sending : g.n \in Nat /\ g.n < notices'
    BY DEF TypeOK, Numbered, Spawned, Sending
  <1>2. notices' # 0 /\ notices' \in Nat
    BY DEF TypeOK
  <1>3. Numbered'
    BY <1>1, <1>2 DEF Numbered, sendVars
  <1>4. \A g \in (spawned \cup sending)' : g.n # notices'
    BY <1>1, <1>2 DEF sendVars
  <1>5. (Resolved(notice) = activeIssuerRef)'
    BY DEF Resolved, FallsBack
  <1> QED BY <1>3, <1>4, <1>5 DEF Newest

\* The manager's steps keep Numbered and Newest.
LEMMA ManagerNotifies ==
  ASSUME TypeOK, EventsOK, Numbered, Newest, [Next]_vars
  PROVE  Numbered' /\ Newest'
  <1> USE DEF watcherVars, issuerVars, notifyVars, sendVars
  <1>0. ASSUME UNCHANGED <<activeIssuerRef, notices, spawned, sending>>,
               wpc' = "notify" => wpc = "notify" /\ notice' = notice
        PROVE  Numbered' /\ Newest'
    BY <1>0, NoNotification
  <1>1. ASSUME Environment PROVE Numbered' /\ Newest'
    BY <1>0, <1>1 DEF Environment, EditConfigMap, SendOtherEvent, BreakWatch, CancelContext
  <1>2. ASSUME ConnectWatch \/ ReceiveEvent \/ ReceiveClosed \/ StopWatcher PROVE Numbered' /\ Newest'
    BY <1>0, <1>2 DEF ConnectWatch, ReceiveEvent, ReceiveClosed, StopWatcher
  <1>3. ASSUME handleRuntimeConfigIssuerChange PROVE Numbered' /\ Newest'
    <2>1. CASE IncompleteData
      BY <1>0, <1>3, <2>1 DEF handleRuntimeConfigIssuerChange
    <2>2. CASE ~IncompleteData
      <3>1. event.object \in Issuers
        BY <1>3, <2>2 DEF handleRuntimeConfigIssuerChange, IncompleteData, EventsOK, EventOK, TypeOK,
                         Events, ConfigMaps
      <3>2. Resolved(event.object) = event.object
        BY <3>1, IssuersAssumption DEF Resolved, FallsBack
      <3>3. activeIssuerRef' = event.object /\ notice' = event.object /\ notices' = notices + 1
        BY <1>3, <2>2 DEF handleRuntimeConfigIssuerChange, notifyIssuerChange
      <3> QED BY <1>3, <3>2, <3>3, Notification DEF handleRuntimeConfigIssuerChange
    <2> QED BY <2>1, <2>2
  <1>4. ASSUME handleRuntimeConfigIssuerDeletion PROVE Numbered' /\ Newest'
    <2>1. CASE originalIssuerRef = NoIssuer
      <3>1. activeIssuerRef' = NoIssuer /\ UNCHANGED <<notices, spawned, sending>>
        BY <1>4, <2>1 DEF handleRuntimeConfigIssuerDeletion, RevertedIssuer
      <3> QED BY <2>1, <3>1 DEF Numbered, Newest, HasIssuerConfig
    <2>2. CASE originalIssuerRef # NoIssuer
      <3>1. activeIssuerRef' = originalIssuerRef /\ notice' = NoIssuer /\ notices' = notices + 1
        BY <1>4, <2>2 DEF handleRuntimeConfigIssuerDeletion, RevertedIssuer, notifyIssuerChange
      <3>2. Resolved(NoIssuer) = originalIssuerRef
        BY <2>2 DEF Resolved, FallsBack
      <3> QED BY <1>4, <3>1, <3>2, Notification DEF handleRuntimeConfigIssuerDeletion
    <2> QED BY <2>1, <2>2
  <1>5. ASSUME NotifyOne PROVE Numbered' /\ Newest'
    <2> DEFINE new == [n |-> notices, i |-> visit, ref |-> notice]
    <2>1. /\ wpc = "notify" /\ UNCHANGED <<wpc, activeIssuerRef, notice, notices, sending>>
          /\ spawned' = spawned \/ spawned' = spawned \cup {new}
      BY <1>5 DEF NotifyOne
    <2>2. new.n = notices /\ new.ref = notice
      OBVIOUS
    <2> HIDE DEF new
    <2>3. Numbered'
      BY <2>1, <2>2 DEF Numbered, TypeOK
    <2>4. Newest'
      BY <2>1, <2>2 DEF Newest, HasIssuerConfig, Resolved, FallsBack
    <2> QED BY <2>3, <2>4
  <1>6. ASSUME NotifyDone PROVE Numbered' /\ Newest'
    BY <1>0, <1>6 DEF NotifyDone
  <1>7. ASSUME NEW c \in Clients, ClientSign(c) \/ ClientDone(c) PROVE Numbered' /\ Newest'
    BY <1>0, <1>7 DEF ClientSign, ClientDone, BeginSign, EndSign
  <1>8. ASSUME NEW g \in spawned, EvaluateChannel(g) PROVE Numbered' /\ Newest'
    <2> DEFINE new == [n |-> g.n, i |-> g.i, ref |-> g.ref, sub |-> issuerChangeSubscriptions[g.i]]
    <2>1. /\ UNCHANGED <<wpc, activeIssuerRef, notice, notices>> /\ spawned' \subseteq spawned
          /\ sending' \subseteq sending \cup {new}
      BY <1>8 DEF EvaluateChannel
    <2>2. new.n = g.n /\ new.ref = g.ref
      OBVIOUS
    <2> HIDE DEF new
    <2> QED BY <2>1, <2>2, NoNotification
  <1>9. ASSUME NEW g \in sending, WaitReceive(g) \/ IstiodCertReceive(g) PROVE Numbered' /\ Newest'
    BY <1>9, NoNotification DEF WaitReceive, IstiodCertReceive
  <1>10. ASSUME \/ ProviderCheck \/ SubscribeIssuerChange \/ WaitAbandon \/ CloseSubscription
                \/ ProviderSign \/ ProviderNoIssuer \/ ProviderFetched \/ ProviderFailed \/ ProviderStop
         PROVE  Numbered' /\ Newest'
    BY <1>0, <1>10, Zenon
    DEF ProviderCheck, SubscribeIssuerChange, WaitAbandon, CloseSubscription, ProviderSign,
        ProviderNoIssuer, ProviderFetched, ProviderFailed, ProviderStop, BeginSign, EndSign
  <1>11. CASE UNCHANGED vars
    BY <1>0, <1>11 DEF vars
  <1> QED
    BY <1>1, <1>2, <1>3, <1>4, <1>5, <1>6, <1>7, <1>8, <1>9, <1>10, <1>11
    DEF Next, ManagerNext, Watcher, ProviderRun

\* What the manager does while the provisioner does nothing keeps LatestHeard.
LEMMA ManagerHeard ==
  ASSUME TypeOK, EventsOK, Numbered, Newest, HeardInv, [Next]_vars, UNCHANGED provisionerVars
  PROVE  HeardInv'
  <1>1. \/ UNCHANGED <<activeIssuerRef, notices>>
        \/ notices' = notices + 1
        \/ activeIssuerRef' = NoIssuer /\ UNCHANGED notices
    <2> USE DEF issuerVars, notifyVars
    <2> DEFINE P == \/ UNCHANGED <<activeIssuerRef, notices>>
                    \/ notices' = notices + 1
                    \/ activeIssuerRef' = NoIssuer /\ UNCHANGED notices
    <2>1. ASSUME Environment PROVE P
      BY <2>1 DEF Environment, EditConfigMap, SendOtherEvent, BreakWatch, CancelContext
    <2>2. ASSUME handleRuntimeConfigIssuerChange PROVE P
      BY <2>2 DEF handleRuntimeConfigIssuerChange, notifyIssuerChange
    <2>3. ASSUME handleRuntimeConfigIssuerDeletion PROVE P
      BY <2>3 DEF handleRuntimeConfigIssuerDeletion, RevertedIssuer, notifyIssuerChange
    <2>4. ASSUME ConnectWatch \/ ReceiveEvent \/ ReceiveClosed \/ StopWatcher \/ NotifyOne \/ NotifyDone
          PROVE  P
      BY <2>4, Zenon DEF ConnectWatch, ReceiveEvent, ReceiveClosed, StopWatcher, NotifyOne, NotifyDone
    <2>5. ASSUME NEW c \in Clients, ClientSign(c) \/ ClientDone(c) PROVE P
      BY <2>5, Zenon DEF ClientSign, ClientDone, BeginSign, EndSign
    <2>6. ASSUME NEW g, EvaluateChannel(g) \/ WaitReceive(g) \/ IstiodCertReceive(g) PROVE P
      BY <2>6 DEF EvaluateChannel, WaitReceive, IstiodCertReceive
    <2>7. ASSUME \/ ProviderCheck \/ SubscribeIssuerChange \/ WaitAbandon \/ CloseSubscription
                 \/ ProviderSign \/ ProviderNoIssuer \/ ProviderFetched \/ ProviderFailed \/ ProviderStop
          PROVE  P
      BY <2>7, Zenon
      DEF ProviderCheck, SubscribeIssuerChange, WaitAbandon, CloseSubscription, ProviderSign,
          ProviderNoIssuer, ProviderFetched, ProviderFailed, ProviderStop, BeginSign, EndSign
    <2>8. ASSUME UNCHANGED vars PROVE P
      BY <2>8 DEF vars
    <2> QED
      BY <2>1, <2>2, <2>3, <2>4, <2>5, <2>6, <2>7, <2>8 DEF Next, ManagerNext, Watcher, ProviderRun
  <1> QED BY <1>1 DEF HeardInv, LatestHeard, HasIssuerConfig, provisionerVars, TypeOK

\* The provisioner's own steps do.
LEMMA ProvisionerHeard ==
  ASSUME TypeOK, Numbered, HeardInv, UNCHANGED vars,
         Elected \/ Provisioner \/ \E c \in Certificates : TouchCertificate(c)
  PROVE  HeardInv'
  <1> USE DEF HeardInv, LatestHeard, HasIssuerConfig, vars, issuerVars, notifyVars
  <1>1. CASE Elected
    BY <1>1 DEF Elected
  <1>2. CASE StartProvisioner
    BY <1>2, Zenon DEF StartProvisioner, handleNewIssuer, FallsBack, Numbered
  <1>3. CASE StopProvisioner \/ TakeReconcileEvent
    BY <1>3 DEF StopProvisioner, TakeReconcileEvent
  <1>4. CASE BeginReconcile \/ GetCertificate \/ WriteCertificate \/ CallFails
    BY <1>4 DEF BeginReconcile, GetCertificate, WriteCertificate, CallFails
  <1>5. ASSUME NEW c \in Certificates, TouchCertificate(c) PROVE HeardInv'
    BY <1>5 DEF TouchCertificate
  <1> QED BY <1>1, <1>2, <1>3, <1>4, <1>5 DEF Provisioner

\* And so does a notification it receives.
LEMMA ReceiveHeard ==
  ASSUME TypeOK, Numbered, Newest, HeardInv, NEW g \in sending, ReceiveIssuer(g)
  PROVE  HeardInv'
  <1>1. g.n \in Nat /\ g.n <= notices
    BY DEF TypeOK, Sending, Numbered
  <1>2. /\ issuerRef' = Resolved(g.ref) /\ heard' = g.n /\ dpc' \in {"loop", "send"}
        /\ dpc = "loop" /\ leader' = leader
    BY DEF ReceiveIssuer, handleNewIssuer, Resolved
  <1>3. UNCHANGED <<activeIssuerRef, notices>>
    BY DEF ReceiveIssuer, IstiodCertReceive, issuerVars, notifyVars
  <1>4. HasIssuerConfig /\ g.n = notices => Resolved(g.ref) = activeIssuerRef
    BY DEF Newest
  <1> QED BY <1>1, <1>2, <1>3, <1>4 DEF HeardInv, LatestHeard, HasIssuerConfig

\* A provisioner that received the newest notification holds the active issuer, with
\* an issuer at startup or without, however late it was elected.
THEOREM NewestIsHeld == IstiodSpec => []LatestHeard
  <1> DEFINE Inv == TypeOK /\ EventsOK /\ Numbered /\ Newest /\ HeardInv
  <1>1. IstiodInit => Inv
    <2> SUFFICES ASSUME IstiodInit PROVE Inv
      OBVIOUS
    <2>1. TypeOK /\ EventsOK
      BY InitType DEF IstiodInit
    <2>2. Numbered /\ Newest /\ HeardInv
      BY DEF IstiodInit, Init, Numbered, Newest, HeardInv, LatestHeard
    <2> QED BY <2>1, <2>2
  <1>2. Inv /\ [IstiodNext]_istiodVars => Inv'
    <2> SUFFICES ASSUME Inv, [IstiodNext]_istiodVars PROVE Inv'
      OBVIOUS
    <2>1. [Next]_vars
      BY ManagerStep
    <2>2. TypeOK' /\ EventsOK' /\ Numbered' /\ Newest'
      BY <2>1, NextType, ManagerNotifies
    <2>3. ASSUME UNCHANGED provisionerVars PROVE HeardInv'
      BY <2>1, <2>3, ManagerHeard
    <2>4. ASSUME UNCHANGED vars, Elected \/ Provisioner \/ \E c \in Certificates : TouchCertificate(c)
          PROVE  HeardInv'
      BY <2>4, ProvisionerHeard
    <2>5. ASSUME NEW g \in sending, ReceiveIssuer(g) PROVE HeardInv'
      BY <2>5, ReceiveHeard
    <2>6. HeardInv'
      BY <2>3, <2>4, <2>5 DEF IstiodNext, istiodVars
    <2> QED BY <2>2, <2>6
  <1>3. Inv => LatestHeard
    BY DEF HeardInv
  <1> QED BY <1>1, <1>2, <1>3, PTL DEF IstiodSpec

====
