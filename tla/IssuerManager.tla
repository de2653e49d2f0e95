---------------------------- MODULE IssuerManager ----------------------------
(***************************************************************************)
(* pkg/certmanager: the manager that holds the active issuerRef, the       *)
(* watcher goroutine that follows the runtime configuration ConfigMap, the *)
(* issuer change subscriptions, and the two kinds of callers of Sign: the  *)
(* gRPC handlers (Clients) and the TLS provider's goroutine (Provider),    *)
(* which is also the only caller of WaitForIssuerConfig.                   *)
(*                                                                         *)
(* The API server is external: it stores the ConfigMap and serves a watch  *)
(* stream that may break at any time, losing the events not yet delivered. *)
(***************************************************************************)
EXTENDS Naturals, Sequences

CONSTANTS
    Issuers,                  \* issuerRefs a complete configuration can name
    NoIssuer,                 \* the nil *IssuerReference
    Absent,                   \* the ConfigMap does not exist
    Invalid,                  \* the ConfigMap lacks the name, kind or group
    DefaultIssuerEnabled,     \* Options.DefaultIssuerEnabled
    IssuerRefFields,          \* the fields of Options.IssuerRef that are set
    StaticIssuer,             \* what Options.IssuerRef names when complete
    HasRuntimeConfiguration,  \* Options.HasRuntimeConfiguration()
    IstiodCertEnabled,        \* the istiod certificate provisioner subscribes
    Clients, Provider,        \* the callers of Sign
    MayCancelAfter,           \* bound: the numbers of edits and broken watches after
                              \* which the main context may be cancelled
    MaxRetries,               \* initial fetches before the backoff gives up
    MaxEdits, MaxDrops        \* bounds: ConfigMap edits, broken watches

Callers == Clients \cup {Provider}
Refs == Issuers \cup {NoIssuer}

AllFields == {"name", "kind", "group"}

originalIssuerRef ==
    IF ~DefaultIssuerEnabled \/ IssuerRefFields = {} THEN NoIssuer ELSE StaticIssuer

NewSucceeds ==
    /\ DefaultIssuerEnabled => IssuerRefFields \in {{}, AllFields}
    /\ originalIssuerRef = NoIssuer => HasRuntimeConfiguration

ASSUME IssuersAssumption ==
    /\ NoIssuer \notin Issuers /\ Absent \notin Issuers /\ Invalid \notin Issuers
    /\ Absent # Invalid
    /\ StaticIssuer \in Issuers
    /\ Provider \notin Clients
ASSUME OptionsAssumption ==
    /\ DefaultIssuerEnabled \in BOOLEAN /\ HasRuntimeConfiguration \in BOOLEAN
    /\ IstiodCertEnabled \in BOOLEAN /\ MayCancelAfter \subseteq Nat
    /\ IssuerRefFields \in SUBSET AllFields
    /\ NewSucceeds
    /\ MaxRetries \in Nat \ {0} /\ MaxEdits \in Nat /\ MaxDrops \in Nat

VARIABLES
    configMap,      \* API server: Absent, Invalid or the issuer it names
    watch,          \* API server: "none", "open" or "broken"
    stream,         \* events sent and not yet received
    wpc,            \* RuntimeConfigurationWatcher.Start
    event,          \* the event being handled
    activeIssuerRef,
    signing,        \* the issuerRef each in-flight Sign uses (NoIssuer: none);
                    \*   its callers hold activeIssuerRefMutex for reading
    issuerChangeSubscriptions,
    closed,         \* subscriptions whose Close has run
    notice,         \* the issuerRef notifyIssuerChange is sending
    visit,          \* its loop index
    filtered,       \* its filteredSubscriptions
    notices,        \* notifyIssuerChange calls so far
    spawned,        \* send goroutines that have not evaluated their channel yet
    sending,        \* send goroutines blocked on their channel
    ppc,            \* Provider.Start
    psub,           \* the latest subscription of WaitForIssuerConfig
    attempts,       \* failed initial fetches
    serving,        \* Provider.tlsConfig is set
    ctxDone,        \* the main context is cancelled
    panicked,       \* a goroutine panicked: the process is dead
    edits, drops

bounds       == <<edits, drops>>
apiVars      == <<configMap, watch, stream, bounds>>
watcherVars  == <<wpc, event>>
issuerVars   == <<activeIssuerRef, signing>>
subVars      == <<issuerChangeSubscriptions, closed>>
notifyVars   == <<notice, visit, filtered, notices>>
sendVars     == <<spawned, sending>>
providerVars == <<ppc, psub, attempts, serving>>
vars == <<apiVars, watcherVars, issuerVars, subVars, notifyVars, sendVars, providerVars,
          ctxDone, panicked>>

\* Subscription 0 is made by istiodcert.New before anything starts; the others
\* are numbered by the calls of WaitForIssuerConfig.
IstiodCertSubscription == 0

ConfigMaps == Issuers \cup {Absent, Invalid}
EventTypes == {"Added", "Modified", "Deleted", "Other"}
Events     == [type : EventTypes, object : ConfigMaps]
Spawned    == [n : Nat, i : Nat \ {0}, ref : Refs]
Sending    == [n : Nat, i : Nat \ {0}, sub : Nat, ref : Refs]

TypeOK ==
    /\ configMap \in ConfigMaps
    /\ watch \in {"none", "open", "broken"}
    /\ stream \in Seq(Events)
    /\ wpc \in {"connect", "select", "acquire", "notify", "stopped"}
    /\ event \in Events
    /\ activeIssuerRef \in Refs
    /\ signing \in [Callers -> Refs]
    /\ issuerChangeSubscriptions \in Seq(Nat)
    /\ closed \in SUBSET Nat
    /\ notice \in Refs
    /\ visit \in Nat /\ visit > 0
    /\ filtered \in Seq(Nat)
    /\ notices \in Nat
    /\ spawned \in SUBSET Spawned
    /\ sending \in SUBSET Sending
    /\ ppc \in {"check", "subscribe", "wait", "close", "fetch", "signing",
                "renew", "renewing", "stopped"}
    /\ psub \in Nat
    /\ attempts \in Nat
    /\ serving \in BOOLEAN
    /\ ctxDone \in BOOLEAN
    /\ panicked \in BOOLEAN
    /\ edits \in Nat
    /\ drops \in Nat

NoEvent == [type |-> "Other", object |-> Absent]

\* A process that has just started: certmanager.New, istiodcert.New and the
\* runnables app.go registers. The ConfigMap is whatever it is.
Init ==
    /\ configMap \in ConfigMaps
    /\ watch = "none" /\ stream = <<>>
    /\ wpc = IF HasRuntimeConfiguration THEN "connect" ELSE "stopped"
    /\ event = NoEvent
    /\ activeIssuerRef = originalIssuerRef
    /\ signing = [c \in Callers |-> NoIssuer]
    /\ issuerChangeSubscriptions =
           IF IstiodCertEnabled THEN <<IstiodCertSubscription>> ELSE <<>>
    /\ closed = {}
    /\ notice = NoIssuer /\ visit = 1 /\ filtered = <<>> /\ notices = 0
    /\ spawned = {} /\ sending = {}
    /\ ppc = "check" /\ psub = 0 /\ attempts = 0 /\ serving = FALSE
    /\ ctxDone = FALSE /\ panicked = FALSE
    /\ edits = 0 /\ drops = 0

-----------------------------------------------------------------------------
(* The API server (external). *)

ChangeEvent(v) ==
    [type |-> IF v = Absent THEN "Deleted" ELSE IF configMap = Absent THEN "Added" ELSE "Modified",
     object |-> v]

\* An edit after the cancellation is not told from one just before it.
EditConfigMap(v) ==
    /\ edits < MaxEdits /\ ~ctxDone
    /\ v # configMap
    /\ configMap' = v
    /\ stream' = IF watch = "open" THEN Append(stream, ChangeEvent(v)) ELSE stream
    /\ edits' = edits + 1
    /\ UNCHANGED <<watch, drops, watcherVars, issuerVars, subVars, notifyVars, sendVars,
                   providerVars, ctxDone, panicked>>

\* A bookmark, an error or an unknown event: at most one is queued at a time.
SendOtherEvent ==
    /\ watch = "open" /\ stream = <<>>
    /\ stream' = <<[type |-> "Other", object |-> configMap]>>
    /\ UNCHANGED <<configMap, watch, bounds, watcherVars, issuerVars, subVars, notifyVars,
                   sendVars, providerVars, ctxDone, panicked>>

\* The stream breaks and the events after the k-th undelivered one are lost.
\* Cancelling the main context, with which the watch was made, breaks it too.
BreakWatch(k) ==
    /\ watch = "open"
    /\ ctxDone \/ drops < MaxDrops
    /\ watch' = "broken"
    /\ stream' = SubSeq(stream, 1, k)
    /\ drops' = IF ctxDone THEN drops ELSE drops + 1
    /\ UNCHANGED <<configMap, edits, watcherVars, issuerVars, subVars, notifyVars, sendVars,
                   providerVars, ctxDone, panicked>>

CancelContext ==
    /\ edits + drops \in MayCancelAfter /\ ~ctxDone
    /\ ctxDone' = TRUE
    /\ UNCHANGED <<apiVars, watcherVars, issuerVars, subVars, notifyVars, sendVars,
                   providerVars, panicked>>

-----------------------------------------------------------------------------
(* RuntimeConfigurationWatcher.Start and the handlers it calls. It is the   *)
(* only writer of activeIssuerRefMutex: at "acquire" it is in Lock(), which *)
(* keeps new readers out; at "notify" it holds the lock.                    *)

\* RLock of activeIssuerRefMutex does not block.
RLockFree == wpc \notin {"acquire", "notify"}

\* Lock of activeIssuerRefMutex returns.
MutantLockFree == \A c \in Clients : signing[c] = NoIssuer
LockFree == \A c \in Callers : signing[c] = NoIssuer

\* kubernetesClient.Watch without a resourceVersion (external): an existing
\* ConfigMap is announced as Added.
MutantInitialEvents == <<>>
InitialEvents ==
    IF configMap = Absent THEN <<>> ELSE <<[type |-> "Added", object |-> configMap]>>

\* Watch fails once the context is cancelled, and the loop retries for ever.
ConnectWatch ==
    /\ wpc = "connect" /\ ~ctxDone
    /\ watch' = "open" /\ stream' = InitialEvents
    /\ wpc' = "select"
    /\ UNCHANGED <<configMap, bounds, event, issuerVars, subVars, notifyVars, sendVars,
                   providerVars, ctxDone, panicked>>

ReceiveEvent ==
    /\ wpc = "select" /\ stream # <<>>
    /\ stream' = Tail(stream)
    /\ IF Head(stream).type = "Other"
       THEN UNCHANGED watcherVars
       ELSE event' = Head(stream) /\ wpc' = "acquire"
    /\ UNCHANGED <<configMap, watch, bounds, issuerVars, subVars, notifyVars, sendVars,
                   providerVars, ctxDone, panicked>>

ReceiveClosed ==
    /\ wpc = "select" /\ watch = "broken" /\ stream = <<>>
    /\ wpc' = "connect" /\ watch' = "none"
    /\ UNCHANGED <<configMap, stream, bounds, event, issuerVars, subVars, notifyVars,
                   sendVars, providerVars, ctxDone, panicked>>

StopWatcher ==
    /\ wpc = "select" /\ ctxDone
    /\ wpc' = "stopped" /\ watch' = "none" /\ stream' = <<>>
    /\ UNCHANGED <<configMap, bounds, event, issuerVars, subVars, notifyVars, sendVars,
                   providerVars, ctxDone, panicked>>

\* The entry of notifyIssuerChange, with the lock held.
notifyIssuerChange(ref) ==
    /\ wpc' = "notify"
    /\ notice' = ref /\ visit' = 1 /\ filtered' = <<>> /\ notices' = notices + 1

\* The name, the kind or the group is missing or empty.
MutantIncompleteData == FALSE
IncompleteData == event.object = Invalid

handleRuntimeConfigIssuerChange ==
    /\ wpc = "acquire" /\ event.type \in {"Added", "Modified"} /\ LockFree
    /\ IF IncompleteData
       THEN wpc' = "select" /\ UNCHANGED <<activeIssuerRef, notifyVars>>
       ELSE activeIssuerRef' = event.object /\ notifyIssuerChange(event.object)
    /\ event' = NoEvent
    /\ UNCHANGED <<apiVars, signing, subVars, sendVars, providerVars, ctxDone, panicked>>

\* The issuer in use once the ConfigMap is gone.
RevertedIssuer == originalIssuerRef

handleRuntimeConfigIssuerDeletion ==
    /\ wpc = "acquire" /\ event.type = "Deleted" /\ LockFree
    /\ activeIssuerRef' = RevertedIssuer
    /\ IF originalIssuerRef = NoIssuer
       THEN wpc' = "select" /\ UNCHANGED notifyVars
       ELSE notifyIssuerChange(NoIssuer)
    /\ event' = NoEvent
    /\ UNCHANGED <<apiVars, signing, subVars, sendVars, providerVars, ctxDone, panicked>>

\* One iteration of the loop of notifyIssuerChange.
NotifyOne ==
    /\ wpc = "notify" /\ visit <= Len(issuerChangeSubscriptions)
    /\ visit' = visit + 1
    /\ LET sub == issuerChangeSubscriptions[visit]
       IN  IF sub \in closed
           THEN UNCHANGED <<filtered, spawned>>
           ELSE /\ filtered' = Append(filtered, sub)
                /\ spawned' = spawned \cup {[n |-> notices, i |-> visit, ref |-> notice]}
    /\ UNCHANGED <<apiVars, watcherVars, issuerVars, subVars, notice, notices, sending,
                   providerVars, ctxDone, panicked>>

\* What notifyIssuerChange leaves in issuerChangeSubscriptions.
MutantKept == <<>>
Kept == filtered

NotifyDone ==
    /\ wpc = "notify" /\ visit > Len(issuerChangeSubscriptions)
    /\ issuerChangeSubscriptions' = Kept
    /\ wpc' = "select"
    /\ notice' = NoIssuer /\ visit' = 1 /\ filtered' = <<>>
    /\ UNCHANGED <<apiVars, event, issuerVars, closed, notices, sendVars, providerVars,
                   ctxDone, panicked>>

\* A send goroutine evaluates issuerChangeSubscriptions[i], without the mutex,
\* on the list as it is by then. Both indexes past the end of the list and torn
\* reads of the slice header end in a panic.
EvaluateChannel(g) ==
    /\ spawned' = spawned \ {g}
    /\ IF g.i <= Len(issuerChangeSubscriptions)
       THEN /\ sending' = sending \cup {[n |-> g.n, i |-> g.i, ref |-> g.ref,
                                         sub |-> issuerChangeSubscriptions[g.i]]}
            /\ UNCHANGED panicked
       ELSE panicked' = TRUE /\ UNCHANGED sending
    /\ UNCHANGED <<apiVars, watcherVars, issuerVars, subVars, notifyVars, providerVars, ctxDone>>

-----------------------------------------------------------------------------
(* Sign: the read lock is held from the check of activeIssuerRef to the     *)
(* return, so a step of its own begins and another ends it.                 *)

BeginSign(c) ==
    /\ RLockFree /\ activeIssuerRef # NoIssuer
    /\ signing[c] = NoIssuer
    /\ signing' = [signing EXCEPT ![c] = activeIssuerRef]
    /\ UNCHANGED activeIssuerRef

EndSign(c) ==
    /\ signing[c] # NoIssuer
    /\ signing' = [signing EXCEPT ![c] = NoIssuer]
    /\ UNCHANGED activeIssuerRef

\* The gRPC server takes requests while the provider has a TLS config; a Sign
\* that finds no active issuer returns an error and changes nothing.
ClientSign(c) ==
    /\ serving /\ BeginSign(c)
    /\ UNCHANGED <<apiVars, watcherVars, subVars, notifyVars, sendVars, providerVars,
                   ctxDone, panicked>>

ClientDone(c) ==
    /\ EndSign(c)
    /\ UNCHANGED <<apiVars, watcherVars, subVars, notifyVars, sendVars, providerVars,
                   ctxDone, panicked>>

-----------------------------------------------------------------------------
(* Provider.Start: the backoff loop up to the first certificate, then the   *)
(* renewal loop. The body of fetchCertificate other than Sign is local.     *)

\* HasIssuerConfig, from Start and again from WaitForIssuerConfig.
HasIssuerConfig == activeIssuerRef # NoIssuer

ProviderCheck ==
    /\ ppc = "check" /\ RLockFree
    /\ ppc' = IF HasIssuerConfig THEN "fetch" ELSE "subscribe"
    /\ UNCHANGED <<apiVars, watcherVars, issuerVars, subVars, notifyVars, sendVars, psub,
                   attempts, serving, ctxDone, panicked>>

\* The list of subscriptions with a new one.
MutantSubscribed(sub) == <<sub>> \o issuerChangeSubscriptions
Subscribed(sub) == Append(issuerChangeSubscriptions, sub)

\* SubscribeIssuerChange; issuerChangeSubscriptionsMutex is taken at "notify".
SubscribeIssuerChange ==
    /\ ppc = "subscribe" /\ wpc # "notify"
    /\ psub' = psub + 1
    /\ issuerChangeSubscriptions' = Subscribed(psub')
    /\ ppc' = "wait"
    /\ UNCHANGED <<apiVars, watcherVars, issuerVars, closed, notifyVars, sendVars, attempts,
                   serving, ctxDone, panicked>>

\* The select of WaitForIssuerConfig; its timer only logs.
WaitReceive(g) ==
    /\ ppc = "wait" /\ g.sub = psub
    /\ sending' = sending \ {g}
    /\ ppc' = IF g.ref # NoIssuer THEN "close" ELSE "wait"
    /\ UNCHANGED <<apiVars, watcherVars, issuerVars, subVars, notifyVars, spawned, psub,
                   attempts, serving, ctxDone, panicked>>

WaitAbandon ==
    /\ ppc = "wait" /\ ctxDone
    /\ ppc' = "close"
    /\ UNCHANGED <<apiVars, watcherVars, issuerVars, subVars, notifyVars, sendVars, psub,
                   attempts, serving, ctxDone, panicked>>

CloseSubscription ==
    /\ ppc = "close"
    /\ closed' = closed \cup {psub}
    /\ ppc' = "fetch"
    /\ UNCHANGED <<apiVars, watcherVars, issuerVars, issuerChangeSubscriptions, notifyVars,
                   sendVars, psub, attempts, serving, ctxDone, panicked>>

\* fetchCertificate failed: backoff.Continue, until the retries are used up and
\* Start goes on to the renewal loop without a certificate.
FetchFailed ==
    /\ attempts' = attempts + 1
    /\ ppc' = IF attempts' < MaxRetries THEN "check" ELSE "renew"

ProviderSign ==
    /\ ppc \in {"fetch", "renew"} /\ BeginSign(Provider)
    /\ ppc' = IF ppc = "fetch" THEN "signing" ELSE "renewing"
    /\ UNCHANGED <<apiVars, watcherVars, subVars, notifyVars, sendVars, psub, attempts,
                   serving, ctxDone, panicked>>

\* Sign returns an error at once: no active issuer.
ProviderNoIssuer ==
    /\ ppc = "fetch" /\ RLockFree /\ ~HasIssuerConfig
    /\ FetchFailed
    /\ UNCHANGED <<apiVars, watcherVars, issuerVars, subVars, notifyVars, sendVars, psub,
                   serving, ctxDone, panicked>>

ProviderFetched ==
    /\ ppc \in {"signing", "renewing"} /\ EndSign(Provider)
    /\ ppc' = "renew" /\ serving' = TRUE
    /\ UNCHANGED <<apiVars, watcherVars, subVars, notifyVars, sendVars, psub, attempts,
                   ctxDone, panicked>>

ProviderFailed ==
    /\ EndSign(Provider)
    /\ \/ ppc = "signing" /\ FetchFailed
       \/ ppc = "renewing" /\ ppc' = "renew" /\ UNCHANGED attempts
    /\ UNCHANGED <<apiVars, watcherVars, subVars, notifyVars, sendVars, psub, serving,
                   ctxDone, panicked>>

\* The cancelled context ends the backoff loop, then the renewal loop.
ProviderStop ==
    /\ ctxDone
    /\ \/ ppc = "check" /\ ppc' = "renew" /\ UNCHANGED serving
       \/ ppc = "renew" /\ ppc' = "stopped" /\ serving' = FALSE
    /\ UNCHANGED <<apiVars, watcherVars, issuerVars, subVars, notifyVars, sendVars, psub,
                   attempts, ctxDone, panicked>>

-----------------------------------------------------------------------------

\* The istiod certificate provisioner takes a notification (module IstiodCert
\* models what it does with it).
IstiodCertReceive(g) ==
    /\ g.sub = IstiodCertSubscription
    /\ sending' = sending \ {g}
    /\ UNCHANGED <<apiVars, watcherVars, issuerVars, subVars, notifyVars, spawned,
                   providerVars, ctxDone, panicked>>

Environment ==
    \/ \E v \in ConfigMaps : EditConfigMap(v)
    \/ SendOtherEvent
    \/ \E k \in 0..Len(stream) : BreakWatch(k)
    \/ CancelContext

Watcher ==
    \/ ConnectWatch \/ ReceiveEvent \/ ReceiveClosed \/ StopWatcher
    \/ handleRuntimeConfigIssuerChange \/ handleRuntimeConfigIssuerDeletion
    \/ NotifyOne \/ NotifyDone

ProviderRun ==
    \/ ProviderCheck \/ SubscribeIssuerChange \/ WaitAbandon \/ CloseSubscription
    \/ \E g \in sending : WaitReceive(g)
    \/ ProviderSign \/ ProviderNoIssuer \/ ProviderFetched \/ ProviderFailed \/ ProviderStop

ManagerNext ==
    /\ ~panicked
    /\ \/ Environment \/ Watcher \/ ProviderRun
       \/ \E c \in Clients : ClientSign(c) \/ ClientDone(c)
       \/ \E g \in spawned : EvaluateChannel(g)

\* A panic ends the behaviour. Nothing of the process is persisted: the process
\* the kubelet starts next begins in a state of Init, with any ConfigMap.
Next == ManagerNext \/ (~panicked /\ \E g \in sending : IstiodCertReceive(g))

Spec == Init /\ [][Next]_vars

\* Every goroutine that can run does; a Sign in flight ends, because its
\* context ends or the API server closes its watch.
ManagerFairness ==
    /\ WF_vars(~panicked /\ Watcher)
    /\ WF_vars(~panicked /\ ProviderRun)
    /\ \A c \in Clients : WF_vars(~panicked /\ ClientDone(c))
    /\ WF_vars(~panicked /\ \E g \in spawned : EvaluateChannel(g))

FairSpec == Spec /\ ManagerFairness /\ WF_vars(~panicked /\ \E g \in sending : IstiodCertReceive(g))

-----------------------------------------------------------------------------

\* A Sign in flight holds the read lock, so the issuerRef it put into its
\* CertificateRequest is still the active one when the Sign returns.
SignersUseActiveIssuer ==
    \A c \in Callers : signing[c] # NoIssuer => signing[c] = activeIssuerRef

\* Once the watcher has handled all that an open watch delivered, a complete
\* ConfigMap is in force, whatever was edited while the watch was down; and an
\* absent one means the original issuer, as long as no watch has ever broken.
CaughtUp == wpc = "select" /\ watch = "open" /\ stream = <<>>
AppliedWhenCaughtUp ==
    CaughtUp => /\ configMap \in Issuers => activeIssuerRef = configMap
                /\ configMap = Absent /\ drops = 0 => activeIssuerRef = originalIssuerRef

\* No send goroutine indexes issuerChangeSubscriptions out of range.
NoPanic == ~panicked

\* istiodcert.New subscribes first and never closes: index 0 of the list is its
\* subscription whenever a send goroutine looks it up, so no notification meant
\* for it goes elsewhere and none meant for others comes to it.
IstiodCertAddressed ==
    IstiodCertEnabled =>
        \A g \in sending : g.i = 1 <=> g.sub = IstiodCertSubscription

\* The manager's issuer, seen with the signings in flight, is an ActiveIssuer:
\* the lock makes each change wait for the signings before it.
Abstract == INSTANCE ActiveIssuer WITH
    issuer <- activeIssuerRef, inflight <- signing, Original <- originalIssuerRef
ImplementsActiveIssuer == Abstract!Spec

\* A complete ConfigMap that is no longer edited comes into force and stays in
\* force, although signings keep arriving: a waiting Lock keeps new ones out.
IssuerEventuallyApplied ==
    \A i \in Issuers :
        <>[](configMap = i /\ ~ctxDone /\ ~panicked) => <>[](activeIssuerRef = i)

\* "WaitForIssuerConfig provides a function that blocks until issuer config is
\* available": it does not go on waiting while there is an active issuer.
WaitEndsWithConfig == ~<>[](ppc = "wait" /\ HasIssuerConfig)

\* The original issuer "will be used [...] if the ConfigMap for runtime
\* configuration is deleted".
DeletionEventuallyApplied ==
    <>[](configMap = Absent /\ ~ctxDone /\ ~panicked) => <>[](activeIssuerRef = originalIssuerRef)

\* "If the main context cancels, we break out of the outer loop and this
\* function returns."
WatcherStopsOnCancel == []<>(ctxDone => wpc = "stopped")
====
