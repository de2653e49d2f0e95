------------------------------ MODULE IstiodCert ------------------------------
(***************************************************************************)
(* pkg/istiodcert: the DynamicIstiodCertProvisioner, composed with the     *)
(* manager of IssuerManager whose notifications it receives. Its Start     *)
(* goroutine and its controller run in the leader only; the workqueue, the *)
(* channel source and the API server are external.                        *)
(***************************************************************************)
EXTENDS IssuerManager

CONSTANTS NoCertificate, MaxTouches   \* bound: failed calls, edits by others
ASSUME TouchesAssumption == MaxTouches \in Nat

VARIABLES
    leader,       \* this process has been elected
    dpc,          \* DynamicIstiodCertProvisioner.Start
    issuerRef,    \* what the provisioner holds
    queued,       \* the Certificate's request is in the workqueue
    rpc,          \* Reconcile: "idle", "get" or "write"
    found,        \* what its Get returned
    outdated,     \* the Certificate changed since that Get
    certificate,  \* API server: NoCertificate or the issuerRef in its spec
    heard,        \* history: number of the notification received last
    touches

provisionerVars == <<leader, dpc, issuerRef, queued, rpc, found, outdated, certificate, heard,
                     touches>>
istiodVars == <<vars, provisionerVars>>

Certificates == Issuers \cup {NoCertificate}

ProvisionerTypeOK ==
    /\ leader \in BOOLEAN /\ queued \in BOOLEAN /\ outdated \in BOOLEAN
    /\ dpc \in {"idle", "start", "loop", "send", "stopped"}
    /\ issuerRef \in Refs
    /\ rpc \in {"idle", "get", "write"}
    /\ found \in Certificates /\ certificate \in Certificates
    /\ heard \in Nat /\ touches \in 0..MaxTouches

IstiodInit ==
    /\ Init
    /\ leader = FALSE /\ dpc = "idle" /\ issuerRef = originalIssuerRef
    /\ queued = FALSE /\ rpc = "idle" /\ outdated = FALSE /\ heard = 0 /\ touches = 0
    /\ certificate \in Certificates /\ found = NoCertificate

\* issuerRefMutex, held by handleNewIssuer while it sends on reconcileChan and
\* by Reconcile throughout.
issuerRefMutexFree == dpc # "send" /\ rpc = "idle"

\* Leader election (external), which the cancellation ends, starts the runnable and
\* the controller, whose informer reports a Certificate that exists already.
Elected ==
    /\ ~leader /\ ~ctxDone /\ leader' = TRUE
    /\ dpc' = "start" /\ queued' = (certificate # NoCertificate)
    /\ UNCHANGED <<issuerRef, rpc, found, outdated, certificate, heard, touches>>

\* A nil notification does not blank out an initial issuer.
MutantFallsBack(ref) == FALSE
FallsBack(ref) == ref = NoIssuer /\ originalIssuerRef # NoIssuer

handleNewIssuer(ref) ==
    /\ issuerRefMutexFree
    /\ IF FallsBack(ref)
       THEN issuerRef' = originalIssuerRef /\ dpc' = "loop"
       ELSE issuerRef' = ref /\ dpc' = "send"
    /\ UNCHANGED <<leader, queued, rpc, found, outdated, certificate, touches>>

StartProvisioner ==
    /\ dpc = "start"
    /\ IF originalIssuerRef # NoIssuer
       THEN handleNewIssuer(originalIssuerRef) /\ UNCHANGED heard
       ELSE /\ dpc' = "loop"
            /\ UNCHANGED <<leader, issuerRef, queued, rpc, found, outdated, certificate, heard, touches>>

StopProvisioner ==
    /\ dpc = "loop" /\ ctxDone
    /\ dpc' = "stopped"
    /\ UNCHANGED <<leader, issuerRef, queued, rpc, found, outdated, certificate, heard, touches>>

\* The channel source takes the event and enqueues the request.
TakeReconcileEvent ==
    /\ dpc = "send"
    /\ queued' = TRUE /\ dpc' = "loop"
    /\ UNCHANGED <<leader, issuerRef, rpc, found, outdated, certificate, heard, touches>>

MutantNothingToReconcile == FALSE
NothingToReconcile == issuerRef = NoIssuer

BeginReconcile ==
    /\ leader /\ queued /\ issuerRefMutexFree
    /\ queued' = FALSE
    /\ rpc' = IF NothingToReconcile THEN "idle" ELSE "get"
    /\ UNCHANGED <<leader, dpc, issuerRef, found, outdated, certificate, heard, touches>>

GetCertificate ==
    /\ rpc = "get"
    /\ rpc' = "write" /\ found' = certificate /\ outdated' = FALSE
    /\ UNCHANGED <<leader, dpc, issuerRef, queued, certificate, heard, touches>>

\* Reconcile returns the error and the controller enqueues the request again.
MutantRequeued == queued
Requeued == TRUE

\* Create or Update; a Certificate created, edited or deleted since Get makes
\* the API server refuse. A write that changes it is reported by the informer.
WriteCertificate ==
    /\ rpc = "write" /\ rpc' = "idle"
    /\ IF outdated
       THEN queued' = Requeued /\ UNCHANGED certificate
       ELSE /\ certificate' = issuerRef
            /\ queued' = (queued \/ found # issuerRef)
    /\ UNCHANGED <<leader, dpc, issuerRef, found, outdated, heard, touches>>

\* A call fails otherwise: Get, or a write whether or not it took effect.
CallFails ==
    /\ rpc # "idle" /\ rpc' = "idle"
    /\ touches < MaxTouches /\ touches' = touches + 1
    /\ queued' = Requeued
    /\ \/ UNCHANGED certificate
       \/ rpc = "write" /\ ~outdated /\ certificate' = issuerRef
    /\ UNCHANGED <<leader, dpc, issuerRef, found, outdated, heard>>

\* Somebody else creates, edits or deletes the Certificate.
TouchCertificate(c) ==
    /\ touches < MaxTouches /\ touches' = touches + 1
    /\ c # certificate /\ certificate' = c
    /\ outdated' = TRUE /\ queued' = (queued \/ leader)
    /\ UNCHANGED <<leader, dpc, issuerRef, rpc, found, heard>>

Provisioner ==
    \/ StartProvisioner \/ StopProvisioner \/ TakeReconcileEvent
    \/ BeginReconcile \/ GetCertificate \/ WriteCertificate \/ CallFails

ReceiveIssuer(g) ==
    /\ dpc = "loop" /\ IstiodCertReceive(g) /\ handleNewIssuer(g.ref) /\ heard' = g.n

IstiodNext ==
    \/ ManagerNext /\ UNCHANGED provisionerVars
    \/ /\ ~panicked
       /\ \/ /\ Elected \/ Provisioner \/ \E c \in Certificates : TouchCertificate(c)
             /\ UNCHANGED vars
          \/ \E g \in sending : ReceiveIssuer(g)

IstiodSpec == IstiodInit /\ [][IstiodNext]_istiodVars

FairIstiodSpec ==
    /\ IstiodSpec /\ ManagerFairness
    /\ WF_istiodVars(~panicked /\ Elected /\ UNCHANGED vars)
    /\ WF_istiodVars(~panicked /\ Provisioner /\ UNCHANGED vars)
    /\ WF_istiodVars(~panicked /\ \E g \in sending : ReceiveIssuer(g))

-----------------------------------------------------------------------------

\* A leader with nothing left to do has the Certificate at the issuer it holds,
\* whoever created, edited or deleted it meanwhile: every change of the issuer
\* or of the Certificate leads to a Reconcile.
CertificateReconciled ==
    leader /\ dpc = "loop" /\ ~queued /\ rpc = "idle" /\ issuerRef # NoIssuer
        => certificate = issuerRef

\* An issuer the provisioner keeps gets into the Certificate for good: the
\* mutex held across the send on reconcileChan does not block Reconcile, and
\* refused writes are retried.
CertificateConverges ==
    \A i \in Issuers :
        <>[](leader /\ issuerRef = i /\ ~ctxDone /\ ~panicked) => <>[](certificate = i)

\* When the notification received last is also the newest, the provisioner holds
\* the active issuer, deletions of the ConfigMap and a late election included:
\* only notifications under way, or that overtook one another, leave it another one.
LatestHeard == heard = notices /\ HasIssuerConfig => issuerRef = activeIssuerRef
====
