------------------------------ MODULE GRPCServer ------------------------------
(***************************************************************************)
(* pkg/server: the life of the gRPC server and its CreateCertificate       *)
(* handlers, one for each client with a request. A handler authenticates   *)
(* its caller, authorizes the CSR (CSRPolicy) and an impersonation         *)
(* (NodeAuthorizer), has the CSR signed, and verifies what it got against  *)
(* the mesh's root CAs, which the TLS provider changes meanwhile. Sign,    *)
(* the TLS provider and the issuer appear as what CertificateRequests and  *)
(* TLSProvider show of them.                                               *)
(***************************************************************************)
EXTENDS CSRPolicy, NodeAuthorizer, Durations

CONSTANTS
    Clients,
    Requests,            \* credentials, and the identity to impersonate
    CSRs, Validities,    \* the CSR and ValidityDuration of a request, chosen when checked
    NoRequest, NoCSR,
    EnableClientCert,    \* the option
    CAs, NoCA,           \* certificate authorities; none
    Second,              \* time.Second: nanoseconds in a second
    MaximumClientCertificateDuration,
    InitialCA            \* the issuer's at first

NoIdentity == 0          \* the empty string

\* Credentials are a client certificate's identities or a pod's token.
ASSUME RequestsAssumption ==
    \A r \in Requests :
        /\ r.hasCert \in BOOLEAN /\ r.cert \in Seq(Nat)
        /\ r.token \in [pod : PodNames \cup {NoPod}, uid : Nat]
        /\ r.impersonated \in Nat

ASSUME CSRsAssumption == CSRs \subseteq CertificateRequest /\ NoCSR \notin CertificateRequest

ASSUME ServerAssumption ==
    /\ EnableClientCert \in BOOLEAN /\ NoCA \notin CAs
    /\ NoRequest \notin Requests /\ Validities \subseteq Int
    /\ Second \in Nat \ {0}
    /\ MaximumClientCertificateDuration \in minDuration..maxDuration
    /\ InitialCA \in CAs

VARIABLES
    spc,         \* Server.Start: "config", "listen", "ready", "serve" or "returned";
                 \* "failed" when serving failed and the process ended
    gpc,         \* its shutdown goroutine: "none", "wait", "stop" (about to call
                 \* GracefulStop), "drain" (in GracefulStop) or "done"
    ready,
    late,        \* history: ready was set after the goroutine had cleared it
    ctxDone,
    configured,  \* the TLS provider has a tlsConfig
    issuerCA,    \* the CA of the active issuer
    rootCAs,     \* Provider.rootCAs; the empty set before there are any
    hpc,         \* of each handler: "idle", "authenticate", "get", "lookup", "check",
                 \* "sign", "roots" or "respond"
    req,         \* its request
    csr, seconds,        \* what it goes on with of it, once checked
    caller,      \* its authenticated caller
    node,        \* the node of the caller's pod
    signed,      \* the CA that signed its certificate
    snapshot,    \* what RootCAs returned to it
    answer       \* what the client was last answered

serverVars   == <<spc, gpc, ready, late>>
providerVars == <<ctxDone, configured, issuerCA, rootCAs>>
handlerVars  == <<hpc, req, csr, seconds, caller, node, signed, snapshot, answer>>
vars == <<serverVars, providerVars, handlerVars, podVars>>

Bundles == (SUBSET CAs) \ {{}}

NoInfo == [pod |-> NoPod, uid |-> 0, sa |-> 0]
NoCaller == [identities |-> <<>>, info |-> NoInfo]

Infos == [pod : PodNames \cup {NoPod}, uid : Nat, sa : ServiceAccounts \cup {0}]
Labels == {"idle", "authenticate", "get", "lookup", "check", "sign", "roots", "respond"}
Codes == {"none", "OK", "Unauthenticated", "Internal"}

TypeOK ==
    /\ spc \in {"config", "listen", "ready", "serve", "returned", "failed"}
    /\ gpc \in {"none", "wait", "stop", "drain", "done"}
    /\ ready \in BOOLEAN /\ late \in BOOLEAN /\ ctxDone \in BOOLEAN /\ configured \in BOOLEAN
    /\ issuerCA \in CAs /\ rootCAs \in SUBSET CAs
    /\ hpc \in [Clients -> Labels]
    /\ req \in [Clients -> Requests \cup {NoRequest}]
    /\ csr \in [Clients -> CSRs \cup {NoCSR}] /\ seconds \in [Clients -> Validities \cup {0}]
    /\ caller \in [Clients -> [identities : Seq(Nat), info : Infos]]
    /\ node \in [Clients -> Nodes \cup {NoNode}]
    /\ signed \in [Clients -> CAs \cup {NoCA}]
    /\ snapshot \in [Clients -> SUBSET CAs]
    /\ answer \in [Clients -> [code : Codes, ca : CAs \cup {NoCA}, roots : SUBSET CAs]]
    /\ PodsTypeOK

NoAnswer == [code |-> "none", ca |-> NoCA, roots |-> {}]

Init ==
    /\ spc = "config" /\ gpc = "none" /\ ready = FALSE /\ late = FALSE
    /\ ctxDone = FALSE /\ configured = FALSE
    /\ issuerCA = InitialCA /\ rootCAs = {}
    /\ hpc = [c \in Clients |-> "idle"] /\ req = [c \in Clients |-> NoRequest]
    /\ csr = [c \in Clients |-> NoCSR] /\ seconds = [c \in Clients |-> 0]
    /\ caller = [c \in Clients |-> NoCaller] /\ node = [c \in Clients |-> NoNode]
    /\ signed = [c \in Clients |-> NoCA] /\ snapshot = [c \in Clients |-> {}]
    /\ answer = [c \in Clients |-> NoAnswer]
    /\ PodsInit

-----------------------------------------------------------------------------
(* The issuer and the TLS provider (see TLSProvider): root CAs are never     *)
(* withdrawn, and there are some before there is a tlsConfig.                *)

ChangeIssuer(ca) ==
    /\ Change
    /\ ca # issuerCA /\ issuerCA' = ca
    /\ UNCHANGED <<serverVars, handlerVars, versions, at, ctxDone, configured, rootCAs>>

ChangeRootCAs(b) ==
    /\ IF rootCAs = {} THEN UNCHANGED changes ELSE Change
    /\ b # rootCAs /\ rootCAs' = b
    /\ UNCHANGED <<serverVars, handlerVars, versions, at, ctxDone, configured, issuerCA>>

SetConfig ==
    /\ ~configured /\ rootCAs # {} /\ ~ctxDone
    /\ configured' = TRUE
    /\ UNCHANGED <<serverVars, handlerVars, podVars, ctxDone, issuerCA, rootCAs>>

CancelContext ==
    /\ ~ctxDone /\ ctxDone' = TRUE
    /\ UNCHANGED <<serverVars, handlerVars, podVars, configured, issuerCA, rootCAs>>

-----------------------------------------------------------------------------
(* Start and its shutdown goroutine. *)

\* Provider.Config returns. The TLS provider may have dropped its tlsConfig when the
\* context ended.
MutantConfigAvailable == TRUE
ConfigAvailable == configured

GetConfig ==
    /\ spc = "config"
    /\ \/ ConfigAvailable /\ spc' = "listen"
       \/ ctxDone /\ spc' = "returned"
    /\ UNCHANGED <<gpc, ready, late, providerVars, handlerVars, podVars>>

\* Registering the metrics or listening may fail.
Listen ==
    /\ spc = "listen"
    /\ \/ spc' = "ready" /\ gpc' = "wait"
       \/ spc' = "returned" /\ UNCHANGED gpc
    /\ UNCHANGED <<ready, late, providerVars, handlerVars, podVars>>

SetReady ==
    /\ spc = "ready"
    /\ spc' = "serve" /\ ready' = TRUE /\ late' = (gpc # "wait")
    /\ UNCHANGED <<gpc, providerVars, handlerVars, podVars>>

ClearReady ==
    /\ gpc = "wait" /\ ctxDone
    /\ gpc' = "stop" /\ ready' = FALSE
    /\ UNCHANGED <<spc, late, providerVars, handlerVars, podVars>>

\* GracefulStop (external): from its call on no request is taken, and those in
\* flight are waited for.
CallGracefulStop ==
    /\ gpc = "stop" /\ gpc' = "drain"
    /\ UNCHANGED <<spc, ready, late, providerVars, handlerVars, podVars>>

MutantInFlight == {}
InFlight == {c \in Clients : hpc[c] # "idle"}

GracefulStop ==
    /\ gpc = "drain" /\ InFlight = {}
    /\ gpc' = "done"
    /\ UNCHANGED <<spc, ready, late, providerVars, handlerVars, podVars>>

\* Serve returns once the server has stopped.
ServeReturns ==
    /\ spc = "serve" /\ gpc = "done"
    /\ spc' = "returned"
    /\ UNCHANGED <<gpc, ready, late, providerVars, handlerVars, podVars>>

\* Accept fails for good before the call of GracefulStop. Start returns the error, the
\* controller manager with it and the process ends, whatever its handlers were doing:
\* what they did between the error and the end they do before this step.
ServeFails ==
    /\ spc = "serve" /\ gpc \in {"wait", "stop"}
    /\ spc' = "failed" /\ gpc' = "none" /\ ready' = FALSE
    /\ hpc' = [c \in Clients |-> "idle"] /\ req' = [c \in Clients |-> NoRequest]
    /\ csr' = [c \in Clients |-> NoCSR] /\ seconds' = [c \in Clients |-> 0]
    /\ caller' = [c \in Clients |-> NoCaller] /\ node' = [c \in Clients |-> NoNode]
    /\ signed' = [c \in Clients |-> NoCA] /\ snapshot' = [c \in Clients |-> {}]
    /\ UNCHANGED <<late, answer, providerVars, podVars>>

-----------------------------------------------------------------------------
(* CreateCertificate *)

\* Requests are taken until GracefulStop is called, also when ready is no longer set.
MutantRequest(c, r) ==
    /\ spc = "serve" /\ gpc # "done" /\ hpc[c] = "idle"
    /\ hpc' = [hpc EXCEPT ![c] = "authenticate"]
    /\ req' = [req EXCEPT ![c] = r]
    /\ answer' = [answer EXCEPT ![c] = NoAnswer]
    /\ UNCHANGED <<serverVars, providerVars, podVars, csr, seconds, caller, node, signed, snapshot>>
Request(c, r) ==
    /\ spc = "serve" /\ gpc \in {"wait", "stop"} /\ hpc[c] = "idle"
    /\ hpc' = [hpc EXCEPT ![c] = "authenticate"]
    /\ req' = [req EXCEPT ![c] = r]
    /\ answer' = [answer EXCEPT ![c] = NoAnswer]
    /\ UNCHANGED <<serverVars, providerVars, podVars, csr, seconds, caller, node, signed, snapshot>>

Finish(c, a) ==
    /\ hpc' = [hpc EXCEPT ![c] = "idle"]
    /\ req' = [req EXCEPT ![c] = NoRequest]
    /\ csr' = [csr EXCEPT ![c] = NoCSR] /\ seconds' = [seconds EXCEPT ![c] = 0]
    /\ caller' = [caller EXCEPT ![c] = NoCaller]
    /\ node' = [node EXCEPT ![c] = NoNode]
    /\ signed' = [signed EXCEPT ![c] = NoCA]
    /\ snapshot' = [snapshot EXCEPT ![c] = {}]
    /\ answer' = [answer EXCEPT ![c] = a]

Fail(c, code) == Finish(c, [NoAnswer EXCEPT !.code = code])

MutantDenied == "PermissionDenied"
Denied == "Unauthenticated"

Goto(c, label) == hpc' = [hpc EXCEPT ![c] = label]

\* The authenticators (external), in order: the client certificate, if that is
\* enabled and there is one, else the token of a pod that still exists.
CertCaller(r) == EnableClientCert /\ r.hasCert
TokenCaller(r) ==
    /\ r.token.pod # NoPod
    /\ Current(r.token.pod) # NoPod /\ Current(r.token.pod).uid = r.token.uid

Caller(r) ==
    IF CertCaller(r)
    THEN [identities |-> r.cert, info |-> NoInfo]
    ELSE LET sa == Current(r.token.pod).sa
         IN  [identities |-> <<sa>>, info |-> [pod |-> r.token.pod, uid |-> r.token.uid, sa |-> sa]]

Authenticate(c) ==
    /\ hpc[c] = "authenticate"
    /\ CertCaller(req[c]) \/ TokenCaller(req[c])
    /\ Caller(req[c]).identities # <<>>
    /\ \/ req[c].impersonated = NoIdentity /\ Goto(c, "check")
       \/ req[c].impersonated # NoIdentity /\ HasNodeAuthorizer /\ Goto(c, "get")
    /\ caller' = [caller EXCEPT ![c] = Caller(req[c])]
    /\ UNCHANGED <<req, csr, seconds, node, signed, snapshot, answer>>

\* No authenticator accepts the credentials, for instance because a review fails,
\* the caller has no identities, or there is no node authorizer.
AuthenticateFails(c) == hpc[c] = "authenticate" /\ Fail(c, Denied)

GetCallerPod(c) ==
    /\ hpc[c] = "get"
    /\ IF CallerFound(caller[c].info, req[c].impersonated)
       THEN /\ Goto(c, "lookup")
            /\ node' = [node EXCEPT ![c] = Cached(caller[c].info.pod).node]
            /\ UNCHANGED <<req, csr, seconds, caller, signed, snapshot, answer>>
       ELSE Fail(c, Denied)

Lookup(c) ==
    /\ hpc[c] = "lookup"
    /\ IF FoundOnNode(req[c].impersonated, node[c])
       THEN /\ Goto(c, "check")
            /\ UNCHANGED <<req, csr, seconds, caller, node, signed, snapshot, answer>>
       ELSE Fail(c, Denied)

Identities(c) ==
    IF req[c].impersonated = NoIdentity THEN caller[c].identities ELSE <<req[c].impersonated>>

CheckCSR(c) ==
    /\ hpc[c] = "check"
    /\ \E x \in CSRs :
         IF CSRAllowed(Identities(c), x)
         THEN /\ Goto(c, "sign") /\ csr' = [csr EXCEPT ![c] = x]
              /\ \E s \in Validities : seconds' = [seconds EXCEPT ![c] = s]
              /\ UNCHANGED <<req, caller, node, signed, snapshot, answer>>
         ELSE Fail(c, Denied)

\* What Sign is asked for: the product wraps before it is compared.
Duration(n) ==
    LET asked == Wrap(n * Second)
    IN  IF asked < MaximumClientCertificateDuration THEN asked ELSE MaximumClientCertificateDuration

\* The request is not looked at again.
SignOK(c) ==
    /\ hpc[c] = "sign"
    /\ signed' = [signed EXCEPT ![c] = issuerCA]
    /\ Goto(c, "roots")
    /\ req' = [req EXCEPT ![c] = NoRequest]
    /\ csr' = [csr EXCEPT ![c] = NoCSR] /\ seconds' = [seconds EXCEPT ![c] = 0]
    /\ caller' = [caller EXCEPT ![c] = NoCaller] /\ node' = [node EXCEPT ![c] = NoNode]
    /\ UNCHANGED <<snapshot, answer>>

\* Sign fails, in particular without an issuer, or its chain does not parse.
SignFails(c) == hpc[c] = "sign" /\ Fail(c, "Internal")

\* RootCAs copies Provider.rootCAs under its lock, or waits until there are some.
RootCAs(c) ==
    /\ hpc[c] = "roots" /\ rootCAs # {}
    /\ snapshot' = [snapshot EXCEPT ![c] = rootCAs]
    /\ Goto(c, "respond")
    /\ UNCHANGED <<req, csr, seconds, caller, node, signed, answer>>

\* The request's context ends.
RootCAsNil(c) == hpc[c] = "roots" /\ Fail(c, "Internal")

\* The roots tagged on to the chain.
MutantLastEntry(c) == rootCAs
LastEntry(c) == snapshot[c]

\* The chain leads to one of the root CAs.
MutantVerifies(c) == snapshot[c] = {signed[c]}
Verifies(c) == signed[c] \in snapshot[c]

Respond(c) ==
    /\ hpc[c] = "respond"
    /\ IF Verifies(c)
       THEN Finish(c, [code |-> "OK", ca |-> signed[c], roots |-> LastEntry(c)])
       ELSE Fail(c, "Internal")

\* Steps that depend on nobody but the server and the issuer.
HandlerStep(c) ==
    /\ \/ Authenticate(c) \/ AuthenticateFails(c) \/ GetCallerPod(c) \/ Lookup(c) \/ CheckCSR(c)
       \/ SignOK(c) \/ SignFails(c) \/ RootCAs(c) \/ Respond(c)
    /\ UNCHANGED <<serverVars, providerVars, podVars>>

-----------------------------------------------------------------------------

Start == GetConfig \/ Listen \/ SetReady \/ ServeReturns
Shutdown == ClearReady \/ CallGracefulStop \/ GracefulStop

Environment ==
    \/ \E ca \in CAs : ChangeIssuer(ca)
    \/ \E b \in Bundles : ChangeRootCAs(b)
    \/ SetConfig \/ CancelContext

Informer == \E p \in PodNames : InformerUpdate(p)

Next ==
    \/ Environment \/ Start \/ Shutdown \/ ServeFails
    \/ \E c \in Clients : \/ HandlerStep(c)
                          \/ RootCAsNil(c) /\ UNCHANGED <<serverVars, providerVars, podVars>>
                          \/ \E r \in Requests : Request(c, r)
    \/ (ChangePods \/ Informer) /\ UNCHANGED <<serverVars, providerVars, handlerVars>>

Spec == Init /\ [][Next]_vars

\* Goroutines run, a signing ends one way or the other, the informer catches up.
FairSpec ==
    /\ Spec
    /\ WF_vars(Start) /\ WF_vars(Shutdown)
    /\ \A c \in Clients : WF_vars(HandlerStep(c))
    /\ \A p \in PodNames :
         WF_vars(InformerUpdate(p) /\ UNCHANGED <<serverVars, providerVars, handlerVars>>)

-----------------------------------------------------------------------------

\* A granted impersonation is of an identity, of any trust domain, whose service
\* account has a pod, or had one when the informer last heard, on the very node the
\* calling pod runs on, however stale the informer and although pods are deleted and
\* re-created under the same name, on other nodes, between the two reads.
ImpersonationJustified ==
    \A c \in Clients :
        hpc[c] \in {"check", "sign"} /\ req[c].impersonated # NoIdentity =>
            LET info == caller[c].info
            IN  /\ info.sa \in trustedNodeAccounts
                /\ \E n \in Nodes :
                     /\ \E k \in 1..Len(versions[info.pod]) :
                          versions[info.pod][k] = [uid |-> info.uid, sa |-> info.sa, node |-> n]
                     /\ \E p \in PodNames : \E k \in 1..Len(versions[p]) :
                          /\ versions[p][k] # NoPod
                          /\ versions[p][k].sa = Account[req[c].impersonated]
                          /\ versions[p][k].node = n

\* The pairwise and bit-wise checks of a CSR whose key usages are DER accept what
\* may be signed for a workload, its names in any order and its key usages in any
\* combination, and nothing else. What that is, and what of a CSR is not looked at,
\* says Permitted.
CSRDecided ==
    \A c \in Clients : \A x \in CSRs :
        hpc[c] = "check" /\ DER(x) => (CSRAllowed(Identities(c), x) <=> Permitted(Identities(c), x))

\* All that a handler has signed is a CSR whose URIs, however its extensions are encoded,
\* are exactly the identities of the caller or the one it impersonates, and that asks
\* for no name of another kind and no key usage or extension that is not permitted.
OnlyPermittedSigned ==
    \A c \in Clients :
        hpc[c] = "sign" => /\ Permitted(Identities(c), WithoutKeyUsage(csr[c]))
                           /\ KeyUsageBits(csr[c]) \subseteq {0, 2}

\* "If the client requests a duration larger than this value, this value will be used
\* instead": Sign is asked for MaximumClientCertificateDuration.
DurationOverridden ==
    \A c \in Clients :
        hpc[c] = "sign" /\ seconds[c] * Second > MaximumClientCertificateDuration =>
            Duration(seconds[c]) = MaximumClientCertificateDuration

\* The chain of a response leads to one of the roots it ends with, although the
\* root CAs may change while the handler verifies and answers.
ResponseVerifies == \A c \in Clients : answer[c].code = "OK" => answer[c].ca \in answer[c].roots

\* Start returns only when every request taken has been answered.
NothingCutOff == spc = "returned" => \A c \in Clients : hpc[c] = "idle"

\* A server that reports ready takes requests, and its handlers do not block for
\* want of root CAs; only a cancellation during startup can leave it ready for good.
ReadyServes == ready /\ ~late => spc = "serve" /\ gpc = "wait" /\ rootCAs # {}

\* A cancelled server stops: no handler it waits for blocks for ever.
ShutdownCompletes == ctxDone ~> spc \in {"returned", "failed"}

\* Once the root CAs include the issuer's, requests that get to be verified keep
\* being answered with a certificate, whatever was rotated before.
ServedAfterRotation ==
    \A c \in Clients :
        []<>(hpc[c] = "respond") /\ <>[](issuerCA \in rootCAs) => []<>(answer[c].code = "OK")

\* "this is fine and should be eventually consistent. Client is expected to retry":
\* an impersonation that the pods at the API server justify is granted to a caller
\* that keeps retrying.
Justified(r) ==
    \E p \in PodNames :
        /\ Current(r.token.pod) # NoPod /\ Current(r.token.pod).uid = r.token.uid
        /\ Current(r.token.pod).sa \in trustedNodeAccounts
        /\ Parses(r.impersonated)
        /\ Current(p) # NoPod /\ Current(p).sa = Account[r.impersonated]
        /\ Current(p).node = Current(r.token.pod).node /\ Current(p).node # NoNode
RetryIsGranted ==
    \A c \in Clients : \A r \in {q \in Requests : q.impersonated # NoIdentity /\ q.token.pod # NoPod} :
        <>[]Justified(r) /\ []<>(hpc[c] = "get" /\ req[c] = r /\ ~CertCaller(r))
            => []<>(hpc[c] = "check" /\ req[c] = r)

\* The server implements CertificateService, what its clients may rely on.
Phase ==
    IF spc \in {"returned", "failed"} THEN "stopped"
    ELSE IF gpc \in {"drain", "done"} THEN "closing"
    ELSE IF spc = "serve" THEN "serving" ELSE "starting"
Stage(label) ==
    IF label = "idle" THEN "none"
    ELSE IF label \in {"authenticate", "get", "lookup", "check"} THEN "taken" ELSE "authorized"
Pending == [c \in Clients |-> Stage(hpc[c])]
Service == INSTANCE CertificateService WITH phase <- Phase, pending <- Pending
ImplementsService == Service!Spec
====
