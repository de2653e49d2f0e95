------------------------ MODULE CreateCertificateProofs ------------------------
(***************************************************************************)
(* Proofs about what the CreateCertificate handlers of GRPCServer decide,  *)
(* have signed and answer, on top of the invariant of GRPCServerProofs and *)
(* of what CSRPolicyProofs shows of the policy.                            *)
(***************************************************************************)
EXTENDS GRPCServerProofs, CSRPolicyProofs

(***************************************************************************)
(* Responses. Only Respond answers "OK", with the copy it verified against.*)
(***************************************************************************)
\* An answer that verifies, if it is "OK", keeps ResponseVerifies.
LEMMA AnsweredSoundly ==
  ASSUME TypeOK, ResponseVerifies, NEW c \in Clients, NEW a, answer' = [answer EXCEPT ![c] = a],
         a.code = "OK" => a.ca \in a.roots
  PROVE  ResponseVerifies'
  <1>1. \A d \in Clients : answer'[d] = IF d = c THEN a ELSE answer[d]
    BY DEF TypeOK
  <1> QED BY <1>1 DEF ResponseVerifies

\* An error does.
LEMMA RefusedSoundly ==
  ASSUME TypeOK, ResponseVerifies, NEW c \in Clients, NEW code \in Codes \ {"OK"}, Fail(c, code)
  PROVE  ResponseVerifies'
  <1> DEFINE a == [NoAnswer EXCEPT !.code = code]
  <1>1. a.code # "OK"
    BY DEF NoAnswer
  <1>2. answer' = [answer EXCEPT ![c] = a]
    BY DEF Fail, Finish
  <1> HIDE DEF a
  <1> QED BY <1>1, <1>2, AnsweredSoundly, Zenon

\* So does every step of a handler.
LEMMA HandlerAnswers ==
  ASSUME TypeOK, ResponseVerifies, NEW c \in Clients, AnyHandlerStep(c)
  PROVE  ResponseVerifies'
  <1>0. "Unauthenticated" \in Codes \ {"OK"} /\ "Internal" \in Codes \ {"OK"}
    BY DEF Codes
  <1>k. answer' = answer => ResponseVerifies'
    BY DEF ResponseVerifies
  <1>1. CASE Authenticate(c)  BY <1>1, <1>k DEF Authenticate
  <1>2. CASE AuthenticateFails(c)  BY <1>0, <1>2, RefusedSoundly DEF AuthenticateFails, Denied
  <1>3. CASE GetCallerPod(c)  BY <1>0, <1>3, <1>k, RefusedSoundly DEF GetCallerPod, Denied
  <1>4. CASE Lookup(c)  BY <1>0, <1>4, <1>k, RefusedSoundly DEF Lookup, Denied
  <1>5. CASE CheckCSR(c)  BY <1>0, <1>5, <1>k, RefusedSoundly DEF CheckCSR, Denied
  <1>6. CASE SignOK(c)  BY <1>6, <1>k DEF SignOK
  <1>7. CASE SignFails(c)  BY <1>0, <1>7, RefusedSoundly DEF SignFails
  <1>8. CASE RootCAs(c)  BY <1>8, <1>k DEF RootCAs
  <1>9. CASE Respond(c)
    <2>1. CASE ~Verifies(c)
      BY <1>0, <1>9, <2>1, RefusedSoundly DEF Respond
    <2>2. CASE Verifies(c)
      <3> DEFINE a == [code |-> "OK", ca |-> signed[c], roots |-> snapshot[c]]
      <3>1. answer' = [answer EXCEPT ![c] = a]
        BY <1>9, <2>2 DEF Respond, Finish, LastEntry
      <3>2. a.ca \in a.roots
        BY <2>2 DEF Verifies
      <3> HIDE DEF a
      <3> QED BY <3>1, <3>2, AnsweredSoundly, Zenon
    <2> QED BY <2>1, <2>2
  <1>10. CASE RootCAsNil(c)  BY <1>0, <1>10, RefusedSoundly DEF RootCAsNil
  <1> QED
    BY <1>1, <1>2, <1>3, <1>4, <1>5, <1>6, <1>7, <1>8, <1>9, <1>10 DEF AnyHandlerStep

\* And every other step.
LEMMA AnswersStep == TypeOK /\ ResponseVerifies /\ [Next]_vars => ResponseVerifies'
  <1> SUFFICES ASSUME TypeOK, ResponseVerifies, [Next]_vars PROVE ResponseVerifies'
    OBVIOUS
  <1>k. answer' = answer => ResponseVerifies'
    BY DEF ResponseVerifies
  <1>1. CASE Environment
    BY <1>1, <1>k DEF Environment, ChangeIssuer, ChangeRootCAs, SetConfig, CancelContext, handlerVars
  <1>2. CASE Start
    BY <1>2, <1>k DEF Start, GetConfig, Listen, SetReady, ServeReturns, handlerVars
  <1>3. CASE Shutdown
    BY <1>3, <1>k DEF Shutdown, ClearReady, CallGracefulStop, GracefulStop, handlerVars
  <1>4. ASSUME NEW c \in Clients, HandlerStep(c) PROVE ResponseVerifies'
    BY <1>4, HandlerAnswers DEF HandlerStep, AnyHandlerStep
  <1>5. ASSUME NEW c \in Clients, RootCAsNil(c) PROVE ResponseVerifies'
    BY <1>5, HandlerAnswers DEF AnyHandlerStep
  <1>6. ASSUME NEW c \in Clients, NEW r \in Requests, Request(c, r) PROVE ResponseVerifies'
    <2>1. NoAnswer.code # "OK"
      BY DEF NoAnswer
    <2> QED BY <1>6, <2>1, AnsweredSoundly, Zenon DEF Request
  <1>7. CASE UNCHANGED handlerVars
    BY <1>7, <1>k DEF handlerVars
  <1>8. CASE ServeFails
    BY <1>8, <1>k DEF ServeFails
  <1> QED BY <1>1, <1>2, <1>3, <1>4, <1>5, <1>6, <1>7, <1>8 DEF Next, vars

\* The chain of every response leads to one of the roots it ends with, however the
\* root CAs and the issuer change while the handler verifies and answers.
THEOREM ResponsesVerify == Spec => []ResponseVerifies
  <1>1. Init => ResponseVerifies
    BY DEF Init, NoAnswer, ResponseVerifies
  <1> QED BY <1>1, TypeCorrect, AnswersStep, PTL DEF Spec

-----------------------------------------------------------------------------
(***************************************************************************)
(* CSRs. A handler that checks a CSR knows whose it may be, and one that   *)
(* has it signed still has the identities it was checked against.          *)
(***************************************************************************)
\* At a check, there are identities.
LEMMA CheckedTypes ==
  ASSUME IInv, NEW c \in Clients, hpc[c] = "check"
  PROVE  Identities(c) \in Seq(Nat)
  <1>1. caller[c].identities \in Seq(Nat)
    BY DEF IInv, TypeOK
  <1>2. req[c].impersonated \in Nat
    BY RequestsAssumption DEF IInv, Known
  <1> QED BY <1>1, <1>2 DEF Identities

\* The decision on a CSR is the declared policy, for any identities and CSRs.
THEOREM CSRsDecided == Spec => []CSRDecided
  <1>1. IInv => CSRDecided
    BY CheckedTypes, CSRsAssumption, CSRAllowedExact DEF CSRDecided
  <1> QED BY <1>1, IInvInit, IInvStep, PTL DEF Spec

\* What OnlyPermittedSigned says of a handler.
Sound(c) ==
    hpc[c] = "sign" => /\ Permitted(Identities(c), WithoutKeyUsage(csr[c]))
                       /\ KeyUsageBits(csr[c]) \subseteq {0, 2}

\* It stays so while the handler's label, request, caller and CSR do.
LEMMA SoundKept ==
  ASSUME NEW c \in Clients, Sound(c),
         hpc'[c] = hpc[c], req'[c] = req[c], caller'[c] = caller[c], csr'[c] = csr[c]
  PROVE  Sound(c)'
  <1>1. Identities(c)' = Identities(c)
    BY DEF Identities
  <1>2. WithoutKeyUsage(csr[c])' = WithoutKeyUsage(csr[c]) /\ KeyUsageBits(csr[c])' = KeyUsageBits(csr[c])
    BY DEF WithoutKeyUsage, KeyUsageBits
  <1>3. Permitted(Identities(c), WithoutKeyUsage(csr[c]))' = Permitted(Identities(c), WithoutKeyUsage(csr[c]))
    BY <1>1, <1>2 DEF Permitted
  <1> QED BY <1>2, <1>3 DEF Sound

\* A CSR that is accepted is permitted.
LEMMA AcceptedSound ==
  ASSUME IInv, NEW c \in Clients, NEW x \in CSRs, hpc[c] = "check", Accepts(c, x)
  PROVE  Sound(c)'
  <1>1. Identities(c) \in Seq(Nat) /\ x \in CertificateRequest
    BY CheckedTypes, CSRsAssumption
  <1>2. Permitted(Identities(c), WithoutKeyUsage(x)) /\ KeyUsageBits(x) \subseteq {0, 2}
    BY <1>1, AllowedAsksForNoMore DEF Accepts
  <1>3. csr'[c] = x /\ req' = req /\ caller' = caller
    BY DEF Accepts, IInv, TypeOK
  <1>4. Identities(c)' = Identities(c)
    BY <1>3 DEF Identities
  <1> QED BY <1>2, <1>3, <1>4 DEF Sound

\* A step of a handler gets it to Sign with a permitted CSR only.
LEMMA HandlerSound ==
  ASSUME IInv, NEW c \in Clients, AnyHandlerStep(c)
  PROVE  Sound(c)'
  <1>0. hpc \in [Clients -> Labels]
    BY DEF IInv, TypeOK
  <1>s. ASSUME hpc'[c] # "sign" PROVE Sound(c)'
    BY <1>s DEF Sound
  <1>1. CASE Authenticate(c)  BY <1>s, <1>0, <1>1 DEF Authenticate, Goto
  <1>2. CASE AuthenticateFails(c)  BY <1>s, <1>0, <1>2 DEF AuthenticateFails, Fail, Finish
  <1>3. CASE GetCallerPod(c)  BY <1>s, <1>0, <1>3 DEF GetCallerPod, Goto, Fail, Finish
  <1>4. CASE Lookup(c)  BY <1>s, <1>0, <1>4 DEF Lookup, Goto, Fail, Finish
  <1>5. CASE CheckCSR(c)
    <2>1. CASE Fail(c, Denied)  BY <1>s, <1>0, <2>1 DEF Fail, Finish
    <2> QED BY <1>5, <2>1, CheckedCSR, AcceptedSound DEF CheckCSR
  <1>6. CASE SignOK(c)  BY <1>s, <1>0, <1>6 DEF SignOK, Goto
  <1>7. CASE SignFails(c)  BY <1>s, <1>0, <1>7 DEF SignFails, Fail, Finish
  <1>8. CASE RootCAs(c)  BY <1>s, <1>0, <1>8 DEF RootCAs, Goto
  <1>9. CASE Respond(c)  BY <1>s, <1>0, <1>9 DEF Respond, Fail, Finish
  <1>10. CASE RootCAsNil(c)  BY <1>s, <1>0, <1>10 DEF RootCAsNil, Fail, Finish
  <1> QED
    BY <1>1, <1>2, <1>3, <1>4, <1>5, <1>6, <1>7, <1>8, <1>9, <1>10 DEF AnyHandlerStep

\* Every step keeps OnlyPermittedSigned.
LEMMA SoundStep == IInv /\ OnlyPermittedSigned /\ [Next]_vars => OnlyPermittedSigned'
  <1> SUFFICES ASSUME IInv, \A d \in Clients : Sound(d), [Next]_vars, NEW d \in Clients
               PROVE  Sound(d)'
    BY DEF OnlyPermittedSigned, Sound
  <1>t. TypeOK
    BY DEF IInv
  <1>1. ASSUME UNCHANGED handlerVars PROVE Sound(d)'
    BY <1>1, SoundKept DEF handlerVars
  <1>2. ASSUME NEW c \in Clients, HandlerStep(c) \/ RootCAsNil(c) PROVE Sound(d)'
    <2>1. AnyHandlerStep(c)
      BY <1>2 DEF HandlerStep, AnyHandlerStep
    <2>2. CASE d = c  BY <2>1, <2>2, HandlerSound
    <2>3. CASE d # c  BY <1>t, <2>1, <2>3, OthersKept, SoundKept
    <2> QED BY <2>2, <2>3
  <1>3. ASSUME NEW c \in Clients, NEW r \in Requests, Request(c, r) PROVE Sound(d)'
    <2>1. /\ hpc' = [hpc EXCEPT ![c] = "authenticate"] /\ req' = [req EXCEPT ![c] = r]
          /\ UNCHANGED <<csr, caller>>
      BY <1>3 DEF Request
    <2>2. CASE d = c  BY <1>t, <2>1, <2>2 DEF Sound, TypeOK
    <2>3. CASE d # c  BY <1>t, <2>1, <2>3, SoundKept DEF TypeOK
    <2> QED BY <2>2, <2>3
  <1>4. CASE ServeFails
    <2>1. hpc'[d] = "idle"
      BY <1>4 DEF ServeFails
    <2> QED BY <2>1 DEF Sound
  <1>5. ASSUME Environment \/ Start \/ Shutdown PROVE UNCHANGED handlerVars
    BY <1>5 DEF Environment, ChangeIssuer, ChangeRootCAs, SetConfig, CancelContext, Start, GetConfig,
               Listen, SetReady, ServeReturns, Shutdown, ClearReady, CallGracefulStop, GracefulStop
  <1> QED BY <1>1, <1>2, <1>3, <1>4, <1>5 DEF Next, vars

\* Whatever happens to the pods and the other handlers meanwhile, all that is sent to
\* Sign is what the policy permits the caller, or the identity it impersonates.
THEOREM SignedOnlyIfPermitted == Spec => []OnlyPermittedSigned
  <1>1. Init => OnlyPermittedSigned
    BY DEF Init, OnlyPermittedSigned
  <1> QED BY <1>1, IInvInit, IInvStep, SoundStep, PTL DEF Spec

-----------------------------------------------------------------------------
(***************************************************************************)
(* The server implements CertificateService. Starting and stopping are     *)
(* steps of the service or hidden, and so are the steps of a handler, by   *)
(* the stage they take it to.                                              *)
(***************************************************************************)
ServiceVars == <<Phase, Pending, answer>>

\* A handler that moves changes its client's entry of Pending, and no other.
LEMMA PendingMoves ==
  ASSUME hpc \in [Clients -> Labels], NEW c \in Clients, NEW l \in Labels,
         hpc' = [hpc EXCEPT ![c] = l]
  PROVE  Pending[c] = Stage(hpc[c]) /\ Pending' = [Pending EXCEPT ![c] = Stage(l)]
  BY Zenon DEF Pending

\* What the server's own steps are to its clients.
LEMMA ServerServes ==
  ASSUME LifeInv, UNCHANGED handlerVars, Start \/ Shutdown
  PROVE  Service!Open \/ Service!Close \/ Service!Stop \/ UNCHANGED ServiceVars
  <1>1. UNCHANGED <<Pending, answer>>
    BY DEF Pending, handlerVars
  <1>2. ASSUME \A c \in Clients : hpc[c] = "idle" PROVE \A c \in Clients : Pending[c] = "none"
    BY <1>2 DEF Pending, Stage
  <1>i. spc # "serve" \/ gpc \notin {"wait", "stop", "drain"} => \A c \in Clients : hpc[c] = "idle"
    BY DEF LifeInv
  <1>3. CASE GetConfig
    <2>1. Phase = "starting" /\ Phase' \in {"starting", "stopped"}
      BY <1>3 DEF GetConfig, Phase, LifeInv
    <2>2. \A c \in Clients : Pending[c] = "none"
      BY <1>2, <1>i, <1>3 DEF GetConfig
    <2> QED BY <1>1, <2>1, <2>2 DEF Service!Stop, ServiceVars
  <1>4. CASE Listen
    <2>1. Phase = "starting" /\ Phase' \in {"starting", "stopped"}
      BY <1>4 DEF Listen, Phase, LifeInv
    <2>2. \A c \in Clients : Pending[c] = "none"
      BY <1>2, <1>i, <1>4 DEF Listen
    <2> QED BY <1>1, <2>1, <2>2 DEF Service!Stop, ServiceVars
  <1>5. CASE SetReady
    <2>1. (Phase = "starting" /\ Phase' = "serving") \/ Phase' = Phase
      BY <1>5 DEF SetReady, Phase, LifeInv
    <2> QED BY <1>1, <2>1 DEF Service!Open, ServiceVars
  <1>6. CASE ServeReturns
    <2>1. Phase = "closing" /\ Phase' = "stopped"
      BY <1>6 DEF ServeReturns, Phase
    <2>2. \A c \in Clients : Pending[c] = "none"
      BY <1>2, <1>i, <1>6 DEF ServeReturns
    <2> QED BY <1>1, <2>1, <2>2 DEF Service!Stop
  <1>7. CASE CallGracefulStop
    <2>1. Phase \in {"starting", "serving"} /\ Phase' = "closing"
      BY <1>7 DEF CallGracefulStop, Phase, LifeInv
    <2> QED BY <1>1, <2>1 DEF Service!Close
  <1>8. CASE ClearReady \/ GracefulStop
    <2>1. Phase' = Phase
      BY <1>8 DEF ClearReady, GracefulStop, Phase
    <2> QED BY <1>1, <2>1 DEF ServiceVars
  <1> QED BY <1>3, <1>4, <1>5, <1>6, <1>7, <1>8 DEF Start, Shutdown

\* A handler that fails answers its client, and is done.
LEMMA FailAnswers ==
  ASSUME hpc \in [Clients -> Labels], NEW c \in Clients, NEW code, Fail(c, code), Phase' = Phase
  PROVE  Service!Answer(c, [NoAnswer EXCEPT !.code = code])
  <1>1. hpc' = [hpc EXCEPT ![c] = "idle"] /\ answer' = [answer EXCEPT ![c] = [NoAnswer EXCEPT !.code = code]]
    BY DEF Fail, Finish
  <1>2. "idle" \in Labels /\ Stage("idle") = "none"
    BY DEF Labels, Stage
  <1>3. Pending' = [Pending EXCEPT ![c] = "none"]
    BY <1>1, <1>2, PendingMoves, Zenon
  <1> QED BY <1>1, <1>3 DEF Service!Answer

\* What a handler's step is to its client.
ClientStep(c) ==
    \/ Service!Authorize(c) \/ Service!Refuse(c) \/ Service!Break(c)
    \/ \E ca \in CAs, roots \in SUBSET CAs : Service!Issue(c, ca, roots)
    \/ UNCHANGED ServiceVars

\* Every step of a handler is one of these.
LEMMA HandlerServes ==
  ASSUME TypeOK, NEW c \in Clients, AnyHandlerStep(c), UNCHANGED serverVars
  PROVE  ClientStep(c)
  <1>t. hpc \in [Clients -> Labels]
    BY DEF TypeOK
  <1>p. Phase' = Phase
    BY DEF Phase, serverVars
  <1>s. Pending[c] = Stage(hpc[c])
    BY DEF Pending
  <1>n. Service!NoAnswer = NoAnswer
    BY DEF Service!NoAnswer, NoAnswer
  <1>1. ASSUME hpc[c] \in {"authenticate", "get", "lookup", "check"}, Fail(c, Denied) PROVE ClientStep(c)
    <2>1. Pending[c] = "taken"
      BY <1>1, <1>s DEF Stage
    <2>2. Service!Answer(c, [NoAnswer EXCEPT !.code = "Unauthenticated"])
      BY <1>1, <1>t, <1>p, FailAnswers DEF Denied
    <2> QED BY <2>1, <2>2, <1>n DEF ClientStep, Service!Refuse
  <1>2. ASSUME hpc[c] \in {"sign", "roots", "respond"}, Fail(c, "Internal") PROVE ClientStep(c)
    <2>1. Pending[c] = "authorized"
      BY <1>2, <1>s DEF Stage
    <2>2. Service!Answer(c, [NoAnswer EXCEPT !.code = "Internal"])
      BY <1>2, <1>t, <1>p, FailAnswers
    <2> QED BY <2>1, <2>2, <1>n DEF ClientStep, Service!Break
  <1>3. ASSUME NEW l \in Labels, hpc' = [hpc EXCEPT ![c] = l], Stage(l) = Stage(hpc[c]), answer' = answer
        PROVE  ClientStep(c)
    <2>1. Pending' = [Pending EXCEPT ![c] = Pending[c]]
      BY <1>3, <1>t, <1>s, PendingMoves, Zenon
    <2>2. Pending' = Pending
      BY <2>1, Zenon DEF Pending
    <2> QED BY <1>3, <1>p, <2>2 DEF ClientStep, ServiceVars
  <1>4. CASE Authenticate(c)
    <2>1. PICK l \in {"check", "get"} : hpc' = [hpc EXCEPT ![c] = l]
      BY <1>4 DEF Authenticate, Goto
    <2>2. l \in Labels /\ Stage(l) = Stage(hpc[c]) /\ answer' = answer
      BY <1>4 DEF Authenticate, Labels, Stage
    <2> QED BY <1>3, <2>1, <2>2, Zenon
  <1>5. CASE AuthenticateFails(c)
    BY <1>1, <1>5 DEF AuthenticateFails
  <1>6. CASE GetCallerPod(c)
    <2>1. hpc[c] = "get" /\ (Fail(c, Denied) \/ (hpc' = [hpc EXCEPT ![c] = "lookup"] /\ answer' = answer))
      BY <1>6 DEF GetCallerPod, Goto
    <2>2. "lookup" \in Labels /\ Stage("lookup") = Stage("get")
      BY DEF Labels, Stage
    <2> QED BY <1>1, <1>3, <2>1, <2>2
  <1>7. CASE Lookup(c)
    <2>1. hpc[c] = "lookup" /\ (Fail(c, Denied) \/ (hpc' = [hpc EXCEPT ![c] = "check"] /\ answer' = answer))
      BY <1>7 DEF Lookup, Goto
    <2>2. "check" \in Labels /\ Stage("check") = Stage("lookup")
      BY DEF Labels, Stage
    <2> QED BY <1>1, <1>3, <2>1, <2>2
  <1>8. CASE CheckCSR(c)
    <2>1. hpc[c] = "check" /\ (Fail(c, Denied) \/ (hpc' = [hpc EXCEPT ![c] = "sign"] /\ answer' = answer))
      BY <1>8 DEF CheckCSR, Goto
    <2>2. ASSUME hpc' = [hpc EXCEPT ![c] = "sign"], answer' = answer PROVE ClientStep(c)
      <3>1. "sign" \in Labels /\ Stage("sign") = "authorized" /\ Stage("check") = "taken"
        BY DEF Labels, Stage
      <3>2. Pending' = [Pending EXCEPT ![c] = "authorized"] /\ Pending[c] = "taken"
        BY <1>s, <1>t, <2>1, <2>2, <3>1, PendingMoves, Zenon
      <3> QED BY <1>p, <2>2, <3>2 DEF ClientStep, Service!Authorize
    <2> QED BY <1>1, <2>1, <2>2
  <1>9. CASE SignOK(c)
    <2>1. hpc[c] = "sign" /\ hpc' = [hpc EXCEPT ![c] = "roots"] /\ answer' = answer
      BY <1>9 DEF SignOK, Goto
    <2>2. "roots" \in Labels /\ Stage("roots") = Stage("sign")
      BY DEF Labels, Stage
    <2> QED BY <1>3, <2>1, <2>2, Zenon
  <1>10. CASE SignFails(c)
    BY <1>2, <1>10 DEF SignFails
  <1>11. CASE RootCAs(c)
    <2>1. hpc[c] = "roots" /\ hpc' = [hpc EXCEPT ![c] = "respond"] /\ answer' = answer
      BY <1>11 DEF RootCAs, Goto
    <2>2. "respond" \in Labels /\ Stage("respond") = Stage("roots")
      BY DEF Labels, Stage
    <2> QED BY <1>3, <2>1, <2>2, Zenon
  <1>12. CASE RootCAsNil(c)
    BY <1>2, <1>12 DEF RootCAsNil
  <1>13. CASE Respond(c)
    <2>1. CASE ~Verifies(c)
      BY <1>2, <1>13, <2>1 DEF Respond
    <2>2. CASE Verifies(c)
      <3>1. /\ hpc[c] = "respond" /\ hpc' = [hpc EXCEPT ![c] = "idle"]
            /\ answer' = [answer EXCEPT ![c] = [code |-> "OK", ca |-> signed[c], roots |-> snapshot[c]]]
        BY <1>13, <2>2 DEF Respond, Finish, LastEntry
      <3>2. snapshot[c] \in SUBSET CAs /\ signed[c] \in snapshot[c]
        BY <2>2 DEF Verifies, TypeOK
      <3>3. "idle" \in Labels /\ Stage("idle") = "none" /\ Stage("respond") = "authorized"
        BY DEF Labels, Stage
      <3>4. Pending' = [Pending EXCEPT ![c] = "none"] /\ Pending[c] = "authorized"
        BY <1>s, <1>t, <3>1, <3>3, PendingMoves, Zenon
      <3>5. Service!Issue(c, signed[c], snapshot[c])
        BY <1>p, <3>1, <3>2, <3>4 DEF Service!Issue, Service!Answer
      <3> QED BY <3>2, <3>5 DEF ClientStep
    <2> QED BY <2>1, <2>2
  <1> QED
    BY <1>4, <1>5, <1>6, <1>7, <1>8, <1>9, <1>10, <1>11, <1>12, <1>13 DEF AnyHandlerStep

\* Every step of the server is a step of the service, or hidden.
LEMMA ServiceStep == TypeOK /\ LifeInv /\ [Next]_vars => [Service!Next]_(Service!vars)
  <1> SUFFICES ASSUME TypeOK, LifeInv, [Next]_vars
               PROVE  Service!Next \/ UNCHANGED ServiceVars
    BY Zenon DEF ServiceVars, Service!vars
  <1>1. ASSUME UNCHANGED <<serverVars, handlerVars>> PROVE UNCHANGED ServiceVars
    BY <1>1 DEF serverVars, handlerVars, ServiceVars, Phase, Pending
  <1>2. CASE Environment
    <2>1. UNCHANGED <<serverVars, handlerVars>>
      BY <1>2 DEF Environment, ChangeIssuer, ChangeRootCAs, SetConfig, CancelContext
    <2> QED BY <1>1, <2>1
  <1>3. CASE Start \/ Shutdown
    <2>1. UNCHANGED handlerVars
      BY <1>3 DEF Start, GetConfig, Listen, SetReady, ServeReturns, Shutdown, ClearReady,
                 CallGracefulStop, GracefulStop
    <2> QED BY <1>3, <2>1, ServerServes, Zenon DEF Service!Next
  <1>4. ASSUME NEW c \in Clients, AnyHandlerStep(c), UNCHANGED serverVars
        PROVE  Service!Next \/ UNCHANGED ServiceVars
    <2>1. ClientStep(c)
      BY <1>4, HandlerServes
    <2> QED BY <2>1, Zenon DEF ClientStep, Service!Next
  <1>5. ASSUME NEW c \in Clients, NEW r \in Requests, Request(c, r) PROVE Service!Next
    <2>1. /\ hpc[c] = "idle" /\ hpc' = [hpc EXCEPT ![c] = "authenticate"]
          /\ answer' = [answer EXCEPT ![c] = NoAnswer]
      BY <1>5 DEF Request
    <2>2. Phase = "serving" /\ Phase' = Phase
      BY <1>5 DEF Request, Phase, serverVars
    <2>3. "authenticate" \in Labels /\ Stage("authenticate") = "taken" /\ Stage("idle") = "none"
      BY DEF Labels, Stage
    <2>t. hpc \in [Clients -> Labels]
      BY DEF TypeOK
    <2>4. Pending[c] = "none" /\ Pending' = [Pending EXCEPT ![c] = "taken"]
      BY <2>1, <2>3, <2>t, PendingMoves, Zenon
    <2>5. Service!Take(c)
      BY <2>1, <2>2, <2>4 DEF Service!Take, Service!NoAnswer, NoAnswer
    <2> QED BY <2>5, Zenon DEF Service!Next
  <1>6. ASSUME NEW c \in Clients, HandlerStep(c) PROVE Service!Next \/ UNCHANGED ServiceVars
    BY <1>4, <1>6, Zenon DEF HandlerStep, AnyHandlerStep
  <1>7. ASSUME NEW c \in Clients, RootCAsNil(c), UNCHANGED <<serverVars, providerVars, podVars>>
        PROVE  Service!Next \/ UNCHANGED ServiceVars
    BY <1>4, <1>7 DEF AnyHandlerStep
  <1>8. CASE UNCHANGED <<serverVars, providerVars, handlerVars>>
    BY <1>1, <1>8
  <1>9. CASE UNCHANGED vars
    BY <1>1, <1>9 DEF vars
  <1>10. CASE ServeFails
    <2>1. Phase = "serving" /\ Phase' = "stopped" /\ answer' = answer
      BY <1>10 DEF ServeFails, Phase
    <2>2. hpc' = [c \in Clients |-> "idle"]
      BY <1>10 DEF ServeFails
    <2>3. Pending' = [c \in Clients |-> "none"]
      BY <2>2 DEF Pending, Stage
    <2>4. Service!Fail
      BY <2>1, <2>3 DEF Service!Fail
    <2> QED BY <2>4, Zenon DEF Service!Next
  <1> QED BY <1>2, <1>3, <1>5, <1>6, <1>7, <1>8, <1>9, <1>10, Zenon DEF Next

\* The server implements CertificateService, for any clients, requests, CAs and changes.
THEOREM Refinement == Spec => ImplementsService
  <1>1. Init => Service!Init
    <2> SUFFICES ASSUME Init PROVE Service!Init
      OBVIOUS
    <2>1. Phase = "starting"
      BY DEF Init, Phase
    <2>2. Pending = [c \in Clients |-> "none"]
      BY DEF Init, Pending, Stage
    <2>3. answer = [c \in Clients |-> Service!NoAnswer]
      BY DEF Init, Service!NoAnswer, NoAnswer
    <2> QED BY <2>1, <2>2, <2>3 DEF Service!Init
  <1> QED
    BY <1>1, TypeCorrect, LifeInit, LifeStep, ServiceStep, PTL DEF Spec, ImplementsService, Service!Spec
====
