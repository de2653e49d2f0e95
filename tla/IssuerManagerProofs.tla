------------------------- MODULE IssuerManagerProofs -------------------------
(* Theorems about IssuerManager, for every value of its constants. *)
EXTENDS IssuerManager, SequenceTheorems, TLAPS

\* Every event type tells whether the ConfigMap exists, and the handlers run
\* only on events that report a change.
EventOK(e) == e.type # "Other" => (e.type = "Deleted" <=> e.object = Absent)
EventsOK ==
    /\ EventOK(event)
    /\ \A k \in 1..Len(stream) : EventOK(stream[k])
    /\ wpc = "acquire" => event.type # "Other"

\* The inductive invariant behind AppliedWhenCaughtUp. While a watch is open the
\* last change in the stream, or else the one being handled, or else the active
\* issuer, reflects the ConfigMap; and a watch is made anew, after the first,
\* only because one broke.
Applied ==
    /\ configMap \in Issuers => activeIssuerRef = configMap
    /\ configMap = Absent /\ drops = 0 => activeIssuerRef = originalIssuerRef
NoChangeQueued == stream = <<>> \/ stream[Len(stream)].type = "Other"
StreamInv ==
    /\ watch = "open" =>
           /\ wpc \notin {"connect", "stopped"}
           /\ NoChangeQueued => /\ Len(stream) <= 1
                                /\ IF wpc = "acquire" THEN event.object = configMap ELSE Applied
           /\ ~NoChangeQueued => stream[Len(stream)].object = configMap
    /\ watch = "broken" => drops > 0 \/ ctxDone
    /\ wpc = "connect" /\ drops = 0 /\ ~ctxDone => activeIssuerRef = originalIssuerRef

\* With an issuer given at startup nobody ever waits for one: no subscription is
\* made after Init and none is closed, so the list never changes.
StaticInv ==
    originalIssuerRef # NoIssuer =>
        /\ activeIssuerRef # NoIssuer
        /\ ppc \notin {"subscribe", "wait", "close"}
        /\ closed = {}
        /\ issuerChangeSubscriptions \in {<<>>, <<IstiodCertSubscription>>}
        /\ \/ visit = 1 /\ filtered = <<>>
           \/ visit = Len(issuerChangeSubscriptions) + 1 /\ filtered = issuerChangeSubscriptions
        /\ \A g \in spawned : g.i <= Len(issuerChangeSubscriptions)
        /\ ~panicked

\* The provisioner's subscription is the first of every list and of no other
\* place, and is never closed.
FirstIs(s) == s # <<>> /\ s[1] = IstiodCertSubscription
OnlyFirst(s) == \A k \in 1..Len(s) : k > 1 => s[k] # IstiodCertSubscription
AddressInv ==
    IstiodCertEnabled =>
        /\ FirstIs(issuerChangeSubscriptions) /\ OnlyFirst(issuerChangeSubscriptions)
        /\ visit > 1 => FirstIs(filtered)
        /\ visit = 1 => filtered = <<>>
        /\ OnlyFirst(filtered)
        /\ IstiodCertSubscription \notin closed
        /\ ppc \in {"wait", "close"} => psub # IstiodCertSubscription
        /\ IstiodCertAddressed

-----------------------------------------------------------------------------

\* handleOriginalIssuerRef yields an issuerRef or nil.
LEMMA OriginalType == originalIssuerRef \in Refs
BY IssuersAssumption DEF originalIssuerRef, Refs

\* The initial state is well typed, and its events are consistent.
LEMMA InitType == Init => TypeOK /\ EventsOK
<1>. SUFFICES ASSUME Init PROVE TypeOK /\ EventsOK
  OBVIOUS
<1>1. TypeOK
  <2>1. event \in Events
    BY DEF Init, NoEvent, Events, EventTypes, ConfigMaps
  <2>2. /\ signing \in [Callers -> Refs] /\ notice \in Refs /\ activeIssuerRef \in Refs
    BY OriginalType DEF Init, Refs
  <2>3. issuerChangeSubscriptions \in Seq(Nat) /\ filtered \in Seq(Nat) /\ stream \in Seq(Events)
    BY OptionsAssumption DEF Init, IstiodCertSubscription
  <2>4. wpc \in {"connect", "stopped"}
    BY OptionsAssumption DEF Init
  <2>5. /\ visit \in Nat /\ visit > 0 /\ notices \in Nat /\ psub \in Nat /\ attempts \in Nat
        /\ edits \in Nat /\ drops \in Nat
    BY DEF Init
  <2>6. /\ configMap \in ConfigMaps /\ watch = "none" /\ closed = {} /\ ppc = "check"
        /\ spawned = {} /\ sending = {}
        /\ serving = FALSE /\ ctxDone = FALSE /\ panicked = FALSE
    BY DEF Init
  <2>. QED
    BY <2>1, <2>2, <2>3, <2>4, <2>5, <2>6, Zenon DEF TypeOK
<1>2. EventsOK
  BY DEF Init, EventsOK, EventOK, NoEvent
<1>. QED
  BY <1>1, <1>2

\* What the API server and the main context do keeps types and events.
LEMMA EnvironmentType ==
  ASSUME TypeOK, EventsOK, Environment
  PROVE  TypeOK' /\ EventsOK'
<1>. USE DEF TypeOK, EventsOK, EventOK, bounds, apiVars, watcherVars, issuerVars, subVars,
             notifyVars, sendVars, providerVars
<1>1. ASSUME NEW v \in ConfigMaps, EditConfigMap(v) PROVE TypeOK' /\ EventsOK'
  <2>1. ChangeEvent(v) \in Events
    BY DEF ChangeEvent, Events, EventTypes
  <2>2. EventOK(ChangeEvent(v))
    BY DEF ChangeEvent, EventOK
  <2>3. stream' = stream \/ stream' = Append(stream, ChangeEvent(v))
    BY <1>1 DEF EditConfigMap
  <2>4. stream' \in Seq(Events) /\ \A k \in 1..Len(stream') : EventOK(stream'[k])
    <3>. HIDE DEF EventOK
    <3>1. CASE stream' = stream
      BY <3>1
    <3>2. CASE stream' = Append(stream, ChangeEvent(v))
      <4>1. stream' \in Seq(Events) /\ Len(stream') = Len(stream) + 1
        BY <2>1, <3>2
      <4>2. ASSUME NEW k \in 1..Len(stream') PROVE EventOK(stream'[k])
        <5>1. CASE k = Len(stream) + 1
          BY <2>1, <2>2, <3>2, <5>1
        <5>2. CASE k \in 1..Len(stream)
          BY <2>1, <3>2, <5>2
        <5>. QED
          BY <4>1, <5>1, <5>2
      <4>. QED
        BY <4>1, <4>2
    <3>. QED
      BY <2>3, <3>1, <3>2
  <2>. QED
    BY <1>1, <2>4 DEF EditConfigMap
<1>2. ASSUME SendOtherEvent PROVE TypeOK' /\ EventsOK'
  BY <1>2 DEF SendOtherEvent, Events, EventTypes
<1>3. ASSUME NEW k \in 0..Len(stream), BreakWatch(k) PROVE TypeOK' /\ EventsOK'
  <2>1. /\ SubSeq(stream, 1, k) \in Seq(Events)
        /\ Len(SubSeq(stream, 1, k)) = k
        /\ \A j \in 1..k : SubSeq(stream, 1, k)[j] = stream[j]
    BY <1>3, SubSeqProperties
  <2>. QED
    BY <1>3, <2>1 DEF BreakWatch
<1>4. ASSUME CancelContext PROVE TypeOK' /\ EventsOK'
  BY <1>4 DEF CancelContext
<1>. QED
  BY <1>1, <1>2, <1>3, <1>4, Zenon DEF Environment

\* So do the watcher, its handlers and notifyIssuerChange.
LEMMA WatcherType ==
  ASSUME TypeOK, EventsOK, Watcher
  PROVE  TypeOK' /\ EventsOK'
<1>. USE DEF TypeOK, EventsOK, EventOK, bounds, apiVars, watcherVars, issuerVars, subVars,
             notifyVars, sendVars, providerVars
<1>0. NoEvent \in Events
  BY DEF NoEvent, Events, EventTypes, ConfigMaps
<1>1. ASSUME ConnectWatch PROVE TypeOK' /\ EventsOK'
  <2>1. /\ InitialEvents \in Seq(Events)
        /\ \A k \in 1..Len(InitialEvents) : EventOK(InitialEvents[k])
    <3>1. CASE configMap = Absent
      BY <3>1 DEF InitialEvents
    <3>2. CASE configMap # Absent
      <4>. DEFINE e == [type |-> "Added", object |-> configMap]
      <4>1. e \in Events /\ EventOK(e)
        BY <3>2 DEF Events, EventTypes
      <4>2. InitialEvents = <<e>>
        BY <3>2 DEF InitialEvents
      <4>. HIDE DEF e
      <4>. QED
        BY <4>1, <4>2
    <3>. QED
      BY <3>1, <3>2
  <2>. QED
    BY <1>1, <2>1 DEF ConnectWatch
<1>2. ASSUME ReceiveEvent PROVE TypeOK' /\ EventsOK'
  <2>1. /\ Head(stream) \in Events /\ EventOK(Head(stream))
        /\ Tail(stream) \in Seq(Events)
        /\ \A k \in 1..Len(Tail(stream)) : EventOK(Tail(stream)[k])
    BY <1>2 DEF ReceiveEvent
  <2>. QED
    BY <1>2, <2>1 DEF ReceiveEvent
<1>3. ASSUME ReceiveClosed PROVE TypeOK' /\ EventsOK'
  BY <1>3 DEF ReceiveClosed
<1>4. ASSUME StopWatcher PROVE TypeOK' /\ EventsOK'
  BY <1>4 DEF StopWatcher
<1>5. ASSUME handleRuntimeConfigIssuerChange PROVE TypeOK' /\ EventsOK'
  <2>1. ~IncompleteData => event.object \in Issuers
    BY <1>5 DEF handleRuntimeConfigIssuerChange, IncompleteData, Events, ConfigMaps
  <2>2. activeIssuerRef' \in Refs /\ notice' \in Refs
    BY <1>5, <2>1 DEF handleRuntimeConfigIssuerChange, notifyIssuerChange, Refs
  <2>3. event' \in Events /\ EventOK(event') /\ wpc' \in {"select", "notify"}
    BY <1>0, <1>5 DEF handleRuntimeConfigIssuerChange, notifyIssuerChange, NoEvent
  <2>4. visit' \in Nat /\ visit' > 0 /\ filtered' \in Seq(Nat) /\ notices' \in Nat
    <3>1. CASE IncompleteData
      BY <1>5, <3>1 DEF handleRuntimeConfigIssuerChange
    <3>2. CASE ~IncompleteData
      BY <1>5, <3>2 DEF handleRuntimeConfigIssuerChange, notifyIssuerChange
    <3>. QED
      BY <3>1, <3>2
  <2>5. UNCHANGED <<apiVars, signing, subVars, sendVars, providerVars, ctxDone, panicked>>
    BY <1>5 DEF handleRuntimeConfigIssuerChange
  <2>. QED
    BY <2>2, <2>3, <2>4, <2>5
<1>6. ASSUME handleRuntimeConfigIssuerDeletion PROVE TypeOK' /\ EventsOK'
  <2>1. activeIssuerRef' \in Refs /\ notice' \in Refs
    BY <1>6, OriginalType
    DEF handleRuntimeConfigIssuerDeletion, RevertedIssuer, notifyIssuerChange, Refs
  <2>2. event' \in Events /\ EventOK(event') /\ wpc' \in {"select", "notify"}
    BY <1>0, <1>6 DEF handleRuntimeConfigIssuerDeletion, notifyIssuerChange, NoEvent
  <2>3. visit' \in Nat /\ visit' > 0 /\ filtered' \in Seq(Nat) /\ notices' \in Nat
    <3>1. CASE originalIssuerRef = NoIssuer
      BY <1>6, <3>1 DEF handleRuntimeConfigIssuerDeletion
    <3>2. CASE originalIssuerRef # NoIssuer
      BY <1>6, <3>2 DEF handleRuntimeConfigIssuerDeletion, notifyIssuerChange
    <3>. QED
      BY <3>1, <3>2
  <2>5. UNCHANGED <<apiVars, signing, subVars, sendVars, providerVars, ctxDone, panicked>>
    BY <1>6 DEF handleRuntimeConfigIssuerDeletion
  <2>. QED
    BY <2>1, <2>2, <2>3, <2>5
<1>7. ASSUME NotifyOne PROVE TypeOK' /\ EventsOK'
  <2>1. [n |-> notices, i |-> visit, ref |-> notice] \in Spawned
    BY DEF Spawned
  <2>2. issuerChangeSubscriptions[visit] \in Nat
    BY <1>7 DEF NotifyOne
  <2>3. filtered' \in Seq(Nat) /\ visit' \in Nat /\ visit' > 0
    <3>1. visit' \in Nat /\ visit' > 0
      BY <1>7 DEF NotifyOne
    <3>2. filtered' \in {filtered, Append(filtered, issuerChangeSubscriptions[visit])}
      BY <1>7 DEF NotifyOne
    <3>3. Append(filtered, issuerChangeSubscriptions[visit]) \in Seq(Nat)
      BY <2>2
    <3>. QED
      BY <3>1, <3>2, <3>3, Zenon
  <2>4. spawned' \in SUBSET Spawned
    BY <1>7, <2>1 DEF NotifyOne
  <2>5. UNCHANGED <<apiVars, watcherVars, issuerVars, subVars, notice, notices, sending,
                    providerVars, ctxDone, panicked>>
    BY <1>7 DEF NotifyOne
  <2>. QED
    BY <2>3, <2>4, <2>5
<1>8. ASSUME NotifyDone PROVE TypeOK' /\ EventsOK'
  BY <1>8 DEF NotifyDone, Kept, Refs
<1>. QED
  BY <1>1, <1>2, <1>3, <1>4, <1>5, <1>6, <1>7, <1>8 DEF Watcher

\* So do the steps of the provider's goroutine.
LEMMA ProviderType ==
  ASSUME TypeOK, EventsOK, ProviderRun
  PROVE  TypeOK' /\ EventsOK'
<1>. USE DEF TypeOK, EventsOK, EventOK, bounds, apiVars, watcherVars, issuerVars, subVars,
             notifyVars, sendVars, providerVars
<1>1. ASSUME ProviderCheck PROVE TypeOK' /\ EventsOK'
  BY <1>1 DEF ProviderCheck
<1>2. ASSUME SubscribeIssuerChange PROVE TypeOK' /\ EventsOK'
  <2>1. psub' \in Nat /\ issuerChangeSubscriptions' \in Seq(Nat)
    BY <1>2 DEF SubscribeIssuerChange, Subscribed
  <2>. QED
    BY <1>2, <2>1 DEF SubscribeIssuerChange
<1>3. ASSUME NEW g \in sending, WaitReceive(g) PROVE TypeOK' /\ EventsOK'
  BY <1>3 DEF WaitReceive
<1>4. ASSUME WaitAbandon PROVE TypeOK' /\ EventsOK'
  BY <1>4 DEF WaitAbandon
<1>5. ASSUME CloseSubscription PROVE TypeOK' /\ EventsOK'
  BY <1>5 DEF CloseSubscription
<1>6. ASSUME ProviderSign PROVE TypeOK' /\ EventsOK'
  <2>1. signing' \in [Callers -> Refs]
    BY <1>6, Zenon DEF ProviderSign, BeginSign
  <2>. QED
    BY <1>6, <2>1 DEF ProviderSign, BeginSign
<1>7. ASSUME ProviderNoIssuer PROVE TypeOK' /\ EventsOK'
  <2>1. attempts' \in Nat /\ ppc' \in {"check", "renew"}
    BY <1>7 DEF ProviderNoIssuer, FetchFailed
  <2>. QED
    BY <1>7, <2>1 DEF ProviderNoIssuer
<1>8. ASSUME ProviderFetched PROVE TypeOK' /\ EventsOK'
  <2>1. signing' \in [Callers -> Refs]
    BY <1>8, Zenon DEF ProviderFetched, EndSign, Refs
  <2>. QED
    BY <1>8, <2>1 DEF ProviderFetched, EndSign
<1>9. ASSUME ProviderFailed PROVE TypeOK' /\ EventsOK'
  <2>1. signing' \in [Callers -> Refs]
    BY <1>9, Zenon DEF ProviderFailed, EndSign, Refs
  <2>2. attempts' \in Nat /\ ppc' \in {"check", "renew"}
    BY <1>9 DEF ProviderFailed, FetchFailed
  <2>3. UNCHANGED <<apiVars, watcherVars, activeIssuerRef, subVars, notifyVars, sendVars,
                    psub, serving, ctxDone, panicked>>
    BY <1>9 DEF ProviderFailed, EndSign
  <2>. QED
    BY <2>1, <2>2, <2>3
<1>10. ASSUME ProviderStop PROVE TypeOK' /\ EventsOK'
  BY <1>10, Zenon DEF ProviderStop
<1>. QED
  BY <1>1, <1>2, <1>3, <1>4, <1>5, <1>6, <1>7, <1>8, <1>9, <1>10, Zenon DEF ProviderRun

\* Every step keeps types and events.
LEMMA NextType == TypeOK /\ EventsOK /\ [Next]_vars => TypeOK' /\ EventsOK'
<1>. SUFFICES ASSUME TypeOK, EventsOK, [Next]_vars PROVE TypeOK' /\ EventsOK'
  OBVIOUS
<1>. USE DEF TypeOK, EventsOK, EventOK, bounds, apiVars, watcherVars, issuerVars, subVars,
             notifyVars, sendVars, providerVars
<1>1. ASSUME NEW c \in Clients, ClientSign(c) PROVE TypeOK' /\ EventsOK'
  <2>1. signing' \in [Callers -> Refs]
    BY <1>1, Zenon DEF ClientSign, BeginSign
  <2>. QED
    BY <1>1, <2>1 DEF ClientSign, BeginSign
<1>2. ASSUME NEW c \in Clients, ClientDone(c) PROVE TypeOK' /\ EventsOK'
  <2>1. signing' \in [Callers -> Refs]
    BY <1>2, Zenon DEF ClientDone, EndSign, Refs
  <2>. QED
    BY <1>2, <2>1 DEF ClientDone, EndSign
<1>3. ASSUME NEW g \in spawned, EvaluateChannel(g) PROVE TypeOK' /\ EventsOK'
  <2>1. sending' \in SUBSET Sending
    <3>1. g.n \in Nat /\ g.i \in Nat \ {0} /\ g.ref \in Refs
      BY DEF Spawned
    <3>2. CASE g.i <= Len(issuerChangeSubscriptions)
      <4>1. issuerChangeSubscriptions[g.i] \in Nat
        BY <3>1, <3>2
      <4>2. [n |-> g.n, i |-> g.i, ref |-> g.ref,
             sub |-> issuerChangeSubscriptions[g.i]] \in Sending
        BY <3>1, <4>1 DEF Sending
      <4>. QED
        BY <1>3, <3>2, <4>2 DEF EvaluateChannel
    <3>3. CASE ~(g.i <= Len(issuerChangeSubscriptions))
      BY <1>3, <3>3 DEF EvaluateChannel
    <3>. QED
      BY <3>2, <3>3
  <2>2. panicked' \in BOOLEAN /\ spawned' \in SUBSET Spawned
    BY <1>3, Zenon DEF EvaluateChannel
  <2>3. UNCHANGED <<apiVars, watcherVars, issuerVars, subVars, notifyVars, providerVars, ctxDone>>
    BY <1>3 DEF EvaluateChannel
  <2>. QED
    BY <2>1, <2>2, <2>3
<1>4. ASSUME NEW g \in sending, IstiodCertReceive(g) PROVE TypeOK' /\ EventsOK'
  BY <1>4 DEF IstiodCertReceive
<1>5. ASSUME UNCHANGED vars PROVE TypeOK' /\ EventsOK'
  BY <1>5 DEF vars
<1>. QED
  BY <1>1, <1>2, <1>3, <1>4, <1>5, EnvironmentType, WatcherType, ProviderType, Zenon
  DEF Next, ManagerNext

\* Type correctness: in particular activeIssuerRef is always nil or a complete
\* issuerRef, never what an incomplete or deleted ConfigMap held.
THEOREM TypeCorrect == Spec => [](TypeOK /\ EventsOK)
BY InitType, NextType, PTL DEF Spec

-----------------------------------------------------------------------------
(* The issuer in use. *)

\* What a step can do to the active issuer and to the signings in flight: one
\* signing begins or ends, or, when there is none, the issuer changes.
LEMMA IssuerSteps ==
  ASSUME TypeOK, EventsOK, [Next]_vars
  PROVE  \/ UNCHANGED issuerVars
         \/ \E c \in Callers : BeginSign(c) \/ EndSign(c)
         \/ /\ LockFree /\ UNCHANGED signing
            /\ activeIssuerRef' \in Issuers \cup {originalIssuerRef}
<1>. DEFINE P == \/ UNCHANGED issuerVars
                 \/ \E c \in Callers : BeginSign(c) \/ EndSign(c)
                 \/ /\ LockFree /\ UNCHANGED signing
                    /\ activeIssuerRef' \in Issuers \cup {originalIssuerRef}
<1>. USE DEF issuerVars
<1>1. ASSUME Environment PROVE P
  BY <1>1 DEF Environment, EditConfigMap, SendOtherEvent, BreakWatch, CancelContext
<1>2. ASSUME Watcher PROVE P
  <2>1. ASSUME handleRuntimeConfigIssuerChange PROVE P
    <3>1. ~IncompleteData => event.object \in Issuers
      BY <2>1 DEF handleRuntimeConfigIssuerChange, IncompleteData, TypeOK, EventsOK, EventOK,
                  Events, ConfigMaps
    <3>. QED
      BY <2>1, <3>1 DEF handleRuntimeConfigIssuerChange
  <2>2. ASSUME handleRuntimeConfigIssuerDeletion PROVE P
    BY <2>2 DEF handleRuntimeConfigIssuerDeletion, RevertedIssuer
  <2>. QED
    BY <1>2, <2>1, <2>2
    DEF Watcher, ConnectWatch, ReceiveEvent, ReceiveClosed, StopWatcher, NotifyOne, NotifyDone
<1>3. ASSUME ProviderRun PROVE P
  <2>1. Provider \in Callers
    BY DEF Callers
  <2>. QED
    BY <1>3, <2>1
    DEF ProviderRun, ProviderCheck, SubscribeIssuerChange, WaitReceive, WaitAbandon,
        CloseSubscription, ProviderSign, ProviderNoIssuer, ProviderFetched, ProviderFailed,
        ProviderStop
<1>4. ASSUME NEW c \in Clients, ClientSign(c) \/ ClientDone(c) PROVE P
  BY <1>4 DEF ClientSign, ClientDone, Callers
<1>5. ASSUME NEW g \in spawned, EvaluateChannel(g) PROVE P
  BY <1>5 DEF EvaluateChannel
<1>6. ASSUME NEW g \in sending, IstiodCertReceive(g) PROVE P
  BY <1>6 DEF IstiodCertReceive
<1>7. ASSUME UNCHANGED vars PROVE P
  BY <1>7 DEF vars
<1>. QED
  BY <1>1, <1>2, <1>3, <1>4, <1>5, <1>6, <1>7 DEF Next, ManagerNext

\* The lock keeps every signing in flight on the active issuer.
LEMMA SignersStep ==
  ASSUME TypeOK, EventsOK, SignersUseActiveIssuer, [Next]_vars
  PROVE  SignersUseActiveIssuer'
<1>. USE DEF SignersUseActiveIssuer, TypeOK
<1>1. CASE UNCHANGED issuerVars
  BY <1>1 DEF issuerVars
<1>2. ASSUME NEW c \in Callers, BeginSign(c) PROVE SignersUseActiveIssuer'
  BY <1>2 DEF BeginSign
<1>3. ASSUME NEW c \in Callers, EndSign(c) PROVE SignersUseActiveIssuer'
  BY <1>3 DEF EndSign
<1>4. CASE LockFree /\ UNCHANGED signing
  BY <1>4 DEF LockFree
<1>. QED
  BY <1>1, <1>2, <1>3, <1>4, IssuerSteps

\* Whatever is configured and edited, and however many Sign calls overlap, no
\* Sign returns after the issuer it used was replaced.
THEOREM SignersSafe == Spec => []SignersUseActiveIssuer
<1>1. Init => SignersUseActiveIssuer
  BY DEF Init, SignersUseActiveIssuer
<1>. QED
  BY <1>1, SignersStep, TypeCorrect, PTL DEF Spec

\* The manager implements ActiveIssuer.
THEOREM Refinement == Spec => ImplementsActiveIssuer
<1>1. Init => Abstract!Init
  BY DEF Init, Abstract!Init
<1>2. TypeOK /\ EventsOK /\ [Next]_vars => [Abstract!Next]_(Abstract!vars)
  <2>. SUFFICES ASSUME TypeOK, EventsOK, [Next]_vars PROVE [Abstract!Next]_(Abstract!vars)
    OBVIOUS
  <2>1. CASE UNCHANGED issuerVars
    BY <2>1 DEF issuerVars, Abstract!vars
  <2>2. ASSUME NEW c \in Callers, BeginSign(c) \/ EndSign(c) PROVE Abstract!Next
    BY <2>2 DEF BeginSign, EndSign, Abstract!Next, Abstract!Begin, Abstract!End
  <2>3. ASSUME LockFree, UNCHANGED signing, activeIssuerRef' \in Issuers \cup {originalIssuerRef}
        PROVE  Abstract!Next
    BY <2>3 DEF LockFree, Abstract!Next, Abstract!Change
  <2>. QED
    BY <2>1, <2>2, <2>3, IssuerSteps
<1>. QED
  BY <1>1, <1>2, TypeCorrect, PTL DEF Spec, ImplementsActiveIssuer, Abstract!Spec

-----------------------------------------------------------------------------
(* The watcher keeps up. *)

\* What is appended to the stream is its last element.
LEMMA AppendLast ==
  ASSUME NEW S, NEW s \in Seq(S), NEW e \in S
  PROVE  /\ Append(s, e) # <<>>
         /\ Append(s, e)[Len(Append(s, e))] = e
BY AppendProperties

\* Taking the head off the stream keeps its last element, if any is left.
LEMMA TailLast ==
  ASSUME NEW S, NEW s \in Seq(S), s # <<>>
  PROVE  IF Tail(s) = <<>>
         THEN Len(s) = 1 /\ Head(s) = s[Len(s)]
         ELSE Len(s) > 1 /\ Tail(s)[Len(Tail(s))] = s[Len(s)]
<1>. DEFINE n == Len(s)
            t == Tail(s)
            m == Len(t)
<1>1. n \in Nat \ {0} /\ t \in Seq(S) /\ m = n - 1 /\ \A i \in 1..m : t[i] = s[i + 1]
  BY HeadTailProperties, EmptySeq
<1>2. t = <<>> => m = 0
  BY EmptySeq, Zenon
<1>3. t # <<>> => m \in Nat \ {0}
  BY <1>1, EmptySeq
<1>4. Head(s) = s[1]
  OBVIOUS
<1>. HIDE DEF n, t, m
<1>5. CASE t = <<>>
  <2>1. n = 1
    BY <1>1, <1>2, <1>5
  <2>. QED
    BY <1>4, <1>5, <2>1 DEF n, t
<1>6. CASE t # <<>>
  <2>1. n > 1 /\ t[m] = s[n]
    BY <1>1, <1>3, <1>6
  <2>. QED
    BY <1>6, <2>1, Zenon DEF n, t, m
<1>. QED
  BY <1>5, <1>6

\* The variables StreamInv depends on.
StreamVars == <<configMap, watch, stream, drops, wpc, event, activeIssuerRef, ctxDone>>

\* Steps that touch none of them keep StreamInv.
LEMMA StreamFrame ==
  ASSUME StreamInv, UNCHANGED StreamVars
  PROVE  StreamInv'
BY DEF StreamInv, StreamVars, NoChangeQueued, Applied

\* The API server's steps keep StreamInv: an edit is queued behind an open watch.
LEMMA EnvironmentStream ==
  ASSUME TypeOK, EventsOK, StreamInv, Environment
  PROVE  StreamInv'
<1>. USE DEF bounds, apiVars, watcherVars, issuerVars
<1>1. ASSUME NEW v \in ConfigMaps, EditConfigMap(v) PROVE StreamInv'
  <2>1. CASE watch = "open"
    <3>1. stream' = Append(stream, ChangeEvent(v)) /\ ChangeEvent(v) \in Events
      BY <1>1, <2>1 DEF EditConfigMap, ChangeEvent, Events, EventTypes
    <3>2. stream' # <<>> /\ stream'[Len(stream')] = ChangeEvent(v)
      <4>1. stream \in Seq(Events)
        BY DEF TypeOK
      <4>. QED
        BY <3>1, <4>1, AppendLast
    <3>3. ~NoChangeQueued' /\ stream'[Len(stream')].object = configMap'
      BY <1>1, <3>2 DEF NoChangeQueued, ChangeEvent, EditConfigMap
    <3>. QED
      BY <1>1, <2>1, <3>3 DEF StreamInv, EditConfigMap
  <2>2. CASE watch # "open"
    BY <1>1, <2>2 DEF StreamInv, EditConfigMap
  <2>. QED
    BY <2>1, <2>2
<1>2. ASSUME SendOtherEvent PROVE StreamInv'
  <2>1. /\ NoChangeQueued /\ NoChangeQueued'
        /\ Len(stream') = 1
        /\ Applied' <=> Applied
    BY <1>2 DEF SendOtherEvent, NoChangeQueued, Applied
  <2>. QED
    BY <1>2, <2>1 DEF SendOtherEvent, StreamInv
<1>3. ASSUME NEW k \in 0..Len(stream), BreakWatch(k) PROVE StreamInv'
  BY <1>3 DEF BreakWatch, StreamInv, TypeOK
<1>4. ASSUME CancelContext PROVE StreamInv'
  <2>1. (NoChangeQueued' <=> NoChangeQueued) /\ (Applied' <=> Applied)
    BY <1>4 DEF CancelContext, NoChangeQueued, Applied
  <2>. QED
    BY <1>4, <2>1 DEF CancelContext, StreamInv
<1>. QED
  BY <1>1, <1>2, <1>3, <1>4 DEF Environment

\* The watcher's steps keep StreamInv.
LEMMA WatcherStream ==
  ASSUME TypeOK, EventsOK, StreamInv, Watcher
  PROVE  StreamInv'
<1>. USE DEF bounds, apiVars, watcherVars, issuerVars
<1>1. ASSUME ConnectWatch PROVE StreamInv'
  <2>1. CASE configMap = Absent
    BY <1>1, <2>1, IssuersAssumption, SMTT(30)
    DEF ConnectWatch, InitialEvents, StreamInv, NoChangeQueued, Applied
  <2>2. CASE configMap # Absent
    <3>1. stream' = <<[type |-> "Added", object |-> configMap]>>
      BY <1>1, <2>2 DEF ConnectWatch, InitialEvents
    <3>2. ~NoChangeQueued' /\ stream'[Len(stream')].object = configMap'
      BY <1>1, <3>1 DEF NoChangeQueued, ConnectWatch
    <3>. QED
      BY <1>1, <3>2 DEF StreamInv, ConnectWatch
  <2>. QED
    BY <2>1, <2>2
<1>2. ASSUME ReceiveEvent PROVE StreamInv'
  <2>1. CASE Tail(stream) = <<>>
    <3>1. Len(stream) = 1 /\ Head(stream) = stream[Len(stream)]
      BY <1>2, <2>1, TailLast, Zenon DEF ReceiveEvent, TypeOK
    <3>2. NoChangeQueued' /\ Len(stream') = 0 /\ (Applied' <=> Applied)
      BY <1>2, <2>1, Zenon DEF ReceiveEvent, NoChangeQueued, Applied
    <3>3. CASE Head(stream).type = "Other"
      <4>1. NoChangeQueued
        BY <3>1, <3>3 DEF NoChangeQueued
      <4>. QED
        BY <1>2, <3>2, <3>3, <4>1 DEF ReceiveEvent, StreamInv
    <3>4. CASE Head(stream).type # "Other"
      <4>1. ~NoChangeQueued
        BY <1>2, <3>1, <3>4 DEF NoChangeQueued, ReceiveEvent
      <4>2. event' = Head(stream) /\ wpc' = "acquire" /\ UNCHANGED <<watch, configMap>>
        BY <1>2, <3>4 DEF ReceiveEvent
      <4>3. watch = "open" => event'.object = configMap
        BY <3>1, <4>1, <4>2 DEF StreamInv
      <4>4. UNCHANGED <<drops, ctxDone>>
        BY <1>2 DEF ReceiveEvent
      <4>. QED
        BY <3>2, <4>2, <4>3, <4>4, SMTT(30) DEF StreamInv
    <3>. QED
      BY <3>3, <3>4
  <2>2. CASE Tail(stream) # <<>>
    <3>1. /\ Len(stream) > 1 /\ stream' # <<>>
          /\ stream'[Len(stream')] = stream[Len(stream)]
      BY <1>2, <2>2, TailLast DEF ReceiveEvent, TypeOK
    <3>2. (NoChangeQueued' <=> NoChangeQueued) /\ (Applied' <=> Applied)
      BY <1>2, <3>1 DEF ReceiveEvent, NoChangeQueued, Applied
    <3>3. watch = "open" => ~NoChangeQueued
      BY <3>1 DEF StreamInv, TypeOK
    <3>. QED
      BY <1>2, <3>1, <3>2, <3>3 DEF ReceiveEvent, StreamInv
  <2>. QED
    BY <2>1, <2>2
<1>3. ASSUME ReceiveClosed PROVE StreamInv'
  BY <1>3, SMTT(30) DEF ReceiveClosed, StreamInv, TypeOK
<1>4. ASSUME StopWatcher PROVE StreamInv'
  BY <1>4 DEF StopWatcher, StreamInv
<1>5. ASSUME handleRuntimeConfigIssuerChange PROVE StreamInv'
  <2>1. /\ NoChangeQueued' <=> NoChangeQueued
        /\ UNCHANGED <<configMap, watch, stream, drops, ctxDone>>
        /\ wpc = "acquire" /\ wpc' \in {"select", "notify"}
    BY <1>5 DEF handleRuntimeConfigIssuerChange, notifyIssuerChange, NoChangeQueued
  <2>2. event.object = configMap => Applied'
    BY <1>5, IssuersAssumption
    DEF handleRuntimeConfigIssuerChange, IncompleteData, Applied, TypeOK, EventsOK, EventOK
  <2>. QED
    BY <2>1, <2>2, Zenon DEF StreamInv
<1>6. ASSUME handleRuntimeConfigIssuerDeletion PROVE StreamInv'
  <2>1. /\ NoChangeQueued' <=> NoChangeQueued
        /\ UNCHANGED <<configMap, watch, stream, drops, ctxDone>>
        /\ wpc = "acquire" /\ wpc' \in {"select", "notify"}
    BY <1>6 DEF handleRuntimeConfigIssuerDeletion, notifyIssuerChange, NoChangeQueued
  <2>2. event.object = configMap => Applied'
    BY <1>6, IssuersAssumption, Zenon
    DEF handleRuntimeConfigIssuerDeletion, RevertedIssuer, Applied, EventsOK, EventOK
  <2>. QED
    BY <2>1, <2>2, Zenon DEF StreamInv
<1>7. ASSUME NotifyOne PROVE StreamInv'
  BY <1>7, StreamFrame DEF NotifyOne, StreamVars
<1>8. ASSUME NotifyDone PROVE StreamInv'
  <2>1. (NoChangeQueued' <=> NoChangeQueued) /\ (Applied' <=> Applied)
    BY <1>8 DEF NotifyDone, NoChangeQueued, Applied
  <2>. QED
    BY <1>8, <2>1, Zenon DEF NotifyDone, StreamInv
<1>. QED
  BY <1>1, <1>2, <1>3, <1>4, <1>5, <1>6, <1>7, <1>8 DEF Watcher

\* Every step keeps StreamInv.
LEMMA StreamStep ==
  ASSUME TypeOK, EventsOK, StreamInv, [Next]_vars
  PROVE  StreamInv'
<1>. USE DEF bounds, apiVars, watcherVars, issuerVars, StreamVars
<1>1. ASSUME ProviderRun PROVE StreamInv'
  BY <1>1, StreamFrame, Zenon
  DEF ProviderRun, ProviderCheck, SubscribeIssuerChange, WaitReceive, WaitAbandon,
      CloseSubscription, ProviderSign, ProviderNoIssuer, ProviderFetched, ProviderFailed,
      ProviderStop, BeginSign, EndSign
<1>2. ASSUME NEW c \in Clients, ClientSign(c) \/ ClientDone(c) PROVE StreamInv'
  BY <1>2, StreamFrame, Zenon DEF ClientSign, ClientDone, BeginSign, EndSign
<1>3. ASSUME NEW g \in spawned, EvaluateChannel(g) PROVE StreamInv'
  BY <1>3, StreamFrame DEF EvaluateChannel
<1>4. ASSUME NEW g \in sending, IstiodCertReceive(g) PROVE StreamInv'
  BY <1>4, StreamFrame DEF IstiodCertReceive
<1>5. ASSUME UNCHANGED vars PROVE StreamInv'
  BY <1>5, StreamFrame DEF vars
<1>. QED
  BY <1>1, <1>2, <1>3, <1>4, <1>5, EnvironmentStream, WatcherStream DEF Next, ManagerNext

\* A watcher that has handled all that its open watch delivered has put the
\* ConfigMap into force, however often watches broke and events were lost before.
THEOREM CaughtUpSafe == Spec => []AppliedWhenCaughtUp
<1>1. Init => StreamInv
  BY DEF Init, StreamInv
<1>2. StreamInv => AppliedWhenCaughtUp
  BY DEF StreamInv, AppliedWhenCaughtUp, CaughtUp, NoChangeQueued, Applied
<1>. QED
  BY <1>1, <1>2, StreamStep, TypeCorrect, PTL DEF Spec

-----------------------------------------------------------------------------
(* The subscriptions when an issuer was given at startup. *)

\* The variables StaticInv depends on.
StaticVars == <<activeIssuerRef, ppc, closed, issuerChangeSubscriptions, visit, filtered,
                spawned, panicked>>

\* Every step keeps StaticInv: the active issuer is never nil, so Provider.Start
\* never gets to SubscribeIssuerChange.
LEMMA StaticStep ==
  ASSUME originalIssuerRef # NoIssuer, TypeOK, EventsOK, StaticInv, [Next]_vars
  PROVE  StaticInv'
<1>. USE DEF bounds, apiVars, watcherVars, issuerVars, subVars, notifyVars, sendVars, providerVars
<1>0. ASSUME UNCHANGED StaticVars PROVE StaticInv'
  BY <1>0 DEF StaticInv, StaticVars
<1>1. ASSUME Environment PROVE StaticInv'
  BY <1>0, <1>1, Zenon DEF Environment, EditConfigMap, SendOtherEvent, BreakWatch, CancelContext, StaticVars
<1>2. ASSUME ConnectWatch \/ ReceiveEvent \/ ReceiveClosed \/ StopWatcher PROVE StaticInv'
  BY <1>0, <1>2 DEF ConnectWatch, ReceiveEvent, ReceiveClosed, StopWatcher, StaticVars
<1>3. ASSUME handleRuntimeConfigIssuerChange PROVE StaticInv'
  <2>1. CASE IncompleteData
    BY <1>0, <1>3, <2>1 DEF handleRuntimeConfigIssuerChange, StaticVars
  <2>2. CASE ~IncompleteData
    <3>1. event.object \in Issuers
      BY <1>3, <2>2 DEF handleRuntimeConfigIssuerChange, IncompleteData, TypeOK, EventsOK,
                        EventOK, Events, ConfigMaps
    <3>. QED
      BY <1>3, <2>2, <3>1, IssuersAssumption, Zenon
      DEF handleRuntimeConfigIssuerChange, notifyIssuerChange, StaticInv
  <2>. QED
    BY <2>1, <2>2
<1>4. ASSUME handleRuntimeConfigIssuerDeletion PROVE StaticInv'
  BY <1>4 DEF handleRuntimeConfigIssuerDeletion, RevertedIssuer, notifyIssuerChange, StaticInv
<1>5. ASSUME NotifyOne PROVE StaticInv'
  <2>1. /\ issuerChangeSubscriptions = <<IstiodCertSubscription>>
        /\ visit = 1 /\ filtered = <<>>
        /\ visit' = 2 /\ filtered' = issuerChangeSubscriptions
        /\ spawned' = spawned \cup {[n |-> notices, i |-> 1, ref |-> notice]}
    BY <1>5, SMTT(30) DEF NotifyOne, StaticInv, TypeOK
  <2>2. UNCHANGED <<activeIssuerRef, ppc, closed, issuerChangeSubscriptions, panicked>>
    BY <1>5 DEF NotifyOne
  <2>. QED
    BY <2>1, <2>2 DEF StaticInv
<1>6. ASSUME NotifyDone PROVE StaticInv'
  <2>1. filtered = issuerChangeSubscriptions
    BY <1>6 DEF NotifyDone, StaticInv, TypeOK
  <2>2. /\ UNCHANGED <<activeIssuerRef, ppc, closed, issuerChangeSubscriptions, spawned, panicked>>
        /\ visit' = 1 /\ filtered' = <<>>
    BY <1>6, <2>1 DEF NotifyDone, Kept
  <2>. QED
    BY <2>2 DEF StaticInv
<1>7. ASSUME ProviderRun PROVE StaticInv'
  <2>1. UNCHANGED <<activeIssuerRef, closed, issuerChangeSubscriptions, visit, filtered, spawned,
                    panicked>>
    BY <1>7, Zenon
    DEF ProviderRun, ProviderCheck, SubscribeIssuerChange, WaitReceive, WaitAbandon,
        CloseSubscription, ProviderSign, ProviderNoIssuer, ProviderFetched, ProviderFailed,
        ProviderStop, BeginSign, EndSign, StaticInv
  <2>2. ppc' \notin {"subscribe", "wait", "close"}
    BY <1>7, Zenon
    DEF ProviderRun, ProviderCheck, HasIssuerConfig, SubscribeIssuerChange, WaitReceive,
        WaitAbandon, CloseSubscription, ProviderSign, ProviderNoIssuer, ProviderFetched,
        ProviderFailed, FetchFailed, ProviderStop, StaticInv
  <2>. QED
    BY <2>1, <2>2 DEF StaticInv
<1>8. ASSUME NEW c \in Clients, ClientSign(c) \/ ClientDone(c) PROVE StaticInv'
  BY <1>0, <1>8, Zenon DEF ClientSign, ClientDone, BeginSign, EndSign, StaticVars
<1>9. ASSUME NEW g \in spawned, EvaluateChannel(g) PROVE StaticInv'
  <2>1. g.i <= Len(issuerChangeSubscriptions)
    BY DEF StaticInv
  <2>. QED
    BY <1>9, <2>1 DEF EvaluateChannel, StaticInv
<1>10. ASSUME NEW g \in sending, IstiodCertReceive(g) PROVE StaticInv'
  BY <1>0, <1>10 DEF IstiodCertReceive, StaticVars
<1>11. ASSUME UNCHANGED vars PROVE StaticInv'
  BY <1>0, <1>11 DEF vars, StaticVars
<1>. QED
  BY <1>1, <1>2, <1>3, <1>4, <1>5, <1>6, <1>7, <1>8, <1>9, <1>10, <1>11
  DEF Next, ManagerNext, Watcher

\* With an issuer given at startup, no send goroutine of notifyIssuerChange ever
\* indexes the subscriptions out of range, whatever happens to the ConfigMap.
THEOREM StaticNeverPanics ==
  ASSUME originalIssuerRef # NoIssuer
  PROVE  Spec => []NoPanic
<1>1. Init => StaticInv
  BY OptionsAssumption DEF Init, StaticInv
<1>2. StaticInv => NoPanic
  BY DEF StaticInv, NoPanic
<1>. QED
  BY <1>1, <1>2, StaticStep, TypeCorrect, PTL DEF Spec

-----------------------------------------------------------------------------
(* The subscription of the istiod certificate provisioner. *)

\* The variables AddressInv depends on.
AddressVars == <<issuerChangeSubscriptions, closed, visit, filtered, ppc, psub, sending>>

\* Appending another subscription keeps the provisioner's the first and only.
LEMMA AppendAddress ==
  ASSUME NEW s \in Seq(Nat), NEW sub \in Nat, OnlyFirst(s)
  PROVE  /\ FirstIs(s) => FirstIs(Append(s, sub))
         /\ s # <<>> /\ sub # IstiodCertSubscription => OnlyFirst(Append(s, sub))
         /\ s = <<>> => OnlyFirst(Append(s, sub))
         /\ s = <<>> /\ sub = IstiodCertSubscription => FirstIs(Append(s, sub))
<1>1. /\ Append(s, sub) \in Seq(Nat) /\ Append(s, sub) # <<>>
      /\ Len(Append(s, sub)) = Len(s) + 1
      /\ \A k \in 1..Len(s) : Append(s, sub)[k] = s[k]
      /\ Append(s, sub)[Len(s) + 1] = sub
  BY AppendProperties
<1>2. Len(s) \in Nat /\ (s # <<>> => Len(s) > 0) /\ (s = <<>> => Len(s) = 0)
  BY EmptySeq
<1>. DEFINE t == Append(s, sub)
<1>. HIDE DEF t
<1>. QED
  BY <1>1, <1>2 DEF FirstIs, OnlyFirst, t

\* In such a list the provisioner's subscription is found at index 1 and only there.
LEMMA AddressAt ==
  ASSUME NEW s \in Seq(Nat), FirstIs(s), OnlyFirst(s), NEW k \in Nat \ {0}, k <= Len(s)
  PROVE  s[k] \in Nat /\ (k = 1 <=> s[k] = IstiodCertSubscription)
<1>1. k \in 1..Len(s)
  BY LenProperties
<1>. QED
  BY <1>1, ElementOfSeq DEF FirstIs, OnlyFirst

\* Every step keeps AddressInv.
LEMMA AddressStep ==
  ASSUME IstiodCertEnabled, TypeOK, AddressInv, [Next]_vars
  PROVE  AddressInv'
<1>. USE DEF bounds, apiVars, watcherVars, issuerVars, subVars, notifyVars, sendVars, providerVars
<1>0. ASSUME UNCHANGED AddressVars PROVE AddressInv'
  BY <1>0 DEF AddressInv, AddressVars, FirstIs, OnlyFirst, IstiodCertAddressed
<1>1. ASSUME Environment PROVE AddressInv'
  BY <1>0, <1>1, Zenon
  DEF Environment, EditConfigMap, SendOtherEvent, BreakWatch, CancelContext, AddressVars
<1>2. ASSUME ConnectWatch \/ ReceiveEvent \/ ReceiveClosed \/ StopWatcher PROVE AddressInv'
  BY <1>0, <1>2 DEF ConnectWatch, ReceiveEvent, ReceiveClosed, StopWatcher, AddressVars
<1>3. ASSUME handleRuntimeConfigIssuerChange \/ handleRuntimeConfigIssuerDeletion
      PROVE  AddressInv'
  <2>1. /\ UNCHANGED <<issuerChangeSubscriptions, closed, ppc, psub, sending>>
        /\ UNCHANGED <<visit, filtered>> \/ (visit' = 1 /\ filtered' = <<>>)
    BY <1>3 DEF handleRuntimeConfigIssuerChange, handleRuntimeConfigIssuerDeletion,
                notifyIssuerChange
  <2>2. OnlyFirst(<<>>)
    BY DEF OnlyFirst
  <2>. QED
    BY <2>1, <2>2 DEF AddressInv, FirstIs, OnlyFirst, IstiodCertAddressed
<1>4. ASSUME NotifyOne PROVE AddressInv'
  <2>. DEFINE sub == issuerChangeSubscriptions[visit]
  <2>1. /\ UNCHANGED <<issuerChangeSubscriptions, closed, ppc, psub, sending>>
        /\ visit' = visit + 1 /\ visit' > 1
        /\ sub \in Nat
        /\ visit = 1 <=> sub = IstiodCertSubscription
    <3>1. /\ UNCHANGED <<issuerChangeSubscriptions, closed, ppc, psub, sending>>
          /\ visit' = visit + 1 /\ visit <= Len(issuerChangeSubscriptions)
      BY <1>4 DEF NotifyOne
    <3>2. /\ issuerChangeSubscriptions \in Seq(Nat) /\ visit \in Nat \ {0}
          /\ FirstIs(issuerChangeSubscriptions) /\ OnlyFirst(issuerChangeSubscriptions)
      BY DEF TypeOK, AddressInv
    <3>. QED
      BY <3>1, <3>2, AddressAt
  <2>2. filtered' = IF sub \in closed THEN filtered ELSE Append(filtered, sub)
    BY <1>4 DEF NotifyOne
  <2>3. filtered \in Seq(Nat) /\ OnlyFirst(filtered)
        /\ (visit = 1 => filtered = <<>>) /\ (visit # 1 => FirstIs(filtered))
    BY DEF AddressInv, TypeOK
  <2>4. IstiodCertSubscription \notin closed
    BY DEF AddressInv
  <2>. HIDE DEF sub
  <2>5. FirstIs(filtered') /\ OnlyFirst(filtered')
    <3>1. CASE sub \in closed
      BY <2>1, <2>2, <2>3, <2>4, <3>1
    <3>2. CASE sub \notin closed
      BY <2>1, <2>2, <2>3, <3>2, AppendAddress DEF FirstIs
    <3>. QED
      BY <3>1, <3>2
  <2>. QED
    BY <2>1, <2>5 DEF AddressInv, FirstIs, OnlyFirst, IstiodCertAddressed
<1>5. ASSUME NotifyDone PROVE AddressInv'
  <2>1. /\ UNCHANGED <<closed, ppc, psub, sending>>
        /\ issuerChangeSubscriptions' = filtered
        /\ visit' = 1 /\ filtered' = <<>>
    BY <1>5 DEF NotifyDone, Kept
  <2>2. visit > 1
    <3>1. Len(issuerChangeSubscriptions) \in Nat \ {0}
      BY EmptySeq DEF AddressInv, FirstIs, TypeOK
    <3>. QED
      BY <1>5, <3>1 DEF NotifyDone, TypeOK
  <2>3. FirstIs(filtered) /\ OnlyFirst(filtered) /\ OnlyFirst(<<>>)
    BY <2>2 DEF AddressInv, OnlyFirst
  <2>. QED
    BY <2>1, <2>3 DEF AddressInv, FirstIs, OnlyFirst, IstiodCertAddressed
<1>6. ASSUME SubscribeIssuerChange PROVE AddressInv'
  <2>1. /\ UNCHANGED <<closed, visit, filtered, sending>>
        /\ issuerChangeSubscriptions' = Append(issuerChangeSubscriptions, psub')
        /\ psub' \in Nat /\ psub' # IstiodCertSubscription
    BY <1>6 DEF SubscribeIssuerChange, Subscribed, IstiodCertSubscription, TypeOK
  <2>2. FirstIs(issuerChangeSubscriptions') /\ OnlyFirst(issuerChangeSubscriptions')
    BY <2>1, AppendAddress DEF AddressInv, FirstIs, TypeOK
  <2>. QED
    BY <2>1, <2>2 DEF AddressInv, FirstIs, OnlyFirst, IstiodCertAddressed
<1>7. ASSUME ProviderRun, ~SubscribeIssuerChange PROVE AddressInv'
  <2>1. /\ UNCHANGED <<issuerChangeSubscriptions, visit, filtered, psub>>
        /\ closed' \subseteq closed \cup {psub}
        /\ sending' \subseteq sending
        /\ ppc' \in {"wait", "close"} => ppc \in {"wait", "close"}
    BY <1>7, Zenon
    DEF ProviderRun, ProviderCheck, WaitReceive, WaitAbandon, CloseSubscription, ProviderSign,
        ProviderNoIssuer, ProviderFetched, ProviderFailed, FetchFailed, ProviderStop
  <2>2. IstiodCertSubscription \notin closed'
    <3>1. CloseSubscription \/ UNCHANGED closed
      BY <1>7, Zenon
      DEF ProviderRun, ProviderCheck, WaitReceive, WaitAbandon, ProviderSign,
          ProviderNoIssuer, ProviderFetched, ProviderFailed, ProviderStop
    <3>2. CASE CloseSubscription
      BY <3>2 DEF CloseSubscription, AddressInv
    <3>3. CASE UNCHANGED closed
      BY <3>3 DEF AddressInv
    <3>. QED
      BY <3>1, <3>2, <3>3
  <2>. QED
    BY <2>1, <2>2 DEF AddressInv, FirstIs, OnlyFirst, IstiodCertAddressed
<1>8. ASSUME NEW c \in Clients, ClientSign(c) \/ ClientDone(c) PROVE AddressInv'
  BY <1>0, <1>8 DEF ClientSign, ClientDone, AddressVars
<1>9. ASSUME NEW g \in spawned, EvaluateChannel(g) PROVE AddressInv'
  <2>1. g.i \in Nat \ {0}
    BY DEF TypeOK, Spawned
  <2>2. UNCHANGED <<issuerChangeSubscriptions, closed, visit, filtered, ppc, psub>>
    BY <1>9 DEF EvaluateChannel
  <2>3. IstiodCertAddressed'
    <3>1. CASE g.i <= Len(issuerChangeSubscriptions)
      <4>. DEFINE h == [n |-> g.n, i |-> g.i, ref |-> g.ref,
                        sub |-> issuerChangeSubscriptions[g.i]]
      <4>1. sending' = sending \cup {h}
        BY <1>9, <3>1 DEF EvaluateChannel
      <4>2. h.i = 1 <=> h.sub = IstiodCertSubscription
        <5>1. /\ issuerChangeSubscriptions \in Seq(Nat)
              /\ FirstIs(issuerChangeSubscriptions) /\ OnlyFirst(issuerChangeSubscriptions)
          BY DEF TypeOK, AddressInv
        <5>. QED
          BY <2>1, <3>1, <5>1, AddressAt
      <4>. HIDE DEF h
      <4>. QED
        BY <4>1, <4>2 DEF AddressInv, IstiodCertAddressed
    <3>2. CASE ~(g.i <= Len(issuerChangeSubscriptions))
      BY <1>9, <3>2 DEF EvaluateChannel, AddressInv, IstiodCertAddressed
    <3>. QED
      BY <3>1, <3>2
  <2>. QED
    BY <2>2, <2>3 DEF AddressInv, FirstIs, OnlyFirst
<1>10. ASSUME NEW g \in sending, IstiodCertReceive(g) PROVE AddressInv'
  BY <1>10 DEF IstiodCertReceive, AddressInv, FirstIs, OnlyFirst, IstiodCertAddressed
<1>11. ASSUME UNCHANGED vars PROVE AddressInv'
  BY <1>0, <1>11 DEF vars, AddressVars
<1>. QED
  BY <1>1, <1>2, <1>3, <1>4, <1>5, <1>6, <1>7, <1>8, <1>9, <1>10, <1>11
  DEF Next, ManagerNext, Watcher

\* Notifications for the provisioner, and only those, reach its channel, although
\* the send goroutines look the channel up in a list that has changed meanwhile.
THEOREM IstiodCertIsAddressed == Spec => []IstiodCertAddressed
<1>1. CASE IstiodCertEnabled
  <2>1. Init => AddressInv
    BY <1>1 DEF Init, AddressInv, FirstIs, OnlyFirst, IstiodCertAddressed
  <2>2. AddressInv => IstiodCertAddressed
    BY <1>1 DEF AddressInv
  <2>. QED
    BY <1>1, <2>1, <2>2, AddressStep, TypeCorrect, PTL DEF Spec
<1>2. CASE ~IstiodCertEnabled
  <2>1. IstiodCertAddressed
    BY <1>2 DEF IstiodCertAddressed
  <2>. QED
    BY <2>1, PTL
<1>. QED
  BY <1>1, <1>2
====
