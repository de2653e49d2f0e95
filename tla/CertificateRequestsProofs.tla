---------------------- MODULE CertificateRequestsProofs ----------------------
(* Theorems about CertificateRequests, for streams of any length. *)
EXTENDS CertificateRequests, SequenceTheorems, TLAPS

\* What the call has seen or will receive is at most behind cert-manager: the
\* decision it reads is the one that stands or "pending". No object exists before
\* the call creates it.
Behind ==
    /\ pc = "create" => object = "none"
    /\ seen \in {"pending", decision}
    /\ \A k \in 1..Len(stream) : stream[k] \in {"pending", decision, "Deleted", "other"}

Inv == TypeOK /\ Behind /\ OkMeansIssued /\ LeaksExplained

\* The stream after an event is published, if it is.
LEMMA PublishedStream ==
  ASSUME TypeOK, Behind, NEW e \in {"pending", decision', "Deleted", "other"},
         decision' \in Decisions, decision \in {"pending", decision'}, Published(e)
  PROVE  /\ stream' \in Seq(Decisions \cup {"Deleted", "other"})
         /\ \A k \in 1..Len(stream') : stream'[k] \in {"pending", decision', "Deleted", "other"}
<1>1. CASE watch = "open"
  <2>1. e \in Decisions \cup {"Deleted", "other"} /\ stream' = Append(stream, e)
    BY <1>1 DEF Published, Decisions
  <2>2. /\ Append(stream, e) \in Seq(Decisions \cup {"Deleted", "other"})
        /\ Len(Append(stream, e)) = Len(stream) + 1 /\ Len(stream) \in Nat
        /\ \A i \in 1..Len(stream) : Append(stream, e)[i] = stream[i]
        /\ Append(stream, e)[Len(stream) + 1] = e
    BY <2>1, AppendProperties DEF TypeOK
  <2>3. \A k \in 1..Len(stream') : k \in 1..Len(stream) \/ k = Len(stream) + 1
    BY <2>1, <2>2
  <2>. QED
    BY <2>1, <2>2, <2>3 DEF Behind
<1>2. CASE watch # "open"
  BY <1>2 DEF Published, TypeOK, Behind
<1>. QED
  BY <1>1, <1>2

\* Returning from Sign keeps the invariant if what it returns is justified.
LEMMA ReturnKeeps ==
  ASSUME Inv, NEW r \in {"ok", "error"}, Return(r), r = "ok" => decision = "issued"
  PROVE  Inv'
BY DEF Inv, TypeOK, Behind, OkMeansIssued, LeaksExplained, Return, SpawnCleanup

\* Every step of the call keeps the invariant.
LEMMA SignKeeps ==
  ASSUME Inv, Sign
  PROVE  Inv'
<1>. USE DEF Inv, TypeOK, Behind, OkMeansIssued, LeaksExplained
<1>1. ASSUME Create \/ CreateFails PROVE Inv'
  <2>1. TypeOK'
    BY <1>1, Zenon DEF Create, CreateFails
  <2>2. Behind' /\ OkMeansIssued'
    BY <1>1 DEF Create, CreateFails
  <2>3. LeaksExplained'
    <3>1. pc' = "watch" \/ object' # "stored" \/ orphaned' = TRUE
      BY <1>1 DEF Create, CreateFails
    <3>. QED
      BY <3>1
  <2>. QED
    BY <2>1, <2>2, <2>3
<1>2. ASSUME Watch PROVE Inv'
  <2>1. stream' \in {<<>>, <<decision>>}
    BY <1>2 DEF Watch
  <2>2. /\ stream' \in Seq(Decisions \cup {"Deleted", "other"})
        /\ \A k \in 1..Len(stream') : stream'[k] \in {"pending", decision, "Deleted", "other"}
    <3>1. CASE stream' = <<>>
      BY <3>1
    <3>2. CASE stream' = <<decision>>
      <4>1. decision \in Decisions \cup {"Deleted", "other"}
        OBVIOUS
      <4>. QED
        BY <3>2, <4>1
    <3>. QED
      BY <2>1, <3>1, <3>2
  <2>. QED
    BY <1>2, <2>2 DEF Watch
<1>3. ASSUME Get PROVE Inv'
  BY <1>3 DEF Get
<1>4. ASSUME RequestFails \/ ReceiveEnds PROVE Inv'
  BY <1>4, ReturnKeeps DEF RequestFails, ReceiveEnds
<1>5. ASSUME Inspect PROVE Inv'
  <2>1. CASE Outcome = "none"
    BY <1>5, <2>1 DEF Inspect
  <2>2. CASE Outcome # "none"
    <3>1. Outcome \in {"ok", "error"} /\ (Outcome = "ok" => seen = "issued")
      BY <2>2 DEF Outcome, Decisions
    <3>. QED
      BY <1>5, <2>2, <3>1, ReturnKeeps DEF Inspect
  <2>. QED
    BY <2>1, <2>2
<1>6. ASSUME Receive PROVE Inv'
  <2>1. /\ stream[1] \in {"pending", decision, "Deleted", "other"}
        /\ stream' \in Seq(Decisions \cup {"Deleted", "other"})
        /\ \A k \in 1..Len(stream') : stream'[k] \in {"pending", decision, "Deleted", "other"}
    BY <1>6, HeadTailProperties, EmptySeq DEF Receive
  <2>2. seen' \in {"pending", decision} /\ pc' \in {"inspect", "receive"}
    BY <1>6, <2>1 DEF Receive, Received
  <2>3. UNCHANGED <<result, object, decision, watch, cleanup, orphaned, alive>>
    BY <1>6 DEF Receive
  <2>. QED
    BY <2>1, <2>2, <2>3 DEF Decisions
<1>. QED
  BY <1>1, <1>2, <1>3, <1>4, <1>5, <1>6 DEF Sign

\* So does every other step.
LEMMA NextKeeps == Inv /\ [Next]_vars => Inv'
<1>. SUFFICES ASSUME Inv, [Next]_vars PROVE Inv'
  OBVIOUS
<1>. USE DEF Inv, TypeOK, Behind, OkMeansIssued, LeaksExplained
<1>1. ASSUME Cleanup PROVE Inv'
  BY <1>1 DEF Cleanup
<1>2. ASSUME NEW v \in Decisions, Decide(v) PROVE Inv'
  <2>1. /\ stream' \in Seq(Decisions \cup {"Deleted", "other"})
        /\ \A k \in 1..Len(stream') : stream'[k] \in {"pending", decision', "Deleted", "other"}
    BY <1>2, PublishedStream DEF Decide
  <2>. QED
    BY <1>2, <2>1 DEF Decide
<1>3. ASSUME DeleteByOther \/ SendOther PROVE Inv'
  <2>1. /\ stream' \in Seq(Decisions \cup {"Deleted", "other"})
        /\ \A k \in 1..Len(stream') : stream'[k] \in {"pending", decision', "Deleted", "other"}
    BY <1>3, PublishedStream DEF DeleteByOther, SendOther
  <2>. QED
    BY <1>3, <2>1 DEF DeleteByOther, SendOther
<1>4. ASSUME NEW k \in 0..Len(stream), CloseWatch(k) PROVE Inv'
  <2>1. /\ SubSeq(stream, 1, k) \in Seq(Decisions \cup {"Deleted", "other"})
        /\ Len(SubSeq(stream, 1, k)) = k
        /\ \A j \in 1..k : SubSeq(stream, 1, k)[j] = stream[j]
    BY <1>4, SubSeqProperties
  <2>. QED
    BY <1>4, <2>1 DEF CloseWatch
<1>5. ASSUME Crash \/ UNCHANGED vars PROVE Inv'
  BY <1>5, Zenon DEF Crash, vars
<1>. QED
  BY <1>1, <1>2, <1>3, <1>4, <1>5, SignKeeps DEF Next

\* The inductive invariant holds throughout.
LEMMA SignInvariant == Spec => []Inv
<1>1. Init => Inv
  <2>0. Init => stream \in Seq(Decisions \cup {"Deleted", "other"})
    BY DEF Init
  <2>1. Init => TypeOK
    BY <2>0, Zenon DEF Init, TypeOK, Decisions
  <2>2. Init => Behind /\ OkMeansIssued
    BY DEF Init, Behind, OkMeansIssued
  <2>3. Init => LeaksExplained
    BY DEF Init, LeaksExplained
  <2>. QED
    BY <2>1, <2>2, <2>3 DEF Inv
<1>. QED
  BY <1>1, NextKeeps, PTL DEF Spec

\* The variables keep their types: the watch channel only ever carries events of
\* the one CertificateRequest that Sign created, and events of other kinds.
THEOREM SignTypeCorrect == Spec => []TypeOK
<1>1. Inv => TypeOK
  BY DEF Inv
<1>. QED
  BY <1>1, SignInvariant, PTL

\* Sign returns a certificate only when the CertificateRequest was issued, however
\* far the events it has read are behind the object, and whatever the API server
\* delivers, loses or cuts off.
THEOREM OkIsIssued == Spec => []OkMeansIssued
<1>1. Inv => OkMeansIssued
  BY DEF Inv
<1>. QED
  BY <1>1, SignInvariant, PTL

\* No path out of Sign forgets the CertificateRequest it created: what is left
\* behind is explained by the preserve flag, a failed deletion or a crash.
THEOREM LeaksAreExplained == Spec => []LeaksExplained
<1>1. Inv => LeaksExplained
  BY DEF Inv
<1>. QED
  BY <1>1, SignInvariant, PTL
====
