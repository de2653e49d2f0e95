------------------------- MODULE CertificateRequests -------------------------
(***************************************************************************)
(* manager.Sign and waitForCertificateRequest (pkg/certmanager): one call, *)
(* from the creation of its CertificateRequest to the goroutine that       *)
(* deletes it, against the API server and cert-manager (external). Calls   *)
(* share nothing: GenerateName gives each its own object.                  *)
(***************************************************************************)
EXTENDS Naturals, Sequences

CONSTANTS PreserveCertificateRequests, MayFail, MaxEvents
ASSUME ConfigAssumption ==
    PreserveCertificateRequests \in BOOLEAN /\ MayFail \in BOOLEAN /\ MaxEvents \in Nat

VARIABLES
    pc,       \* of the call: "create", "watch", "get", "inspect", "receive", "returned"
    result,   \* "none", "ok" or "error"
    seen,     \* the decision in the local copy of the CertificateRequest
    object,   \* "none" (not yet created), "stored" or "deleted"
    decision,  \* what cert-manager wrote: "pending", "denied", "failed" or "issued"
    watch,    \* "none", "open" or "closed"
    stream,   \* undelivered watch events: a decision, "Deleted" or "other"
    cleanup,  \* the deferred goroutine: "none", "running", "done" or "failed"
    orphaned, \* the create call stored an object but returned an error
    alive     \* the process has not crashed

vars == <<pc, result, seen, object, decision, watch, stream, cleanup, orphaned, alive>>

Decisions == {"pending", "denied", "failed", "issued"}

TypeOK ==
    /\ pc \in {"create", "watch", "get", "inspect", "receive", "returned"}
    /\ result \in {"none", "ok", "error"}
    /\ seen \in Decisions /\ decision \in Decisions
    /\ object \in {"none", "stored", "deleted"}
    /\ watch \in {"none", "open", "closed"}
    /\ stream \in Seq(Decisions \cup {"Deleted", "other"})
    /\ cleanup \in {"none", "running", "done", "failed"}
    /\ orphaned \in BOOLEAN /\ alive \in BOOLEAN

Init ==
    /\ pc = "create" /\ result = "none" /\ seen = "pending"
    /\ object = "none" /\ decision = "pending" /\ watch = "none" /\ stream = <<>>
    /\ cleanup = "none" /\ orphaned = FALSE /\ alive = TRUE

-----------------------------------------------------------------------------
(* Sign. Every return after Create runs the deferred functions.             *)

\* The deferred cleanup, when it is registered.
MutantSpawnCleanup(r) == IF r = "ok" THEN "running" ELSE "none"
SpawnCleanup(r) == IF PreserveCertificateRequests THEN "none" ELSE "running"

Return(r) ==
    /\ pc' = "returned" /\ result' = r
    /\ cleanup' = SpawnCleanup(r)
    /\ watch' = IF watch = "open" THEN "closed" ELSE watch
    /\ UNCHANGED <<seen, object, decision, stream, orphaned, alive>>

Create ==
    /\ pc = "create"
    /\ object' = "stored" /\ pc' = "watch"
    /\ UNCHANGED <<result, seen, decision, watch, stream, cleanup, orphaned, alive>>

\* The request fails, before or after the API server stored the object.
CreateFails ==
    /\ pc = "create" /\ MayFail
    /\ pc' = "returned" /\ result' = "error"
    /\ \/ object' = "stored" /\ orphaned' = TRUE
       \/ UNCHANGED <<object, orphaned>>
    /\ UNCHANGED <<seen, decision, watch, stream, cleanup, alive>>

\* A watch without resourceVersion announces the object if it exists.
Watch ==
    /\ pc = "watch"
    /\ pc' = "get" /\ watch' = "open"
    /\ stream' = IF object = "stored" THEN <<decision>> ELSE <<>>
    /\ UNCHANGED <<result, seen, object, decision, cleanup, orphaned, alive>>

Get ==
    /\ pc = "get" /\ object = "stored"
    /\ pc' = "inspect" /\ seen' = decision
    /\ UNCHANGED <<result, object, decision, watch, stream, cleanup, orphaned, alive>>

\* Watch or Get fails, in particular when the call's context has ended; Get
\* also fails when the object is gone.
RequestFails ==
    /\ \/ pc \in {"watch", "get"} /\ MayFail
       \/ pc = "get" /\ object = "deleted"
    /\ Return("error")

MutantOutcomeEager == IF seen \in {"denied", "failed"} THEN "error" ELSE "ok"
MutantOutcomeNoFailed ==
    CASE seen = "denied" -> "error" [] seen = "issued" -> "ok" [] OTHER -> "none"
Outcome ==
    CASE seen \in {"denied", "failed"} -> "error" [] seen = "issued" -> "ok" [] OTHER -> "none"

Inspect ==
    /\ pc = "inspect"
    /\ IF Outcome = "none"
       THEN /\ pc' = "receive"
            /\ UNCHANGED <<result, seen, object, decision, watch, stream, cleanup, orphaned, alive>>
       ELSE Return(Outcome)

\* An event that is not a CertificateRequest is skipped.
MutantReceived == TRUE
Received == stream[1] # "other"

Receive ==
    /\ pc = "receive" /\ stream # <<>> /\ stream[1] # "Deleted"
    /\ stream' = Tail(stream)
    /\ IF Received
       THEN pc' = "inspect" /\ seen' = stream[1]
       ELSE UNCHANGED <<pc, seen>>
    /\ UNCHANGED <<result, object, decision, watch, cleanup, orphaned, alive>>

\* A Deleted event, or the channel closed by the server or by the end of the
\* call's context.
ReceiveEnds ==
    /\ pc = "receive"
    /\ IF stream # <<>> THEN stream[1] = "Deleted" ELSE watch = "closed"
    /\ Return("error")

\* The goroutine's Delete is tried once, with the background context.
Cleanup ==
    /\ cleanup = "running"
    /\ \/ object = "stored" /\ cleanup' = "done" /\ object' = "deleted"
       \/ (MayFail \/ object = "deleted") /\ cleanup' = "failed" /\ UNCHANGED object
    /\ UNCHANGED <<pc, result, seen, decision, watch, stream, orphaned, alive>>

-----------------------------------------------------------------------------
(* cert-manager, other users of the API, the connection, the kubelet.       *)

Published(e) == stream' = IF watch = "open" THEN Append(stream, e) ELSE stream

\* A terminal state is final.
Decide(v) ==
    /\ object = "stored" /\ decision = "pending" /\ v # "pending"
    /\ decision' = v /\ Published(v)
    /\ UNCHANGED <<pc, result, seen, object, watch, cleanup, orphaned, alive>>

DeleteByOther ==
    /\ object = "stored"
    /\ object' = "deleted" /\ Published("Deleted")
    /\ UNCHANGED <<pc, result, seen, decision, watch, cleanup, orphaned, alive>>

SendOther ==
    /\ watch = "open" /\ Len(stream) < MaxEvents
    /\ Published("other")
    /\ UNCHANGED <<pc, result, seen, object, decision, watch, cleanup, orphaned, alive>>

\* The connection breaks, or the call's context ends: later events are lost.
CloseWatch(k) ==
    /\ watch = "open"
    /\ watch' = "closed" /\ stream' = SubSeq(stream, 1, k)
    /\ UNCHANGED <<pc, result, seen, object, decision, cleanup, orphaned, alive>>

Crash ==
    /\ alive /\ alive' = FALSE
    /\ UNCHANGED <<pc, result, seen, object, decision, watch, stream, cleanup, orphaned>>

Sign ==
    alive /\ (Create \/ CreateFails \/ Watch \/ Get \/ RequestFails \/ Inspect \/ Receive \/ ReceiveEnds)

Next ==
    \/ Sign \/ (alive /\ Cleanup)
    \/ (\E v \in Decisions : Decide(v)) \/ DeleteByOther \/ SendOther
    \/ (\E k \in 0..Len(stream) : CloseWatch(k)) \/ Crash

Spec == Init /\ [][Next]_vars

\* Sign and its goroutine run; nothing is assumed of cert-manager, of the
\* connection or of the call's context.
FairSpec == Spec /\ WF_vars(Sign) /\ WF_vars(alive /\ Cleanup)

-----------------------------------------------------------------------------

\* Sign returns a certificate only if cert-manager issued it and neither denied
\* nor failed the request, from whichever of Get and the events it learnt so.
OkMeansIssued == result = "ok" => decision = "issued"

\* A CertificateRequest left behind by a call that returned was preserved on
\* purpose, or its creation was reported as an error, or its deletion is under
\* way or failed: there is no path out of Sign that forgets it.
LeaksExplained ==
    pc = "returned" /\ object = "stored" =>
        PreserveCertificateRequests \/ orphaned \/ cleanup \in {"running", "failed"}

\* Once the request is decided or deleted the call ends, although the watch may
\* never close and no deadline helps: no update falls between Watch and Get.
EndsWhenDecided ==
    (decision # "pending" \/ object = "deleted") ~> (pc = "returned" \/ ~alive)
====
