----------------------------- MODULE TLSProvider -----------------------------
(***************************************************************************)
(* pkg/tls and pkg/tls/rootca: where the mesh's root CAs come from and how *)
(* they get into the serving tls.Config. With a RootCAsCertFile a watcher  *)
(* goroutine reads the file and a receiver goroutine sets rootCAs; without *)
(* one fetchCertificate takes them from the issuer's response. Start       *)
(* renews the serving certificate for ever; the wait for an issuer before  *)
(* the first one is modelled in IssuerManager.                             *)
(*                                                                         *)
(* The file is external: a path naming an inode. A volume update moves the *)
(* path to a new inode and later deletes the old one; fsnotify reports the *)
(* deletion of, and the writes to, the inode it watches.                   *)
(***************************************************************************)
EXTENDS Durations, Sequences

CONSTANTS
    Roots, NoRoots,    \* root CA bundles; the empty bundle
    Bad,               \* a bundle that does not decode
    Gone,              \* the file does not exist
    NoConfig,          \* the nil tlsConfig
    MayCancel,
    Untils,            \* times until a signed certificate's NotAfter
    MaxRetries,        \* first fetches before the backoff gives up
    MaxEdits, MaxFailures   \* bounds: bundle changes, failed fetches

ASSUME RootsAssumption ==
    /\ NoRoots \notin Roots /\ Bad \notin Roots /\ NoConfig \notin Roots
    /\ Gone \notin Roots \cup {NoRoots, Bad}
    /\ MaxEdits \in Nat /\ MaxFailures \in Nat /\ MaxRetries \in Nat \ {0}
    /\ Untils \subseteq minDuration .. maxDuration

VARIABLES
    content, inode, old,   \* the path's content and inode; replaced inodes
    watched,               \* the inode fsnotify watches (0: none)
    fsEvents,              \* watcher.Events
    wpc,                   \* the goroutine of rootca.Watch ("none": no RootCAsCertFile)
    rootCAsPEM,            \* the watcher's last bundle
    broadcast,             \* the bundle it sends on broadcastChan
    listening,             \* Start's receiving goroutine runs
    received,              \* the bundle it received and has not set yet
    missed,                \* history: an edit between the first read and Add, not read yet
    issuerCA,              \* the CA the issuer responds with
    rootCAs, events,       \* Provider.rootCAs; events sent to subscribers
    tlsConfig,             \* the client CAs of Provider.tlsConfig
    ppc,                   \* Provider.Start
    attempts,              \* failed first fetches; not looked at after one that succeeds
    until,                 \* time.Until(notAfter); minDuration is that of the zero time
    ctxDone, edits, failures

fileVars     == <<content, inode, old>>
notifyVars   == <<watched, fsEvents>>
watcherVars  == <<wpc, rootCAsPEM, broadcast>>
receiverVars == <<listening, received>>
renewVars    == <<attempts, until>>
providerVars == <<issuerCA, tlsConfig, ppc, renewVars>>
rootVars     == <<rootCAs, events>>
bounds       == <<edits, failures>>
vars == <<fileVars, notifyVars, watcherVars, receiverVars, missed, rootVars, providerVars,
          ctxDone, bounds>>

RootCAsCertFile == wpc # "none"

TypeOK ==
    /\ content \in Roots \cup {NoRoots, Bad, Gone}
    /\ inode \in Nat /\ inode > 0 /\ old \in SUBSET Nat /\ watched \in Nat
    /\ fsEvents \in Seq({"Remove", "Write"})
    /\ wpc \in {"none", "load", "add", "broadcast", "select", "rearm", "reload", "stopped"}
    /\ rootCAsPEM \in Roots \cup {NoRoots}
    /\ broadcast \in Roots \cup {NoRoots} /\ received \in Roots \cup {NoRoots}
    /\ missed \in BOOLEAN /\ listening \in BOOLEAN /\ ctxDone \in BOOLEAN
    /\ issuerCA \in Roots \cup {NoRoots, Bad}
    /\ rootCAs \in Roots \cup {NoRoots} /\ events \in Nat
    /\ tlsConfig \in Roots \cup {NoConfig}
    /\ ppc \in {"start", "fetch", "apply", "wait", "stopped"}
    /\ attempts \in 0..MaxRetries /\ until \in Untils \cup {minDuration}
    /\ edits \in Nat /\ failures \in Nat

Init ==
    /\ wpc \in {"none", "load"}
    /\ content \in IF RootCAsCertFile THEN Roots \cup {NoRoots, Bad, Gone} ELSE {Gone}
    /\ inode = 1 /\ old = {} /\ watched = 0 /\ fsEvents = <<>>
    /\ ppc = IF RootCAsCertFile THEN "start" ELSE "fetch"
    /\ rootCAsPEM = NoRoots /\ broadcast = NoRoots /\ received = NoRoots /\ missed = FALSE
    /\ listening = RootCAsCertFile
    /\ issuerCA \in IF RootCAsCertFile THEN {NoRoots} ELSE Roots \cup {NoRoots, Bad}
    /\ rootCAs = NoRoots /\ events = 0 /\ tlsConfig = NoConfig
    /\ attempts = 0 /\ until = minDuration
    /\ ctxDone = FALSE /\ edits = 0 /\ failures = 0

-----------------------------------------------------------------------------
(* The file, fsnotify and the issuer (external). *)

Edit ==
    /\ edits < MaxEdits /\ edits' = edits + 1
    /\ missed' = (missed \/ wpc = "add")
    /\ UNCHANGED <<watcherVars, receiverVars, rootVars, providerVars, ctxDone, failures>>

Notified(op) == IF watched = inode THEN Append(fsEvents, op) ELSE fsEvents

WriteFile(c) ==
    /\ Edit
    /\ content \notin {c, Gone} /\ content' = c
    /\ fsEvents' = Notified("Write")
    /\ UNCHANGED <<inode, old, watched>>

\* The path is moved to a new inode: a volume update, or the file's creation.
ReplaceFile(c) ==
    /\ Edit
    /\ content # c /\ content' = c
    /\ inode' = inode + 1 /\ old' = IF content = Gone THEN old ELSE old \cup {inode}
    /\ UNCHANGED notifyVars

DeleteFile ==
    /\ Edit
    /\ content # Gone /\ content' = Gone
    /\ fsEvents' = Notified("Remove")
    /\ watched' = IF watched = inode THEN 0 ELSE watched
    /\ UNCHANGED <<inode, old>>

DeleteOld(i) ==
    /\ old' = old \ {i}
    /\ IF watched = i
       THEN watched' = 0 /\ fsEvents' = Append(fsEvents, "Remove")
       ELSE UNCHANGED notifyVars
    /\ UNCHANGED <<content, inode, watcherVars, receiverVars, missed, rootVars, providerVars,
                   ctxDone, bounds>>

ChangeIssuerCA(c) ==
    /\ ~RootCAsCertFile /\ edits < MaxEdits /\ edits' = edits + 1
    /\ c # issuerCA /\ issuerCA' = c
    /\ UNCHANGED <<fileVars, notifyVars, watcherVars, receiverVars, missed, rootVars, tlsConfig,
                   ppc, renewVars, ctxDone, failures>>

CancelContext ==
    /\ MayCancel /\ ~ctxDone /\ ctxDone' = TRUE
    /\ UNCHANGED <<fileVars, notifyVars, watcherVars, receiverVars, missed, rootVars,
                   providerVars, bounds>>

-----------------------------------------------------------------------------
(* rootca.Watch and its goroutine, and the receiving goroutine of Start. *)

\* loadRootCAsFile returns updated root CAs. No certificate decodes from an
\* empty file, and the first call compares it with an empty rootCAsPEM.
MutantUpdated == content \in Roots
Updated == content \in Roots /\ content # rootCAsPEM

\* Watch returns an error, and with it Start, when the first load has none.
LoadFile ==
    /\ wpc = "load"
    /\ IF Updated
       THEN wpc' = "add" /\ broadcast' = content /\ UNCHANGED ppc
       ELSE wpc' = "stopped" /\ ppc' = "stopped" /\ UNCHANGED broadcast
    /\ UNCHANGED <<fileVars, notifyVars, rootCAsPEM, receiverVars, missed, rootVars, issuerCA,
                   tlsConfig, renewVars, ctxDone, bounds>>

\* watcher.Add: it follows the path; on a path that does not exist it fails.
Added == IF content = Gone THEN 0 ELSE inode

AddWatch ==
    /\ wpc = "add"
    /\ watched' = Added
    /\ IF content = Gone
       THEN wpc' = "stopped" /\ ppc' = "stopped"
       ELSE wpc' = "broadcast" /\ ppc' = "fetch"
    /\ UNCHANGED <<fileVars, fsEvents, rootCAsPEM, broadcast, receiverVars, missed, rootVars,
                   issuerCA, tlsConfig, renewVars, ctxDone, bounds>>

Broadcast ==
    /\ wpc = "broadcast" /\ listening /\ received = NoRoots
    /\ received' = broadcast /\ rootCAsPEM' = broadcast /\ broadcast' = NoRoots
    /\ wpc' = "select"
    /\ UNCHANGED <<fileVars, notifyVars, listening, missed, rootVars, providerVars, ctxDone,
                   bounds>>

\* p.rootCAs is set and every subscriber sent an event, under p.lock.
SetRootCAs(r) == rootCAs' = r /\ events' = events + 1

Receive ==
    /\ received # NoRoots /\ received' = NoRoots
    /\ SetRootCAs(received)
    /\ UNCHANGED <<fileVars, notifyVars, watcherVars, listening, missed, providerVars, ctxDone,
                   bounds>>

StopReceiver ==
    /\ ctxDone /\ listening /\ received = NoRoots /\ listening' = FALSE
    /\ UNCHANGED <<fileVars, notifyVars, watcherVars, received, missed, rootVars, providerVars,
                   ctxDone, bounds>>

HandleEvent ==
    /\ wpc = "select" /\ fsEvents # <<>>
    /\ fsEvents' = Tail(fsEvents)
    /\ wpc' = IF Head(fsEvents) = "Remove" THEN "rearm" ELSE "reload"
    /\ UNCHANGED <<fileVars, watched, rootCAsPEM, broadcast, receiverVars, missed, rootVars,
                   providerVars, ctxDone, bounds>>

MutantAfterRearm == "select"
AfterRearm == "reload"

Rearm ==
    /\ wpc = "rearm" /\ wpc' = AfterRearm
    /\ watched' = Added
    /\ UNCHANGED <<fileVars, fsEvents, rootCAsPEM, broadcast, receiverVars, missed, rootVars,
                   providerVars, ctxDone, bounds>>

reloadConfig ==
    /\ wpc = "reload" /\ missed' = FALSE
    /\ IF Updated
       THEN wpc' = "broadcast" /\ rootCAsPEM' = content /\ broadcast' = content
       ELSE wpc' = "select" /\ UNCHANGED <<rootCAsPEM, broadcast>>
    /\ UNCHANGED <<fileVars, notifyVars, receiverVars, rootVars, providerVars, ctxDone, bounds>>

StopWatcher ==
    /\ wpc = "select" /\ ctxDone /\ wpc' = "stopped"
    /\ UNCHANGED <<fileVars, notifyVars, rootCAsPEM, broadcast, receiverVars, missed, rootVars,
                   providerVars, ctxDone, bounds>>

-----------------------------------------------------------------------------
(* fetchCertificate, in two steps: p.lock is free between loadCAsRoot and    *)
(* the making of the tls.Config. The first fetches end with the backoff's    *)
(* retries; renewals retry until one succeeds.                              *)

\* Sign returns; loadCAsRoot is a no-op for an unchanged CA.
FetchSigned ==
    /\ ppc = "fetch"
    /\ \/ /\ RootCAsCertFile \/ issuerCA = rootCAs
          /\ ppc' = "apply" /\ UNCHANGED rootVars
       \/ /\ ~RootCAsCertFile /\ issuerCA \in Roots \ {rootCAs}
          /\ ppc' = "apply" /\ SetRootCAs(issuerCA)
    /\ UNCHANGED <<fileVars, notifyVars, watcherVars, receiverVars, missed, issuerCA, tlsConfig,
                   renewVars, ctxDone, bounds>>

\* "root CA certificate is not defined"
MutantRootsUndefined == FALSE
RootsUndefined == rootCAs = NoRoots

\* The roots of the SPIFFE peer certificate verifier.
MutantClientCAs == IF tlsConfig = NoConfig THEN rootCAs ELSE tlsConfig
ClientCAs == rootCAs

ApplyConfig ==
    /\ ppc = "apply" /\ ~RootsUndefined
    /\ tlsConfig' = ClientCAs /\ ppc' = "wait"
    /\ \E u \in Untils : until' = u
    /\ attempts' = 0
    /\ UNCHANGED <<fileVars, notifyVars, watcherVars, receiverVars, missed, rootVars, issuerCA,
                   ctxDone, bounds>>

\* What a failed renewal does next.
MutantAfterFailure == "wait"
AfterFailure == "fetch"

FirstFetch == tlsConfig = NoConfig /\ attempts < MaxRetries

\* Sign, loadCAsRoot or the making of the config fails. Failing for want of root
\* CAs does not count towards the bound on failures.
FetchFails ==
    /\ \/ ppc \in {"fetch", "apply"} /\ failures < MaxFailures /\ failures' = failures + 1
       \/ ppc = "apply" /\ RootsUndefined /\ UNCHANGED failures
    /\ IF FirstFetch
       THEN /\ attempts' = attempts + 1
            /\ ppc' = IF attempts' < MaxRetries THEN "fetch" ELSE "wait"
       ELSE ppc' = AfterFailure /\ UNCHANGED attempts
    /\ UNCHANGED <<fileVars, notifyVars, watcherVars, receiverVars, missed, rootVars, issuerCA,
                   tlsConfig, until, ctxDone, edits>>

\* A fetch fails because the context was cancelled, and is not tried again.
Abandon ==
    /\ ppc = "fetch" /\ ctxDone /\ ppc' = "wait"
    /\ UNCHANGED <<fileVars, notifyVars, watcherVars, receiverVars, missed, rootVars, issuerCA,
                   tlsConfig, renewVars, ctxDone, bounds>>

\* renewalTime
MutantRenewalTime == Quotient(Wrap(3 * until), 2)
RenewalTime == Quotient(Wrap(2 * until), 3)

\* The timer fires.
Renew ==
    /\ ppc = "wait" /\ ppc' = "fetch" /\ until' = minDuration
    /\ UNCHANGED <<fileVars, notifyVars, watcherVars, receiverVars, missed, rootVars, issuerCA,
                   tlsConfig, attempts, ctxDone, bounds>>

\* The tlsConfig is dropped, so that readiness returns false.
StopProvider ==
    /\ ppc = "wait" /\ ctxDone
    /\ ppc' = "stopped" /\ tlsConfig' = NoConfig
    /\ UNCHANGED <<fileVars, notifyVars, watcherVars, receiverVars, missed, rootVars, issuerCA,
                   renewVars, ctxDone, bounds>>

-----------------------------------------------------------------------------

Environment ==
    \/ \E c \in Roots \cup {NoRoots, Bad} : RootCAsCertFile /\ (WriteFile(c) \/ ReplaceFile(c))
    \/ RootCAsCertFile /\ DeleteFile
    \/ \E c \in Roots \cup {NoRoots, Bad} : ChangeIssuerCA(c)
    \/ CancelContext
Watcher == LoadFile \/ AddWatch \/ Broadcast \/ HandleEvent \/ Rearm \/ reloadConfig \/ StopWatcher
Provider == FetchSigned \/ ApplyConfig \/ FetchFails \/ Abandon \/ Renew \/ StopProvider

Receiver == Receive \/ StopReceiver

Next == Environment \/ Watcher \/ Receiver \/ Provider \/ \E i \in old : DeleteOld(i)

Spec == Init /\ [][Next]_vars

\* Every goroutine runs, replaced inodes are deleted, and certificates fall due
\* for renewal; failures are bounded, so a due renewal succeeds in the end.
Fairness ==
    /\ WF_vars(Watcher) /\ WF_vars(Receiver) /\ WF_vars(Provider)
    /\ WF_vars(\E i \in old : DeleteOld(i))

FairSpec == Spec /\ Fairness

-----------------------------------------------------------------------------

\* An idle watcher has put the file's bundle into rootCAs, through swapped
\* volumes, quick successive edits and undecodable contents: the watch is moved
\* before the file is read again. The exceptions are an edit between the first
\* read and Add, until the next event, and a file recreated after Add failed.
WatcherIdle == wpc = "select" /\ fsEvents = <<>> /\ old = {} /\ received = NoRoots
FileFollowed ==
    WatcherIdle /\ ~missed /\ watched # 0 /\ content \in Roots => rootCAs = content

\* With the issuer's CA, the roots that clients are verified against are the
\* ones distributed to the mesh whenever no fetch is in progress, unless the
\* first fetches were given up or the last one cut short by a cancellation.
IssuerRootsServed ==
    ~RootCAsCertFile /\ ppc = "wait" /\ tlsConfig # NoConfig /\ ~ctxDone => tlsConfig = rootCAs

\* "Renew 2/3 into certificate duration": the timer is set to two thirds of the time
\* left, rounded down, as long as twice that time fits. When it does not, more than
\* 146 years before the end, the timer fires at once and the certificate is renewed
\* over and over. It also fires at once for a certificate that has expired and when
\* there is none; one that expired more than 146 years ago is left out, as twice its
\* time overflows to a positive one.
RenewedInTime ==
    ppc = "wait" =>
        /\ 0 < until /\ 2 * until <= maxDuration =>
             3 * RenewalTime <= 2 * until /\ 2 * until < 3 * (RenewalTime + 1)
        /\ 2 * until > maxDuration \/ until = minDuration \/ (until <= 0 /\ 2 * until >= minDuration) =>
             RenewalTime <= 0

\* Readiness means that RootCAs() does not block the gRPC handlers.
ReadyHasRoots == tlsConfig # NoConfig => rootCAs # NoRoots

\* "Config provides a tls.Config that is updated with updated serving
\* certificates and root CAs": in the end, by way of a renewal, as long as the
\* issuer does not respond with a CA that cannot be loaded.
RootsServedInTheEnd ==
    \A r \in Roots :
        <>[](rootCAs = r /\ (RootCAsCertFile \/ issuerCA = r) /\ ~ctxDone /\ ppc # "stopped")
            => <>[](tlsConfig = r)

\* The root CAs are a RootCAsFeed: never withdrawn, one event for each change.
Feed == INSTANCE RootCAsFeed
ImplementsFeed == Feed!Spec
====
