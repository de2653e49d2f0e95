# istio-csr in TLA+

TLA+ models of istio-csr, the agent that signs Istio workload certificates with
cert-manager. The modules are translated from the Go code under `src/`; TLC checks
them on small instances, TLAPS proves the central invariants for every instance.

## The system

| Part | Code | State | Operations |
|---|---|---|---|
| Issuer manager | `pkg/certmanager` | active and original issuerRef, RW lock, subscription list, watch on the runtime configuration ConfigMap | `Sign`, `RuntimeConfigurationWatcher.Start` and its handlers, `notifyIssuerChange`, `SubscribeIssuerChange`, `WaitForIssuerConfig` |
| CertificateRequest signing | `pkg/certmanager` | the CertificateRequest, its watch, the cleanup goroutine | `Sign`, `waitForCertificateRequest` |
| Dynamic istiod certificate | `pkg/istiodcert` | issuerRef and mutex, reconcile channel, workqueue, the Certificate | `Start`, `handleNewIssuer`, `Reconcile` |
| TLS provider | `pkg/tls` | root CAs, tls.Config, subscribers | `Start`, `fetchCertificate`, `loadCAsRoot`, `RootCAs` |
| Root CAs file watcher | `pkg/tls/rootca` | last bundle, fsnotify watch | `Watch`, `reloadConfig` |
| ConfigMap controller | `pkg/controller` | cached bundle, workqueue, one ConfigMap per namespace | event handler, `Reconcile` |
| gRPC server | `pkg/server` | ready flag, requests in flight | `Start`, `CreateCertificate`, `parseCertificateBundle` |
| Request authorization | `pkg/server` (`auth.go`, `node_auth.go`, `internal/extensions`) | trusted accounts, pod informer | `authRequest`, `authenticateImpersonation` |
| Wiring | `cmd/app` | none | options, construction order |

How they interact: `app.go` builds the manager, then the istiod provisioner (which
subscribes to issuer changes), the TLS provider, the gRPC server and the ConfigMap
controller (which subscribes to root CA events), and only then starts them. The
provisioner and the ConfigMap controller run in the elected leader only. The TLS
provider and the gRPC handlers call `Sign`, which holds the issuer's read lock; the
watcher of the runtime configuration takes the write lock. What is hard: the order of
goroutines, events lost with a broken watch, notifications that overtake one another,
stale informers, edits by other clients, crashes and leader changes.

## Modules

| Module | Models | Notes |
|---|---|---|
| `ActiveIssuer` | abstract specification | an issuer that changes only while no signing is in flight |
| `IssuerManager` | issuer manager, its callers | implements `ActiveIssuer` |
| `CertificateRequests` | one `Sign` call | against an API server that may fail at every step |
| `IstiodCert` | istiod certificate | extends `IssuerManager`: the provisioner receives its notifications |
| `RootCAsFeed` | abstract specification | root CAs never withdrawn, one event per change |
| `TLSProvider` | TLS provider, root CAs file watcher | implements `RootCAsFeed` |
| `ConfigMapController` | ConfigMap controller | takes its root CAs from a `RootCAsFeed` |
| `Durations` | `time.Duration` | two's complement arithmetic, used by `TLSProvider` and `GRPCServer` |
| `CSRPolicy` | what is accepted in a CSR | `CSRAllowed` is the code, `Permitted` the reference definition |
| `NodeAuthorizer` | node authorizer, pod informer | what the API server stored for each pod name, and how far the informer has got |
| `CertificateService` | abstract specification | one answer per request, certificates only after authorization, an orderly stop |
| `GRPCServer` | gRPC server, its handlers | implements `CertificateService`; composes `CSRPolicy` and `NodeAuthorizer`; `Sign` and the TLS provider are environment |
| `MC*` | instances for TLC | constants come from the `.cfg` files |
| `*Proofs` | TLAPS proofs | of the module they are named after; `CreateCertificateProofs` holds those about what the handlers of `GRPCServer` sign and answer |

Correspondence with the code:

* A goroutine is a program counter (`wpc`: runtime configuration watcher or file
  watcher, `ppc`: `Provider.Start`, `dpc`: provisioner, `hpc`: root CA event handler,
  `rpc`: `Reconcile`; in `GRPCServer` `spc`: `Server.Start`, `gpc`: its shutdown goroutine,
  `hpc`: the handlers). A step of the model is the code between two points at which
  another goroutine, or the API server, can make a difference.
* A mutex is a condition on program counters: `RLockFree` and `LockFree` are Go's
  writer-preferring RWMutex, `issuerRefMutexFree` is the provisioner's mutex.
* A send on an unbuffered channel is a step that needs its receiver (`TakeReconcileEvent`,
  `Broadcast`), a `go` statement that sends is an element of `spawned` and then `sending`,
  or a unit of `events`.
* The data race on `issuerChangeSubscriptions` (read without the mutex by the send
  goroutines) is resolved in `EvaluateChannel`: the list of the moment, or a panic.
* A `time.Duration` is an integer between `minDuration` and `maxDuration` in two's complement
  (`Wrap`); the renewal time and the duration asked of `Sign` are computed in it, overflow
  included.
* An identity is a number, so that identities can be sorted as `identitiesMatch` does. The
  URIs of a CSR keep their positions in the extension, and a stable sort gives every entry
  its place: after the smaller ones, and after the equal ones before it (`Place`). A byte
  of a key usage extension is the set of its bits. A root CA bundle of `GRPCServer` is the
  set of its CAs, and a chain verifies when the CA that signed is one of them.
* An element of a SubjectAltName extension has the class, the form and the number of its
  ASN.1 identifier. `validateSubjectAltNameExtension` compares the number alone, x509 reads
  only elements that are context-specific and primitive. What else a CSR may hold, such as
  other attributes of its subject, is `others`, which no check looks at.
* `Account` gives the service account that an identity names: the node authorizer leaves the
  trust domain out of its comparison (`node_auth.go:118`), so several identities may name
  the same one.
* The shutdown goroutine clears `ready` (`ClearReady`), calls `GracefulStop`
  (`CallGracefulStop`) and waits for the handlers (`GracefulStop`): between the first two
  the server still takes requests. `Serve` returns after that, or before the call with the
  error of an `Accept` that failed, which ends the process (`ServeFails`).
* issuerRefs and CA bundles are model values; an incomplete ConfigMap is `Invalid`, an
  undecodable bundle `Bad`. The istiod Certificate is the issuerRef in its spec.
* API server, informers, workqueues, leader election, the file system and cert-manager
  are environment, as the code uses them: watches break and lose events, informers lag,
  calls fail, others edit the same objects, writes over changed objects are refused.
* Nothing is persisted. A crash is `Restart`, `Crash`, or simply an initial state with
  arbitrary API objects.

## Runs

| Run | Shows |
|---|---|
| `issuer_static` | With an issuer from the command line: signings in flight use the active issuer; a caught-up watcher has applied the ConfigMap; no panic; refinement of `ActiveIssuer`; only overtaking notifications can leave the provisioner with another issuer. |
| `cr_sign` | Success of `Sign` means an issued certificate; leaks are explained; a decided request ends the wait. |
| `istiod_cert` | Manager and provisioner, with runtime configuration only: an idle leader has the Certificate at its issuer, and gets there; the provisioner's notifications are never misdirected, and a complete ConfigMap that stays comes into force although the TLS provider keeps signing. |
| `tls_provider` | Root CAs from a file or from the issuer (both kinds of initial state) reach subscribers and the serving config; the renewal timer is set to two thirds of the time left, or fires at once. |
| `configmaps` | Every active namespace gets exactly the current root CAs, and keeps them. |
| `grpc_server` | Impersonations are justified although the pod informer lags; the CSR checks agree with their reference, and nothing is signed that they should refuse; the server implements `CertificateService`; every answer verifies against the roots it carries; a graceful stop completes and cuts nothing off; retries succeed in the end. |

Disagreements between the code and its comments, each with a counterexample:

| Run | Says the code | Does the code |
|---|---|---|
| `issuer_wait` | `WaitForIssuerConfig` "blocks until issuer config is available" | goes on blocking when the issuer arrives between its check and its subscription |
| `issuer_deletion` | the original issuer is used "if the ConfigMap [...] is deleted" | not when it is deleted while no watch is open |
| `issuer_panic` | "Send the event to the subscriber" | indexes a list that may have become shorter, and panics |
| `issuer_shutdown` | "If the main context cancels [...] this function returns" | not while it is connecting |
| `istiod_revert` | a notification "triggers reconciliation" | a nil one does not, though it changes the issuer |
| `grpc_duration` | "If the client requests a duration larger than this value, this value will be used instead" | the seconds are multiplied before they are compared: a product that does not fit an int64 wraps, and `Sign` is asked for what is left, a negative duration for instance |

More behaviours are written into the properties as their exceptions:

* `LatestHeard` speaks of a provisioner that received the newest notification last. Each is
  sent by a goroutine of its own, so an older one may overtake it, and the provisioner then
  keeps the older issuer.
* `FileFollowed` excepts an edit between the first read of the root CAs file and
  `watcher.Add`, and a file recreated after `Add` failed: neither raises an event.
* `LeaksExplained` names the causes of a CertificateRequest left behind: a failed
  `Delete`, which is tried once, a lost response to `Create`, or a process that ends
  before the cleanup goroutine has run.
* `IssuerRootsServed` excepts a cancelled context: a fetch that it cuts short after
  `loadCAsRoot` leaves new root CAs distributed and the old ones served.
* `RenewedInTime`: when twice the remaining time overflows, the timer fires at once instead
  of after two thirds of it, and again after every renewal. The property excepts a
  certificate that expired more than a quarter of all durations ago (146 years): twice that
  time overflows to a positive one.
* `ReadyServes` excepts a context cancelled while the server starts: the shutdown goroutine
  may clear `ready` before `Start` sets it, which then stays set.
* `ImplementsService`: `CertificateService` allows a service that is not yet closing to fail,
  which leaves the requests it took without an answer.
* `CSRDecided` and `OnlyPermittedSigned` measure a CSR by `Permitted`: the URIs that x509
  reads are exactly the identities, and there is no element with another number. A
  SubjectAltName element that shares only the number 6 with a URI is let through, although
  `validateSubjectAltNameExtension` "validates that the passed extension is a correctly
  encoded URI SAN, and is no other SAN type", and so are attributes of the subject other
  than the common name, although `auth.go:95` speaks of "any other options".
* `ImpersonationJustified` is about service accounts: an identity of another trust domain is
  granted like the one of the cluster's.
* `CSRDecided` is about CSRs whose key usage, if it has one byte, is in DER. The bit-wise
  check also lets through encodings that are not, such as one without any bits, which ask
  for nothing more.

## Bounds

Two issuers and two bundles distinguish old from new. ConfigMap, file and Certificate
edits are bounded by one to three, which is enough for a change, a change back, and a
change while the previous one is being handled. One broken watch separates the runs with
a stream from those without; `issuer_static` has it before or after an edit and a cancelled
context, `istiod_cert` a context cancelled before the edit (`MayCancelAfter`), the proofs
have any number in any order. The TLS provider, and a gRPC caller in `issuer_static`,
give signings that overlap a change. `MaxFaults` and `MaxTouches` bound failures,
restarts and edits by others. `MaxRetries` stands for the 250 attempts of the first
fetch.

In `grpc_server` one client suffices, since handlers share no state but the server's own
and the count of those in flight; the proofs cover any number. Two pods on two nodes, and
three changes in all to pods, root CAs and issuer, allow a pod to be deleted, re-created
and scheduled elsewhere between the two reads of the informer. The CSRs are an Istio
agent's and one variation of it for every check of `authRequest`, one of them not in DER,
one with a URI in constructed form and one with more in its subject.
Durations of six and eight bits (`maxDuration` 31 and 127) put their overflow among the
small numbers.

The proofs below need none of these bounds.

Deadlock checking is off throughout: once the bounded environment is used up, an idle
or cancelled process has nothing to do.

## Fairness

* Weak fairness of every goroutine: the Go scheduler runs what can run.
* A `Sign` in flight ends: its context ends or the API server closes its watch.
* The channel source, the informers and leader election make progress.
* Strong fairness of a queued request in `ConfigMapController`: workers are shared and
  the workqueue is first in, first out.
* `GRPCServer`: a handler's steps, `Start` and the shutdown goroutine run, and the pod
  informer catches up. Neither requests nor an end of their contexts are assumed, so
  `ShutdownCompletes` shows that no handler blocks in `RootCAs` and holds up a graceful stop.
* `TLSProvider`: certificates fall due for renewal; failures are bounded, so a due
  renewal succeeds in the end. Nothing is assumed of an issuer that only fails.

## Proofs

`IssuerManagerProofs`, for any issuers, callers, edits and broken watches:

* `TypeCorrect`, with `EventsOK`: the watch's events carry what their type promises (an
  Added or Modified event never carries an absent ConfigMap), which is what makes
  `activeIssuerRef` an issuerRef or nil.
* `SignersSafe` and `Refinement` rest on the lock: at "notify" no signing is in flight,
  and `activeIssuerRef` is only assigned when `LockFree`.
* `CaughtUpSafe`: the inductive invariant follows the last undelivered event, the event
  being handled, or `activeIssuerRef` itself, whichever is newest, and says it agrees with
  the ConfigMap while the watch is open.
* `StaticNeverPanics`: with an original issuer there is never a nil active issuer, so
  `WaitForIssuerConfig` never subscribes and the list never shrinks.
* `IstiodCertIsAddressed`: index 0 is the provisioner's in the list and in the filtered list.

`CertificateRequestsProofs`, for any number of events and failures: `SignTypeCorrect`,
`OkIsIssued` and `LeaksAreExplained` from one inductive invariant (`SignInvariant`), the
properties strengthened by the fact that no object exists before `Create`.

`IstiodCertProofs`, about the manager and the provisioner together:

* `ComposedManager`: every step of the composition is a step of the manager or leaves it
  alone, so that the theorems of `IssuerManagerProofs` carry over.
* `ProvisionerTypeCorrect`: that a write puts an issuer, and never nil, into the Certificate
  needs that the issuer does not change under a reconciliation: the receiver assigns it
  with `issuerRefMutex` free, and `Reconcile` starts only with an issuer (`Reconciling`).
* `RuntimeCertificateReconciled`, when there is no issuer at startup: a Certificate that is
  not at the provisioner's issuer is queued or being reconciled once the provisioner is in
  its loop (`Due`). With an issuer
  at startup the theorem is false, see `istiod_revert`.
* `NewestIsHeld` numbers the notifications: the newest, wherever it is on its way, resolves
  to the active issuer (`Newest`).

`TLSProviderProofs`, for any bundles, edits, failures and retries:

* `Refinement` of `RootCAsFeed`: the bundle read, broadcast, received and set form a chain
  (`Chain`) in which what is sent differs from what was sent before, so that every event is
  a change.
* `ReadyMeansRoots` and `ServedAreDistributed`: `ReadyHasRoots` and `IssuerRootsServed`,
  through the program counter of `Start`.
* `RenewalInTime`, for durations of any width and any validities: twice a duration leaves
  the range at most once (`WrapOnce`). If it does not, the timer is within one of two thirds;
  if it does, what is left is negative, and the timer fires at once (`RenewalBound`).
* `FileIsFollowed`: while the watched inode is the path's, either an event is queued, or the
  watcher is about to read, or the bundle it read last is the file's (`Following`).

`ConfigMapControllerProofs`: `NoUpdateIsLost`, for any namespaces, workers and faults. A
namespace whose ConfigMap is not as it should be is always covered by something pending: an
informer that has to catch up, a queued request, the event handler under way, or a
reconciliation that has the current root CAs or whose write will be refused (`Pending`).

`GRPCServerProofs`, for any clients, pods, nodes, CAs and changes:

* `ServesToTheEnd` and `ReadyMeansServing` relate the counters of `Start` and of the
  shutdown goroutine to the requests in flight (`LifeInv`).
* `GrantedOnlyIfJustified` records of each handler what it has learned so far: the caller's
  pod was stored with that uid and account, and with the node it goes on with; what was
  stored once stays in the history, however stale the informer's view.

`CSRPolicyProofs`, about the checks themselves, for CSRs and identities of any size:

* `IdentitiesMatchExact`: sorting and comparing pair by pair is equality of multisets. The
  places are a bijection (`PlaceBijection`), so that the sorted list is in order and has the
  same entries (`SortedProperties`); and two lists in order with the same entries are equal
  (`SortedUnique`), by looking at the least index at which they differ, where the smaller
  entry occurs once more in one list than in the other (`FewerAfterParting`).
* `CSRAllowedExact`: `CSRAllowed` is `Permitted` for every CSR in DER. The parsed names and
  the extension are two readings of the same elements: once every element has the number of
  a URI, the ones x509 reads are the URIs (`ParsedNames`). `KeyUsageExact` shows
  that clearing the bits of the two allowed encodings leaves nothing exactly for the
  encodings of `digitalSignature`, `keyEncipherment` and both.

`CreateCertificateProofs`, for any clients, requests and CSRs:

* `ResponsesVerify`: root CAs are copied once, and the copy is both verified against and sent.
* `CSRsDecided` carries `CSRAllowedExact` to the handlers: one that is about to check a CSR
  has identities.
* `SignedOnlyIfPermitted`: only the check of a CSR that asks for what is permitted, in
  whatever encoding (`AllowedAsksForNoMore`), takes a handler to "sign", and the identities
  it was checked against stay until `Sign` returns (`SoundKept`).
* `Refinement`: the server implements `CertificateService`. `Phase` is read off the counters
  of `Start` and of its shutdown goroutine: the service is closing from the call of
  `GracefulStop` on, not from the moment `ready` is cleared. `Pending` is read off the
  handlers' (`Stage`). That the
  service stops with nothing pending is `LifeInv` of `GRPCServerProofs`; that a certificate
  comes with roots its chain leads to needs the handler's copy of them.

Assumptions are those of the `ASSUME`s: distinct constants, options that `certmanager.New`
accepts; `RuntimeCertificateReconciled` and `StaticNeverPanics` say in their statements whether
there is an issuer at startup.

`GRPCServer` takes the TLS provider as environment: root CAs are never withdrawn, and there
are some before there is a tls.Config. Both are theorems about the provider itself,
`Refinement` and `ReadyMeansRoots` of `TLSProviderProofs`; that the issuer may change between
any two signings, and not during one, is `Refinement` of `IssuerManagerProofs`.

Only model-checked: liveness (`IssuerEventuallyApplied`, `CertificateConverges`,
`EndsWhenDecided`, `RootsServedInTheEnd`, `DistributedInTheEnd`, `ShutdownCompletes`,
`ServedAfterRotation`, `RetryIsGranted`), which the proof system does not cover. Every
invariant of the passing runs has a theorem; the one for `CertificateReconciled` is for a
start without an issuer, which is also what the run checks, and the one for `NoPanic` is
for a start with one.

## Not modelled

* Contents of certificates and keys, cryptography, TLS handshakes, and ASN.1: decoding
  succeeds or fails, and what was decoded is a value. Istio's authenticators are external.
* `cmd/app`: flag parsing, completion and defaults are straight-line configuration code
  that runs before anything is concurrent; the order of construction is in the initial
  states. `deferCheckUntilIssuerConfig` reports ready while there is no issuer, and calls
  the modelled checks otherwise.
* Parsing of curves (`pkg/tls/curves.go`), key options, and the DNS names of the istiod
  Certificate (`makeDNSNamesFromRevisions`): functions of options that never change.
* Fakes and the test framework. Logging and metrics.
* Real time: timers and backoff are nondeterministic choices; durations are only numbers.
