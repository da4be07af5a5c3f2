# TLA+ models of the file-backed Kubernetes API server and kubelet-lite

The repository holds a small Kubernetes API server whose storage is a directory
of JSON files, and a kubelet that runs Pods as Docker containers. This
directory models the parts whose correctness depends on concurrency, failures
or order, checks them with TLC on small instances, and proves the central facts
about them with TLAPS for instances of every size.

Paths below are relative to the repository root. `PROJECT.json` has the exact
correspondence: every definition that models code, with file, lines and symbol.

## 1. Inventory

| Component | State | Operations | What is hard | What makes it correct |
| --- | --- | --- | --- | --- |
| **Store** `internal/fsstorage/store.go` | one JSON file per object, a mutex per key | Create, Get, Delete, GuaranteedUpdate | the key's mutex is held over a read, `Counter.Next` (a disk write under another mutex), a rename and a publish; the process may die between any two; Delete removes the file before it has an rv | linearisable, durable, conditional writes are compare-and-swap |
| **Counter** `counter.go` | `rv` in memory, `<root>/.rv` | Next, Current, load | one counter for all resources; increment and persist are two steps, either may fail | a resourceVersion is given out once, also across restarts |
| **Broadcaster** `watch.go` | ring of recent events, subscribers, a mutex | publish, replayLocked, subscribeLocked | writers of different keys publish in any order; the ring is lost with the process | a client either gets every event it lacks or is told `Gone` |
| **Watcher** `watch.go` | channel of 100 events, `stopCh`, `stopOnce`, `onStop` | newWatcher, deliver, Stop, stopWithError | three goroutines stop a watcher; publish stops it while holding the mutex | writers never block, channels are closed once and not sent to afterwards |
| **GetList, Watch** `store.go` | none of their own | list, snapshot, resume | files are read one by one while writers run | a subscribed client's copy converges to the files |
| **Keys and selection** `store.go`, `internal/apiserver/storage.go`, `fields.go`, `apiserver.go` | none | KeyFunc, parseKey, parsePrefix, matchesKey, field selectors, predicates | a two-segment key is a name or a namespace, depending on who parses it; objects move in and out of a selection while it is watched | lists are exact, and a client that follows events knows every object it asked for |
| **Reconciler** `internal/kubelet/reconciler.go`, `docker.go` | informer cache, work queue, `failedPods`; Docker's containers | handlers, reconcilePod, terminatePod, reapByUID, reapOrphans | everything acts on old copies; API calls are by name, containers by UID; kubelet-lite restarts | only containers of deleted Pods go, and all of them go; statuses converge; deletions complete |
| **Projection** `internal/kubelet/projection.go` | a directory per volume of a Pod | resolveEnv, projectVolumes, materialise..., writeKeyFiles; removal by reapByUID and reapOrphans | files are written in place, one by one, under running containers, from sources that change meanwhile; the first error ends the pass; `failedPods` suppresses repeated reports | a volume at rest has one version of its source and catches up; failures are shown; directories live as long as their Pod |
| **Logs** `internal/apiserver/podlogs.go`, `internal/kubelet/logs.go`, `docker.go` | handlers, connections, a pipe | Connect, ServeHTTP, Logs, the demultiplexer, limits, Shutdown | five goroutines in two processes, each of which may block on the next; the client may leave at any time | the client gets what it asked for; nobody is left behind; a failure ends the process |
| **Pod status and strategies** `translate.go`, `internal/apiserver/strategy.go`, `tables.go` | `pod.status`, deletion fields | PodStatusFromViews, FailedPodStatus, merge patch, create, PUT, status PUT, DELETE, display | containers end while they are looked at one by one; patches go by name and leave out empty fields; clients write back old copies | phase and READY describe the containers, and a final phase stays; old copies undo no deletion |
| **Serving certificates and start-up** `internal/pki`, `cmd/apiserver`, `cmd/kubelet-lite`, `scripts/dev.sh` | four files and the kubeconfig | EnsureServerCert, WriteKubeconfig, the user's patch, Build; kubelet-lite loads the kubeconfig | six writes in place, each of which may be interrupted, and a reader that does not wait; validity is looked at only at the start | what is served fits together, and clients trust it |
| List helpers, events, OpenAPI, the rest of the tables, building Docker's arguments, flags | little or none | | reflection, wiring, formatting | not modelled |

How they interact: an API request reaches the store through the generic
registry (k8s.io/apiserver, outside the repository), which calls it with the
keys of `newStore`. A mutation takes the key's mutex, then `Counter.mu`, then
`broadcaster.mu`. Watch handlers take `broadcaster.mu`, then `Counter.mu` (to
read it). kubelet-lite is a client: an informer watches Pods and feeds a queue;
its single worker, its handler goroutine and its orphan reaper share Docker, the
volume directories and the cache. The apiserver is a client of kubelet-lite in
turn, for logs. The hazards that follow from this are in `PROJECT.json`, each at the
line where it bites, with the properties that cover it.

## 2. Modules

| Module | Models | Builds on |
| --- | --- | --- |
| `KVStore` | abstract specification: an atomic map whose values carry fresh versions | |
| `FSStore` | store and counter, one action between any two lock, file or counter operations | `KVStore` (refinement) |
| `ListWatch` | GetList, Watch, replay, clients, composed with all of `FSStore` | `FSStore` |
| `FSStorageProofs` | theorems about `FSStore` and `ListWatch` | `ListWatch` |
| `Watcher` | channels, Stop and the broadcaster's mutex, with counted events | |
| `Routing` | keys, selectors and a client that follows its selection | |
| `Reconciler` | kubelet-lite, its informer, the apiserver as it sees it, Docker | |
| `Projection` | environment and volumes of one Pod, with the worker, handler and reaper around them | |
| `LogStream` | `kubectl logs` from client to Docker and back, and the end of kubelet-lite | |
| `PodStatus` | views, phase, merge patch, display, and the strategies of Pods | |
| `PKI` | EnsureServerCert, WriteKubeconfig, kills, and kubelet-lite's start | |
| `WatcherProofs`, `RoutingProofs`, `ReconcilerProofs`, `ProjectionProofs`, `LogStreamProofs`, `PodStatusProofs`, `PKIProofs` | theorems about the module each is named after | that module |
| `MCFSStore`, `MCListWatch`, `MCWatcher`, `MCProjection`, `MCLogStream` | model values, references and queries, symmetry of `ListWatch` | the module named |

`FSStore` and `ListWatch` abstract the channel between Watch and its client to
immediate application in order; `Watcher` has the channel, with its limit, and
abstracts the events to their number. `Reconciler` sees the apiserver as what
the store modules establish: an atomic map and an ordered stream of events per
object, which may be cut off. `PodStatus` looks inside the status that
`Reconciler` knows by its kind, the views and whose reason it has. `Projection` repeats the reconciler for a single
Pod at a coarser grain (the informer jumps to the latest state; create, start
and inspect are one step) and adds what ContainerSpecsFromPod does before
Docker is asked.

### FSStore

State: `rv`, `rvFile`, `cmu` are the Counter's field, its file and its mutex;
`file` and `lock` are the objects' files and the key mutexes; `pc` and `req`
hold what a goroutine has on its stack; `got` is the version a client carries
from a read to a conditional write; `ring` is the broadcaster's. `log` and
`dropped` are history. An object is its rv, its UID (represented by the rv of
its creation, as unique as the UUID the registry supplies) and the number of
updates since its creation, which is what distinguishes a lost update.

| Action | Code |
| --- | --- |
| `Call` | arrival of Create, Delete or GuaranteedUpdate (`update`, or `upsert` with ignoreNotFound) |
| `Lock` | `keyMu(path).Lock()` returns; until then the request waits |
| `Reject` | NotFound, AlreadyExists, failed preconditions, an error of tryUpdate or validateDeletion, unchanged bytes |
| `AdmitWrite`, `AdmitDelete` | the read and the checks pass; Delete has removed the file |
| `Bump`, `Persist`, `PersistFail` | `Counter.Next`, and its error path with `c.rv--` |
| `Write`, `WriteFail` | `atomicWrite` |
| `Publish` | `broadcaster.publish` and the deferred Unlock |
| `PublishHangs` | publish meets a full channel and waits for the mutex it holds (what `watcher_slow` shows), with the key's mutex taken; only a restart ends it |
| `Crash` | end of the process at any point and a start on the same directory |

### ListWatch

A client lists (`ListStart` notes the counter, `ListRead` reads one file at a
time without a lock) or asks for a snapshot (`SnapStart` to `Subscribe`, all
under `broadcaster.mu`), resumes after a disconnection (`Resume`, or `Gone`),
and applies events when they are published (`PublishTo`). `overtaken` is
history: the keys whose events had an rv not above the client's cursor when
they were published, that a restart took away, or that a ring out of order had
lost. Those are the events that a watch from a version is not going to see, and
`LiveSynced` says that they are the only ones.

### Watcher

`DeliverSend`, `DeliverSkip`, `DeliverPanics` and `DeliverOverflows` are the
outcomes of deliver's `select` (a send on a closed channel is ready, and
panics, so it is a choice where `stopCh` is closed as well). `StopEnter` to
`StopUnsub` are the steps of Stop in the goroutine that calls it; `WatchNew` to
`WatchSubscribe` are store.Watch; `WatchExpires` and `Expire...` its `Gone`
path; `CtxCancelled` and `CtxStopped` the goroutine of newWatcher.

### Reconciler

One Pod name, over which Pods with UIDs 1, 2, ... come and go. `stream` and
`notify` are the informer's two queues, `cache` its store; `wpc, wpod, wi,
wviews` are the worker's locals, `htodo, huid` the handler's, `rpc, rlist` the
orphan reaper's. Every call to Docker or to the apiserver is a step of its own;
ContainerCreate and ContainerStart are two. A container that was created and
never started reads as ended with exit code 0, as `Inspect` and
PodStatusFromViews take it. `PatchStatus` merges: FailedPodStatus leaves the
container statuses, and PodStatusFromViews the reason, as an earlier patch set
them, on whichever Pod has the name.

### Projection

`Refs` lists what the containers refer to in the order in which it is resolved:
a whole source or one key of it for the environment, a volume, a volume of
another type. `source` is what the apiserver holds, `dir` what is on disk: for
every volume, of which version each file is, or that it is cut off.

| Action | Code |
| --- | --- |
| `ProjectSkips`, `ProjectFails`, `GetFails` | resolveEnv and projectVolumes: one Get per reference, optional references, missing sources and keys |
| `ProjectReads(left)`, `WriteKey`, `WriteRejected`, `WriteFails`, `WriteDone` | writeKeyFiles: stale files are removed but for those (`left`) that ReadDir or Remove fail for, unnoticed; then one file after another in any order, rejected keys, a full disk, a kill inside a write |
| `EnsureExists`, `EnsureStarts`, `EnsureCannot`, `EnsureFails`, `PatchViews`; `Failure`, `MarkFailed`, `RecordFailed` | the rest of reconcilePod; markFailedOnce with `failedPods` |
| `ReapByUID`, `ReapContainer`, `ReapGivesUp`, `ReapVolumes`; `OrphanSweep`, `OrphanRemove`, `OrphanVolumes` | reapByUID for DeleteFunc; the orphan reaper; `RemoveAll` removes all, or fails with a warning and leaves some of the directories and files |
| `StopContainer`, `ForceDelete` | terminatePod |
| `KubeletRestart` | the end of kubelet-lite at any point, inside a write too, and its start |

`recovered` (a status has been shown since the last failure was recorded),
`stranded` (somebody gave up, was killed, or could not remove them, with
directories there and no container), `torn` (the last writing was not completed)
and `leftover` (the last pass could not remove stale files) are history; the
properties use them to say where the code's guarantees end.

### LogStream

One request. Every hop is a FIFO, so bytes are counted; for tailLines a byte is
a line. `px` is the apiserver's handler, `hd` that of the log server, `dm` the
goroutine that demultiplexes Docker's stream into the pipe; `conn1` and `conn2`
are connections of limited capacity. Queries are strings that are parsed by the
apiserver, encoded again and parsed by kubelet-lite. The client may leave, the
request may time out, Docker may fail and kubelet-lite may be told to stop at
any moment; `main`, `log` and `rec` are its goroutines, and `ShutdownExpires` is
the limit of 5 s on Shutdown.

### Routing, PodStatus, PKI

`Routing` has the files as state and the functions of the key path as
operators. A client makes one of all requests (resource, namespace, a selector
over name, namespace and phase), lists or takes a snapshot and then applies the
events that pass, while objects are created, deleted and change phase.
`PodStatus` has the worker, which takes the Pod (or an earlier one of the name,
from a cache that is behind), looks at the containers one by one (`Start`,
`Inspect`) while they end, and patches by name what it has seen (`PatchViews`),
or a failure (`PatchFailed`), which ContainerSpecsFromPod may also report when all
containers exist. What a pass over a Pod that was deleted meanwhile has seen may
be anything. Another client creates, replaces, status-updates and deletes the Pod
from a copy it has read earlier; a PUT carries the spec of the copy or any other.
`src` (what the status was made from), `own` (the final phase that the Pod's own
containers have given), `asked` (the spec of the last create or PUT) and
`untouched` are history. `PKI` writes the certificates and the
kubeconfig (which is written, and then patched with a user), each in two steps
(truncate, fill), with kills, failing writes and a port that is taken;
certificates expire at any time, also while they are served; kubelet-lite, which `make up` starts
without waiting, reads the kubeconfig at any time.

## 3. Runs

Passing runs:

| Run | Bounds | What it shows |
| --- | --- | --- |
| `store_requests` | 2 keys, 2 goroutines, rv <= 4, 2 faults | type correctness; events of a key ascend (`KeyEventsOrdered`); no version twice (`RVUnique`); events tell the truth about keys at rest (`IdleKeyAnnounced`); `CompareAndSwap`; `Implements` (KVStore); every request returns, unless a publish hangs (`RequestsReturn`) |
| `listwatch_sync` | 1 client, 2 keys, 2 goroutines, ring of 1, rv <= 4, 1 fault | a subscribed client's copy is the file or the event is under way (`LiveSynced`); the window test is exact while publication is in order (`ReplayCompleteInOrder`) |
| `watcher_channels` | 2 publishers, 1 watcher, channel of 2, up to 3 initial and 3 published events | channels are closed once, always; nobody sends on a closed channel (both `NoPanic`), publishers return (`PublishReturnsIfRoom`) and stopped watchers are freed (`StoppedIsFreed`) until a channel has been full or a context has ended inside Watch |
| `reconciler_force` | 2 Pods after each other, users force-delete, no faults | `OnlyOrphansRemoved`, `OrphansReaped`, `StatusConverges` |
| `reconciler_faults` | 2 Pods, graceful deletion, 1 fault | `OrphansReaped`, `TerminationCompletes` |
| `projection_volumes` | 1 Pod of 2 containers, 1 source with 4 references to it, 2 writes, 1 fault | volumes have the files of one version (`VolumeIsSnapshot`) and catch up (`VolumeConverges`); running containers have them (`RunningHasVolumes`); they are removed (`VolumesReaped`); failures and statuses are shown (`FailureShown`, `StatusConverges`) |
| `log_requests` | 8 queries, 2 bytes, connections of 1 byte | `CompleteUnlessCut`, `StreamsFreed`, `FiniteStreamEnds`, `FailureStopsProcess` |
| `routing_select` | a namespaced and a cluster-scoped resource, 2 words for namespaces and objects, 2 phases, 3 objects | `ListExact`, `CacheTracksSelection` |
| `podstatus_phase` | 2 containers that end well or OOMKilled, default grace 2, requested graces 0, 1, 2, 2 specs | `PhaseAggregates` (and READY), `TerminalPhaseSticks`, `DisplayIsPhase`, `OldCopiesUndoNothing` |
| `pki_safety` | 2 addresses, 2 changes of address or expiries, 2 kills or failed starts | `ServesValidCerts` (with a kubeconfig that fits), `RepairedUnlessKeyExisted`, `KubeletTrustsServer` |

Runs that refute what a comment says (each is a finding in
`PROJECT.json`, with the quotation):

| Run | What the code does |
| --- | --- |
| `watcher_slow` | deadlocks: publish stops a slow watcher, whose onStop waits for the mutex that publish holds |
| `reconciler_samename` | terminatePod, run a second time from an old copy, deletes the next Pod of the name |

Other places where the code does less than a reader may expect are written into
the passing properties as their exceptions, so that the properties say exactly
what can be relied on:

- The ring is not "ordered by rv ascending" (`watch.go:26`): writers of two keys
  may publish rv 3 before rv 2. Hence `KeyEventsOrdered` is per key, and
  `ReplayCompleteInOrder` assumes `inOrder`: once events are out of order the
  ring may drop a version newer than its first one, and the window test
  (`watch.go:62`) lets a client pass that lacks it.
- After a restart the empty ring accepts every resume (`watch.go:59`). Hence
  `overtaken`, which a restart sets for every key. The ring has 1000 events
  (`store.go:62`), not the 256 of `README.md`.
- A list can miss an object whose rv its version covers (`store.go:467`), because
  the counter is noted before the files are read and the rv is drawn before the
  file is renamed. A watch from that version will not tell. `overtaken` again; a
  watch with resourceVersion 0 has no such gap.
- A snapshot larger than the channel, or a context that ends inside Watch, may
  lead to a send on a closed channel (`watch.go:119`), in Watch with
  `broadcaster.mu` held. Hence `Roomy` in `NoPanic`.
- A watch of one cluster-scoped object matches nothing (`store.go:628`): `Deaf` in
  `CacheTracksSelection`. A snapshot ignores the predicate (`store.go:668`), and a
  change that takes an object out of a selection is not announced, nor its
  deletion afterwards (`watch.go:48`): `astray`. `status.phase=Pending` does not
  select a fresh Pod, whose phase is empty though it is displayed as Pending.
- A container created and not started before kubelet-lite restarted is taken for
  completed (`docker.go:173`): `StatusConverges` speaks of what Inspect shows.
- `failedPods` is not cleared by a recovery (`reconciler.go:317`): the same failure
  is not reported a second time, and nothing is patched while it lasts.
  `recovered` in `FailureShown` and `StatusConverges`.
- Directories of a Pod that never got a container, or whose removal was cut off
  before (`reconciler.go:345`), or that RemoveAll failed for after the last
  container was removed (`reconciler.go:360`, `404`), are never removed:
  `stranded` in `VolumesReaped`.
- Errors in removing stale files are ignored (`projection.go:223-226`), and the pass
  reports success: `leftover` in `VolumeIsSnapshot`. The next pass tries again.
- A publish that meets a full channel never returns and keeps the key's mutex:
  `Hung` in `RequestsReturn`.
- One reference that cannot be resolved stops the projection for all after it:
  `Passable` in `VolumeConverges`. An optional volume keeps the files of a source
  that is gone. A running Pod is marked Failed when its required source is
  deleted, or a Get fails, and goes on running.
- The end of a log stream that was cut off, by an error or by the request
  timeout that also applies to `follow`, looks like its normal end: `cut` in
  `CompleteUnlessCut`. A limit of 0 or less is no limit.
- A PUT of an old copy writes its status back over the kubelet's
  (`strategy.go:100`): `PhaseAggregates` is about the status after the kubelet's
  next patch. It writes an old spec back as well: `OldCopiesUndoNothing` promises
  the spec only against what writes the status.
- A Pod that has Succeeded is shown as Failed when a pass cannot resolve its
  references (`reconciler.go:209-211`), or when a pass over an earlier Pod of the
  name patches it, until its containers are reported again:
  `TerminalPhaseSticks` is about the reports from a Pod's own containers.
- A `status.reason` of an earlier failure survives the merge patch, even one meant
  for an earlier Pod of the name, and is displayed (`tables.go:272`) instead of the
  phase: the exception in `DisplayIsPhase`, and why `StatusConverges` of
  `Reconciler` leaves the reason open once containers are shown.
- Certificates are looked at when the apiserver starts (`pki.go:53`): one that
  runs past their 365 days serves them expired. `ServesValidCerts` says "in date
  when this start looked".
- The package comment of `reconciler.go` (lines 5-11: no graceful strategy, no
  deletionTimestamp branch) is out of date: CheckGracefulDelete sets it and
  `reconcilePod` has the branch (`reconciler.go:205`), which is what is modelled.
- A new `server.crt` with an old `server.key` passes for valid (`pki.go:55`): the
  exception in `RepairedUnlessKeyExisted`. Build then fails at every start.
- A failure of kubelet-lite's log server ends the process "so the supervisor
  (`make up`) restarts" it (`cmd/kubelet-lite/main.go:99-100`); `scripts/dev.sh` does
  not supervise. `FailureStopsProcess` is about the end, not about a restart.
- kubelet-lite started together with the apiserver may find no kubeconfig, or an
  incomplete one, and exit, or read an older one and keep its CA for its whole
  life: `early` and `kgen` in `KubeletTrustsServer`.

Every property of a passing run has a mutant in `PROJECT.json`: a plausible bug
in one definition (the `Mut...` operators in the modules) that TLC must catch
with that property. No specification uses the `Mut...` operators.

### Bounds

- Two keys and two goroutines: all interactions in the store are between two
  requests, on one key (mutex) or on two (counter and ring); the theorems cover
  the other sizes.
- `MaxRV` 4 allows three writes: create, delete and create again on one key, or
  an update between two writes of another. `MaxFaults` 2 allows a failed persist
  followed by a restart. A request starts only if every request in flight can
  still draw its rv.
- `Cap` 1 or 2 instead of 1000: one event makes the window test bite at once.
- `Buf` 1 or 2 and `Initial` up to 3 instead of 100: fewer events than the
  channel holds, exactly as many, and more.
- `MaxUID` 2: an old Pod and its successor. `N` 2: a sandbox and a sibling.
  `MaxFaults` 1: one failed call, lost watch or restart at any point. The kubelet
  runs divide these between them (two Pods of one container each in
  `Reconciler`, one Pod of two containers in `Projection`; graceful deletion with
  faults, force-deletes without), because all of it together is beyond TLC's
  reach for liveness.
- Projection: `MaxWrites` 2 is a source that is written and then changed, spoiled
  or deleted; its contents have two keys, one of them, or one that is rejected.
  One volume suffices because volumes are written one after another, and the
  references before it stand for the others.
- LogStream: `MaxBytes` 2 and `Net` 1 let every buffer on the way be full at the
  same time with the container still logging; the queries have limits and tails
  of 0 and 1, with and without follow, an ambiguous container and a malformed
  value.
- Routing: two words suffice for "the same word names a namespace and an object"
  and for "another one"; three objects for one of each kind of neighbour.
- PodStatus: `N` 2, since the phase only asks whether some or all containers are
  in a state; a good and a bad way to end; requested graces of 0, of the default,
  and shorter, so that later requests shorten, repeat and lengthen. The theorems
  have every `Exits` and `Graces`.
- PKI: `MaxChanges` 2 and `MaxCrash` 2: a killed regeneration, killed again. There
  are no more generations than these allow.
- `StatusConverges` of `Reconciler` runs without faults: a stray patch needs two
  Pods and a slow worker, and faults on top of these are beyond TLC's reach for
  liveness; `reconciler_faults` has the retries.

The larger instances have 2,847,998 (`podstatus_phase`), 980,763
(`listwatch_sync`), 527,483 (`projection_volumes`), 402,526 (`routing_select`),
330,013 (`reconciler_faults`), 283,561 (`reconciler_force`), 242,980
(`log_requests`), 187,632 (`store_requests`) and 178,935 (`pki_safety`) distinct
states.

Runs that end for want of bounded input (watcher, reconciler, projection, logs)
do not check deadlock, and neither does `store_requests`, where a hung publish may
leave everybody waiting; the others do. Symmetry of keys and goroutines is used in the runs of
`ListWatch`, which have safety properties only.

### Fairness

- Store: a goroutine that can take a step of its request does (WF), and
  `sync.Mutex`, which hands over to a waiter of more than 1 ms, does not starve
  one (SF on `Lock` and `Bump`). No client has to send a request, no fault has to happen.
- Watcher: the same for publishers, Watch and Stop (SF, because they wait
  for `broadcaster.mu` or `stopOnce`). No client has to read its channel, and no
  context has to end.
- Kubelet (`Reconciler`, `Projection`): informer, handler, worker, resync timer
  and orphan ticker run on (WF). Users need do nothing; containers need not end;
  faults need not occur.
- Logs: goroutines run on and the 5 s of Shutdown pass. The client need not read
  or leave, the container need not log or end, and no timeout has to strike;
  `FiniteStreamEnds` alone assumes a client that keeps reading, and says so.

## 4. Proofs

Every theorem holds for all values of the constants that satisfy the named
assumptions of the module: numbers are naturals, the ring holds at least one
event, a Pod has a container, there is an address, `None` is not a goroutine, a
watcher, a client, a number, a Pod or a directory, no resource is both
namespaced and cluster-scoped, and the empty string is no name and no phase
(`ConstantsAssumption`, `WatchersAssumption`, `WatcherAssumption`,
`RoutingAssumption`, `ReconcilerAssumption`, `NoPodAssumption`,
`ProjectionAssumption`, `NoneAssumption`, `QueriesAssumption`,
`LogStreamAssumption`, `PodStatusAssumption`, `PKIAssumption`). The bounds on requests, faults, events and changes are
arbitrary numbers, so the theorems say the same of runs of any length. Each
inductive invariant below was also checked by TLC, on the instances of
section 3, before it was proved.

| Theorem | Statement | Module |
| --- | --- | --- |
| `TypeCorrect` | `Spec => []TypeOK` | `FSStorageProofs` |
| `EventsOrdered` | `Spec => []KeyEventsOrdered` | `FSStorageProofs` |
| `VersionsUnique` | `Spec => []RVUnique` | `FSStorageProofs` |
| `Conditional` | `Spec => CompareAndSwap` | `FSStorageProofs` |
| `EventsTellTheTruth` | `Spec => []IdleKeyAnnounced` | `FSStorageProofs` |
| `Refinement` | `Spec => Implements`, that is `KV!Spec` | `FSStorageProofs` |
| `CopiesFollowFiles` | `LWSpec => []LiveSynced` | `FSStorageProofs` |
| `WindowTestExact` | `LWSpec => ReplayCompleteInOrder` | `FSStorageProofs` |
| `StoreUnderneath` | `LWSpec => Spec /\ Implements` | `FSStorageProofs` |
| `WatcherTypes` | `Spec => []TypeOK` | `WatcherProofs` |
| `NeverPanics` | `Spec => []NoPanic` | `WatcherProofs` |
| `NoCircularWait` | `Spec => []NoLockCycle` | `WatcherProofs` |
| `ListsExact` | `Spec => []ListExact` | `RoutingProofs` |
| `CachesTrack` | `Spec => []CacheTracksSelection` | `RoutingProofs` |
| `DeafHearsNothing` | a watch of one cluster-scoped object is told of no write | `RoutingProofs` |
| `TypeCorrect` | `Spec => []TypeOK` | `ReconcilerProofs` |
| `OrphansOnly` | `Spec => OnlyOrphansRemoved` | `ReconcilerProofs` |
| `NamesakesOnly` | terminatePod deletes what nobody deleted only under a later Pod of the name | `ReconcilerProofs` |
| `ForgottenForGood` | a Pod that is gone and of which kubelet-lite has no copy stays forgotten and gets no container | `ReconcilerProofs` |
| `ProjectionTypes` | `Spec => []TypeOK` | `ProjectionProofs` |
| `SnapshotVolumes` | `Spec => []VolumeIsSnapshot` | `ProjectionProofs` |
| `VolumesOutliveContainers` | `Spec => []RunningHasVolumes` | `ProjectionProofs` |
| `LogStreamTypes` | `Spec => []TypeOK` | `LogStreamProofs` |
| `NothingLost` | `Spec => []CompleteUnlessCut` | `LogStreamProofs` |
| `Aggregates` | `Spec => []PhaseAggregates` | `PodStatusProofs` |
| `Displayed` | `Spec => []DisplayIsPhase` | `PodStatusProofs` |
| `PhaseSticks` | `Spec => TerminalPhaseSticks` | `PodStatusProofs` |
| `NothingUndone` | `Spec => OldCopiesUndoNothing` | `PodStatusProofs` |
| `ServesValid` | `Spec => []ServesValidCerts` | `PKIProofs` |
| `Repaired` | `Spec => []RepairedUnlessKeyExisted` | `PKIProofs` |
| `KubeletTrusts` | `Spec => []KubeletTrustsServer` | `PKIProofs` |

### The store

The argument has four layers, each an invariant that is inductive relative to
the ones before.

1. `CtlInv`: types, the shape of requests (`ReqInv`), and the lock discipline.
   Whoever serves a request holds its key's mutex and nobody else does
   (`LockInv`); the counter is ahead of its file by one while somebody is
   between increment and persist, and equal to it otherwise (`CounterInv`). The
   last is what makes `c.rv--` and a restart safe. `TypeOK` alone is not
   inductive: that a step reads fields of a request needs `ReqInv`.
2. `RVInv`: no version in a file, in an event or drawn by a request exceeds what
   `.rv` records; a drawn version is later than every event of its key and
   belongs to nobody else. `KeyEventsOrdered` by itself says nothing of the
   versions that are drawn and not yet published. The critical step is
   `Persist`: the version it draws is one more than `.rv`, hence more than
   everything visible. `Write` and `Publish` then move a version that is already
   known to be fresh.
3. `CurInv`: what a write read is what the file still holds, through the wait in
   `Counter.Next`, and it satisfied the precondition. Only the holder of the
   key's mutex writes the file, which is layer 1; that the drawn version exceeds
   the replaced one is layer 2.
4. `AnnInv`: the last event of a key describes its file, or an event was lost,
   or the holder of the key's mutex has changed the file and is about to say so
   (`AnnOK`); and what that request will say is what the file holds (`PubOK`).
   `IdleKeyAnnounced` is the case in which nobody holds the mutex.

Under the mapping `store <- file`, `top <- Load(rvFile)`, `Write` is a Create or
an Update of KVStore, `AdmitDelete` a Delete, `Persist` an Issue, and every
other step, `Crash` included, leaves the abstract state unchanged.

### List and watch

Every step of `LWSpec` is a step of `Spec` or leaves the store alone, so that
layers 1, 2 and 4, and the refinement, hold of `LWSpec` too (`StoreUnderneath`). On top of them `LWInv`:

- `LWControl`: a snapshot is taken by the holder of `broadcaster.mu`, so nothing
  is published meanwhile; a list or a snapshot that is over has read every file.
- `RingInv`: the ring holds events of the log, those of one key by ascending
  version, and all of them so while `inOrder`.
- `WindowInv`: while `inOrder`, an event of the log is in the ring or older than
  its first one, or else it is from before the last restart, and then it is
  older than every version drawn since and than the cursor of every client it
  was not taken away from. That makes `start + 1 < ring[0].rv` the exact test
  (`ResumeFinds`); `PublishKeepsWindow` is the step that pushes events out.
- `SyncedInv`: a client that is subscribed, or whose cursor has passed every
  event of the key, knows the key as the events have told it, or has read a file
  whose event is about to be published. For a list this is what noting the
  counter before the first file is good for: an event is above the noted
  version, or was published before the file was read, or the key is `overtaken`.

`LiveSynced` alone is not inductive: it says nothing of clients that are
disconnected or in the middle of a list, and `Resume` builds on those.
`ReplayAbout` is the fact about the replay: the last replayed event of a key is
the last of its log.

### Watcher channels

`WInv` has `TypeOK`; where each kind of goroutine can be and whom it stops
(`Places`); `sync.Once` (`OnceInv`: one goroutine in the body, and the channels
are closed exactly when it is done); that subscribers have their onStop
(`SubsInv`); and, while `Roomy`, what keeps a send from meeting a closed channel
(`RoomInv`): publishers stop nobody, the one that delivers holds the mutex and
has only subscribers before it, and nobody stops a watcher whose store.Watch is
still running. A closed channel then belongs to a watcher that has been taken
out of the subscribers before.

The same invariant bounds who waits for whom (`NoLockCycle`). A goroutine that
waits for a `stopOnce` waits for the one inside Do, which waits at most for
`broadcaster.mu`; while `Roomy`, the holder of that mutex is delivering. Without
`Roomy` the holder may itself be inside Do, which is the deadlock of
`watcher_slow`. Liveness proper (`PublishReturnsIfRoom`) stays with TLC.

### Keys and selection

What a request returns is a fact about the operators, and the state enters only
through `FilesInv`: every file is the path of an object. `PathOf` is injective
(`PathsDiffer`: two segments for a cluster-scoped object, three for another, so
that a namespace and an object of the same name do not collide), `KeyIs` lists
the four keys the registry can ask for, and `PrefixFound` and `KeyFound` say
that each leads to exactly the objects in the scope of the request (`InScope`):
a prefix for parsePrefix, a single key for parseKey. The predicate then decides
(`PredicateIs`, over whatever fields the selector names); `ListIs` is the sum.
`PassesIs` says the same of Watch's filter. `Tracks` is `CacheTracksSelection`
object by object, and inductive: a write to one object changes nothing for the
others (`OthersKept`), and an event about it passes exactly when it is wanted as
the event has it. What a client wanted before an update and does not after it
is `astray`. For the requests left out of it, `Deaf`, `DeafHearsNothing` proves
that no event passes.

### Reconciler

`TypeInv` refines `TypeOK` by place: the worker has a Pod in hand whenever it is
busy, its index belongs to the loop it is in, and a reap notification names a
Pod. The steps are first reduced to what they do to one group of variables
(`ApiStep`, `NoteStep`, `DockerStep`, `WorkerStepIs`, `ReapStepIs`), and the
invariants are then proved over those shapes.

`OnlyOrphansRemoved` relates containers to a Pod in the apiserver that the
kubelet's actors never look at. What they know is:

- `Gone(u)`: u was created and is not there; it stays so, because UIDs are not
  used again (`GoneStays`). `Seen(u)`: if u exists, the informer's store has it;
  it stays so too (`SeenStays`), because the store only moves forward.
- `StreamInv`: the apiserver's Pod is the newest, the events under way are in the
  order of UIDs and not older than the store, and DELETED is about a Pod gone.
- `OwnerInv`: every container, and the Pod in the worker's hand, is `Seen`; what
  the reaper has listed is `Seen`, so that a Pod missing from the store, compared
  afterwards, is `Gone`; notifications to reap, and what handler and reaper are
  removing, are about Pods that are `Gone`; and a container between create and
  start has not run, so that the removal after a failed start removes none that
  has. Listing Docker before the store (`reconciler.go:370`) is what
  makes the step from `Seen` to `Gone` sound.

`TermInv` follows deletionTimestamp through the copies: a Pod read as
terminating is terminating for as long as it exists. With it `NamesakesOnly`
says that the second Pod of `reconciler_samename` is the only kind of victim.
`Forgotten(u)` is `Gone(u)` with no copy left in the store, in the stream (but
for its DELETED) and in the worker's hand; it is stable and makes no container.
It is the state that `OrphansReaped` has to reach, which is liveness.

### Projection

`PInv` has, besides `TypeOK` and the two properties:

- `WriteInv`: while the worker writes a volume of a Pod that exists, the volume
  counts as not completed, has no file of another key unless it is `leftover`, and
  every key that is not on the worker's list any more has a file of the data that
  was read. Once the Pod is gone its directories may be removed, in part, under
  the worker, and nothing is claimed of them but that they are directories
  (`DirInv`). `VolumeIsSnapshot`
  says nothing of a volume that is being written, so it cannot carry over
  `WriteDone` by itself.
- `LifeInv`: the informer never runs ahead of the apiserver, a Pod it does not
  know yet has no container and no work, and handler and reaper are idle until
  the Pod is gone. Only those two remove directories; hence
  `RunningHasVolumes`, for which `EnsureStarts` has asked Docker with the
  directories in place and every rewriting (`PutStays`, `DirStays`) keeps them.

### Log streams

`LInv` has two halves. `Shape` is what holds whatever the bytes are: types, where
client, handlers and demultiplexer can be at the same time (`ClientPlaces`,
`ProxyPlaces`, `ServerPlaces`, `DemuxPlaces`), and that kubelet-lite has the
options of the client's own query (`OptsInv`, from `RoundTrip`: what is parsed,
encoded and parsed again is what was parsed first; `Ints`, the numerals that
strconv reads, is any function to the integers). `BytesInv` counts:

- `StreamInv`: what is on the way between demultiplexer and client, and what the
  client has (`Sum`), is at most what the limit has let pass (`Passed`).
- `AliveInv`: while nothing is cut off and the client is there, the two are
  equal; a pipe that is closed has passed all there will be (`Finished`); the
  log server's handler ends after the pipe, and the apiserver's after the log
  server's, with the connection empty. No hop distinguishes the end of its input
  from an error, so this order is all that `CompleteUnlessCut` rests on, and it
  has to hold at every place, not only when the client is done.

### Pod status

`StatusInv` ties the status to the views it was made from: `SrcInv` says that its
phase and container statuses are what PodStatusFromViews gives for `src`;
`ReadInv` that what clients keep and write back has been a Pod once; `GoneInv`
that nothing is left of a Pod that was deleted, so that what the worker still
sends of it is not taken for the next one's own. That a final phase stays needs
two more, because the worker's views are of different moments: `SeenInv`, a
container it has seen ended is still as it was then, since containers end once;
and `OwnInv`, what made the phase final (all containers ended with 0, or one that
did not) is in Docker and in whatever the worker has collected since. The spec
equals `asked` at all times (`Shape`), which is the spec part of `NothingUndone`.

### Certificates

`PKIInv` says what every place of the start may find on disk. While a new
identity is being written, the files before `next` have it and the others are
older (`WriteInv`); hence ca.key, written between the two certificates, is
theirs whenever they are of one generation (`KeyBetween`), and so is server.key
unless a kill left an old one in place (`KeyFollows`). From the decision to keep
the files on they are a pair that covers the address and had not expired when
that was decided (`checked`), whatever expires afterwards (`KeptInv`), the kubeconfig is made from them
(`ConfInv`), and a kubelet-lite that read one of the present generation has the
present CA (`KubeletInv`).

### Only model-checked

Everything about liveness, which is out of the prover's reach: `RequestsReturn`,
`PublishReturnsIfRoom`, `StoppedIsFreed`, `OrphansReaped`, `StatusConverges`,
`TerminationCompletes`, `VolumeConverges`, `VolumesReaped`, `FailureShown`,
`StreamsFreed`, `FiniteStreamEnds`, `FailureStopsProcess`. Every safety
invariant and every action property of the passing runs has a theorem. No
module declares a RECURSIVE operator, so that all of them can be proved about.

## 5. Not modelled

- Loss of power: atomicWrite does not sync the directory, so a rename may be
  lost; `Crash` is the end of the process, with the file system intact.
- Files that cannot be decoded (`IgnoreStoreReadError`),
  `Stats`, `GetCurrentResourceVersion`.
- The fallback `generateUID`: the registry supplies a UUID before Create.
- Event objects: they are written and never read. (While a pull keeps failing, a
  new one is posted at every resync.)
- OpenAPI names, table columns other than STATUS and READY, list helpers
  (reflection over Go types), flags, the construction of Docker's arguments: no
  state, no order.
- Secret.stringData and the finalizers of namespaces: conversions of one object
  inside one request.
- Label selectors, `timestamps` and `sinceSeconds`: they go the way of the field
  selectors and log options that are modelled.
- File modes and other attributes of projected volumes.
- The generic registry, client-go and Docker are outside the repository; what is
  assumed of them is in the definitions marked external in `PROJECT.json`
  (informer, users, Docker's containers, the HTTP handler of a watch).

## 6. Plan

Done: store, counter, list and watch, watcher channels, keys and selectors, the
reconciler for one name, projection, logs, Pod status and the strategies of
Pods, certificates and start-up; the proofs of section 4.

The safety properties are all proved; what is left to TLC is liveness. Worth
adding when the code changes: the composition of `Reconciler` with several Pod
names, which share the queue, and `Projection` at the grain of `Reconciler`.
