----------------------------- MODULE Reconciler ------------------------------
(***************************************************************************)
(* internal/kubelet/reconciler.go: the Pods of one name from the apiserver *)
(* to Docker.  The actors are                                              *)
(*                                                                         *)
(*   - users, who create the Pod, delete it gracefully or at once, and     *)
(*     create it again (with a new UID);                                   *)
(*   - the informer, which applies watch events to its cache and notifies  *)
(*     the handler goroutine, in order but later;                          *)
(*   - the handler goroutine: AddFunc/UpdateFunc queue the key, DeleteFunc *)
(*     reaps containers by UID;                                            *)
(*   - the single worker: reconcilePod starts what is missing and patches  *)
(*     the status, terminatePod stops everything and force-deletes;        *)
(*   - the orphan reaper, and Docker, where containers end by themselves.  *)
(*                                                                         *)
(* The queue holds at most the one key; API calls address the Pod by name. *)
(***************************************************************************)
EXTENDS Integers, Sequences, FiniteSets

CONSTANTS
  None,      \* no Pod
  MaxUID,    \* bound: Pods created under the name
  N,         \* containers in spec order, 1 .. N; the first is the sandbox
  MaxFaults, \* bound: failures, restarts and lost watches, together
  Deletions  \* how users delete: "graceful", or "force" (grace period 0)

ASSUME ReconcilerAssumption ==
  /\ MaxUID \in Nat /\ N \in Nat \ {0} /\ MaxFaults \in Nat
  /\ Deletions \subseteq {"graceful", "force"}

UIDs == 1 .. MaxUID
Conts == 1 .. N
\* Failure messages: one per container that cannot be pulled or started, and
\* one for a spec that cannot be translated (a ConfigMap is missing).
SpecError == N + 1
Reasons == Conts \cup {SpecError}
\* A container in Docker: "created" is one that has not been started.
ContState == {"none", "created", "running", "exited"}
Views == [Conts -> {"none", "running", "exited"}]
\* A status: what the last patch was, FailedPodStatus or made from views; the
\* container statuses in it; the Pod whose failure gave it its reason, 0 for
\* none; and, history, the Pod the last patch was meant for.
Status ==
  [kind : {"none", "failed", "views"}, views : Views, reason : UIDs \cup {0},
   by : UIDs \cup {0}]
Pod == [uid : UIDs, term : BOOLEAN, st : Status]

ASSUME NoPodAssumption == None \notin Pod

VARIABLES
  pod,     \* the Pod in the apiserver
  lastUid, \* UIDs given out
  stream,  \* watch events on their way to the informer
  cache,   \* the informer's store, read by the lister
  notify,  \* notifications on their way to the handler goroutine
  dirty,   \* the key is in the work queue
  failed,  \* failedPods: the reason last reported for every UID, 0 for none
  conts,   \* Docker's containers, by Pod UID and container
  wpc, wpod, wi, wviews,  \* worker: place, Pod read, container, views so far
  htodo, huid,            \* handler: containers to reap, and of which UID
  rpc, rlist,             \* orphan reaper: place, containers listed or to go
  faults

kubeVars == <<cache, notify, dirty, failed>>
workerVars == <<wpc, wpod, wi, wviews>>
handlerVars == <<htodo, huid>>
reaperVars == <<rpc, rlist>>
apiVars == <<pod, lastUid, stream>>
vars == <<apiVars, kubeVars, conts, workerVars, handlerVars, reaperVars, faults>>

NoViews == [c \in Conts |-> "none"]
NoStatus == [kind |-> "none", views |-> NoViews, reason |-> 0, by |-> 0]
\* FailedPodStatus has no container statuses; PodStatusFromViews no reason.
FailedStatus(u) == [kind |-> "failed", views |-> NoViews, reason |-> u, by |-> u]
ViewsStatus(v, u) == [kind |-> "views", views |-> v, reason |-> 0, by |-> u]

Init ==
  /\ pod = None /\ lastUid = 0 /\ stream = << >>
  /\ cache = None /\ notify = << >> /\ dirty = FALSE /\ failed = [u \in UIDs |-> 0]
  /\ conts = [u \in UIDs |-> NoViews]
  /\ wpc = "idle" /\ wpod = None /\ wi = 0 /\ wviews = NoViews
  /\ htodo = {} /\ huid = 0
  /\ rpc = "idle" /\ rlist = {}
  /\ faults = 0

Fail == faults < MaxFaults /\ faults' = faults + 1

-----------------------------------------------------------------------------
(* The apiserver, as its clients see it *)

Emit(t, p) == stream' = Append(stream, [type |-> t, pod |-> p])

UserCreate ==
  /\ pod = None
  /\ lastUid < MaxUID
  /\ lastUid' = lastUid + 1
  /\ pod' = [uid |-> lastUid + 1, term |-> FALSE, st |-> NoStatus]
  /\ Emit("ADDED", pod')
  /\ UNCHANGED <<kubeVars, conts, workerVars, handlerVars, reaperVars, faults>>

\* podGracefulStrategy: deletionTimestamp is set, the object stays.
UserDelete ==
  /\ "graceful" \in Deletions
  /\ pod # None
  /\ ~pod.term
  /\ pod' = [pod EXCEPT !.term = TRUE]
  /\ Emit("MODIFIED", pod')
  /\ UNCHANGED <<lastUid, kubeVars, conts, workerVars, handlerVars, reaperVars,
                 faults>>

\* DELETE with gracePeriodSeconds=0, by name: whatever Pod has it now goes.
RemovePod ==
  IF pod = None
  THEN UNCHANGED apiVars
  ELSE /\ pod' = None
       /\ Emit("DELETED", pod)
       /\ UNCHANGED lastUid

UserForceDelete ==
  /\ "force" \in Deletions
  /\ pod # None
  /\ RemovePod
  /\ UNCHANGED <<kubeVars, conts, workerVars, handlerVars, reaperVars, faults>>

\* A merge patch leaves alone what it does not mention.
Merge(old, new) ==
  [new EXCEPT !.views = IF new.kind = "failed" THEN old.views ELSE @,
              !.reason = IF new.kind = "views" THEN old.reason ELSE @]

\* Mutant: a status of the same kind counts as unchanged.
MutPatchStatusCoarse(s) ==
  IF pod = None \/ pod.st.kind = s.kind
  THEN UNCHANGED apiVars
  ELSE /\ pod' = [pod EXCEPT !.st = Merge(@, s)]
       /\ Emit("MODIFIED", pod')
       /\ UNCHANGED lastUid

\* PATCH of /status by name.  NotFound is no error; a patch that changes
\* nothing is not written and makes no event.
PatchStatus(s) ==
  IF pod = None \/ pod.st = Merge(pod.st, s)
  THEN UNCHANGED apiVars
  ELSE /\ pod' = [pod EXCEPT !.st = Merge(@, s)]
       /\ Emit("MODIFIED", pod')
       /\ UNCHANGED lastUid

-----------------------------------------------------------------------------
(* Docker *)

ContainerExits(u, c) ==
  /\ conts[u][c] = "running"
  /\ conts' = [conts EXCEPT ![u][c] = "exited"]
  /\ UNCHANGED <<apiVars, kubeVars, workerVars, handlerVars, reaperVars, faults>>

Managed == {x \in UIDs \X Conts : conts[x[1]][x[2]] # "none"}

-----------------------------------------------------------------------------
(* Informer *)

KeyNote == [kind |-> "key", uid |-> 0]
ReapNote(u) == [kind |-> "reap", uid |-> u]

InformerPop ==
  /\ stream # << >>
  /\ LET e == Head(stream)
     IN  IF e.type = "DELETED"
         THEN /\ cache' = None
              /\ notify' = Append(notify, ReapNote(e.pod.uid))
         ELSE /\ cache' = e.pod
              /\ notify' = Append(notify, KeyNote)
  /\ stream' = Tail(stream)
  /\ UNCHANGED <<pod, lastUid, dirty, failed, conts, workerVars, handlerVars,
                 reaperVars, faults>>

\* The watch ended and the informer lists again.  A name that is still there
\* is an update, also when the UID is another; one that is gone is a
\* DeletedFinalStateUnknown.
InformerRelist ==
  /\ Fail
  /\ stream' = << >>
  /\ cache' = pod
  /\ notify' = CASE pod # None -> Append(notify, KeyNote)
                 [] pod = None /\ cache # None -> Append(notify, ReapNote(cache.uid))
                 [] OTHER -> notify
  /\ UNCHANGED <<pod, lastUid, dirty, failed, conts, workerVars, handlerVars,
                 reaperVars>>

\* The resync timer; bounded by firing only when nothing is queued.
InformerResync ==
  /\ cache # None
  /\ notify = << >>
  /\ ~dirty
  /\ notify' = << KeyNote >>
  /\ UNCHANGED <<apiVars, cache, dirty, failed, conts, workerVars, handlerVars,
                 reaperVars, faults>>

-----------------------------------------------------------------------------
(* Handler goroutine *)

HandleKey ==
  /\ htodo = {}
  /\ notify # << >>
  /\ Head(notify).kind = "key"
  /\ notify' = Tail(notify)
  /\ dirty' = TRUE
  /\ UNCHANGED <<apiVars, cache, failed, conts, workerVars, handlerVars,
                 reaperVars, faults>>

\* Mutant: DeleteFunc reaps what the name stands for now.
MutHandleDeleteByName ==
  /\ htodo = {}
  /\ notify # << >>
  /\ Head(notify).kind = "reap"
  /\ LET u == IF cache = None THEN Head(notify).uid ELSE cache.uid
     IN  /\ failed' = [failed EXCEPT ![u] = 0]
         /\ htodo' = {c \in Conts : conts[u][c] # "none"}
         /\ huid' = IF htodo' = {} THEN 0 ELSE u
  /\ notify' = Tail(notify)
  /\ UNCHANGED <<apiVars, cache, dirty, conts, workerVars, reaperVars, faults>>

\* DeleteFunc: forget the failure, list the containers of the UID.
HandleDelete ==
  /\ htodo = {}
  /\ notify # << >>
  /\ Head(notify).kind = "reap"
  /\ LET u == Head(notify).uid
     IN  /\ failed' = [failed EXCEPT ![u] = 0]
         /\ htodo' = {c \in Conts : conts[u][c] # "none"}
         /\ huid' = IF htodo' = {} THEN 0 ELSE u
  /\ notify' = Tail(notify)
  /\ UNCHANGED <<apiVars, cache, dirty, conts, workerVars, reaperVars, faults>>

\* Stop and Remove.
HandleRemove(c) ==
  /\ c \in htodo
  /\ conts' = [conts EXCEPT ![huid][c] = "none"]
  /\ htodo' = htodo \ {c}
  /\ huid' = IF htodo' = {} THEN 0 ELSE huid
  /\ UNCHANGED <<apiVars, kubeVars, workerVars, reaperVars, faults>>

\* Remove fails: reapByUID returns and leaves the others as well.
HandlerGivesUp ==
  /\ htodo # {}
  /\ Fail
  /\ htodo' = {} /\ huid' = 0
  /\ UNCHANGED <<apiVars, kubeVars, conts, workerVars, reaperVars>>

-----------------------------------------------------------------------------
(* Worker *)

\* reconcileKey returns; its locals are gone.
WorkerReturns == wpc' = "idle" /\ wpod' = None /\ wi' = 0 /\ wviews' = NoViews

\* processNext, reconcileKey and the branches at the top of reconcilePod.
WorkerGet ==
  /\ wpc = "idle"
  /\ dirty
  /\ dirty' = FALSE
  /\ wpod' = cache
  /\ wviews' = NoViews
  /\ \/ cache = None /\ wpc' = "idle" /\ wi' = 0
     \/ cache # None /\ cache.term /\ wpc' = "stop" /\ wi' = N
     \/ cache # None /\ ~cache.term /\ wpc' = "ensure" /\ wi' = 1
  /\ UNCHANGED <<apiVars, cache, notify, failed, conts, handlerVars, reaperVars,
                 faults>>

\* What Inspect says of a container: running, or else ended, with exit code 0
\* when it has never been started or is not there.
Inspect(u, c) == IF conts[u][c] = "running" THEN "running" ELSE "exited"

\* Inspect finds the container.
EnsureExists ==
  /\ wpc = "ensure"
  /\ wi <= N
  /\ conts[wpod.uid][wi] # "none"
  /\ wviews' = [wviews EXCEPT ![wi] = Inspect(wpod.uid, wi)]
  /\ wi' = wi + 1
  /\ UNCHANGED <<apiVars, kubeVars, conts, wpc, wpod, handlerVars, reaperVars,
                 faults>>

\* Inspect finds nothing; EnsurePulled and ContainerCreate succeed.
EnsureCreate ==
  /\ wpc = "ensure"
  /\ wi <= N
  /\ conts[wpod.uid][wi] = "none"
  /\ conts' = [conts EXCEPT ![wpod.uid][wi] = "created"]
  /\ wpc' = "start"
  /\ UNCHANGED <<apiVars, kubeVars, wpod, wi, wviews, handlerVars, reaperVars,
                 faults>>

\* The container is still there, and a sibling can only join the network of a
\* running sandbox.
Startable(u, c) ==
  conts[u][c] = "created" /\ (c = 1 \/ conts[u][1] = "running")

\* ContainerStart succeeds.
EnsureStart ==
  /\ wpc = "start"
  /\ Startable(wpod.uid, wi)
  /\ conts' = [conts EXCEPT ![wpod.uid][wi] = "running"]
  /\ wpc' = "view"
  /\ UNCHANGED <<apiVars, kubeVars, wpod, wi, wviews, handlerVars, reaperVars,
                 faults>>

\* Mutant: the loop variable advances twice after a start.
MutViewStartedSkips ==
  /\ wpc = "view"
  /\ wviews' = [wviews EXCEPT ![wi] = "running"]
  /\ wi' = wi + 2
  /\ wpc' = "ensure"
  /\ UNCHANGED <<apiVars, kubeVars, conts, wpod, handlerVars, reaperVars, faults>>

\* Inspect after the start ignores whether the container still exists.
ViewStarted ==
  /\ wpc = "view"
  /\ wviews' = [wviews EXCEPT ![wi] = Inspect(wpod.uid, wi)]
  /\ wi' = wi + 1
  /\ wpc' = "ensure"
  /\ UNCHANGED <<apiVars, kubeVars, conts, wpod, handlerVars, reaperVars, faults>>

\* markFailedOnce: nothing to do when this reason has been reported.
Failure(m) ==
  IF failed[wpod.uid] = m
  THEN WorkerReturns
  ELSE wpc' = "fail" /\ wi' = m /\ UNCHANGED <<wpod, wviews>>

\* ContainerSpecsFromPod fails, whether the containers run or not.
SpecsFail ==
  /\ wpc = "ensure"
  /\ wi = 1
  /\ Fail
  /\ Failure(SpecError)
  /\ UNCHANGED <<apiVars, kubeVars, conts, handlerVars, reaperVars>>

\* EnsurePulled or ContainerCreate fails.
EnsureFails ==
  /\ wpc = "ensure"
  /\ wi <= N
  /\ conts[wpod.uid][wi] = "none"
  /\ Fail
  /\ Failure(wi)
  /\ UNCHANGED <<apiVars, kubeVars, conts, handlerVars, reaperVars>>

\* ContainerStart fails, for want of a sandbox or of the container itself,
\* and the container is removed.
StartFails ==
  /\ wpc = "start"
  /\ ~Startable(wpod.uid, wi)
  /\ conts' = [conts EXCEPT ![wpod.uid][wi] = "none"]
  /\ Failure(wi)
  /\ UNCHANGED <<apiVars, kubeVars, handlerVars, reaperVars, faults>>

\* ContainerStart fails by chance, or the removal after it, whose error is
\* ignored: the container may stay.
StartGoesWrong ==
  /\ wpc = "start"
  /\ Fail
  /\ \/ conts' = [conts EXCEPT ![wpod.uid][wi] = "none"]
     \/ UNCHANGED conts
  /\ Failure(wi)
  /\ UNCHANGED <<apiVars, kubeVars, handlerVars, reaperVars>>

\* Otherwise patch, and record only after the patch.
MarkFailed ==
  /\ wpc = "fail"
  /\ PatchStatus(FailedStatus(wpod.uid))
  /\ wpc' = "record"
  /\ UNCHANGED <<kubeVars, conts, wpod, wi, wviews, handlerVars, reaperVars, faults>>

RecordFailed ==
  /\ wpc = "record"
  /\ failed' = [failed EXCEPT ![wpod.uid] = wi]
  /\ WorkerReturns
  /\ UNCHANGED <<apiVars, cache, notify, dirty, conts, handlerVars, reaperVars, faults>>

PatchViews ==
  /\ wpc = "ensure"
  /\ wi > N
  /\ PatchStatus(ViewsStatus(wviews, wpod.uid))
  /\ WorkerReturns
  /\ UNCHANGED <<kubeVars, conts, handlerVars, reaperVars, faults>>

\* terminatePod: reverse order, the sandbox last.
StopContainer ==
  /\ wpc = "stop"
  /\ wi >= 1
  /\ conts' = [conts EXCEPT ![wpod.uid][wi] = IF @ = "running" THEN "exited" ELSE @]
  /\ wi' = wi - 1
  /\ UNCHANGED <<apiVars, kubeVars, wpc, wpod, wviews, handlerVars, reaperVars,
                 faults>>

\* A failed Stop is a warning; terminatePod goes on.
StopSkips ==
  /\ wpc = "stop"
  /\ wi >= 1
  /\ Fail
  /\ wi' = wi - 1
  /\ UNCHANGED <<apiVars, kubeVars, conts, wpc, wpod, wviews, handlerVars,
                 reaperVars>>

\* Mutant: terminatePod stops the containers and leaves the Pod.
MutTerminateOnly ==
  /\ wpc = "stop"
  /\ wi = 0
  /\ WorkerReturns
  /\ UNCHANGED <<apiVars, kubeVars, conts, handlerVars, reaperVars, faults>>

ForceDelete ==
  /\ wpc = "stop"
  /\ wi = 0
  /\ RemovePod
  /\ WorkerReturns
  /\ UNCHANGED <<kubeVars, conts, handlerVars, reaperVars, faults>>

\* A Docker or API call fails: the key goes back to the queue.
WorkerError ==
  /\ wpc \in {"ensure", "view", "stop", "fail"}
  /\ Fail
  /\ WorkerReturns
  /\ dirty' = TRUE
  /\ UNCHANGED <<apiVars, cache, notify, failed, conts, handlerVars, reaperVars>>

-----------------------------------------------------------------------------
(* Orphan reaper: first Docker's containers, then the informer's Pods *)

ReapList ==
  /\ rpc = "idle"
  /\ Managed # {}
  /\ rlist' = Managed
  /\ rpc' = "listed"
  /\ UNCHANGED <<apiVars, kubeVars, conts, workerVars, handlerVars, faults>>

\* Mutant: nothing is an orphan while no Pod is known.
MutReapNeedsPods ==
  /\ rpc = "listed"
  /\ rlist' = {x \in rlist : cache # None /\ cache.uid # x[1]}
  /\ rpc' = "reap"
  /\ UNCHANGED <<apiVars, kubeVars, conts, workerVars, handlerVars, faults>>

ReapCompare ==
  /\ rpc = "listed"
  /\ rlist' = {x \in rlist : cache = None \/ cache.uid # x[1]}
  /\ rpc' = "reap"
  /\ UNCHANGED <<apiVars, kubeVars, conts, workerVars, handlerVars, faults>>

ReapRemove(x) ==
  /\ rpc = "reap"
  /\ x \in rlist
  /\ conts' = [conts EXCEPT ![x[1]][x[2]] = "none"]
  /\ rlist' = rlist \ {x}
  /\ UNCHANGED <<apiVars, kubeVars, workerVars, handlerVars, rpc, faults>>

\* A failed Remove is a warning; the reaper goes on with the others.
ReapSkip(x) ==
  /\ rpc = "reap"
  /\ x \in rlist
  /\ Fail
  /\ rlist' = rlist \ {x}
  /\ UNCHANGED <<apiVars, kubeVars, conts, workerVars, handlerVars, rpc>>

ReapDone ==
  /\ rpc = "reap"
  /\ rlist = {}
  /\ rpc' = "idle"
  /\ UNCHANGED <<apiVars, kubeVars, conts, workerVars, handlerVars, rlist, faults>>

-----------------------------------------------------------------------------
\* kubelet-lite starts again: its memory is gone, the informer lists the Pods
\* before anything else runs, Docker keeps its containers.
KubeletRestart ==
  /\ Fail
  /\ stream' = << >>
  /\ cache' = pod
  /\ notify' = IF pod = None THEN << >> ELSE << KeyNote >>
  /\ dirty' = FALSE
  /\ failed' = [u \in UIDs |-> 0]
  /\ WorkerReturns
  /\ htodo' = {} /\ huid' = 0
  /\ rpc' = "idle" /\ rlist' = {}
  /\ UNCHANGED <<pod, lastUid, conts>>

WorkerStep ==
  \/ WorkerGet \/ EnsureExists \/ EnsureCreate \/ EnsureStart \/ StartFails
  \/ ViewStarted \/ MarkFailed \/ RecordFailed \/ PatchViews \/ StopContainer \/ ForceDelete

HandlerStep == HandleKey \/ HandleDelete \/ \E c \in Conts : HandleRemove(c)

ReaperStep ==
  ReapList \/ ReapCompare \/ ReapDone \/ \E x \in UIDs \X Conts : ReapRemove(x)

Next ==
  \/ UserCreate \/ UserDelete \/ UserForceDelete
  \/ \E u \in UIDs, c \in Conts : ContainerExits(u, c)
  \/ InformerPop \/ InformerRelist \/ InformerResync
  \/ HandlerStep \/ HandlerGivesUp
  \/ WorkerStep \/ WorkerError \/ SpecsFail \/ EnsureFails \/ StartGoesWrong
  \/ StopSkips
  \/ ReaperStep \/ \E x \in UIDs \X Conts : ReapSkip(x)
  \/ KubeletRestart

Spec == Init /\ [][Next]_vars

\* The kubelet's goroutines run and its timers fire; users do what they like.
Fairness ==
  /\ WF_vars(InformerPop)
  /\ WF_vars(InformerResync)
  /\ WF_vars(HandlerStep)
  /\ WF_vars(WorkerStep)
  /\ WF_vars(ReaperStep)

FairSpec == Spec /\ Fairness

-----------------------------------------------------------------------------
(* Properties *)

\* Every variable has its type; the worker's index stays within the spec.
TypeOK ==
  /\ pod \in Pod \cup {None} /\ cache \in Pod \cup {None}
  /\ lastUid \in 0 .. MaxUID
  /\ stream \in Seq([type : {"ADDED", "MODIFIED", "DELETED"}, pod : Pod])
  /\ notify \in Seq([kind : {"key", "reap"}, uid : UIDs \cup {0}])
  /\ dirty \in BOOLEAN
  /\ failed \in [UIDs -> Reasons \cup {0}]
  /\ conts \in [UIDs -> [Conts -> ContState]]
  /\ wpc \in {"idle", "ensure", "start", "view", "fail", "record", "stop"}
  /\ wpod \in Pod \cup {None} /\ wi \in 0 .. N + 1 /\ wviews \in Views
  /\ htodo \subseteq Conts /\ huid \in UIDs \cup {0}
  /\ rpc \in {"idle", "listed", "reap"} /\ rlist \subseteq UIDs \X Conts
  /\ faults \in 0 .. MaxFaults

Known(u) == pod # None /\ pod.uid = u

\* A container that has run is removed only when its Pod is gone, by
\* DeleteFunc or by the orphan reaper, whatever the informer has not heard of
\* yet.  The reaper
\* lists containers BEFORE Pods: a container in its list had a Pod in the
\* cache when it was started.
OnlyOrphansRemoved ==
  [][\A u \in UIDs, c \in Conts :
       conts[u][c] \in {"running", "exited"} /\ conts'[u][c] = "none"
         => ~Known(u)]_vars

\* Every container of a Pod that is gone is removed in the end and does not
\* come back, though a worker with an old Pod in hand may still start it
\* after DeleteFunc has looked, and though DeleteFunc is never called for a
\* Pod replaced during a relist.
OrphansReaped ==
  \A u \in UIDs :
    <>[](~Known(u)) => <>[](\A c \in Conts : conts[u][c] = "none")

\* What PodStatusFromViews makes of the containers of u.
Shown(u) ==
  [c \in Conts |-> IF conts[u][c] = "none" THEN "none" ELSE Inspect(u, c)]

\* The status of a Pod that stays comes to describe its own containers, or its
\* own failure, also after patches meant for an earlier Pod of the name have hit
\* it.  What does not come right is the reason of a failure that containers
\* have followed, its own or an earlier Pod's: no patch clears it.
StatusConverges ==
  \A u \in UIDs :
    <>[](Known(u) /\ ~pod.term)
      => <>[](/\ pod # None /\ pod.st.by = u
              /\ \/ pod.st.kind = "failed" /\ pod.st.reason = u
                 \/ pod.st.kind = "views" /\ pod.st.views = Shown(u))

\* Graceful deletion is completed: a Pod does not stay terminating.
TerminationCompletes ==
  \A u \in UIDs : Known(u) /\ pod.term ~> ~Known(u)

\* kubelet-lite finalizes the deletions users asked for and no others:
\* terminatePod's force-delete is "Idempotent".
OnlyRequestedDeletions ==
  [][pod # None /\ ~pod.term /\ wpc = "stop" /\ wpc' = "idle" => pod' # None]_vars
=============================================================================
