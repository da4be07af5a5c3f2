----------------------------- MODULE Projection ------------------------------
(***************************************************************************)
(* ConfigMaps and Secrets of one Pod: internal/kubelet/projection.go, run  *)
(* by ContainerSpecsFromPod at the top of EVERY reconcile, before Docker   *)
(* is asked anything.  Sources come and go while the Pod lives; their      *)
(* files are written in place under the containers that mount them, and    *)
(* removed with the containers by DeleteFunc or by the orphan reaper.      *)
(*                                                                         *)
(* ConfigMaps and Secrets are treated alike, and called sources.  A volume *)
(* has the name of its source.  Reconciler has the rest of the kubelet in  *)
(* more detail: here the informer jumps to the Pod's latest state, and     *)
(* ContainerCreate, ContainerStart and the Inspect after it are one step.  *)
(***************************************************************************)
EXTENDS Integers, Sequences, FiniteSets

CONSTANTS
  None,
  N,         \* containers in spec order; the first is the sandbox
  Refs,      \* what the containers refer to, in the order it is resolved
  Sources,   \* names of ConfigMaps and Secrets
  Keys,      \* keys of their data
  BadKeys,   \* those with a path separator; the apiserver admits them
  Contents,  \* sets of keys that a source may have
  MaxWrites, \* bound: writes and deletions of sources
  MaxFaults  \* bound: failed calls and restarts of kubelet-lite

Conts == 1 .. N

\* envFrom takes a whole source, env one key of it, vol mounts it; "other" is
\* a volume of another type, "dangling" a mount without a volume.
Ref == [cont : Conts, kind : {"envFrom", "env", "vol", "other", "dangling"},
        src : Sources, key : Keys, optional : BOOLEAN]

ASSUME ProjectionAssumption ==
  /\ N \in Nat \ {0} /\ MaxWrites \in Nat /\ MaxFaults \in Nat
  /\ Refs \in Seq(Ref)
  /\ BadKeys \subseteq Keys /\ Contents \subseteq SUBSET Keys

\* A source's data: its keys, and which write made it.
Data == [ver : 1 .. MaxWrites, keys : Contents]

\* None is not a directory.
ASSUME NoneAssumption == \A S \in SUBSET Keys : None \notin [S -> Data \cup {None}]

RefIdx == 1 .. Len(Refs)
Vols == {Refs[i].src : i \in {j \in RefIdx : Refs[j].kind = "vol"}}
MountsOf(c) ==
  {Refs[i].src : i \in {j \in RefIdx : Refs[j].kind = "vol" /\ Refs[j].cont = c}}

\* Failure messages: what went wrong, at which reference or container.
Reason == [what : {"missing", "get", "write", "start"}, at : Nat]
Because(w, i) == [what |-> w, at |-> i]

Views == [Conts -> {"none", "running", "exited"}]
NoViews == [c \in Conts |-> "none"]
NoStatus == [kind |-> "none", views |-> NoViews]
Status == [kind : {"none", "failed", "views"}, views : Views]
FailedStatus == [kind |-> "failed", views |-> NoViews]

VARIABLES
  source,  \* the ConfigMaps and Secrets in the apiserver, None if absent
  writes,  \* writes of sources so far
  pod,     \* the Pod in the apiserver: "none", "live", "term", "gone"
  status,  \* its status
  cache,   \* the Pod as the informer has it
  dirty,   \* its key is in the work queue
  failed,  \* failedPods: the message last reported, or None
  conts,   \* Docker's containers
  dir,     \* the Pod's volume directories, None if absent: the data that
           \* every file is from, None for a file cut off
  wpc, wi, wmsg, wdata, wtodo, wviews, \* worker: place, index, failure,
                                       \* data read, keys to write, views
  hpc, htodo,                    \* handler: place, containers to reap
  rpc, rlist,                    \* orphan reaper: place, containers listed
  faults,
  recovered, \* history: a status was shown since failed was recorded
  stranded,  \* history: worker or handler gave up, or was killed, or could
             \* not remove them, with directories there and no container
  torn,      \* history: volumes whose last writing was not completed
  leftover   \* history: volumes in which stale files could not be removed

apiVars == <<source, writes, pod, status>>
kubeVars == <<cache, dirty, failed>>
workerVars == <<wpc, wi, wmsg, wdata, wtodo, wviews>>
handlerVars == <<hpc, htodo>>
reaperVars == <<rpc, rlist>>
histVars == <<recovered, stranded, torn, leftover>>
vars == <<apiVars, kubeVars, conts, dir, workerVars, handlerVars, reaperVars,
          faults, histVars>>

Init ==
  /\ source = [s \in Sources |-> None] /\ writes = 0
  /\ pod = "none" /\ status = NoStatus
  /\ cache = "none" /\ dirty = FALSE /\ failed = None
  /\ conts = NoViews /\ dir = [v \in Vols |-> None]
  /\ wpc = "idle" /\ wi = 0 /\ wmsg = None /\ wdata = None /\ wtodo = {} /\ wviews = NoViews
  /\ hpc = "idle" /\ htodo = {} /\ rpc = "idle" /\ rlist = {}
  /\ faults = 0 /\ recovered = FALSE /\ stranded = FALSE /\ torn = {} /\ leftover = {}

Fail == faults < MaxFaults /\ faults' = faults + 1
Known(p) == p \in {"live", "term"}
NoContainer == \A c \in Conts : conts[c] = "none"
NoDirs == \A v \in Vols : dir[v] = None

-----------------------------------------------------------------------------
(* Users, and containers that end *)

\* (Bound: not any more once the Pod is gone.)
SetSource(s, d) ==
  /\ writes < MaxWrites
  /\ pod # "gone"
  /\ writes' = writes + 1
  /\ source' = [source EXCEPT ![s] = d]
  /\ UNCHANGED <<pod, status, kubeVars, conts, dir, workerVars, handlerVars,
                 reaperVars, faults, histVars>>

WriteSource(s, ks) == SetSource(s, [ver |-> writes + 1, keys |-> ks])
DeleteSource(s) == source[s] # None /\ SetSource(s, None)

SetPod(from, to) ==
  /\ pod \in from
  /\ pod' = to
  /\ status' = IF Known(to) THEN status ELSE NoStatus
  /\ UNCHANGED <<source, writes, kubeVars, conts, dir, workerVars,
                 handlerVars, reaperVars, faults, histVars>>

CreatePod == SetPod({"none"}, "live")
DeletePod == SetPod({"live"}, "term")
ForceDeletePod == SetPod({"live", "term"}, "gone")

ContainerExits(c) ==
  /\ conts[c] = "running"
  /\ conts' = [conts EXCEPT ![c] = "exited"]
  /\ UNCHANGED <<apiVars, kubeVars, dir, workerVars, handlerVars, reaperVars,
                 faults, histVars>>

-----------------------------------------------------------------------------
(* Informer *)

\* AddFunc and UpdateFunc queue the key, DeleteFunc starts to reap.
InformerSync ==
  /\ cache # pod
  /\ cache' = pod
  /\ IF Known(pod)
     THEN dirty' = TRUE /\ UNCHANGED <<failed, recovered, hpc>>
     ELSE /\ failed' = None /\ recovered' = FALSE /\ UNCHANGED dirty
          /\ hpc' = IF Known(cache) THEN "called" ELSE hpc
  /\ UNCHANGED <<apiVars, conts, dir, workerVars, htodo, reaperVars, faults,
                 stranded, torn, leftover>>

\* The resync timer, and the event of a status patch: they make a difference
\* once the worker is idle.
InformerResync ==
  /\ Known(cache)
  /\ ~dirty /\ wpc = "idle"
  /\ dirty' = TRUE
  /\ UNCHANGED <<apiVars, cache, failed, conts, dir, workerVars, handlerVars,
                 reaperVars, faults, histVars>>

-----------------------------------------------------------------------------
(* Worker *)

WorkerAt(place, i, m) ==
  /\ wpc' = place /\ wi' = i /\ wmsg' = m
  /\ wdata' = None /\ wtodo' = {} /\ wviews' = NoViews

WorkerReturns == WorkerAt("idle", 0, None)

WorkerGet ==
  /\ wpc = "idle"
  /\ dirty
  /\ dirty' = FALSE
  /\ CASE cache = "live" -> WorkerAt("project", 1, None)
       [] cache = "term" -> WorkerAt("stop", N, None)
       [] OTHER -> WorkerReturns
  /\ UNCHANGED <<apiVars, cache, failed, conts, dir, handlerVars, reaperVars,
                 faults, histVars>>

\* Mutant: a failure is recorded before it is patched.
MutFailureRecordsFirst(m) ==
  /\ IF failed = m
     THEN WorkerReturns /\ UNCHANGED <<failed, recovered>>
     ELSE WorkerAt("fail", 0, m) /\ failed' = m /\ recovered' = FALSE
  /\ stranded' = (stranded \/ (NoContainer /\ ~NoDirs))

\* markFailedOnce: silent when the same message was the last one reported.
Failure(m) ==
  /\ IF failed = m THEN WorkerReturns ELSE WorkerAt("fail", 0, m)
  /\ stranded' = (stranded \/ (NoContainer /\ ~NoDirs))
  /\ UNCHANGED <<failed, recovered>>

MarkFailed ==
  /\ wpc = "fail"
  /\ status' = IF Known(pod) THEN FailedStatus ELSE status
  /\ wpc' = "record"
  /\ UNCHANGED <<source, writes, pod, kubeVars, conts, dir, wi, wmsg, wdata,
                 wtodo, wviews, handlerVars, reaperVars, faults, histVars>>

RecordFailed ==
  /\ wpc = "record"
  /\ failed' = wmsg
  /\ recovered' = FALSE
  /\ WorkerReturns
  /\ UNCHANGED <<apiVars, cache, dirty, conts, dir, handlerVars, reaperVars,
                 faults, stranded, torn, leftover>>

\* A reference that cannot be resolved: no such source, or none of its keys.
Missing(r) ==
  /\ r.kind \in {"envFrom", "env", "vol"}
  /\ source[r.src] # None => r.kind = "env" /\ r.key \notin source[r.src].keys

\* It is an error unless the reference is optional.
RefFails(r) == r.kind = "dangling" \/ (Missing(r) /\ ~r.optional)

Projecting == wpc = "project" /\ wi \in RefIdx

ProjectFails ==
  /\ Projecting
  /\ RefFails(Refs[wi])
  /\ Failure(Because("missing", wi))
  /\ UNCHANGED <<apiVars, cache, dirty, conts, dir, handlerVars, reaperVars,
                 faults, torn, leftover>>

\* The source cannot be fetched, or the directory not made: an error for
\* optional references too.
GetFails ==
  /\ Projecting
  /\ Refs[wi].kind \in {"envFrom", "env", "vol"}
  /\ Fail
  /\ Failure(Because("get", wi))
  /\ UNCHANGED <<apiVars, cache, dirty, conts, dir, handlerVars, reaperVars, torn, leftover>>

\* resolveEnv takes the values or skips; a volume of another type is skipped;
\* an optional volume without its source is a directory, left as it is.
ProjectSkips ==
  /\ Projecting
  /\ LET r == Refs[wi]
     IN  /\ ~RefFails(r)
         /\ r.kind = "vol" => source[r.src] = None
         /\ dir' = IF r.kind = "vol" /\ dir[r.src] = None
                   THEN [dir EXCEPT ![r.src] = << >>]
                   ELSE dir
  /\ wi' = wi + 1
  /\ UNCHANGED <<apiVars, kubeVars, conts, wpc, wmsg, wdata, wtodo, wviews,
                 handlerVars, reaperVars, faults, histVars>>

\* Mutant: files whose keys are gone stay.
MutProjectKeepsStale(left) ==
  /\ Projecting
  /\ left = {}
  /\ LET r == Refs[wi]
     IN  /\ r.kind = "vol" /\ source[r.src] # None
         /\ wdata' = source[r.src]
         /\ wtodo' = source[r.src].keys
         /\ dir' = [dir EXCEPT ![r.src] = IF @ = None THEN << >> ELSE @]
         /\ torn' = torn \cup {r.src}
  /\ wpc' = "write"
  /\ UNCHANGED <<apiVars, kubeVars, conts, wi, wmsg, wviews, handlerVars, reaperVars,
                 faults, recovered, stranded, leftover>>

\* Otherwise writeKeyFiles: the directory, without the files whose keys are
\* not in the data just read, or with those left that ReadDir or Remove fail
\* for, which is no error ...
ProjectReads(left) ==
  /\ Projecting
  /\ LET r == Refs[wi]
         d == source[r.src]
         f == IF dir[r.src] = None THEN << >> ELSE dir[r.src]
     IN  /\ r.kind = "vol" /\ d # None
         /\ left \subseteq DOMAIN f \ d.keys
         /\ wdata' = d
         /\ wtodo' = d.keys
         /\ dir' = [dir EXCEPT ![r.src] = [k \in DOMAIN f \cap (d.keys \cup left) |-> f[k]]]
         /\ torn' = torn \cup {r.src}
         /\ IF left = {}
            THEN leftover' = leftover \ {r.src} /\ UNCHANGED faults
            ELSE leftover' = leftover \cup {r.src} /\ Fail
  /\ wpc' = "write"
  /\ UNCHANGED <<apiVars, kubeVars, conts, wi, wmsg, wviews, handlerVars, reaperVars,
                 recovered, stranded>>

Vol == Refs[wi].src
Put(f, k, x) == [j \in DOMAIN f \cup {k} |-> IF j = k THEN x ELSE f[j]]

\* Mutant: a file that is there is not written again.
MutWriteKeyOnce(k) ==
  /\ wpc = "write"
  /\ k \in wtodo \ BadKeys
  /\ dir[Vol] # None
  /\ dir' = IF k \in DOMAIN dir[Vol] THEN dir ELSE [dir EXCEPT ![Vol] = Put(@, k, wdata)]
  /\ wtodo' = wtodo \ {k}
  /\ UNCHANGED <<apiVars, kubeVars, conts, wpc, wi, wmsg, wdata, wviews, handlerVars,
                 reaperVars, faults, histVars>>

\* ... then its files one by one, in the order of a map iteration.
WriteKey(k) ==
  /\ wpc = "write"
  /\ k \in wtodo \ BadKeys
  /\ dir[Vol] # None
  /\ dir' = [dir EXCEPT ![Vol] = Put(@, k, wdata)]
  /\ wtodo' = wtodo \ {k}
  /\ UNCHANGED <<apiVars, kubeVars, conts, wpc, wi, wmsg, wdata, wviews, handlerVars,
                 reaperVars, faults, histVars>>

\* A key with a separator, or a directory removed meanwhile: the pass ends.
WriteRejected(k) ==
  /\ wpc = "write"
  /\ k \in wtodo
  /\ k \in BadKeys \/ dir[Vol] = None
  /\ Failure(Because("write", wi))
  /\ UNCHANGED <<apiVars, cache, dirty, conts, dir, handlerVars, reaperVars,
                 faults, torn, leftover>>

\* The disk refuses after WriteFile has truncated the file.
WriteFails(k) ==
  /\ wpc = "write"
  /\ k \in wtodo \ BadKeys
  /\ dir[Vol] # None
  /\ Fail
  /\ dir' = [dir EXCEPT ![Vol] = Put(@, k, None)]
  /\ Failure(Because("write", wi))
  /\ UNCHANGED <<apiVars, cache, dirty, conts, handlerVars, reaperVars, torn, leftover>>

WriteDone ==
  /\ wpc = "write"
  /\ wtodo = {}
  /\ wpc' = "project" /\ wi' = wi + 1 /\ wdata' = None
  /\ torn' = torn \ {Vol}
  /\ UNCHANGED <<apiVars, kubeVars, conts, dir, wmsg, wtodo, wviews, handlerVars,
                 reaperVars, faults, recovered, stranded, leftover>>

SpecsDone ==
  /\ wpc = "project"
  /\ wi \notin RefIdx
  /\ WorkerAt("ensure", 1, None)
  /\ UNCHANGED <<apiVars, kubeVars, conts, dir, handlerVars, reaperVars, faults,
                 histVars>>

\* A bind mount needs its directory, a sibling its running sandbox.
Startable(c) ==
  (\A v \in MountsOf(c) : dir[v] # None) /\ (c = 1 \/ conts[1] = "running")

Ensuring == wpc = "ensure" /\ wi \in Conts

EnsureExists ==
  /\ Ensuring
  /\ conts[wi] # "none"
  /\ wviews' = [wviews EXCEPT ![wi] = conts[wi]]
  /\ wi' = wi + 1
  /\ UNCHANGED <<apiVars, kubeVars, conts, dir, wpc, wmsg, wdata, wtodo, handlerVars,
                 reaperVars, faults, histVars>>

\* Mutant: the loop variable advances twice after a start.
MutEnsureStartsSkips ==
  /\ Ensuring
  /\ conts[wi] = "none"
  /\ Startable(wi)
  /\ conts' = [conts EXCEPT ![wi] = "running"]
  /\ wviews' = [wviews EXCEPT ![wi] = "running"]
  /\ wi' = wi + 2
  /\ UNCHANGED <<apiVars, kubeVars, dir, wpc, wmsg, wdata, wtodo, handlerVars,
                 reaperVars, faults, histVars>>

EnsureStarts ==
  /\ Ensuring
  /\ conts[wi] = "none"
  /\ Startable(wi)
  /\ conts' = [conts EXCEPT ![wi] = "running"]
  /\ wviews' = [wviews EXCEPT ![wi] = "running"]
  /\ wi' = wi + 1
  /\ UNCHANGED <<apiVars, kubeVars, dir, wpc, wmsg, wdata, wtodo, handlerVars,
                 reaperVars, faults, histVars>>

EnsureCannot ==
  /\ Ensuring
  /\ conts[wi] = "none"
  /\ ~Startable(wi)
  /\ Failure(Because("start", wi))
  /\ UNCHANGED <<apiVars, cache, dirty, conts, dir, handlerVars, reaperVars,
                 faults, torn, leftover>>

\* EnsurePulled fails: no image under the policy, or no registry.
EnsureFails ==
  /\ Ensuring
  /\ conts[wi] = "none"
  /\ Fail
  /\ Failure(Because("start", wi))
  /\ UNCHANGED <<apiVars, cache, dirty, conts, dir, handlerVars, reaperVars, torn, leftover>>

\* Mutant: containers are reported once.
MutPatchViewsOnce ==
  /\ wpc = "ensure"
  /\ wi \notin Conts
  /\ status' = IF Known(pod) /\ status.kind # "views"
               THEN [kind |-> "views", views |-> wviews] ELSE status
  /\ recovered' = (recovered \/ failed # None)
  /\ WorkerReturns
  /\ UNCHANGED <<source, writes, pod, kubeVars, conts, dir, handlerVars,
                 reaperVars, faults, stranded, torn, leftover>>

PatchViews ==
  /\ wpc = "ensure"
  /\ wi \notin Conts
  /\ status' = IF Known(pod) THEN [kind |-> "views", views |-> wviews] ELSE status
  /\ recovered' = (recovered \/ failed # None)
  /\ WorkerReturns
  /\ UNCHANGED <<source, writes, pod, kubeVars, conts, dir, handlerVars,
                 reaperVars, faults, stranded, torn, leftover>>

\* terminatePod: stop in reverse order, then delete with grace period 0.
StopContainer ==
  /\ wpc = "stop"
  /\ wi \in Conts
  /\ conts' = [conts EXCEPT ![wi] = IF @ = "running" THEN "exited" ELSE @]
  /\ wi' = wi - 1
  /\ UNCHANGED <<apiVars, kubeVars, dir, wpc, wmsg, wdata, wtodo, wviews, handlerVars,
                 reaperVars, faults, histVars>>

ForceDelete ==
  /\ wpc = "stop"
  /\ wi = 0
  /\ pod' = "gone" /\ status' = NoStatus
  /\ WorkerReturns
  /\ UNCHANGED <<source, writes, kubeVars, conts, dir, handlerVars,
                 reaperVars, faults, histVars>>

\* An Inspect, a patch or a delete fails: the key is queued again.
WorkerError ==
  /\ wpc \in {"ensure", "fail", "stop"}
  /\ Fail
  /\ WorkerReturns
  /\ dirty' = TRUE
  /\ stranded' = (stranded \/ (NoContainer /\ ~NoDirs))
  /\ UNCHANGED <<apiVars, cache, failed, conts, dir, handlerVars, reaperVars,
                 recovered, torn, leftover>>

-----------------------------------------------------------------------------
(* Removal *)

\* An error of RemoveAll is a warning: some of the directories and files stay.
\* Whoever called it does not come back once there is no container.
RemoveAll ==
  \/ /\ dir' = [v \in Vols |-> None]
     /\ torn' = {} /\ leftover' = {}
     /\ UNCHANGED <<faults, stranded>>
  \/ /\ Fail
     /\ \E rest \in SUBSET Vols, ks \in SUBSET Keys :
          dir' = [v \in Vols |-> IF dir[v] = None \/ v \notin rest THEN None
                                ELSE [k \in DOMAIN dir[v] \cap ks |-> dir[v][k]]]
     /\ stranded' = (stranded \/ (NoContainer /\ \E v \in Vols : dir'[v] # None))
     /\ UNCHANGED <<torn, leftover>>

\* reapByUID: without containers it returns, and leaves the directories.
ReapByUID ==
  /\ hpc = "called"
  /\ htodo' = {c \in Conts : conts[c] # "none"}
  /\ hpc' = IF htodo' = {} THEN "idle" ELSE "reap"
  /\ UNCHANGED <<apiVars, kubeVars, conts, dir, workerVars, reaperVars, faults,
                 histVars>>

ReapContainer(c) ==
  /\ hpc = "reap"
  /\ c \in htodo
  /\ conts' = [conts EXCEPT ![c] = "none"]
  /\ htodo' = htodo \ {c}
  /\ UNCHANGED <<apiVars, kubeVars, dir, workerVars, hpc, reaperVars, faults,
                 histVars>>

\* Remove fails: the other containers and the directories stay.
ReapGivesUp ==
  /\ hpc = "reap"
  /\ htodo # {}
  /\ Fail
  /\ hpc' = "idle" /\ htodo' = {}
  /\ stranded' = (stranded \/ (NoContainer /\ ~NoDirs))
  /\ UNCHANGED <<apiVars, kubeVars, conts, dir, workerVars, reaperVars,
                 recovered, torn, leftover>>

\* Mutant: the directories stay.
MutReapKeepsVolumes ==
  /\ hpc = "reap"
  /\ htodo = {}
  /\ hpc' = "idle"
  /\ UNCHANGED <<apiVars, kubeVars, conts, dir, workerVars, htodo, reaperVars,
                 faults, histVars>>

ReapVolumes ==
  /\ hpc = "reap"
  /\ htodo = {}
  /\ RemoveAll
  /\ hpc' = "idle"
  /\ UNCHANGED <<apiVars, kubeVars, conts, workerVars, htodo, reaperVars, recovered>>

\* Mutant: a terminating Pod does not count.
MutSweepTerminating(cs) ==
  /\ rpc = "idle"
  /\ cache # "live"
  /\ cs # {} /\ \A c \in cs : conts[c] # "none"
  /\ rlist' = cs
  /\ rpc' = "reap"
  /\ UNCHANGED <<apiVars, kubeVars, conts, dir, workerVars, handlerVars, faults,
                 histVars>>

\* reapOrphans, when the informer has no such Pod (otherwise it does nothing).
\* The containers were listed before, so that some may be missing.
OrphanSweep(cs) ==
  /\ rpc = "idle"
  /\ ~Known(cache)
  /\ cs # {} /\ \A c \in cs : conts[c] # "none"
  /\ rlist' = cs
  /\ rpc' = "reap"
  /\ UNCHANGED <<apiVars, kubeVars, conts, dir, workerVars, handlerVars, faults,
                 histVars>>

\* A failed Remove is only a warning here.
OrphanRemove(c) ==
  /\ rpc = "reap"
  /\ c \in rlist
  /\ rlist' = rlist \ {c}
  /\ \/ conts' = [conts EXCEPT ![c] = "none"] /\ UNCHANGED faults
     \/ Fail /\ UNCHANGED conts
  /\ UNCHANGED <<apiVars, kubeVars, dir, workerVars, handlerVars, rpc, histVars>>

OrphanVolumes ==
  /\ rpc = "reap"
  /\ rlist = {}
  /\ RemoveAll
  /\ rpc' = "idle"
  /\ UNCHANGED <<apiVars, kubeVars, conts, workerVars, handlerVars, rlist, recovered>>

-----------------------------------------------------------------------------
\* kubelet-lite ends, perhaps inside WriteFile, and starts again: memory is
\* lost, the informer lists first, containers and directories stay.
KubeletRestart ==
  /\ Fail
  /\ cache' = pod /\ dirty' = Known(pod) /\ failed' = None
  /\ WorkerReturns
  /\ hpc' = "idle" /\ htodo' = {} /\ rpc' = "idle" /\ rlist' = {}
  /\ recovered' = FALSE
  /\ stranded' = (stranded \/ (NoContainer /\ ~NoDirs))
  /\ \/ UNCHANGED dir
     \/ \E k \in wtodo \ BadKeys :
          wpc = "write" /\ dir[Vol] # None /\ dir' = [dir EXCEPT ![Vol] = Put(@, k, None)]
  /\ UNCHANGED <<apiVars, conts, torn, leftover>>

WorkerStep ==
  \/ WorkerGet \/ ProjectFails \/ ProjectSkips
  \/ \E left \in SUBSET Keys : ProjectReads(left)
  \/ \E k \in Keys : WriteKey(k) \/ WriteRejected(k)
  \/ WriteDone \/ SpecsDone \/ EnsureExists \/ EnsureStarts \/ EnsureCannot
  \/ PatchViews \/ MarkFailed \/ RecordFailed \/ StopContainer \/ ForceDelete

HandlerStep == ReapByUID \/ ReapVolumes \/ \E c \in Conts : ReapContainer(c)
ReaperStep ==
  \/ \E cs \in SUBSET Conts : OrphanSweep(cs)
  \/ \E c \in Conts : OrphanRemove(c)
  \/ OrphanVolumes

Next ==
  \/ \E s \in Sources : DeleteSource(s) \/ \E ks \in Contents : WriteSource(s, ks)
  \/ CreatePod \/ DeletePod \/ ForceDeletePod
  \/ \E c \in Conts : ContainerExits(c)
  \/ InformerSync \/ InformerResync
  \/ WorkerStep \/ GetFails \/ EnsureFails \/ WorkerError
  \/ \E k \in Keys : WriteFails(k)
  \/ HandlerStep \/ ReapGivesUp \/ ReaperStep
  \/ KubeletRestart

Spec == Init /\ [][Next]_vars

\* As in Reconciler: goroutines run and timers fire; nobody has to write a
\* source, delete the Pod or end a container.
FairSpec ==
  /\ Spec
  /\ WF_vars(InformerSync)
  /\ WF_vars(InformerResync)
  /\ WF_vars(WorkerStep)
  /\ WF_vars(HandlerStep)
  /\ WF_vars(ReaperStep)

-----------------------------------------------------------------------------
(* Properties *)

\* Every variable has its type; only the volumes of the Pod have directories.
TypeOK ==
  /\ source \in [Sources -> Data \cup {None}] /\ writes \in 0 .. MaxWrites
  /\ pod \in {"none", "live", "term", "gone"} /\ cache \in {"none", "live", "term", "gone"}
  /\ status \in Status /\ dirty \in BOOLEAN /\ failed \in Reason \cup {None}
  /\ conts \in Views
  /\ DOMAIN dir = Vols
  /\ \A v \in Vols : dir[v] # None =>
       DOMAIN dir[v] \subseteq Keys /\ \A k \in DOMAIN dir[v] : dir[v][k] \in Data \cup {None}
  /\ wpc \in {"idle", "project", "write", "ensure", "fail", "record", "stop"}
  /\ wi \in 0 .. 1 + (IF wpc \in {"project", "write"} THEN Len(Refs) ELSE N)
  /\ wmsg \in Reason \cup {None} /\ wdata \in Data \cup {None} /\ wtodo \subseteq Keys
  /\ wviews \in Views
  /\ hpc \in {"idle", "called", "reap"} /\ htodo \subseteq Conts
  /\ rpc \in {"idle", "reap"} /\ rlist \subseteq Conts
  /\ faults \in 0 .. MaxFaults /\ recovered \in BOOLEAN /\ stranded \in BOOLEAN
  /\ torn \subseteq Vols /\ leftover \subseteq Vols

Files(d) == [k \in d.keys |-> d]

\* While the Pod exists, a volume that is not being written has all files of
\* ONE version of its source, though they are written one by one and in place,
\* and though an earlier writing may have been cut off.  It has no other files,
\* unless the last pass over it could not remove them, which it does not tell.
VolumeIsSnapshot ==
  pod # "gone" => \A v \in Vols \ torn :
    dir[v] # None => \/ dir[v] = << >>
                     \/ \E d \in Data :
                          /\ \A k \in d.keys : k \in DOMAIN dir[v] /\ dir[v][k] = d
                          /\ v \notin leftover => DOMAIN dir[v] = d.keys

\* While a Pod exists its running containers have the directories they mount:
\* neither DeleteFunc nor the orphan reaper removes them too early.
RunningHasVolumes ==
  Known(pod) =>
    \A c \in Conts : conts[c] = "running" => \A v \in MountsOf(c) : dir[v] # None

\* The references before i, and i itself, let the projection pass.
Passable(i) ==
  /\ ~RefFails(Refs[i])
  /\ Refs[i].kind = "vol" /\ source[Refs[i].src] # None
       => source[Refs[i].src].keys \cap BadKeys = {}

\* A volume catches up with its source while the Pod lives, if it exists and
\* nothing before it in the order of the containers cannot be resolved: one
\* missing source freezes the volumes after it.
VolumeConverges ==
  \A i \in RefIdx :
    Refs[i].kind = "vol" =>
      LET v == Refs[i].src
      IN  <>[](pod = "live" /\ source[v] # None /\ \A j \in 1 .. i : Passable(j))
            => <>[](source[v] # None /\ dir[v] = Files(source[v]))

Broken == \E i \in RefIdx : ~Passable(i)

\* "missing required sources return an error so reconcileFails surfaces it":
\* a Pod with a reference that stays unresolved is shown as failed, unless it
\* had failed before and recovered, whose message failedPods still holds.
FailureShown ==
  <>[](pod = "live" /\ Broken) => <>[](status.kind = "failed" \/ recovered)

\* A Pod that stays comes to show its containers or a failure; the exception
\* is a failure kept silent after a recovery, under which nothing is patched
\* any more, not even the end of a container.
StatusConverges ==
  <>[](pod = "live") =>
    <>[](\/ status = FailedStatus
         \/ status = [kind |-> "views", views |-> conts]
         \/ recovered /\ (Broken \/ \E c \in Conts : conts[c] = "none"))

\* "Stale projection dirs are removed when the pod is reaped": they are when
\* there was a container to reap.  Directories of a reconcile that gave up, or
\* was killed, with no container in Docker stay for ever, and so do those that
\* RemoveAll failed for after the last container was removed.
VolumesReaped ==
  <>[](pod = "gone") => <>[](NoDirs \/ stranded)
=============================================================================
