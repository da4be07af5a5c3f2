------------------------------ MODULE PodStatus ------------------------------
(***************************************************************************)
(* The status of one Pod from Docker to the STATUS column: the views of    *)
(* its containers, PodStatusFromViews and FailedPodStatus                  *)
(* (internal/kubelet/translate.go), the JSON merge patch of patchStatus,   *)
(* and podDisplayStatus (internal/apiserver/tables.go); and the Pod under  *)
(* the strategies of internal/apiserver/strategy.go, where another client  *)
(* creates, replaces and deletes it.                                       *)
(*                                                                         *)
(* kubelet-lite's worker takes a Pod, looks at its containers one by one,  *)
(* starting those that are missing, and sends what it has seen at the end, *)
(* by name: in the meantime the Pod may have been deleted and another one  *)
(* created, and the Pod it takes may be one that is gone already (the      *)
(* informer's cache lags behind).                                          *)
(***************************************************************************)
EXTENDS Integers, Sequences

CONSTANTS
  N,         \* containers of the Pod
  None,
  Period,    \* spec.terminationGracePeriodSeconds, or the default of 30
  Graces,    \* gracePeriodSeconds that clients ask for
  Exits,     \* how containers end: some of Ended
  MaxSpec    \* bound: versions of the spec

ASSUME PodStatusAssumption ==
  /\ N \in Nat \ {0} /\ MaxSpec \in Nat
  /\ Graces \subseteq Nat /\ Period \in Nat /\ None \notin Nat
  /\ Exits \subseteq {"zero", "nonzero", "oom"}

Conts == 1 .. N

\* A container: not created, running, or ended with exit code 0, with
\* another one, or OOMKilled (possibly with exit code 0).
View == {"missing", "running", "zero", "nonzero", "oom"}
Ended == {"zero", "nonzero", "oom"}

VARIABLES
  views,   \* Docker's containers of the Pod
  status,  \* pod.status in the apiserver
  spec,    \* the version of pod.spec, or None when there is no Pod
  grace,   \* metadata: deletionGracePeriodSeconds, None before deletion
  read,    \* the Pod as a client read it last, or None
  work,    \* the worker has in hand "none", this Pod ("own") or a deleted one ("old")
  seen,    \* the views of this Pod's containers it has collected
  src,     \* history: what the last status was made from, << >> for other than views
  own,     \* history: Succeeded or Failed when this Pod's own views last said so
  asked,   \* history: the spec of the last create or PUT
  untouched \* history: nobody has written the status

podVars == <<spec, grace>>
workVars == <<work, seen>>
histVars == <<src, own, asked, untouched>>
vars == <<views, status, podVars, read, workVars, histVars>>

\* Fields of corev1.PodStatus; "" and << >> are the zero values, which
\* omitempty leaves out of a patch.  (message is left out: no column shows it.)
EmptyStatus == [phase |-> "", reason |-> "", cs |-> << >>]

-----------------------------------------------------------------------------
(* PodStatusFromViews *)

ContainerStatus(v) ==
  CASE v = "missing" -> [state |-> "Waiting", reason |-> "ContainerCreating", ready |-> FALSE]
    [] v = "running" -> [state |-> "Running", reason |-> "", ready |-> TRUE]
    [] v = "zero" -> [state |-> "Terminated", reason |-> "Completed", ready |-> FALSE]
    [] v = "nonzero" -> [state |-> "Terminated", reason |-> "Error", ready |-> FALSE]
    [] v = "oom" -> [state |-> "Terminated", reason |-> "OOMKilled", ready |-> FALSE]

\* Mutant: one container that ended with 0 is enough for Succeeded.
MutPhaseAnyZero(vs) ==
  IF \E c \in Conts : vs[c] \in {"nonzero", "oom"} THEN "Failed"
  ELSE IF \E c \in Conts : vs[c] = "missing" THEN "Pending"
  ELSE IF \E c \in Conts : vs[c] = "zero" THEN "Succeeded"
  ELSE "Running"

Phase(vs) ==
  LET anyFailed == \E c \in Conts : vs[c] \in {"nonzero", "oom"}
      anyMissing == \E c \in Conts : vs[c] = "missing"
      anyRunning == \E c \in Conts : vs[c] = "running"
  IN  IF anyFailed THEN "Failed"
      ELSE IF anyMissing THEN "Pending"
      ELSE IF anyRunning THEN "Running"
      ELSE "Succeeded"

PodStatusFromViews(vs) ==
  [phase |-> Phase(vs),
   reason |-> "",
   cs |-> [c \in Conts |-> ContainerStatus(vs[c])]]

FailedPodStatus ==
  [phase |-> "Failed", reason |-> "KubeletLite", cs |-> << >>]

-----------------------------------------------------------------------------
(* patchStatus: a merge patch replaces the fields it mentions *)

\* Mutant: container statuses are written once.
MutMergeKeepsOld(old, new) ==
  [phase |-> IF new.phase = "" THEN old.phase ELSE new.phase,
   reason |-> IF new.reason = "" THEN old.reason ELSE new.reason,
   cs |-> IF old.cs = << >> THEN new.cs ELSE old.cs]

Merge(old, new) ==
  [phase |-> IF new.phase = "" THEN old.phase ELSE new.phase,
   reason |-> IF new.reason = "" THEN old.reason ELSE new.reason,
   cs |-> IF new.cs = << >> THEN old.cs ELSE new.cs]

\* No Pod has the name; one may have had it.
Init ==
  /\ views = [c \in Conts |-> "missing"]
  /\ status = EmptyStatus
  /\ spec = None /\ grace = None
  /\ read = None
  /\ work = "none" /\ seen = << >>
  /\ src = << >> /\ own = "" /\ asked = None /\ untouched = TRUE

\* Docker's restart policy is disabled: a container ends once.
End(c, v) ==
  /\ views[c] = "running"
  /\ views' = [views EXCEPT ![c] = v]
  /\ UNCHANGED <<status, podVars, read, workVars, histVars>>

-----------------------------------------------------------------------------
(* reconcilePod *)

WorkerGet ==
  /\ work = "none"
  /\ work' \in {"own", "old"} /\ (work' = "own" => spec # None)
  /\ UNCHANGED <<views, status, podVars, read, seen, histVars>>

\* CreateAndStart, in spec order.
Start(c) ==
  /\ work = "own"
  /\ c = Len(seen) + 1
  /\ views[c] = "missing"
  /\ views' = [views EXCEPT ![c] = "running"]
  /\ UNCHANGED <<status, podVars, read, workVars, histVars>>

\* The next container exists.
Inspect(c) ==
  /\ work = "own"
  /\ c = Len(seen) + 1
  /\ views[c] # "missing"
  /\ seen' = Append(seen, views[c])
  /\ UNCHANGED <<views, status, podVars, read, work, histVars>>

\* The next item of the queue.
Done == work' = "none" /\ seen' = << >>

\* ContainerSpecsFromPod fails, before any container is looked at, or the pull
\* or the start of a missing one does: markFailedOnce.
PatchFailed ==
  /\ spec # None
  /\ work # "none"
  /\ \/ seen = << >>
     \/ Len(seen) < N /\ views[Len(seen) + 1] = "missing"
  /\ Done
  /\ status' = Merge(status, FailedPodStatus)
  /\ src' = << >> /\ untouched' = FALSE
  /\ UNCHANGED <<views, podVars, read, own, asked>>

\* The end of reconcilePod: the patch goes to whoever has the name.  The
\* containers of a deleted Pod may have been in any state.
PatchViews(vs) ==
  /\ spec # None
  /\ work = "old" \/ (work = "own" /\ vs = seen)
  /\ Done
  /\ status' = Merge(status, PodStatusFromViews(vs))
  /\ src' = vs /\ untouched' = FALSE
  /\ own' = IF work = "old" THEN own
            ELSE IF Phase(vs) \in {"Succeeded", "Failed"} THEN Phase(vs) ELSE ""
  /\ UNCHANGED <<views, podVars, read, asked>>

\* An error of Docker or of the apiserver, a failure that was reported before,
\* or no Pod of that name: nothing is patched.
WorkerReturns ==
  /\ work # "none"
  /\ Done
  /\ UNCHANGED <<views, status, podVars, read, histVars>>

-----------------------------------------------------------------------------
(* Another client, and the strategies *)

\* A Pod as it is read, and as a client writes it back.
Pod == [spec |-> spec, grace |-> grace, status |-> status]

\* resetStatus; the registry clears the deletion fields.
PrepareForCreate(pod) == [pod EXCEPT !.status = EmptyStatus, !.grace = None]

\* objectStrategy leaves the object alone, its status too; the registry keeps
\* the deletion fields.
PrepareForUpdate(new, old) == [new EXCEPT !.grace = old.grace]

\* Mutant: only the spec is replayed.
MutReplaySpec(new, old) == [old EXCEPT !.status = new.status, !.grace = new.grace]

\* podStatusStrategy replays spec and metadata from the existing object.
PrepareForStatusUpdate(new, old) == [old EXCEPT !.status = new.status]

Store(pod) == spec' = pod.spec /\ grace' = pod.grace /\ status' = pod.status

Read ==
  /\ spec # None
  /\ read' = Pod
  /\ UNCHANGED <<views, status, podVars, workVars, histVars>>

\* A new Pod, or one from a manifest that was read before.
Create(pod) ==
  /\ spec = None
  /\ Store(PrepareForCreate(pod))
  /\ asked' = pod.spec
  /\ UNCHANGED <<views, src, own, untouched, read, workVars>>

\* The status now is the one that a client has read once.
WroteBack ==
  /\ src' = << >> /\ untouched' = (untouched /\ read.status = EmptyStatus)
  /\ UNCHANGED <<views, read, workVars, own>>

\* PUT without resourceVersion or UID: the client sends back what it read, with
\* the spec changed or not.  What others have made of the spec is lost.
Put(s) ==
  /\ spec # None /\ read # None
  /\ Store(PrepareForUpdate([read EXCEPT !.spec = s], Pod))
  /\ asked' = s
  /\ WroteBack

PutStatus ==
  /\ spec # None /\ read # None
  /\ Store(PrepareForStatusUpdate(read, Pod))
  /\ asked' = asked
  /\ WroteBack

\* The grace period in force; 0 is not graceful.
CheckGracefulDelete(g) == IF g = None THEN Period ELSE g

\* The Pod is gone, and what the worker has in hand, if it was this Pod, is a
\* deleted one now.  The next Pod of the name has its own containers.
Remove ==
  /\ spec' = None /\ grace' = None /\ status' = EmptyStatus
  /\ work' = (IF work = "own" THEN "old" ELSE work) /\ seen' = << >>
  /\ views' = [c \in Conts |-> "missing"]
  /\ src' = << >> /\ own' = "" /\ asked' = None /\ untouched' = TRUE

\* DELETE: once a grace period runs it can only be shortened.
Delete(g) ==
  /\ spec # None
  /\ IF (IF grace = None THEN CheckGracefulDelete(g) ELSE g) = 0 THEN Remove
     ELSE /\ grace' = IF grace = None THEN CheckGracefulDelete(g)
                      ELSE IF g = None \/ g >= grace THEN grace ELSE g
          /\ UNCHANGED <<views, status, spec, workVars, histVars>>
  /\ UNCHANGED read

Next ==
  \/ \E c \in Conts, v \in Exits : End(c, v)
  \/ WorkerGet
  \/ \E c \in Conts : Start(c) \/ Inspect(c)
  \/ \E vs \in [Conts -> Exits \cup {"running"}] : PatchViews(vs)
  \/ PatchFailed \/ WorkerReturns
  \/ Read \/ PutStatus
  \/ \E s \in 0 .. MaxSpec : Put(s)
  \/ Create([spec |-> 0, grace |-> None, status |-> EmptyStatus])
  \/ read # None /\ Create(read)
  \/ \E g \in Graces \cup {None} : Delete(g)

Spec == Init /\ [][Next]_vars

-----------------------------------------------------------------------------
(* The columns STATUS and READY *)

Noted(s) == {c \in DOMAIN s.cs : s.cs[c].reason # ""}

\* Mutant: the phase is preferred to the containers' and the Pod's reasons.
MutDisplayPhaseFirst(s, g) ==
  IF g # None THEN "Terminating" ELSE IF s.phase # "" THEN s.phase ELSE IF s.reason # "" THEN s.reason ELSE "Pending"

podDisplayStatus(s, g) ==
  IF g # None THEN "Terminating"
  ELSE IF Noted(s) # {} THEN s.cs[CHOOSE c \in Noted(s) : \A d \in Noted(s) : c <= d].reason
  ELSE IF s.reason # "" THEN s.reason
  ELSE IF s.phase = "" THEN "Pending"
  ELSE s.phase

podReady(s) == {c \in DOMAIN s.cs : s.cs[c].ready}

-----------------------------------------------------------------------------
(* Properties *)

\* The phase says of the containers what the list before PodStatusFromViews
\* says: Succeeded when all ended with exit code 0, Failed when one did not,
\* Running when all run or some run and the rest ended early with 0.  No older
\* container state is left, nor a status that another client has written back:
\* READY counts exactly the containers that ran.
PhaseAggregates ==
  src # << >> =>
    /\ podReady(status) = {c \in Conts : src[c] = "running"}
    /\ status.phase = "Succeeded" <=> \A c \in Conts : src[c] = "zero"
    /\ status.phase = "Failed" <=> \E c \in Conts : src[c] \in {"nonzero", "oom"}
    /\ (\A c \in Conts : src[c] \in {"running", "zero"})
         /\ (\E c \in Conts : src[c] = "running") => status.phase = "Running"

\* Once kubelet-lite has reported a Pod from its own containers as Succeeded or
\* Failed, every later report from them says the same, however the exits of its
\* containers fall between the inspections and whatever else was written to the
\* status in between: a failure to resolve a ConfigMap (which is reported over
\* a Succeeded Pod, as Failed, until the next report from the containers), what
\* a pass over an earlier Pod of the name sends, or a client's old copy.
TerminalPhaseSticks ==
  [][(own \in {"Succeeded", "Failed"} /\ spec' # None) => (own' = own)]_vars

\* "terminated containers report Reason; otherwise the Pod phase": a Pod with
\* an ended container is displayed with the reason of the first one, a Pod whose
\* containers all run with its phase, unless status.reason is set (the reason
\* of an earlier failure, which no later patch clears).  A new Pod is Pending
\* until somebody reports on it, though it may come from a manifest that
\* carries the status of an earlier Pod.
DisplayIsPhase ==
  spec # None /\ grace = None =>
    /\ src # << >> => \A c \in Conts :
         src[c] \in Ended /\ (\A d \in 1 .. c - 1 : src[d] = "running") =>
           podDisplayStatus(status, grace) = ContainerStatus(src[c]).reason
    /\ src # << >> /\ (\A c \in Conts : src[c] = "running") /\ status.reason = "" =>
         podDisplayStatus(status, grace) = "Running"
    /\ untouched =>
         podDisplayStatus(status, grace) = "Pending" /\ podReady(status) = {}

\* The deletion of a Pod is final and its grace period only gets shorter:
\* neither a PUT nor a status update with a copy from before the deletion, nor
\* another DELETE, can undo it, and a Pod created from such a copy is not being
\* deleted.  The spec is the one of the last create or PUT: what writes the
\* status, however old the object it is made from, leaves the spec alone.  (A
\* PUT of an old copy does take the spec back: AllowUnconditionalUpdate.)
OldCopiesUndoNothing ==
  [][/\ (spec # None /\ grace # None /\ spec' # None) =>
          (grace' # None /\ grace' <= grace)
     /\ (spec = None) => (grace' = None)
     /\ (spec' = asked')]_vars
=============================================================================
