-------------------------- MODULE ProjectionProofs ---------------------------
(***************************************************************************)
(* Proofs about Projection, for every number of containers, every list of  *)
(* references, all sources and keys, and any number of writes and faults:  *)
(* what is in the directories of the volumes, and how long they stay.      *)
(***************************************************************************)
EXTENDS Projection, TLAPS

-----------------------------------------------------------------------------
(* The inductive invariant *)

\* A directory: for every file the data it is from, None if it was cut off.
IsDir(d) == DOMAIN d \subseteq Keys /\ d \in [DOMAIN d -> Data \cup {None}]

DirInv == DOMAIN dir = Vols /\ \A v \in Vols : dir[v] # None => IsDir(dir[v])

\* While the worker writes a volume of a Pod that exists, the files of the data
\* it has read are there or still on its list, and others only if they could
\* not be removed.  Once the Pod is gone directories may be removed under it.
WriteInv ==
  wpc = "write" =>
    /\ wi \in RefIdx /\ Refs[wi].kind = "vol"
    /\ wdata \in Data /\ wtodo \subseteq wdata.keys
    /\ pod # "gone" /\ dir[Vol] # None =>
         /\ Vol \in torn
         /\ Vol \notin leftover => DOMAIN dir[Vol] \subseteq wdata.keys
         /\ \A k \in wdata.keys \ wtodo : k \in DOMAIN dir[Vol] /\ dir[Vol][k] = wdata

\* The informer is behind the apiserver and never ahead; nothing has happened
\* for a Pod it does not know yet, and nothing is removed for one that exists.
LifeInv ==
  /\ pod = "none" => cache = "none"
  /\ cache = "gone" => pod = "gone"
  /\ cache = "none" => NoContainer /\ wpc = "idle" /\ ~dirty
  /\ pod # "gone" => hpc = "idle" /\ rpc = "idle"

PInv == TypeOK /\ DirInv /\ WriteInv /\ VolumeIsSnapshot /\ LifeInv /\ RunningHasVolumes

-----------------------------------------------------------------------------
(* Directories *)

LEMMA DirIsThere ==
  ASSUME NEW d, IsDir(d)
  PROVE  d # None
BY NoneAssumption DEF IsDir

LEMMA EmptyDir == IsDir(<< >>)
<1>1. DOMAIN << >> = {} OBVIOUS
<1>2. << >> \in [{} -> Data \cup {None}] OBVIOUS
<1> QED BY <1>1, <1>2 DEF IsDir

\* A file is written, or truncated.
LEMMA PutIs ==
  ASSUME NEW d, IsDir(d), NEW k \in Keys, NEW x \in Data \cup {None}
  PROVE  /\ IsDir(Put(d, k, x))
         /\ DOMAIN Put(d, k, x) = DOMAIN d \cup {k}
         /\ Put(d, k, x)[k] = x
         /\ \A j \in DOMAIN d : j # k => Put(d, k, x)[j] = d[j]
BY DEF Put, IsDir

\* Files are removed.
LEMMA RestrictIs ==
  ASSUME NEW d, IsDir(d), NEW S
  PROVE  IsDir([k \in DOMAIN d \cap S |-> d[k]])
BY DEF IsDir

\* One directory changes.
LEMMA DirChange ==
  ASSUME DirInv, NEW v \in Vols, NEW d, IsDir(d), dir' = [dir EXCEPT ![v] = d]
  PROVE  /\ DirInv' /\ dir'[v] = d /\ dir'[v] # None
         /\ \A u \in Vols : u # v => dir'[u] = dir[u]
<1>1. /\ DOMAIN dir' = Vols /\ dir'[v] = d
      /\ \A u \in Vols : u # v => dir'[u] = dir[u]
  BY DEF DirInv
<1>2. d # None BY DirIsThere
<1>3. \A u \in Vols : dir'[u] # None => IsDir(dir'[u]) BY <1>1 DEF DirInv
<1> QED BY <1>1, <1>2, <1>3 DEF DirInv

LEMMA VolIsVol ==
  ASSUME NEW i \in RefIdx, Refs[i].kind = "vol"
  PROVE  Refs[i].src \in Vols
BY DEF Vols

\* What holds of the directories, whatever happens around them.
VolInv == DirInv /\ WriteInv /\ VolumeIsSnapshot

LEMMA VolInit == Init => VolInv
BY DEF Init, VolInv, DirInv, WriteInv, VolumeIsSnapshot

\* Steps that write nothing, of the worker and of the others.
LEMMA VolKept ==
  ASSUME VolInv, UNCHANGED <<dir, torn, leftover>>, pod = "gone" => pod' = "gone",
         wpc' # "write" \/ UNCHANGED <<wpc, wi, wdata, wtodo>>
  PROVE  VolInv'
<1>1. DirInv' BY DEF VolInv, DirInv
<1>2. VolumeIsSnapshot' BY DEF VolInv, VolumeIsSnapshot
<1>3. WriteInv' BY DEF VolInv, WriteInv, Vol
<1> QED BY <1>1, <1>2, <1>3 DEF VolInv

\* A directory changes whose writing is not completed.
LEMMA SnapshotKept ==
  ASSUME VolInv, NEW v, pod = "gone" => pod' = "gone",
         pod # "gone" => v \in torn', torn \subseteq torn',
         \A u \in Vols : u # v => dir'[u] = dir[u] /\ (u \in leftover => u \in leftover'),
         \A u \in Vols : u # v => (u \in leftover' => u \in leftover)
  PROVE  VolumeIsSnapshot'
BY DEF VolInv, VolumeIsSnapshot

\* What writeKeyFiles leaves in the directory it starts from.
LEMMA ReadsShape ==
  ASSUME TypeOK, VolInv, NEW left, ProjectReads(left),
         NEW v, v = Refs[wi].src, NEW d, d = source[v]
  PROVE  /\ wi \in RefIdx /\ Refs[wi].kind = "vol" /\ v \in Vols /\ d \in Data
         /\ wdata' = d /\ wtodo' = d.keys /\ torn' = torn \cup {v}
         /\ \/ leftover' = leftover \ {v}
            \/ leftover' = leftover \cup {v}
         /\ DirInv' /\ dir'[v] # None /\ \A u \in Vols : u # v => dir'[u] = dir[u]
         /\ v \notin leftover' => DOMAIN dir'[v] \subseteq d.keys
         /\ UNCHANGED <<pod, conts, wi, failed>> /\ (UNCHANGED faults \/ Fail)
<1> USE DEF apiVars, kubeVars
<1>1. PICK f : f = IF dir[v] = None THEN << >> ELSE dir[v] OBVIOUS
<1>2. PICK n : n = [k \in DOMAIN f \cap (d.keys \cup left) |-> f[k]] OBVIOUS
<1>3. /\ wi \in RefIdx /\ Refs[wi].kind = "vol" /\ d # None
      /\ wdata' = d /\ wtodo' = d.keys /\ torn' = torn \cup {v}
      /\ UNCHANGED <<pod, conts, wi, failed>>
  BY DEF ProjectReads, Projecting
<1>4. IF left = {} THEN leftover' = leftover \ {v} /\ UNCHANGED faults
                  ELSE leftover' = leftover \cup {v} /\ Fail
  BY DEF ProjectReads
<1>5. dir' = [dir EXCEPT ![v] = n] BY <1>1, <1>2 DEF ProjectReads
<1>6. v \in Vols BY <1>3, VolIsVol
<1>7. d \in Data
  <2>1. Refs[wi] \in Ref BY <1>3, ProjectionAssumption DEF RefIdx
  <2>2. v \in Sources BY <2>1 DEF Ref
  <2> QED BY <1>3, <2>2 DEF TypeOK
<1>8. IsDir(f)
  <2>1. CASE dir[v] = None BY <1>1, <2>1, EmptyDir
  <2>2. CASE dir[v] # None BY <1>1, <1>6, <2>2 DEF VolInv, DirInv
  <2> QED BY <2>1, <2>2
<1>9. IsDir(n) BY <1>2, <1>8, RestrictIs
<1>10. /\ DirInv' /\ dir'[v] = n /\ dir'[v] # None
       /\ \A u \in Vols : u # v => dir'[u] = dir[u]
  BY <1>5, <1>6, <1>9, DirChange DEF VolInv
<1>11. v \notin leftover' => DOMAIN n \subseteq d.keys BY <1>2, <1>4
<1> QED BY <1>3, <1>4, <1>6, <1>7, <1>10, <1>11

LEMMA VolReads ==
  ASSUME TypeOK, VolInv, NEW left, ProjectReads(left)
  PROVE  VolInv'
<1>1. PICK v, d : v = Refs[wi].src /\ d = source[v] OBVIOUS
<1>2. /\ wi \in RefIdx /\ Refs[wi].kind = "vol" /\ v \in Vols /\ d \in Data
      /\ wdata' = d /\ wtodo' = d.keys /\ torn' = torn \cup {v}
      /\ leftover' = leftover \ {v} \/ leftover' = leftover \cup {v}
      /\ DirInv' /\ \A u \in Vols : u # v => dir'[u] = dir[u]
      /\ v \notin leftover' => DOMAIN dir'[v] \subseteq d.keys
      /\ UNCHANGED <<pod, wi>>
  BY <1>1, ReadsShape
<1>3. WriteInv'
  <2>1. Vol' = v BY <1>1, <1>2 DEF Vol
  <2> QED BY <1>2, <2>1 DEF WriteInv
<1>4. VolumeIsSnapshot' BY <1>2, SnapshotKept
<1> QED BY <1>2, <1>3, <1>4 DEF VolInv

LEMMA VolSkips ==
  ASSUME VolInv, ProjectSkips
  PROVE  VolInv'
<1>1. PICK v : v = Refs[wi].src OBVIOUS
<1>2. wi \in RefIdx /\ UNCHANGED <<pod, torn, leftover, wpc>> /\ wpc = "project"
  BY DEF ProjectSkips, Projecting, apiVars, histVars
<1>3. CASE Refs[wi].kind = "vol" /\ dir[v] = None
  <2>1. dir' = [dir EXCEPT ![v] = << >>] BY <1>1, <1>3 DEF ProjectSkips
  <2>2. v \in Vols BY <1>1, <1>2, <1>3, VolIsVol
  <2>3. /\ DirInv' /\ dir'[v] = << >>
        /\ \A u \in Vols : u # v => dir'[u] = dir[u]
    BY <2>1, <2>2, EmptyDir, DirChange DEF VolInv
  <2>4. VolumeIsSnapshot' BY <1>2, <2>3 DEF VolInv, VolumeIsSnapshot
  <2> QED BY <1>2, <2>3, <2>4 DEF VolInv, WriteInv
<1>4. CASE ~ (Refs[wi].kind = "vol" /\ dir[v] = None)
  <2>1. dir' = dir BY <1>1, <1>4 DEF ProjectSkips
  <2> QED BY <1>2, <2>1, VolKept
<1> QED BY <1>3, <1>4

LEMMA VolWrites ==
  ASSUME VolInv, NEW k \in Keys, WriteKey(k)
  PROVE  VolInv'
<1>1. PICK v : v = Vol OBVIOUS
<1>2. /\ wpc = "write" /\ k \in wtodo /\ dir[v] # None
      /\ dir' = [dir EXCEPT ![v] = Put(@, k, wdata)]
      /\ wtodo' = wtodo \ {k}
      /\ UNCHANGED <<pod, wpc, wi, wdata, torn, leftover>>
  BY <1>1 DEF WriteKey, apiVars, histVars
<1>3. /\ wi \in RefIdx /\ Refs[wi].kind = "vol" /\ v \in Vols
      /\ wdata \in Data /\ wtodo \subseteq wdata.keys
      /\ pod # "gone" =>
           /\ v \in torn
           /\ v \notin leftover => DOMAIN dir[v] \subseteq wdata.keys
           /\ \A j \in wdata.keys \ wtodo : j \in DOMAIN dir[v] /\ dir[v][j] = wdata
  BY <1>1, <1>2, VolIsVol DEF VolInv, WriteInv, Vol
<1>4. IsDir(dir[v]) BY <1>2, <1>3 DEF VolInv, DirInv
<1>5. PICK n : n = Put(dir[v], k, wdata) OBVIOUS
<1>6. /\ IsDir(n) /\ DOMAIN n = DOMAIN dir[v] \cup {k} /\ n[k] = wdata
      /\ \A j \in DOMAIN dir[v] : j # k => n[j] = dir[v][j]
  <2>1. wdata \in Data \cup {None} BY <1>3
  <2>2. /\ IsDir(Put(dir[v], k, wdata))
        /\ DOMAIN Put(dir[v], k, wdata) = DOMAIN dir[v] \cup {k}
        /\ Put(dir[v], k, wdata)[k] = wdata
        /\ \A j \in DOMAIN dir[v] : j # k => Put(dir[v], k, wdata)[j] = dir[v][j]
    BY <1>4, <2>1, PutIs, Zenon
  <2> QED BY <1>5, <2>2, Zenon
<1>7. dir' = [dir EXCEPT ![v] = n] BY <1>2, <1>3, <1>5 DEF VolInv, DirInv
<1>8. /\ DirInv' /\ dir'[v] = n
      /\ \A u \in Vols : u # v => dir'[u] = dir[u]
  BY <1>3, <1>6, <1>7, DirChange DEF VolInv
<1>9. WriteInv'
  <2>1. Vol' = v BY <1>1, <1>2 DEF Vol
  <2>2. pod # "gone" => \A j \in wdata.keys \ wtodo' : j \in DOMAIN n /\ n[j] = wdata
    BY <1>2, <1>3, <1>6
  <2>3. pod # "gone" /\ v \notin leftover => DOMAIN n \subseteq wdata.keys
    BY <1>2, <1>3, <1>6
  <2> QED BY <1>2, <1>3, <1>8, <2>1, <2>2, <2>3 DEF WriteInv
<1>10. VolumeIsSnapshot' BY <1>2, <1>3, <1>8, SnapshotKept
<1> QED BY <1>8, <1>9, <1>10 DEF VolInv

\* A file is cut off by an error or by the end of the process.
LEMMA VolCut ==
  ASSUME VolInv, NEW k \in Keys, wpc = "write", dir[Vol] # None,
         dir' = [dir EXCEPT ![Vol] = Put(@, k, None)], wpc' # "write",
         UNCHANGED <<pod, torn, leftover>>
  PROVE  VolInv'
<1>1. PICK v : v = Vol OBVIOUS
<1>2. v \in Vols /\ (pod # "gone" => v \in torn) /\ dir[v] # None
  BY <1>1, VolIsVol DEF VolInv, WriteInv, Vol
<1>3. IsDir(dir[v]) BY <1>2 DEF VolInv, DirInv
<1>4. PICK n : n = Put(dir[v], k, None) OBVIOUS
<1>5. IsDir(n) BY <1>3, <1>4, PutIs
<1>6. dir' = [dir EXCEPT ![v] = n] BY <1>1, <1>2, <1>4 DEF VolInv, DirInv
<1>7. DirInv' /\ \A u \in Vols : u # v => dir'[u] = dir[u]
  BY <1>2, <1>5, <1>6, DirChange DEF VolInv
<1>8. VolumeIsSnapshot' BY <1>2, <1>7, SnapshotKept
<1> QED BY <1>7, <1>8 DEF VolInv, WriteInv

\* The last file is written: all files of the data that was read are there.
LEMMA VolDone ==
  ASSUME VolInv, WriteDone
  PROVE  VolInv'
<1>1. PICK v : v = Vol OBVIOUS
<1>2. /\ wpc = "write" /\ wtodo = {} /\ torn' = torn \ {v} /\ wpc' = "project"
      /\ UNCHANGED <<pod, dir, leftover>>
  BY <1>1 DEF WriteDone, apiVars
<1>3. v \in Vols /\ wdata \in Data BY <1>1, <1>2, VolIsVol DEF VolInv, WriteInv, Vol
<1>4. ASSUME pod # "gone", dir[v] # None
      PROVE  /\ \A k \in wdata.keys : k \in DOMAIN dir[v] /\ dir[v][k] = wdata
             /\ v \notin leftover => DOMAIN dir[v] = wdata.keys
  BY <1>1, <1>2, <1>4 DEF VolInv, WriteInv
<1>5. VolumeIsSnapshot' BY <1>2, <1>3, <1>4 DEF VolInv, VolumeIsSnapshot
<1> QED BY <1>2, <1>5 DEF VolInv, DirInv, WriteInv

\* The directories go, or some of them and of their files stay; the Pod is gone.
LEMMA VolRemoved ==
  ASSUME VolInv, RemoveAll, pod = "gone", UNCHANGED <<pod, wpc, wi, wdata, wtodo>>
  PROVE  VolInv'
<1>1. DirInv'
  <2>1. CASE dir' = [v \in Vols |-> None] BY <2>1 DEF DirInv
  <2>2. CASE dir' # [v \in Vols |-> None]
    <3>1. PICK rest \in SUBSET Vols, ks \in SUBSET Keys :
            dir' = [v \in Vols |-> IF dir[v] = None \/ v \notin rest THEN None
                                   ELSE [k \in DOMAIN dir[v] \cap ks |-> dir[v][k]]]
      BY <2>2 DEF RemoveAll
    <3>2. ASSUME NEW v \in Vols, dir'[v] # None PROVE IsDir(dir'[v])
      <4>1. dir[v] # None /\ dir'[v] = [k \in DOMAIN dir[v] \cap ks |-> dir[v][k]]
        BY <3>1, <3>2
      <4>2. IsDir(dir[v]) BY <4>1 DEF VolInv, DirInv
      <4> QED BY <4>1, <4>2, RestrictIs
    <3> QED BY <3>1, <3>2 DEF DirInv
  <2> QED BY <2>1, <2>2
<1> QED BY <1>1 DEF VolInv, WriteInv, VolumeIsSnapshot

LEMMA VolStep ==
  ASSUME TypeOK, VolInv, LifeInv, [Next]_vars
  PROVE  VolInv'
<1> USE DEF apiVars, kubeVars, workerVars, handlerVars, reaperVars, histVars
<1>1. ASSUME NEW s \in Sources, NEW ks, DeleteSource(s) \/ WriteSource(s, ks)
      PROVE  VolInv'
  BY <1>1, VolKept DEF DeleteSource, WriteSource, SetSource
<1>2. CASE CreatePod \/ DeletePod \/ ForceDeletePod
  BY <1>2, VolKept DEF CreatePod, DeletePod, ForceDeletePod, SetPod
<1>3. CASE InformerSync \/ InformerResync \/ ReapByUID \/ ReapGivesUp
  BY <1>3, VolKept DEF InformerSync, InformerResync, ReapByUID, ReapGivesUp
<1>4. ASSUME NEW c \in Conts, ContainerExits(c) \/ ReapContainer(c) \/ OrphanRemove(c)
      PROVE  VolInv'
  BY <1>4, VolKept DEF ContainerExits, ReapContainer, OrphanRemove
<1>5. ASSUME NEW cs, OrphanSweep(cs) PROVE VolInv'
  BY <1>5, VolKept DEF OrphanSweep
<1>6. CASE WorkerGet \/ SpecsDone \/ EnsureExists \/ EnsureStarts \/ PatchViews \/ MarkFailed
             \/ RecordFailed \/ StopContainer \/ ForceDelete \/ WorkerError
  <2>1. UNCHANGED <<dir, torn, leftover>> /\ wpc' # "write" /\ pod' \in {pod, "gone"}
    BY <1>6 DEF WorkerGet, SpecsDone, EnsureExists, EnsureStarts, PatchViews, MarkFailed,
                RecordFailed, StopContainer, ForceDelete, WorkerError, WorkerReturns, WorkerAt,
                Ensuring
  <2> QED BY <2>1, VolKept
<1>7. ASSUME NEW m, Failure(m) PROVE wpc' # "write"
  BY <1>7 DEF Failure, WorkerReturns, WorkerAt
<1>8. CASE ProjectFails \/ GetFails \/ EnsureCannot \/ EnsureFails
  BY <1>7, <1>8, VolKept DEF ProjectFails, GetFails, EnsureCannot, EnsureFails
<1>9. ASSUME NEW k \in Keys, WriteRejected(k) PROVE VolInv'
  BY <1>7, <1>9, VolKept DEF WriteRejected
<1>10. ASSUME NEW k \in Keys, WriteFails(k) PROVE VolInv'
  BY <1>7, <1>10, VolCut DEF WriteFails
<1>11. CASE ReapVolumes \/ OrphanVolumes
  <2>1. pod = "gone" BY <1>11 DEF ReapVolumes, OrphanVolumes, LifeInv
  <2> QED BY <1>11, <2>1, VolRemoved DEF ReapVolumes, OrphanVolumes
<1>12. CASE KubeletRestart
  <2>1. wpc' # "write" /\ UNCHANGED <<pod, torn, leftover>>
    BY <1>12 DEF KubeletRestart, WorkerReturns, WorkerAt
  <2>2. CASE dir' = dir BY <2>1, <2>2, VolKept
  <2>3. CASE dir' # dir
    <3>1. PICK k \in wtodo \ BadKeys :
            wpc = "write" /\ dir[Vol] # None /\ dir' = [dir EXCEPT ![Vol] = Put(@, k, None)]
      BY <1>12, <2>3 DEF KubeletRestart
    <3>2. k \in Keys BY DEF TypeOK
    <3> QED BY <2>1, <3>1, <3>2, VolCut
  <2> QED BY <2>2, <2>3
<1>13. CASE UNCHANGED vars
  BY <1>13, VolKept DEF vars
<1> QED BY <1>1, <1>2, <1>3, <1>4, <1>5, <1>6, <1>8, <1>9, <1>10, <1>11, <1>12, <1>13,
           VolReads, VolSkips, VolWrites, VolDone
        DEF Next, WorkerStep, HandlerStep, ReaperStep

-----------------------------------------------------------------------------
(* The life of the Pod *)

\* Who removes containers or directories does so for a Pod that is gone.
LEMMA LifeStep ==
  ASSUME TypeOK, LifeInv, [Next]_vars
  PROVE  LifeInv'
<1> USE DEF apiVars, kubeVars, workerVars, handlerVars, reaperVars, LifeInv
<1>1. ASSUME NEW s \in Sources, NEW ks, DeleteSource(s) \/ WriteSource(s, ks)
      PROVE  LifeInv'
  BY <1>1 DEF DeleteSource, WriteSource, SetSource, NoContainer
<1>2. CASE CreatePod \/ DeletePod \/ ForceDeletePod
  BY <1>2 DEF CreatePod, DeletePod, ForceDeletePod, SetPod, NoContainer
<1>3. CASE InformerSync BY <1>3 DEF InformerSync, Known, NoContainer, TypeOK
<1>4. CASE InformerResync BY <1>4 DEF InformerResync, Known, NoContainer
<1>5. CASE ReapByUID \/ ReapGivesUp \/ ReapVolumes \/ OrphanVolumes
  BY <1>5 DEF ReapByUID, ReapGivesUp, ReapVolumes, OrphanVolumes, NoContainer
<1>6. ASSUME NEW c \in Conts, ContainerExits(c) PROVE LifeInv'
  BY <1>6 DEF ContainerExits, NoContainer
<1>7. ASSUME NEW c \in Conts, ReapContainer(c) \/ OrphanRemove(c) PROVE LifeInv'
  BY <1>7 DEF ReapContainer, OrphanRemove, NoContainer, TypeOK, Views
<1>8. ASSUME NEW cs \in SUBSET Conts, OrphanSweep(cs) PROVE LifeInv'
  <2>1. ~ NoContainer BY <1>8 DEF OrphanSweep, NoContainer
  <2>2. pod = "gone" BY <1>8, <2>1 DEF OrphanSweep, Known, TypeOK
  <2> QED BY <1>8, <2>1, <2>2 DEF OrphanSweep, NoContainer
<1>9. CASE WorkerGet
  BY <1>9 DEF WorkerGet, NoContainer
<1>10. ASSUME UNCHANGED <<pod, cache, hpc, rpc>>, wpc # "idle" PROVE LifeInv'
  BY <1>10
<1>11. CASE SpecsDone \/ EnsureExists \/ EnsureStarts \/ PatchViews \/ MarkFailed
             \/ RecordFailed \/ StopContainer \/ WorkerError
  BY <1>10, <1>11 DEF SpecsDone, EnsureExists, EnsureStarts, PatchViews, MarkFailed,
                RecordFailed, StopContainer, WorkerError, Ensuring
<1>12. CASE ForceDelete BY <1>12 DEF ForceDelete
<1>13. CASE ProjectFails \/ GetFails \/ EnsureCannot \/ EnsureFails \/ (\E left : ProjectReads(left))
              \/ ProjectSkips \/ WriteDone
  BY <1>10, <1>13 DEF ProjectFails, GetFails, EnsureCannot, EnsureFails, ProjectReads,
                ProjectSkips, WriteDone, Projecting, Ensuring
<1>14. ASSUME NEW k \in Keys, WriteRejected(k) \/ WriteFails(k) \/ WriteKey(k)
       PROVE  LifeInv'
  BY <1>10, <1>14 DEF WriteRejected, WriteFails, WriteKey
<1>15. CASE KubeletRestart
  <2>1. pod = "none" => NoContainer OBVIOUS
  <2> QED BY <1>15, <2>1 DEF KubeletRestart, WorkerReturns, WorkerAt, Known, NoContainer
<1>16. CASE UNCHANGED vars BY <1>16 DEF vars, NoContainer
<1> QED BY <1>1, <1>2, <1>3, <1>4, <1>5, <1>6, <1>7, <1>8, <1>9, <1>11, <1>12, <1>13, <1>14,
           <1>15, <1>16
        DEF Next, WorkerStep, HandlerStep, ReaperStep

\* Directories stay while somebody runs on them.
LEMMA RunKept ==
  ASSUME TypeOK, LifeInv, RunningHasVolumes,
         \A c \in Conts : conts'[c] = "running" => conts[c] = "running",
         Known(pod') => pod # "gone" /\ \A v \in Vols : dir[v] # None => dir'[v] # None
  PROVE  RunningHasVolumes'
<1> SUFFICES ASSUME Known(pod'), NEW c \in Conts, conts'[c] = "running", NEW v \in MountsOf(c)
             PROVE  dir'[v] # None
  BY DEF RunningHasVolumes
<1>1. v \in Vols BY DEF MountsOf, Vols
<1>2. pod # "none" BY DEF LifeInv, NoContainer
<1>3. Known(pod) BY <1>2 DEF TypeOK, Known
<1> QED BY <1>1, <1>3 DEF RunningHasVolumes

\* A directory that is changed is there afterwards.
LEMMA DirStays ==
  ASSUME DirInv, NEW v \in Vols, NEW d, IsDir(d), dir' = [dir EXCEPT ![v] = d]
  PROVE  \A u \in Vols : dir[u] # None => dir'[u] # None
BY DirChange

LEMMA PutStays ==
  ASSUME VolInv, wpc = "write", dir[Vol] # None, NEW k \in Keys, NEW x \in Data \cup {None},
         dir' = [dir EXCEPT ![Vol] = Put(@, k, x)]
  PROVE  \A u \in Vols : dir[u] # None => dir'[u] # None
<1>1. PICK v : v = Vol OBVIOUS
<1>2. v \in Vols BY <1>1, VolIsVol DEF VolInv, WriteInv, Vol
<1>3. IsDir(dir[v]) BY <1>1, <1>2 DEF VolInv, DirInv
<1>4. PICK n : n = Put(dir[v], k, x) OBVIOUS
<1>5. IsDir(n) BY <1>3, <1>4, PutIs
<1>6. dir' = [dir EXCEPT ![v] = n] BY <1>1, <1>2, <1>4 DEF VolInv, DirInv
<1> QED BY <1>2, <1>5, <1>6, DirStays DEF VolInv

LEMMA RunStep ==
  ASSUME TypeOK, VolInv, LifeInv, RunningHasVolumes, [Next]_vars
  PROVE  RunningHasVolumes'
<1> USE DEF apiVars, kubeVars, workerVars, handlerVars, reaperVars
<1>0. ASSUME UNCHANGED <<pod, conts>>,
             \A v \in Vols : dir[v] # None => dir'[v] # None
      PROVE  RunningHasVolumes'
  <2>1. ASSUME pod = "gone" PROVE RunningHasVolumes'
    BY <1>0, <2>1 DEF RunningHasVolumes, Known
  <2> QED BY <1>0, <2>1, RunKept
<1>1. ASSUME UNCHANGED <<pod, conts, dir>> PROVE RunningHasVolumes'
  BY <1>1 DEF RunningHasVolumes
<1>2. ASSUME NEW s \in Sources, NEW ks, DeleteSource(s) \/ WriteSource(s, ks)
      PROVE  RunningHasVolumes'
  BY <1>1, <1>2 DEF DeleteSource, WriteSource, SetSource
<1>3. CASE CreatePod \/ DeletePod \/ ForceDeletePod
  <2>1. /\ UNCHANGED <<conts, dir>> /\ pod # "gone"
    BY <1>3 DEF CreatePod, DeletePod, ForceDeletePod, SetPod
  <2> QED BY <2>1, RunKept
<1>4. CASE InformerSync \/ InformerResync \/ ReapByUID \/ ReapGivesUp
  BY <1>1, <1>4 DEF InformerSync, InformerResync, ReapByUID, ReapGivesUp
<1>5. ASSUME NEW c \in Conts, UNCHANGED <<pod, dir>>, NEW x \in {"none", "exited"},
             conts' = [conts EXCEPT ![c] = x] \/ UNCHANGED conts
      PROVE  RunningHasVolumes'
  <2>1. DOMAIN conts = Conts BY DEF TypeOK, Views
  <2>2. \A b \in Conts : conts'[b] = "running" => conts[b] = "running"
    BY <1>5, <2>1
  <2>3. CASE pod = "gone" BY <1>5, <2>3 DEF RunningHasVolumes, Known
  <2>4. CASE pod # "gone" BY <1>5, <2>2, <2>4, RunKept
  <2> QED BY <2>3, <2>4
<1>6. ASSUME NEW c \in Conts, ContainerExits(c) PROVE RunningHasVolumes'
  BY <1>5, <1>6 DEF ContainerExits
<1>7. ASSUME NEW c \in Conts, ReapContainer(c) \/ OrphanRemove(c) PROVE RunningHasVolumes'
  BY <1>5, <1>7 DEF ReapContainer, OrphanRemove
<1>8. ASSUME NEW cs, OrphanSweep(cs) PROVE RunningHasVolumes'
  BY <1>1, <1>8 DEF OrphanSweep
<1>9. CASE WorkerGet \/ SpecsDone \/ EnsureExists \/ PatchViews \/ MarkFailed \/ RecordFailed
             \/ WorkerError \/ WriteDone
  BY <1>1, <1>9 DEF WorkerGet, SpecsDone, EnsureExists, PatchViews, MarkFailed, RecordFailed,
                    WorkerError, WriteDone
<1>10. CASE ProjectFails \/ GetFails \/ EnsureCannot \/ EnsureFails
  BY <1>1, <1>10 DEF ProjectFails, GetFails, EnsureCannot, EnsureFails
<1>11. CASE EnsureStarts
  <2>1. PICK c \in Conts : c = wi BY <1>11 DEF EnsureStarts, Ensuring
  <2>2. /\ \A v \in MountsOf(c) : dir[v] # None
        /\ conts' = [conts EXCEPT ![c] = "running"] /\ UNCHANGED <<pod, dir>>
    BY <1>11, <2>1 DEF EnsureStarts, Startable
  <2>3. DOMAIN conts = Conts BY DEF TypeOK, Views
  <2>4. \A b \in Conts : b # c => conts'[b] = conts[b] BY <2>2, <2>3
  <2> QED BY <2>2, <2>4 DEF RunningHasVolumes, MountsOf
<1>12. CASE StopContainer
  <2>1. PICK c \in Conts : c = wi BY <1>12 DEF StopContainer
  <2>2. /\ conts' = [conts EXCEPT ![c] = IF conts[c] = "running" THEN "exited" ELSE conts[c]]
        /\ UNCHANGED <<pod, dir>>
    BY <1>12, <2>1 DEF StopContainer, TypeOK, Views
  <2>3. DOMAIN conts = Conts BY DEF TypeOK, Views
  <2>4. CASE conts[c] = "running" BY <1>5, <2>2, <2>4
  <2>5. CASE conts[c] # "running"
    <3>1. conts' = conts BY <2>2, <2>5 DEF TypeOK, Views
    <3> QED BY <1>1, <2>2, <3>1
  <2> QED BY <2>4, <2>5
<1>13. CASE ForceDelete BY <1>13 DEF ForceDelete, RunningHasVolumes, Known
<1>14. ASSUME NEW left, ProjectReads(left) PROVE RunningHasVolumes'
  <2>1. PICK v, d : v = Refs[wi].src /\ d = source[v] OBVIOUS
  <2>2. /\ UNCHANGED <<pod, conts>> /\ dir'[v] # None
        /\ \A u \in Vols : u # v => dir'[u] = dir[u]
    BY <1>14, <2>1, ReadsShape
  <2> QED BY <1>0, <2>2
<1>15. CASE ProjectSkips
  <2>1. PICK v : v = Refs[wi].src OBVIOUS
  <2>2. wi \in RefIdx /\ UNCHANGED <<pod, conts>>
    BY <1>15 DEF ProjectSkips, Projecting
  <2>3. CASE Refs[wi].kind = "vol" /\ dir[v] = None
    <3>1. dir' = [dir EXCEPT ![v] = << >>] BY <1>15, <2>1, <2>3 DEF ProjectSkips
    <3>2. v \in Vols BY <2>1, <2>2, <2>3, VolIsVol
    <3>3. \A u \in Vols : dir[u] # None => dir'[u] # None
      BY <3>1, <3>2, EmptyDir, DirStays DEF VolInv
    <3> QED BY <1>0, <2>2, <3>3
  <2>4. CASE ~ (Refs[wi].kind = "vol" /\ dir[v] = None)
    <3>1. dir' = dir BY <1>15, <2>1, <2>4 DEF ProjectSkips
    <3> QED BY <1>1, <2>2, <3>1
  <2> QED BY <2>3, <2>4
<1>16. ASSUME NEW k \in Keys, WriteKey(k) PROVE RunningHasVolumes'
  <2>1. wdata \in Data \cup {None} BY DEF TypeOK
  <2>2. \A u \in Vols : dir[u] # None => dir'[u] # None
    BY <1>16, <2>1, PutStays DEF WriteKey
  <2> QED BY <1>0, <1>16, <2>2 DEF WriteKey
<1>17. ASSUME NEW k \in Keys, WriteFails(k) PROVE RunningHasVolumes'
  <2>1. \A u \in Vols : dir[u] # None => dir'[u] # None
    BY <1>17, PutStays DEF WriteFails
  <2> QED BY <1>0, <1>17, <2>1 DEF WriteFails
<1>18. ASSUME NEW k \in Keys, WriteRejected(k) PROVE RunningHasVolumes'
  BY <1>1, <1>18 DEF WriteRejected
<1>19. CASE ReapVolumes \/ OrphanVolumes
  <2>1. pod = "gone" /\ pod' = pod BY <1>19 DEF ReapVolumes, OrphanVolumes, LifeInv
  <2> QED BY <2>1 DEF RunningHasVolumes, Known
<1>20. CASE KubeletRestart
  <2>1. UNCHANGED <<pod, conts>> BY <1>20 DEF KubeletRestart
  <2>2. CASE dir' = dir BY <1>1, <2>1, <2>2
  <2>3. CASE dir' # dir
    <3>1. PICK k \in wtodo \ BadKeys :
            wpc = "write" /\ dir[Vol] # None /\ dir' = [dir EXCEPT ![Vol] = Put(@, k, None)]
      BY <1>20, <2>3 DEF KubeletRestart
    <3>2. k \in Keys BY DEF TypeOK
    <3>3. \A u \in Vols : dir[u] # None => dir'[u] # None BY <3>1, <3>2, PutStays
    <3> QED BY <1>0, <2>1, <3>3
  <2> QED BY <2>2, <2>3
<1>21. CASE UNCHANGED vars BY <1>1, <1>21 DEF vars
<1> QED BY <1>2, <1>3, <1>4, <1>6, <1>7, <1>8, <1>9, <1>10, <1>11, <1>12, <1>13, <1>14, <1>15,
           <1>16, <1>17, <1>18, <1>19, <1>20, <1>21
        DEF Next, WorkerStep, HandlerStep, ReaperStep

-----------------------------------------------------------------------------
(* Types *)

ApiTypes ==
  /\ source \in [Sources -> Data \cup {None}] /\ writes \in 0 .. MaxWrites
  /\ pod \in {"none", "live", "term", "gone"} /\ cache \in {"none", "live", "term", "gone"}
  /\ status \in Status
FlagTypes == dirty \in BOOLEAN /\ recovered \in BOOLEAN /\ stranded \in BOOLEAN
WorkerTypes ==
  /\ wpc \in {"idle", "project", "write", "ensure", "fail", "record", "stop"}
  /\ wi \in 0 .. 1 + (IF wpc \in {"project", "write"} THEN Len(Refs) ELSE N)
  /\ wmsg \in Reason \cup {None} /\ wdata \in Data \cup {None} /\ wtodo \subseteq Keys
ContTypes == conts \in Views /\ wviews \in Views
RemovalTypes ==
  /\ hpc \in {"idle", "called", "reap"} /\ htodo \subseteq Conts
  /\ rpc \in {"idle", "reap"} /\ rlist \subseteq Conts
RestTypes == failed \in Reason \cup {None} /\ faults \in 0 .. MaxFaults 
             /\ torn \subseteq Vols /\ leftover \subseteq Vols

LEMMA TypeParts ==
  TypeOK => /\ ApiTypes /\ FlagTypes /\ WorkerTypes /\ ContTypes /\ RemovalTypes /\ RestTypes
BY DEF TypeOK, ApiTypes, FlagTypes, WorkerTypes, ContTypes, RemovalTypes, RestTypes

LEMMA PartsType ==
  ASSUME ApiTypes, FlagTypes, WorkerTypes, ContTypes, RemovalTypes, RestTypes, DirInv
  PROVE  TypeOK
<1>1. ASSUME NEW v \in Vols, dir[v] # None
      PROVE  DOMAIN dir[v] \subseteq Keys /\ \A k \in DOMAIN dir[v] : dir[v][k] \in Data \cup {None}
  BY <1>1 DEF DirInv, IsDir
<1> QED BY <1>1, Zenon DEF TypeOK, ApiTypes, FlagTypes, WorkerTypes, ContTypes, RemovalTypes, RestTypes,
               DirInv

LEMMA StatusIs ==
  /\ NoStatus \in Status /\ FailedStatus \in Status
  /\ \A w \in Views : [kind |-> "views", views |-> w] \in Status
<1>1. NoViews \in Views BY DEF NoViews, Views
<1> QED BY <1>1 DEF NoStatus, FailedStatus, Status

LEMMA ApiStep ==
  ASSUME TypeOK, [Next]_vars
  PROVE  ApiTypes'
<1> USE DEF apiVars, kubeVars
<1>0. ApiTypes /\ ContTypes BY TypeParts
<1>1. ASSUME UNCHANGED <<apiVars, cache>> PROVE ApiTypes'
  BY <1>0, <1>1 DEF ApiTypes
<1>2. ASSUME NEW s \in Sources, NEW d \in Data \cup {None}, SetSource(s, d) PROVE ApiTypes'
  <2>1. source' \in [Sources -> Data \cup {None}] BY <1>0, <1>2 DEF SetSource, ApiTypes
  <2>2. writes' \in 0 .. MaxWrites
    BY <1>0, <1>2, ProjectionAssumption DEF SetSource, ApiTypes
  <2> QED BY <1>0, <1>2, <2>1, <2>2 DEF SetSource, ApiTypes
<1>3. ASSUME NEW s \in Sources, DeleteSource(s) PROVE ApiTypes'
  BY <1>2, <1>3 DEF DeleteSource
<1>4. ASSUME NEW s \in Sources, NEW ks \in Contents, WriteSource(s, ks) PROVE ApiTypes'
  <2>1. writes + 1 \in 1 .. MaxWrites
    BY <1>0, <1>4, ProjectionAssumption DEF WriteSource, SetSource, ApiTypes
  <2>2. [ver |-> writes + 1, keys |-> ks] \in Data BY <2>1 DEF Data
  <2> QED BY <1>2, <1>4, <2>2 DEF WriteSource
<1>5. CASE CreatePod \/ DeletePod \/ ForceDeletePod
  BY <1>0, <1>5, StatusIs DEF CreatePod, DeletePod, ForceDeletePod, SetPod, ApiTypes
<1>6. CASE InformerSync \/ KubeletRestart
  BY <1>0, <1>6 DEF InformerSync, KubeletRestart, ApiTypes
<1>7. CASE PatchViews \/ MarkFailed \/ ForceDelete
  <2>1. status' \in Status /\ pod' \in {pod, "gone"} /\ UNCHANGED <<source, writes, cache>>
    BY <1>0, <1>7, StatusIs DEF PatchViews, MarkFailed, ForceDelete, ApiTypes, ContTypes
  <2> QED BY <1>0, <2>1 DEF ApiTypes
<1>8. CASE InformerResync \/ ReapByUID \/ ReapGivesUp \/ ReapVolumes \/ OrphanVolumes
  BY <1>1, <1>8 DEF InformerResync, ReapByUID, ReapGivesUp, ReapVolumes, OrphanVolumes
<1>9. ASSUME NEW c \in Conts, ContainerExits(c) \/ ReapContainer(c) \/ OrphanRemove(c)
      PROVE  ApiTypes'
  BY <1>1, <1>9 DEF ContainerExits, ReapContainer, OrphanRemove
<1>10. ASSUME NEW cs, OrphanSweep(cs) PROVE ApiTypes'
  BY <1>1, <1>10 DEF OrphanSweep
<1>11. CASE WorkerGet \/ SpecsDone \/ EnsureExists \/ EnsureStarts \/ RecordFailed
              \/ StopContainer \/ WorkerError \/ WriteDone \/ (\E left : ProjectReads(left))
              \/ ProjectSkips
  BY <1>1, <1>11 DEF WorkerGet, SpecsDone, EnsureExists, EnsureStarts, RecordFailed,
                StopContainer, WorkerError, WriteDone, ProjectReads, ProjectSkips
<1>12. CASE ProjectFails \/ GetFails \/ EnsureCannot \/ EnsureFails
  BY <1>1, <1>12 DEF ProjectFails, GetFails, EnsureCannot, EnsureFails
<1>13. ASSUME NEW k \in Keys, WriteRejected(k) \/ WriteFails(k) \/ WriteKey(k)
       PROVE  ApiTypes'
  BY <1>1, <1>13 DEF WriteRejected, WriteFails, WriteKey
<1>14. CASE UNCHANGED vars BY <1>1, <1>14 DEF vars
<1> QED BY <1>3, <1>4, <1>5, <1>6, <1>7, <1>8, <1>9, <1>10, <1>11, <1>12, <1>13, <1>14
        DEF Next, WorkerStep, HandlerStep, ReaperStep

LEMMA FlagStep ==
  ASSUME TypeOK, [Next]_vars
  PROVE  FlagTypes'
<1> USE DEF apiVars, kubeVars, histVars
<1>0. FlagTypes BY TypeParts
<1>1. ASSUME UNCHANGED <<dirty, histVars>> PROVE FlagTypes'
  BY <1>0, <1>1 DEF FlagTypes
<1>2. ASSUME NEW s \in Sources, NEW ks, DeleteSource(s) \/ WriteSource(s, ks)
      PROVE  FlagTypes'
  BY <1>1, <1>2 DEF DeleteSource, WriteSource, SetSource
<1>3. CASE CreatePod \/ DeletePod \/ ForceDeletePod
  BY <1>1, <1>3 DEF CreatePod, DeletePod, ForceDeletePod, SetPod
<1>4. ASSUME UNCHANGED stranded \/ \E b \in BOOLEAN : stranded' = (stranded \/ b),
             UNCHANGED recovered \/ recovered' = FALSE \/ recovered' = (recovered \/ failed # None),
             UNCHANGED dirty \/ dirty' = FALSE \/ dirty' = TRUE \/ dirty' = Known(pod)
      PROVE  FlagTypes'
  <2>1. stranded' \in BOOLEAN BY <1>0, <1>4, Zenon DEF FlagTypes
  <2>2. recovered' \in BOOLEAN BY <1>0, <1>4, Zenon DEF FlagTypes
  <2>3. Known(pod) = TRUE \/ Known(pod) = FALSE BY DEF Known
  <2>4. dirty' \in BOOLEAN BY <1>0, <1>4, <2>3, Zenon DEF FlagTypes
  <2> QED BY <2>1, <2>2, <2>4 DEF FlagTypes
<1>5. CASE InformerSync \/ InformerResync \/ KubeletRestart
  BY <1>4, <1>5, Zenon DEF InformerSync, InformerResync, KubeletRestart
<1>6. CASE ReapByUID \/ ReapGivesUp \/ ReapVolumes \/ OrphanVolumes
  <2>1. UNCHANGED stranded \/ \E b \in BOOLEAN : stranded' = (stranded \/ b)
    BY <1>6, Zenon DEF ReapByUID, ReapGivesUp, ReapVolumes, OrphanVolumes, RemoveAll
  <2>2. UNCHANGED <<dirty, recovered>>
    BY <1>6 DEF ReapByUID, ReapGivesUp, ReapVolumes, OrphanVolumes
  <2> QED BY <1>4, <2>1, <2>2
<1>7. ASSUME NEW c \in Conts, ContainerExits(c) \/ ReapContainer(c) \/ OrphanRemove(c)
      PROVE  FlagTypes'
  BY <1>1, <1>7 DEF ContainerExits, ReapContainer, OrphanRemove
<1>8. ASSUME NEW cs, OrphanSweep(cs) PROVE FlagTypes'
  BY <1>1, <1>8 DEF OrphanSweep
<1>9. CASE WorkerGet \/ RecordFailed \/ PatchViews \/ WorkerError \/ WriteDone
             \/ (\E left : ProjectReads(left))
  BY <1>4, <1>9, Zenon DEF WorkerGet, RecordFailed, PatchViews, WorkerError, WriteDone, ProjectReads
<1>10. CASE SpecsDone \/ EnsureExists \/ EnsureStarts \/ MarkFailed \/ StopContainer \/ ForceDelete
              \/ ProjectSkips
  BY <1>1, <1>10 DEF SpecsDone, EnsureExists, EnsureStarts, MarkFailed, StopContainer,
                     ForceDelete, ProjectSkips
<1>11. CASE ProjectFails \/ GetFails \/ EnsureCannot \/ EnsureFails
  BY <1>4, <1>11, Zenon DEF ProjectFails, GetFails, EnsureCannot, EnsureFails, Failure
<1>12. ASSUME NEW k \in Keys, WriteRejected(k) \/ WriteFails(k) PROVE FlagTypes'
  BY <1>4, <1>12, Zenon DEF WriteRejected, WriteFails, Failure
<1>13. ASSUME NEW k \in Keys, WriteKey(k) PROVE FlagTypes'
  BY <1>1, <1>13 DEF WriteKey
<1>14. CASE UNCHANGED vars BY <1>1, <1>14 DEF vars
<1> QED BY <1>2, <1>3, <1>5, <1>6, <1>7, <1>8, <1>9, <1>10, <1>11, <1>12, <1>13, <1>14
        DEF Next, WorkerStep, HandlerStep, ReaperStep

LEMMA WorkerTypeStep ==
  ASSUME TypeOK, WriteInv, [Next]_vars
  PROVE  WorkerTypes'
<1> USE DEF apiVars, kubeVars, workerVars
<1>0. WorkerTypes /\ Len(Refs) \in Nat /\ N \in Nat \ {0}
  BY TypeParts, ProjectionAssumption
<1>1. ASSUME UNCHANGED <<wpc, wi, wmsg, wdata, wtodo>> PROVE WorkerTypes'
  BY <1>0, <1>1 DEF WorkerTypes
<1>2. ASSUME NEW p \in {"idle", "ensure", "fail", "stop"}, NEW i \in 0 .. N,
             NEW m \in Reason \cup {None}, WorkerAt(p, i, m)
      PROVE  WorkerTypes'
  BY <1>0, <1>2 DEF WorkerAt, WorkerTypes
<1>3. ASSUME WorkerReturns PROVE WorkerTypes'
  BY <1>0, <1>2, <1>3 DEF WorkerReturns
<1>4. ASSUME NEW w \in {"missing", "get", "write", "start"}, Failure(Because(w, wi))
      PROVE  WorkerTypes'
  <2>1. wi \in Nat BY <1>0 DEF WorkerTypes
  <2>2. Because(w, wi) \in Reason BY <2>1 DEF Because, Reason
  <2>3. CASE WorkerReturns BY <1>3, <2>3
  <2>4. CASE WorkerAt("fail", 0, Because(w, wi)) BY <1>0, <1>2, <2>2, <2>4
  <2> QED BY <1>4, <2>3, <2>4 DEF Failure
<1>5. ASSUME NEW s \in Sources, NEW ks, DeleteSource(s) \/ WriteSource(s, ks)
      PROVE  WorkerTypes'
  BY <1>1, <1>5 DEF DeleteSource, WriteSource, SetSource
<1>6. CASE CreatePod \/ DeletePod \/ ForceDeletePod \/ InformerSync \/ InformerResync
  BY <1>1, <1>6 DEF CreatePod, DeletePod, ForceDeletePod, SetPod, InformerSync, InformerResync
<1>7. CASE ReapByUID \/ ReapGivesUp \/ ReapVolumes \/ OrphanVolumes
  BY <1>1, <1>7 DEF ReapByUID, ReapGivesUp, ReapVolumes, OrphanVolumes
<1>8. ASSUME NEW c \in Conts, ContainerExits(c) \/ ReapContainer(c) \/ OrphanRemove(c)
      PROVE  WorkerTypes'
  BY <1>1, <1>8 DEF ContainerExits, ReapContainer, OrphanRemove
<1>9. ASSUME NEW cs, OrphanSweep(cs) PROVE WorkerTypes'
  BY <1>1, <1>9 DEF OrphanSweep
<1>10. CASE RecordFailed \/ PatchViews \/ ForceDelete \/ WorkerError \/ KubeletRestart
  BY <1>3, <1>10 DEF RecordFailed, PatchViews, ForceDelete, WorkerError, KubeletRestart
<1>11. CASE WorkerGet
  <2>1. CASE WorkerAt("project", 1, None) BY <1>0, <2>1 DEF WorkerAt, WorkerTypes
  <2>2. CASE WorkerAt("stop", N, None) BY <1>0, <1>2, <2>2
  <2>3. CASE WorkerReturns BY <1>3, <2>3
  <2> QED BY <1>11, <2>1, <2>2, <2>3 DEF WorkerGet
<1>12. CASE SpecsDone BY <1>0, <1>2, <1>12 DEF SpecsDone
<1>13. CASE MarkFailed BY <1>0, <1>13 DEF MarkFailed, WorkerTypes
<1>14. CASE EnsureExists \/ EnsureStarts \/ StopContainer
  <2>1. wi \in 1 .. N /\ wi' \in {wi + 1, wi - 1} /\ wpc \in {"ensure", "stop"}
        /\ UNCHANGED <<wpc, wmsg, wdata, wtodo>>
    BY <1>14 DEF EnsureExists, EnsureStarts, StopContainer, Ensuring, Conts
  <2> QED BY <1>0, <2>1 DEF WorkerTypes
<1>15. CASE ProjectSkips
  <2>1. wi \in 1 .. Len(Refs) /\ wi' = wi + 1 /\ wpc = "project"
        /\ UNCHANGED <<wpc, wmsg, wdata, wtodo>>
    BY <1>15 DEF ProjectSkips, Projecting, RefIdx
  <2> QED BY <1>0, <2>1 DEF WorkerTypes
<1>16. CASE WriteDone
  <2>1. wi \in 1 .. Len(Refs) /\ wi' = wi + 1 /\ wpc' = "project" /\ wdata' = None
        /\ UNCHANGED <<wmsg, wtodo>>
    BY <1>16 DEF WriteDone, WriteInv, RefIdx
  <2> QED BY <1>0, <2>1 DEF WorkerTypes
<1>17. ASSUME NEW left, ProjectReads(left) PROVE WorkerTypes'
  <2>1. PICK d : d = source[Refs[wi].src] OBVIOUS
  <2>2. wi \in RefIdx /\ d # None /\ wdata' = d /\ wtodo' = d.keys
        /\ wpc = "project" /\ wpc' = "write" /\ UNCHANGED <<wi, wmsg>>
    BY <1>17, <2>1 DEF ProjectReads, Projecting
  <2>3. Refs[wi] \in Ref BY <2>2, ProjectionAssumption DEF RefIdx
  <2>4. d \in Data BY <2>1, <2>2, <2>3 DEF Ref, TypeOK
  <2>5. d.keys \subseteq Keys BY <2>4, ProjectionAssumption DEF Data
  <2> QED BY <1>0, <2>2, <2>4, <2>5 DEF WorkerTypes
<1>18. CASE ProjectFails \/ GetFails \/ EnsureCannot \/ EnsureFails
  BY <1>4, <1>18 DEF ProjectFails, GetFails, EnsureCannot, EnsureFails
<1>19. ASSUME NEW k \in Keys, WriteRejected(k) \/ WriteFails(k) PROVE WorkerTypes'
  BY <1>4, <1>19 DEF WriteRejected, WriteFails
<1>20. ASSUME NEW k \in Keys, WriteKey(k) PROVE WorkerTypes'
  BY <1>0, <1>20 DEF WriteKey, WorkerTypes
<1>21. CASE UNCHANGED vars BY <1>1, <1>21 DEF vars
<1> QED BY <1>5, <1>6, <1>7, <1>8, <1>9, <1>10, <1>11, <1>12, <1>13, <1>14, <1>15, <1>16,
           <1>17, <1>18, <1>19, <1>20, <1>21
        DEF Next, WorkerStep, HandlerStep, ReaperStep

LEMMA ContStep ==
  ASSUME TypeOK, [Next]_vars
  PROVE  ContTypes'
<1> USE DEF apiVars, kubeVars, workerVars
<1>0. ContTypes /\ NoViews \in Views BY TypeParts DEF NoViews, Views
<1>1. ASSUME UNCHANGED conts, UNCHANGED wviews \/ wviews' = NoViews PROVE ContTypes'
  BY <1>0, <1>1 DEF ContTypes
<1>2. ASSUME NEW c \in Conts, NEW x \in {"none", "running", "exited"},
             conts' = [conts EXCEPT ![c] = x] \/ UNCHANGED conts,
             wviews' = [wviews EXCEPT ![c] = x] \/ UNCHANGED wviews
      PROVE  ContTypes'
  BY <1>0, <1>2 DEF ContTypes, Views
<1>3. ASSUME NEW s \in Sources, NEW ks, DeleteSource(s) \/ WriteSource(s, ks)
      PROVE  ContTypes'
  BY <1>1, <1>3 DEF DeleteSource, WriteSource, SetSource
<1>4. CASE CreatePod \/ DeletePod \/ ForceDeletePod \/ InformerSync \/ InformerResync
  BY <1>1, <1>4 DEF CreatePod, DeletePod, ForceDeletePod, SetPod, InformerSync, InformerResync
<1>5. CASE ReapByUID \/ ReapGivesUp \/ ReapVolumes \/ OrphanVolumes
  BY <1>1, <1>5 DEF ReapByUID, ReapGivesUp, ReapVolumes, OrphanVolumes
<1>6. ASSUME NEW c \in Conts, ContainerExits(c) \/ ReapContainer(c) \/ OrphanRemove(c)
      PROVE  ContTypes'
  BY <1>2, <1>6 DEF ContainerExits, ReapContainer, OrphanRemove
<1>7. ASSUME NEW cs, OrphanSweep(cs) PROVE ContTypes'
  BY <1>1, <1>7 DEF OrphanSweep
<1>8. CASE RecordFailed \/ PatchViews \/ ForceDelete \/ WorkerError \/ KubeletRestart
             \/ SpecsDone \/ MarkFailed \/ WorkerGet
  BY <1>1, <1>8 DEF RecordFailed, PatchViews, ForceDelete, WorkerError, KubeletRestart,
                    SpecsDone, MarkFailed, WorkerGet, WorkerReturns, WorkerAt
<1>9. CASE ProjectSkips \/ WriteDone \/ \E left : ProjectReads(left)
  BY <1>1, <1>9 DEF ProjectSkips, ProjectReads, WriteDone
<1>10. ASSUME NEW m, Failure(m) PROVE wviews' = NoViews
  BY <1>10 DEF Failure, WorkerReturns, WorkerAt
<1>11. CASE ProjectFails \/ GetFails \/ EnsureCannot \/ EnsureFails
  BY <1>1, <1>10, <1>11 DEF ProjectFails, GetFails, EnsureCannot, EnsureFails
<1>12. ASSUME NEW k \in Keys, WriteRejected(k) \/ WriteFails(k) \/ WriteKey(k)
       PROVE  ContTypes'
  BY <1>1, <1>10, <1>12 DEF WriteRejected, WriteFails, WriteKey
<1>13. CASE EnsureExists
  <2>1. PICK c \in Conts : c = wi BY <1>13 DEF EnsureExists, Ensuring
  <2>2. conts[c] \in {"none", "running", "exited"} BY <1>0 DEF ContTypes, Views
  <2>3. wviews' = [wviews EXCEPT ![c] = conts[c]] /\ UNCHANGED conts
    BY <1>13, <2>1 DEF EnsureExists
  <2> QED BY <1>2, <2>2, <2>3
<1>14. CASE EnsureStarts
  BY <1>2, <1>14 DEF EnsureStarts, Ensuring
<1>15. CASE StopContainer
  BY <1>0, <1>15 DEF StopContainer, ContTypes, Views
<1>16. CASE UNCHANGED vars BY <1>1, <1>16 DEF vars
<1> QED BY <1>3, <1>4, <1>5, <1>6, <1>7, <1>8, <1>9, <1>11, <1>12, <1>13, <1>14, <1>15, <1>16
        DEF Next, WorkerStep, HandlerStep, ReaperStep

LEMMA RemovalStep ==
  ASSUME TypeOK, [Next]_vars
  PROVE  RemovalTypes'
<1> USE DEF handlerVars, reaperVars
<1>0. RemovalTypes BY TypeParts
<1>1. ASSUME UNCHANGED <<handlerVars, reaperVars>> PROVE RemovalTypes'
  BY <1>0, <1>1 DEF RemovalTypes
<1>2. ASSUME NEW s \in Sources, NEW ks, DeleteSource(s) \/ WriteSource(s, ks)
      PROVE  RemovalTypes'
  BY <1>1, <1>2 DEF DeleteSource, WriteSource, SetSource
<1>3. CASE CreatePod \/ DeletePod \/ ForceDeletePod \/ InformerResync
  BY <1>1, <1>3 DEF CreatePod, DeletePod, ForceDeletePod, SetPod, InformerResync
<1>4. CASE InformerSync \/ ReapByUID \/ ReapGivesUp \/ ReapVolumes \/ OrphanVolumes \/ KubeletRestart
  BY <1>0, <1>4 DEF InformerSync, ReapByUID, ReapGivesUp, ReapVolumes, OrphanVolumes, KubeletRestart,
                    RemovalTypes
<1>5. ASSUME NEW c \in Conts, ContainerExits(c) \/ ReapContainer(c) \/ OrphanRemove(c)
      PROVE  RemovalTypes'
  BY <1>0, <1>5 DEF ContainerExits, ReapContainer, OrphanRemove, RemovalTypes
<1>6. ASSUME NEW cs \in SUBSET Conts, OrphanSweep(cs) PROVE RemovalTypes'
  BY <1>0, <1>6 DEF OrphanSweep, RemovalTypes
<1>7. CASE WorkerGet \/ SpecsDone \/ EnsureExists \/ EnsureStarts \/ PatchViews \/ MarkFailed
             \/ RecordFailed \/ StopContainer \/ ForceDelete \/ WorkerError
  BY <1>1, <1>7 DEF WorkerGet, SpecsDone, EnsureExists, EnsureStarts, PatchViews, MarkFailed,
                RecordFailed, StopContainer, ForceDelete, WorkerError
<1>8. CASE ProjectFails \/ GetFails \/ EnsureCannot \/ EnsureFails \/ ProjectSkips
             \/ (\E left : ProjectReads(left))             \/ WriteDone
  BY <1>1, <1>8 DEF ProjectFails, GetFails, EnsureCannot, EnsureFails, ProjectReads, ProjectSkips,
                WriteDone
<1>9. ASSUME NEW k \in Keys, WriteRejected(k) \/ WriteFails(k) \/ WriteKey(k)
      PROVE  RemovalTypes'
  BY <1>1, <1>9 DEF WriteRejected, WriteFails, WriteKey
<1>10. CASE UNCHANGED vars BY <1>1, <1>10 DEF vars
<1> QED BY <1>2, <1>3, <1>4, <1>5, <1>6, <1>7, <1>8, <1>9, <1>10
        DEF Next, WorkerStep, HandlerStep, ReaperStep

LEMMA RestStep ==
  ASSUME TypeOK, VolInv, [Next]_vars
  PROVE  RestTypes'
<1> USE DEF kubeVars, histVars
<1>0. RestTypes /\ wmsg \in Reason \cup {None} BY TypeParts DEF WorkerTypes
<1>1. ASSUME failed' \in {failed, wmsg, None}, UNCHANGED faults \/ Fail,
             torn' \subseteq torn \/ (\E v \in Vols : torn' = torn \cup {v}),
             leftover' \subseteq leftover \/ (\E v \in Vols : leftover' = leftover \cup {v})
      PROVE  RestTypes'
  <2>1. faults' \in 0 .. MaxFaults BY <1>0, <1>1, ProjectionAssumption DEF Fail, RestTypes
  <2> QED BY <1>0, <1>1, <2>1 DEF RestTypes
<1>2. ASSUME NEW s \in Sources, NEW ks, DeleteSource(s) \/ WriteSource(s, ks)
      PROVE  RestTypes'
  BY <1>1, <1>2 DEF DeleteSource, WriteSource, SetSource
<1>3. CASE CreatePod \/ DeletePod \/ ForceDeletePod \/ InformerResync
  BY <1>1, <1>3 DEF CreatePod, DeletePod, ForceDeletePod, SetPod, InformerResync
<1>4. CASE InformerSync \/ ReapByUID \/ ReapGivesUp \/ ReapVolumes \/ OrphanVolumes \/ KubeletRestart
  <2>1. UNCHANGED faults \/ Fail
    BY <1>4 DEF InformerSync, ReapByUID, ReapGivesUp, ReapVolumes, OrphanVolumes, KubeletRestart,
                RemoveAll
  <2>2. failed' \in {failed, None} /\ torn' \subseteq torn /\ leftover' \subseteq leftover
    BY <1>4 DEF InformerSync, ReapByUID, ReapGivesUp, ReapVolumes, OrphanVolumes, KubeletRestart,
                RemoveAll
  <2> QED BY <1>1, <2>1, <2>2
<1>5. ASSUME NEW c \in Conts, ContainerExits(c) \/ ReapContainer(c) \/ OrphanRemove(c)
      PROVE  RestTypes'
  BY <1>1, <1>5 DEF ContainerExits, ReapContainer, OrphanRemove
<1>6. ASSUME NEW cs \in SUBSET Conts, OrphanSweep(cs) PROVE RestTypes'
  BY <1>1, <1>6 DEF OrphanSweep
<1>7. CASE WorkerGet \/ SpecsDone \/ EnsureExists \/ EnsureStarts \/ PatchViews \/ MarkFailed
             \/ RecordFailed \/ StopContainer \/ ForceDelete \/ WorkerError
  <2>1. UNCHANGED faults \/ Fail
    BY <1>7 DEF WorkerGet, SpecsDone, EnsureExists, EnsureStarts, PatchViews, MarkFailed,
                RecordFailed, StopContainer, ForceDelete, WorkerError
  <2>2. failed' \in {failed, wmsg} /\ torn' = torn /\ leftover' = leftover
    BY <1>7 DEF WorkerGet, SpecsDone, EnsureExists, EnsureStarts, PatchViews, MarkFailed,
                RecordFailed, StopContainer, ForceDelete, WorkerError
  <2> QED BY <1>1, <2>1, <2>2
<1>8. CASE ProjectFails \/ GetFails \/ EnsureCannot \/ EnsureFails \/ ProjectSkips \/ WriteDone
  <2>1. UNCHANGED faults \/ Fail
    BY <1>8 DEF ProjectFails, GetFails, EnsureCannot, EnsureFails, ProjectSkips, WriteDone
  <2>2. failed' = failed /\ torn' \subseteq torn /\ leftover' = leftover
    BY <1>8 DEF ProjectFails, GetFails, EnsureCannot, EnsureFails, ProjectSkips, WriteDone, Failure
  <2> QED BY <1>1, <2>1, <2>2
<1>9. ASSUME NEW left, ProjectReads(left) PROVE RestTypes'
  <2>1. PICK v, d : v = Refs[wi].src /\ d = source[v] OBVIOUS
  <2>2. /\ v \in Vols /\ torn' = torn \cup {v} /\ failed' = failed /\ (UNCHANGED faults \/ Fail)
        /\ leftover' = leftover \ {v} \/ leftover' = leftover \cup {v}
    BY <1>9, <2>1, ReadsShape
  <2> QED BY <1>1, <2>2
<1>10. ASSUME NEW k \in Keys, WriteRejected(k) \/ WriteFails(k) \/ WriteKey(k)
       PROVE  RestTypes'
  <2>1. UNCHANGED faults \/ Fail BY <1>10 DEF WriteRejected, WriteFails, WriteKey
  <2>2. UNCHANGED <<failed, torn, leftover>> BY <1>10 DEF WriteRejected, WriteFails, WriteKey, Failure
  <2> QED BY <1>1, <2>1, <2>2
<1>11. CASE UNCHANGED vars BY <1>1, <1>11 DEF vars
<1> QED BY <1>2, <1>3, <1>4, <1>5, <1>6, <1>7, <1>8, <1>9, <1>10, <1>11
        DEF Next, WorkerStep, HandlerStep, ReaperStep

LEMMA TypeInit == Init => TypeOK
<1> SUFFICES ASSUME Init PROVE TypeOK OBVIOUS
<1> USE ProjectionAssumption DEF Init
<1>1. NoViews \in Views BY DEF NoViews, Views
<1>2. ApiTypes
  <2>1. source \in [Sources -> Data \cup {None}] OBVIOUS
  <2> QED BY <2>1, StatusIs DEF ApiTypes
<1>3. FlagTypes BY DEF FlagTypes
<1>4. WorkerTypes BY DEF WorkerTypes
<1>5. ContTypes BY <1>1 DEF ContTypes
<1>6. RemovalTypes BY DEF RemovalTypes
<1>7. RestTypes BY DEF RestTypes
<1>8. DirInv BY VolInit DEF VolInv
<1> QED BY <1>2, <1>3, <1>4, <1>5, <1>6, <1>7, <1>8, PartsType

LEMMA TypeStep ==
  ASSUME TypeOK, VolInv, DirInv', [Next]_vars
  PROVE  TypeOK'
<1>1. /\ ApiTypes' /\ FlagTypes' /\ WorkerTypes' /\ ContTypes' /\ RemovalTypes' /\ RestTypes'
  BY ApiStep, FlagStep, WorkerTypeStep, ContStep, RemovalStep, RestStep DEF VolInv
<1>2. ASSUME NEW v \in Vols, dir'[v] # None
      PROVE  /\ DOMAIN dir'[v] \subseteq Keys
             /\ \A k \in DOMAIN dir'[v] : dir'[v][k] \in Data \cup {None}
  BY <1>2 DEF DirInv, IsDir
<1>3. DOMAIN dir' = Vols BY DEF DirInv
<1> QED BY <1>1, <1>2, <1>3, Zenon
        DEF TypeOK, ApiTypes, FlagTypes, WorkerTypes, ContTypes, RemovalTypes, RestTypes

-----------------------------------------------------------------------------
(* The theorems *)

\* Every step keeps the inductive invariant: the volumes, the order in which
\* the Pod is created, known and removed, and the containers that run.
THEOREM PAlways == Spec => []PInv
<1>1. ASSUME Init PROVE PInv
  <2>1. TypeOK /\ VolInv BY <1>1, TypeInit, VolInit
  <2>2. LifeInv BY <1>1 DEF Init, LifeInv, NoContainer, NoViews
  <2>3. RunningHasVolumes BY <1>1 DEF Init, RunningHasVolumes, Known
  <2> QED BY <2>1, <2>2, <2>3 DEF PInv, VolInv
<1>2. ASSUME PInv, [Next]_vars PROVE PInv'
  <2>1. TypeOK /\ VolInv /\ LifeInv /\ RunningHasVolumes BY <1>2 DEF PInv, VolInv
  <2>2. VolInv' BY <1>2, <2>1, VolStep
  <2>3. LifeInv' BY <1>2, <2>1, LifeStep
  <2>4. RunningHasVolumes' BY <1>2, <2>1, RunStep
  <2>5. TypeOK' BY <1>2, <2>1, <2>2, TypeStep DEF VolInv
  <2> QED BY <2>2, <2>3, <2>4, <2>5 DEF PInv, VolInv
<1> QED BY <1>1, <1>2, PTL DEF Spec

\* Every variable keeps its type, and only volumes of the Pod have directories,
\* whatever the order of worker, handler, reaper and restarts.
THEOREM ProjectionTypes == Spec => []TypeOK
BY PAlways, PTL DEF PInv

\* writeKeyFiles: while the Pod exists, a volume whose last writing was completed
\* has all files of one version of its source, whatever was cut off before; it
\* has others only if ReadDir or Remove failed in the last pass over it.
THEOREM SnapshotVolumes == Spec => []VolumeIsSnapshot
BY PAlways, PTL DEF PInv

\* reapByUID and reapOrphans: while the Pod exists its running containers have
\* the directories they mount.
THEOREM VolumesOutliveContainers == Spec => []RunningHasVolumes
BY PAlways, PTL DEF PInv
=============================================================================
