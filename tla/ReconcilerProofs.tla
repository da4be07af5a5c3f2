-------------------------- MODULE ReconcilerProofs ---------------------------
(***************************************************************************)
(* Proofs about Reconciler, for every number of Pods created under the     *)
(* name, every number of containers and of faults, and both ways to delete *)
(* a Pod: the types; no container of a Pod that still exists is removed    *)
(* once it has run; a Pod that nobody deleted is force-deleted only for an *)
(* earlier one of its name; a Pod that is gone and forgotten stays so.     *)
(***************************************************************************)
EXTENDS Reconciler, TLAPS

Event == [type : {"ADDED", "MODIFIED", "DELETED"}, pod : Pod]
Note == [kind : {"key", "reap"}, uid : UIDs \cup {0}]

-----------------------------------------------------------------------------
(* Sequences and records *)

LEMMA AppendIs ==
  ASSUME NEW S, NEW s \in Seq(S), NEW e \in S
  PROVE  /\ Append(s, e) \in Seq(S)
         /\ DOMAIN s \subseteq DOMAIN Append(s, e)
         /\ \A i \in DOMAIN Append(s, e) :
              \/ i \in DOMAIN s /\ Append(s, e)[i] = s[i]
              \/ i = Len(s) + 1 /\ i \notin DOMAIN s /\ Append(s, e)[i] = e
OBVIOUS

LEMMA TailIs ==
  ASSUME NEW S, NEW s \in Seq(S), s # << >>
  PROVE  /\ Head(s) \in S /\ Head(s) = s[1] /\ 1 \in DOMAIN s
         /\ Tail(s) \in Seq(S)
         /\ \A i \in DOMAIN Tail(s) : i + 1 \in DOMAIN s /\ Tail(s)[i] = s[i + 1]
OBVIOUS

LEMMA EmptyIs == ASSUME NEW S PROVE << >> \in Seq(S) /\ DOMAIN << >> = {}
OBVIOUS

LEMMA Numbers ==
  /\ Conts \subseteq 0 .. N + 1 /\ Reasons = 1 .. N + 1 /\ 1 \in Conts /\ N \in Conts
  /\ 0 \notin UIDs /\ UIDs \subseteq 0 .. MaxUID /\ UIDs \subseteq Nat
BY ReconcilerAssumption DEF Conts, Reasons, SpecError, UIDs

LEMMA StatusTypes ==
  /\ NoViews \in Views /\ NoStatus \in Status
  /\ \A u \in UIDs : FailedStatus(u) \in Status
  /\ \A u \in UIDs, v \in Views : ViewsStatus(v, u) \in Status
  /\ \A s, t \in Status : Merge(s, t) \in Status
<1>1. NoViews \in Views BY DEF NoViews, Views
<1>2. \A s, t \in Status : Merge(s, t) \in Status BY DEF Merge, Status
<1> QED BY <1>1, <1>2 DEF NoStatus, FailedStatus, ViewsStatus, Status

LEMMA PodTypes ==
  /\ \A u \in UIDs : [uid |-> u, term |-> FALSE, st |-> NoStatus] \in Pod
  /\ \A p \in Pod : /\ p.uid \in UIDs
                    /\ [p EXCEPT !.term = TRUE] \in Pod
                    /\ [p EXCEPT !.term = TRUE].uid = p.uid
                    /\ [p EXCEPT !.term = TRUE].term
                    /\ \A s \in Status : /\ [p EXCEPT !.st = s] \in Pod
                                         /\ [p EXCEPT !.st = s].uid = p.uid
                                         /\ [p EXCEPT !.st = s].term = p.term
BY StatusTypes DEF Pod

LEMMA EventTypes ==
  /\ \A t \in {"ADDED", "MODIFIED", "DELETED"}, p \in Pod :
       /\ [type |-> t, pod |-> p] \in Event
       /\ [type |-> t, pod |-> p].pod = p /\ [type |-> t, pod |-> p].type = t
  /\ \A e \in Event : e.pod \in Pod
BY DEF Event

LEMMA NoteTypes ==
  /\ KeyNote \in Note /\ KeyNote.kind = "key"
  /\ \A u \in UIDs : ReapNote(u) \in Note /\ ReapNote(u).kind = "reap" /\ ReapNote(u).uid = u
  /\ \A n \in Note : n.kind \in {"key", "reap"}
BY DEF Note, KeyNote, ReapNote

-----------------------------------------------------------------------------
(* Types *)

ApiTypes ==
  /\ pod \in Pod \cup {None} /\ cache \in Pod \cup {None}
  /\ lastUid \in 0 .. MaxUID
  /\ stream \in Seq(Event)

\* A reap note is about a Pod.
NoteTypesInv ==
  /\ notify \in Seq(Note)
  /\ \A i \in DOMAIN notify : notify[i].kind = "reap" => notify[i].uid \in UIDs

DockerTypes ==
  /\ failed \in [UIDs -> Reasons \cup {0}]
  /\ conts \in [UIDs -> [Conts -> ContState]]

\* The worker has a Pod in hand, and its index is that of a container, of a
\* failure's reason, or just past the loop it is in.
WorkerTypes ==
  /\ wpc \in {"idle", "ensure", "start", "view", "fail", "record", "stop"}
  /\ wpod \in Pod \cup {None} /\ wi \in 0 .. N + 1 /\ wviews \in Views
  /\ wpc # "idle" => wpod # None
  /\ wpc = "ensure" => wi \in 1 .. N + 1
  /\ wpc \in {"start", "view"} => wi \in Conts
  /\ wpc \in {"fail", "record"} => wi \in Reasons
  /\ wpc = "stop" => wi \in 0 .. N

ReapTypes ==
  /\ htodo \subseteq Conts /\ huid \in UIDs \cup {0}
  /\ htodo # {} => huid \in UIDs
  /\ rpc \in {"idle", "listed", "reap"} /\ rlist \subseteq UIDs \X Conts

TypeInv ==
  /\ ApiTypes /\ NoteTypesInv /\ DockerTypes /\ WorkerTypes /\ ReapTypes
  /\ dirty \in BOOLEAN
  /\ faults \in 0 .. MaxFaults

LEMMA TypeInit == Init => TypeInv
<1> SUFFICES ASSUME Init PROVE TypeInv OBVIOUS
<1>1. ApiTypes BY Numbers, EmptyIs, ReconcilerAssumption DEF Init, ApiTypes
<1>2. NoteTypesInv BY EmptyIs DEF Init, NoteTypesInv
<1>3. DockerTypes BY DEF Init, DockerTypes, NoViews, ContState
<1>4. WorkerTypes BY StatusTypes, ReconcilerAssumption DEF Init, WorkerTypes
<1>5. ReapTypes BY DEF Init, ReapTypes
<1>6. dirty \in BOOLEAN BY DEF Init
<1>7. faults \in 0 .. MaxFaults BY ReconcilerAssumption DEF Init
<1> QED BY <1>1, <1>2, <1>3, <1>4, <1>5, <1>6, <1>7 DEF TypeInv

\* What a step does to the apiserver and to the informer.
ApiUnchanged == UNCHANGED <<pod, lastUid, stream, cache>>
Created == UserCreate /\ UNCHANGED cache
Modified ==
  /\ pod # None /\ pod' \in Pod /\ pod'.uid = pod.uid /\ (pod.term => pod'.term)
  /\ Emit("MODIFIED", pod') /\ UNCHANGED <<lastUid, cache>>
Removed == pod # None /\ RemovePod /\ UNCHANGED cache
Listed == stream' = << >> /\ cache' = pod /\ UNCHANGED <<pod, lastUid>>

LEMMA PatchIs ==
  ASSUME ApiTypes, NEW s \in Status, PatchStatus(s), UNCHANGED cache
  PROVE  ApiUnchanged \/ Modified
<1>1. CASE pod = None \/ pod.st = Merge(pod.st, s)
  BY <1>1 DEF PatchStatus, ApiUnchanged, apiVars
<1>2. CASE ~(pod = None \/ pod.st = Merge(pod.st, s))
  <2>0. pod \in Pod /\ pod.st \in Status BY <1>2 DEF ApiTypes, Pod
  <2>1. PICK t \in Status : t = Merge(pod.st, s) BY <2>0, StatusTypes
  <2>2. pod' = [pod EXCEPT !.st = t] /\ Emit("MODIFIED", pod') /\ UNCHANGED lastUid
    BY <1>2, <2>1 DEF PatchStatus
  <2>3. pod' \in Pod /\ pod'.uid = pod.uid /\ (pod.term => pod'.term)
    BY <2>0, <2>2, PodTypes
  <2> QED BY <1>2, <2>2, <2>3 DEF Modified
<1> QED BY <1>1, <1>2

LEMMA RemoveIs ==
  ASSUME RemovePod, UNCHANGED cache
  PROVE  ApiUnchanged \/ Removed
BY DEF RemovePod, Removed, ApiUnchanged, apiVars

LEMMA ApiStep ==
  ASSUME TypeInv, [Next]_vars
  PROVE  ApiUnchanged \/ Created \/ Modified \/ Removed \/ InformerPop \/ Listed
<1>1. CASE UserCreate BY <1>1 DEF UserCreate, Created, kubeVars
<1>2. CASE UserDelete
  <2>1. pod \in Pod BY <1>2 DEF UserDelete, TypeInv, ApiTypes
  <2>2. pod' = [pod EXCEPT !.term = TRUE] BY <1>2 DEF UserDelete
  <2>3. pod' \in Pod /\ pod'.uid = pod.uid /\ (pod.term => pod'.term)
    BY <2>1, <2>2, PodTypes
  <2> QED BY <1>2, <2>3 DEF UserDelete, Modified, kubeVars
<1>3. CASE UserForceDelete \/ ForceDelete
  BY <1>3, RemoveIs DEF UserForceDelete, ForceDelete, kubeVars
<1>4. CASE MarkFailed
  <2>1. wpod.uid \in UIDs
    BY <1>4, PodTypes DEF MarkFailed, TypeInv, WorkerTypes
  <2> QED BY <1>4, <2>1, StatusTypes, PatchIs DEF MarkFailed, kubeVars, TypeInv
<1>5. CASE PatchViews
  <2>1. wpod.uid \in UIDs /\ wviews \in Views
    BY <1>5, PodTypes DEF PatchViews, TypeInv, WorkerTypes
  <2> QED BY <1>5, <2>1, StatusTypes, PatchIs DEF PatchViews, kubeVars, TypeInv
<1>6. CASE InformerRelist \/ KubeletRestart
  BY <1>6 DEF InformerRelist, KubeletRestart, Listed
<1>7. CASE \/ \E u \in UIDs, c \in Conts : ContainerExits(u, c)
           \/ InformerResync \/ HandlerStep \/ HandlerGivesUp \/ WorkerError
           \/ SpecsFail \/ EnsureFails \/ StartGoesWrong \/ StopSkips
           \/ ReaperStep \/ \E x \in UIDs \X Conts : ReapSkip(x)
  BY <1>7 DEF ContainerExits, InformerResync, HandlerStep, HandleKey, HandleDelete,
       HandleRemove, HandlerGivesUp, WorkerError, SpecsFail, EnsureFails,
       StartGoesWrong, StopSkips, ReaperStep, ReapList, ReapCompare, ReapRemove,
       ReapSkip, ReapDone, kubeVars, apiVars, ApiUnchanged
<1>8. CASE \/ WorkerGet \/ EnsureExists \/ EnsureCreate \/ EnsureStart \/ StartFails
           \/ ViewStarted \/ RecordFailed \/ StopContainer
  BY <1>8 DEF WorkerGet, EnsureExists, EnsureCreate, EnsureStart, StartFails,
       ViewStarted, RecordFailed, StopContainer, kubeVars, apiVars, ApiUnchanged
<1>9. CASE UNCHANGED vars BY <1>9 DEF vars, kubeVars, apiVars, ApiUnchanged
<1> QED BY <1>1, <1>2, <1>3, <1>4, <1>5, <1>6, <1>7, <1>8, <1>9 DEF Next, WorkerStep

LEMMA ApiTypesStep ==
  ASSUME TypeInv, [Next]_vars
  PROVE  ApiTypes'
<1>0. ApiTypes BY DEF TypeInv
<1>1. CASE ApiUnchanged BY <1>0, <1>1 DEF ApiUnchanged, ApiTypes
<1>2. CASE Created
  <2>1. lastUid + 1 \in UIDs /\ lastUid' \in 0 .. MaxUID
    BY <1>0, <1>2, ReconcilerAssumption DEF Created, UserCreate, ApiTypes, UIDs
  <2>2. pod' \in Pod BY <1>2, <2>1, PodTypes DEF Created, UserCreate
  <2>3. [type |-> "ADDED", pod |-> pod'] \in Event BY <2>2, EventTypes
  <2>4. stream' \in Seq(Event)
    BY <1>0, <1>2, <2>3, AppendIs DEF Created, UserCreate, Emit, ApiTypes
  <2> QED BY <1>0, <1>2, <2>1, <2>2, <2>4 DEF Created, ApiTypes
<1>3. CASE Modified
  <2>1. [type |-> "MODIFIED", pod |-> pod'] \in Event BY <1>3, EventTypes DEF Modified
  <2>2. stream' \in Seq(Event)
    BY <1>0, <1>3, <2>1, AppendIs DEF Modified, Emit, ApiTypes
  <2> QED BY <1>0, <1>3, <2>2 DEF Modified, ApiTypes
<1>4. CASE Removed
  <2>1. [type |-> "DELETED", pod |-> pod] \in Event
    BY <1>0, <1>4, EventTypes DEF Removed, ApiTypes
  <2>2. stream' \in Seq(Event)
    BY <1>0, <1>4, <2>1, AppendIs DEF Removed, RemovePod, Emit, ApiTypes
  <2> QED BY <1>0, <1>4, <2>2 DEF Removed, RemovePod, ApiTypes
<1>5. CASE InformerPop
  <2>1. Head(stream).pod \in Pod /\ Tail(stream) \in Seq(Event)
    BY <1>0, <1>5, TailIs, EventTypes DEF InformerPop, ApiTypes
  <2> QED BY <1>0, <1>5, <2>1 DEF InformerPop, ApiTypes
<1>6. CASE Listed BY <1>0, <1>6, EmptyIs DEF Listed, ApiTypes
<1> QED BY <1>1, <1>2, <1>3, <1>4, <1>5, <1>6, ApiStep

\* What a step does to the notifications: the handler takes the first, the
\* informer adds one, about a Pod that was there or that it had in its cache.
Taken == notify # << >> /\ notify' = Tail(notify)
Added(n) == notify' = Append(notify, n)

LEMMA NoteStep ==
  ASSUME TypeInv, [Next]_vars
  PROVE  \/ UNCHANGED notify \/ Taken \/ notify' = << >>
         \/ notify' = << KeyNote >> \/ Added(KeyNote)
         \/ /\ InformerPop /\ Head(stream).type = "DELETED"
            /\ Added(ReapNote(Head(stream).pod.uid))
         \/ /\ Listed /\ pod = None /\ cache # None
            /\ Added(ReapNote(cache.uid))
<1>1. CASE InformerPop BY <1>1 DEF InformerPop, Added
<1>2. CASE InformerRelist BY <1>2 DEF InformerRelist, Added, Listed
<1>3. CASE InformerResync \/ KubeletRestart BY <1>3 DEF InformerResync, KubeletRestart
<1>4. CASE HandleKey \/ HandleDelete
  BY <1>4 DEF HandleKey, HandleDelete, Taken
<1>5. CASE \/ UserCreate \/ UserDelete \/ UserForceDelete
           \/ \E u \in UIDs, c \in Conts : ContainerExits(u, c)
           \/ \E c \in Conts : HandleRemove(c)
           \/ HandlerGivesUp \/ WorkerError \/ SpecsFail \/ EnsureFails
           \/ StartGoesWrong \/ StopSkips
           \/ ReaperStep \/ \E x \in UIDs \X Conts : ReapSkip(x)
  BY <1>5 DEF UserCreate, UserDelete, UserForceDelete, ContainerExits,
       HandleRemove, HandlerGivesUp, WorkerError, SpecsFail, EnsureFails,
       StartGoesWrong, StopSkips, ReaperStep, ReapList, ReapCompare, ReapRemove,
       ReapSkip, ReapDone, kubeVars
<1>6. CASE WorkerStep
  BY <1>6 DEF WorkerStep, WorkerGet, EnsureExists, EnsureCreate, EnsureStart,
       StartFails, ViewStarted, MarkFailed, RecordFailed, PatchViews,
       StopContainer, ForceDelete, kubeVars
<1>7. CASE UNCHANGED vars BY <1>7 DEF vars, kubeVars
<1> QED BY <1>1, <1>2, <1>3, <1>4, <1>5, <1>6, <1>7 DEF Next, HandlerStep

LEMMA NoteTypesStep ==
  ASSUME TypeInv, [Next]_vars
  PROVE  NoteTypesInv'
<1>0. NoteTypesInv /\ ApiTypes BY DEF TypeInv
<1>1. CASE UNCHANGED notify BY <1>0, <1>1 DEF NoteTypesInv
<1>2. CASE Taken
  <2>1. /\ Tail(notify) \in Seq(Note)
        /\ \A i \in DOMAIN Tail(notify) :
             i + 1 \in DOMAIN notify /\ Tail(notify)[i] = notify[i + 1]
    BY <1>0, <1>2, TailIs DEF NoteTypesInv, Taken
  <2> QED BY <1>0, <1>2, <2>1 DEF NoteTypesInv, Taken
<1>3. CASE notify' = << >> BY <1>3, EmptyIs DEF NoteTypesInv
<1>4. CASE notify' = << KeyNote >>
  <2>1. notify' \in Seq(Note) /\ \A i \in DOMAIN notify' : notify'[i] = KeyNote
    BY <1>4, NoteTypes
  <2> QED BY <2>1, NoteTypes DEF NoteTypesInv
<1>5. ASSUME NEW n \in Note, n.kind = "reap" => n.uid \in UIDs, Added(n)
      PROVE  NoteTypesInv'
  BY <1>0, <1>5, AppendIs DEF NoteTypesInv, Added
<1>6. CASE Added(KeyNote) BY <1>5, <1>6, NoteTypes
<1>7. CASE InformerPop /\ Added(ReapNote(Head(stream).pod.uid))
  <2>1. Head(stream).pod.uid \in UIDs
    BY <1>0, <1>7, TailIs, EventTypes, PodTypes DEF InformerPop, ApiTypes
  <2> QED BY <1>5, <1>7, <2>1, NoteTypes
<1>8. CASE cache # None /\ Added(ReapNote(cache.uid))
  <2>1. cache.uid \in UIDs BY <1>0, <1>8, PodTypes DEF ApiTypes
  <2> QED BY <1>5, <1>8, <2>1, NoteTypes
<1> QED BY <1>1, <1>2, <1>3, <1>4, <1>6, <1>7, <1>8, NoteStep

\* The worker's Pod has a UID, and its index is a container's inside a loop.
LEMMA WorkerHas ==
  ASSUME WorkerTypes
  PROVE  /\ wpc # "idle" => wpod \in Pod /\ wpod.uid \in UIDs
         /\ wpc \in {"start", "view"} => wi \in Conts
         /\ wpc = "ensure" /\ wi <= N => wi \in Conts
         /\ wpc = "stop" /\ wi >= 1 => wi \in Conts
<1>1. wpc # "idle" => wpod \in Pod /\ wpod.uid \in UIDs BY PodTypes DEF WorkerTypes
<1>2. wpc = "ensure" /\ wi <= N => wi \in Conts
  BY ReconcilerAssumption DEF WorkerTypes, Conts
<1>3. wpc = "stop" /\ wi >= 1 => wi \in Conts
  BY ReconcilerAssumption DEF WorkerTypes, Conts
<1> QED BY <1>1, <1>2, <1>3 DEF WorkerTypes

\* What a step does to Docker's containers.
SetCont(u, c, s) ==
  u \in UIDs /\ c \in Conts /\ conts' = [conts EXCEPT ![u][c] = s]

LEMMA SetContIs ==
  ASSUME DockerTypes, NEW u, NEW c, NEW s \in ContState, SetCont(u, c, s)
  PROVE  /\ conts' \in [UIDs -> [Conts -> ContState]]
         /\ conts'[u][c] = s
         /\ \A v \in UIDs, d \in Conts : v # u \/ d # c => conts'[v][d] = conts[v][d]
BY DEF SetCont, DockerTypes

LEMMA DockerStep ==
  ASSUME TypeInv, [Next]_vars
  PROVE  \/ UNCHANGED conts
         \/ \E u \in UIDs, c \in Conts :
              conts[u][c] = "running" /\ SetCont(u, c, "exited")
         \/ EnsureCreate /\ SetCont(wpod.uid, wi, "created")
         \/ EnsureStart /\ SetCont(wpod.uid, wi, "running")
         \/ wpc = "start" /\ SetCont(wpod.uid, wi, "none")
         \/ \E c \in Conts : HandleRemove(c) /\ SetCont(huid, c, "none")
         \/ \E x \in UIDs \X Conts : ReapRemove(x) /\ SetCont(x[1], x[2], "none")
<1>0. /\ wpc # "idle" => wpod.uid \in UIDs
      /\ wpc = "start" => wi \in Conts
      /\ wpc = "ensure" /\ wi <= N => wi \in Conts
      /\ wpc = "stop" /\ wi >= 1 => wi \in Conts
  BY WorkerHas DEF TypeInv
<1>1. CASE \E u \in UIDs, c \in Conts : ContainerExits(u, c)
  BY <1>1 DEF ContainerExits, SetCont
<1>2. CASE EnsureCreate BY <1>0, <1>2 DEF EnsureCreate, SetCont
<1>3. CASE EnsureStart BY <1>0, <1>3 DEF EnsureStart, SetCont
<1>4. CASE StartFails \/ StartGoesWrong
  BY <1>0, <1>4 DEF StartFails, StartGoesWrong, SetCont
<1>5. CASE StopContainer
  <2>1. CASE conts[wpod.uid][wi] = "running"
    BY <1>0, <1>5, <2>1 DEF StopContainer, SetCont
  <2>2. CASE conts[wpod.uid][wi] # "running"
    <3>1. conts' = [conts EXCEPT ![wpod.uid][wi] = conts[wpod.uid][wi]]
      BY <1>0, <1>5, <2>2 DEF StopContainer
    <3>2. conts' = conts BY <1>0, <1>5, <3>1 DEF StopContainer, TypeInv, DockerTypes
    <3> QED BY <3>2
  <2> QED BY <2>1, <2>2
<1>6. CASE \E c \in Conts : HandleRemove(c)
  <2>1. PICK c \in Conts : HandleRemove(c) BY <1>6
  <2>2. huid \in UIDs BY <2>1 DEF HandleRemove, TypeInv, ReapTypes
  <2> QED BY <2>1, <2>2 DEF HandleRemove, SetCont
<1>7. CASE \E x \in UIDs \X Conts : ReapRemove(x)
  BY <1>7 DEF ReapRemove, SetCont
<1>8. CASE \/ UserCreate \/ UserDelete \/ UserForceDelete
           \/ InformerPop \/ InformerRelist \/ InformerResync \/ KubeletRestart
           \/ HandleKey \/ HandleDelete \/ HandlerGivesUp \/ WorkerError
           \/ SpecsFail \/ EnsureFails \/ StopSkips
           \/ ReapList \/ ReapCompare \/ ReapDone
           \/ \E x \in UIDs \X Conts : ReapSkip(x)
  BY <1>8 DEF UserCreate, UserDelete, UserForceDelete, InformerPop,
       InformerRelist, InformerResync, KubeletRestart, HandleKey, HandleDelete,
       HandlerGivesUp, WorkerError, SpecsFail, EnsureFails, StopSkips, ReapList,
       ReapCompare, ReapDone, ReapSkip
<1>9. CASE \/ WorkerGet \/ EnsureExists \/ ViewStarted \/ MarkFailed \/ RecordFailed
           \/ PatchViews \/ ForceDelete
  BY <1>9 DEF WorkerGet, EnsureExists, ViewStarted, MarkFailed, RecordFailed,
       PatchViews, ForceDelete
<1>10. CASE UNCHANGED vars BY <1>10 DEF vars
<1> QED
  BY <1>1, <1>2, <1>3, <1>4, <1>5, <1>6, <1>7, <1>8, <1>9, <1>10
  DEF Next, WorkerStep, HandlerStep, ReaperStep

LEMMA DockerTypesStep ==
  ASSUME TypeInv, [Next]_vars
  PROVE  DockerTypes'
<1>0. DockerTypes BY DEF TypeInv
<1>1. conts' \in [UIDs -> [Conts -> ContState]]
  <2>1. \A u, c, s : s \in ContState /\ SetCont(u, c, s)
                       => conts' \in [UIDs -> [Conts -> ContState]]
    BY <1>0, SetContIs
  <2>2. {"none", "created", "running", "exited"} = ContState BY DEF ContState
  <2>3. CASE UNCHANGED conts BY <1>0, <2>3 DEF DockerTypes
  <2> QED BY <2>1, <2>2, <2>3, DockerStep
<1>2. failed' \in [UIDs -> Reasons \cup {0}]
  <2>1. CASE HandleDelete BY <1>0, <2>1 DEF HandleDelete, DockerTypes
  <2>2. CASE RecordFailed
    BY <1>0, <2>2 DEF RecordFailed, TypeInv, WorkerTypes, DockerTypes
  <2>3. CASE KubeletRestart BY <2>3 DEF KubeletRestart
  <2>4. CASE \/ UserCreate \/ UserDelete \/ UserForceDelete
             \/ \E u \in UIDs, c \in Conts : ContainerExits(u, c)
             \/ InformerPop \/ InformerRelist \/ InformerResync
             \/ HandleKey \/ \E c \in Conts : HandleRemove(c)
             \/ HandlerGivesUp \/ WorkerError \/ SpecsFail \/ EnsureFails
             \/ StartGoesWrong \/ StopSkips
             \/ ReaperStep \/ \E x \in UIDs \X Conts : ReapSkip(x)
    <3>1. UNCHANGED failed
      BY <2>4 DEF UserCreate, UserDelete, UserForceDelete, ContainerExits,
           InformerPop, InformerRelist, InformerResync, HandleKey, HandleRemove,
           HandlerGivesUp, WorkerError, SpecsFail, EnsureFails, StartGoesWrong,
           StopSkips, ReaperStep, ReapList, ReapCompare, ReapRemove, ReapSkip,
           ReapDone, kubeVars
    <3> QED BY <1>0, <3>1 DEF DockerTypes
  <2>5. CASE \/ WorkerGet \/ EnsureExists \/ EnsureCreate \/ EnsureStart
             \/ StartFails \/ ViewStarted \/ MarkFailed \/ PatchViews
             \/ StopContainer \/ ForceDelete
    <3>1. UNCHANGED failed
      BY <2>5 DEF WorkerGet, EnsureExists, EnsureCreate, EnsureStart, StartFails,
           ViewStarted, MarkFailed, PatchViews, StopContainer, ForceDelete, kubeVars
    <3> QED BY <1>0, <3>1 DEF DockerTypes
  <2>6. CASE UNCHANGED vars BY <1>0, <2>6 DEF vars, kubeVars, DockerTypes
  <2> QED
    BY <2>1, <2>2, <2>3, <2>4, <2>5, <2>6 DEF Next, WorkerStep, HandlerStep
<1> QED BY <1>1, <1>2 DEF DockerTypes

\* A view of a container: running, or ended.
LEMMA ViewTypes ==
  ASSUME NEW u, NEW c, NEW v \in Views
  PROVE  [v EXCEPT ![c] = Inspect(u, c)] \in Views
BY DEF Views, Inspect

LEMMA ReturnIs == WorkerReturns => WorkerTypes'
BY StatusTypes, ReconcilerAssumption DEF WorkerReturns, WorkerTypes

LEMMA FailureIs ==
  ASSUME WorkerTypes, wpc # "idle", NEW m \in Reasons, Failure(m)
  PROVE  WorkerTypes'
<1>1. CASE WorkerReturns BY <1>1, ReturnIs
<1>2. CASE wpc' = "fail" /\ wi' = m /\ UNCHANGED <<wpod, wviews>>
  BY <1>2, Numbers, ReconcilerAssumption DEF WorkerTypes
<1> QED BY <1>1, <1>2 DEF Failure

LEMMA WorkerTypesStep ==
  ASSUME TypeInv, [Next]_vars
  PROVE  WorkerTypes'
<1>0. WorkerTypes BY DEF TypeInv
<1> USE <1>0
<1>1. CASE UNCHANGED workerVars BY <1>1 DEF workerVars, WorkerTypes
<1>2. CASE WorkerReturns BY <1>2, ReturnIs
<1>3. CASE WorkerGet
  <2>1. cache \in Pod \cup {None} BY DEF TypeInv, ApiTypes
  <2>2. wpod' = cache /\ wviews' = NoViews BY <1>3 DEF WorkerGet
  <2>3. CASE cache = None /\ wpc' = "idle" /\ wi' = 0
    BY <2>1, <2>2, <2>3, StatusTypes, ReconcilerAssumption DEF WorkerTypes
  <2>4. CASE cache # None /\ wpc' = "stop" /\ wi' = N
    BY <2>1, <2>2, <2>4, StatusTypes, ReconcilerAssumption DEF WorkerTypes
  <2>5. CASE cache # None /\ wpc' = "ensure" /\ wi' = 1
    BY <2>1, <2>2, <2>5, StatusTypes, ReconcilerAssumption DEF WorkerTypes
  <2> QED BY <1>3, <2>3, <2>4, <2>5 DEF WorkerGet
<1>4. CASE EnsureExists \/ ViewStarted
  <2>1. wi \in Conts /\ wpc # "idle" BY <1>4, WorkerHas DEF EnsureExists, ViewStarted
  <2>2. wviews' \in Views
    <3>1. wviews' = [wviews EXCEPT ![wi] = Inspect(wpod.uid, wi)]
      BY <1>4 DEF EnsureExists, ViewStarted
    <3> QED BY <3>1, ViewTypes DEF WorkerTypes
  <2>3. wi' = wi + 1 /\ wpc' = "ensure" /\ wpod' = wpod
    BY <1>4 DEF EnsureExists, ViewStarted
  <2>4. wi' \in 0 .. N + 1 /\ wi' \in 1 .. N + 1
    BY <2>1, <2>3, ReconcilerAssumption DEF Conts
  <2> QED BY <2>1, <2>2, <2>3, <2>4 DEF WorkerTypes
<1>5. CASE EnsureCreate \/ EnsureStart
  <2>1. wi \in Conts /\ wpc # "idle" BY <1>5, WorkerHas DEF EnsureCreate, EnsureStart
  <2>2. wpc' \in {"start", "view"} /\ UNCHANGED <<wpod, wi, wviews>>
    BY <1>5 DEF EnsureCreate, EnsureStart
  <2> QED BY <2>1, <2>2 DEF WorkerTypes
<1>6. CASE SpecsFail
  <2>1. SpecError \in Reasons BY DEF Reasons
  <2> QED BY <1>6, <2>1, FailureIs DEF SpecsFail
<1>7. CASE EnsureFails \/ StartFails \/ StartGoesWrong
  <2>1. wi \in Conts /\ wpc # "idle"
    BY <1>7, WorkerHas DEF EnsureFails, StartFails, StartGoesWrong
  <2>2. wi \in Reasons BY <2>1 DEF Reasons
  <2> QED BY <1>7, <2>1, <2>2, FailureIs DEF EnsureFails, StartFails, StartGoesWrong
<1>8. CASE MarkFailed BY <1>8 DEF MarkFailed, WorkerTypes
<1>9. CASE StopContainer \/ StopSkips
  <2>1. wpc = "stop" /\ wi >= 1 BY <1>9 DEF StopContainer, StopSkips
  <2>2. wi' = wi - 1 /\ UNCHANGED <<wpc, wpod, wviews>>
    BY <1>9 DEF StopContainer, StopSkips
  <2>3. wi' \in 0 .. N + 1 /\ wi' \in 0 .. N
    BY <2>1, <2>2, ReconcilerAssumption DEF WorkerTypes
  <2> QED BY <2>1, <2>2, <2>3 DEF WorkerTypes
<1>10. CASE RecordFailed \/ PatchViews \/ ForceDelete \/ WorkerError \/ KubeletRestart
  BY <1>2, <1>10 DEF RecordFailed, PatchViews, ForceDelete, WorkerError, KubeletRestart
<1>11. CASE \/ UserCreate \/ UserDelete \/ UserForceDelete
            \/ \E u \in UIDs, c \in Conts : ContainerExits(u, c)
            \/ InformerPop \/ InformerRelist \/ InformerResync
            \/ HandlerStep \/ HandlerGivesUp
            \/ ReaperStep \/ \E x \in UIDs \X Conts : ReapSkip(x)
  BY <1>1, <1>11 DEF UserCreate, UserDelete, UserForceDelete, ContainerExits,
       InformerPop, InformerRelist, InformerResync, HandlerStep, HandleKey,
       HandleDelete, HandleRemove, HandlerGivesUp, ReaperStep, ReapList,
       ReapCompare, ReapRemove, ReapSkip, ReapDone
<1>12. CASE UNCHANGED vars BY <1>1, <1>12 DEF vars
<1> QED
  BY <1>3, <1>4, <1>5, <1>6, <1>7, <1>8, <1>9, <1>10, <1>11, <1>12
  DEF Next, WorkerStep

LEMMA ReapTypesStep ==
  ASSUME TypeInv, [Next]_vars
  PROVE  ReapTypes'
<1>0. ReapTypes BY DEF TypeInv
<1>1. CASE UNCHANGED <<handlerVars, reaperVars>>
  BY <1>0, <1>1 DEF handlerVars, reaperVars, ReapTypes
<1>2. CASE HandleDelete
  <2>1. Head(notify).uid \in UIDs
    BY <1>2, TailIs DEF HandleDelete, TypeInv, NoteTypesInv
  <2> QED BY <1>0, <1>2, <2>1 DEF HandleDelete, reaperVars, ReapTypes
<1>3. ASSUME NEW c \in Conts, HandleRemove(c) PROVE ReapTypes'
  BY <1>0, <1>3 DEF HandleRemove, reaperVars, ReapTypes
<1>4. CASE HandlerGivesUp BY <1>0, <1>4 DEF HandlerGivesUp, reaperVars, ReapTypes
<1>5. CASE ReapList BY <1>0, <1>5 DEF ReapList, Managed, handlerVars, ReapTypes
<1>6. CASE ReapCompare \/ ReapDone
  BY <1>0, <1>6 DEF ReapCompare, ReapDone, handlerVars, ReapTypes
<1>7. ASSUME NEW x \in UIDs \X Conts, ReapRemove(x) \/ ReapSkip(x) PROVE ReapTypes'
  BY <1>0, <1>7 DEF ReapRemove, ReapSkip, handlerVars, ReapTypes
<1>8. CASE KubeletRestart BY <1>8 DEF KubeletRestart, ReapTypes
<1>9. CASE \/ UserCreate \/ UserDelete \/ UserForceDelete
           \/ \E u \in UIDs, c \in Conts : ContainerExits(u, c)
           \/ InformerPop \/ InformerRelist \/ InformerResync
           \/ HandleKey \/ WorkerError \/ SpecsFail \/ EnsureFails
           \/ StartGoesWrong \/ StopSkips
  BY <1>1, <1>9 DEF UserCreate, UserDelete, UserForceDelete, ContainerExits,
       InformerPop, InformerRelist, InformerResync, HandleKey, WorkerError,
       SpecsFail, EnsureFails, StartGoesWrong, StopSkips
<1>10. CASE WorkerStep
  BY <1>1, <1>10 DEF WorkerStep, WorkerGet, EnsureExists, EnsureCreate,
       EnsureStart, StartFails, ViewStarted, MarkFailed, RecordFailed,
       PatchViews, StopContainer, ForceDelete
<1>11. CASE UNCHANGED vars BY <1>1, <1>11 DEF vars
<1> QED
  BY <1>2, <1>3, <1>4, <1>5, <1>6, <1>7, <1>8, <1>9, <1>10, <1>11
  DEF Next, HandlerStep, ReaperStep

LEMMA FlagsStep ==
  ASSUME TypeInv, [Next]_vars
  PROVE  dirty' \in BOOLEAN /\ faults' \in 0 .. MaxFaults
<1>1. dirty' \in {dirty, TRUE, FALSE} /\ (UNCHANGED faults \/ Fail)
  <2>1. CASE \/ UserCreate \/ UserDelete \/ UserForceDelete
             \/ \E u \in UIDs, c \in Conts : ContainerExits(u, c)
             \/ InformerPop \/ InformerRelist \/ InformerResync \/ KubeletRestart
             \/ HandlerStep \/ HandlerGivesUp \/ WorkerError \/ SpecsFail
             \/ EnsureFails \/ StartGoesWrong \/ StopSkips
             \/ ReaperStep \/ \E x \in UIDs \X Conts : ReapSkip(x)
    BY <2>1 DEF UserCreate, UserDelete, UserForceDelete, ContainerExits,
         InformerPop, InformerRelist, InformerResync, KubeletRestart,
         HandlerStep, HandleKey, HandleDelete, HandleRemove, HandlerGivesUp,
         WorkerError, SpecsFail, EnsureFails, StartGoesWrong, StopSkips,
         ReaperStep, ReapList, ReapCompare, ReapRemove, ReapSkip, ReapDone,
         kubeVars
  <2>2. CASE WorkerStep
    BY <2>2 DEF WorkerStep, WorkerGet, EnsureExists, EnsureCreate, EnsureStart,
         StartFails, ViewStarted, MarkFailed, RecordFailed, PatchViews,
         StopContainer, ForceDelete, kubeVars
  <2>3. CASE UNCHANGED vars BY <2>3 DEF vars, kubeVars
  <2> QED BY <2>1, <2>2, <2>3 DEF Next
<1>2. dirty' \in BOOLEAN BY <1>1, Zenon DEF TypeInv
<1>3. faults' \in 0 .. MaxFaults
  BY <1>1, ReconcilerAssumption DEF TypeInv, Fail
<1> QED BY <1>2, <1>3

LEMMA TypeAlways == Spec => []TypeInv
<1>1. Init => TypeInv BY TypeInit
<1>2. TypeInv /\ [Next]_vars => TypeInv'
  BY ApiTypesStep, NoteTypesStep, DockerTypesStep, WorkerTypesStep, ReapTypesStep,
     FlagsStep DEF TypeInv
<1> QED BY <1>1, <1>2, PTL DEF Spec

\* Every variable keeps its type: the worker never inspects a container past
\* the spec or looks into a Pod it does not have, DeleteFunc is only called
\* for Pods, and every reason in failedPods is one a container can fail with.
THEOREM TypeCorrect == Spec => []TypeOK
<1>1. TypeInv => TypeOK
  BY DEF TypeInv, ApiTypes, NoteTypesInv, DockerTypes, WorkerTypes, ReapTypes,
       TypeOK, Event, Note
<1> QED BY TypeAlways, <1>1, PTL

-----------------------------------------------------------------------------
(* Only orphans are removed *)

\* The Pod u was created and is gone, for good: UIDs are not used again.
Gone(u) == u <= lastUid /\ ~Known(u)

\* The informer knows of u, if u exists.
Seen(u) == u <= lastUid /\ (Known(u) => cache # None /\ cache.uid = u)

\* The apiserver's Pod is the newest, the events on their way to the informer
\* are in the order of their UIDs and not older than its cache, and a DELETED
\* event is about a Pod that is gone.
StreamInv ==
  /\ pod # None => pod.uid = lastUid
  /\ cache # None => cache.uid <= lastUid
  /\ \A i \in DOMAIN stream :
       /\ stream[i].pod.uid <= lastUid
       /\ stream[i].type = "DELETED" => Gone(stream[i].pod.uid)
       /\ cache # None => cache.uid <= stream[i].pod.uid
  /\ \A i, j \in DOMAIN stream : i <= j => stream[i].pod.uid <= stream[j].pod.uid

\* Containers are made only for Pods the informer has shown, whoever looks at
\* them later; what is to be removed belongs to no Pod; and what the worker
\* is about to start has not run.
OwnerInv ==
  /\ \A u \in UIDs, c \in Conts : conts[u][c] # "none" => Seen(u)
  /\ wpc # "idle" => Seen(wpod.uid)
  /\ rpc = "listed" => \A x \in rlist : Seen(x[1])
  /\ rpc = "reap" => \A x \in rlist : Gone(x[1])
  /\ \A i \in DOMAIN notify : notify[i].kind = "reap" => Gone(notify[i].uid)
  /\ htodo # {} => Gone(huid)
  /\ wpc = "start" => conts[wpod.uid][wi] \in {"none", "created"}

\* A Pod that is gone stays so.
LEMMA GoneStays ==
  ASSUME TypeInv, StreamInv, [Next]_vars, NEW u \in UIDs, Gone(u)
  PROVE  Gone(u)'
<1>0. lastUid \in Nat /\ u \in Nat BY Numbers DEF TypeInv, ApiTypes
<1>1. CASE ApiUnchanged BY <1>1 DEF ApiUnchanged, Gone, Known
<1>2. CASE Created
  <2>1. lastUid' = lastUid + 1 /\ pod'.uid = lastUid + 1
    BY <1>2 DEF Created, UserCreate
  <2> QED BY <1>0, <2>1 DEF Gone, Known
<1>3. CASE Modified BY <1>3 DEF Modified, Gone, Known
<1>4. CASE Removed BY <1>4 DEF Removed, RemovePod, Gone, Known
<1>5. CASE InformerPop BY <1>5 DEF InformerPop, Gone, Known
<1>6. CASE Listed BY <1>6 DEF Listed, Gone, Known
<1> QED BY <1>1, <1>2, <1>3, <1>4, <1>5, <1>6, ApiStep

\* The next event the informer takes is about the Pod it knows, if that exists.
LEMMA NextEvent ==
  ASSUME TypeInv, StreamInv, stream # << >>
  PROVE  /\ Head(stream) = stream[1] /\ 1 \in DOMAIN stream
         /\ Head(stream).pod \in Pod /\ Head(stream).pod.uid \in UIDs
         /\ Head(stream).pod.uid <= lastUid
         /\ cache # None /\ cache.uid = lastUid => Head(stream).pod.uid = lastUid
         /\ Head(stream).type = "DELETED" => Gone(Head(stream).pod.uid)
<1>1. /\ Head(stream) = stream[1] /\ 1 \in DOMAIN stream
      /\ Head(stream).pod \in Pod /\ Head(stream).pod.uid \in UIDs
  <2>1. Head(stream) = stream[1] /\ 1 \in DOMAIN stream /\ Head(stream) \in Event
    BY TailIs DEF TypeInv, ApiTypes
  <2> QED BY <2>1, EventTypes, PodTypes
<1>2. Head(stream).pod.uid \in Nat BY <1>1, Numbers
<1>3. lastUid \in Nat BY DEF TypeInv, ApiTypes
<1> QED BY <1>1, <1>2, <1>3 DEF StreamInv

\* What the informer has seen it does not forget while it exists.
LEMMA SeenStays ==
  ASSUME TypeInv, StreamInv, [Next]_vars, NEW u \in UIDs, Seen(u)
  PROVE  Seen(u)'
<1>0. lastUid \in Nat /\ u \in Nat BY Numbers DEF TypeInv, ApiTypes
<1>1. CASE ApiUnchanged BY <1>1 DEF ApiUnchanged, Seen, Known
<1>2. CASE Created
  <2>1. lastUid' = lastUid + 1 /\ pod'.uid = lastUid + 1
    BY <1>2 DEF Created, UserCreate
  <2> QED BY <1>0, <2>1 DEF Seen, Known
<1>3. CASE Modified BY <1>3 DEF Modified, Seen, Known
<1>4. CASE Removed BY <1>4 DEF Removed, RemovePod, Seen, Known
<1>5. CASE InformerPop
  <2>1. UNCHANGED <<pod, lastUid>> /\ stream # << >> BY <1>5 DEF InformerPop
  <2>2. CASE ~Known(u) BY <2>1, <2>2 DEF Seen, Known
  <2>3. CASE Known(u)
    <3>1. u = lastUid /\ cache # None /\ cache.uid = lastUid
      BY <2>3 DEF StreamInv, Known, Seen
    <3>2. Head(stream).pod.uid = u BY <2>1, <3>1, NextEvent
    <3>3. Head(stream).type # "DELETED" BY <2>1, <2>3, <3>2, NextEvent DEF Gone
    <3>4. cache' = Head(stream).pod BY <1>5, <3>3 DEF InformerPop
    <3>5. cache' # None BY <2>1, <3>4, NextEvent, NoPodAssumption
    <3> QED BY <2>1, <3>2, <3>4, <3>5 DEF Seen, Known
  <2> QED BY <2>2, <2>3
<1>6. CASE Listed BY <1>6 DEF Listed, Seen, Known
<1> QED BY <1>1, <1>2, <1>3, <1>4, <1>5, <1>6, ApiStep

LEMMA GoneIsSeen == ASSUME NEW u, Gone(u) PROVE Seen(u)
BY DEF Gone, Seen

\* An event about the newest Pod joins the stream.
LEMMA StreamEmits ==
  ASSUME TypeInv, StreamInv, NEW e \in Event, stream' = Append(stream, e),
         lastUid' \in Nat, lastUid <= lastUid', e.pod.uid = lastUid',
         UNCHANGED cache, pod' # None => pod'.uid = lastUid',
         e.type = "DELETED" => Gone(e.pod.uid)',
         \A u \in UIDs : Gone(u) => Gone(u)'
  PROVE  StreamInv'
<1>1. /\ DOMAIN stream \subseteq DOMAIN stream'
      /\ \A i \in DOMAIN stream' :
              \/ i \in DOMAIN stream /\ stream'[i] = stream[i]
              \/ i = Len(stream) + 1 /\ i \notin DOMAIN stream /\ stream'[i] = e
  BY AppendIs DEF TypeInv, ApiTypes
<1>2. /\ lastUid \in Nat /\ lastUid' \in Nat
      /\ \A i \in DOMAIN stream : stream[i].pod.uid \in UIDs /\ stream[i].pod.uid \in Nat
      /\ cache # None => cache.uid \in Nat
  <2>1. lastUid \in Nat BY DEF TypeInv, ApiTypes
  <2>2. \A i \in DOMAIN stream : stream[i] \in Event BY DEF TypeInv, ApiTypes
  <2>3. \A i \in DOMAIN stream : stream[i].pod.uid \in UIDs
    BY <2>2, EventTypes, PodTypes
  <2>4. cache # None => cache.uid \in UIDs BY PodTypes DEF TypeInv, ApiTypes
  <2> QED BY <2>1, <2>3, <2>4, Numbers
<1>3. DOMAIN stream = 1 .. Len(stream) /\ Len(stream) \in Nat
  BY DEF TypeInv, ApiTypes
<1>4. cache' # None => cache'.uid <= lastUid' BY <1>2 DEF StreamInv
<1>5. ASSUME NEW i \in DOMAIN stream'
      PROVE  /\ stream'[i].pod.uid <= lastUid'
             /\ stream'[i].type = "DELETED" => Gone(stream[i].pod.uid)'
             /\ cache' # None => cache'.uid <= stream'[i].pod.uid
  <2>1. CASE i \in DOMAIN stream /\ stream'[i] = stream[i]
    BY <1>2, <2>1 DEF StreamInv
  <2>2. CASE stream'[i] = e BY <1>2, <1>4, <2>2
  <2> QED BY <1>1, <2>1, <2>2
<1>6. ASSUME NEW i \in DOMAIN stream', NEW j \in DOMAIN stream', i <= j
      PROVE  stream'[i].pod.uid <= stream'[j].pod.uid
  <2>1. CASE stream'[j] = e BY <1>5, <2>1
  <2>2. CASE j \in DOMAIN stream /\ stream'[j] = stream[j]
    <3>1. i \in DOMAIN stream /\ stream'[i] = stream[i]
      BY <1>1, <1>3, <1>6, <2>2
    <3> QED BY <1>6, <2>2, <3>1 DEF StreamInv
  <2> QED BY <1>1, <2>1, <2>2
<1> QED BY <1>4, <1>5, <1>6 DEF StreamInv

LEMMA StreamStep ==
  ASSUME TypeInv, StreamInv, [Next]_vars
  PROVE  StreamInv'
<1>0. /\ lastUid \in Nat /\ ApiTypes /\ \A u \in UIDs : Gone(u) => Gone(u)'
  BY GoneStays DEF TypeInv, ApiTypes
<1>1. CASE ApiUnchanged BY <1>1 DEF ApiUnchanged, StreamInv, Gone, Known
<1>2. CASE Created
  <2>1. /\ lastUid' = lastUid + 1 /\ pod'.uid = lastUid' /\ UNCHANGED cache
        /\ stream' = Append(stream, [type |-> "ADDED", pod |-> pod'])
    BY <1>2 DEF Created, UserCreate, Emit
  <2>2. lastUid + 1 \in UIDs
    BY <1>0, <1>2, ReconcilerAssumption DEF Created, UserCreate, ApiTypes, UIDs
  <2>3. pod' \in Pod BY <1>2, <2>2, PodTypes DEF Created, UserCreate
  <2>4. PICK e \in Event : e = [type |-> "ADDED", pod |-> pod'] BY <2>3, EventTypes
  <2>5. e.pod = pod' /\ e.type = "ADDED" BY <2>4
  <2>6. lastUid' \in Nat /\ lastUid <= lastUid' BY <1>0, <2>1
  <2> QED BY <1>0, <2>1, <2>4, <2>5, <2>6, StreamEmits
<1>3. CASE Modified
  <2>1. /\ lastUid' = lastUid /\ pod'.uid = lastUid' /\ UNCHANGED cache
        /\ stream' = Append(stream, [type |-> "MODIFIED", pod |-> pod'])
    BY <1>3 DEF Modified, Emit, StreamInv
  <2>2. PICK e \in Event : e = [type |-> "MODIFIED", pod |-> pod']
    BY <1>3, EventTypes DEF Modified
  <2>3. e.pod = pod' /\ e.type = "MODIFIED" BY <2>2
  <2>4. lastUid' \in Nat /\ lastUid <= lastUid' BY <1>0, <2>1
  <2> QED BY <1>0, <2>1, <2>2, <2>3, <2>4, StreamEmits
<1>4. CASE Removed
  <2>1. /\ lastUid' = lastUid /\ pod.uid = lastUid /\ pod' = None /\ UNCHANGED cache
        /\ stream' = Append(stream, [type |-> "DELETED", pod |-> pod])
    BY <1>4 DEF Removed, RemovePod, Emit, StreamInv
  <2>2. PICK e \in Event : e = [type |-> "DELETED", pod |-> pod]
    BY <1>0, <1>4, EventTypes DEF Removed, ApiTypes
  <2>3. e.pod = pod /\ e.pod.uid = lastUid' BY <2>1, <2>2
  <2>4. lastUid' \in Nat /\ lastUid <= lastUid' BY <1>0, <2>1
  <2>5. PICK u : u = e.pod.uid OBVIOUS
  <2>6. Gone(e.pod.uid)' BY <2>1, <2>3, <2>4 DEF Gone, Known
  <2> QED BY <1>0, <2>1, <2>2, <2>3, <2>4, <2>6, StreamEmits
<1>5. CASE InformerPop
  <2>0. stream # << >> /\ UNCHANGED <<pod, lastUid>> /\ stream' = Tail(stream)
    BY <1>5 DEF InformerPop
  <2>1. \A i \in DOMAIN stream' : i + 1 \in DOMAIN stream /\ stream'[i] = stream[i + 1]
    BY <1>0, <2>0, TailIs DEF ApiTypes
  <2>2. cache' = None \/ cache' = Head(stream).pod BY <1>5 DEF InformerPop
  <2>3. cache' # None => cache'.uid = stream[1].pod.uid /\ cache'.uid <= lastUid'
    BY <2>0, <2>2, NextEvent
  <2>4. 1 \in DOMAIN stream /\ DOMAIN stream \subseteq Nat \ {0}
        /\ DOMAIN stream' \subseteq Nat
    BY <1>0, <2>0, TailIs DEF ApiTypes
  <2>5. \A i \in DOMAIN stream : stream[1].pod.uid <= stream[i].pod.uid
    BY <2>4 DEF StreamInv
  <2>6. \A i, j \in DOMAIN stream' : i <= j => stream'[i].pod.uid <= stream'[j].pod.uid
    <3> SUFFICES ASSUME NEW i \in DOMAIN stream', NEW j \in DOMAIN stream', i <= j
                 PROVE  stream'[i].pod.uid <= stream'[j].pod.uid
      OBVIOUS
    <3>1. i + 1 <= j + 1 BY <2>4
    <3> QED BY <2>1, <3>1 DEF StreamInv
  <2>7. ASSUME NEW i \in DOMAIN stream'
        PROVE  /\ stream'[i].pod.uid <= lastUid'
               /\ stream'[i].type = "DELETED" => Gone(stream[i].pod.uid)'
               /\ cache' # None => cache'.uid <= stream'[i].pod.uid
    <3>1. PICK k \in DOMAIN stream : stream'[i] = stream[k] BY <2>1
    <3> QED BY <2>0, <2>3, <2>5, <3>1 DEF StreamInv, Gone, Known
  <2> QED BY <2>0, <2>3, <2>6, <2>7 DEF StreamInv
<1>6. CASE Listed
  <2>1. DOMAIN stream' = {} BY <1>6, EmptyIs DEF Listed
  <2>2. cache' # None => cache'.uid <= lastUid'
    BY <1>0, <1>6 DEF Listed, StreamInv
  <2>3. pod' # None => pod'.uid = lastUid' BY <1>6 DEF Listed, StreamInv
  <2> QED BY <2>1, <2>2, <2>3 DEF StreamInv
<1> QED BY <1>1, <1>2, <1>3, <1>4, <1>5, <1>6, ApiStep

\* What a step does to the Pod in the worker's hands.
LEMMA WorkerStepIs ==
  ASSUME TypeInv, [Next]_vars
  PROVE  /\ \/ wpc' = "idle"
            \/ wpc # "idle" /\ wpod' = wpod
            \/ cache # None /\ wpod' = cache /\ UNCHANGED <<apiVars, cache>>
         /\ wpc' = "start" => EnsureCreate \/ UNCHANGED workerVars
         /\ wpc' = "stop" => \/ wpc = "stop" /\ wpod' = wpod
                             \/ cache.term /\ wpod' = cache
<1>1. CASE WorkerGet BY <1>1 DEF WorkerGet, workerVars
<1>2. CASE \/ EnsureExists \/ EnsureCreate \/ EnsureStart \/ StartFails \/ ViewStarted
           \/ MarkFailed \/ RecordFailed
  BY <1>2 DEF EnsureExists, EnsureCreate, EnsureStart, StartFails, ViewStarted,
       MarkFailed, RecordFailed, Failure, WorkerReturns
<1>3. CASE \/ PatchViews \/ StopContainer \/ ForceDelete \/ WorkerError \/ SpecsFail
           \/ EnsureFails \/ StartGoesWrong \/ StopSkips \/ KubeletRestart
  BY <1>3 DEF PatchViews, StopContainer, ForceDelete, WorkerError, SpecsFail,
       EnsureFails, StartGoesWrong, StopSkips, KubeletRestart, Failure, WorkerReturns
<1>4. CASE \/ UserCreate \/ UserDelete \/ UserForceDelete
           \/ \E u \in UIDs, c \in Conts : ContainerExits(u, c)
           \/ InformerPop \/ InformerRelist \/ InformerResync
           \/ HandlerStep \/ HandlerGivesUp
           \/ ReaperStep \/ \E x \in UIDs \X Conts : ReapSkip(x)
  <2>1. UNCHANGED workerVars
    BY <1>4 DEF UserCreate, UserDelete, UserForceDelete, ContainerExits,
         InformerPop, InformerRelist, InformerResync, HandlerStep, HandleKey,
         HandleDelete, HandleRemove, HandlerGivesUp, ReaperStep, ReapList,
         ReapCompare, ReapRemove, ReapSkip, ReapDone
  <2> QED BY <2>1 DEF workerVars
<1>5. CASE UNCHANGED vars BY <1>5 DEF vars, workerVars
<1> QED BY <1>1, <1>2, <1>3, <1>4, <1>5 DEF Next, WorkerStep

\* What a step does to the two lists of containers to remove.
LEMMA ReapStepIs ==
  ASSUME TypeInv, [Next]_vars
  PROVE  /\ \/ UNCHANGED reaperVars \/ ReapList \/ ReapCompare \/ rpc' = "idle"
            \/ rpc = "reap" /\ rpc' = "reap" /\ rlist' \subseteq rlist
         /\ \/ UNCHANGED handlerVars \/ htodo' = {} \/ HandleDelete
            \/ htodo # {} /\ huid' = huid
<1>1. CASE \/ UserCreate \/ UserDelete \/ UserForceDelete
           \/ \E u \in UIDs, c \in Conts : ContainerExits(u, c)
           \/ InformerPop \/ InformerRelist \/ InformerResync
           \/ HandleKey \/ HandleDelete \/ HandlerGivesUp
           \/ WorkerError \/ SpecsFail \/ EnsureFails \/ StartGoesWrong \/ StopSkips
           \/ KubeletRestart
  BY <1>1 DEF UserCreate, UserDelete, UserForceDelete, ContainerExits,
       InformerPop, InformerRelist, InformerResync, HandleKey, HandleDelete,
       HandlerGivesUp, WorkerError, SpecsFail, EnsureFails, StartGoesWrong,
       StopSkips, KubeletRestart
<1>2. ASSUME NEW c \in Conts, HandleRemove(c)
      PROVE  UNCHANGED reaperVars /\ (htodo' = {} \/ (htodo # {} /\ huid' = huid))
  <2>1. c \in htodo /\ UNCHANGED reaperVars BY <1>2 DEF HandleRemove
  <2>2. huid' = IF htodo' = {} THEN 0 ELSE huid BY <1>2 DEF HandleRemove
  <2> QED BY <2>1, <2>2
<1>3. CASE ReaperStep \/ \E x \in UIDs \X Conts : ReapSkip(x)
  BY <1>3 DEF ReaperStep, ReapList, ReapCompare, ReapRemove, ReapSkip, ReapDone
<1>4. CASE WorkerStep
  BY <1>4 DEF WorkerStep, WorkerGet, EnsureExists, EnsureCreate, EnsureStart,
       StartFails, ViewStarted, MarkFailed, RecordFailed, PatchViews,
       StopContainer, ForceDelete
<1>5. CASE UNCHANGED vars BY <1>5 DEF vars
<1> QED BY <1>1, <1>2, <1>3, <1>4, <1>5 DEF Next, HandlerStep

LEMMA OwnerInit == Init => StreamInv /\ OwnerInv
<1> SUFFICES ASSUME Init PROVE StreamInv /\ OwnerInv OBVIOUS
<1>1. DOMAIN stream = {} /\ DOMAIN notify = {} BY EmptyIs DEF Init
<1>2. StreamInv BY <1>1 DEF Init, StreamInv
<1>3. OwnerInv BY <1>1 DEF Init, OwnerInv, NoViews
<1> QED BY <1>2, <1>3

\* Containers belong to Pods the informer has seen, and the one that is about
\* to be started has not run.
LEMMA OwnerContsStep ==
  ASSUME TypeInv, StreamInv, OwnerInv, [Next]_vars
  PROVE  /\ \A u \in UIDs, c \in Conts : conts'[u][c] # "none" => Seen(u)'
         /\ wpc' = "start" => conts'[wpod'.uid][wi'] \in {"none", "created"}
<1>0. DockerTypes /\ WorkerTypes BY DEF TypeInv
<1>1. ASSUME NEW u \in UIDs, NEW c \in Conts, conts'[u][c] # "none" PROVE Seen(u)'
  <2>1. CASE conts[u][c] # "none" BY <2>1, SeenStays DEF OwnerInv
  <2>2. CASE conts[u][c] = "none"
    <3>1. \/ UNCHANGED conts
          \/ \E v \in UIDs, d \in Conts :
               conts[v][d] = "running" /\ SetCont(v, d, "exited")
          \/ EnsureStart /\ SetCont(wpod.uid, wi, "running")
          \/ \E v, d : SetCont(v, d, "none")
          \/ EnsureCreate /\ SetCont(wpod.uid, wi, "created")
      BY DockerStep
    <3>2. ASSUME NEW v, NEW d, NEW t \in ContState, SetCont(v, d, t)
          PROVE  v = u /\ d = c /\ t # "none"
      BY <1>0, <1>1, <2>2, <3>2, SetContIs
    <3>3. {"none", "created", "running", "exited"} = ContState BY DEF ContState
    <3>4. EnsureCreate /\ wpod.uid = u
      BY <1>1, <2>2, <3>1, <3>2, <3>3 DEF EnsureStart, Startable
    <3>5. Seen(u) BY <3>4 DEF EnsureCreate, OwnerInv
    <3> QED BY <3>5, SeenStays
  <2> QED BY <2>1, <2>2
<1>2. ASSUME wpc' = "start" PROVE conts'[wpod'.uid][wi'] \in {"none", "created"}
  <2>1. CASE EnsureCreate
    <3>1. wpod.uid \in UIDs /\ wi \in Conts BY <1>0, <2>1, WorkerHas DEF EnsureCreate
    <3>2. SetCont(wpod.uid, wi, "created") BY <2>1, <3>1 DEF EnsureCreate, SetCont
    <3>3. conts'[wpod.uid][wi] = "created" BY <1>0, <3>2, SetContIs DEF ContState
    <3> QED BY <2>1, <3>3 DEF EnsureCreate
  <2>2. CASE UNCHANGED workerVars
    <3>1. PICK v, d : v = wpod.uid /\ d = wi OBVIOUS
    <3>2. wpc = "start" /\ wpod'.uid = v /\ wi' = d
      BY <1>2, <2>2, <3>1 DEF workerVars
    <3>3. v \in UIDs /\ d \in Conts BY <1>0, <3>1, <3>2, WorkerHas
    <3>4. conts[v][d] \in {"none", "created"} BY <3>1, <3>2 DEF OwnerInv
    <3>5. \/ UNCHANGED conts
          \/ \E u \in UIDs, c \in Conts :
               conts[u][c] = "running" /\ SetCont(u, c, "exited")
          \/ \E u, c : SetCont(u, c, "none")
      BY <1>2, <2>2, DockerStep DEF workerVars, EnsureCreate, EnsureStart
    <3>6. CASE UNCHANGED conts BY <3>2, <3>4, <3>6
    <3>7. ASSUME NEW u \in UIDs, NEW c \in Conts,
                 conts[u][c] = "running", SetCont(u, c, "exited")
          PROVE  conts'[v][d] \in {"none", "created"}
      <4>1. v # u \/ d # c BY <3>4, <3>7
      <4>2. conts'[v][d] = conts[v][d] BY <1>0, <3>3, <3>7, <4>1, SetContIs DEF ContState
      <4> QED BY <3>4, <4>2
    <3>8. ASSUME NEW u, NEW c, SetCont(u, c, "none")
          PROVE  conts'[v][d] \in {"none", "created"}
      <4>1. /\ conts'[u][c] = "none"
            /\ v # u \/ d # c => conts'[v][d] = conts[v][d]
        BY <1>0, <3>3, <3>8, SetContIs DEF ContState
      <4> QED BY <3>4, <4>1
    <3> QED BY <3>2, <3>5, <3>6, <3>7, <3>8
  <2> QED BY <1>2, <2>1, <2>2, WorkerStepIs
<1> QED BY <1>1, <1>2

LEMMA OwnerStep ==
  ASSUME TypeInv, StreamInv, OwnerInv, [Next]_vars
  PROVE  OwnerInv'
<1>1. wpc' # "idle" => Seen(wpod.uid)'
  <2> SUFFICES ASSUME wpc' # "idle" PROVE Seen(wpod.uid)' OBVIOUS
  <2>1. PICK u : u = wpod'.uid OBVIOUS
  <2>2. CASE wpc # "idle" /\ wpod' = wpod
    <3>1. u \in UIDs /\ Seen(u) BY <2>1, <2>2, WorkerHas DEF TypeInv, OwnerInv
    <3>2. Seen(u)' BY <3>1, SeenStays
    <3> QED BY <2>1, <3>2 DEF Seen, Known
  <2>3. CASE cache # None /\ wpod' = cache /\ UNCHANGED <<apiVars, cache>>
    BY <2>3 DEF apiVars, Seen, Known, StreamInv
  <2> QED BY <2>2, <2>3, WorkerStepIs
<1>2. rpc' = "listed" => \A x \in rlist' : Seen(x[1])'
  <2> SUFFICES ASSUME rpc' = "listed", NEW x \in rlist' PROVE Seen(x[1])' OBVIOUS
  <2>1. CASE UNCHANGED reaperVars
    BY <2>1, SeenStays DEF reaperVars, OwnerInv, TypeInv, ReapTypes
  <2>2. CASE ReapList
    BY <2>2, SeenStays DEF ReapList, Managed, OwnerInv
  <2> QED BY <2>1, <2>2, ReapStepIs DEF ReapCompare
<1>3. rpc' = "reap" => \A x \in rlist' : Gone(x[1])'
  <2> SUFFICES ASSUME rpc' = "reap", NEW x \in rlist' PROVE Gone(x[1])' OBVIOUS
  <2>1. CASE rpc = "reap" /\ rlist' \subseteq rlist
    BY <2>1, GoneStays DEF OwnerInv, TypeInv, ReapTypes
  <2>2. CASE ReapCompare
    <3>1. /\ rpc = "listed" /\ x \in rlist /\ x[1] \in UIDs
          /\ cache = None \/ cache.uid # x[1]
      BY <2>2 DEF ReapCompare, TypeInv, ReapTypes
    <3>2. Seen(x[1]) BY <3>1 DEF OwnerInv
    <3>3. Gone(x[1]) BY <3>1, <3>2 DEF Seen, Gone
    <3> QED BY <3>1, <3>3, GoneStays
  <2>3. CASE UNCHANGED reaperVars BY <2>1, <2>3 DEF reaperVars
  <2> QED BY <2>1, <2>2, <2>3, ReapStepIs DEF ReapList
<1>4. \A i \in DOMAIN notify' : notify'[i].kind = "reap" => Gone(notify[i].uid)'
  <2> SUFFICES ASSUME NEW i \in DOMAIN notify', notify'[i].kind = "reap"
               PROVE  Gone(notify[i].uid)'
    OBVIOUS
  <2>0. PICK u : u = notify'[i].uid OBVIOUS
  <2>1. SUFFICES u \in UIDs /\ Gone(u)
    <3>1. Gone(u)' BY <2>1, GoneStays
    <3> QED BY <2>0, <3>1 DEF Gone, Known
  <2>2. ASSUME NEW k \in DOMAIN notify, notify'[i] = notify[k]
        PROVE  u \in UIDs /\ Gone(u)
    BY <2>0, <2>2 DEF TypeInv, NoteTypesInv, OwnerInv
  <2>3. CASE UNCHANGED notify BY <2>2, <2>3
  <2>4. CASE Taken
    BY <2>2, <2>4, TailIs DEF Taken, TypeInv, NoteTypesInv
  <2>5. CASE notify' = << >> BY <2>5, EmptyIs
  <2>6. CASE notify' = << KeyNote >> BY <2>6, NoteTypes
  <2>7. ASSUME NEW n \in Note, Added(n), n.kind = "reap" => n.uid \in UIDs /\ Gone(n.uid)
        PROVE  u \in UIDs /\ Gone(u)
    <3>1. \/ i \in DOMAIN notify /\ notify'[i] = notify[i]
          \/ notify'[i] = n
      BY <2>7, AppendIs DEF Added, TypeInv, NoteTypesInv
    <3> QED BY <2>0, <2>2, <2>7, <3>1
  <2>8. CASE Added(KeyNote) BY <2>7, <2>8, NoteTypes
  <2>9. CASE /\ InformerPop /\ Head(stream).type = "DELETED"
             /\ Added(ReapNote(Head(stream).pod.uid))
    <3>1. Head(stream).pod.uid \in UIDs /\ Gone(Head(stream).pod.uid)
      BY <2>9, NextEvent DEF InformerPop
    <3> QED BY <2>7, <2>9, <3>1, NoteTypes
  <2>10. CASE Listed /\ pod = None /\ cache # None /\ Added(ReapNote(cache.uid))
    <3>1. cache.uid \in UIDs BY <2>10, PodTypes DEF TypeInv, ApiTypes
    <3>2. Gone(cache.uid) BY <2>10 DEF StreamInv, Gone, Known
    <3> QED BY <2>7, <2>10, <3>1, <3>2, NoteTypes
  <2> QED BY <2>3, <2>4, <2>5, <2>6, <2>8, <2>9, <2>10, NoteStep
<1>5. htodo' # {} => Gone(huid)'
  <2> SUFFICES ASSUME htodo' # {} PROVE Gone(huid)' OBVIOUS
  <2>0. PICK u : u = huid' OBVIOUS
  <2>1. SUFFICES u \in UIDs /\ Gone(u)
    <3>1. Gone(u)' BY <2>1, GoneStays
    <3> QED BY <2>0, <3>1 DEF Gone, Known
  <2>2. CASE htodo # {} /\ huid' = huid
    BY <2>0, <2>2 DEF TypeInv, ReapTypes, OwnerInv
  <2>3. CASE UNCHANGED handlerVars BY <2>2, <2>3 DEF handlerVars
  <2>4. CASE HandleDelete
    <3>1. /\ notify # << >> /\ Head(notify).kind = "reap" /\ u = Head(notify).uid
      BY <2>0, <2>4 DEF HandleDelete
    <3>2. Head(notify) = notify[1] /\ 1 \in DOMAIN notify
      BY <3>1, TailIs DEF TypeInv, NoteTypesInv
    <3> QED BY <3>1, <3>2 DEF TypeInv, NoteTypesInv, OwnerInv
  <2> QED BY <2>2, <2>3, <2>4, ReapStepIs
<1> QED BY <1>1, <1>2, <1>3, <1>4, <1>5, OwnerContsStep DEF OwnerInv

LEMMA OwnerAlways == Spec => [](TypeInv /\ StreamInv /\ OwnerInv)
<1>1. Init => StreamInv /\ OwnerInv BY OwnerInit
<1>2. TypeInv /\ StreamInv /\ OwnerInv /\ [Next]_vars => (StreamInv /\ OwnerInv)'
  BY StreamStep, OwnerStep
<1> QED BY <1>1, <1>2, TypeAlways, PTL DEF Spec

\* A container that has run is removed only when its Pod is gone, by whichever
\* of DeleteFunc, the orphan reaper and the worker, through every restart,
\* relist and failure, and however far the informer is behind.
THEOREM OrphansOnly == Spec => OnlyOrphansRemoved
<1>1. ASSUME TypeInv, StreamInv, OwnerInv, [Next]_vars
      PROVE  \A u \in UIDs, c \in Conts :
               conts[u][c] \in {"running", "exited"} /\ conts'[u][c] = "none"
                 => ~Known(u)
  <2> SUFFICES ASSUME NEW u \in UIDs, NEW c \in Conts,
                      conts[u][c] \in {"running", "exited"}, conts'[u][c] = "none"
               PROVE  Gone(u)
    BY DEF Gone
  <2>0. DockerTypes BY <1>1 DEF TypeInv
  <2>1. ASSUME NEW v, NEW d, NEW t \in ContState, SetCont(v, d, t)
        PROVE  v = u /\ d = c /\ t = "none"
    BY <2>0, <2>1, SetContIs
  <2>2. {"none", "created", "running", "exited"} = ContState BY DEF ContState
  <2>3. ~(wpc = "start" /\ wpod.uid = u /\ wi = c) BY <1>1 DEF OwnerInv
  <2>4. \/ \E d \in Conts : HandleRemove(d) /\ SetCont(huid, d, "none")
        \/ \E x \in UIDs \X Conts : ReapRemove(x) /\ SetCont(x[1], x[2], "none")
    BY <1>1, <2>1, <2>2, <2>3, DockerStep
  <2>5. CASE \E d \in Conts : HandleRemove(d) /\ SetCont(huid, d, "none")
    <3>1. htodo # {} /\ huid = u BY <2>1, <2>2, <2>5 DEF HandleRemove
    <3> QED BY <1>1, <3>1 DEF OwnerInv
  <2>6. CASE \E x \in UIDs \X Conts : ReapRemove(x) /\ SetCont(x[1], x[2], "none")
    <3>1. PICK x \in UIDs \X Conts : ReapRemove(x) /\ x[1] = u BY <2>1, <2>2, <2>6
    <3>2. rpc = "reap" /\ x \in rlist BY <3>1 DEF ReapRemove
    <3> QED BY <1>1, <3>1, <3>2 DEF OwnerInv
  <2> QED BY <2>4, <2>5, <2>6
<1>2. TypeInv /\ StreamInv /\ OwnerInv /\ [Next]_vars
        => [\A u \in UIDs, c \in Conts :
              conts[u][c] \in {"running", "exited"} /\ conts'[u][c] = "none"
                => ~Known(u)]_vars
  BY <1>1
<1> QED BY <1>2, OwnerAlways, PTL DEF Spec, OnlyOrphansRemoved

-----------------------------------------------------------------------------
(* Which Pods terminatePod deletes *)

\* A Pod that was read as terminating is terminating, if it exists.
TermTrue(p) == Known(p.uid) /\ p.term => pod.term

TermInv ==
  /\ cache # None => TermTrue(cache)
  /\ \A i \in DOMAIN stream : TermTrue(stream[i].pod)
  /\ wpc # "idle" => TermTrue(wpod)
  /\ wpc = "stop" => wpod.term

\* A new Pod has a new UID, and deletionTimestamp is never cleared.
LEMMA TermStays ==
  ASSUME TypeInv, [Next]_vars, NEW p \in Pod, p.uid <= lastUid, TermTrue(p)
  PROVE  TermTrue(p)'
<1>0. lastUid \in Nat /\ p.uid \in Nat
  <2>1. p.uid \in Nat BY Numbers, PodTypes
  <2> QED BY <2>1 DEF TypeInv, ApiTypes
<1>1. CASE UNCHANGED pod BY <1>1 DEF TermTrue, Known
<1>2. CASE Created
  <2>1. pod'.uid = lastUid + 1 BY <1>2 DEF Created, UserCreate
  <2> QED BY <1>0, <2>1 DEF TermTrue, Known
<1>3. CASE Modified BY <1>3 DEF Modified, TermTrue, Known
<1>4. CASE Removed BY <1>4 DEF Removed, RemovePod, TermTrue, Known
<1> QED BY <1>1, <1>2, <1>3, <1>4, ApiStep DEF ApiUnchanged, InformerPop, Listed

LEMMA TermStep ==
  ASSUME TypeInv, StreamInv, OwnerInv, TermInv, [Next]_vars
  PROVE  TermInv'
<1>0. ApiTypes /\ WorkerTypes BY DEF TypeInv
<1>1. ASSUME NEW i \in DOMAIN stream
      PROVE  /\ stream[i].pod \in Pod /\ stream[i].pod.uid <= lastUid
             /\ TermTrue(stream[i].pod)
  <2>1. stream[i] \in Event BY <1>0 DEF ApiTypes
  <2> QED BY <2>1, EventTypes DEF StreamInv, TermInv
<1>2. ASSUME cache # None
      PROVE  cache \in Pod /\ cache.uid <= lastUid /\ TermTrue(cache)
  BY <1>0, <1>2 DEF ApiTypes, StreamInv, TermInv
<1>3. ASSUME NEW p, pod' = None \/ pod' = p PROVE TermTrue(p)'
  BY <1>3 DEF TermTrue, Known
<1>4. cache' # None => TermTrue(cache)'
  <2> SUFFICES ASSUME cache' # None PROVE TermTrue(cache)' OBVIOUS
  <2>1. PICK p : p = cache' OBVIOUS
  <2>2. SUFFICES TermTrue(p)' BY <2>1 DEF TermTrue, Known
  <2>3. CASE UNCHANGED cache BY <1>2, <2>1, <2>3, TermStays
  <2>4. CASE InformerPop
    <3>1. p = stream[1].pod /\ 1 \in DOMAIN stream
      BY <2>1, <2>4, NextEvent DEF InformerPop
    <3> QED BY <1>1, <3>1, TermStays
  <2>5. CASE Listed BY <1>3, <2>1, <2>5 DEF Listed
  <2> QED BY <2>3, <2>4, <2>5, ApiStep DEF ApiUnchanged, Created, Modified, Removed
<1>5. \A i \in DOMAIN stream' : TermTrue(stream[i].pod)'
  <2> SUFFICES ASSUME NEW i \in DOMAIN stream' PROVE TermTrue(stream[i].pod)' OBVIOUS
  <2>1. PICK p : p = stream'[i].pod OBVIOUS
  <2>2. SUFFICES TermTrue(p)' BY <2>1 DEF TermTrue, Known
  <2>3. ASSUME NEW k \in DOMAIN stream, stream'[i] = stream[k] PROVE TermTrue(p)'
    BY <1>1, <2>1, <2>3, TermStays
  <2>4. ASSUME NEW t \in {"ADDED", "MODIFIED", "DELETED"}, NEW q \in Pod,
               stream' = Append(stream, [type |-> t, pod |-> q]),
               pod' = None \/ pod' = q
        PROVE  TermTrue(p)'
    <3>1. PICK e \in Event : e = [type |-> t, pod |-> q] BY EventTypes
    <3>2. stream'[i] = e \/ (i \in DOMAIN stream /\ stream'[i] = stream[i])
      BY <1>0, <2>4, <3>1, AppendIs DEF ApiTypes
    <3>3. e.pod = q BY <3>1
    <3> QED BY <1>3, <2>1, <2>3, <2>4, <3>2, <3>3
  <2>5. CASE ApiUnchanged BY <2>3, <2>5 DEF ApiUnchanged
  <2>6. CASE Created
    <3>1. pod' \in Pod
      <4>1. lastUid + 1 \in UIDs
        BY <1>0, <2>6, ReconcilerAssumption DEF Created, UserCreate, ApiTypes, UIDs
      <4> QED BY <2>6, <4>1, PodTypes DEF Created, UserCreate
    <3>2. stream' = Append(stream, [type |-> "ADDED", pod |-> pod'])
      BY <2>6 DEF Created, UserCreate, Emit
    <3> QED BY <2>4, <3>1, <3>2
  <2>7. CASE Modified BY <2>4, <2>7 DEF Modified, Emit
  <2>8. CASE Removed BY <1>0, <2>4, <2>8 DEF Removed, RemovePod, Emit, ApiTypes
  <2>9. CASE InformerPop
    <3>1. i + 1 \in DOMAIN stream /\ stream'[i] = stream[i + 1]
      BY <1>0, <2>9, TailIs DEF InformerPop, ApiTypes
    <3> QED BY <2>3, <3>1
  <2>10. CASE Listed BY <2>10, EmptyIs DEF Listed
  <2> QED BY <2>5, <2>6, <2>7, <2>8, <2>9, <2>10, ApiStep
<1>6. wpc' # "idle" => TermTrue(wpod)'
  <2> SUFFICES ASSUME wpc' # "idle" PROVE TermTrue(wpod)' OBVIOUS
  <2>1. PICK p : p = wpod' OBVIOUS
  <2>2. SUFFICES TermTrue(p)' BY <2>1 DEF TermTrue, Known
  <2>3. CASE wpc # "idle" /\ wpod' = wpod
    <3>1. p \in Pod /\ p.uid <= lastUid /\ TermTrue(p)
      BY <1>0, <2>1, <2>3, WorkerHas DEF OwnerInv, Seen, TermInv
    <3> QED BY <3>1, TermStays
  <2>4. CASE cache # None /\ wpod' = cache BY <1>2, <2>1, <2>4, TermStays
  <2> QED BY <2>3, <2>4, WorkerStepIs
<1>7. wpc' = "stop" => wpod'.term BY WorkerStepIs DEF TermInv
<1> QED BY <1>4, <1>5, <1>6, <1>7 DEF TermInv

\* terminatePod force-deletes by name, and so may hit a Pod that nobody asked
\* to delete (the run reconciler_samename shows one).  That happens only to a
\* later Pod of the same name: the Pod that terminatePod read is terminating
\* for as long as it exists, through restarts, relists and retries.
THEOREM NamesakesOnly ==
  Spec => [][pod # None /\ ~pod.term /\ wpc = "stop" /\ wpc' = "idle" /\ pod' = None
               => wpod.uid < pod.uid]_vars
<1>1. Init => TermInv
  <2>1. ASSUME Init PROVE DOMAIN stream = {} BY <2>1, EmptyIs DEF Init
  <2> QED BY <2>1 DEF Init, TermInv
<1>2. TypeInv /\ StreamInv /\ OwnerInv /\ TermInv /\ [Next]_vars => TermInv'
  BY TermStep
<1>3. ASSUME TypeInv, StreamInv, OwnerInv, TermInv, pod # None, ~pod.term, wpc = "stop"
      PROVE  wpod.uid < pod.uid
  <2>1. wpod.uid <= lastUid /\ pod.uid = lastUid /\ wpod.uid # pod.uid
    BY <1>3 DEF OwnerInv, Seen, StreamInv, TermInv, TermTrue, Known
  <2>2. wpod.uid \in Nat /\ pod.uid \in Nat
    BY <1>3, WorkerHas, PodTypes, Numbers DEF TypeInv, ApiTypes
  <2> QED BY <2>1, <2>2
<1>4. TypeInv /\ StreamInv /\ OwnerInv /\ TermInv /\ [Next]_vars
        => [pod # None /\ ~pod.term /\ wpc = "stop" /\ wpc' = "idle" /\ pod' = None
              => wpod.uid < pod.uid]_vars
  BY <1>3
<1> QED BY <1>1, <1>2, <1>4, OwnerAlways, PTL DEF Spec

-----------------------------------------------------------------------------
(* A forgotten Pod *)

\* The Pod u is gone and kubelet-lite has no copy of it: not in the informer's
\* store, not in an event on the way there, not in the worker's hand.
Forgotten(u) ==
  /\ Gone(u)
  /\ cache # None => cache.uid # u
  /\ \A i \in DOMAIN stream : stream[i].pod.uid = u => stream[i].type = "DELETED"
  /\ wpc # "idle" => wpod.uid # u

LEMMA ForgottenEmits ==
  ASSUME TypeInv, NEW u \in UIDs, Forgotten(u), UNCHANGED cache,
         NEW e \in Event, stream' = Append(stream, e),
         e.pod.uid = u => e.type = "DELETED"
  PROVE  /\ cache' # None => cache'.uid # u
         /\ \A i \in DOMAIN stream' : stream'[i].pod.uid = u => stream'[i].type = "DELETED"
<1>1. stream \in Seq(Event) BY DEF TypeInv, ApiTypes
<1>2. ASSUME NEW i \in DOMAIN stream', stream'[i].pod.uid = u
      PROVE  stream'[i].type = "DELETED"
  BY <1>1, <1>2, AppendIs DEF Forgotten
<1> QED BY <1>2 DEF Forgotten

\* The informer does not learn of a forgotten Pod again.
LEMMA ForgottenApi ==
  ASSUME TypeInv, StreamInv, [Next]_vars, NEW u \in UIDs, Forgotten(u)
  PROVE  /\ cache' # None => cache'.uid # u
         /\ \A i \in DOMAIN stream' : stream'[i].pod.uid = u => stream'[i].type = "DELETED"
<1>0. /\ lastUid \in Nat /\ u \in Nat /\ u <= lastUid /\ stream \in Seq(Event)
      /\ pod # None => pod \in Pod /\ pod.uid # u
  BY Numbers DEF TypeInv, ApiTypes, Forgotten, Gone, Known
<1>1. CASE ApiUnchanged BY <1>1 DEF ApiUnchanged, Forgotten
<1>2. CASE Created
  <2>1. pod' \in Pod /\ pod'.uid = lastUid + 1
    <3>1. lastUid + 1 \in UIDs BY <1>0, <1>2, ReconcilerAssumption DEF Created, UserCreate, UIDs
    <3>2. pod' = [uid |-> lastUid + 1, term |-> FALSE, st |-> NoStatus]
      BY <1>2 DEF Created, UserCreate
    <3> QED BY <3>1, <3>2, PodTypes
  <2>2. PICK e : e = [type |-> "ADDED", pod |-> pod'] OBVIOUS
  <2>3. e \in Event /\ e.pod.uid # u BY <1>0, <2>1, <2>2, EventTypes
  <2> QED BY <1>2, <2>2, <2>3, ForgottenEmits DEF Created, UserCreate, Emit
<1>3. CASE Modified
  <2>1. PICK e : e = [type |-> "MODIFIED", pod |-> pod'] OBVIOUS
  <2>2. e \in Event /\ e.pod.uid # u BY <1>0, <1>3, <2>1, EventTypes DEF Modified
  <2> QED BY <1>3, <2>1, <2>2, ForgottenEmits DEF Modified, Emit
<1>4. CASE Removed
  <2>1. PICK e : e = [type |-> "DELETED", pod |-> pod] OBVIOUS
  <2>2. e \in Event /\ e.type = "DELETED" BY <1>0, <1>4, <2>1, EventTypes DEF Removed
  <2> QED BY <1>4, <2>1, <2>2, ForgottenEmits DEF Removed, RemovePod, Emit
<1>5. CASE InformerPop
  <2>1. /\ stream # << >> /\ stream' = Tail(stream)
        /\ cache' = IF Head(stream).type = "DELETED" THEN None ELSE Head(stream).pod
    BY <1>5 DEF InformerPop
  <2>2. Head(stream).type # "DELETED" => Head(stream).pod.uid # u
    BY <1>0, <2>1, TailIs DEF Forgotten
  <2>3. ASSUME NEW i \in DOMAIN stream', stream'[i].pod.uid = u
        PROVE  stream'[i].type = "DELETED"
    BY <1>0, <2>1, <2>3, TailIs DEF Forgotten
  <2> QED BY <2>1, <2>2, <2>3
<1>6. CASE Listed BY <1>0, <1>6, EmptyIs DEF Listed
<1> QED BY <1>1, <1>2, <1>3, <1>4, <1>5, <1>6, ApiStep

LEMMA ForgottenStays ==
  ASSUME TypeInv, StreamInv, [Next]_vars, NEW u \in UIDs, Forgotten(u)
  PROVE  Forgotten(u)'
<1>1. Gone(u)' BY GoneStays DEF Forgotten
<1>2. wpc' # "idle" => wpod'.uid # u BY WorkerStepIs DEF Forgotten
<1> QED BY <1>1, <1>2, ForgottenApi DEF Forgotten

LEMMA ForgottenRests ==
  ASSUME TypeInv, [Next]_vars, NEW u \in UIDs, Forgotten(u), NEW c \in Conts,
         conts[u][c] = "none"
  PROVE  conts'[u][c] = "none"
<1>0. conts \in [UIDs -> [Conts -> ContState]] BY DEF TypeInv, DockerTypes
<1>1. ASSUME NEW v \in UIDs, NEW d \in Conts, NEW x, SetCont(v, d, x),
             v # u \/ x = "none" \/ conts[v][d] # "none"
      PROVE  conts'[u][c] = "none"
  BY <1>0, <1>1 DEF SetCont
<1>2. CASE UNCHANGED conts BY <1>2
<1>3. CASE \E v \in UIDs, d \in Conts : conts[v][d] = "running" /\ SetCont(v, d, "exited")
  BY <1>1, <1>3
<1>4. ASSUME NEW x, wpc # "idle", SetCont(wpod.uid, wi, x) PROVE conts'[u][c] = "none"
  BY <1>1, <1>4 DEF SetCont, Forgotten
<1>5. ASSUME NEW v, NEW d, SetCont(v, d, "none") PROVE conts'[u][c] = "none"
  BY <1>1, <1>5 DEF SetCont
<1>6. EnsureCreate \/ EnsureStart \/ wpc = "start" => wpc # "idle"
  BY DEF EnsureCreate, EnsureStart
<1> QED BY <1>2, <1>3, <1>4, <1>5, <1>6, DockerStep

\* Once kubelet-lite has no copy of a Pod that is gone, it gets none and makes
\* no container of it: what DeleteFunc or the orphan reaper removes then stays
\* removed, through relists, restarts and failures.  It is the part of
\* OrphansReaped that needs no fairness.
THEOREM ForgottenForGood ==
  Spec => [][\A u \in UIDs : Forgotten(u) =>
               /\ Forgotten(u)'
               /\ \A c \in Conts : conts[u][c] = "none" => conts'[u][c] = "none"]_vars
<1> DEFINE A == \A u \in UIDs : Forgotten(u) =>
               /\ Forgotten(u)'
               /\ \A c \in Conts : conts[u][c] = "none" => conts'[u][c] = "none"
<1>1. TypeInv /\ StreamInv /\ [Next]_vars => A
  BY ForgottenStays, ForgottenRests
<1>2. TypeInv /\ StreamInv /\ [Next]_vars => [A]_vars BY <1>1
<1> QED BY <1>2, OwnerAlways, PTL DEF Spec
=============================================================================
