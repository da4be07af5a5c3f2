--------------------------- MODULE PodStatusProofs ---------------------------
(***************************************************************************)
(* Proofs about PodStatus, for every number of containers, every grace     *)
(* period and any number of clients' updates.                              *)
(***************************************************************************)
EXTENDS PodStatus, SequenceTheorems, TLAPS

-----------------------------------------------------------------------------
(* The inductive invariant *)

Seen == View \ {"missing"}

Shape ==
  /\ views \in [Conts -> View]
  /\ spec \in Nat \cup {None} /\ grace \in Nat \cup {None}
  /\ asked = spec
  /\ seen \in Seq(Seen)
  /\ own \in {"", "Succeeded", "Failed"}

\* Nothing is left of a Pod that is gone; only of its own Pod does the worker
\* collect views.
GoneInv ==
  /\ spec = None => grace = None /\ work # "own" /\ src = << >> /\ own = ""
  /\ work # "own" => seen = << >>

IsPod(p) == p = [spec |-> p.spec, grace |-> p.grace, status |-> p.status]

\* What a client holds is a Pod that was in the store once.
ReadInv == read # None => IsPod(read) /\ read.spec \in Nat

\* A status made from views is the one they gave.
SrcInv ==
  src # << >> =>
    /\ src \in [Conts -> Seen]
    /\ status.cs = [c \in Conts |-> ContainerStatus(src[c])]
    /\ status.phase = Phase(src)

UntouchedInv == untouched => status = EmptyStatus

\* A container that the worker has seen ended is still as it was then.
SeenInv == \A c \in Conts \cap (1 .. Len(seen)) : seen[c] \in Ended => views[c] = seen[c]

Bad == {"nonzero", "oom"}

\* What made the phase final is in Docker, and in what the worker has seen since.
OwnInv ==
  /\ own = "Succeeded" => \A c \in Conts :
       views[c] = "zero" /\ (c <= Len(seen) => seen[c] = "zero")
  /\ own = "Failed" => \E c \in Conts :
       views[c] \in Bad /\ (c <= Len(seen) => seen[c] = views[c])

StatusInv == Shape /\ GoneInv /\ ReadInv /\ SrcInv /\ UntouchedInv

-----------------------------------------------------------------------------
\* A Pod has a container, so what is made of its views is not empty.
LEMMA NotEmpty ==
  ASSUME NEW f, DOMAIN f = Conts
  PROVE  f # << >>
BY PodStatusAssumption DEF Conts

\* A merge of the views takes everything but the reason from them.
LEMMA MergeViews ==
  ASSUME NEW old, NEW vs
  PROVE  LET s == Merge(old, PodStatusFromViews(vs))
         IN  /\ s.reason = old.reason
             /\ s.phase = Phase(vs)
             /\ s.cs = [c \in Conts |-> ContainerStatus(vs[c])]
<1>1. Phase(vs) # "" BY DEF Phase
<1>2. [c \in Conts |-> ContainerStatus(vs[c])] # << >> BY NotEmpty
<1> QED BY <1>1, <1>2 DEF Merge, PodStatusFromViews

\* What the strategies keep of a Pod that a client sends.
LEMMA CreatePrepared ==
  ASSUME NEW new, IsPod(new)
  PROVE  PrepareForCreate(new) = [spec |-> new.spec, grace |-> None, status |-> EmptyStatus]
<1>1. PICK s, g, t : new = [spec |-> s, grace |-> g, status |-> t] BY DEF IsPod
<1>2. PICK c : c = PrepareForCreate(new) OBVIOUS
<1>3. c = [[new EXCEPT !.status = EmptyStatus] EXCEPT !.grace = None]
  BY <1>2 DEF PrepareForCreate
<1>4. c = [spec |-> s, grace |-> None, status |-> EmptyStatus] BY <1>1, <1>3
<1> QED BY <1>1, <1>2, <1>4

LEMMA UpdatePrepared ==
  ASSUME NEW new, NEW old, NEW x, IsPod(new)
  PROVE  PrepareForUpdate([new EXCEPT !.spec = x], old)
           = [spec |-> x, grace |-> old.grace, status |-> new.status]
<1>1. PICK s, g, t : new = [spec |-> s, grace |-> g, status |-> t] BY DEF IsPod
<1>2. PICK p : p = [new EXCEPT !.spec = x] OBVIOUS
<1>3. p = [spec |-> x, grace |-> g, status |-> t] BY <1>1, <1>2
<1>4. [p EXCEPT !.grace = old.grace] = [spec |-> x, grace |-> old.grace, status |-> t] BY <1>3
<1> QED BY <1>1, <1>2, <1>4 DEF PrepareForUpdate

LEMMA StatusUpdatePrepared ==
  ASSUME NEW new, NEW old, IsPod(old)
  PROVE  PrepareForStatusUpdate(new, old)
           = [spec |-> old.spec, grace |-> old.grace, status |-> new.status]
BY DEF IsPod, PrepareForStatusUpdate

\* A worker that has seen nothing has seen no container.
LEMMA Unseen ==
  ASSUME NEW s, s = << >>
  PROVE  Conts \cap (1 .. Len(s)) = {} /\ \A c \in Conts : ~(c <= Len(s))
<1>1. Len(s) = 0 BY EmptySeq
<1> QED BY <1>1 DEF Conts

LEMMA StatusInit == Init => StatusInv /\ SeenInv /\ OwnInv
<1> SUFFICES ASSUME Init PROVE StatusInv /\ SeenInv /\ OwnInv
  OBVIOUS
<1> USE DEF Init
<1>1. Shape BY EmptySeq DEF Shape, View
<1>2. GoneInv /\ ReadInv /\ SrcInv /\ UntouchedInv
  BY DEF GoneInv, ReadInv, SrcInv, UntouchedInv
<1>3. SeenInv /\ OwnInv BY Unseen DEF SeenInv, OwnInv
<1> QED BY <1>1, <1>2, <1>3 DEF StatusInv

LEMMA PodIsPod == IsPod(Pod) /\ Pod.spec = spec /\ Pod.grace = grace /\ Pod.status = status
BY DEF IsPod, Pod

\* A client writes back what it read, or creates a Pod.
LEMMA PutWrites ==
  ASSUME StatusInv, PutStatus \/ \E s \in 0 .. MaxSpec : Put(s)
  PROVE  /\ spec \in Nat /\ spec' \in Nat /\ asked' = spec'
         /\ grace' = grace /\ status' = read.status
<1>1. IsPod(read) BY DEF StatusInv, ReadInv, Put, PutStatus
<1>2. spec \in Nat /\ asked = spec BY DEF StatusInv, Shape, Put, PutStatus
<1>3. ASSUME NEW s \in 0 .. MaxSpec, Put(s)
      PROVE  spec' \in Nat /\ asked' = spec' /\ grace' = grace /\ status' = read.status
  <2>1. PICK p : p = PrepareForUpdate([read EXCEPT !.spec = s], Pod) OBVIOUS
  <2>2. p = [spec |-> s, grace |-> grace, status |-> read.status]
    BY <1>1, <2>1, PodIsPod, UpdatePrepared
  <2>3. spec' = p.spec /\ grace' = p.grace /\ status' = p.status /\ asked' = s
    BY <1>3, <2>1 DEF Put, Store
  <2>4. s \in Nat BY PodStatusAssumption
  <2> QED BY <2>2, <2>3, <2>4
<1>4. CASE PutStatus
  <2>1. PICK p : p = PrepareForStatusUpdate(read, Pod) OBVIOUS
  <2>2. p = [spec |-> spec, grace |-> grace, status |-> read.status]
    BY <2>1, PodIsPod, StatusUpdatePrepared
  <2>3. spec' = p.spec /\ grace' = p.grace /\ status' = p.status /\ asked' = asked
    BY <1>4, <2>1 DEF PutStatus, Store
  <2> QED BY <1>2, <2>2, <2>3
<1> QED BY <1>2, <1>3, <1>4

LEMMA CreateWrites ==
  ASSUME StatusInv, NEW pod, Create(pod),
         pod = [spec |-> 0, grace |-> None, status |-> EmptyStatus] \/ (read # None /\ pod = read)
  PROVE  spec' \in Nat /\ asked' = spec' /\ grace' = None /\ status' = EmptyStatus
<1>1. IsPod(pod) /\ pod.spec \in Nat
  BY DEF StatusInv, ReadInv, IsPod
<1>2. PICK p : p = PrepareForCreate(pod) OBVIOUS
<1>3. p = [spec |-> pod.spec, grace |-> None, status |-> EmptyStatus]
  BY <1>1, <1>2, CreatePrepared
<1> QED BY <1>1, <1>2, <1>3 DEF Create, Store

\* The views that PatchViews sends.
Sent == [Conts -> Exits \cup {"running"}]

LEMMA SentSeen == Sent \subseteq [Conts -> Seen]
BY PodStatusAssumption DEF Sent, Seen, View

LEMMA StatusStep ==
  ASSUME StatusInv, [Next]_vars
  PROVE  StatusInv'
<1> USE DEF StatusInv, Shape, GoneInv, ReadInv, SrcInv, UntouchedInv, podVars, workVars, histVars
<1>1. ASSUME NEW c \in Conts, Start(c) PROVE StatusInv'
  BY <1>1 DEF Start, View
<1>2. ASSUME NEW c \in Conts, NEW v \in Exits, End(c, v) PROVE StatusInv'
  BY <1>2, PodStatusAssumption DEF End, View
<1>3. ASSUME NEW c \in Conts, Inspect(c) PROVE StatusInv'
  <2>1. views[c] \in Seen BY <1>3 DEF Inspect, Seen
  <2>2. seen' \in Seq(Seen) BY <1>3, <2>1, AppendProperties DEF Inspect
  <2> QED BY <1>3, <2>2 DEF Inspect
<1>4. CASE WorkerGet \/ WorkerReturns
  <2>1. << >> \in Seq(Seen) BY EmptySeq
  <2>2. /\ UNCHANGED <<views, status, spec, grace, read, src, own, asked, untouched>>
        /\ work' = "own" => spec # None
        /\ seen' = << >>
    BY <1>4 DEF WorkerGet, WorkerReturns, Done
  <2> QED BY <2>1, <2>2
<1>5. CASE PatchFailed
  <2>1. << >> \in Seq(Seen) BY EmptySeq
  <2>2. /\ UNCHANGED <<views, spec, grace, read, own, asked>>
        /\ work' = "none" /\ seen' = << >> /\ src' = << >> /\ untouched' = FALSE /\ spec # None
    BY <1>5 DEF PatchFailed, Done
  <2> QED BY <2>1, <2>2
<1>6. ASSUME NEW vs \in Sent, PatchViews(vs) PROVE StatusInv'
  <2>1. /\ status'.phase = Phase(vs)
        /\ status'.cs = [c \in Conts |-> ContainerStatus(vs[c])]
    <3>1. status' = Merge(status, PodStatusFromViews(vs)) BY <1>6 DEF PatchViews
    <3> HIDE DEF StatusInv
    <3> QED BY <3>1, MergeViews
  <2>2. src' = vs /\ vs \in [Conts -> Seen] BY <1>6, SentSeen DEF PatchViews
  <2>3. << >> \in Seq(Seen) BY EmptySeq
  <2>4. /\ UNCHANGED <<views, spec, grace, read, asked>>
        /\ work' = "none" /\ seen' = << >> /\ untouched' = FALSE /\ spec # None
        /\ own' \in {own, Phase(vs), ""} /\ (own' # own => own' \in {"", "Succeeded", "Failed"})
    BY <1>6 DEF PatchViews, Done
  <2>5. SrcInv' BY <2>1, <2>2
  <2> HIDE DEF SrcInv
  <2> QED BY <2>3, <2>4, <2>5
<1>7. CASE Read
  <2>1. spec \in Nat /\ read' = [spec |-> spec, grace |-> grace, status |-> status]
    BY <1>7 DEF Read, Pod
  <2>2. ReadInv' BY <2>1 DEF IsPod
  <2> QED BY <1>7, <2>2 DEF Read
<1>8. CASE PutStatus \/ \E s \in 0 .. MaxSpec : Put(s)
  <2>1. /\ spec' \in Nat /\ spec \in Nat /\ asked' = spec' /\ grace' = grace
        /\ status' = read.status
    BY <1>8, PutWrites
  <2>2. /\ src' = << >> /\ views' = views /\ read' = read
        /\ work' = work /\ seen' = seen /\ own' = own
        /\ untouched' = (untouched /\ read.status = EmptyStatus)
    BY <1>8 DEF Put, PutStatus, WroteBack
  <2>3. None \notin Nat BY PodStatusAssumption
  <2> QED BY <2>1, <2>2, <2>3
<1>9. ASSUME NEW pod, Create(pod),
             pod = [spec |-> 0, grace |-> None, status |-> EmptyStatus]
               \/ (read # None /\ pod = read)
      PROVE  StatusInv'
  <2>1. spec' \in Nat /\ asked' = spec' /\ grace' = None /\ status' = EmptyStatus
    BY <1>9, CreateWrites
  <2>2. None \notin Nat BY PodStatusAssumption
  <2> QED BY <1>9, <2>1, <2>2 DEF Create
<1>10. ASSUME NEW g \in Graces \cup {None}, Delete(g) PROVE StatusInv'
  <2>1. << >> \in Seq(Seen) BY EmptySeq
  <2>2. CASE Remove BY <1>10, <2>1, <2>2 DEF Delete, Remove, View
  <2>3. CASE ~Remove BY <1>10, <2>3, PodStatusAssumption DEF Delete, CheckGracefulDelete
  <2> QED BY <2>2, <2>3
<1>11. CASE UNCHANGED vars BY <1>11 DEF vars
<1> HIDE DEF StatusInv, Shape, GoneInv, ReadInv, SrcInv, UntouchedInv
<1> QED BY <1>1, <1>2, <1>3, <1>4, <1>5, <1>6, <1>7, <1>8, <1>9, <1>10, <1>11 DEF Next, Sent

-----------------------------------------------------------------------------
(* What the views say *)

LEMMA ViewStatus ==
  ASSUME NEW v \in Seen
  PROVE  /\ ContainerStatus(v).ready <=> v = "running"
         /\ ContainerStatus(v).reason # "" <=> v \in Ended
<1>1. CASE v = "running" BY <1>1 DEF ContainerStatus, Ended
<1>2. CASE v = "zero" BY <1>2 DEF ContainerStatus, Ended
<1>3. CASE v = "nonzero" BY <1>3 DEF ContainerStatus, Ended
<1>4. CASE v = "oom" BY <1>4 DEF ContainerStatus, Ended
<1> QED BY <1>1, <1>2, <1>3, <1>4 DEF Seen, View

\* A container that did not end with 0 decides; Succeeded needs all.
LEMMA PhaseOf ==
  ASSUME NEW vs \in [Conts -> Seen]
  PROVE  /\ Phase(vs) = "Failed" <=> \E c \in Conts : vs[c] \in Bad
         /\ Phase(vs) = "Succeeded" <=> \A c \in Conts : vs[c] = "zero"
         /\ (\A c \in Conts : vs[c] \in {"running", "zero"})
              /\ (\E c \in Conts : vs[c] = "running") => Phase(vs) = "Running"
BY DEF Phase, View, Seen, Bad

-----------------------------------------------------------------------------
(* What the worker has seen, and the phase it reported *)

\* What a step does to the containers and to what the worker has seen of them:
\* a container changes only before it has ended, ...
LEMMA WorkSteps ==
  ASSUME StatusInv, [Next]_vars, spec' # None
  PROVE  /\ \/ UNCHANGED <<views, seen>>
            \/ UNCHANGED views /\ seen' = << >>
            \/ seen' = seen /\ \E c \in Conts : \E v \in View :
                 views[c] \in {"missing", "running"} /\ views' = [views EXCEPT ![c] = v]
            \/ \E c \in Conts : c = Len(seen) + 1 /\ views' = views /\ seen' = Append(seen, views[c])
         /\ \/ own' = own
            \/ \E vs \in Sent : PatchViews(vs) /\ work = "own" /\ vs = seen
<1> USE DEF podVars, workVars, histVars
<1>1. ASSUME NEW c \in Conts, Start(c)
      PROVE  /\ seen' = seen /\ own' = own /\ "running" \in View
             /\ views[c] \in {"missing", "running"} /\ views' = [views EXCEPT ![c] = "running"]
  BY <1>1 DEF Start, View
<1>2. ASSUME NEW c \in Conts, NEW v \in Exits, End(c, v)
      PROVE  /\ seen' = seen /\ own' = own /\ v \in View
             /\ views[c] \in {"missing", "running"} /\ views' = [views EXCEPT ![c] = v]
  BY <1>2, PodStatusAssumption DEF End, View
<1>3. ASSUME NEW c \in Conts, Inspect(c)
      PROVE  own' = own /\ c = Len(seen) + 1 /\ views' = views /\ seen' = Append(seen, views[c])
  BY <1>3 DEF Inspect
<1>4. CASE WorkerReturns \/ PatchFailed
  <2>1. own' = own /\ views' = views /\ seen' = << >>
    BY <1>4 DEF WorkerReturns, PatchFailed, Done
  <2> QED BY <2>1
<1>5. ASSUME NEW vs \in Sent, PatchViews(vs)
      PROVE  /\ views' = views /\ seen' = << >>
             /\ own' = own \/ (work = "own" /\ vs = seen)
  BY <1>5 DEF PatchViews, Done
<1>6. CASE WorkerGet \/ Read \/ PutStatus \/ UNCHANGED vars
  <2>1. own' = own /\ views' = views /\ seen' = seen
    BY <1>6 DEF WorkerGet, Read, PutStatus, WroteBack, vars
  <2> QED BY <2>1
<1>7. ASSUME NEW s, Put(s) PROVE own' = own /\ views' = views /\ seen' = seen
  BY <1>7 DEF Put, WroteBack
<1>8. ASSUME NEW p, Create(p) PROVE own' = own /\ views' = views /\ seen' = seen
  BY <1>8 DEF Create
<1>9. ASSUME NEW g, Delete(g) PROVE own' = own /\ views' = views /\ seen' = seen
  BY <1>9 DEF Delete, Remove
<1> QED BY <1>1, <1>2, <1>3, <1>4, <1>5, <1>6, <1>7, <1>8, <1>9 DEF Next, Sent

\* ... and with the Pod everything goes.
LEMMA WorkGone ==
  ASSUME StatusInv', spec' = None
  PROVE  SeenInv' /\ OwnInv'
<1>1. seen' = << >> /\ own' = "" BY DEF StatusInv, GoneInv
<1> QED BY <1>1, Unseen DEF SeenInv, OwnInv

LEMMA SeenStep ==
  ASSUME StatusInv, StatusInv', SeenInv, [Next]_vars
  PROVE  SeenInv'
<1>1. CASE spec' = None BY <1>1, WorkGone
<1>2. CASE spec' # None
  <2>1. views \in [Conts -> View] /\ seen \in Seq(Seen) BY DEF StatusInv, Shape
  <2>2. CASE UNCHANGED <<views, seen>> BY <2>2 DEF SeenInv
  <2>3. CASE seen' = << >> BY <2>3, Unseen DEF SeenInv
  <2>4. ASSUME NEW d \in Conts, NEW v \in View, seen' = seen, views[d] \in {"missing", "running"},
               views' = [views EXCEPT ![d] = v]
        PROVE  SeenInv'
    BY <2>1, <2>4 DEF SeenInv, Ended
  <2>5. ASSUME NEW d \in Conts, d = Len(seen) + 1, views' = views, seen' = Append(seen, views[d])
        PROVE  SeenInv'
    <3>1. /\ Len(seen') = Len(seen) + 1 /\ Len(seen) \in Nat /\ seen'[d] = views[d]
          /\ \A c \in 1 .. Len(seen) : seen'[c] = seen[c]
      BY <2>1, <2>5
    <3> QED BY <2>5, <3>1 DEF SeenInv
  <2> QED BY <1>2, <2>2, <2>3, <2>4, <2>5, WorkSteps
<1> QED BY <1>1, <1>2

\* What the worker sends of this Pod is what it has seen of every container.
LEMMA SentIsSeen ==
  ASSUME StatusInv, NEW vs \in Sent, vs = seen
  PROVE  Conts = 1 .. Len(seen) /\ vs \in [Conts -> Seen]
<1>1. vs \in [Conts -> Seen] BY SentSeen
<1>2. DOMAIN seen = 1 .. Len(seen) BY LenProperties DEF StatusInv, Shape
<1> QED BY <1>1, <1>2

\* The phase that is reported again is the one that was.
LEMMA OwnKept ==
  ASSUME StatusInv, OwnInv, NEW vs \in Sent, PatchViews(vs), work = "own", vs = seen,
         own \in {"Succeeded", "Failed"}
  PROVE  own' = own
<1>1. Conts = 1 .. Len(seen) /\ vs \in [Conts -> Seen] BY SentIsSeen
<1>2. Len(seen) \in Nat BY LenProperties DEF StatusInv, Shape
<1>3. own' = IF Phase(vs) \in {"Succeeded", "Failed"} THEN Phase(vs) ELSE ""
  BY DEF PatchViews
<1>4. CASE own = "Succeeded"
  <2>1. \A c \in Conts : vs[c] = "zero" BY <1>1, <1>2, <1>4 DEF OwnInv
  <2> QED BY <1>1, <1>3, <1>4, <2>1, PhaseOf
<1>5. CASE own = "Failed"
  <2>1. \E c \in Conts : vs[c] \in Bad BY <1>1, <1>2, <1>5 DEF OwnInv
  <2> QED BY <1>1, <1>3, <1>5, <2>1, PhaseOf
<1> QED BY <1>4, <1>5

LEMMA OwnStep ==
  ASSUME StatusInv, StatusInv', SeenInv, OwnInv, [Next]_vars
  PROVE  OwnInv'
<1>1. CASE spec' = None BY <1>1, WorkGone
<1>2. ASSUME NEW vs \in Sent, PatchViews(vs), work = "own", vs = seen PROVE OwnInv'
  <2>1. Conts = 1 .. Len(seen) /\ vs \in [Conts -> Seen] BY <1>2, SentIsSeen
  <2>2. /\ own' = IF Phase(vs) \in {"Succeeded", "Failed"} THEN Phase(vs) ELSE ""
        /\ views' = views /\ seen' = << >>
    BY <1>2 DEF PatchViews, Done
  <2>3. \A c \in Conts : vs[c] \in Ended => views[c] = vs[c] BY <1>2, <2>1 DEF SeenInv
  <2>4. own' = "Succeeded" => \A c \in Conts : views[c] = "zero"
    BY <2>1, <2>2, <2>3, PhaseOf DEF Ended
  <2>5. own' = "Failed" => \E c \in Conts : views[c] \in Bad
    BY <2>1, <2>2, <2>3, PhaseOf DEF Ended, Bad
  <2>6. \A c \in Conts : ~(c <= Len(seen')) BY <2>2, Unseen
  <2> QED BY <2>2, <2>4, <2>5, <2>6 DEF OwnInv
<1>3. CASE spec' # None /\ own' = own
  <2>1. views \in [Conts -> View] /\ seen \in Seq(Seen) BY DEF StatusInv, Shape
  <2>2. CASE UNCHANGED <<views, seen>> BY <1>3, <2>2 DEF OwnInv
  <2>3. CASE UNCHANGED views /\ seen' = << >>
    <3>1. \A c \in Conts : ~(c <= Len(seen')) BY <2>3, Unseen
    <3> QED BY <1>3, <2>3, <3>1 DEF OwnInv
  <2>4. ASSUME NEW d \in Conts, NEW v \in View, seen' = seen, views[d] \in {"missing", "running"},
               views' = [views EXCEPT ![d] = v]
        PROVE  OwnInv'
    <3>1. \A c \in Conts : views[c] = "zero" \/ views[c] \in Bad => views'[c] = views[c]
      BY <2>1, <2>4 DEF Bad
    <3> QED BY <1>3, <2>4, <3>1 DEF OwnInv
  <2>5. ASSUME NEW d \in Conts, d = Len(seen) + 1, views' = views, seen' = Append(seen, views[d])
        PROVE  OwnInv'
    <3>1. /\ Len(seen') = Len(seen) + 1 /\ Len(seen) \in Nat /\ seen'[d] = views[d]
          /\ \A c \in 1 .. Len(seen) : seen'[c] = seen[c]
      BY <2>1, <2>5
    <3>2. \A c \in Conts : c <= Len(seen') => c = d \/ (c \in 1 .. Len(seen) /\ c <= Len(seen))
      BY <2>5, <3>1 DEF Conts
    <3> QED BY <1>3, <2>5, <3>1, <3>2 DEF OwnInv
  <2> QED BY <1>3, <2>2, <2>3, <2>4, <2>5, WorkSteps
<1> QED BY <1>1, <1>2, <1>3, WorkSteps

LEMMA StatusAlways == Spec => [](StatusInv /\ SeenInv /\ OwnInv)
<1>1. StatusInv /\ SeenInv /\ OwnInv /\ [Next]_vars => (StatusInv /\ SeenInv /\ OwnInv)'
  BY StatusStep, SeenStep, OwnStep
<1> QED BY StatusInit, <1>1, PTL DEF Spec

-----------------------------------------------------------------------------
(* The theorems *)

\* PodStatusFromViews aggregates the states of any number of containers as the
\* list before it says, and the merge patch leaves nothing of an older state:
\* neither of kubelet-lite's own nor of one a client has written back.
THEOREM Aggregates == Spec => []PhaseAggregates
<1>1. ASSUME StatusInv, src # << >>
      PROVE  /\ podReady(status) = {c \in Conts : src[c] = "running"}
             /\ status.phase = "Succeeded" <=> \A c \in Conts : src[c] = "zero"
             /\ status.phase = "Failed" <=> \E c \in Conts : src[c] \in {"nonzero", "oom"}
             /\ (\A c \in Conts : src[c] \in {"running", "zero"})
                  /\ (\E c \in Conts : src[c] = "running") => status.phase = "Running"
  <2>1. /\ src \in [Conts -> Seen]
        /\ status.cs = [c \in Conts |-> ContainerStatus(src[c])]
        /\ status.phase = Phase(src)
    BY <1>1 DEF StatusInv, SrcInv
  <2>2. podReady(status) = {c \in Conts : src[c] = "running"}
    <3>1. DOMAIN status.cs = Conts BY <2>1
    <3>2. ASSUME NEW c \in Conts PROVE status.cs[c].ready <=> src[c] = "running"
      <4>1. status.cs[c] = ContainerStatus(src[c]) /\ src[c] \in Seen BY <2>1
      <4> QED BY <4>1, ViewStatus
    <3> QED BY <3>1, <3>2 DEF podReady
  <2> QED BY <2>1, <2>2, PhaseOf DEF Bad
<1>2. StatusInv => PhaseAggregates BY <1>1 DEF PhaseAggregates
<1> QED BY StatusAlways, <1>2, PTL

\* podDisplayStatus shows the reason of the first container that ended; a Pod
\* whose containers all run is displayed with its phase unless the reason of a
\* failure is set; a new Pod is Pending, whatever status its manifest carried.
THEOREM Displayed == Spec => []DisplayIsPhase
<1>1. ASSUME StatusInv, src # << >>
      PROVE  /\ \A c \in Conts : status.cs[c] = ContainerStatus(src[c])
             /\ Noted(status) = {c \in Conts : src[c] \in Ended}
  <2>1. src \in [Conts -> Seen] /\ status.cs = [c \in Conts |-> ContainerStatus(src[c])]
    BY <1>1 DEF StatusInv, SrcInv
  <2>2. ASSUME NEW c \in Conts
        PROVE  status.cs[c] = ContainerStatus(src[c]) /\ (status.cs[c].reason # "" <=> src[c] \in Ended)
    <3>1. status.cs[c] = ContainerStatus(src[c]) /\ src[c] \in Seen BY <2>1
    <3> QED BY <3>1, ViewStatus
  <2>3. DOMAIN status.cs = Conts BY <2>1
  <2> QED BY <2>2, <2>3 DEF Noted
<1>2. ASSUME StatusInv, grace = None, src # << >>, NEW c \in Conts, src[c] \in Ended,
             \A d \in 1 .. c - 1 : src[d] = "running"
      PROVE  podDisplayStatus(status, grace) = ContainerStatus(src[c]).reason
  <2>1. PICK E : E = Noted(status) OBVIOUS
  <2>2. E = {d \in Conts : src[d] \in Ended} BY <1>1, <1>2, <2>1
  <2>3. c \in E /\ \A d \in E : c <= d BY <1>2, <2>2 DEF Conts, Ended
  <2>4. E \subseteq Int BY <2>2 DEF Conts
  <2>5. ASSUME NEW e \in E, \A d \in E : e <= d PROVE e = c BY <2>3, <2>4, <2>5
  <2>6. (CHOOSE e \in E : \A d \in E : e <= d) = c BY <2>3, <2>5
  <2>7. podDisplayStatus(status, grace) = status.cs[c].reason
    BY <1>2, <2>1, <2>3, <2>6 DEF podDisplayStatus
  <2> QED BY <1>1, <1>2, <2>7
<1>3. ASSUME StatusInv, grace = None, src # << >>, \A c \in Conts : src[c] = "running",
             status.reason = ""
      PROVE  podDisplayStatus(status, grace) = "Running"
  <2>1. src \in [Conts -> Seen] /\ status.phase = Phase(src) BY <1>3 DEF StatusInv, SrcInv
  <2>2. 1 \in Conts BY PodStatusAssumption DEF Conts
  <2>3. status.phase = "Running" BY <1>3, <2>1, <2>2, PhaseOf
  <2>4. Noted(status) = {} BY <1>1, <1>3 DEF Ended
  <2> QED BY <1>3, <2>3, <2>4 DEF podDisplayStatus
<1>4. ASSUME StatusInv, grace = None, untouched
      PROVE  podDisplayStatus(status, grace) = "Pending" /\ podReady(status) = {}
  <2>1. status.phase = "" /\ status.reason = "" /\ status.cs = << >>
    <3>1. status = EmptyStatus BY <1>4, Zenon DEF StatusInv, UntouchedInv
    <3> QED BY <3>1 DEF EmptyStatus
  <2>2. DOMAIN status.cs = {}
    <3>1. DOMAIN << >> = {} OBVIOUS
    <3> QED BY <2>1, <3>1
  <2> QED BY <1>4, <2>1, <2>2 DEF podDisplayStatus, Noted, podReady
<1>5. StatusInv => DisplayIsPhase BY <1>2, <1>3, <1>4 DEF DisplayIsPhase
<1> QED BY StatusAlways, <1>5, PTL

\* Once reported from the Pod's own containers as Succeeded or Failed, the phase
\* is the same in every later report from them: a container ends once, so what
\* made the phase final is in every pass that begins after the report, and no
\* pass over this Pod is under way when it is made.
THEOREM PhaseSticks == Spec => TerminalPhaseSticks
<1>1. ASSUME StatusInv, OwnInv, [Next]_vars, own \in {"Succeeded", "Failed"}, spec' # None
      PROVE  own' = own
  BY <1>1, WorkSteps, OwnKept
<1> QED BY <1>1, StatusAlways, PTL DEF Spec, TerminalPhaseSticks

\* However old the copy that a client writes, deletion is final and its grace
\* period only gets shorter, and no update of the status changes the spec: the
\* registry and podStatusStrategy keep those fields of the object in the store.
THEOREM NothingUndone == Spec => OldCopiesUndoNothing
<1>1. ASSUME StatusInv, [Next]_vars
      PROVE  /\ (spec # None /\ grace # None /\ spec' # None) =>
                  (grace' # None /\ grace' <= grace)
             /\ (spec = None) => (grace' = None)
  <2>1. /\ spec \in Nat \cup {None} /\ grace \in Nat \cup {None} /\ None \notin Nat
        /\ spec = None => grace = None
    BY <1>1, PodStatusAssumption DEF StatusInv, Shape, GoneInv
  <2>2. CASE UNCHANGED podVars BY <2>1, <2>2 DEF podVars
  <2>3. CASE PutStatus \/ \E s \in 0 .. MaxSpec : Put(s) BY <1>1, <2>1, <2>3, PutWrites
  <2>4. ASSUME NEW g \in Graces \cup {None}, Delete(g)
        PROVE  /\ spec # None
               /\ (grace # None /\ spec' # None) => (grace' # None /\ grace' <= grace)
    <3>1. CASE spec' = None BY <2>4, <3>1 DEF Delete
    <3>2. CASE spec' # None /\ grace # None
      <4>1. grace' = IF g = None \/ g >= grace THEN grace ELSE g
        BY <2>4, <3>2 DEF Delete, Remove
      <4>2. g = None \/ g \in Nat BY PodStatusAssumption
      <4> QED BY <2>1, <2>4, <3>2, <4>1, <4>2 DEF Delete
    <3>3. CASE grace = None BY <2>4, <3>3 DEF Delete
    <3> QED BY <3>1, <3>2, <3>3
  <2>5. ASSUME NEW pod, Create(pod),
               pod = [spec |-> 0, grace |-> None, status |-> EmptyStatus]
                 \/ (read # None /\ pod = read)
        PROVE  spec = None /\ grace' = None
    BY <1>1, <2>5, CreateWrites DEF Create
  <2> QED BY <1>1, <2>2, <2>3, <2>4, <2>5 DEF Next, vars, Start, End, Inspect, WorkerGet,
          WorkerReturns, PatchFailed, PatchViews, Read
<1>2. StatusInv' => (spec' = asked') BY DEF StatusInv, Shape
<1> QED BY <1>1, <1>2, StatusAlways, PTL DEF Spec, OldCopiesUndoNothing
=============================================================================
