---------------------------- MODULE WatcherProofs ----------------------------
(***************************************************************************)
(* Proofs about Watcher, for every number of publishers and watchers and   *)
(* every capacity: the channels of a watcher are closed once, and while    *)
(* channels have room and contexts outlive store.Watch nobody sends on a   *)
(* closed one and nobody waits for himself.                                *)
(***************************************************************************)
EXTENDS Watcher, FiniteSetTheorems, TLAPS

-----------------------------------------------------------------------------
(* The inductive invariant *)

Stopping == {"stop", "close", "unsub"}

\* Where each kind of goroutine can be, and whom it stops: a handler and a
\* ctx goroutine stop their own watcher only.
Places ==
  /\ \A p \in Pubs : pc[p] \in {"idle", "call", "publish"} \cup Stopping
  /\ \A w \in Ws :
       /\ pc[Handler(w)] \in {"idle", "lock", "init", "expire", "serve", "done"} \cup Stopping
       /\ pc[CtxWait(w)] \in {"idle", "wait", "done"} \cup Stopping
       /\ pc[CtxWait(w)] # "idle" => pc[Handler(w)] # "idle"
       /\ pc[Handler(w)] \in Stopping => tgt[Handler(w)] = w
       /\ pc[CtxWait(w)] \in Stopping => tgt[CtxWait(w)] = w
  /\ \A a \in Actors : pc[a] \in Stopping => tgt[a] \in Ws

\* sync.Once: one goroutine at a time runs the body, and the channel is closed
\* exactly when the body has been run.
OnceInv ==
  \A w \in Ws :
    /\ \A a, b \in Closers(w) : a = b
    /\ Closers(w) # {} <=> once[w] = "running"
    /\ chDone[w] <=> once[w] = "done"

\* A subscriber has an onStop that unsubscribes it.
SubsInv == \A w \in subs : onStop[w]

\* The rest holds as long as channels have room and contexts outlive
\* store.Watch.  Nobody has sent on a closed channel, nor will a publisher.
RoomOpen == ~panicked /\ \A w \in subs : ~chDone[w]

\* Publishers stop nobody, and the one that is delivering holds the mutex and
\* has only subscribers before it.
RoomPubs ==
  \A p \in Pubs :
    /\ pc[p] \notin Stopping
    /\ pc[p] = "publish" => mu = p /\ todo[p] \subseteq subs
    /\ pc[p] # "publish" => todo[p] = {}

\* A handler holds the mutex while it delivers the initial events, and nobody
\* holds it who is not delivering.
Delivering(a) == (a \in Pubs /\ pc[a] = "publish") \/ (a \in Handlers /\ pc[a] = "init")
RoomMutex ==
  /\ \A w \in Ws : mu = Handler(w) <=> pc[Handler(w)] = "init"
  /\ mu # None => Delivering(mu)

\* Nobody stops a watcher whose store.Watch is still running.
RoomNew ==
  \A w \in Ws :
    pc[Handler(w)] \in {"idle", "lock", "init", "expire"} =>
      /\ once[w] = "new"
      /\ \A a \in Actors : pc[a] \in Stopping => tgt[a] # w

RoomInv == RoomOpen /\ RoomPubs /\ RoomMutex /\ RoomNew

WInv == TypeOK /\ Places /\ OnceInv /\ SubsInv /\ (Roomy => RoomInv)

-----------------------------------------------------------------------------
LEMMA ActorsDiffer ==
  /\ \A w \in Ws : Handler(w) \in Actors /\ CtxWait(w) \in Actors
  /\ \A p \in Pubs : p \in Actors
  /\ \A v, w \in Ws : Handler(v) # CtxWait(w)
  /\ \A v, w \in Ws : Handler(v) = Handler(w) => v = w
  /\ \A v, w \in Ws : CtxWait(v) = CtxWait(w) => v = w
  /\ \A w \in Ws : Handler(w) \notin Pubs /\ CtxWait(w) \notin Pubs
  /\ \A a \in Actors : a # None
BY WatcherAssumption DEF Actors, Handlers, CtxWaits, Handler, CtxWait

LEMMA WInit == Init => WInv
<1> SUFFICES ASSUME Init PROVE WInv
  OBVIOUS
<1> USE DEF Init
<1>1. TypeOK
  <2>1. /\ stopCh \in [Ws -> BOOLEAN] /\ chDone \in [Ws -> BOOLEAN] /\ onStop \in [Ws -> BOOLEAN]
        /\ panicked \in BOOLEAN /\ overflowed \in BOOLEAN /\ early \in BOOLEAN
    BY Zenon
  <2> QED BY <2>1, WatcherAssumption DEF TypeOK
<1> USE ActorsDiffer
<1>2. Places BY DEF Places, Stopping
<1>3. OnceInv /\ SubsInv BY DEF OnceInv, SubsInv, Closers
<1>4. RoomInv BY DEF RoomInv, RoomOpen, RoomPubs, RoomMutex, RoomNew, Stopping
<1> QED BY <1>1, <1>2, <1>3, <1>4 DEF WInv

-----------------------------------------------------------------------------
(* Types *)

LEMMA TypesPublish ==
  ASSUME TypeOK, NEW p \in Pubs, PublishCall(p) \/ PubStep(p)
  PROVE  TypeOK'
<1> USE ActorsDiffer, WatcherAssumption DEF TypeOK, history, chanVars
<1>1. CASE PublishCall(p) BY <1>1 DEF PublishCall
<1>2. CASE PublishLock(p) BY <1>2 DEF PublishLock
<1>3. ASSUME NEW w \in Ws, PublishTo(p, w) PROVE TypeOK'
  BY <1>3 DEF PublishTo, DeliverSend, DeliverSkip
<1>4. ASSUME NEW w \in Ws, PublishOverflows(p, w) PROVE TypeOK'
  BY <1>4 DEF PublishOverflows, DeliverOverflows, CallStop
<1>5. ASSUME NEW w \in Ws, PublishPanics(p, w) PROVE TypeOK'
  BY <1>5 DEF PublishPanics, DeliverPanics
<1>6. CASE PublishUnlock(p) BY <1>6 DEF PublishUnlock
<1> QED BY <1>1, <1>2, <1>3, <1>4, <1>5, <1>6 DEF PubStep

LEMMA TypesWatch ==
  ASSUME TypeOK, NEW w \in Ws,
         \/ WatchNew(w) \/ WatchStep(w) \/ Serve(w) \/ ClientLeaves(w)
         \/ CtxCancelled(w) \/ CtxStopped(w)
  PROVE  TypeOK'
<1> USE ActorsDiffer, WatcherAssumption DEF TypeOK, history, chanVars
<1>1. CASE WatchNew(w) BY <1>1 DEF WatchNew
<1>2. CASE WatchLock(w) BY <1>2 DEF WatchLock
<1>3. CASE WatchDeliver(w) BY <1>3 DEF WatchDeliver, DeliverSend, DeliverSkip
<1>4. CASE WatchOverflows(w) BY <1>4 DEF WatchOverflows, DeliverOverflows, CallStop
<1>5. CASE WatchPanics(w) BY <1>5 DEF WatchPanics, DeliverPanics
<1>6. CASE WatchSubscribe(w) BY <1>6 DEF WatchSubscribe
<1>7. CASE WatchExpires(w) BY <1>7 DEF WatchExpires
<1>8. CASE ExpireSend(w) BY <1>8 DEF ExpireSend, CallStop
<1>9. CASE ExpirePanics(w) BY <1>9 DEF ExpirePanics, DeliverPanics
<1>10. CASE Serve(w) BY <1>10 DEF Serve
<1>11. CASE ServeEnds(w) \/ ClientLeaves(w) BY <1>11 DEF ServeEnds, ClientLeaves, CallStop
<1>12. CASE CtxCancelled(w)
  <2>1. early' \in BOOLEAN BY <1>12, Zenon DEF CtxCancelled
  <2>2. pc' \in [Actors -> {"idle", "call", "publish", "stop", "close", "unsub",
                             "lock", "init", "expire", "serve", "wait", "done"}]
    BY <1>12 DEF CtxCancelled, CallStop
  <2>3. tgt' \in [Actors -> Ws \cup {None}] BY <1>12 DEF CtxCancelled, CallStop
  <2> QED BY <1>12, <2>1, <2>2, <2>3 DEF CtxCancelled
<1>13. CASE CtxStopped(w) BY <1>13 DEF CtxStopped
<1> QED BY <1>1, <1>2, <1>3, <1>4, <1>5, <1>6, <1>7, <1>8, <1>9, <1>10, <1>11, <1>12, <1>13
        DEF WatchStep

LEMMA TypesStop ==
  ASSUME TypeOK, NEW a \in Actors, StopStep(a)
  PROVE  TypeOK'
<1> USE WatcherAssumption DEF TypeOK, history, chanVars
<1>1. CASE StopEnter(a) BY <1>1 DEF StopEnter
<1>2. After(a) \in {"publish", "init", "done"} BY DEF After
<1>3. ASSUME StopReturns(a)
      PROVE  pc' \in [Actors -> {"idle", "call", "publish", "stop", "close", "unsub",
                                 "lock", "init", "expire", "serve", "wait", "done"}]
             /\ tgt' \in [Actors -> Ws \cup {None}]
  BY <1>2, <1>3 DEF StopReturns
<1>4. CASE StopAgain(a) BY <1>3, <1>4 DEF StopAgain
<1>5. CASE StopClose(a)
  <2>1. CASE onStop[tgt[a]] BY <1>5, <2>1 DEF StopClose
  <2>2. CASE ~ onStop[tgt[a]] BY <1>3, <1>5, <2>2 DEF StopClose
  <2> QED BY <2>1, <2>2
<1>6. CASE StopUnsub(a) BY <1>3, <1>6 DEF StopUnsub
<1> QED BY <1>1, <1>4, <1>5, <1>6 DEF StopStep

LEMMA TypesStep ==
  ASSUME TypeOK, [Next]_vars
  PROVE  TypeOK'
<1>1. CASE UNCHANGED vars BY <1>1 DEF vars, TypeOK
<1> QED BY <1>1, TypesPublish, TypesWatch, TypesStop DEF Next

-----------------------------------------------------------------------------
(* Who stops whom *)

\* One goroutine moves.
LEMMA PlacesOne ==
  ASSUME Places, NEW x \in Actors,
         \A a \in Actors : a # x => pc'[a] = pc[a] /\ tgt'[a] = tgt[a],
         pc'[x] \in Stopping => tgt'[x] \in Ws,
         x \in Pubs => pc'[x] \in {"idle", "call", "publish"} \cup Stopping,
         \A w \in Ws : x = Handler(w) =>
           /\ pc'[x] \in {"lock", "init", "expire", "serve", "done"} \cup Stopping
           /\ pc'[x] \in Stopping => tgt'[x] = w,
         \A w \in Ws : x = CtxWait(w) =>
           /\ pc[x] # "idle"
           /\ pc'[x] \in {"wait", "done"} \cup Stopping
           /\ pc'[x] \in Stopping => tgt'[x] = w
  PROVE  Places'
<1>1. \A p \in Pubs : pc'[p] \in {"idle", "call", "publish"} \cup Stopping
  BY ActorsDiffer DEF Places
<1>2. \A a \in Actors : pc'[a] \in Stopping => tgt'[a] \in Ws
  BY DEF Places
<1>3. ASSUME NEW w \in Ws
      PROVE  /\ pc'[Handler(w)] \in {"idle", "lock", "init", "expire", "serve", "done"} \cup Stopping
             /\ pc'[Handler(w)] \in Stopping => tgt'[Handler(w)] = w
             /\ pc'[Handler(w)] = "idle" => pc[Handler(w)] = "idle" /\ x # Handler(w)
  BY ActorsDiffer DEF Places, Stopping
<1>4. ASSUME NEW w \in Ws
      PROVE  /\ pc'[CtxWait(w)] \in {"idle", "wait", "done"} \cup Stopping
             /\ pc'[CtxWait(w)] \in Stopping => tgt'[CtxWait(w)] = w
             /\ pc'[CtxWait(w)] # "idle" => pc[CtxWait(w)] # "idle"
  BY ActorsDiffer DEF Places, Stopping
<1>5. ASSUME NEW w \in Ws, pc'[CtxWait(w)] # "idle" PROVE pc'[Handler(w)] # "idle"
  BY <1>3, <1>4, <1>5 DEF Places
<1> QED BY <1>1, <1>2, <1>3, <1>4, <1>5 DEF Places

LEMMA PlacesHandler ==
  ASSUME TypeOK, Places, NEW w \in Ws,
         NEW v \in {"lock", "init", "expire", "serve", "done"} \cup Stopping,
         pc' = [pc EXCEPT ![Handler(w)] = v],
         \/ tgt' = tgt /\ v \notin Stopping
         \/ tgt' = [tgt EXCEPT ![Handler(w)] = w]
  PROVE  Places'
<1>0. PICK x \in Actors : x = Handler(w) BY ActorsDiffer
<1>1. /\ \A a \in Actors : a # x => pc'[a] = pc[a] /\ tgt'[a] = tgt[a]
      /\ pc'[x] = v
      /\ v \in Stopping => tgt'[x] = w
  BY <1>0 DEF TypeOK
<1>2. /\ x \notin Pubs /\ \A u \in Ws : x # CtxWait(u)
      /\ \A u \in Ws : x = Handler(u) => u = w
  BY <1>0, ActorsDiffer
<1> QED BY <1>1, <1>2, PlacesOne

LEMMA PlacesCtx ==
  ASSUME TypeOK, Places, NEW w \in Ws, NEW v \in {"done"} \cup Stopping,
         pc[CtxWait(w)] # "idle",
         pc' = [pc EXCEPT ![CtxWait(w)] = v],
         \/ tgt' = tgt /\ v \notin Stopping
         \/ tgt' = [tgt EXCEPT ![CtxWait(w)] = w]
  PROVE  Places'
<1>0. PICK x \in Actors : x = CtxWait(w) BY ActorsDiffer
<1>1. /\ \A a \in Actors : a # x => pc'[a] = pc[a] /\ tgt'[a] = tgt[a]
      /\ pc'[x] = v
      /\ v \in Stopping => tgt'[x] = w
  BY <1>0 DEF TypeOK
<1>2. /\ x \notin Pubs /\ \A u \in Ws : x # Handler(u)
      /\ \A u \in Ws : x = CtxWait(u) => u = w
  BY <1>0, ActorsDiffer
<1> QED BY <1>0, <1>1, <1>2, PlacesOne

LEMMA PlacesStep ==
  ASSUME TypeOK, Places, [Next]_vars
  PROVE  Places'
<1>1. ASSUME NEW p \in Pubs, PublishCall(p) \/ PublishLock(p) \/ PublishUnlock(p)
      PROVE  Places'
  BY <1>1, PlacesOne, ActorsDiffer DEF PublishCall, PublishLock, PublishUnlock, TypeOK, Stopping
<1>2. ASSUME NEW p \in Pubs, NEW w \in Ws, PublishOverflows(p, w) \/ PublishPanics(p, w)
      PROVE  Places'
  BY <1>2, PlacesOne, ActorsDiffer DEF PublishOverflows, PublishPanics, CallStop, TypeOK, Stopping
<1>3. ASSUME NEW w \in Ws, WatchNew(w) PROVE Places'
  BY <1>3, ActorsDiffer DEF WatchNew, Places, TypeOK, Stopping
<1>4. ASSUME NEW w \in Ws,
             WatchLock(w) \/ WatchPanics(w) \/ WatchSubscribe(w) \/ WatchExpires(w)
               \/ ExpirePanics(w)
      PROVE  Places'
  BY <1>4, PlacesHandler
     DEF WatchLock, WatchPanics, WatchSubscribe, WatchExpires, ExpirePanics, Stopping
<1>5. ASSUME NEW w \in Ws,
             WatchOverflows(w) \/ ExpireSend(w) \/ ServeEnds(w) \/ ClientLeaves(w)
      PROVE  Places'
  <2>1. CallStop(Handler(w), w)
    BY <1>5 DEF WatchOverflows, ExpireSend, ServeEnds, ClientLeaves
  <2> QED BY <2>1, PlacesHandler DEF CallStop, Stopping
<1>6. ASSUME NEW w \in Ws, CtxCancelled(w) \/ CtxStopped(w) PROVE Places'
  BY <1>6, PlacesCtx DEF CtxCancelled, CtxStopped, CallStop, Stopping
<1>7. ASSUME NEW a \in Actors, StopStep(a) PROVE Places'
  <2>1. /\ a \in Pubs => After(a) = "publish"
        /\ \A w \in Ws : a = Handler(w) => After(a) \in {"init", "done"}
        /\ \A w \in Ws : a = CtxWait(w) => After(a) = "done"
    <3>1. a \in Handlers <=> \E w \in Ws : a = Handler(w) BY DEF Handlers
    <3>2. a \in Pubs => a \notin Handlers BY <3>1, ActorsDiffer
    <3>3. \A w \in Ws : a = Handler(w) => a \notin Pubs BY ActorsDiffer
    <3>4. \A w \in Ws : a = CtxWait(w) => a \notin Pubs /\ a \notin Handlers
      BY <3>1, ActorsDiffer
    <3> QED BY <3>2, <3>3, <3>4 DEF After
  <2>2. /\ pc[a] \in Stopping
        /\ \A b \in Actors : b # a => pc'[b] = pc[b] /\ tgt'[b] = tgt[b]
        /\ \/ pc'[a] \in Stopping /\ tgt'[a] = tgt[a]
           \/ pc'[a] = After(a)
    BY <1>7 DEF StopStep, StopEnter, StopAgain, StopClose, StopUnsub, StopReturns, TypeOK,
                Stopping
  <2>3. /\ tgt[a] \in Ws
        /\ \A w \in Ws : a = Handler(w) \/ a = CtxWait(w) => tgt[a] = w
    BY <1>7, <2>2 DEF Places
  <2>4. pc'[a] = After(a) => pc'[a] \notin Stopping BY DEF After, Stopping
  <2>5. pc[a] # "idle" BY <2>2 DEF Stopping
  <2> QED BY <1>7, <2>1, <2>2, <2>3, <2>4, <2>5, PlacesOne
<1>8. ASSUME UNCHANGED <<pc, tgt>> PROVE Places'
  BY <1>8 DEF Places
<1>9. ASSUME NEW p \in Pubs, PublishCall(p) \/ PubStep(p) PROVE Places'
  BY <1>1, <1>2, <1>8, <1>9 DEF PubStep, PublishTo
<1>10. ASSUME NEW w \in Ws,
              WatchNew(w) \/ WatchStep(w) \/ Serve(w) \/ ClientLeaves(w)
                \/ CtxCancelled(w) \/ CtxStopped(w)
       PROVE  Places'
  BY <1>3, <1>4, <1>5, <1>6, <1>8, <1>10 DEF WatchStep, WatchDeliver, Serve
<1> QED BY <1>7, <1>8, <1>9, <1>10 DEF Next, vars

-----------------------------------------------------------------------------
(* sync.Once *)

\* Steps outside the body of Do.
LEMMA OnceKept ==
  ASSUME OnceInv, UNCHANGED <<once, chDone>>,
         \A a \in Actors : pc'[a] \in {"close", "unsub"} <=> pc[a] \in {"close", "unsub"},
         \A a \in Actors : pc[a] \in {"close", "unsub"} => tgt'[a] = tgt[a]
  PROVE  OnceInv'
<1>1. ASSUME NEW w \in Ws PROVE Closers(w)' = Closers(w) BY DEF Closers
<1> QED BY <1>1 DEF OnceInv

\* The body of Do ends.
LEMMA OnceEnds ==
  ASSUME TypeOK, OnceInv, NEW a \in Actors, NEW w \in Ws, a \in Closers(w),
         chDone' = [chDone EXCEPT ![w] = TRUE], once' = [once EXCEPT ![w] = "done"],
         pc'[a] \notin {"close", "unsub"},
         \A b \in Actors : b # a => pc'[b] = pc[b] /\ tgt'[b] = tgt[b]
  PROVE  OnceInv'
<1>1. Closers(w)' = {} BY DEF OnceInv, Closers
<1>2. ASSUME NEW v \in Ws, v # w PROVE Closers(v)' = Closers(v)
  BY <1>2 DEF OnceInv, Closers
<1>3. chDone'[w] = TRUE /\ once'[w] = "done" BY DEF TypeOK
<1>4. \A v \in Ws : v # w => chDone'[v] = chDone[v] /\ once'[v] = once[v] BY DEF TypeOK
<1> QED BY <1>1, <1>2, <1>3, <1>4 DEF OnceInv

LEMMA OnceStop ==
  ASSUME TypeOK, Places, OnceInv, NEW a \in Actors, StopStep(a)
  PROVE  OnceInv'
<1>0. PICK w : w = tgt[a] OBVIOUS
<1>1. w \in Ws BY <1>0 DEF StopStep, StopEnter, StopAgain, StopClose, StopUnsub, Places, Stopping
<1>2. After(a) \notin {"close", "unsub"} BY DEF After
<1>3. CASE StopEnter(a)
  <2>1. /\ pc'[a] = "close" /\ tgt' = tgt /\ chDone' = chDone
        /\ \A b \in Actors : b # a => pc'[b] = pc[b]
        /\ once[w] = "new" /\ once'[w] = "running"
        /\ \A v \in Ws : v # w => once'[v] = once[v]
    BY <1>0, <1>1, <1>3 DEF StopEnter, TypeOK
  <2>2. Closers(w) = {} BY <1>1, <2>1 DEF OnceInv
  <2>3. Closers(w)' = {a} BY <1>0, <2>1, <2>2 DEF Closers
  <2>4. ASSUME NEW v \in Ws, v # w PROVE Closers(v)' = Closers(v)
    BY <1>0, <2>1, <2>4 DEF Closers
  <2> QED BY <1>1, <2>1, <2>3, <2>4 DEF OnceInv
<1>4. CASE StopAgain(a)
  BY <1>2, <1>4, OnceKept DEF StopAgain, StopReturns, chanVars, TypeOK
<1>5. CASE StopClose(a) /\ onStop[w]
  <2>1. /\ pc'[a] = "unsub" /\ pc[a] = "close" /\ UNCHANGED <<tgt, once, chDone>>
        /\ \A b \in Actors : b # a => pc'[b] = pc[b]
    BY <1>0, <1>5 DEF StopClose, TypeOK
  <2> QED BY <2>1, OnceKept
<1>6. CASE (StopClose(a) /\ ~onStop[w]) \/ StopUnsub(a)
  <2>1. /\ a \in Closers(w)
        /\ chDone' = [chDone EXCEPT ![w] = TRUE] /\ once' = [once EXCEPT ![w] = "done"]
        /\ StopReturns(a)
    BY <1>0, <1>6 DEF StopClose, StopUnsub, Closers
  <2>2. /\ pc'[a] \notin {"close", "unsub"}
        /\ \A b \in Actors : b # a => pc'[b] = pc[b] /\ tgt'[b] = tgt[b]
    BY <1>2, <2>1 DEF StopReturns, TypeOK
  <2> QED BY <1>1, <2>1, <2>2, OnceEnds
<1> QED BY <1>3, <1>4, <1>5, <1>6 DEF StopStep

LEMMA OnceStep ==
  ASSUME TypeOK, Places, OnceInv, [Next]_vars
  PROVE  OnceInv'
<1> USE ActorsDiffer, OnceKept DEF TypeOK, history, chanVars
<1>1. ASSUME NEW p \in Pubs, PublishCall(p) \/ PublishLock(p) \/ PublishUnlock(p)
      PROVE  OnceInv'
  BY <1>1 DEF PublishCall, PublishLock, PublishUnlock
<1>2. ASSUME NEW p \in Pubs, NEW w \in Ws,
             PublishTo(p, w) \/ PublishOverflows(p, w) \/ PublishPanics(p, w)
      PROVE  OnceInv'
  BY <1>2 DEF PublishTo, PublishOverflows, PublishPanics, CallStop, DeliverSend, DeliverSkip
<1>3. ASSUME NEW w \in Ws,
             WatchNew(w) \/ WatchLock(w) \/ WatchDeliver(w) \/ WatchPanics(w)
               \/ WatchSubscribe(w) \/ WatchExpires(w) \/ ExpirePanics(w) \/ Serve(w)
               \/ CtxStopped(w)
      PROVE  OnceInv'
  BY <1>3 DEF WatchNew, WatchLock, WatchDeliver, WatchPanics, WatchSubscribe, WatchExpires,
              ExpirePanics, Serve, CtxStopped, DeliverSend, DeliverSkip, Places,
              Stopping
<1>4. ASSUME NEW w \in Ws,
             WatchOverflows(w) \/ ExpireSend(w) \/ ServeEnds(w) \/ ClientLeaves(w)
               \/ CtxCancelled(w)
      PROVE  OnceInv'
  BY <1>4 DEF WatchOverflows, ExpireSend, ServeEnds, ClientLeaves, CtxCancelled, CallStop
<1>5. CASE UNCHANGED vars BY <1>5 DEF vars
<1> HIDE DEF TypeOK, history, chanVars
<1> QED BY <1>1, <1>2, <1>3, <1>4, <1>5, OnceStop DEF Next, PubStep, WatchStep

-----------------------------------------------------------------------------
(* Subscribers *)

LEMMA SubsStep ==
  ASSUME TypeOK, SubsInv, [Next]_vars
  PROVE  SubsInv'
<1> USE DEF TypeOK, SubsInv
<1>1. ASSUME NEW w \in Ws, WatchSubscribe(w) PROVE SubsInv'
  BY <1>1 DEF WatchSubscribe
<1>2. ASSUME NEW a \in Actors, StopUnsub(a) PROVE SubsInv'
  BY <1>2 DEF StopUnsub
<1>3. ASSUME UNCHANGED <<subs, onStop>> PROVE SubsInv'
  BY <1>3
<1> HIDE DEF TypeOK, SubsInv
<1>4. ASSUME NEW p \in Pubs, PublishCall(p) \/ PubStep(p) PROVE UNCHANGED <<subs, onStop>>
  BY <1>4 DEF PublishCall, PubStep, PublishLock, PublishTo, PublishOverflows, PublishPanics,
              PublishUnlock, DeliverSend, DeliverSkip, chanVars
<1>5. ASSUME NEW w \in Ws,
             \/ WatchNew(w) \/ WatchStep(w) \/ Serve(w) \/ ClientLeaves(w)
             \/ CtxCancelled(w) \/ CtxStopped(w)
      PROVE  WatchSubscribe(w) \/ UNCHANGED <<subs, onStop>>
  BY <1>5 DEF WatchNew, WatchStep, Serve, ClientLeaves, CtxCancelled, CtxStopped, WatchLock,
              WatchDeliver, WatchOverflows, WatchPanics, WatchExpires, ExpireSend, ExpirePanics,
              ServeEnds, DeliverSend, DeliverSkip, chanVars
<1>6. ASSUME NEW a \in Actors, StopStep(a) PROVE StopUnsub(a) \/ UNCHANGED <<subs, onStop>>
  BY <1>6 DEF StopStep, StopEnter, StopAgain, StopClose, chanVars
<1>7. CASE UNCHANGED vars BY <1>3, <1>7 DEF vars
<1> QED BY <1>1, <1>2, <1>3, <1>4, <1>5, <1>6, <1>7 DEF Next

-----------------------------------------------------------------------------
(* While there is room *)

LEMMA RoomPublish ==
  ASSUME WInv, Roomy, Roomy', NEW p \in Pubs, PublishCall(p) \/ PubStep(p)
  PROVE  RoomInv'
<1> USE ActorsDiffer DEF WInv, TypeOK, RoomInv, RoomOpen, RoomPubs, RoomMutex, RoomNew,
        Delivering, Stopping, history, chanVars
<1>1. CASE PublishCall(p) BY <1>1 DEF PublishCall
<1>2. CASE PublishLock(p) BY <1>2 DEF PublishLock
<1>3. ASSUME NEW w \in Ws, PublishTo(p, w) PROVE RoomInv'
  BY <1>3 DEF PublishTo, DeliverSend, DeliverSkip
<1>4. ASSUME NEW w \in Ws, PublishOverflows(p, w) PROVE RoomInv'
  BY <1>4 DEF PublishOverflows, DeliverOverflows, Roomy
<1>5. ASSUME NEW w \in Ws, PublishPanics(p, w) PROVE RoomInv'
  BY <1>5 DEF PublishPanics, DeliverPanics
<1>6. CASE PublishUnlock(p) BY <1>6 DEF PublishUnlock
<1> QED BY <1>1, <1>2, <1>3, <1>4, <1>5, <1>6 DEF PubStep

LEMMA RoomWatch ==
  ASSUME WInv, Roomy, Roomy', NEW w \in Ws,
         \/ WatchNew(w) \/ WatchStep(w) \/ Serve(w) \/ ClientLeaves(w)
         \/ CtxCancelled(w) \/ CtxStopped(w)
  PROVE  RoomInv'
<1> USE ActorsDiffer DEF WInv, TypeOK, RoomInv, RoomOpen, RoomPubs, RoomMutex, RoomNew,
        Delivering, Stopping, history, chanVars
<1>1. CASE WatchNew(w)
  <2>1. pc[CtxWait(w)] # "init" /\ mu # Handler(w) BY <1>1 DEF WatchNew, Places
  <2> QED BY <1>1, <2>1 DEF WatchNew, Handlers
<1>2. CASE WatchLock(w) BY <1>2 DEF WatchLock, Handlers
<1>3. CASE WatchDeliver(w) BY <1>3 DEF WatchDeliver, DeliverSend, DeliverSkip
<1>4. CASE WatchOverflows(w) BY <1>4 DEF WatchOverflows, DeliverOverflows, Roomy
<1>5. CASE WatchPanics(w) BY <1>5 DEF WatchPanics, DeliverPanics, OnceInv
<1>6. CASE WatchSubscribe(w) BY <1>6 DEF WatchSubscribe, OnceInv
<1>7. CASE WatchExpires(w) BY <1>7 DEF WatchExpires
<1>8. CASE ExpireSend(w) BY <1>8 DEF ExpireSend, CallStop
<1>9. CASE ExpirePanics(w) BY <1>9 DEF ExpirePanics, DeliverPanics, OnceInv
<1>10. CASE Serve(w) BY <1>10 DEF Serve
<1>11. CASE ServeEnds(w) \/ ClientLeaves(w) BY <1>11 DEF ServeEnds, ClientLeaves, CallStop
<1>12. CASE CtxCancelled(w)
  <2>1. ~(pc[Handler(w)] \in {"lock", "init", "expire"})
    BY <1>12, Zenon DEF CtxCancelled, Roomy
  <2>2. pc[Handler(w)] # "idle" BY <1>12 DEF CtxCancelled, Places
  <2>3. RoomOpen' BY <1>12 DEF CtxCancelled
  <2>4. RoomPubs' BY <1>12 DEF CtxCancelled, CallStop
  <2>5. RoomMutex' BY <1>12 DEF CtxCancelled, CallStop
  <2>6. RoomNew' BY <1>12, <2>1, <2>2 DEF CtxCancelled, CallStop
  <2> QED BY <2>3, <2>4, <2>5, <2>6
<1>13. CASE CtxStopped(w) BY <1>13 DEF CtxStopped
<1> QED BY <1>1, <1>2, <1>3, <1>4, <1>5, <1>6, <1>7, <1>8, <1>9, <1>10, <1>11, <1>12, <1>13
        DEF WatchStep

LEMMA RoomStop ==
  ASSUME WInv, Roomy, Roomy', NEW a \in Actors, StopStep(a)
  PROVE  RoomInv'
<1> USE ActorsDiffer DEF WInv, TypeOK, RoomInv, RoomOpen, RoomPubs, RoomMutex, RoomNew,
        Delivering, Stopping, history, chanVars
<1>1. /\ a \notin Pubs
      /\ \A w \in Ws : a = Handler(w) => mu # a
      /\ tgt[a] \in Ws
  BY DEF StopStep, StopEnter, StopAgain, StopClose, StopUnsub, Places
<1>2. After(a) = "done" BY <1>1 DEF After, Handlers
<1>3. CASE StopEnter(a) BY <1>1, <1>3 DEF StopEnter
<1>4. CASE StopAgain(a) BY <1>1, <1>2, <1>4 DEF StopAgain, StopReturns
<1>5. CASE StopClose(a)
  <2> USE <1>1, <1>2, <1>5 DEF StopClose, StopReturns
  <2>1. RoomOpen' BY DEF SubsInv
  <2>2. RoomPubs' OBVIOUS
  <2>3. RoomMutex' OBVIOUS
  <2>4. RoomNew' OBVIOUS
  <2> QED BY <2>1, <2>2, <2>3, <2>4
<1>6. CASE StopUnsub(a)
  <2> USE <1>1, <1>2, <1>6 DEF StopUnsub, StopReturns
  <2>1. RoomOpen' OBVIOUS
  <2>2. RoomPubs'
    <3>1. \A p \in Pubs : pc'[p] = pc[p] /\ pc[p] # "publish" OBVIOUS
    <3> QED BY <3>1
  <2>3. RoomMutex' OBVIOUS
  <2>4. RoomNew' OBVIOUS
  <2> QED BY <2>1, <2>2, <2>3, <2>4
<1> QED BY <1>3, <1>4, <1>5, <1>6 DEF StopStep

\* The history is only added to.
LEMMA RoomyBefore ==
  ASSUME Roomy', [Next]_vars
  PROVE  Roomy
<1> USE DEF Roomy, history
<1>1. ASSUME NEW p \in Pubs, PublishCall(p) \/ PubStep(p) PROVE Roomy
  BY <1>1 DEF PublishCall, PubStep, PublishLock, PublishTo, PublishOverflows, PublishPanics,
              PublishUnlock, DeliverOverflows
<1>2. ASSUME NEW w \in Ws,
             WatchNew(w) \/ WatchStep(w) \/ Serve(w) \/ ClientLeaves(w) \/ CtxStopped(w)
      PROVE  Roomy
  BY <1>2 DEF WatchNew, WatchStep, Serve, ClientLeaves, CtxStopped, WatchLock, WatchDeliver,
              WatchOverflows, WatchPanics, WatchSubscribe, WatchExpires, ExpireSend,
              ExpirePanics, ServeEnds, DeliverOverflows
<1>3. ASSUME NEW w \in Ws, CtxCancelled(w) PROVE Roomy
  BY <1>3, Zenon DEF CtxCancelled
<1>4. ASSUME NEW a \in Actors, StopStep(a) PROVE Roomy
  BY <1>4 DEF StopStep, StopEnter, StopAgain, StopClose, StopUnsub
<1>5. CASE UNCHANGED vars BY <1>5 DEF vars
<1> QED BY <1>1, <1>2, <1>3, <1>4, <1>5 DEF Next

LEMMA WStep ==
  ASSUME WInv, [Next]_vars
  PROVE  WInv'
<1>1. TypeOK' /\ Places' /\ OnceInv' /\ SubsInv'
  BY TypesStep, PlacesStep, OnceStep, SubsStep DEF WInv
<1>2. ASSUME Roomy' PROVE RoomInv'
  <2>1. Roomy
    BY <1>2, RoomyBefore
  <2>2. CASE UNCHANGED vars
    BY <2>1, <2>2 DEF vars, WInv, RoomInv, RoomOpen, RoomPubs, RoomMutex, RoomNew, Delivering
  <2> QED BY <1>2, <2>1, <2>2, RoomPublish, RoomWatch, RoomStop DEF Next
<1> QED BY <1>1, <1>2 DEF WInv

LEMMA WAlways == Spec => []WInv
BY WInit, WStep, PTL DEF Spec

\* Every variable of the broadcaster and its watchers keeps its type; in
\* particular deliver never puts more into a channel than it holds.
THEOREM WatcherTypes == Spec => []TypeOK
<1>1. WInv => TypeOK BY DEF WInv
<1> QED BY WAlways, <1>1, PTL

\* close(stopCh) and close(ch) run once per watcher whoever calls Stop, and
\* unless a channel was full or a context ended during store.Watch, deliver
\* never meets a closed channel: for any number of watchers and publishers.
THEOREM NeverPanics == Spec => []NoPanic
<1>1. ASSUME WInv PROVE NoPanic
  <2>1. ASSUME NEW w \in Ws
        PROVE  Cardinality(Closers(w)) <= (IF chDone[w] THEN 0 ELSE 1)
    <3>1. CASE Closers(w) = {} BY <3>1, FS_EmptySet
    <3>2. CASE Closers(w) # {}
      <4>1. PICK a \in Closers(w) : TRUE BY <3>2
      <4>2. Closers(w) = {a} BY <1>1, <4>1 DEF WInv, OnceInv
      <4>3. ~chDone[w] BY <1>1, <3>2 DEF WInv, OnceInv
      <4>4. Cardinality({a}) = 1 BY FS_Singleton
      <4> QED BY <4>2, <4>3, <4>4
    <3> QED BY <3>1, <3>2
  <2>2. Roomy => ~panicked /\ \A w \in subs : ~chDone[w]
    BY <1>1 DEF WInv, RoomInv, RoomOpen
  <2> QED BY <2>1, <2>2 DEF NoPanic
<1> QED BY WAlways, <1>1, PTL

\* No cycle of waiting.  Whoever waits for the stopOnce of a watcher waits for
\* a goroutine inside Do, which waits at most for broadcaster.mu; and unless a
\* channel was full or a context ended during store.Watch, the holder of
\* broadcaster.mu is in publish or in Watch, handing out events, and waits for
\* nobody.  PublishReturnsIfRoom rests on it.
NoLockCycle ==
  /\ \A w \in Ws : once[w] = "running" => Closers(w) # {}
  /\ Roomy /\ mu # None => Delivering(mu)

\* broadcaster.mu and the stopOnce of every watcher are never waited for in a
\* circle, for any number of watchers and publishers and any capacity.
THEOREM NoCircularWait == Spec => []NoLockCycle
<1>1. WInv => NoLockCycle BY DEF WInv, OnceInv, RoomInv, RoomMutex, NoLockCycle
<1> QED BY WAlways, <1>1, PTL
=============================================================================
