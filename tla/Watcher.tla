------------------------------- MODULE Watcher -------------------------------
(***************************************************************************)
(* internal/fsstorage/watch.go: the broadcaster's mutex, the bounded       *)
(* channel of every watcher, and the ways a watcher is stopped.            *)
(*                                                                         *)
(* Goroutines: a publisher per mutating request (broadcaster.publish); per *)
(* watcher the HTTP handler that calls store.Watch and then serves the     *)
(* channel, and the goroutine newWatcher starts to wait for ctx.Done().    *)
(* Events are counted, not named: a channel is the number of events in it. *)
(***************************************************************************)
EXTENDS Integers, FiniteSets

CONSTANTS
  Pubs,        \* goroutines that publish
  Ws,          \* watchers
  None,        \* free mutex, no target
  Buf,         \* capacity of watcher.ch
  Initial,     \* bound: events of a snapshot or a replay
  MaxPub       \* bound: events published in a behaviour

Handler(w) == <<"handler", w>>
CtxWait(w) == <<"ctx", w>>
Handlers == {Handler(w) : w \in Ws}
CtxWaits == {CtxWait(w) : w \in Ws}
Actors == Pubs \cup Handlers \cup CtxWaits

\* A request that publishes is another goroutine than those of a watch.
ASSUME WatcherAssumption ==
  /\ Buf \in Nat /\ Initial \in Nat /\ MaxPub \in Nat
  /\ Pubs \cap (Handlers \cup CtxWaits) = {}
  /\ None \notin Actors \cup Ws

VARIABLES
  mu,      \* holder of broadcaster.mu
  subs,    \* broadcaster.subs
  buf,     \* events in watcher.ch
  stopCh,  \* watcher.stopCh is closed
  chDone,  \* watcher.ch is closed
  once,    \* watcher.stopOnce: "new", "running" or "done"
  onStop,  \* watcher.onStop is set
  pc,      \* where the goroutine stands
  tgt,     \* the watcher it is stopping
  todo,    \* publisher: subscribers still to serve
  left,    \* handler: initial events still to deliver
  count,   \* events published so far
  panicked, \* history: a send on a closed channel happened
  overflowed, \* history: deliver has met a full channel
  early    \* history: a context has ended while store.Watch was running

vars == <<mu, subs, buf, stopCh, chDone, once, onStop, pc, tgt, todo, left,
          count, panicked, overflowed, early>>
chanVars == <<buf, stopCh, chDone, once, onStop>>
history == <<panicked, overflowed, early>>

Init ==
  /\ mu = None
  /\ subs = {}
  /\ buf = [w \in Ws |-> 0]
  /\ stopCh = [w \in Ws |-> FALSE]
  /\ chDone = [w \in Ws |-> FALSE]
  /\ once = [w \in Ws |-> "new"]
  /\ onStop = [w \in Ws |-> FALSE]
  /\ pc = [a \in Actors |-> "idle"]
  /\ tgt = [a \in Actors |-> None]
  /\ todo = [p \in Pubs |-> {}]
  /\ left = [w \in Ws |-> 0]
  /\ count = 0
  /\ panicked = FALSE /\ overflowed = FALSE /\ early = FALSE

-----------------------------------------------------------------------------
(* watcher.deliver, executed by goroutine a, as a choice of its select *)

Sendable(w) == chDone[w] \/ buf[w] < Buf

\* Mutant: the channel is unbounded.
MutDeliverSendUnbounded(w) ==
  /\ ~chDone[w]
  /\ buf' = [buf EXCEPT ![w] = @ + 1]
  /\ UNCHANGED <<stopCh, chDone, once, onStop>>

\* case w.ch <- ev, on an open channel
DeliverSend(w) ==
  /\ ~chDone[w]
  /\ buf[w] < Buf
  /\ buf' = [buf EXCEPT ![w] = @ + 1]
  /\ UNCHANGED <<stopCh, chDone, once, onStop>>

\* case <-w.stopCh
DeliverSkip(w) ==
  /\ stopCh[w]
  /\ UNCHANGED chanVars

\* case w.ch <- ev, on a closed channel: select may pick it, and panics
DeliverPanics(w) == chDone[w] /\ panicked' = TRUE

\* default: w.Stop()
DeliverOverflows(w) == ~stopCh[w] /\ ~Sendable(w) /\ overflowed' = TRUE

-----------------------------------------------------------------------------
(* watcher.Stop: stopOnce.Do(close stopCh; onStop; close ch) *)

\* a calls Stop on w.
CallStop(a, w) ==
  /\ pc' = [pc EXCEPT ![a] = "stop"]
  /\ tgt' = [tgt EXCEPT ![a] = w]

\* Where a goroutine goes when its Stop returns: a publisher goes on with the
\* other subscribers, a handler that was delivering goes on with Watch.
After(a) ==
  IF a \in Pubs THEN "publish"
  ELSE IF a \in Handlers /\ mu = a THEN "init"
  ELSE "done"

StopReturns(a) ==
  /\ pc' = [pc EXCEPT ![a] = After(a)]
  /\ tgt' = [tgt EXCEPT ![a] = None]

\* Enter Do, which excludes others until it is over.
StopEnter(a) ==
  /\ pc[a] = "stop"
  /\ once[tgt[a]] = "new"
  /\ once' = [once EXCEPT ![tgt[a]] = "running"]
  /\ pc' = [pc EXCEPT ![a] = "close"]
  /\ UNCHANGED <<mu, subs, buf, stopCh, chDone, onStop, tgt, todo, left, count,
                 history>>

\* Do has been run by another goroutine: nothing to do.
StopAgain(a) ==
  /\ pc[a] = "stop"
  /\ once[tgt[a]] = "done"
  /\ StopReturns(a)
  /\ UNCHANGED <<mu, subs, chanVars, todo, left, count, history>>

\* close(w.stopCh), and look at onStop.
StopClose(a) ==
  LET w == tgt[a]
  IN  /\ pc[a] = "close"
      /\ stopCh' = [stopCh EXCEPT ![w] = TRUE]
      /\ IF onStop[w]
         THEN /\ pc' = [pc EXCEPT ![a] = "unsub"]
              /\ UNCHANGED <<chDone, once, tgt>>
         ELSE /\ chDone' = [chDone EXCEPT ![w] = TRUE]
              /\ once' = [once EXCEPT ![w] = "done"]
              /\ StopReturns(a)
      /\ UNCHANGED <<mu, subs, buf, onStop, todo, left, count, history>>

\* Mutant: onStop forgets delete(b.subs, w).
MutStopUnsubKeeps(a) ==
  LET w == tgt[a]
  IN  /\ pc[a] = "unsub"
      /\ mu = None
      /\ chDone' = [chDone EXCEPT ![w] = TRUE]
      /\ once' = [once EXCEPT ![w] = "done"]
      /\ StopReturns(a)
      /\ UNCHANGED <<mu, subs, buf, stopCh, onStop, todo, left, count, history>>

\* Mutant: onStop does not unlock broadcaster.mu.
MutStopUnsubHolds(a) ==
  LET w == tgt[a]
  IN  /\ pc[a] = "unsub"
      /\ mu = None
      /\ mu' = a
      /\ subs' = subs \ {w}
      /\ chDone' = [chDone EXCEPT ![w] = TRUE]
      /\ once' = [once EXCEPT ![w] = "done"]
      /\ StopReturns(a)
      /\ UNCHANGED <<buf, stopCh, onStop, todo, left, count, history>>

\* onStop takes broadcaster.mu, which is not reentrant; then close(w.ch).
StopUnsub(a) ==
  LET w == tgt[a]
  IN  /\ pc[a] = "unsub"
      /\ mu = None
      /\ subs' = subs \ {w}
      /\ chDone' = [chDone EXCEPT ![w] = TRUE]
      /\ once' = [once EXCEPT ![w] = "done"]
      /\ StopReturns(a)
      /\ UNCHANGED <<mu, buf, stopCh, onStop, todo, left, count, history>>

StopStep(a) == StopEnter(a) \/ StopAgain(a) \/ StopClose(a) \/ StopUnsub(a)

-----------------------------------------------------------------------------
(* broadcaster.publish *)

\* A request has an event to publish.
PublishCall(p) ==
  /\ pc[p] = "idle"
  /\ count < MaxPub
  /\ count' = count + 1
  /\ pc' = [pc EXCEPT ![p] = "call"]
  /\ UNCHANGED <<mu, subs, chanVars, tgt, todo, left, history>>

PublishLock(p) ==
  /\ pc[p] = "call"
  /\ mu = None
  /\ mu' = p
  /\ todo' = [todo EXCEPT ![p] = subs]
  /\ pc' = [pc EXCEPT ![p] = "publish"]
  /\ UNCHANGED <<subs, chanVars, tgt, left, count, history>>

PublishTo(p, w) ==
  /\ pc[p] = "publish"
  /\ w \in todo[p]
  /\ todo' = [todo EXCEPT ![p] = @ \ {w}]
  /\ DeliverSend(w) \/ DeliverSkip(w)
  /\ UNCHANGED <<mu, subs, pc, tgt, left, count, history>>

PublishOverflows(p, w) ==
  /\ pc[p] = "publish"
  /\ w \in todo[p]
  /\ todo' = [todo EXCEPT ![p] = @ \ {w}]
  /\ DeliverOverflows(w)
  /\ CallStop(p, w)
  /\ UNCHANGED <<mu, subs, chanVars, left, count, panicked, early>>

\* The deferred Unlock runs while the panic unwinds to the recovery filter.
PublishPanics(p, w) ==
  /\ pc[p] = "publish"
  /\ w \in todo[p]
  /\ DeliverPanics(w)
  /\ todo' = [todo EXCEPT ![p] = {}]
  /\ mu' = None
  /\ pc' = [pc EXCEPT ![p] = "idle"]
  /\ UNCHANGED <<subs, chanVars, tgt, left, count, overflowed, early>>

PublishUnlock(p) ==
  /\ pc[p] = "publish"
  /\ todo[p] = {}
  /\ mu' = None
  /\ pc' = [pc EXCEPT ![p] = "idle"]
  /\ UNCHANGED <<subs, chanVars, tgt, todo, left, count, history>>

-----------------------------------------------------------------------------
(* store.Watch and the handler that serves it *)

\* newWatcher, which starts the ctx goroutine.
WatchNew(w) ==
  /\ pc[Handler(w)] = "idle"
  /\ pc' = [pc EXCEPT ![Handler(w)] = "lock", ![CtxWait(w)] = "wait"]
  /\ UNCHANGED <<mu, subs, chanVars, tgt, todo, left, count, history>>

\* The mutex, and how many objects or events there are to send.
WatchLock(w) ==
  /\ pc[Handler(w)] = "lock"
  /\ mu = None
  /\ mu' = Handler(w)
  /\ left' \in {[left EXCEPT ![w] = n] : n \in 0 .. Initial}
  /\ pc' = [pc EXCEPT ![Handler(w)] = "init"]
  /\ UNCHANGED <<subs, chanVars, tgt, todo, count, history>>

WatchDeliver(w) ==
  /\ pc[Handler(w)] = "init"
  /\ left[w] > 0
  /\ left' = [left EXCEPT ![w] = @ - 1]
  /\ DeliverSend(w) \/ DeliverSkip(w)
  /\ UNCHANGED <<mu, subs, pc, tgt, todo, count, history>>

WatchOverflows(w) ==
  /\ pc[Handler(w)] = "init"
  /\ left[w] > 0
  /\ left' = [left EXCEPT ![w] = @ - 1]
  /\ DeliverOverflows(w)
  /\ CallStop(Handler(w), w)
  /\ UNCHANGED <<mu, subs, chanVars, todo, count, panicked, early>>

\* Unlock is not deferred in Watch: the mutex stays locked.
WatchPanics(w) ==
  /\ pc[Handler(w)] = "init"
  /\ left[w] > 0
  /\ DeliverPanics(w)
  /\ pc' = [pc EXCEPT ![Handler(w)] = "done"]
  /\ UNCHANGED <<mu, subs, chanVars, tgt, todo, left, count, overflowed,
                 early>>

\* Mutant: the subscription sets no onStop.
MutSubscribeNoOnStop(w) ==
  /\ pc[Handler(w)] = "init"
  /\ left[w] = 0
  /\ subs' = subs \cup {w}
  /\ mu' = None
  /\ pc' = [pc EXCEPT ![Handler(w)] = "serve"]
  /\ UNCHANGED <<chanVars, tgt, todo, left, count, history>>

WatchSubscribe(w) ==
  /\ pc[Handler(w)] = "init"
  /\ left[w] = 0
  /\ subs' = subs \cup {w}
  /\ onStop' = [onStop EXCEPT ![w] = TRUE]
  /\ mu' = None
  /\ pc' = [pc EXCEPT ![Handler(w)] = "serve"]
  /\ UNCHANGED <<buf, stopCh, chDone, once, tgt, todo, left, count, history>>

\* replayLocked refuses the start: unlock, and stopWithError.
WatchExpires(w) ==
  /\ pc[Handler(w)] = "lock"
  /\ mu = None
  /\ pc' = [pc EXCEPT ![Handler(w)] = "expire"]
  /\ UNCHANGED <<mu, subs, chanVars, tgt, todo, left, count, history>>

\* The error event goes in if there is room; then Stop, without onStop.  What
\* the client still reads from the closed channel does not matter here.
ExpireSend(w) ==
  /\ pc[Handler(w)] = "expire"
  /\ ~chDone[w]
  /\ buf' = [buf EXCEPT ![w] = IF @ < Buf THEN @ + 1 ELSE @]
  /\ CallStop(Handler(w), w)
  /\ UNCHANGED <<mu, subs, stopCh, chDone, once, onStop, todo, left, count,
                 history>>

\* The context ended first and its goroutine has closed the channel.
ExpirePanics(w) ==
  /\ pc[Handler(w)] = "expire"
  /\ DeliverPanics(w)
  /\ pc' = [pc EXCEPT ![Handler(w)] = "done"]
  /\ UNCHANGED <<mu, subs, chanVars, tgt, todo, left, count, overflowed,
                 early>>

\* The handler takes an event from the channel and sends it to the client.
Serve(w) ==
  /\ pc[Handler(w)] = "serve"
  /\ buf[w] > 0
  /\ buf' = [buf EXCEPT ![w] = @ - 1]
  /\ UNCHANGED <<mu, subs, stopCh, chDone, once, onStop, pc, tgt, todo, left,
                 count, history>>

\* The channel is closed and empty, or the client has gone: defer Stop().
ServeEnds(w) ==
  /\ pc[Handler(w)] = "serve"
  /\ chDone[w] /\ buf[w] = 0
  /\ CallStop(Handler(w), w)
  /\ UNCHANGED <<mu, subs, chanVars, todo, left, count, history>>

ClientLeaves(w) ==
  /\ pc[Handler(w)] = "serve"
  /\ CallStop(Handler(w), w)
  /\ UNCHANGED <<mu, subs, chanVars, todo, left, count, history>>

-----------------------------------------------------------------------------
(* The goroutine of newWatcher *)

CtxCancelled(w) ==
  /\ pc[CtxWait(w)] = "wait"
  /\ early' = (early \/ pc[Handler(w)] \in {"lock", "init", "expire"})
  /\ CallStop(CtxWait(w), w)
  /\ UNCHANGED <<mu, subs, chanVars, todo, left, count, panicked, overflowed>>

CtxStopped(w) ==
  /\ pc[CtxWait(w)] = "wait"
  /\ stopCh[w]
  /\ pc' = [pc EXCEPT ![CtxWait(w)] = "done"]
  /\ UNCHANGED <<mu, subs, chanVars, tgt, todo, left, count, history>>

-----------------------------------------------------------------------------
\* What a goroutine does on its own once it is running.
PubStep(p) ==
  \/ PublishLock(p)
  \/ \E w \in Ws : PublishTo(p, w) \/ PublishOverflows(p, w) \/ PublishPanics(p, w)
  \/ PublishUnlock(p)

WatchStep(w) ==
  \/ WatchLock(w)
  \/ WatchDeliver(w)
  \/ WatchOverflows(w)
  \/ WatchPanics(w)
  \/ WatchSubscribe(w)
  \/ WatchExpires(w)
  \/ ExpireSend(w)
  \/ ExpirePanics(w)
  \/ ServeEnds(w)

Next ==
  \/ \E p \in Pubs : PublishCall(p) \/ PubStep(p)
  \/ \E w \in Ws :
       \/ WatchNew(w)
       \/ WatchStep(w)
       \/ Serve(w)
       \/ ClientLeaves(w)
       \/ CtxCancelled(w)
       \/ CtxStopped(w)
  \/ \E a \in Actors : StopStep(a)

Spec == Init /\ [][Next]_vars

\* Goroutines run, and sync.Mutex hands broadcaster.mu to every waiter in the
\* end.  No client has to read, no context has to end.
Fairness ==
  /\ \A p \in Pubs : SF_vars(PubStep(p))
  /\ \A w \in Ws : SF_vars(WatchStep(w)) /\ WF_vars(CtxStopped(w))
  /\ \A a \in Actors : SF_vars(StopStep(a))

FairSpec == Spec /\ Fairness

-----------------------------------------------------------------------------
(* Properties *)

\* Every variable has its type; no channel holds more than its capacity.
TypeOK ==
  /\ mu \in Actors \cup {None}
  /\ subs \subseteq Ws
  /\ buf \in [Ws -> 0 .. Buf]
  /\ stopCh \in [Ws -> BOOLEAN]
  /\ chDone \in [Ws -> BOOLEAN]
  /\ once \in [Ws -> {"new", "running", "done"}]
  /\ onStop \in [Ws -> BOOLEAN]
  /\ pc \in [Actors -> {"idle", "call", "publish", "stop", "close", "unsub",
                        "lock", "init", "expire", "serve", "wait", "done"}]
  /\ tgt \in [Actors -> Ws \cup {None}]
  /\ todo \in [Pubs -> SUBSET Ws]
  /\ left \in [Ws -> 0 .. Initial]
  /\ count \in 0 .. MaxPub
  /\ panicked \in BOOLEAN /\ overflowed \in BOOLEAN /\ early \in BOOLEAN

\* Neither has a channel been full nor a context ended inside store.Watch.
Roomy == ~overflowed /\ ~early

Closers(w) == {a \in Actors : tgt[a] = w /\ pc[a] \in {"close", "unsub"}}

\* close(stopCh) and close(ch) run once per watcher (a second close panics),
\* though its handler, its ctx goroutine and every publisher may call Stop at
\* the same time; and unless a channel was full, or a context ended, while
\* store.Watch was running, no subscriber has a closed channel and nobody sends
\* on one.
NoPanic ==
  /\ \A w \in Ws : Cardinality(Closers(w)) <= (IF chDone[w] THEN 0 ELSE 1)
  /\ Roomy => ~panicked /\ \A w \in subs : ~chDone[w]

\* A request that publishes returns, whoever stops a watcher meanwhile, as
\* long as channels have room and contexts outlive store.Watch.
PublishReturnsIfRoom ==
  \A p \in Pubs : pc[p] # "idle" ~> (pc[p] = "idle" \/ ~Roomy)

\* A request that publishes returns whatever its watchers do: deliver is
\* "best-effort non-blocking; if buffer full, drop watch by stopping".
PublishReturns == \A p \in Pubs : pc[p] # "idle" ~> pc[p] = "idle"

\* A stopped watcher leaves the broadcaster and its goroutines end.
StoppedIsFreed ==
  \A w \in Ws :
    stopCh[w] ~> ((w \notin subs /\ pc[CtxWait(w)] = "done") \/ ~Roomy)
=============================================================================
