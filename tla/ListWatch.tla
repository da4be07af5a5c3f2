------------------------------ MODULE ListWatch ------------------------------
(***************************************************************************)
(* store.GetList and store.Watch over FSStore, and the clients (informers) *)
(* that keep a copy of the objects with them.                              *)
(*                                                                         *)
(* A client follows the store in one of two ways:                          *)
(*                                                                         *)
(*   - it watches with resourceVersion 0 and SendInitialEvents: Watch      *)
(*     holds broadcaster.mu while it reads the files one by one, sends     *)
(*     them, ends them with a bookmark and subscribes;                     *)
(*   - it lists (GetList notes the counter first and then reads the files  *)
(*     one by one, with no lock at all) and watches from the listed rv;    *)
(*                                                                         *)
(* and after a lost connection it watches again from the last rv it saw.   *)
(* The channel between Watch and the client is a FIFO; here its events are *)
(* applied when they are sent (Watcher models the channel and its limits). *)
(***************************************************************************)
EXTENDS FSStore

CONSTANT Watchers  \* clients

ASSUME WatchersAssumption == None \notin Watchers

VARIABLES
  bmu,     \* holder of broadcaster.mu across several steps
  wpc,     \* where the client stands
  todo,    \* keys the list or the snapshot has still to read
  cache,   \* the client's copy of every object
  cursor,  \* last rv it saw: list, bookmark or event; 0 for none
  overtaken, \* history: keys whose events the client's cursor had passed
             \* before they were published, that a restart took away, or that
             \* a ring out of order had lost
  inOrder  \* history: every event was newer than the one published before it

wvars == <<bmu, wpc, todo, cache, cursor, overtaken, inOrder>>
allVars == <<vars, wvars>>

LWInit ==
  /\ Init
  /\ bmu = None
  /\ wpc = [w \in Watchers |-> "off"]
  /\ todo = [w \in Watchers |-> {}]
  /\ cache = [w \in Watchers |-> [k \in Keys |-> None]]
  /\ cursor = [w \in Watchers |-> 0]
  /\ overtaken = [w \in Watchers |-> {}]
  /\ inOrder = TRUE

-----------------------------------------------------------------------------
(* What a client does with an event: store.Add, Update or Delete *)
Applied(e) == IF e.type = "DELETED" THEN None ELSE e.obj

\* One file read by walkObjects.
ReadInto(w, k) ==
  /\ k \in todo[w]
  /\ cache' = [cache EXCEPT ![w][k] = file[k]]
  /\ todo' = [todo EXCEPT ![w] = @ \ {k}]

-----------------------------------------------------------------------------
(* GetList *)

\* listRV := s.currentRV(), which waits for Counter.mu.
ListStart(w) ==
  /\ wpc[w] = "off"
  /\ cursor[w] = 0
  /\ cmu = None
  /\ cursor' = [cursor EXCEPT ![w] = rv]
  /\ todo' = [todo EXCEPT ![w] = Keys]
  /\ wpc' = [wpc EXCEPT ![w] = "listing"]
  /\ overtaken' = [overtaken EXCEPT ![w] = {}]
  /\ UNCHANGED <<vars, bmu, cache, inOrder>>

ListRead(w, k) ==
  /\ wpc[w] = "listing"
  /\ ReadInto(w, k)
  /\ UNCHANGED <<vars, bmu, wpc, cursor, overtaken, inOrder>>

ListEnd(w) ==
  /\ wpc[w] = "listing"
  /\ todo[w] = {}
  /\ wpc' = [wpc EXCEPT ![w] = "off"]
  /\ UNCHANGED <<vars, bmu, todo, cache, cursor, overtaken, inOrder>>

-----------------------------------------------------------------------------
(* Watch with resourceVersion 0 *)

\* Mutant: broadcaster.mu is not held from the snapshot to the subscription.
MutSnapStartNoLock(w) ==
  /\ wpc[w] = "off"
  /\ cmu = None
  /\ cursor' = [cursor EXCEPT ![w] = rv]
  /\ todo' = [todo EXCEPT ![w] = Keys]
  /\ wpc' = [wpc EXCEPT ![w] = "snap"]
  /\ overtaken' = [overtaken EXCEPT ![w] = {}]
  /\ UNCHANGED <<vars, bmu, cache, inOrder>>

\* broadcast.mu.Lock(); currentRV := counter.Current()
SnapStart(w) ==
  /\ wpc[w] = "off"
  /\ bmu = None
  /\ cmu = None
  /\ bmu' = w
  /\ cursor' = [cursor EXCEPT ![w] = rv]
  /\ todo' = [todo EXCEPT ![w] = Keys]
  /\ wpc' = [wpc EXCEPT ![w] = "snap"]
  /\ overtaken' = [overtaken EXCEPT ![w] = {}]
  /\ UNCHANGED <<vars, cache, inOrder>>

SnapRead(w, k) ==
  /\ wpc[w] = "snap"
  /\ ReadInto(w, k)
  /\ UNCHANGED <<vars, bmu, wpc, cursor, overtaken, inOrder>>

\* Bookmark, subscribeLocked, broadcast.mu.Unlock()
Subscribe(w) ==
  /\ wpc[w] = "snap"
  /\ todo[w] = {}
  /\ bmu' = None
  /\ wpc' = [wpc EXCEPT ![w] = "live"]
  /\ UNCHANGED <<vars, todo, cache, cursor, overtaken, inOrder>>

-----------------------------------------------------------------------------
(* Watch from a resourceVersion *)

\* Mutant: the window of the ring is taken to be one event longer.
MutExpiredLate(start) == ring # << >> /\ start + 2 < ring[1].obj.rv

\* replayLocked's refusal: the oldest event of a non-empty ring is newer than
\* the first one the client lacks.
Expired(start) == ring # << >> /\ start + 1 < ring[1].obj.rv

Replayed(start) == {i \in DOMAIN ring : ring[i].obj.rv > start}

Last(S) == CHOOSE i \in S : \A j \in S : j <= i

\* The client's object after the replay: the last replayed event about k wins.
AfterReplay(w, k) ==
  LET R == {i \in Replayed(cursor[w]) : ring[i].key = k}
  IN  IF R = {} THEN cache[w][k] ELSE Applied(ring[Last(R)])

\* A client that starts to watch from its cursor finds in the ring every event
\* about k that it has not seen.
FindsAll(w, k) ==
  \A i \in DOMAIN log[k] :
    log[k][i].obj.rv > cursor[w] => \E j \in DOMAIN ring : ring[j] = log[k][i]

\* Watch under broadcaster.mu: nothing to replay when the client is as new as
\* the counter, else replay; then subscribe.
Resume(w) ==
  /\ wpc[w] = "off"
  /\ cursor[w] # 0
  /\ bmu = None
  /\ cmu = None
  /\ cursor[w] < rv => ~Expired(cursor[w])
  /\ wpc' = [wpc EXCEPT ![w] = "live"]
  /\ IF cursor[w] < rv
     THEN /\ cache' = [cache EXCEPT ![w] = [k \in Keys |-> AfterReplay(w, k)]]
          /\ cursor' = IF Replayed(cursor[w]) = {} THEN cursor
                       ELSE [cursor EXCEPT ![w] = ring[Last(Replayed(cursor[w]))].obj.rv]
     ELSE UNCHANGED <<cache, cursor>>
  /\ overtaken' = [overtaken EXCEPT ![w] =
       @ \cup {k \in Keys : ~inOrder /\ ~FindsAll(w, k)}]
  /\ UNCHANGED <<vars, bmu, todo, inOrder>>

\* "too old resource version": the client drops its copy and starts again.
Gone(w) ==
  /\ wpc[w] = "off"
  /\ cursor[w] # 0
  /\ bmu = None
  /\ cmu = None
  /\ cursor[w] < rv
  /\ Expired(cursor[w])
  /\ cursor' = [cursor EXCEPT ![w] = 0]
  /\ cache' = [cache EXCEPT ![w] = [k \in Keys |-> None]]
  /\ UNCHANGED <<vars, bmu, wpc, todo, overtaken, inOrder>>

\* The connection ends: Stop removes the subscription under broadcaster.mu.
Disconnect(w) ==
  /\ wpc[w] = "live"
  /\ bmu = None
  /\ wpc' = [wpc EXCEPT ![w] = "off"]
  /\ UNCHANGED <<vars, bmu, todo, cache, cursor, overtaken, inOrder>>

-----------------------------------------------------------------------------
(* The store's steps as the clients meet them *)

Live == {w \in Watchers : wpc[w] = "live"}

\* publish takes broadcaster.mu and delivers to every subscriber.
PublishTo(p) ==
  /\ bmu = None
  /\ Publish(p)
  /\ LET e == EventOf(req[p])
     IN  /\ cache' = [w \in Watchers |-> IF w \in Live
                        THEN [cache[w] EXCEPT ![e.key] = Applied(e)]
                        ELSE cache[w]]
         /\ cursor' = [w \in Watchers |->
                         IF w \in Live THEN e.obj.rv ELSE cursor[w]]
         /\ overtaken' = [w \in Watchers |->
              CASE w \in Live -> overtaken[w] \ {e.key}
                [] w \notin Live /\ e.obj.rv <= cursor[w] -> overtaken[w] \cup {e.key}
                [] OTHER -> overtaken[w]]
         /\ inOrder' = (/\ inOrder
                        /\ ring # << >> => ring[Len(ring)].obj.rv < e.obj.rv)
  /\ UNCHANGED <<bmu, wpc, todo>>

\* Every connection breaks; an unfinished list or snapshot is lost.
CrashAll ==
  /\ Crash
  /\ bmu' = None
  /\ wpc' = [w \in Watchers |-> "off"]
  /\ todo' = [w \in Watchers |-> {}]
  /\ overtaken' = [w \in Watchers |-> Keys]
  /\ cursor' = [w \in Watchers |->
                  IF wpc[w] \in {"listing", "snap"} THEN 0 ELSE cursor[w]]
  /\ UNCHANGED <<cache, inOrder>>

LWNext ==
  \/ \E p \in Procs : LocalStep(p) /\ UNCHANGED wvars
  \/ \E p \in Procs : PublishTo(p)
  \/ CrashAll
  \/ \E w \in Watchers :
       \/ ListStart(w)
       \/ \E k \in Keys : ListRead(w, k) \/ SnapRead(w, k)
       \/ ListEnd(w)
       \/ SnapStart(w)
       \/ Subscribe(w)
       \/ Resume(w)
       \/ Gone(w)
       \/ Disconnect(w)

LWSpec == LWInit /\ [][LWNext]_allVars

-----------------------------------------------------------------------------
(* Properties *)

Pending(k) == \E p \in Procs : Unannounced(p) /\ req[p].key = k

\* A subscribed client's copy of an object is the file, or the event that
\* makes it so is on its way.  This covers every watch from resourceVersion 0
\* (Watch holds broadcaster.mu from before the snapshot until it has
\* subscribed) and every watch from a list or a previous watch except for the
\* events its cursor had already passed or the ring had lost.
LiveSynced ==
  \A w \in Live, k \in Keys :
    k \notin overtaken[w] /\ ~dropped[k] /\ ~Pending(k) => cache[w][k] = file[k]

\* A client that resumes and is not told Gone lacks nothing, as long as events
\* have been published in the order of their versions: then the window test of
\* replayLocked is exact, and only a restart can have taken events away from a
\* client that is let through.
ReplayCompleteInOrder ==
  [][\A w \in Watchers : inOrder /\ wpc[w] = "off" /\ wpc'[w] = "live" =>
       \A k \in Keys \ overtaken[w] : FindsAll(w, k)]_allVars
=============================================================================
