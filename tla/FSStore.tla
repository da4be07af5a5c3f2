------------------------------- MODULE FSStore -------------------------------
(***************************************************************************)
(* internal/fsstorage: the file-backed store and its resourceVersion       *)
(* counter, at the granularity of its locks.                               *)
(*                                                                         *)
(* A mutating request (Create, Delete, GuaranteedUpdate) runs in its own   *)
(* goroutine and goes through these steps, between any two of which other  *)
(* goroutines run and the process may die:                                 *)
(*                                                                         *)
(*   Call         the request arrives and asks for its key mutex           *)
(*   Lock         mu := keyMu(path); mu.Lock()                             *)
(*   Reject/Admit read the file, preconditions, tryUpdate, early returns;  *)
(*                Delete removes the file here, BEFORE it has a new rv     *)
(*   Bump         Counter.Next takes Counter.mu and increments in memory   *)
(*   Persist      ... writes <root>/.rv and releases Counter.mu            *)
(*   Write        atomicWrite: temporary file and rename                   *)
(*   Publish      broadcaster.publish, then the deferred mu.Unlock()       *)
(*                                                                         *)
(* An object is abstracted to its resourceVersion, its UID (the API layer  *)
(* supplies a UUID; the rv of the creation stands for it, being as unique) *)
(* and the number of updates applied to it since its creation, which is    *)
(* what tells a lost update from a serialised one.                         *)
(***************************************************************************)
EXTENDS Integers, Sequences, FiniteSets

CONSTANTS
  Keys,      \* objects of the resource, one file each
  Procs,     \* goroutines serving requests
  None,      \* absent object, free lock, no request
  Cap,       \* broadcaster.capacity, the length of the ring
  MaxRV,     \* bound: no request starts that could take rv past it
  MaxFaults  \* bound: I/O errors and process crashes, together

ASSUME ConstantsAssumption ==
  /\ Cap \in Nat \ {0}
  /\ MaxRV \in Nat
  /\ MaxFaults \in Nat
  /\ None \notin Procs

VARIABLES
  rv,      \* Counter.rv
  rvFile,  \* contents of <root>/.rv, 0 when the file does not exist
  cmu,     \* holder of Counter.mu
  file,    \* the object stored under every key
  lock,    \* holder of every key's mutex
  pc,      \* where the goroutine stands
  req,     \* its request and locals
  got,     \* resourceVersion its client last read, 0 for none
  ring,    \* broadcaster.ring
  log,     \* history: per key, every event ever published
  dropped, \* history: the key's file changed and no event was published
  faults   \* faults so far

counterVars == <<rv, rvFile, cmu>>
vars == <<rv, rvFile, cmu, file, lock, pc, req, got, ring, log, dropped, faults>>

Obj == [rv : Nat, uid : Nat, gen : Nat]
Ops == {"create", "update", "upsert", "delete"}
Req == [op : Ops, key : Keys, pre : Nat, cur : Obj \cup {None}, rv : Nat]
Event == [type : {"ADDED", "MODIFIED", "DELETED"}, key : Keys, obj : Obj]

-----------------------------------------------------------------------------
\* Mutant: no default of 1 for a missing .rv file.
MutLoadZero(f) == f

\* Counter.load: a missing file, and any value below 1, reads as 1.
Load(f) == IF f < 1 THEN 1 ELSE f

Init ==
  /\ rvFile = 0
  /\ rv = Load(rvFile)
  /\ cmu = None
  /\ file = [k \in Keys |-> None]
  /\ lock = [k \in Keys |-> None]
  /\ pc = [p \in Procs |-> "idle"]
  /\ req = [p \in Procs |-> None]
  /\ got = [p \in Procs |-> 0]
  /\ ring = << >>
  /\ log = [k \in Keys |-> << >>]
  /\ dropped = [k \in Keys |-> FALSE]
  /\ faults = 0

\* The deferred mu.Unlock() and the return to the caller.
Return(p) ==
  /\ lock' = [lock EXCEPT ![req[p].key] = None]
  /\ pc' = [pc EXCEPT ![p] = "idle"]
  /\ req' = [req EXCEPT ![p] = None]

Fail ==
  /\ faults < MaxFaults
  /\ faults' = faults + 1

-----------------------------------------------------------------------------
(* Requests *)

\* store.Get reads the file without any lock; the client keeps the rv.
Get(p, k) ==
  /\ pc[p] = "idle"
  /\ got' = [got EXCEPT ![p] = IF file[k] = None THEN 0 ELSE file[k].rv]
  /\ UNCHANGED <<counterVars, file, lock, pc, req, ring, log, dropped, faults>>

Active == {p \in Procs : pc[p] # "idle"}

\* A request arrives, with or without an expected resourceVersion from an
\* earlier read, and asks for the mutex of its key.
Call(p, k, o, pre) ==
  /\ pc[p] = "idle"
  /\ rv + Cardinality(Active) < MaxRV
  /\ o = "create" => pre = 0
  /\ pc' = [pc EXCEPT ![p] = "lock"]
  /\ req' = [req EXCEPT ![p] =
               [op |-> o, key |-> k, pre |-> pre, cur |-> None, rv |-> 0]]
  /\ got' = [got EXCEPT ![p] = 0]
  /\ UNCHANGED <<counterVars, file, lock, ring, log, dropped, faults>>

\* Mutant: the key mutex does not exclude.
MutLockNoMutex(p) ==
  /\ pc[p] = "lock"
  /\ lock' = [lock EXCEPT ![req[p].key] = p]
  /\ pc' = [pc EXCEPT ![p] = "read"]
  /\ UNCHANGED <<counterVars, file, req, got, ring, log, dropped, faults>>

\* mu.Lock() waits for whoever holds the key.
Lock(p) ==
  /\ pc[p] = "lock"
  /\ lock[req[p].key] = None
  /\ lock' = [lock EXCEPT ![req[p].key] = p]
  /\ pc' = [pc EXCEPT ![p] = "read"]
  /\ UNCHANGED <<counterVars, file, req, got, ring, log, dropped, faults>>

\* Mutant: preconditions.Check is forgotten.
MutNoPrecondition(r) ==
  /\ r.op = "create" => file[r.key] = None
  /\ r.op \in {"update", "delete"} => file[r.key] # None

\* Create wants no file; Delete and GuaranteedUpdate want one (unless
\* ignoreNotFound) and check the preconditions against it.
MayProceed(r) ==
  /\ r.op = "create" => file[r.key] = None
  /\ r.op \in {"update", "delete"} => file[r.key] # None
  /\ file[r.key] # None /\ r.pre # 0 => file[r.key].rv = r.pre

\* Mutant: an early return forgets the key mutex.
MutRejectHolds(p) ==
  /\ pc[p] = "read"
  /\ MayProceed(req[p]) => req[p].op # "create"
  /\ pc' = [pc EXCEPT ![p] = "idle"]
  /\ req' = [req EXCEPT ![p] = None]
  /\ UNCHANGED <<counterVars, file, lock, got, ring, log, dropped, faults>>

\* Early returns.  An update or a delete that could proceed may still be
\* refused by tryUpdate or validateDeletion, or change nothing (bytesEqual).
Reject(p) ==
  /\ pc[p] = "read"
  /\ MayProceed(req[p]) => req[p].op # "create"
  /\ Return(p)
  /\ UNCHANGED <<counterVars, file, got, ring, log, dropped, faults>>

\* Create and GuaranteedUpdate keep what they read in a local.
AdmitWrite(p) ==
  /\ pc[p] = "read"
  /\ req[p].op # "delete"
  /\ MayProceed(req[p])
  /\ req' = [req EXCEPT ![p].cur = file[req[p].key]]
  /\ pc' = [pc EXCEPT ![p] = "next"]
  /\ UNCHANGED <<counterVars, file, lock, got, ring, log, dropped, faults>>

\* Delete reads, checks, and removes the file at once.
AdmitDelete(p) ==
  /\ pc[p] = "read"
  /\ req[p].op = "delete"
  /\ MayProceed(req[p])
  /\ req' = [req EXCEPT ![p].cur = file[req[p].key]]
  /\ file' = [file EXCEPT ![req[p].key] = None]
  /\ pc' = [pc EXCEPT ![p] = "next"]
  /\ UNCHANGED <<counterVars, lock, got, ring, log, dropped, faults>>

-----------------------------------------------------------------------------
(* Counter.Next *)

\* Mutant: Counter.Next without its mutex.
MutBumpNoMutex(p) ==
  /\ pc[p] = "next"
  /\ rv' = rv + 1
  /\ pc' = [pc EXCEPT ![p] = "persist"]
  /\ UNCHANGED <<rvFile, cmu, file, lock, req, got, ring, log, dropped, faults>>

\* c.mu.Lock(); c.rv++
Bump(p) ==
  /\ pc[p] = "next"
  /\ cmu = None
  /\ cmu' = p
  /\ rv' = rv + 1
  /\ pc' = [pc EXCEPT ![p] = "persist"]
  /\ UNCHANGED <<rvFile, file, lock, req, got, ring, log, dropped, faults>>

\* Mutant: the new value stays in memory.
MutPersistNothing(p) ==
  /\ pc[p] = "persist"
  /\ cmu' = None
  /\ req' = [req EXCEPT ![p].rv = rv]
  /\ pc' = [pc EXCEPT ![p] =
              IF req[p].op = "delete" THEN "publish" ELSE "write"]
  /\ UNCHANGED <<rv, rvFile, file, lock, got, ring, log, dropped, faults>>

\* persist(c.rv) succeeds: the value is on disk before the caller sees it.
Persist(p) ==
  /\ pc[p] = "persist"
  /\ rvFile' = rv
  /\ cmu' = None
  /\ req' = [req EXCEPT ![p].rv = rv]
  /\ pc' = [pc EXCEPT ![p] =
              IF req[p].op = "delete" THEN "publish" ELSE "write"]
  /\ UNCHANGED <<rv, file, lock, got, ring, log, dropped, faults>>

\* persist fails: c.rv-- and the request fails.  A Delete has removed the
\* file by now and returns without an event.
PersistFail(p) ==
  /\ pc[p] = "persist"
  /\ Fail
  /\ rv' = rv - 1
  /\ cmu' = None
  /\ dropped' = [dropped EXCEPT ![req[p].key] = @ \/ req[p].op = "delete"]
  /\ Return(p)
  /\ UNCHANGED <<rvFile, file, got, ring, log>>

-----------------------------------------------------------------------------
(* atomicWrite and publish *)

\* The object a write stores: UpdateObject(rv), the UID kept or generated.
NewObj(r) ==
  IF r.cur = None
  THEN [rv |-> r.rv, uid |-> r.rv, gen |-> 0]
  ELSE [rv |-> r.rv, uid |-> r.cur.uid, gen |-> r.cur.gen + 1]

Write(p) ==
  /\ pc[p] = "write"
  /\ file' = [file EXCEPT ![req[p].key] = NewObj(req[p])]
  /\ pc' = [pc EXCEPT ![p] = "publish"]
  /\ UNCHANGED <<counterVars, lock, req, got, ring, log, dropped, faults>>

\* Mutant: the file is written in place, so an error comes after the change.
MutWriteInPlace(p) ==
  /\ pc[p] = "write"
  /\ Fail
  /\ file' = [file EXCEPT ![req[p].key] = NewObj(req[p])]
  /\ Return(p)
  /\ UNCHANGED <<counterVars, got, ring, log, dropped>>

\* atomicWrite fails before the rename: the old file stays.
WriteFail(p) ==
  /\ pc[p] = "write"
  /\ Fail
  /\ Return(p)
  /\ UNCHANGED <<counterVars, file, got, ring, log, dropped>>

\* The event of a completed request; a Deleted event carries the last object
\* stamped with the rv of the deletion.
EventOf(r) ==
  IF r.op = "delete"
  THEN [type |-> "DELETED", key |-> r.key, obj |-> [r.cur EXCEPT !.rv = r.rv]]
  ELSE [type |-> IF r.cur = None THEN "ADDED" ELSE "MODIFIED",
        key |-> r.key, obj |-> NewObj(r)]

\* broadcaster.publish keeps the last Cap events.
PushRing(s, e) ==
  LET t == Append(s, e)
  IN  IF Len(t) > Cap THEN SubSeq(t, Len(t) - Cap + 1, Len(t)) ELSE t

\* The event goes into the ring and to the subscribers.
Announce(p) ==
  LET e == EventOf(req[p])
  IN  /\ ring' = PushRing(ring, e)
      /\ log' = [log EXCEPT ![e.key] = Append(@, e)]
      /\ dropped' = [dropped EXCEPT ![e.key] = FALSE]

\* A publisher that waits for broadcaster.mu while it holds it.
Hung == \E p \in Procs : pc[p] = "hung"

\* publish gets broadcaster.mu and finds room in every subscriber's channel.
Publish(p) ==
  /\ pc[p] = "publish"
  /\ ~Hung
  /\ Announce(p)
  /\ Return(p)
  /\ UNCHANGED <<counterVars, file, got, faults>>

\* publish meets a full channel: deliver calls Stop, whose onStop asks for
\* broadcaster.mu, which this goroutine holds already (Watcher has the steps).
\* The key mutex stays taken as well, until the process dies.
PublishHangs(p) ==
  /\ pc[p] = "publish"
  /\ ~Hung
  /\ Announce(p)
  /\ pc' = [pc EXCEPT ![p] = "hung"]
  /\ UNCHANGED <<counterVars, file, lock, req, got, faults>>

-----------------------------------------------------------------------------
(* The process dies and starts again on the same directory *)

\* The request has changed its file and has not announced it.
Unannounced(p) ==
  \/ pc[p] = "publish"
  \/ pc[p] \in {"next", "persist"} /\ req[p].op = "delete"

Crash ==
  /\ Fail
  /\ rv' = Load(rvFile)
  /\ cmu' = None
  /\ lock' = [k \in Keys |-> None]
  /\ pc' = [p \in Procs |-> "idle"]
  /\ req' = [p \in Procs |-> None]
  /\ ring' = << >>
  /\ dropped' = [k \in Keys |->
       dropped[k] \/ \E p \in Procs : Unannounced(p) /\ req[p].key = k]
  /\ UNCHANGED <<rvFile, file, got, log>>

-----------------------------------------------------------------------------
\* Every step of a goroutine but its publish.
LocalStep(p) ==
  \/ \E k \in Keys : Get(p, k)
  \/ \E k \in Keys, o \in Ops, pre \in {0, got[p]} : Call(p, k, o, pre)
  \/ Lock(p)
  \/ Reject(p)
  \/ AdmitWrite(p)
  \/ AdmitDelete(p)
  \/ Bump(p)
  \/ Persist(p)
  \/ PersistFail(p)
  \/ Write(p)
  \/ WriteFail(p)

Next ==
  \/ \E p \in Procs : LocalStep(p) \/ Publish(p) \/ PublishHangs(p)
  \/ Crash

Spec == Init /\ [][Next]_vars

\* A goroutine that is running keeps running, and sync.Mutex does not starve
\* a waiter of a key's mutex or of Counter.mu.  Nobody has to send a request
\* and no fault has to happen.
Serve(p) ==
  Lock(p) \/ Reject(p) \/ AdmitWrite(p) \/ AdmitDelete(p) \/ Bump(p) \/ Persist(p)
    \/ Write(p) \/ Publish(p)

Fairness == \A p \in Procs :
  WF_vars(Serve(p)) /\ SF_vars(Lock(p)) /\ SF_vars(Bump(p))
FairSpec == Spec /\ Fairness

-----------------------------------------------------------------------------
(* Properties *)

\* Every variable has its type; the counter is never 0, which a client reads
\* as "no particular version".
TypeOK ==
  /\ rv \in Nat \ {0} /\ rvFile \in Nat /\ faults \in Nat
  /\ cmu \in Procs \cup {None}
  /\ file \in [Keys -> Obj \cup {None}]
  /\ lock \in [Keys -> Procs \cup {None}]
  /\ pc \in [Procs -> {"idle", "lock", "read", "next", "persist", "write",
                    "publish", "hung"}]
  /\ req \in [Procs -> Req \cup {None}]
  /\ got \in [Procs -> Nat]
  /\ ring \in Seq(Event)
  /\ log \in [Keys -> Seq(Event)]
  /\ dropped \in [Keys -> BOOLEAN]

\* Watchers of one object see its changes in resourceVersion order: the key
\* mutex is held from nextRV to publish, and restarts do not set rv back.
KeyEventsOrdered ==
  \A k \in Keys : \A i, j \in DOMAIN log[k] :
    i < j => log[k][i].obj.rv < log[k][j].obj.rv

\* r is the version of the file of k or of an event about k.
Carries(k, r) ==
  \/ file[k] # None /\ file[k].rv = r
  \/ \E i \in DOMAIN log[k] : log[k][i].obj.rv = r

\* A resourceVersion names one change: no two objects, stored or announced,
\* before or after a restart, carry the same one (Counter.Next persists
\* before it returns).
RVUnique ==
  \A j, k \in Keys : \A r \in 1 .. rv :
    Carries(j, r) /\ Carries(k, r) => j = k

\* The object of k as somebody who has seen every event about k knows it.
Announced(k) ==
  IF log[k] = << >> THEN None
  ELSE LET e == log[k][Len(log[k])]
       IN  IF e.type = "DELETED" THEN None ELSE e.obj

\* Unless a Delete failed to obtain an rv or the process died at the wrong
\* moment, the events tell the truth about every key nobody is changing.
IdleKeyAnnounced ==
  \A k \in Keys : lock[k] = None /\ ~dropped[k] => Announced(k) = file[k]

\* Optimistic concurrency: a write that was sent with an expected rv replaces
\* exactly the object that had it, still, when the file is renamed.
CompareAndSwap ==
  [][\A p \in Procs :
       /\ pc[p] = "write" /\ pc'[p] = "publish"
       /\ req[p].pre # 0
       /\ file[req[p].key] # None
       => file[req[p].key].rv = req[p].pre]_vars

KV == INSTANCE KVStore WITH store <- file, top <- Load(rvFile)

\* The store is linearisable and durable: with faults, restarts and
\* concurrent requests its files behave as the atomic map of KVStore.
Implements == KV!Spec

\* Every request returns, the ones that wait for the mutex of a key included:
\* the locks are taken in the order key, counter, broadcaster and are released
\* on every path but one.  A publish that meets a full channel never returns,
\* and takes with it whoever needs its key or broadcaster.mu
\* (PublishReturns of Watcher).
RequestsReturn ==
  \A p \in Procs : pc[p] # "idle" ~> pc[p] = "idle" \/ Hung
=============================================================================
