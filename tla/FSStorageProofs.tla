--------------------------- MODULE FSStorageProofs ---------------------------
(***************************************************************************)
(* Proofs about internal/fsstorage, for every set of keys, goroutines and  *)
(* clients, every ring capacity and every number of requests and faults.   *)
(* First FSStore: types, the order and the uniqueness of versions,         *)
(* compare-and-swap, and that it implements KVStore.  Then ListWatch: a    *)
(* subscribed client's copy is what the events have said, and the window   *)
(* test of replayLocked is exact while events are published in the order   *)
(* of their versions.                                                      *)
(***************************************************************************)
EXTENDS ListWatch, WellFoundedInduction, TLAPS

-----------------------------------------------------------------------------
(* The inductive invariant *)

\* A goroutine has a request exactly while it is serving one, and a Delete
\* that has removed its file remembers what was in it.
ReqInv ==
  \A p \in Procs :
    /\ pc[p] # "idle" => req[p] \in Req
    /\ pc[p] \in {"next", "persist", "publish"} /\ req[p].op = "delete"
         => req[p].cur \in Obj
    /\ pc[p] = "write" => req[p].op # "delete"

\* Key mutexes: the holder is serving a request on that key, and whoever has
\* come past mu.Lock() holds its mutex.
LockInv ==
  /\ \A p \in Procs : pc[p] \notin {"idle", "lock"} => lock[req[p].key] = p
  /\ \A k \in Keys : lock[k] # None => pc[lock[k]] \notin {"idle", "lock"} /\ req[lock[k]].key = k

\* Counter.mu: the holder is inside Counter.Next, and the counter is ahead of
\* its file only then, by one.
CounterInv ==
  /\ \A p \in Procs : pc[p] = "persist" <=> cmu = p
  /\ rv = IF cmu = None THEN Load(rvFile) ELSE Load(rvFile) + 1

CtlInv == TypeOK /\ ReqInv /\ LockInv /\ CounterInv

Places == {"idle", "lock", "read", "next", "persist", "write", "publish", "hung"}

-----------------------------------------------------------------------------
LEMMA LoadNat ==
  ASSUME NEW f \in Nat
  PROVE  Load(f) \in Nat /\ Load(f) >= 1 /\ Load(f) >= f /\ (f >= 1 => Load(f) = f)
BY DEF Load

LEMMA NewObjType ==
  ASSUME NEW r \in Req
  PROVE  NewObj(r) \in Obj /\ NewObj(r).rv = r.rv
BY DEF Req, NewObj, Obj

LEMMA EventOfType ==
  ASSUME NEW r \in Req, r.op = "delete" => r.cur \in Obj
  PROVE  /\ EventOf(r) \in Event
         /\ EventOf(r).key = r.key
         /\ EventOf(r).obj.rv = r.rv
<1>1. CASE r.op = "delete"
  BY <1>1 DEF EventOf, Event, Req, Obj
<1>2. CASE r.op # "delete"
  BY <1>2, NewObjType DEF EventOf, Event, Req
<1> QED BY <1>1, <1>2

LEMMA PushRingType ==
  ASSUME NEW s \in Seq(Event), NEW e \in Event
  PROVE  PushRing(s, e) \in Seq(Event)
<1> DEFINE t == Append(s, e)
<1>1. t \in Seq(Event) /\ Len(t) \in Nat
  OBVIOUS
<1>2. ASSUME Len(t) > Cap
      PROVE  SubSeq(t, Len(t) - Cap + 1, Len(t)) \in Seq(Event)
  <2>1. Len(t) - Cap + 1 \in 1 .. Len(t) + 1
    BY <1>1, <1>2, ConstantsAssumption
  <2>2. \A i \in (Len(t) - Cap + 1) .. Len(t) : t[i] \in Event
    BY <1>1, <2>1
  <2> QED BY <1>1, <2>1, <2>2
<1> QED BY <1>1, <1>2 DEF PushRing

-----------------------------------------------------------------------------
LEMMA CtlInit == Init => CtlInv
<1> SUFFICES ASSUME Init PROVE CtlInv
  OBVIOUS
<1> USE ConstantsAssumption DEF Init, Load
<1>1. TypeOK BY DEF TypeOK
<1>2. ReqInv BY DEF ReqInv
<1>3. LockInv BY DEF LockInv
<1>4. CounterInv BY DEF CounterInv
<1> QED BY <1>1, <1>2, <1>3, <1>4 DEF CtlInv

\* Return(p) leaves everybody else's request and mutex alone.
LEMMA CtlReturn ==
  ASSUME CtlInv, NEW p \in Procs, pc[p] \notin {"idle", "lock"}, Return(p)
  PROVE  ReqInv' /\ LockInv'
<1> USE ConstantsAssumption DEF CtlInv, TypeOK, Return
<1>1. ReqInv' BY DEF ReqInv
<1>2. LockInv'
  <2>1. lock[req[p].key] = p /\ req[p].key \in Keys
    BY DEF ReqInv, LockInv, Req
  <2>2. ASSUME NEW q \in Procs, pc'[q] \notin {"idle", "lock"} PROVE lock'[req'[q].key] = q
    <3>1. q # p /\ pc[q] \notin {"idle", "lock"} /\ req'[q] = req[q]
      BY <2>2
    <3>2. lock[req[q].key] = q /\ req[q].key \in Keys
      BY <3>1 DEF ReqInv, LockInv, Req
    <3> QED BY <2>1, <3>1, <3>2
  <2>3. ASSUME NEW k \in Keys, lock'[k] # None
        PROVE  pc'[lock'[k]] \notin {"idle", "lock"} /\ req'[lock'[k]].key = k
    <3>1. k # req[p].key /\ lock'[k] = lock[k]
      BY <2>1, <2>3
    <3>2. lock[k] \in Procs /\ pc[lock[k]] \notin {"idle", "lock"} /\ req[lock[k]].key = k
      BY <2>3, <3>1 DEF LockInv
    <3>3. lock[k] # p
      BY <3>1, <3>2
    <3> QED BY <3>1, <3>2, <3>3
  <2> QED BY <2>2, <2>3 DEF LockInv
<1> QED BY <1>1, <1>2

\* A step of p that keeps its request's key and the mutexes.
LEMMA LockKept ==
  ASSUME CtlInv, NEW p \in Procs, pc[p] \notin {"idle", "lock"},
         \A q \in Procs : q # p => pc'[q] = pc[q] /\ req'[q] = req[q],
         pc'[p] \notin {"idle", "lock"}, req'[p].key = req[p].key, UNCHANGED lock
  PROVE  LockInv'
<1>1. ASSUME NEW q \in Procs, pc'[q] \notin {"idle", "lock"} PROVE lock'[req'[q].key] = q
  <2>1. pc[q] \notin {"idle", "lock"} /\ req'[q].key = req[q].key
    BY <1>1
  <2> QED BY <2>1 DEF CtlInv, LockInv
<1>2. ASSUME NEW k \in Keys, lock'[k] # None
      PROVE  pc'[lock'[k]] \notin {"idle", "lock"} /\ req'[lock'[k]].key = k
  <2>1. lock[k] \in Procs /\ pc[lock[k]] \notin {"idle", "lock"} /\ req[lock[k]].key = k
    BY <1>2 DEF CtlInv, LockInv, TypeOK
  <2> QED BY <2>1
<1> QED BY <1>1, <1>2 DEF LockInv

-----------------------------------------------------------------------------
(* Every step preserves the control invariant *)

LEMMA CtlGet ==
  ASSUME CtlInv, NEW p \in Procs, NEW k \in Keys, Get(p, k)
  PROVE  CtlInv'
<1> USE DEF CtlInv, Get, counterVars
<1>1. (IF file[k] = None THEN 0 ELSE file[k].rv) \in Nat
  BY DEF TypeOK, Obj
<1>2. TypeOK' BY <1>1 DEF TypeOK
<1>3. ReqInv' BY DEF ReqInv
<1>4. LockInv' BY DEF LockInv
<1>5. CounterInv' BY DEF CounterInv
<1> QED BY <1>2, <1>3, <1>4, <1>5

LEMMA CtlCall ==
  ASSUME CtlInv, NEW p \in Procs, NEW k \in Keys, NEW o \in Ops,
         NEW pre \in {0, got[p]}, Call(p, k, o, pre)
  PROVE  CtlInv'
<1> USE DEF CtlInv, Call, counterVars
<1> DEFINE r == [op |-> o, key |-> k, pre |-> pre, cur |-> None, rv |-> 0]
<1>1. r \in Req
  <2>1. pre \in Nat BY DEF TypeOK
  <2> QED BY <2>1 DEF Req
<1>2. TypeOK' BY <1>1 DEF TypeOK
<1>3. /\ \A q \in Procs : q # p => pc'[q] = pc[q] /\ req'[q] = req[q]
      /\ pc'[p] = "lock" /\ req'[p] = r
  BY DEF TypeOK
<1>4. ReqInv' BY <1>1, <1>3 DEF ReqInv
<1>5. LockInv'
  <2>1. ASSUME NEW q \in Procs, pc'[q] \notin {"idle", "lock"} PROVE lock'[req'[q].key] = q
    BY <1>3, <2>1 DEF LockInv
  <2>2. ASSUME NEW j \in Keys, lock'[j] # None
        PROVE  pc'[lock'[j]] \notin {"idle", "lock"} /\ req'[lock'[j]].key = j
    <3>1. lock[j] \in Procs /\ pc[lock[j]] \notin {"idle", "lock"} /\ req[lock[j]].key = j
      BY <2>2 DEF TypeOK, LockInv
    <3>2. lock[j] # p BY <3>1
    <3> QED BY <1>3, <3>1, <3>2
  <2> QED BY <2>1, <2>2 DEF LockInv
<1>6. CounterInv' BY <1>3 DEF CounterInv
<1> QED BY <1>2, <1>4, <1>5, <1>6

LEMMA CtlLock ==
  ASSUME CtlInv, NEW p \in Procs, Lock(p)
  PROVE  CtlInv'
<1> USE DEF CtlInv, Lock, counterVars
<1> DEFINE k == req[p].key
<1>1. k \in Keys /\ lock[k] = None BY DEF ReqInv, Req
<1>2. TypeOK' BY <1>1 DEF TypeOK
<1>3. /\ \A q \in Procs : q # p => pc'[q] = pc[q]
      /\ pc'[p] = "read" /\ lock'[k] = p
      /\ \A j \in Keys : j # k => lock'[j] = lock[j]
  BY <1>1 DEF TypeOK
<1>4. ReqInv' BY <1>3 DEF ReqInv
<1>5. LockInv'
  <2>1. ASSUME NEW q \in Procs, pc'[q] \notin {"idle", "lock"} PROVE lock'[req'[q].key] = q
    <3>1. CASE q = p BY <1>3, <3>1
    <3>2. CASE q # p
      <4>1. pc[q] \notin {"idle", "lock"} BY <1>3, <2>1, <3>2
      <4>2. lock[req[q].key] = q /\ req[q].key \in Keys
        BY <4>1 DEF LockInv, ReqInv, Req
      <4>3. req[q].key # k BY <1>1, <4>2, ConstantsAssumption
      <4> QED BY <1>3, <4>2, <4>3
    <3> QED BY <3>1, <3>2
  <2>2. ASSUME NEW j \in Keys, lock'[j] # None
        PROVE  pc'[lock'[j]] \notin {"idle", "lock"} /\ req'[lock'[j]].key = j
    <3>1. CASE j = k BY <1>3, <3>1
    <3>2. CASE j # k
      <4>1. lock'[j] = lock[j] BY <1>3, <3>2
      <4>2. lock[j] \in Procs /\ pc[lock[j]] \notin {"idle", "lock"} /\ req[lock[j]].key = j
        BY <2>2, <4>1 DEF TypeOK, LockInv
      <4>3. lock[j] # p BY <4>2
      <4> QED BY <1>3, <4>1, <4>2, <4>3
    <3> QED BY <3>1, <3>2
  <2> QED BY <2>1, <2>2 DEF LockInv
<1>6. CounterInv' BY <1>3 DEF CounterInv
<1> QED BY <1>2, <1>4, <1>5, <1>6

LEMMA CtlReject ==
  ASSUME CtlInv, NEW p \in Procs, Reject(p)
  PROVE  CtlInv'
<1>1. TypeOK' BY DEF CtlInv, TypeOK, Reject, Return, counterVars
<1>2. ReqInv' /\ LockInv'
  BY CtlReturn DEF Reject
<1>3. CounterInv' BY DEF CtlInv, TypeOK, CounterInv, Reject, Return, counterVars
<1> QED BY <1>1, <1>2, <1>3 DEF CtlInv

\* What the two ways past the checks have in common.
LEMMA CtlAdmit ==
  ASSUME CtlInv, NEW p \in Procs, AdmitWrite(p) \/ AdmitDelete(p)
  PROVE  CtlInv'
<1> USE DEF CtlInv, AdmitWrite, AdmitDelete, counterVars
<1> DEFINE r == [req[p] EXCEPT !.cur = file[req[p].key]]
<1>1. /\ req[p] \in Req /\ req[p].key \in Keys
      /\ file[req[p].key] \in Obj \cup {None}
  BY DEF ReqInv, Req, TypeOK
<1>2. /\ r \in Req /\ r.key = req[p].key /\ r.op = req[p].op
      /\ r.cur = file[req[p].key]
  BY <1>1 DEF Req
<1>3. /\ req' = [req EXCEPT ![p] = r] /\ pc' = [pc EXCEPT ![p] = "next"]
      /\ pc[p] = "read" /\ UNCHANGED lock
  OBVIOUS
<1>4. TypeOK'
  <2>1. req' \in [Procs -> Req \cup {None}] BY <1>2, <1>3 DEF TypeOK
  <2>2. pc' \in [Procs -> Places]
    BY <1>3 DEF TypeOK, Places
  <2>3. file' \in [Keys -> Obj \cup {None}] BY DEF TypeOK
  <2> QED BY <2>1, <2>2, <2>3 DEF TypeOK, Places
<1>5. /\ \A q \in Procs : q # p => pc'[q] = pc[q] /\ req'[q] = req[q]
      /\ pc'[p] = "next" /\ req'[p] = r
  BY <1>3 DEF TypeOK
<1>6. r.op = "delete" => r.cur \in Obj
  BY <1>1, <1>2 DEF MayProceed
<1>7. ReqInv' BY <1>2, <1>5, <1>6 DEF ReqInv
<1>8. LockInv' BY <1>2, <1>3, <1>5, LockKept
<1>9. CounterInv' BY <1>3, <1>5 DEF CounterInv
<1> QED BY <1>4, <1>7, <1>8, <1>9

LEMMA CtlBump ==
  ASSUME CtlInv, NEW p \in Procs, Bump(p)
  PROVE  CtlInv'
<1> USE DEF CtlInv, Bump
<1>1. TypeOK' BY DEF TypeOK
<1>2. /\ \A q \in Procs : q # p => pc'[q] = pc[q]
      /\ pc'[p] = "persist"
  BY DEF TypeOK
<1>3. ReqInv' BY <1>2 DEF ReqInv
<1>4. LockInv' BY <1>2, LockKept
<1>5. CounterInv' BY <1>2, ConstantsAssumption DEF CounterInv, TypeOK
<1> QED BY <1>1, <1>3, <1>4, <1>5

LEMMA CtlPersist ==
  ASSUME CtlInv, NEW p \in Procs, Persist(p)
  PROVE  CtlInv'
<1> USE DEF CtlInv, Persist
<1> DEFINE r == [req[p] EXCEPT !.rv = rv]
<1>1. req[p] \in Req /\ rv \in Nat \ {0}
  BY DEF ReqInv, TypeOK
<1>2. r \in Req /\ r.key = req[p].key /\ r.op = req[p].op /\ r.cur = req[p].cur
  BY <1>1 DEF Req
<1>3. /\ \A q \in Procs : q # p => pc'[q] = pc[q] /\ req'[q] = req[q]
      /\ pc'[p] = IF req[p].op = "delete" THEN "publish" ELSE "write"
      /\ req'[p] = r
  BY DEF TypeOK
<1>4. TypeOK' BY <1>2 DEF TypeOK
<1>5. ReqInv' BY <1>2, <1>3 DEF ReqInv
<1>6. LockInv' BY <1>2, <1>3, LockKept
<1>7. CounterInv'
  <2>1. cmu = p BY DEF CounterInv
  <2>2. rv' = Load(rvFile') /\ cmu' = None
    BY <1>1 DEF Load
  <2>3. \A q \in Procs : pc'[q] # "persist"
    BY <1>3, <2>1 DEF CounterInv
  <2> QED BY <2>2, <2>3, ConstantsAssumption DEF CounterInv
<1> QED BY <1>4, <1>5, <1>6, <1>7

LEMMA CtlPersistFail ==
  ASSUME CtlInv, NEW p \in Procs, PersistFail(p)
  PROVE  CtlInv'
<1> USE DEF PersistFail, Return, Fail
<1>1. cmu = p /\ rv = Load(rvFile) + 1 /\ rv' = Load(rvFile)
  <2>1. cmu = p BY DEF CtlInv, CounterInv
  <2>2. Load(rvFile) \in Nat BY LoadNat DEF CtlInv, TypeOK
  <2> QED BY <2>1, <2>2, ConstantsAssumption DEF CtlInv, CounterInv
<1>2. TypeOK'
  <2>1. rv' \in Nat \ {0} BY <1>1, LoadNat DEF CtlInv, TypeOK
  <2>2. dropped' \in [Keys -> BOOLEAN] BY DEF CtlInv, TypeOK
  <2> QED BY <2>1, <2>2 DEF CtlInv, TypeOK
<1>3. ReqInv' /\ LockInv' BY CtlReturn
<1>4. CounterInv' BY <1>1, ConstantsAssumption DEF CtlInv, TypeOK, CounterInv
<1> QED BY <1>2, <1>3, <1>4 DEF CtlInv

LEMMA CtlWrite ==
  ASSUME CtlInv, NEW p \in Procs, Write(p)
  PROVE  CtlInv'
<1> USE DEF CtlInv, Write, counterVars
<1>1. NewObj(req[p]) \in Obj BY NewObjType DEF ReqInv
<1>2. TypeOK' BY <1>1 DEF TypeOK
<1>3. /\ \A q \in Procs : q # p => pc'[q] = pc[q]
      /\ pc'[p] = "publish"
  BY DEF TypeOK
<1>4. ReqInv' BY <1>3 DEF ReqInv
<1>5. LockInv' BY <1>3, LockKept
<1>6. CounterInv' BY <1>3 DEF CounterInv
<1> QED BY <1>2, <1>4, <1>5, <1>6

LEMMA CtlWriteFail ==
  ASSUME CtlInv, NEW p \in Procs, WriteFail(p)
  PROVE  CtlInv'
<1> USE DEF WriteFail, Return, Fail, counterVars
<1>1. TypeOK'
  <2>1. /\ lock' \in [Keys -> Procs \cup {None}]
        /\ pc' \in [Procs -> Places]
        /\ req' \in [Procs -> Req \cup {None}]
    BY DEF CtlInv, TypeOK, Places
  <2> QED BY <2>1 DEF CtlInv, TypeOK, Places
<1>2. ReqInv' /\ LockInv' BY CtlReturn
<1>3. CounterInv' BY DEF CtlInv, TypeOK, CounterInv
<1> QED BY <1>1, <1>2, <1>3 DEF CtlInv

LEMMA CtlPublish ==
  ASSUME CtlInv, NEW p \in Procs, Publish(p) \/ PublishHangs(p)
  PROVE  CtlInv'
<1> USE DEF Publish, PublishHangs, Announce, counterVars
<1> DEFINE e == EventOf(req[p])
<1>1. e \in Event /\ e.key \in Keys /\ pc[p] = "publish"
  BY EventOfType DEF CtlInv, ReqInv, Req
<1>2. TypeOK'
  <2>1. ring' \in Seq(Event) BY <1>1, PushRingType DEF CtlInv, TypeOK
  <2>2. log' \in [Keys -> Seq(Event)]
    <3>1. log' = [log EXCEPT ![e.key] = Append(log[e.key], e)] OBVIOUS
    <3>2. log \in [Keys -> Seq(Event)] BY DEF CtlInv, TypeOK
    <3>3. Append(log[e.key], e) \in Seq(Event) BY <1>1, <3>2
    <3> HIDE DEF e, Publish, PublishHangs, Announce
    <3> QED BY <1>1, <3>1, <3>2, <3>3
  <2>3. dropped' \in [Keys -> BOOLEAN] BY <1>1 DEF CtlInv, TypeOK
  <2>4. /\ lock' \in [Keys -> Procs \cup {None}]
        /\ pc' \in [Procs -> Places]
        /\ req' \in [Procs -> Req \cup {None}]
    BY DEF CtlInv, TypeOK, Return, Places
  <2> QED BY <2>1, <2>2, <2>3, <2>4 DEF CtlInv, TypeOK, Places
<1>3. ReqInv' /\ LockInv'
  <2>1. CASE Publish(p) BY <1>1, <2>1, CtlReturn
  <2>2. CASE PublishHangs(p)
    <3>1. /\ \A q \in Procs : q # p => pc'[q] = pc[q] /\ req'[q] = req[q]
          /\ pc'[p] = "hung" /\ req' = req /\ lock' = lock
      BY <2>2 DEF CtlInv, TypeOK
    <3>2. ReqInv' BY <1>1, <3>1 DEF CtlInv, ReqInv
    <3>3. LockInv' BY <1>1, <3>1, LockKept
    <3> QED BY <3>2, <3>3
  <2> QED BY <2>1, <2>2
<1>4. CounterInv' BY <1>1 DEF CtlInv, TypeOK, CounterInv, Return
<1> QED BY <1>2, <1>3, <1>4 DEF CtlInv

LEMMA CtlCrash ==
  ASSUME CtlInv, Crash
  PROVE  CtlInv'
<1> USE ConstantsAssumption DEF CtlInv, Crash, Fail
<1>1. TypeOK'
  <2>1. rv' \in Nat \ {0} BY LoadNat DEF TypeOK
  <2>2. dropped' \in [Keys -> BOOLEAN]
    <3>1. ASSUME NEW k \in Keys
          PROVE  (dropped[k] \/ \E p \in Procs : Unannounced(p) /\ req[p].key = k)
                   \in BOOLEAN
      BY Zenon
    <3> QED BY <3>1
  <2>3. ring' \in Seq(Event) OBVIOUS
  <2> QED BY <2>1, <2>2, <2>3 DEF TypeOK
<1>2. ReqInv' BY DEF ReqInv
<1>3. LockInv' BY DEF LockInv
<1>4. CounterInv' BY DEF CounterInv
<1> QED BY <1>1, <1>2, <1>3, <1>4

LEMMA CtlStutter ==
  ASSUME CtlInv, UNCHANGED vars
  PROVE  CtlInv'
BY DEF vars, CtlInv, TypeOK, ReqInv, LockInv, CounterInv

LEMMA CtlStep ==
  ASSUME CtlInv, [Next]_vars
  PROVE  CtlInv'
<1>1. ASSUME NEW p \in Procs, LocalStep(p) PROVE CtlInv'
  BY <1>1, CtlGet, CtlCall, CtlLock, CtlReject, CtlAdmit, CtlBump, CtlPersist,
     CtlPersistFail, CtlWrite, CtlWriteFail DEF LocalStep
<1>2. ASSUME NEW p \in Procs, Publish(p) \/ PublishHangs(p) PROVE CtlInv'
  BY <1>2, CtlPublish
<1> QED BY <1>1, <1>2, CtlCrash, CtlStutter DEF Next

LEMMA CtlAlways == Spec => []CtlInv
<1>1. CtlInv /\ [Next]_vars => CtlInv' BY CtlStep
<1> QED BY CtlInit, <1>1, PTL DEF Spec

\* Every variable keeps its type, the resourceVersion counter included: it is
\* never 0 and never negative, whatever fails inside Counter.Next.
THEOREM TypeCorrect == Spec => []TypeOK
<1>1. CtlInv => TypeOK BY DEF CtlInv
<1> QED BY CtlAlways, <1>1, PTL

-----------------------------------------------------------------------------
(* resourceVersions *)

\* Requests whose rv has been drawn and not yet announced.
Stamped == {p \in Procs : pc[p] \in {"write", "publish"}}

\* The counter's file is never behind a version that has been given out.
RVBounds ==
  /\ \A k \in Keys : file[k] # None => file[k].rv <= Load(rvFile)
  /\ \A k \in Keys : \A i \in DOMAIN log[k] : log[k][i].obj.rv <= Load(rvFile)
  /\ \A p \in Stamped : req[p].rv <= Load(rvFile)

\* A drawn rv is later than every event of its key, belongs to no other key
\* and to no other request.
StampFresh ==
  \A p \in Stamped :
    /\ \A i \in DOMAIN log[req[p].key] : log[req[p].key][i].obj.rv < req[p].rv
    /\ \A r \in Nat, k \in Keys :
         r = req[p].rv /\ Carries(k, r) => k = req[p].key
    /\ \A q \in Stamped : req[q].rv = req[p].rv => q = p

CarryUnique ==
  \A r \in Nat : \A j, k \in Keys : Carries(j, r) /\ Carries(k, r) => j = k

RVInv == RVBounds /\ StampFresh /\ CarryUnique /\ KeyEventsOrdered

LEMMA RVInit == Init => RVInv
BY DEF Init, RVInv, RVBounds, StampFresh, CarryUnique, KeyEventsOrdered,
       Stamped, Carries

\* Steps that announce nothing, write nothing and draw no rv.
LEMMA RVKept ==
  ASSUME RVInv, UNCHANGED <<rvFile, log>>,
         \A k \in Keys : file'[k] = file[k] \/ file'[k] = None,
         \A p \in Stamped' : p \in Stamped /\ req'[p] = req[p]
  PROVE  RVInv'
<1>1. ASSUME NEW k \in Keys, NEW r, Carries(k, r)' PROVE Carries(k, r)
  BY <1>1 DEF Carries
<1>2. RVBounds' BY DEF RVInv, RVBounds
<1>3. StampFresh'
  <2> SUFFICES ASSUME NEW p \in Stamped'
               PROVE  /\ \A i \in DOMAIN log[req[p].key] :
                           log[req[p].key][i].obj.rv < req[p].rv
                      /\ \A r \in Nat, k \in Keys :
                           r = req[p].rv /\ Carries(k, r)' => k = req[p].key
                      /\ \A q \in Stamped' : req'[q].rv = req[p].rv => q = p
    BY DEF StampFresh
  <2> QED BY <1>1 DEF RVInv, StampFresh
<1>4. CarryUnique' BY <1>1 DEF RVInv, CarryUnique
<1>5. KeyEventsOrdered' BY DEF RVInv, KeyEventsOrdered
<1> QED BY <1>2, <1>3, <1>4, <1>5 DEF RVInv

LEMMA RVPersist ==
  ASSUME CtlInv, RVInv, NEW p \in Procs, Persist(p)
  PROVE  RVInv'
<1> USE DEF Persist
<1>1. /\ rv \in Nat /\ Load(rvFile) \in Nat
      /\ rv = Load(rvFile) + 1 /\ Load(rvFile') = rv
  <2>1. cmu = p /\ rv \in Nat \ {0} /\ rvFile \in Nat
    BY DEF CtlInv, CounterInv, TypeOK
  <2>2. Load(rvFile) \in Nat /\ Load(rvFile') = rv
    BY <2>1, LoadNat DEF Load
  <2> QED BY <2>1, <2>2, ConstantsAssumption DEF CtlInv, CounterInv
<1>2. /\ req'[p].rv = rv /\ req'[p].key = req[p].key /\ req[p].key \in Keys
      /\ p \notin Stamped
      /\ \A q \in Procs : q # p => pc'[q] = pc[q] /\ req'[q] = req[q]
  BY DEF CtlInv, TypeOK, ReqInv, Req, Stamped
<1>3. \A q \in Stamped' : q # p => q \in Stamped /\ req'[q] = req[q]
  BY <1>2 DEF Stamped
<1>4. /\ \A k \in Keys : file[k] # None => file[k].rv \in Nat
      /\ \A k \in Keys : \A i \in DOMAIN log[k] : log[k][i].obj.rv \in Nat
      /\ \A q \in Stamped : req[q].rv \in Nat
  <2>1. \A k \in Keys : \A i \in DOMAIN log[k] : log[k][i] \in Event
    BY DEF CtlInv, TypeOK
  <2> QED BY <2>1 DEF CtlInv, TypeOK, ReqInv, Stamped, Obj, Req, Event
<1>5. ASSUME NEW k \in Keys, NEW r, Carries(k, r)
      PROVE  r \in Nat /\ r < rv
  BY <1>1, <1>4, <1>5 DEF RVInv, RVBounds, Carries
<1>6. ASSUME NEW k \in Keys, NEW r PROVE Carries(k, r)' <=> Carries(k, r)
  BY DEF Carries
<1>7. RVBounds'
  <2>1. \A k \in Keys : file[k] # None => file[k].rv <= rv
    BY <1>1, <1>4 DEF RVInv, RVBounds
  <2>2. \A k \in Keys : \A i \in DOMAIN log[k] : log[k][i].obj.rv <= rv
    BY <1>1, <1>4 DEF RVInv, RVBounds
  <2>3. \A q \in Stamped' : req'[q].rv <= rv
    BY <1>1, <1>2, <1>3, <1>4 DEF RVInv, RVBounds
  <2> QED BY <1>1, <2>1, <2>2, <2>3 DEF RVBounds
<1>8. StampFresh'
  <2> SUFFICES ASSUME NEW q \in Stamped'
               PROVE  /\ \A i \in DOMAIN log[req'[q].key] :
                           log[req'[q].key][i].obj.rv < req'[q].rv
                      /\ \A r \in Nat, k \in Keys :
                           r = req'[q].rv /\ Carries(k, r)' => k = req'[q].key
                      /\ \A s \in Stamped' : req'[s].rv = req'[q].rv => s = q
    BY DEF StampFresh
  <2>1. CASE q = p
    <3>1. \A i \in DOMAIN log[req[p].key] : log[req[p].key][i].obj.rv < rv
      BY <1>1, <1>2, <1>4 DEF RVInv, RVBounds
    <3>2. \A k \in Keys : ~ Carries(k, rv)
      BY <1>1, <1>5
    <3>3. \A s \in Stamped : req[s].rv # rv
      BY <1>1, <1>4 DEF RVInv, RVBounds
    <3> QED BY <1>2, <1>3, <1>6, <2>1, <3>1, <3>2, <3>3
  <2>2. CASE q # p
    <3>1. q \in Stamped /\ req'[q] = req[q] /\ req[q].rv # rv
      BY <1>1, <1>3, <1>4, <2>2 DEF RVInv, RVBounds
    <3>2. \A i \in DOMAIN log[req[q].key] : log[req[q].key][i].obj.rv < req[q].rv
      BY <3>1 DEF RVInv, StampFresh
    <3>3. \A r \in Nat, k \in Keys : r = req[q].rv /\ Carries(k, r)' => k = req[q].key
      BY <1>6, <3>1 DEF RVInv, StampFresh
    <3>4. ASSUME NEW s \in Stamped', req'[s].rv = req'[q].rv PROVE s = q
      <4>1. s # p BY <1>2, <3>1, <3>4
      <4>2. s \in Stamped /\ req'[s] = req[s] BY <1>3, <3>4, <4>1
      <4> QED BY <3>1, <3>4, <4>2 DEF RVInv, StampFresh
    <3> QED BY <3>1, <3>2, <3>3, <3>4
  <2> QED BY <2>1, <2>2
<1>9. CarryUnique' BY <1>6 DEF RVInv, CarryUnique
<1>10. KeyEventsOrdered' BY DEF RVInv, KeyEventsOrdered
<1> QED BY <1>7, <1>8, <1>9, <1>10 DEF RVInv

\* Two requests in flight are on different keys.
LEMMA KeysDiffer ==
  ASSUME CtlInv, NEW p \in Stamped, NEW q \in Stamped, q # p
  PROVE  req[q].key # req[p].key
BY DEF CtlInv, LockInv, Stamped

LEMMA RVWrite ==
  ASSUME CtlInv, RVInv, NEW p \in Procs, Write(p)
  PROVE  RVInv'
<1> USE DEF Write, counterVars
<1>1. /\ p \in Stamped /\ Stamped' = Stamped /\ req[p].key \in Keys
      /\ req[p].rv \in Nat /\ req' = req
  BY DEF CtlInv, TypeOK, ReqInv, Req, Stamped
<1>2. /\ file' = [file EXCEPT ![req[p].key] = NewObj(req[p])]
      /\ NewObj(req[p]).rv = req[p].rv
  BY NewObjType DEF CtlInv, ReqInv
<1>3. ASSUME NEW k \in Keys, NEW r, Carries(k, r)'
      PROVE  Carries(k, r) \/ (k = req[p].key /\ r = req[p].rv)
  BY <1>1, <1>2, <1>3 DEF Carries, CtlInv, TypeOK
<1>4. RVBounds'
  <2>1. \A k \in Keys : file'[k] # None => file'[k].rv <= Load(rvFile)
    BY <1>1, <1>2 DEF CtlInv, TypeOK, RVInv, RVBounds
  <2> QED BY <1>1, <2>1 DEF RVInv, RVBounds
<1>5. StampFresh'
  <2> SUFFICES ASSUME NEW q \in Stamped, NEW r \in Nat, NEW k \in Keys,
                      r = req[q].rv, Carries(k, r)'
               PROVE  k = req[q].key
    BY <1>1 DEF RVInv, StampFresh
  <2> QED BY <1>1, <1>3 DEF RVInv, StampFresh
<1>6. CarryUnique'
  <2> SUFFICES ASSUME NEW r \in Nat, NEW j \in Keys, NEW k \in Keys,
                      Carries(j, r)', Carries(k, r)'
               PROVE  j = k
    BY DEF CarryUnique
  <2> QED BY <1>1, <1>3 DEF RVInv, StampFresh, CarryUnique
<1>7. KeyEventsOrdered' BY DEF RVInv, KeyEventsOrdered
<1> QED BY <1>4, <1>5, <1>6, <1>7 DEF RVInv

LEMMA RVPublish ==
  ASSUME CtlInv, RVInv, NEW p \in Procs, Publish(p) \/ PublishHangs(p)
  PROVE  RVInv'
<1> USE DEF Publish, PublishHangs, Announce, counterVars
<1> DEFINE e == EventOf(req[p])
           key == req[p].key
<1>1. /\ p \in Stamped /\ key \in Keys /\ req[p].rv \in Nat
      /\ Stamped' = Stamped \ {p}
      /\ \A q \in Stamped' : req'[q] = req[q]
  BY DEF CtlInv, TypeOK, ReqInv, Req, Stamped, Return
<1>2. e.key = key /\ e.obj.rv = req[p].rv
  BY EventOfType DEF CtlInv, ReqInv
<1>3. /\ \A k \in Keys : log[k] \in Seq(Event)
      /\ \A k \in Keys : k # key => log'[k] = log[k]
      /\ log'[key] = Append(log[key], e)
  BY <1>1, <1>2 DEF CtlInv, TypeOK
<1>4. /\ Len(log[key]) \in Nat
      /\ DOMAIN log[key] = 1 .. Len(log[key])
      /\ DOMAIN log'[key] = 1 .. Len(log[key]) + 1
      /\ \A i \in DOMAIN log[key] : log'[key][i] = log[key][i]
      /\ log'[key][Len(log[key]) + 1] = e
  BY <1>1, <1>3
<1>5. ASSUME NEW k \in Keys, NEW r, Carries(k, r)'
      PROVE  Carries(k, r) \/ (k = key /\ r = req[p].rv)
  <2>1. CASE k # key BY <1>3, <1>5, <2>1 DEF Carries
  <2>2. CASE k = key
    <3>1. CASE file[k] # None /\ file[k].rv = r BY <3>1 DEF Carries
    <3>2. CASE \E i \in DOMAIN log'[key] : log'[key][i].obj.rv = r
      <4>1. PICK i \in DOMAIN log'[key] : log'[key][i].obj.rv = r
        BY <3>2
      <4>2. CASE i \in DOMAIN log[key] BY <1>4, <2>2, <4>1, <4>2 DEF Carries
      <4>3. CASE i = Len(log[key]) + 1 BY <1>2, <1>4, <2>2, <4>1, <4>3
      <4> QED BY <1>4, <4>2, <4>3
    <3> QED BY <1>5, <2>2, <3>1, <3>2 DEF Carries
  <2> QED BY <2>1, <2>2
<1>6. RVBounds'
  <2>1. ASSUME NEW k \in Keys, NEW i \in DOMAIN log'[k]
        PROVE  log'[k][i].obj.rv <= Load(rvFile)
    <3>1. CASE k # key BY <1>3, <3>1 DEF RVInv, RVBounds
    <3>2. CASE k = key /\ i \in DOMAIN log[key]
      BY <1>4, <3>2 DEF RVInv, RVBounds
    <3>3. CASE k = key /\ i = Len(log[key]) + 1
      BY <1>1, <1>2, <1>4, <3>3 DEF RVInv, RVBounds
    <3> QED BY <1>4, <3>1, <3>2, <3>3
  <2> QED BY <1>1, <2>1 DEF RVInv, RVBounds
<1>7. StampFresh'
  <2> SUFFICES ASSUME NEW q \in Stamped'
               PROVE  /\ \A i \in DOMAIN log'[req'[q].key] :
                           log'[req'[q].key][i].obj.rv < req'[q].rv
                      /\ \A r \in Nat, k \in Keys :
                           r = req'[q].rv /\ Carries(k, r)' => k = req'[q].key
                      /\ \A s \in Stamped' : req'[s].rv = req'[q].rv => s = q
    BY DEF StampFresh
  <2>1. q \in Stamped /\ q # p /\ req'[q] = req[q] BY <1>1
  <2>2. req[q].key \in Keys /\ req[q].key # key
    BY <1>1, <2>1, KeysDiffer DEF CtlInv, ReqInv, Req, Stamped
  <2>3. log'[req[q].key] = log[req[q].key] BY <1>3, <2>2
  <2>4. req[q].rv # req[p].rv BY <1>1, <2>1 DEF RVInv, StampFresh
  <2>5. \A r \in Nat, k \in Keys :
          r = req[q].rv /\ Carries(k, r)' => k = req[q].key
    BY <1>5, <2>1, <2>4 DEF RVInv, StampFresh
  <2>6. \A i \in DOMAIN log[req[q].key] : log[req[q].key][i].obj.rv < req[q].rv
    BY <2>1 DEF RVInv, StampFresh
  <2>7. ASSUME NEW s \in Stamped', req'[s].rv = req'[q].rv PROVE s = q
    <3>1. s \in Stamped /\ req'[s] = req[s] BY <1>1, <2>7
    <3> QED BY <2>1, <2>7, <3>1 DEF RVInv, StampFresh
  <2> QED BY <2>1, <2>3, <2>5, <2>6, <2>7
<1>8. CarryUnique'
  <2> SUFFICES ASSUME NEW r \in Nat, NEW j \in Keys, NEW k \in Keys,
                      Carries(j, r)', Carries(k, r)'
               PROVE  j = k
    BY DEF CarryUnique
  <2> QED BY <1>1, <1>5 DEF RVInv, StampFresh, CarryUnique
<1>9. KeyEventsOrdered'
  <2> SUFFICES ASSUME NEW k \in Keys, NEW i \in DOMAIN log'[k],
                      NEW j \in DOMAIN log'[k], i < j
               PROVE  log'[k][i].obj.rv < log'[k][j].obj.rv
    BY DEF KeyEventsOrdered
  <2>1. CASE k # key BY <1>3, <2>1 DEF RVInv, KeyEventsOrdered
  <2>2. CASE k = key /\ j \in DOMAIN log[key]
    <3>1. i \in DOMAIN log[key] BY <1>4, <2>2
    <3>2. log'[key][i] = log[key][i] /\ log'[key][j] = log[key][j] BY <1>4, <2>2, <3>1
    <3> QED BY <1>1, <2>2, <3>1, <3>2 DEF RVInv, KeyEventsOrdered
  <2>3. CASE k = key /\ j = Len(log[key]) + 1
    <3>1. i \in DOMAIN log[key] /\ log'[key][i] = log[key][i] BY <1>4, <2>3
    <3>2. log[key][i].obj.rv < req[p].rv BY <1>1, <3>1 DEF RVInv, StampFresh
    <3> QED BY <1>2, <1>4, <2>3, <3>1, <3>2
  <2>4. k = key => j \in DOMAIN log[key] \/ j = Len(log[key]) + 1
    BY <1>4
  <2> QED BY <2>1, <2>2, <2>3, <2>4
<1> QED BY <1>6, <1>7, <1>8, <1>9 DEF RVInv

LEMMA RVStep ==
  ASSUME CtlInv, RVInv, [Next]_vars
  PROVE  RVInv'
<1> USE DEF CtlInv, TypeOK, Stamped, counterVars, Return, Fail
<1>1. ASSUME NEW p \in Procs, NEW k \in Keys, Get(p, k) PROVE RVInv'
  BY <1>1, RVKept DEF Get
<1>2. ASSUME NEW p \in Procs,
             Lock(p) \/ \E k \in Keys, o \in Ops, pre \in {0, got[p]} : Call(p, k, o, pre)
      PROVE  RVInv'
  BY <1>2, RVKept DEF Call, Lock
<1>3. ASSUME NEW p \in Procs, Reject(p) PROVE RVInv'
  BY <1>3, RVKept DEF Reject
<1>4. ASSUME NEW p \in Procs, AdmitWrite(p) PROVE RVInv'
  BY <1>4, RVKept DEF AdmitWrite
<1>5. ASSUME NEW p \in Procs, AdmitDelete(p) PROVE RVInv'
  BY <1>5, RVKept DEF AdmitDelete
<1>6. ASSUME NEW p \in Procs, Bump(p) PROVE RVInv'
  BY <1>6, RVKept DEF Bump
<1>7. ASSUME NEW p \in Procs, PersistFail(p) PROVE RVInv'
  BY <1>7, RVKept DEF PersistFail
<1>8. ASSUME NEW p \in Procs, WriteFail(p) PROVE RVInv'
  BY <1>8, RVKept DEF WriteFail
<1>9. ASSUME Crash PROVE RVInv'
  BY <1>9, RVKept DEF Crash
<1>10. ASSUME UNCHANGED vars PROVE RVInv'
  BY <1>10, RVKept DEF vars
<1> HIDE DEF CtlInv, TypeOK, Stamped, counterVars, Return, Fail
<1>11. ASSUME NEW p \in Procs, LocalStep(p) PROVE RVInv'
  BY <1>1, <1>2, <1>3, <1>4, <1>5, <1>6, <1>7, <1>8, <1>11, RVPersist, RVWrite
     DEF LocalStep
<1> QED BY <1>9, <1>10, <1>11, RVPublish DEF Next

LEMMA RVAlways == Spec => []RVInv
<1>1. CtlInv /\ RVInv /\ [Next]_vars => RVInv' BY RVStep
<1> QED BY RVInit, CtlAlways, <1>1, PTL DEF Spec

\* Watchers of one object see its changes in resourceVersion order, for any
\* number of writers, failures and restarts: Create, GuaranteedUpdate and
\* Delete hold the key's mutex from nextRV to publish.
THEOREM EventsOrdered == Spec => []KeyEventsOrdered
<1>1. RVInv => KeyEventsOrdered BY DEF RVInv
<1> QED BY RVAlways, <1>1, PTL

\* No two objects ever carry the same resourceVersion, before or after a
\* restart: Counter.Next persists a value under its mutex before using it.
THEOREM VersionsUnique == Spec => []RVUnique
<1>1. CtlInv /\ RVInv => RVUnique
  BY DEF CtlInv, TypeOK, RVInv, CarryUnique, RVUnique
<1> QED BY CtlAlways, RVAlways, <1>1, PTL

-----------------------------------------------------------------------------
(* FSStore implements the atomic map of KVStore, its conditional writes are
   compare-and-swap (what a request read under its key's mutex is still there
   when it renames its file, however long Counter.Next took), and its events
   tell the truth about every key nobody is changing *)

\* The local copy of a write is current until the write, satisfies the
\* precondition, and is older than the rv drawn for its successor.
CurOK(p) ==
  /\ pc[p] \in {"next", "persist", "write"} /\ req[p].op # "delete"
       => /\ req[p].cur = file[req[p].key]
          /\ req[p].cur # None /\ req[p].pre # 0 => req[p].cur.rv = req[p].pre
  /\ pc[p] = "write"
       => /\ req[p].rv \in 1 .. Load(rvFile)
          /\ file[req[p].key] # None => file[req[p].key].rv < req[p].rv

CurInv == \A p \in Procs : CurOK(p)

LEMMA CurInit == Init => CurInv
BY DEF Init, CurInv, CurOK

\* A step of p on its own key disturbs no other goroutine's copy.
LEMMA CurOthers ==
  ASSUME CtlInv, CurInv, NEW p \in Procs, pc[p] \notin {"idle", "lock"},
         \A q \in Procs : q # p => pc'[q] = pc[q] /\ req'[q] = req[q],
         \A k \in Keys : k # req[p].key => file'[k] = file[k],
         Load(rvFile) \in Nat, Load(rvFile') \in Nat,
         Load(rvFile) <= Load(rvFile')
  PROVE  \A q \in Procs : q # p => CurOK(q)'
<1> SUFFICES ASSUME NEW q \in Procs, q # p, pc[q] \notin {"idle", "lock"} PROVE CurOK(q)'
  BY DEF CurOK
<1>1. req[q].key \in Keys /\ req[q].key # req[p].key
  BY DEF CtlInv, ReqInv, LockInv, Req
<1>2. file'[req[q].key] = file[req[q].key] BY <1>1
<1> QED BY <1>2 DEF CurInv, CurOK

\* Steps that end p's request, or leave it before the reading of its file.
LEMMA CurKept ==
  ASSUME CurInv, UNCHANGED <<file, rvFile>>,
         \A q \in Procs : \/ pc'[q] \in {"idle", "lock", "read", "publish", "hung"}
                          \/ pc'[q] = pc[q] /\ req'[q] = req[q]
  PROVE  CurInv'
BY DEF CurInv, CurOK

LEMMA CurStep ==
  ASSUME CtlInv, RVInv, CurInv, [Next]_vars
  PROVE  CurInv'
<1>0. Load(rvFile) \in Nat /\ Load(rvFile) >= 1
  BY LoadNat DEF CtlInv, TypeOK
<1>1. ASSUME NEW p \in Procs, NEW k \in Keys, Get(p, k) PROVE CurInv'
  BY <1>1, CurKept DEF Get, counterVars
<1>2. ASSUME NEW p \in Procs,
             Lock(p) \/ \E k \in Keys, o \in Ops, pre \in {0, got[p]} : Call(p, k, o, pre)
      PROVE  CurInv'
  BY <1>2, CurKept DEF Call, Lock, counterVars, CtlInv, TypeOK
<1>3. ASSUME NEW p \in Procs, Reject(p) PROVE CurInv'
  BY <1>3, CurKept DEF Reject, Return, counterVars, CtlInv, TypeOK
<1>4. ASSUME NEW p \in Procs, AdmitWrite(p) PROVE CurInv'
  <2> USE <1>4 DEF AdmitWrite, counterVars
  <2>1. /\ req[p] \in Req
        /\ req'[p] = [req[p] EXCEPT !.cur = file[req[p].key]]
        /\ pc'[p] = "next" /\ req[p].op # "delete"
        /\ \A q \in Procs : q # p => pc'[q] = pc[q] /\ req'[q] = req[q]
    BY DEF CtlInv, TypeOK, ReqInv
  <2>2. CurOK(p)' BY <2>1 DEF CurOK, MayProceed, Req
  <2>3. \A q \in Procs : q # p => CurOK(q)' BY <1>0, <2>1, CurOthers
  <2> QED BY <2>2, <2>3 DEF CurInv
<1>5. ASSUME NEW p \in Procs, AdmitDelete(p) PROVE CurInv'
  <2> USE <1>5 DEF AdmitDelete, counterVars
  <2>1. /\ req[p] \in Req
        /\ req'[p] = [req[p] EXCEPT !.cur = file[req[p].key]]
        /\ pc'[p] = "next" /\ req[p].op = "delete"
        /\ \A q \in Procs : q # p => pc'[q] = pc[q] /\ req'[q] = req[q]
        /\ \A k \in Keys : k # req[p].key => file'[k] = file[k]
    BY DEF CtlInv, TypeOK, ReqInv
  <2>2. CurOK(p)' BY <2>1 DEF CurOK, Req
  <2>3. \A q \in Procs : q # p => CurOK(q)' BY <1>0, <2>1, CurOthers
  <2> QED BY <2>2, <2>3 DEF CurInv
<1>6. ASSUME NEW p \in Procs, Bump(p) PROVE CurInv'
  <2> USE <1>6 DEF Bump
  <2>1. /\ pc'[p] = "persist" /\ pc[p] = "next"
        /\ \A q \in Procs : q # p => pc'[q] = pc[q]
    BY DEF CtlInv, TypeOK
  <2> QED BY <2>1 DEF CurInv, CurOK
<1>7. ASSUME NEW p \in Procs, Persist(p) PROVE CurInv'
  <2> USE <1>7 DEF Persist
  <2>1. /\ rv \in Nat /\ rv = Load(rvFile) + 1 /\ Load(rvFile') = rv
    <3>1. cmu = p /\ rv \in Nat \ {0} BY DEF CtlInv, CounterInv, TypeOK
    <3>2. Load(rvFile') = rv BY <3>1 DEF Load
    <3> QED BY <3>1, <3>2, ConstantsAssumption DEF CtlInv, CounterInv
  <2>2. /\ req[p] \in Req /\ req[p].key \in Keys
        /\ req'[p] = [req[p] EXCEPT !.rv = rv]
        /\ pc'[p] = IF req[p].op = "delete" THEN "publish" ELSE "write"
        /\ \A q \in Procs : q # p => pc'[q] = pc[q] /\ req'[q] = req[q]
    BY DEF CtlInv, TypeOK, ReqInv, Req
  <2>3. file[req[p].key] # None => file[req[p].key].rv < rv
    BY <1>0, <2>1, <2>2 DEF CtlInv, TypeOK, Obj, RVInv, RVBounds
  <2>4. CurOK(p)'
    <3>1. req'[p].rv = rv /\ \A f \in {"op", "key", "pre", "cur"} : req'[p][f] = req[p][f]
      BY <2>2 DEF Req
    <3>2. rv \in 1 .. Load(rvFile') BY <1>0, <2>1
    <3> QED BY <2>2, <2>3, <3>1, <3>2 DEF CurInv, CurOK
  <2>5. \A q \in Procs : q # p => CurOK(q)'
    BY <1>0, <2>1, <2>2, CurOthers
  <2> QED BY <2>4, <2>5 DEF CurInv
<1>8. ASSUME NEW p \in Procs, PersistFail(p) PROVE CurInv'
  BY <1>8, CurKept DEF PersistFail, Return, CtlInv, TypeOK
<1>9. ASSUME NEW p \in Procs, Write(p) PROVE CurInv'
  <2> USE <1>9 DEF Write, counterVars
  <2>1. /\ pc'[p] = "publish" /\ req[p].key \in Keys
        /\ \A q \in Procs : q # p => pc'[q] = pc[q] /\ req'[q] = req[q]
        /\ \A k \in Keys : k # req[p].key => file'[k] = file[k]
    BY DEF CtlInv, TypeOK, ReqInv, Req
  <2>2. CurOK(p)' BY <2>1 DEF CurOK
  <2>3. \A q \in Procs : q # p => CurOK(q)' BY <1>0, <2>1, CurOthers
  <2> QED BY <2>2, <2>3 DEF CurInv
<1>10. ASSUME NEW p \in Procs, WriteFail(p) PROVE CurInv'
  BY <1>10, CurKept DEF WriteFail, Return, counterVars, CtlInv, TypeOK
<1>11. ASSUME NEW p \in Procs, Publish(p) \/ PublishHangs(p) PROVE CurInv'
  BY <1>11, CurKept DEF Publish, PublishHangs, Return, counterVars, CtlInv, TypeOK
<1>12. ASSUME Crash PROVE CurInv'
  BY <1>12, CurKept DEF Crash
<1>13. ASSUME UNCHANGED vars PROVE CurInv'
  BY <1>13, CurKept DEF vars
<1>14. ASSUME NEW p \in Procs, LocalStep(p) PROVE CurInv'
  BY <1>1, <1>2, <1>3, <1>4, <1>5, <1>6, <1>7, <1>8, <1>9, <1>10, <1>14
     DEF LocalStep
<1> QED BY <1>11, <1>12, <1>13, <1>14 DEF Next

LEMMA CurAlways == Spec => []CurInv
<1>1. CtlInv /\ RVInv /\ CurInv /\ [Next]_vars => CurInv' BY CurStep
<1> QED BY CurInit, CtlAlways, RVAlways, <1>1, PTL DEF Spec

\* Optimistic concurrency: a write sent with an expected resourceVersion
\* replaces exactly the object that had it, because GuaranteedUpdate keeps
\* the key's mutex from its read to its rename.
THEOREM Conditional == Spec => CompareAndSwap
<1>1. CtlInv /\ CurInv =>
        \A p \in Procs :
          /\ pc[p] = "write" /\ pc'[p] = "publish"
          /\ req[p].pre # 0
          /\ file[req[p].key] # None
          => file[req[p].key].rv = req[p].pre
  BY DEF CtlInv, ReqInv, CurInv, CurOK
<1> QED BY CtlAlways, CurAlways, <1>1, PTL DEF CompareAndSwap

-----------------------------------------------------------------------------
(* Events and files *)

\* What the request that changed a file knows about it until it publishes.
PubOK(p) ==
  /\ pc[p] = "publish" /\ req[p].op # "delete" => file[req[p].key] = NewObj(req[p])
  /\ pc[p] \in {"next", "persist", "publish"} /\ req[p].op = "delete"
       => file[req[p].key] = None

\* The events are behind the file only while somebody is about to publish, or
\* when an event was lost.
AnnOK(k) ==
  \/ dropped[k]
  \/ Announced(k) = file[k]
  \/ \E p \in Procs : Unannounced(p) /\ req[p].key = k

AnnInv == (\A p \in Procs : PubOK(p)) /\ \A k \in Keys : AnnOK(k)

LEMMA AnnInit == Init => AnnInv
BY DEF Init, AnnInv, PubOK, AnnOK, Announced

\* A step of p on its own key disturbs neither the other requests nor the
\* other keys.
LEMMA AnnOthers ==
  ASSUME CtlInv, AnnInv, NEW p \in Procs, pc[p] \notin {"idle", "lock"},
         NEW key \in Keys, key = req[p].key,
         \A q \in Procs : q # p => pc'[q] = pc[q] /\ req'[q] = req[q],
         \A k \in Keys : k # key =>
            file'[k] = file[k] /\ log'[k] = log[k] /\ dropped'[k] = dropped[k],
         PubOK(p)', AnnOK(key)'
  PROVE  AnnInv'
<1>1. ASSUME NEW q \in Procs, q # p PROVE PubOK(q)'
  <2>1. CASE pc[q] \in {"idle", "lock"} BY <1>1, <2>1 DEF PubOK
  <2>2. CASE pc[q] \notin {"idle", "lock"}
    <3>1. req[q].key \in Keys /\ req[q].key # req[p].key
      BY <1>1, <2>2 DEF CtlInv, ReqInv, LockInv, Req
    <3>2. NewObj(req[q])' = NewObj(req[q]) BY <1>1 DEF NewObj
    <3> QED BY <1>1, <3>1, <3>2 DEF AnnInv, PubOK
  <2> QED BY <2>1, <2>2
<1>2. ASSUME NEW k \in Keys, k # key PROVE AnnOK(k)'
  <2>1. Announced(k)' = Announced(k) BY <1>2 DEF Announced
  <2>2. CASE dropped[k] \/ Announced(k) = file[k]
    BY <1>2, <2>1, <2>2 DEF AnnOK
  <2>3. CASE \E q \in Procs : Unannounced(q) /\ req[q].key = k
    <3>1. PICK q \in Procs : Unannounced(q) /\ req[q].key = k BY <2>3
    <3>2. q # p BY <1>2, <3>1
    <3>3. Unannounced(q)' /\ req'[q].key = k BY <3>1, <3>2 DEF Unannounced
    <3> QED BY <3>3 DEF AnnOK
  <2> QED BY <2>2, <2>3 DEF AnnInv, AnnOK
<1> QED BY <1>1, <1>2 DEF AnnInv

\* Steps of p that end or begin a request that has not changed its file, or
\* take it one step further: its key's file, events and the fact that it has
\* something to announce stay.
LEMMA AnnKept ==
  ASSUME CtlInv, AnnInv, NEW p \in Procs, UNCHANGED <<file, log, dropped>>,
         \A q \in Procs : q # p => pc'[q] = pc[q] /\ req'[q] = req[q],
         PubOK(p)', Unannounced(p) => Unannounced(p)' /\ req'[p].key = req[p].key
  PROVE  AnnInv'
<1>1. ASSUME NEW q \in Procs, q # p PROVE PubOK(q)'
  <2>1. NewObj(req[q])' = NewObj(req[q]) BY <1>1 DEF NewObj
  <2> QED BY <1>1, <2>1 DEF AnnInv, PubOK
<1>2. ASSUME NEW k \in Keys PROVE AnnOK(k)'
  <2>1. Announced(k)' = Announced(k) BY DEF Announced
  <2>2. CASE dropped[k] \/ Announced(k) = file[k]
    BY <2>1, <2>2 DEF AnnOK
  <2>3. CASE \E q \in Procs : Unannounced(q) /\ req[q].key = k
    <3>1. PICK q \in Procs : Unannounced(q) /\ req[q].key = k BY <2>3
    <3>2. Unannounced(q)' /\ req'[q].key = k BY <3>1 DEF Unannounced
    <3> QED BY <3>2 DEF AnnOK
  <2> QED BY <2>2, <2>3 DEF AnnInv, AnnOK
<1> QED BY <1>1, <1>2 DEF AnnInv

LEMMA AnnStep ==
  ASSUME CtlInv, AnnInv, [Next]_vars
  PROVE  AnnInv'
<1>1. ASSUME NEW p \in Procs, NEW k \in Keys, Get(p, k) PROVE AnnInv'
  BY <1>1, AnnKept DEF Get, PubOK, Unannounced
<1>2. ASSUME NEW p \in Procs,
             Lock(p) \/ \E k \in Keys, o \in Ops, pre \in {0, got[p]} : Call(p, k, o, pre)
      PROVE  AnnInv'
  BY <1>2, AnnKept DEF Call, Lock, PubOK, Unannounced, CtlInv, TypeOK
<1>3. ASSUME NEW p \in Procs, Reject(p) PROVE AnnInv'
  BY <1>3, AnnKept DEF Reject, Return, PubOK, Unannounced, CtlInv, TypeOK
<1>4. ASSUME NEW p \in Procs, AdmitWrite(p) PROVE AnnInv'
  <2>1. /\ pc'[p] = "next" /\ pc[p] = "read"
        /\ req'[p] = [req[p] EXCEPT !.cur = file[req[p].key]]
        /\ req[p] \in Req /\ req[p].op # "delete"
        /\ UNCHANGED <<file, log, dropped>>
        /\ \A q \in Procs : q # p => pc'[q] = pc[q] /\ req'[q] = req[q]
    BY <1>4 DEF AdmitWrite, CtlInv, TypeOK, ReqInv
  <2>2. req'[p].op = req[p].op BY <2>1 DEF Req
  <2> QED BY <2>1, <2>2, AnnKept DEF PubOK, Unannounced
<1>5. ASSUME NEW p \in Procs, AdmitDelete(p) PROVE AnnInv'
  <2>0. PICK key \in Keys : key = req[p].key
    BY <1>5 DEF AdmitDelete, CtlInv, ReqInv, Req
  <2>1. /\ pc'[p] = "next" /\ pc[p] = "read"
        /\ req'[p] = [req[p] EXCEPT !.cur = file[req[p].key]]
        /\ req[p] \in Req /\ req[p].op = "delete"
        /\ file'[key] = None
        /\ UNCHANGED <<log, dropped>>
        /\ \A k \in Keys : k # key => file'[k] = file[k]
        /\ \A q \in Procs : q # p => pc'[q] = pc[q] /\ req'[q] = req[q]
    BY <1>5, <2>0 DEF AdmitDelete, CtlInv, TypeOK, ReqInv, Req
  <2>2. req'[p].op = req[p].op /\ req'[p].key = req[p].key BY <2>0, <2>1 DEF Req
  <2>3. PubOK(p)' BY <2>0, <2>1, <2>2 DEF PubOK
  <2>4. AnnOK(key)'
    <3>1. Unannounced(p)' BY <2>0, <2>1, <2>2 DEF Unannounced
    <3> QED BY <2>0, <2>2, <3>1 DEF AnnOK
  <2> QED BY <2>0, <2>1, <2>3, <2>4, AnnOthers
<1>6. ASSUME NEW p \in Procs, Bump(p) PROVE AnnInv'
  <2>1. /\ pc'[p] = "persist" /\ pc[p] = "next" /\ req' = req
        /\ UNCHANGED <<file, log, dropped>>
        /\ \A q \in Procs : q # p => pc'[q] = pc[q]
    BY <1>6 DEF Bump, CtlInv, TypeOK
  <2>2. PubOK(p)' BY <2>1 DEF AnnInv, PubOK
  <2> QED BY <2>1, <2>2, AnnKept DEF Unannounced
<1>7. ASSUME NEW p \in Procs, Persist(p) PROVE AnnInv'
  <2>1. /\ pc[p] = "persist" /\ req[p] \in Req
        /\ pc'[p] = IF req[p].op = "delete" THEN "publish" ELSE "write"
        /\ req'[p] = [req[p] EXCEPT !.rv = rv]
        /\ UNCHANGED <<file, log, dropped>>
        /\ \A q \in Procs : q # p => pc'[q] = pc[q] /\ req'[q] = req[q]
    BY <1>7 DEF Persist, CtlInv, TypeOK, ReqInv
  <2>2. req'[p].op = req[p].op /\ req'[p].key = req[p].key BY <2>1 DEF Req
  <2>3. PubOK(p)' BY <2>1, <2>2 DEF AnnInv, PubOK
  <2> QED BY <2>1, <2>2, <2>3, AnnKept DEF Unannounced
<1>8. ASSUME NEW p \in Procs, PersistFail(p) PROVE AnnInv'
  <2>0. PICK key \in Keys : key = req[p].key
    BY <1>8 DEF PersistFail, CtlInv, ReqInv, Req
  <2>1. /\ pc'[p] = "idle" /\ pc[p] = "persist"
        /\ UNCHANGED <<file, log>>
        /\ \A q \in Procs : q # p => pc'[q] = pc[q] /\ req'[q] = req[q]
    BY <1>8, <2>0 DEF PersistFail, Return, CtlInv, TypeOK, ReqInv, Req
  <2>2. /\ \A k \in Keys : k # key => dropped'[k] = dropped[k]
        /\ dropped'[key] = (dropped[key] \/ req[p].op = "delete")
    BY <1>8, <2>0, <2>1 DEF PersistFail, CtlInv, TypeOK
  <2>3. PubOK(p)' BY <2>0, <2>1 DEF PubOK
  <2>4. AnnOK(key)'
    <3>1. CASE dropped[key] \/ req[p].op = "delete" BY <2>0, <2>2, <3>1 DEF AnnOK
    <3>2. CASE ~ dropped[key] /\ req[p].op # "delete"
      <4>1. Announced(key)' = Announced(key) BY <2>0, <2>1 DEF Announced
      <4>2. ~ Unannounced(p) BY <2>0, <2>1, <3>2 DEF Unannounced
      <4>3. ~ \E q \in Procs : Unannounced(q) /\ req[q].key = key
        <5> SUFFICES ASSUME NEW q \in Procs, Unannounced(q), req[q].key = key
                     PROVE  FALSE
          OBVIOUS
        <5>1. pc[q] \notin {"idle", "lock"} BY DEF Unannounced
        <5> QED BY <2>0, <2>1, <4>2, <5>1 DEF CtlInv, LockInv
      <4> QED BY <2>0, <2>1, <3>2, <4>1, <4>3 DEF AnnInv, AnnOK
    <3> QED BY <3>1, <3>2
  <2> QED BY <2>0, <2>1, <2>2, <2>3, <2>4, AnnOthers
<1>9. ASSUME NEW p \in Procs, Write(p) PROVE AnnInv'
  <2>0. PICK key \in Keys : key = req[p].key
    BY <1>9 DEF Write, CtlInv, ReqInv, Req
  <2>1. /\ pc'[p] = "publish" /\ pc[p] = "write" /\ req' = req
        /\ req[p].op # "delete"
        /\ file'[key] = NewObj(req[p])
        /\ UNCHANGED <<log, dropped>>
        /\ \A k \in Keys : k # key => file'[k] = file[k]
        /\ \A q \in Procs : q # p => pc'[q] = pc[q]
    BY <1>9, <2>0 DEF Write, CtlInv, TypeOK, ReqInv, Req
  <2>2. NewObj(req[p])' = NewObj(req[p]) BY <2>0, <2>1 DEF NewObj
  <2>3. PubOK(p)' BY <2>0, <2>1, <2>2 DEF PubOK
  <2>4. AnnOK(key)' BY <2>0, <2>1 DEF AnnOK, Unannounced
  <2> QED BY <2>0, <2>1, <2>3, <2>4, AnnOthers
<1>10. ASSUME NEW p \in Procs, WriteFail(p) PROVE AnnInv'
  <2>1. /\ pc'[p] = "idle" /\ pc[p] = "write"
        /\ UNCHANGED <<file, log, dropped>>
        /\ \A q \in Procs : q # p => pc'[q] = pc[q] /\ req'[q] = req[q]
    BY <1>10 DEF WriteFail, Return, CtlInv, TypeOK
  <2> QED BY <2>1, AnnKept DEF PubOK, Unannounced
<1>11. ASSUME NEW p \in Procs, Publish(p) \/ PublishHangs(p) PROVE AnnInv'
  <2>0. PICK key, e : key \in Keys /\ key = req[p].key /\ e = EventOf(req[p])
    BY <1>11 DEF Publish, PublishHangs, Announce, CtlInv, ReqInv, Req
  <2>1. /\ pc'[p] \in {"idle", "hung"} /\ pc[p] = "publish" /\ file' = file
        /\ \A q \in Procs : q # p => pc'[q] = pc[q] /\ req'[q] = req[q]
    BY <1>11, <2>0 DEF Publish, PublishHangs, Announce, Return, CtlInv, TypeOK, ReqInv, Req
  <2>3. e.key = key BY <2>0 DEF EventOf
  <2>4. /\ log[key] \in Seq(Event)
        /\ log'[key] = Append(log[key], e)
        /\ \A k \in Keys : k # key => log'[k] = log[k] /\ dropped'[k] = dropped[k]
    BY <1>11, <2>0, <2>1, <2>3 DEF Publish, PublishHangs, Announce, CtlInv, TypeOK
  <2>5. log'[key] # << >> /\ log'[key][Len(log'[key])] = e BY <2>4
  <2>6. Announced(key)' = file'[key]
    <3>1. Announced(key)' = IF e.type = "DELETED" THEN None ELSE e.obj
      BY <2>5 DEF Announced
    <3>2. CASE req[p].op = "delete"
      BY <2>0, <2>1, <3>1, <3>2 DEF AnnInv, PubOK, EventOf
    <3>3. CASE req[p].op # "delete"
      BY <2>0, <2>1, <3>1, <3>3 DEF AnnInv, PubOK, EventOf
    <3> QED BY <3>2, <3>3
  <2>7. PubOK(p)' BY <2>1 DEF PubOK
  <2>8. AnnOK(key)' BY <2>0, <2>6 DEF AnnOK
  <2> QED BY <2>0, <2>1, <2>4, <2>7, <2>8, AnnOthers
<1>12. ASSUME Crash PROVE AnnInv'
  <2>1. \A p \in Procs : PubOK(p)' BY <1>12 DEF Crash, PubOK
  <2>2. ASSUME NEW k \in Keys PROVE AnnOK(k)'
    <3>1. Announced(k)' = Announced(k) /\ file'[k] = file[k]
      BY <1>12 DEF Crash, Announced
    <3>2. dropped'[k] = (dropped[k] \/ \E p \in Procs : Unannounced(p) /\ req[p].key = k)
      BY <1>12 DEF Crash
    <3> QED BY <3>1, <3>2 DEF AnnInv, AnnOK
  <2> QED BY <2>1, <2>2 DEF AnnInv
<1>13. ASSUME UNCHANGED vars PROVE AnnInv'
  <2>1. ASSUME NEW p \in Procs PROVE PubOK(p)' /\ (Unannounced(p)' <=> Unannounced(p))
    BY <1>13 DEF vars, AnnInv, PubOK, NewObj, Unannounced
  <2>2. ASSUME NEW k \in Keys PROVE Announced(k)' = Announced(k)
    BY <1>13 DEF vars, Announced
  <2> QED BY <1>13, <2>1, <2>2 DEF vars, AnnInv, AnnOK
<1>14. ASSUME NEW p \in Procs, LocalStep(p) PROVE AnnInv'
  BY <1>1, <1>2, <1>3, <1>4, <1>5, <1>6, <1>7, <1>8, <1>9, <1>10, <1>14
     DEF LocalStep
<1> QED BY <1>11, <1>12, <1>13, <1>14 DEF Next

LEMMA AnnAlways == Spec => []AnnInv
<1>1. CtlInv /\ AnnInv /\ [Next]_vars => AnnInv' BY AnnStep
<1> QED BY AnnInit, CtlAlways, <1>1, PTL DEF Spec

\* The events tell the truth about every key nobody is changing, for any
\* number of writers, failures and restarts, except where an event was lost:
\* Create, GuaranteedUpdate and Delete publish before they unlock, and the
\* only returns between a change of a file and its event are those that
\* dropped records.
THEOREM EventsTellTheTruth == Spec => []IdleKeyAnnounced
<1>1. ASSUME CtlInv, AnnInv, NEW k \in Keys, lock[k] = None, ~ dropped[k]
      PROVE  Announced(k) = file[k]
  <2>1. ASSUME NEW p \in Procs, Unannounced(p), req[p].key = k PROVE FALSE
    BY <1>1, <2>1, ConstantsAssumption DEF Unannounced, CtlInv, LockInv
  <2> QED BY <1>1, <2>1 DEF AnnInv, AnnOK
<1>2. CtlInv /\ AnnInv => IdleKeyAnnounced BY <1>1 DEF IdleKeyAnnounced
<1> QED BY CtlAlways, AnnAlways, <1>2, PTL

-----------------------------------------------------------------------------
(* Refinement *)

\* A drawn rv is fresh for its key in the sense of the abstract map.
LEMMA DrawnIsFresh ==
  ASSUME CtlInv, RVInv, CurInv, NEW p \in Procs, pc[p] = "write"
  PROVE  KV!Fresh(req[p].key, req[p].rv)
<1>1. p \in Stamped /\ req[p].key \in Keys /\ req[p].rv \in Nat
  BY DEF Stamped, CtlInv, ReqInv, Req
<1>2. /\ req[p].rv \in 1 .. Load(rvFile)
      /\ file[req[p].key] # None => file[req[p].key].rv < req[p].rv
  BY DEF CurInv, CurOK
<1>3. ASSUME NEW j \in Keys, file[j] # None PROVE file[j].rv # req[p].rv
  <2>1. CASE j = req[p].key
    BY <1>1, <1>2, <1>3, <2>1 DEF CtlInv, TypeOK, Obj
  <2>2. CASE j # req[p].key
    <3>1. ~ Carries(j, req[p].rv) BY <1>1, <2>2 DEF RVInv, StampFresh
    <3> QED BY <1>3, <3>1 DEF Carries
  <2> QED BY <2>1, <2>2
<1> QED BY <1>2, <1>3 DEF KV!Fresh

\* The rename is the instant at which a Create or an Update takes effect.
LEMMA WriteRefines ==
  ASSUME CtlInv, RVInv, CurInv, NEW p \in Procs, Write(p)
  PROVE  KV!Next
<1> DEFINE k == req[p].key
           r == req[p].rv
<1> USE DEF Write, counterVars
<1>1. k \in Keys /\ req[p] \in Req /\ req[p].cur = file[k] /\ r \in 1 .. Load(rvFile)
  BY DEF CtlInv, ReqInv, Req, CurInv, CurOK
<1>2. KV!Fresh(k, r) BY DrawnIsFresh
<1>3. file' = [file EXCEPT ![k] = NewObj(req[p])] /\ Load(rvFile)' = Load(rvFile)
  BY DEF Load
<1> HIDE DEF Write, counterVars
<1>4. CASE file[k] = None
  <2>1. NewObj(req[p]) = [rv |-> r, uid |-> r, gen |-> 0]
    BY <1>1, <1>4 DEF NewObj
  <2>2. KV!Create(k) BY <1>1, <1>2, <1>3, <1>4, <2>1 DEF KV!Create
  <2> QED BY <1>1, <2>2 DEF KV!Next
<1>5. CASE file[k] # None
  <2>1. NewObj(req[p]) = [rv |-> r, uid |-> file[k].uid, gen |-> file[k].gen + 1]
    BY <1>1, <1>5 DEF NewObj
  <2>2. KV!Update(k) BY <1>1, <1>2, <1>3, <1>5, <2>1 DEF KV!Update
  <2> QED BY <1>1, <2>2 DEF KV!Next
<1> QED BY <1>4, <1>5

\* The removal of the file is the instant of a Delete.
LEMMA DeleteRefines ==
  ASSUME CtlInv, NEW p \in Procs, AdmitDelete(p)
  PROVE  KV!Next
<1>1. req[p].key \in Keys /\ file[req[p].key] # None
  BY DEF AdmitDelete, MayProceed, CtlInv, ReqInv, Req
<1>2. /\ file' = [file EXCEPT ![req[p].key] = None]
      /\ Load(rvFile)' = Load(rvFile)
  BY DEF AdmitDelete, counterVars, Load
<1>3. KV!Delete(req[p].key) BY <1>1, <1>2 DEF KV!Delete
<1> QED BY <1>1, <1>3 DEF KV!Next

\* Persisting the counter issues a resourceVersion.
LEMMA PersistRefines ==
  ASSUME CtlInv, NEW p \in Procs, Persist(p)
  PROVE  KV!Next
<1>1. cmu = p /\ rv \in Nat \ {0} BY DEF Persist, CtlInv, CounterInv, TypeOK
<1>2. Load(rvFile)' = rv /\ file' = file BY <1>1 DEF Persist, Load
<1>3. rv = Load(rvFile) + 1
  BY <1>1, ConstantsAssumption DEF CtlInv, CounterInv
<1> QED BY <1>2, <1>3 DEF KV!Next, KV!Issue

LEMMA StepRefines ==
  ASSUME CtlInv, RVInv, CurInv, [Next]_vars
  PROVE  [KV!Next]_(KV!vars)
<1>1. ASSUME UNCHANGED <<file, rvFile>> PROVE UNCHANGED KV!vars
  BY <1>1 DEF KV!vars, Load
<1>2. ASSUME NEW p \in Procs, LocalStep(p) PROVE [KV!Next]_(KV!vars)
  <2>1. ASSUME NEW k \in Keys, Get(p, k) PROVE UNCHANGED KV!vars
    BY <1>1, <2>1 DEF Get, counterVars
  <2>2. ASSUME Lock(p) \/ \E k \in Keys, o \in Ops, pre \in {0, got[p]} : Call(p, k, o, pre)
        PROVE  UNCHANGED KV!vars
    BY <1>1, <2>2 DEF Call, Lock, counterVars
  <2>3. CASE Reject(p) \/ AdmitWrite(p) \/ Bump(p) \/ PersistFail(p) \/ WriteFail(p)
    BY <1>1, <2>3 DEF Reject, AdmitWrite, Bump, PersistFail, WriteFail, counterVars
  <2> QED BY <1>2, <2>1, <2>2, <2>3, WriteRefines, DeleteRefines, PersistRefines
          DEF LocalStep
<1>3. ASSUME NEW p \in Procs, Publish(p) \/ PublishHangs(p) PROVE UNCHANGED KV!vars
  BY <1>1, <1>3 DEF Publish, PublishHangs, counterVars
<1>4. ASSUME Crash PROVE UNCHANGED KV!vars
  BY <1>1, <1>4 DEF Crash
<1>5. ASSUME UNCHANGED vars PROVE UNCHANGED KV!vars
  BY <1>1, <1>5 DEF vars
<1> QED BY <1>2, <1>3, <1>4, <1>5 DEF Next

\* Linearisability and durability for any number of keys, goroutines, faults
\* and restarts: every step of the store is one atomic step of the map.
THEOREM Refinement == Spec => Implements
<1>1. Init => KV!Init BY DEF Init, KV!Init, Load
<1>2. CtlInv /\ RVInv /\ CurInv /\ [Next]_vars => [KV!Next]_(KV!vars)
  BY StepRefines
<1> QED BY CtlAlways, RVAlways, CurAlways, <1>1, <1>2, PTL
        DEF Spec, Implements, KV!Spec

-----------------------------------------------------------------------------
(* ListWatch: the inductive invariant *)

LWTypes ==
  /\ wpc \in [Watchers -> {"off", "listing", "snap", "live"}]
  /\ todo \in [Watchers -> SUBSET Keys]
  /\ cache \in [Watchers -> [Keys -> Obj \cup {None}]]
  /\ cursor \in [Watchers -> Nat]
  /\ overtaken \in [Watchers -> SUBSET Keys]

\* Who takes a snapshot holds broadcaster.mu, and every list or snapshot that
\* is over was complete.
LWControl ==
  \A w \in Watchers :
    /\ wpc[w] = "snap" => bmu = w
    /\ wpc[w] \in {"off", "live"} => todo[w] = {}

\* The ring holds published events, those of one key in the order of their
\* versions, and all of them if they were published so.
RingInv ==
  /\ \A k \in Keys : \A m \in DOMAIN log[k] : log[k][m].key = k
  /\ \A i \in DOMAIN ring : \E m \in DOMAIN log[ring[i].key] : log[ring[i].key][m] = ring[i]
  /\ \A i, j \in DOMAIN ring :
       i < j /\ (inOrder \/ ring[i].key = ring[j].key) => ring[i].obj.rv < ring[j].obj.rv

\* A client that has a version to go on from.
Following(w) == wpc[w] # "off" \/ cursor[w] # 0

\* An event is in the ring, or older than all of the ring.
InWindow(e) ==
  \/ \E j \in DOMAIN ring : ring[j] = e
  \/ ring # << >> /\ e.obj.rv < ring[1].obj.rv

\* While events are in order, those that have left the ring since the last
\* start have left it in order.  An event that is not in the window is from
\* before the last start, and older than every version drawn since and every
\* cursor that was not overtaken.
WindowInv ==
  inOrder =>
    \A k \in Keys : \A m \in DOMAIN log[k] :
      InWindow(log[k][m]) \/
        /\ \A p \in Stamped : log[k][m].obj.rv < req[p].rv
        /\ \A w \in Watchers : Following(w) /\ k \notin overtaken[w] =>
             log[k][m].obj.rv <= cursor[w]

\* An event about k that the client's cursor has not passed.
Missing(w, k) == \E m \in DOMAIN log[k] : log[k][m].obj.rv > cursor[w]

\* The client knows what the events have said, or it has read the file of a
\* change that is about to be announced.
Synced(w, k) ==
  \/ cache[w][k] = Announced(k)
  \/ Pending(k) /\ cache[w][k] = file[k]

\* A client is synced about what it has read, from its subscription on or as
\* long as its cursor tells what it lacks.
SyncedInv ==
  \A w \in Watchers, k \in Keys :
    /\ Following(w)
    /\ k \notin todo[w] /\ k \notin overtaken[w] /\ ~dropped[k]
    /\ wpc[w] \in {"snap", "live"} \/ ~Missing(w, k)
    => Synced(w, k)

LWInv == LWTypes /\ LWControl /\ RingInv /\ WindowInv /\ SyncedInv

-----------------------------------------------------------------------------
(* The store's part *)

\* The clients change nothing of the store.
LEMMA StoreStep ==
  ASSUME [LWNext]_allVars
  PROVE  [Next]_vars
BY DEF LWNext, allVars, Next, PublishTo, CrashAll, ListStart, ListRead, SnapRead, ListEnd,
       SnapStart, Subscribe, Resume, Gone, Disconnect

\* A store with clients that list and watch is still the store: every theorem
\* about FSStore, and its refinement of the atomic map, holds beside GetList,
\* Watch and any number of subscribed clients.
THEOREM StoreUnderneath == LWSpec => Spec /\ Implements
<1>1. LWInit => Init BY DEF LWInit
<1>2. [LWNext]_allVars => [Next]_vars BY StoreStep
<1>3. LWSpec => Spec BY <1>1, <1>2, PTL DEF LWSpec, Spec
<1> QED BY <1>3, Refinement, PTL

LEMMA StoreAlways == LWSpec => [](CtlInv /\ RVInv /\ AnnInv)
BY StoreUnderneath, CtlAlways, RVAlways, AnnAlways, PTL

\* The largest number of a non-empty set of positions.
LEMMA LastIsLast ==
  ASSUME NEW n \in Nat, NEW S, S \subseteq 1 .. n, S # {}
  PROVE  Last(S) \in S /\ \A j \in S : j <= Last(S)
<1>1. PICK T : T = {n - i : i \in S} OBVIOUS
<1>2. T \subseteq Nat /\ T # {}
  <2>1. \A i \in S : n - i \in Nat OBVIOUS
  <2> QED BY <1>1, <2>1
<1>3. PICK R : R = OpToRel(<, Nat) OBVIOUS
<1>4. IsWellFoundedOn(R, Nat) BY <1>3, NatLessThanWellFounded
<1>5. PICK x \in T : \A y \in T : ~ (<<y, x>> \in R) BY <1>2, <1>4, WFMin
<1>6. PICK i \in S : x = n - i BY <1>1
<1>7. ASSUME NEW j \in S PROVE j <= i
  <2>1. i \in 1 .. n /\ j \in 1 .. n /\ n - j \in T /\ n - j \in Nat /\ n - i \in Nat
    BY <1>1, <1>2
  <2>2. n - j < n - i => <<n - j, n - i>> \in R BY <1>3, <2>1 DEF OpToRel
  <2> QED BY <1>5, <1>6, <2>1, <2>2
<1> QED BY <1>7 DEF Last

\* publish appends to the ring and drops what is beyond its capacity from the
\* front, never the new event.
LEMMA PushRingIs ==
  ASSUME NEW s \in Seq(Event), NEW e \in Event
  PROVE  \E d \in 0 .. Len(s) :
           /\ Len(PushRing(s, e)) = Len(s) + 1 - d
           /\ \A i \in 1 .. Len(s) - d : PushRing(s, e)[i] = s[i + d]
           /\ PushRing(s, e)[Len(s) + 1 - d] = e
<1>1. PICK t : t = Append(s, e) OBVIOUS
<1>2. /\ t \in Seq(Event) /\ Len(t) = Len(s) + 1 /\ t[Len(s) + 1] = e
      /\ \A i \in 1 .. Len(s) : t[i] = s[i]
      /\ Len(s) \in Nat
  BY <1>1
<1>3. CASE Len(t) > Cap
  <2>1. PICK d : d = Len(t) - Cap OBVIOUS
  <2>2. d \in 1 .. Len(s) BY <1>2, <1>3, <2>1, ConstantsAssumption
  <2>3. PushRing(s, e) = SubSeq(t, d + 1, Len(t)) BY <1>1, <1>3, <2>1 DEF PushRing
  <2>4. /\ Len(SubSeq(t, d + 1, Len(t))) = Len(t) - d
        /\ \A i \in 1 .. Len(t) - d : SubSeq(t, d + 1, Len(t))[i] = t[i + d]
    BY <1>2, <2>2
  <2>5. \A i \in 1 .. Len(s) - d : SubSeq(t, d + 1, Len(t))[i] = s[i + d]
    BY <1>2, <2>2, <2>4
  <2>6. SubSeq(t, d + 1, Len(t))[Len(s) + 1 - d] = e BY <1>2, <2>2, <2>4
  <2>7. d \in 0 .. Len(s) /\ Len(t) - d = Len(s) + 1 - d BY <1>2, <2>2
  <2> QED BY <2>3, <2>4, <2>5, <2>6, <2>7
<1>4. CASE ~(Len(t) > Cap)
  <2>1. PushRing(s, e) = t BY <1>1, <1>4 DEF PushRing
  <2>2. /\ 0 \in 0 .. Len(s)
        /\ Len(t) = Len(s) + 1 - 0
        /\ \A i \in 1 .. Len(s) - 0 : t[i] = s[i + 0]
        /\ t[Len(s) + 1 - 0] = e
    BY <1>2
  <2> QED BY <2>1, <2>2
<1> QED BY <1>3, <1>4

LEMMA LWInitial == LWInit => LWInv
<1> SUFFICES ASSUME LWInit PROVE LWInv
  OBVIOUS
<1> USE DEF LWInit, Init
<1>1. LWTypes BY DEF LWTypes
<1>2. LWControl BY DEF LWControl
<1>3. RingInv BY DEF RingInv
<1>4. WindowInv BY DEF WindowInv
<1>5. SyncedInv BY DEF SyncedInv, Following
<1> QED BY <1>1, <1>2, <1>3, <1>4, <1>5 DEF LWInv

-----------------------------------------------------------------------------
(* A step of a request that announces nothing *)

LEMMA LocalKeeps ==
  ASSUME CtlInv, RVInv, NEW p \in Procs, LocalStep(p)
  PROVE  /\ UNCHANGED <<ring, log>>
         /\ \A q \in Procs : q # p => pc'[q] = pc[q] /\ req'[q] = req[q]
         /\ \A k \in Keys : dropped[k] => dropped'[k]
<1> USE DEF CtlInv, TypeOK, Return, counterVars
<1>1. ASSUME Lock(p) \/ \E k \in Keys : Get(p, k) \/ \E o, pre : Call(p, k, o, pre)
      PROVE  /\ UNCHANGED <<ring, log, dropped>>
             /\ \A q \in Procs : q # p => pc'[q] = pc[q] /\ req'[q] = req[q]
  BY <1>1 DEF Get, Call, Lock
<1>2. CASE Reject(p) \/ AdmitWrite(p) \/ AdmitDelete(p) \/ Bump(p) \/ Persist(p) \/ Write(p)
             \/ WriteFail(p)
  BY <1>2 DEF Reject, AdmitWrite, AdmitDelete, Bump, Persist, Write, WriteFail
<1>3. CASE PersistFail(p)
  <2>1. \A k \in Keys : dropped[k] => dropped'[k] BY <1>3 DEF PersistFail
  <2> QED BY <1>3, <2>1 DEF PersistFail
<1> HIDE DEF CtlInv, TypeOK
<1> QED BY <1>1, <1>2, <1>3 DEF LocalStep

\* A version drawn in the step is larger than every version announced.
LEMMA LocalStamps ==
  ASSUME CtlInv, RVInv, NEW p \in Procs, LocalStep(p), NEW q \in Stamped'
  PROVE  \/ q \in Stamped /\ req'[q] = req[q]
         \/ \A k \in Keys : \A m \in DOMAIN log[k] : log[k][m].obj.rv < req'[q].rv
<1>1. CASE q # p BY <1>1, LocalKeeps DEF Stamped
<1>2. CASE q = p /\ Persist(p)
  <2>1. cmu = p /\ rv \in Nat /\ rvFile \in Nat
    BY <1>2 DEF Persist, CtlInv, CounterInv, TypeOK
  <2>2. rv = Load(rvFile) + 1 BY <2>1, ConstantsAssumption DEF CtlInv, CounterInv
  <2>3. req[p] \in Req /\ req'[p] = [req[p] EXCEPT !.rv = rv]
    BY <1>2 DEF Persist, CtlInv, ReqInv, TypeOK
  <2>4. req'[p].rv = rv BY <2>3 DEF Req
  <2>5. ASSUME NEW k \in Keys, NEW m \in DOMAIN log[k]
        PROVE  log[k][m].obj.rv \in Nat /\ log[k][m].obj.rv <= Load(rvFile)
    <3>1. log[k][m] \in Event BY <2>5 DEF CtlInv, TypeOK
    <3> QED BY <2>5, <3>1 DEF Event, Obj, RVInv, RVBounds
  <2>6. Load(rvFile) \in Nat BY <2>1, LoadNat
  <2> QED BY <1>2, <2>2, <2>4, <2>5, <2>6
<1>3. CASE q = p /\ ~ Persist(p)
  <2> USE DEF CtlInv, TypeOK
  <2>1. pc'[p] \in {"write", "publish"} BY <1>3 DEF Stamped
  <2>2. ASSUME Lock(p) \/ \E k \in Keys : Get(p, k) \/ \E o, pre : Call(p, k, o, pre) PROVE FALSE
    BY <2>1, <2>2 DEF Get, Call, Lock
  <2>3. ~ (Reject(p) \/ AdmitWrite(p) \/ AdmitDelete(p) \/ Bump(p) \/ PersistFail(p)
             \/ WriteFail(p))
    BY <2>1 DEF Reject, AdmitWrite, AdmitDelete, Bump, PersistFail, WriteFail, Return
  <2>4. Write(p) BY <1>3, <2>2, <2>3 DEF LocalStep
  <2> QED BY <1>3, <2>4 DEF Write, Stamped
<1> QED BY <1>1, <1>2, <1>3

\* A change that is about to be announced stays so, and its file with it,
\* unless the event is dropped: nobody else may change the file of a locked
\* key.
LEMMA LocalPending ==
  ASSUME CtlInv, RVInv, NEW p \in Procs, LocalStep(p), NEW k \in Keys, Pending(k),
         ~ dropped'[k]
  PROVE  Pending(k)' /\ file'[k] = file[k]
<1>1. PICK q \in Procs : Unannounced(q) /\ req[q].key = k BY DEF Pending
<1>2. pc[q] \notin {"idle", "lock"} /\ lock[k] = q /\ req[q] \in Req
  BY <1>1 DEF Unannounced, CtlInv, LockInv, ReqInv
<1>3. CASE q # p
  <2>1. Unannounced(q)' /\ req'[q].key = k BY <1>1, <1>3, LocalKeeps DEF Unannounced
  <2>2. pc[p] \notin {"idle", "lock"} => req[p].key # k BY <1>2, <1>3 DEF CtlInv, LockInv
  <2>3. file'[k] = file[k]
    <3> USE DEF CtlInv, TypeOK
    <3>1. ASSUME Lock(p) \/ \E j \in Keys : Get(p, j) \/ \E o, pre : Call(p, j, o, pre)
          PROVE  file'[k] = file[k]
      BY <3>1 DEF Get, Call, Lock
    <3>2. CASE Reject(p) \/ AdmitWrite(p) \/ Bump(p) \/ Persist(p) \/ PersistFail(p)
                 \/ WriteFail(p)
      BY <3>2 DEF Reject, AdmitWrite, Bump, Persist, PersistFail, WriteFail
    <3>3. CASE AdmitDelete(p) \/ Write(p) BY <2>2, <3>3 DEF AdmitDelete, Write
    <3> QED BY <3>1, <3>2, <3>3 DEF LocalStep
  <2> QED BY <2>1, <2>3 DEF Pending
<1>4. CASE q = p
  <2>1. pc[p] = "publish" \/ (pc[p] \in {"next", "persist"} /\ req[p].op = "delete")
    BY <1>1, <1>4 DEF Unannounced
  <2>2. ASSUME Lock(p) \/ \E j \in Keys : Get(p, j) \/ \E o, pre : Call(p, j, o, pre) PROVE FALSE
    BY <2>1, <2>2 DEF Get, Call, Lock
  <2>3. ~ (Reject(p) \/ AdmitWrite(p) \/ AdmitDelete(p) \/ Write(p) \/ WriteFail(p))
    BY <2>1 DEF Reject, AdmitWrite, AdmitDelete, Write, WriteFail
  <2>4. CASE Bump(p)
    BY <1>1, <1>4, <2>1, <2>4 DEF Bump, CtlInv, TypeOK, Pending, Unannounced
  <2>5. CASE Persist(p)
    <3>1. req'[p] = [req[p] EXCEPT !.rv = rv] /\ req[p].op = "delete" /\ pc'[p] = "publish"
          /\ file' = file
      BY <2>1, <2>5 DEF Persist, CtlInv, TypeOK
    <3>2. req'[p].key = k BY <1>1, <1>2, <1>4, <3>1 DEF Req
    <3> QED BY <3>1, <3>2 DEF Pending, Unannounced
  <2>6. ~ PersistFail(p)
    <3> SUFFICES ASSUME PersistFail(p) PROVE FALSE
      OBVIOUS
    <3>1. dropped'[k] = (dropped[k] \/ req[p].op = "delete")
      BY <1>1, <1>4 DEF PersistFail, CtlInv, TypeOK
    <3>2. req[p].op = "delete" BY <2>1 DEF PersistFail
    <3> QED BY <3>1, <3>2
  <2> QED BY <2>2, <2>3, <2>4, <2>5, <2>6 DEF LocalStep
<1> QED BY <1>3, <1>4

LEMMA LWLocal ==
  ASSUME CtlInv, RVInv, LWInv, NEW p \in Procs, LocalStep(p), UNCHANGED wvars
  PROVE  LWInv'
<1> USE DEF LWInv
<1>0. UNCHANGED <<ring, log>> BY LocalKeeps
<1>1. LWTypes' BY DEF LWTypes, wvars
<1>2. LWControl' BY DEF LWControl, wvars
<1>3. RingInv' BY <1>0 DEF RingInv, wvars
<1>4. WindowInv'
  <2> SUFFICES ASSUME inOrder, NEW k \in Keys, NEW m \in DOMAIN log[k],
                      ~ InWindow(log[k][m])
               PROVE  /\ \A q \in Stamped' : log[k][m].obj.rv < req'[q].rv
                      /\ \A w \in Watchers : Following(w) /\ k \notin overtaken[w] =>
                           log[k][m].obj.rv <= cursor[w]
    BY <1>0 DEF WindowInv, InWindow, Following, wvars
  <2>1. /\ \A q \in Stamped : log[k][m].obj.rv < req[q].rv
        /\ \A w \in Watchers : Following(w) /\ k \notin overtaken[w] =>
             log[k][m].obj.rv <= cursor[w]
    BY DEF WindowInv
  <2> QED BY <2>1, LocalStamps
<1>5. SyncedInv'
  <2> SUFFICES ASSUME NEW w \in Watchers, NEW k \in Keys,
                      Following(w), k \notin todo[w], k \notin overtaken[w], ~ dropped'[k],
                      wpc[w] \in {"snap", "live"} \/ ~ Missing(w, k)
               PROVE  Synced(w, k)'
    BY <1>0 DEF SyncedInv, Following, Missing, wvars
  <2>1. ~ dropped[k] BY LocalKeeps
  <2>2. Announced(k)' = Announced(k) /\ cache' = cache BY <1>0 DEF Announced, wvars
  <2>3. CASE cache[w][k] = Announced(k) BY <2>2, <2>3 DEF Synced
  <2>4. CASE Pending(k) /\ cache[w][k] = file[k]
    <3>1. Pending(k)' /\ file'[k] = file[k] BY <2>4, LocalPending
    <3> QED BY <2>2, <2>4, <3>1 DEF Synced
  <2> QED BY <2>1, <2>3, <2>4 DEF SyncedInv, Synced
<1> QED BY <1>1, <1>2, <1>3, <1>4, <1>5

-----------------------------------------------------------------------------
(* publish *)

\* What publish(e) does to the events, e being newer than every event of its
\* key.
Publishes(key, e) ==
  /\ key \in Keys /\ e \in Event /\ e.key = key
  /\ \A m \in DOMAIN log[key] : log[key][m].obj.rv < e.obj.rv
  /\ ring' = PushRing(ring, e)
  /\ log' = [log EXCEPT ![key] = Append(@, e)]
  /\ inOrder' => inOrder /\ (ring # << >> => ring[Len(ring)].obj.rv < e.obj.rv)

\* An event of the log is an old one or the new one.
LEMMA PublishLog ==
  ASSUME CtlInv, NEW key, NEW e, Publishes(key, e)
  PROVE  /\ log'[key] # << >> /\ log'[key][Len(log'[key])] = e
         /\ Len(log'[key]) \in DOMAIN log'[key]
         /\ \A k \in Keys : k # key => log'[k] = log[k]
         /\ \A k \in Keys : \A m \in DOMAIN log[k] :
              m \in DOMAIN log'[k] /\ log'[k][m] = log[k][m]
         /\ \A k \in Keys : \A m \in DOMAIN log'[k] :
              \/ m \in DOMAIN log[k] /\ log'[k][m] = log[k][m]
              \/ k = key /\ log'[k][m] = e
<1>1. /\ log[key] \in Seq(Event) /\ e \in Event
      /\ log'[key] = Append(log[key], e)
      /\ \A k \in Keys : k # key => log'[k] = log[k]
  BY DEF Publishes, CtlInv, TypeOK
<1>2. /\ Len(log[key]) \in Nat
      /\ Len(log'[key]) = Len(log[key]) + 1
      /\ DOMAIN log[key] = 1 .. Len(log[key])
      /\ DOMAIN log'[key] = 1 .. Len(log[key]) + 1
      /\ log'[key][Len(log[key]) + 1] = e
      /\ \A m \in 1 .. Len(log[key]) : log'[key][m] = log[key][m]
  BY <1>1
<1>3. log'[key] # << >> BY <1>1
<1>4. Len(log'[key]) \in DOMAIN log'[key] /\ log'[key][Len(log'[key])] = e BY <1>2
<1>5. ASSUME NEW k \in Keys, NEW m \in DOMAIN log[k]
      PROVE  m \in DOMAIN log'[k] /\ log'[k][m] = log[k][m]
  <2>1. CASE k = key BY <1>2, <1>5, <2>1
  <2>2. CASE k # key BY <1>1, <1>5, <2>2
  <2> QED BY <2>1, <2>2
<1>6. ASSUME NEW k \in Keys, NEW m \in DOMAIN log'[k]
      PROVE  \/ m \in DOMAIN log[k] /\ log'[k][m] = log[k][m]
             \/ k = key /\ log'[k][m] = e
  <2>1. CASE k = key
    <3>1. m \in 1 .. Len(log[key]) \/ m = Len(log[key]) + 1 BY <1>2, <1>6, <2>1
    <3> QED BY <1>2, <2>1, <3>1
  <2>2. CASE k # key BY <1>1, <1>6, <2>2
  <2> QED BY <2>1, <2>2
<1> QED BY <1>1, <1>3, <1>4, <1>5, <1>6

\* An entry of the ring is an old one, moved to the front, or the new one.
LEMMA PublishRing ==
  ASSUME CtlInv, NEW key, NEW e, Publishes(key, e)
  PROVE  \E d \in 0 .. Len(ring) :
           /\ Len(ring) \in Nat /\ DOMAIN ring = 1 .. Len(ring)
           /\ DOMAIN ring' = 1 .. Len(ring) + 1 - d
           /\ \A i \in 1 .. Len(ring) - d : ring'[i] = ring[i + d]
           /\ ring'[Len(ring) + 1 - d] = e
           /\ ring' # << >>
<1>1. ring \in Seq(Event) /\ e \in Event /\ ring' = PushRing(ring, e)
  BY DEF Publishes, CtlInv, TypeOK
<1>2. ring' \in Seq(Event) BY <1>1, PushRingType
<1>3. PICK d \in 0 .. Len(ring) :
           /\ Len(ring') = Len(ring) + 1 - d
           /\ \A i \in 1 .. Len(ring) - d : ring'[i] = ring[i + d]
           /\ ring'[Len(ring) + 1 - d] = e
  BY <1>1, PushRingIs
<1>4. Len(ring) \in Nat /\ DOMAIN ring = 1 .. Len(ring) /\ DOMAIN ring' = 1 .. Len(ring')
  BY <1>1, <1>2
<1>5. ring' # << >> BY <1>2, <1>3, <1>4
<1> QED BY <1>3, <1>4, <1>5

LEMMA RingRV ==
  ASSUME CtlInv
  PROVE  /\ \A i \in DOMAIN ring : ring[i].obj.rv \in Nat /\ ring[i].key \in Keys
         /\ \A k \in Keys : \A m \in DOMAIN log[k] : log[k][m].obj.rv \in Nat
<1>1. \A i \in DOMAIN ring : ring[i] \in Event BY DEF CtlInv, TypeOK
<1>2. \A k \in Keys : \A m \in DOMAIN log[k] : log[k][m] \in Event BY DEF CtlInv, TypeOK
<1> QED BY <1>1, <1>2 DEF Event, Obj

LEMMA PublishKeepsRing ==
  ASSUME CtlInv, RingInv, NEW key, NEW e, Publishes(key, e)
  PROVE  RingInv'
<1>1. \A k \in Keys : \A m \in DOMAIN log'[k] : log'[k][m].key = k
  BY PublishLog DEF RingInv, Publishes
<1>2. PICK d \in 0 .. Len(ring) :
           /\ Len(ring) \in Nat /\ DOMAIN ring = 1 .. Len(ring)
           /\ DOMAIN ring' = 1 .. Len(ring) + 1 - d
           /\ \A i \in 1 .. Len(ring) - d : ring'[i] = ring[i + d]
           /\ ring'[Len(ring) + 1 - d] = e
  BY PublishRing
<1>3. ASSUME NEW i \in DOMAIN ring'
      PROVE  \/ i + d \in DOMAIN ring /\ ring'[i] = ring[i + d]
             \/ i = Len(ring) + 1 - d /\ ring'[i] = e
  <2>1. CASE i = Len(ring) + 1 - d BY <1>2, <2>1
  <2>2. CASE i # Len(ring) + 1 - d
    <3>1. i \in 1 .. Len(ring) - d /\ i + d \in 1 .. Len(ring) BY <1>2, <1>3, <2>2
    <3> QED BY <1>2, <3>1
  <2> QED BY <2>1, <2>2
<1>4. ASSUME NEW i \in DOMAIN ring'
      PROVE  \E m \in DOMAIN log'[ring'[i].key] : log'[ring'[i].key][m] = ring'[i]
  <2>1. CASE ring'[i] = e
    <3>1. key \in Keys /\ e.key = key BY DEF Publishes
    <3>2. Len(log'[key]) \in DOMAIN log'[key] /\ log'[key][Len(log'[key])] = e
      BY PublishLog
    <3> QED BY <2>1, <3>1, <3>2
  <2>2. CASE i + d \in DOMAIN ring /\ ring'[i] = ring[i + d]
    <3>1. PICK m \in DOMAIN log[ring[i + d].key] : log[ring[i + d].key][m] = ring[i + d]
      BY <2>2 DEF RingInv
    <3>2. ring[i + d].key \in Keys BY <2>2, RingRV
    <3> QED BY <2>2, <3>1, <3>2, PublishLog
  <2> QED BY <1>3, <2>1, <2>2
<1>5. ASSUME NEW i \in DOMAIN ring', NEW j \in DOMAIN ring', i < j,
             inOrder' \/ ring'[i].key = ring'[j].key
      PROVE  ring'[i].obj.rv < ring'[j].obj.rv
  <2>1. i + d \in DOMAIN ring /\ ring'[i] = ring[i + d] BY <1>2, <1>5
  <2>2. CASE j + d \in DOMAIN ring /\ ring'[j] = ring[j + d]
    <3>1. i + d < j + d BY <1>2, <1>5
    <3>2. inOrder' => inOrder BY DEF Publishes
    <3> QED BY <1>5, <2>1, <2>2, <3>1, <3>2 DEF RingInv
  <2>3. CASE ring'[j] = e
    <3>1. CASE inOrder'
      <4>1. inOrder /\ ring[Len(ring)].obj.rv < e.obj.rv
        <5>1. ring # << >> BY <1>2, <2>1
        <5> QED BY <3>1, <5>1 DEF Publishes
      <4>2. i + d = Len(ring) \/ ring[i + d].obj.rv < ring[Len(ring)].obj.rv
        BY <1>2, <2>1, <4>1 DEF RingInv
      <4>3. /\ ring[i + d].obj.rv \in Nat /\ ring[Len(ring)].obj.rv \in Nat
            /\ e.obj.rv \in Nat
        <5>1. Len(ring) \in DOMAIN ring BY <1>2, <2>1
        <5>2. e \in Event BY DEF Publishes
        <5> QED BY <2>1, <5>1, <5>2, RingRV DEF Event, Obj
      <4> QED BY <2>1, <2>3, <4>1, <4>2, <4>3
    <3>2. CASE ring'[i].key = ring'[j].key
      <4>1. ring[i + d].key = key BY <2>1, <2>3, <3>2 DEF Publishes
      <4>2. PICK m \in DOMAIN log[key] : log[key][m] = ring[i + d]
        BY <2>1, <4>1 DEF RingInv
      <4> QED BY <2>1, <2>3, <4>2 DEF Publishes
    <3> QED BY <1>5, <3>1, <3>2
  <2> QED BY <1>3, <2>2, <2>3
<1> QED BY <1>1, <1>4, <1>5 DEF RingInv

\* What was in the window of a ring in order, or before it, still is.
LEMMA PublishKeepsWindow ==
  ASSUME CtlInv, RingInv, NEW key, NEW e, Publishes(key, e), inOrder',
         NEW x \in Event, InWindow(x)
  PROVE  InWindow(x)'
<1>1. PICK d \in 0 .. Len(ring) :
           /\ Len(ring) \in Nat /\ DOMAIN ring = 1 .. Len(ring)
           /\ DOMAIN ring' = 1 .. Len(ring) + 1 - d
           /\ \A i \in 1 .. Len(ring) - d : ring'[i] = ring[i + d]
           /\ ring'[Len(ring) + 1 - d] = e
           /\ ring' # << >>
  BY PublishRing
<1>2. ring # << >> /\ 1 \in DOMAIN ring BY <1>1 DEF InWindow
<1>3. inOrder /\ ring[Len(ring)].obj.rv < e.obj.rv BY <1>2 DEF Publishes
<1>4. e.obj.rv \in Nat /\ x.obj.rv \in Nat BY DEF Publishes, Event, Obj
<1>5. ASSUME NEW i \in DOMAIN ring, i <= d PROVE ring[i].obj.rv < ring'[1].obj.rv
  <2>1. CASE d < Len(ring)
    <3>1. ring'[1] = ring[1 + d] BY <1>1, <2>1
    <3>2. 1 + d \in DOMAIN ring /\ i < 1 + d BY <1>1, <1>5, <2>1
    <3> QED BY <1>3, <3>1, <3>2 DEF RingInv
  <2>2. CASE d = Len(ring)
    <3>1. ring'[1] = e BY <1>1, <2>2
    <3>2. Len(ring) \in DOMAIN ring BY <1>1, <1>2
    <3>3. i = Len(ring) \/ ring[i].obj.rv < ring[Len(ring)].obj.rv
      BY <1>1, <1>3, <1>5, <3>2 DEF RingInv
    <3>4. ring[i].obj.rv \in Nat /\ ring[Len(ring)].obj.rv \in Nat BY <1>5, <3>2, RingRV
    <3> QED BY <1>3, <1>4, <3>1, <3>3, <3>4
  <2>3. Len(ring) \in Nat BY <1>1
  <2>4. d < Len(ring) \/ d = Len(ring) BY <2>3
  <2> QED BY <2>1, <2>2, <2>4
<1>6. ASSUME NEW j \in DOMAIN ring, ring[j] = x PROVE InWindow(x)'
  <2>1. CASE j <= d BY <1>1, <1>5, <1>6, <2>1 DEF InWindow
  <2>2. CASE d < j
    <3>1. j - d \in DOMAIN ring' /\ ring'[j - d] = ring[j] BY <1>1, <1>6, <2>2
    <3> QED BY <1>6, <3>1 DEF InWindow
  <2> QED BY <1>1, <2>1, <2>2
<1>7. ASSUME x.obj.rv < ring[1].obj.rv PROVE InWindow(x)'
  <2>1. CASE d = 0
    <3>1. ring'[1] = ring[1] BY <1>1, <1>2, <2>1
    <3> QED BY <1>1, <1>7, <3>1 DEF InWindow
  <2>2. CASE d # 0
    <3>1. ring[1].obj.rv < ring'[1].obj.rv BY <1>1, <1>2, <1>5, <2>2
    <3>2. ring[1].obj.rv \in Nat BY <1>2, RingRV
    <3>3. 1 \in DOMAIN ring' BY <1>1
    <3>4. ring'[1].obj.rv \in Nat
      <4>1. ring' \in Seq(Event) BY PushRingType DEF Publishes, CtlInv, TypeOK
      <4>2. ring'[1] \in Event BY <3>3, <4>1
      <4> QED BY <4>2 DEF Event, Obj
    <3> QED BY <1>1, <1>4, <1>7, <3>1, <3>2, <3>4 DEF InWindow
  <2> QED BY <2>1, <2>2
<1> QED BY <1>6, <1>7 DEF InWindow

\* A publish as the clients see it, the event named once and for all.
PublishesTo(p, key, e) ==
  /\ bmu = None
  /\ Publishes(key, e)
  /\ p \in Stamped /\ req[p].key = key /\ req[p].rv = e.obj.rv
  /\ \A q \in Procs : q # p => pc'[q] = pc[q] /\ req'[q] = req[q]
  /\ pc'[p] = "idle" /\ file' = file
  /\ \A k \in Keys : k # key => dropped'[k] = dropped[k]
  /\ \A w \in Live : /\ cache'[w] = [cache[w] EXCEPT ![key] = Applied(e)]
                     /\ cursor'[w] = e.obj.rv
                     /\ overtaken'[w] = overtaken[w] \ {key}
  /\ \A w \in Watchers \ Live :
       /\ cache'[w] = cache[w] /\ cursor'[w] = cursor[w]
       /\ overtaken[w] \subseteq overtaken'[w]
       /\ e.obj.rv <= cursor[w] => key \in overtaken'[w]
  /\ UNCHANGED <<bmu, wpc, todo>>

LEMMA PublishIs ==
  ASSUME CtlInv, RVInv, LWTypes, NEW p \in Procs, PublishTo(p)
  PROVE  \E key, e : PublishesTo(p, key, e)
<1>1. PICK key, e : key = req[p].key /\ e = EventOf(req[p]) OBVIOUS
<1>2. pc[p] = "publish" /\ req[p] \in Req /\ (req[p].op = "delete" => req[p].cur \in Obj)
  BY DEF PublishTo, Publish, Announce, CtlInv, ReqInv
<1>3. key \in Keys /\ e \in Event /\ e.key = key /\ e.obj.rv = req[p].rv
  BY <1>1, <1>2, EventOfType DEF Req
<1>4. p \in Stamped BY <1>2 DEF Stamped
<1>5. /\ ring' = PushRing(ring, e) /\ log' = [log EXCEPT ![key] = Append(@, e)]
      /\ dropped' = [dropped EXCEPT ![key] = FALSE] /\ file' = file
      /\ pc' = [pc EXCEPT ![p] = "idle"] /\ req' = [req EXCEPT ![p] = None]
  BY <1>1, <1>3 DEF PublishTo, Publish, Announce, Return
<1>6. inOrder' => inOrder /\ (ring # << >> => ring[Len(ring)].obj.rv < e.obj.rv)
  BY <1>1 DEF PublishTo
<1>7. Publishes(key, e)
  BY <1>1, <1>3, <1>4, <1>5, <1>6 DEF Publishes, RVInv, StampFresh
<1>8. /\ \A q \in Procs : q # p => pc'[q] = pc[q] /\ req'[q] = req[q]
      /\ pc'[p] = "idle"
      /\ \A k \in Keys : k # key => dropped'[k] = dropped[k]
  BY <1>5 DEF CtlInv, TypeOK
<1>9. /\ cache' = [w \in Watchers |-> IF w \in Live
                        THEN [cache[w] EXCEPT ![key] = Applied(e)]
                        ELSE cache[w]]
      /\ cursor' = [w \in Watchers |->
                         IF w \in Live THEN e.obj.rv ELSE cursor[w]]
      /\ overtaken' = [w \in Watchers |->
              CASE w \in Live -> overtaken[w] \ {key}
                [] w \notin Live /\ e.obj.rv <= cursor[w] -> overtaken[w] \cup {key}
                [] OTHER -> overtaken[w]]
  BY <1>1, <1>3 DEF PublishTo
<1>10. ASSUME NEW w \in Live
       PROVE  /\ cache'[w] = [cache[w] EXCEPT ![key] = Applied(e)]
              /\ cursor'[w] = e.obj.rv
              /\ overtaken'[w] = overtaken[w] \ {key}
  <2>1. w \in Watchers BY DEF Live
  <2> QED BY <1>9, <1>10, <2>1
<1>11. ASSUME NEW w \in Watchers \ Live
       PROVE  /\ cache'[w] = cache[w] /\ cursor'[w] = cursor[w]
              /\ overtaken[w] \subseteq overtaken'[w]
              /\ e.obj.rv <= cursor[w] => key \in overtaken'[w]
  BY <1>9, <1>11
<1>12. bmu = None /\ UNCHANGED <<bmu, wpc, todo>> BY DEF PublishTo
<1>13. PublishesTo(p, key, e)
  BY <1>1, <1>3, <1>4, <1>5, <1>7, <1>8, <1>10, <1>11, <1>12 DEF PublishesTo
<1> QED BY <1>13

LEMMA PublishWindow ==
  ASSUME CtlInv, LWInv, NEW p, NEW key, NEW e, PublishesTo(p, key, e)
  PROVE  WindowInv'
<1>1. Publishes(key, e) BY DEF PublishesTo
<1> SUFFICES ASSUME inOrder', NEW k \in Keys, NEW m \in DOMAIN log'[k],
                    ~ InWindow(log[k][m])'
             PROVE  /\ \A q \in Stamped' : log'[k][m].obj.rv < req'[q].rv
                    /\ \A w \in Watchers : Following(w)' /\ k \notin overtaken'[w] =>
                         log'[k][m].obj.rv <= cursor'[w]
  BY DEF WindowInv
<1>2. log'[k][m] # e
  <2>1. \E j \in DOMAIN ring' : ring'[j] = e
    <3>1. PICK d \in 0 .. Len(ring) :
             /\ Len(ring) \in Nat
             /\ DOMAIN ring' = 1 .. Len(ring) + 1 - d
             /\ ring'[Len(ring) + 1 - d] = e
      BY <1>1, PublishRing
    <3>2. Len(ring) + 1 - d \in DOMAIN ring' BY <3>1
    <3> QED BY <3>1, <3>2
  <2> QED BY <2>1 DEF InWindow
<1>3. m \in DOMAIN log[k] /\ log'[k][m] = log[k][m] BY <1>1, <1>2, PublishLog
<1>4. PICK x : x = log[k][m] OBVIOUS
<1>5. ~ InWindow(x)' BY <1>3, <1>4 DEF InWindow
<1>6. x \in Event /\ x.obj.rv \in Nat
  <2>1. x \in Event BY <1>3, <1>4 DEF CtlInv, TypeOK
  <2> QED BY <2>1 DEF Event, Obj
<1>7. ~ InWindow(x) BY <1>1, <1>5, <1>6, PublishKeepsWindow DEF LWInv
<1>8. inOrder BY <1>1 DEF Publishes
<1>9. /\ \A q \in Stamped : x.obj.rv < req[q].rv
      /\ \A w \in Watchers : Following(w) /\ k \notin overtaken[w] => x.obj.rv <= cursor[w]
  BY <1>3, <1>4, <1>7, <1>8 DEF LWInv, WindowInv
<1>10. ASSUME NEW q \in Stamped' PROVE x.obj.rv < req'[q].rv
  <2>1. q # p /\ q \in Procs BY <1>10 DEF PublishesTo, Stamped
  <2>2. q \in Stamped /\ req'[q] = req[q] BY <1>10, <2>1 DEF PublishesTo, Stamped
  <2> QED BY <1>9, <2>2
<1>11. ASSUME NEW w \in Watchers, Following(w)', k \notin overtaken'[w]
       PROVE  x.obj.rv <= cursor'[w]
  <2>1. CASE w \in Live
    <3>1. x.obj.rv < e.obj.rv BY <1>9 DEF PublishesTo
    <3>2. e.obj.rv \in Nat BY <1>1 DEF Publishes, Event, Obj
    <3>3. cursor'[w] = e.obj.rv BY <2>1 DEF PublishesTo
    <3> QED BY <1>6, <3>1, <3>2, <3>3
  <2>2. CASE w \notin Live
    <3>1. /\ cursor'[w] = cursor[w] /\ overtaken[w] \subseteq overtaken'[w]
          /\ wpc'[w] = wpc[w]
      BY <2>2 DEF PublishesTo
    <3> QED BY <1>9, <1>11, <3>1 DEF Following
  <2> QED BY <2>1, <2>2
<1> QED BY <1>3, <1>4, <1>10, <1>11

LEMMA PublishSynced ==
  ASSUME CtlInv, LWInv, NEW p, NEW key, NEW e, PublishesTo(p, key, e)
  PROVE  SyncedInv'
<1>1. Publishes(key, e) /\ e \in Event /\ key \in Keys BY DEF PublishesTo, Publishes
<1> SUFFICES ASSUME NEW w \in Watchers, NEW k \in Keys,
                    Following(w)', k \notin todo'[w], k \notin overtaken'[w], ~ dropped'[k],
                    wpc'[w] \in {"snap", "live"} \/ ~ Missing(w, k)'
             PROVE  Synced(w, k)'
  BY DEF SyncedInv
<1>2. wpc' = wpc /\ todo' = todo /\ file' = file BY DEF PublishesTo
<1>3. wpc[w] # "snap" BY WatchersAssumption DEF LWInv, LWControl, PublishesTo
<1>4. CASE k = key
  <2>1. w \in Live
    <3> SUFFICES ASSUME w \notin Live PROVE FALSE
      OBVIOUS
    <3>1. ~ Missing(w, k)' BY <1>2, <1>3 DEF Live
    <3>2. cursor'[w] = cursor[w] /\ ~ (e.obj.rv <= cursor[w])
      BY <1>4 DEF PublishesTo
    <3>3. cursor[w] \in Nat /\ e.obj.rv \in Nat BY <1>1 DEF LWInv, LWTypes, Event, Obj
    <3>4. Len(log'[key]) \in DOMAIN log'[key] /\ log'[key][Len(log'[key])] = e
      BY <1>1, PublishLog
    <3> QED BY <1>4, <3>1, <3>2, <3>3, <3>4 DEF Missing
  <2>2. cache'[w][key] = Applied(e)
    <3>1. cache'[w] = [cache[w] EXCEPT ![key] = Applied(e)] BY <2>1 DEF PublishesTo
    <3>2. DOMAIN cache[w] = Keys BY DEF LWInv, LWTypes
    <3> QED BY <1>1, <3>1, <3>2
  <2>3. log'[key] # << >> /\ log'[key][Len(log'[key])] = e BY <1>1, PublishLog
  <2>4. Announced(key)' = Applied(e) BY <2>3 DEF Announced, Applied
  <2> QED BY <1>4, <2>2, <2>4 DEF Synced
<1>5. CASE k # key
  <2>1. log'[k] = log[k] BY <1>1, <1>5, PublishLog
  <2>2. ~ dropped[k] BY <1>5 DEF PublishesTo
  <2>3. cache'[w][k] = cache[w][k] /\ k \notin overtaken[w]
        /\ (w \notin Live => cursor'[w] = cursor[w])
    <3>1. CASE w \in Live
      <4>1. /\ cache'[w] = [cache[w] EXCEPT ![key] = Applied(e)]
            /\ overtaken'[w] = overtaken[w] \ {key}
        BY <3>1 DEF PublishesTo
      <4>2. DOMAIN cache[w] = Keys BY DEF LWInv, LWTypes
      <4> QED BY <1>5, <3>1, <4>1, <4>2
    <3>2. CASE w \notin Live BY <3>2 DEF PublishesTo
    <3> QED BY <3>1, <3>2
  <2>4. Following(w) /\ (wpc[w] = "live" \/ ~ Missing(w, k))
    BY <1>2, <1>3, <2>1, <2>3 DEF Live, Following, Missing
  <2>5. Synced(w, k) BY <1>2, <2>2, <2>3, <2>4 DEF LWInv, SyncedInv
  <2>6. Announced(k)' = Announced(k) BY <2>1 DEF Announced
  <2>7. ASSUME Pending(k) PROVE Pending(k)'
    <3>1. PICK q \in Procs : Unannounced(q) /\ req[q].key = k BY <2>7 DEF Pending
    <3>2. q # p BY <1>5, <3>1 DEF PublishesTo
    <3>3. Unannounced(q)' /\ req'[q].key = k BY <3>1, <3>2 DEF PublishesTo, Unannounced
    <3> QED BY <3>3 DEF Pending
  <2> QED BY <1>2, <2>3, <2>5, <2>6, <2>7 DEF Synced
<1> QED BY <1>4, <1>5

LEMMA LWPublish ==
  ASSUME CtlInv, RVInv, LWInv, NEW p \in Procs, PublishTo(p)
  PROVE  LWInv'
<1>1. PICK key, e : PublishesTo(p, key, e) BY PublishIs DEF LWInv
<1>2. Publishes(key, e) /\ e \in Event /\ key \in Keys BY <1>1 DEF PublishesTo, Publishes
<1>3. LWTypes'
  <2>1. Applied(e) \in Obj \cup {None} /\ e.obj.rv \in Nat
    BY <1>2 DEF Applied, Event, Obj
  <2>2. ASSUME NEW w \in Watchers
        PROVE  /\ cache'[w] \in [Keys -> Obj \cup {None}] /\ cursor'[w] \in Nat
               /\ overtaken'[w] \in SUBSET Keys
    <3>1. CASE w \in Live
      <4>1. /\ cache'[w] = [cache[w] EXCEPT ![key] = Applied(e)]
            /\ cursor'[w] = e.obj.rv /\ overtaken'[w] = overtaken[w] \ {key}
        BY <1>1, <3>1 DEF PublishesTo
      <4>2. cache[w] \in [Keys -> Obj \cup {None}] /\ overtaken[w] \in SUBSET Keys
        BY DEF LWInv, LWTypes
      <4>3. cache'[w] \in [Keys -> Obj \cup {None}] BY <2>1, <4>1, <4>2
      <4> QED BY <2>1, <4>1, <4>2, <4>3
    <3>2. CASE w \notin Live
      <4>1. cache'[w] = cache[w] /\ cursor'[w] = cursor[w] BY <1>1, <3>2 DEF PublishesTo
      <4>2. overtaken'[w] \in SUBSET Keys
        <5>1. EventOf(req[p]).key \in Keys
          BY EventOfType DEF PublishTo, Publish, Announce, CtlInv, ReqInv, Req
        <5> QED BY <3>2, <5>1 DEF PublishTo, LWInv, LWTypes
      <4> QED BY <4>1, <4>2 DEF LWInv, LWTypes
    <3> QED BY <3>1, <3>2
  <2>3. /\ cache' = [w \in Watchers |-> cache'[w]]
        /\ cursor' = [w \in Watchers |-> cursor'[w]]
        /\ overtaken' = [w \in Watchers |-> overtaken'[w]]
    BY DEF PublishTo
  <2>4. wpc' = wpc /\ todo' = todo BY DEF PublishTo
  <2> QED BY <2>2, <2>3, <2>4 DEF LWInv, LWTypes
<1>4. LWControl' BY DEF PublishTo, LWInv, LWControl
<1>5. RingInv' BY <1>2, PublishKeepsRing DEF LWInv
<1>6. WindowInv' BY <1>1, PublishWindow
<1>7. SyncedInv' BY <1>1, PublishSynced
<1> QED BY <1>3, <1>4, <1>5, <1>6, <1>7 DEF LWInv

-----------------------------------------------------------------------------
(* A restart *)

LEMMA LWCrash ==
  ASSUME LWInv, CrashAll
  PROVE  LWInv'
<1>1. /\ log' = log /\ ring' = << >> /\ cache' = cache /\ pc' = [p \in Procs |-> "idle"]
      /\ wpc' = [w \in Watchers |-> "off"] /\ todo' = [w \in Watchers |-> {}]
      /\ overtaken' = [w \in Watchers |-> Keys]
      /\ cursor' = [w \in Watchers |->
                      IF wpc[w] \in {"listing", "snap"} THEN 0 ELSE cursor[w]]
  BY DEF CrashAll, Crash
<1>2. LWTypes' BY <1>1 DEF LWInv, LWTypes
<1>3. LWControl' BY <1>1 DEF LWControl
<1>4. RingInv' BY <1>1 DEF LWInv, RingInv
<1>5. WindowInv'
  <2>1. Stamped' = {} BY <1>1 DEF Stamped
  <2>2. \A w \in Watchers, k \in Keys : k \in overtaken'[w] BY <1>1
  <2> QED BY <2>1, <2>2 DEF WindowInv
<1>6. SyncedInv' BY <1>1 DEF SyncedInv
<1> QED BY <1>2, <1>3, <1>4, <1>5, <1>6 DEF LWInv

-----------------------------------------------------------------------------
(* Steps of a client *)

\* Where the client w stands after its step.
WindowOK(w) ==
  inOrder =>
    \A k \in Keys : \A m \in DOMAIN log[k] :
      ~ InWindow(log[k][m]) /\ Following(w)' /\ k \notin overtaken'[w] =>
        log[k][m].obj.rv <= cursor'[w]

SyncedOK(w) ==
  \A k \in Keys :
    /\ Following(w)'
    /\ k \notin todo'[w] /\ k \notin overtaken'[w] /\ ~ dropped[k]
    /\ wpc'[w] \in {"snap", "live"} \/ ~ Missing(w, k)'
    => \/ cache'[w][k] = Announced(k)
       \/ Pending(k) /\ cache'[w][k] = file[k]

\* It leaves the store and the other clients alone.
LEMMA ClientStep ==
  ASSUME LWInv, NEW w \in Watchers, UNCHANGED <<vars, inOrder>>,
         \A v \in Watchers : v # w =>
           /\ wpc'[v] = wpc[v] /\ todo'[v] = todo[v] /\ cache'[v] = cache[v]
           /\ cursor'[v] = cursor[v] /\ overtaken'[v] = overtaken[v],
         LWTypes', LWControl', WindowOK(w), SyncedOK(w)
  PROVE  LWInv'
<1>1. /\ ring' = ring /\ log' = log /\ file' = file /\ dropped' = dropped
      /\ pc' = pc /\ req' = req /\ inOrder' = inOrder
  BY DEF vars
<1>2. RingInv' BY <1>1 DEF LWInv, RingInv
<1>3. WindowInv'
  <2> SUFFICES ASSUME inOrder, NEW k \in Keys, NEW m \in DOMAIN log[k],
                      ~ InWindow(log[k][m])
               PROVE  /\ \A q \in Stamped : log[k][m].obj.rv < req[q].rv
                      /\ \A v \in Watchers : Following(v)' /\ k \notin overtaken'[v] =>
                           log[k][m].obj.rv <= cursor'[v]
    BY <1>1 DEF WindowInv, InWindow, Stamped
  <2>1. /\ \A q \in Stamped : log[k][m].obj.rv < req[q].rv
        /\ \A v \in Watchers : Following(v) /\ k \notin overtaken[v] =>
             log[k][m].obj.rv <= cursor[v]
    BY DEF LWInv, WindowInv
  <2>2. ASSUME NEW v \in Watchers, Following(v)', k \notin overtaken'[v]
        PROVE  log[k][m].obj.rv <= cursor'[v]
    <3>1. CASE v = w BY <2>2, <3>1 DEF WindowOK
    <3>2. CASE v # w
      <4>1. Following(v) BY <2>2, <3>2 DEF Following
      <4> QED BY <2>1, <2>2, <3>2, <4>1
    <3> QED BY <3>1, <3>2
  <2> QED BY <2>1, <2>2
<1>4. SyncedInv'
  <2> SUFFICES ASSUME NEW v \in Watchers, NEW k \in Keys,
                      Following(v)', k \notin todo'[v], k \notin overtaken'[v], ~ dropped[k],
                      wpc'[v] \in {"snap", "live"} \/ ~ Missing(v, k)'
               PROVE  Synced(v, k)'
    BY <1>1 DEF SyncedInv
  <2>1. Announced(k)' = Announced(k) /\ (Pending(k)' <=> Pending(k))
    BY <1>1 DEF Announced, Pending, Unannounced
  <2>2. CASE v = w BY <1>1, <2>1, <2>2 DEF SyncedOK, Synced
  <2>3. CASE v # w
    <3>1. Following(v) /\ k \notin todo[v] /\ k \notin overtaken[v]
      BY <2>3 DEF Following
    <3>2. wpc[v] \in {"snap", "live"} \/ ~ Missing(v, k) BY <1>1, <2>3 DEF Missing
    <3>3. Synced(v, k) BY <3>1, <3>2 DEF LWInv, SyncedInv
    <3> QED BY <1>1, <2>1, <2>3, <3>3 DEF Synced
  <2> QED BY <2>2, <2>3
<1> QED BY <1>2, <1>3, <1>4 DEF LWInv

\* The counter is at least as new as every event, when nobody is inside it.
LEMMA CounterCovers ==
  ASSUME CtlInv, RVInv, cmu = None, NEW k \in Keys, NEW m \in DOMAIN log[k]
  PROVE  log[k][m].obj.rv <= rv
BY DEF CtlInv, CounterInv, RVInv, RVBounds

\* GetList and Watch with resourceVersion 0 begin: the counter comes before
\* the first file.
LEMMA LWStart ==
  ASSUME CtlInv, RVInv, LWInv, NEW w \in Watchers, ListStart(w) \/ SnapStart(w)
  PROVE  LWInv'
<1>1. /\ wpc' \in {[wpc EXCEPT ![w] = "listing"], [wpc EXCEPT ![w] = "snap"]}
      /\ cursor' = [cursor EXCEPT ![w] = rv] /\ todo' = [todo EXCEPT ![w] = Keys]
      /\ overtaken' = [overtaken EXCEPT ![w] = {}] /\ cache' = cache
      /\ UNCHANGED <<vars, inOrder>> /\ cmu = None
  BY DEF ListStart, SnapStart
<1>2. rv \in Nat BY DEF CtlInv, TypeOK
<1>3. LWTypes' BY <1>1, <1>2 DEF LWInv, LWTypes
<1>4. LWControl'
  <2>1. CASE ListStart(w) BY <2>1 DEF ListStart, LWInv, LWTypes, LWControl
  <2>2. CASE SnapStart(w)
    <3>1. \A v \in Watchers : wpc[v] # "snap"
      BY <2>2, WatchersAssumption DEF SnapStart, LWInv, LWControl
    <3> QED BY <2>2, <3>1 DEF SnapStart, LWInv, LWTypes, LWControl
  <2> QED BY <2>1, <2>2
<1>5. cursor'[w] = rv /\ todo'[w] = Keys BY <1>1 DEF LWInv, LWTypes
<1>6. WindowOK(w) BY <1>1, <1>5, CounterCovers DEF WindowOK
<1>7. SyncedOK(w) BY <1>5 DEF SyncedOK
<1>8. \A v \in Watchers : v # w =>
           /\ wpc'[v] = wpc[v] /\ todo'[v] = todo[v] /\ cache'[v] = cache[v]
           /\ cursor'[v] = cursor[v] /\ overtaken'[v] = overtaken[v]
  BY <1>1 DEF LWInv, LWTypes
<1> QED BY <1>1, <1>3, <1>4, <1>6, <1>7, <1>8, ClientStep

\* A file is read: it is what was announced, or is about to be.
LEMMA LWRead ==
  ASSUME CtlInv, AnnInv, LWInv, NEW w \in Watchers, NEW k \in Keys,
         ListRead(w, k) \/ SnapRead(w, k)
  PROVE  LWInv'
<1>1. /\ wpc[w] \in {"listing", "snap"} /\ k \in todo[w]
      /\ cache' = [cache EXCEPT ![w][k] = file[k]]
      /\ todo' = [todo EXCEPT ![w] = @ \ {k}]
      /\ UNCHANGED <<vars, bmu, wpc, cursor, overtaken, inOrder>>
  BY DEF ListRead, SnapRead, ReadInto
<1>2. file[k] \in Obj \cup {None} BY DEF CtlInv, TypeOK
<1>3. LWTypes'
  <2>1. cache' \in [Watchers -> [Keys -> Obj \cup {None}]]
    BY <1>1, <1>2 DEF LWInv, LWTypes
  <2> QED BY <1>1, <2>1 DEF LWInv, LWTypes
<1>4. LWControl' BY <1>1 DEF LWInv, LWTypes, LWControl
<1>5. WindowOK(w) BY <1>1 DEF LWInv, WindowInv, WindowOK, Following
<1>6. /\ cache'[w][k] = file[k]
      /\ \A j \in Keys : j # k => cache'[w][j] = cache[w][j]
      /\ todo'[w] = todo[w] \ {k}
  BY <1>1 DEF LWInv, LWTypes
<1>7. SyncedOK(w)
  <2> SUFFICES ASSUME NEW j \in Keys,
                      Following(w)', j \notin todo'[w], j \notin overtaken'[w], ~ dropped[j],
                      wpc'[w] \in {"snap", "live"} \/ ~ Missing(w, j)'
               PROVE  \/ cache'[w][j] = Announced(j)
                      \/ Pending(j) /\ cache'[w][j] = file[j]
    BY DEF SyncedOK
  <2>1. CASE j = k BY <1>6, <2>1 DEF AnnInv, AnnOK, Pending
  <2>2. CASE j # k
    <3>1. log' = log BY <1>1 DEF vars
    <3>2. Following(w) /\ j \notin todo[w] /\ j \notin overtaken[w]
      BY <1>1, <1>6, <2>2 DEF Following
    <3>3. wpc[w] \in {"snap", "live"} \/ ~ Missing(w, j) BY <1>1, <3>1 DEF Missing
    <3>4. Synced(w, j) BY <3>2, <3>3 DEF LWInv, SyncedInv
    <3> QED BY <1>6, <2>2, <3>4 DEF Synced
  <2> QED BY <2>1, <2>2
<1>8. \A v \in Watchers : v # w =>
           /\ wpc'[v] = wpc[v] /\ todo'[v] = todo[v] /\ cache'[v] = cache[v]
           /\ cursor'[v] = cursor[v] /\ overtaken'[v] = overtaken[v]
  BY <1>1 DEF LWInv, LWTypes
<1> QED BY <1>1, <1>3, <1>4, <1>5, <1>7, <1>8, ClientStep

\* The end of a list, of a snapshot and of a connection, and the refusal of a
\* watch: the client's copy stays, or is given up.
LEMMA LWMove ==
  ASSUME LWInv, NEW w \in Watchers,
         ListEnd(w) \/ Subscribe(w) \/ Disconnect(w) \/ Gone(w)
  PROVE  LWInv'
<1>1. LWTypes'
  <2>1. CASE ListEnd(w) BY <2>1 DEF ListEnd, LWInv, LWTypes
  <2>2. CASE Subscribe(w) BY <2>2 DEF Subscribe, LWInv, LWTypes
  <2>3. CASE Disconnect(w) BY <2>3 DEF Disconnect, LWInv, LWTypes
  <2>4. CASE Gone(w) BY <2>4 DEF Gone, LWInv, LWTypes
  <2> QED BY <2>1, <2>2, <2>3, <2>4
<1>2. LWControl'
  <2>1. CASE ListEnd(w) \/ Disconnect(w) \/ Gone(w)
    BY <2>1 DEF ListEnd, Disconnect, Gone, LWInv, LWTypes, LWControl
  <2>2. CASE Subscribe(w)
    <3>1. \A v \in Watchers : v # w => wpc[v] # "snap"
      BY <2>2 DEF Subscribe, LWInv, LWControl
    <3> QED BY <2>2, <3>1 DEF Subscribe, LWInv, LWTypes, LWControl
  <2> QED BY <2>1, <2>2
<1>3. \A v \in Watchers : v # w =>
           /\ wpc'[v] = wpc[v] /\ todo'[v] = todo[v] /\ cache'[v] = cache[v]
           /\ cursor'[v] = cursor[v] /\ overtaken'[v] = overtaken[v]
  BY DEF ListEnd, Subscribe, Disconnect, Gone, LWInv, LWTypes
<1>4. UNCHANGED <<vars, inOrder>> BY DEF ListEnd, Subscribe, Disconnect, Gone
<1>5. CASE Gone(w)
  <2>1. ~ Following(w)' BY <1>5 DEF Gone, Following, LWInv, LWTypes
  <2>2. WindowOK(w) /\ SyncedOK(w) BY <2>1 DEF WindowOK, SyncedOK
  <2> QED BY <1>1, <1>2, <1>3, <1>4, <2>2, ClientStep
<1>6. CASE ~ Gone(w)
  <2>1. /\ cursor' = cursor /\ cache' = cache /\ overtaken' = overtaken /\ todo' = todo
        /\ wpc[w] # "off" /\ (wpc'[w] \in {"snap", "live"} => wpc[w] = "snap")
    BY <1>6 DEF ListEnd, Subscribe, Disconnect, LWInv, LWTypes
  <2>2. Following(w) BY <2>1 DEF Following
  <2>3. WindowOK(w) BY <2>1, <2>2 DEF LWInv, WindowInv, WindowOK
  <2>4. SyncedOK(w)
    <3> SUFFICES ASSUME NEW j \in Keys, j \notin todo[w], j \notin overtaken[w], ~ dropped[j],
                        wpc'[w] \in {"snap", "live"} \/ ~ Missing(w, j)'
                 PROVE  Synced(w, j)
      BY <2>1 DEF SyncedOK, Synced
    <3>1. log' = log BY <1>4 DEF vars
    <3>2. wpc[w] \in {"snap", "live"} \/ ~ Missing(w, j) BY <2>1, <3>1 DEF Missing
    <3> QED BY <2>2, <3>2 DEF LWInv, SyncedInv
  <2> QED BY <1>1, <1>2, <1>3, <1>4, <2>3, <2>4, ClientStep
<1> QED BY <1>5, <1>6

-----------------------------------------------------------------------------
(* Watch from a resourceVersion *)

\* The window test is exact: with the events in order, what the client lacks
\* of a key is in the ring, or the client is refused.
LEMMA ResumeFinds ==
  ASSUME CtlInv, RVInv, LWInv, NEW w \in Watchers, Resume(w), inOrder,
         NEW k \in Keys, k \notin overtaken[w]
  PROVE  FindsAll(w, k)
<1> SUFFICES ASSUME NEW m \in DOMAIN log[k], log[k][m].obj.rv > cursor[w]
             PROVE  \E j \in DOMAIN ring : ring[j] = log[k][m]
  BY DEF FindsAll
<1>1. PICK x : x = log[k][m] OBVIOUS
<1>2. cursor[w] \in Nat /\ rv \in Nat /\ x.obj.rv \in Nat
  BY <1>1, RingRV DEF CtlInv, TypeOK, LWInv, LWTypes
<1>3. x.obj.rv <= rv BY <1>1, CounterCovers DEF Resume
<1>4. ~ Expired(cursor[w]) BY <1>1, <1>2, <1>3 DEF Resume
<1>5. Following(w) BY DEF Resume, Following
<1>6. InWindow(x)
  <2>1. InWindow(x) \/ x.obj.rv <= cursor[w] BY <1>1, <1>5 DEF LWInv, WindowInv
  <2> QED BY <1>1, <1>2, <2>1
<1>7. ASSUME ring # << >>, x.obj.rv < ring[1].obj.rv PROVE FALSE
  <2>1. ring \in Seq(Event) BY DEF CtlInv, TypeOK
  <2>2. 1 \in DOMAIN ring BY <1>7, <2>1
  <2>3. ring[1].obj.rv \in Nat BY <2>2, RingRV
  <2>4. ~ (cursor[w] + 1 < ring[1].obj.rv) BY <1>4, <1>7 DEF Expired
  <2> QED BY <1>1, <1>2, <1>7, <2>3, <2>4
<1> QED BY <1>1, <1>6, <1>7 DEF InWindow

\* A replay only takes the client forward.
LEMMA ResumeCursor ==
  ASSUME CtlInv, LWInv, NEW w \in Watchers, Resume(w)
  PROVE  /\ cursor'[w] \in Nat /\ cursor[w] <= cursor'[w]
         /\ cursor' \in [Watchers -> Nat]
         /\ \A v \in Watchers : v # w => cursor'[v] = cursor[v]
<1>1. cursor \in [Watchers -> Nat] BY DEF LWInv, LWTypes
<1>2. CASE cursor' = cursor BY <1>1, <1>2
<1>3. CASE cursor' # cursor
  <2>1. PICK S : S = Replayed(cursor[w]) OBVIOUS
  <2>2. S # {} /\ cursor' = [cursor EXCEPT ![w] = ring[Last(S)].obj.rv]
    BY <1>3, <2>1 DEF Resume
  <2>3. Len(ring) \in Nat /\ DOMAIN ring = 1 .. Len(ring) BY DEF CtlInv, TypeOK
  <2>4. S \subseteq 1 .. Len(ring) BY <2>1, <2>3 DEF Replayed
  <2>5. Last(S) \in S BY <2>2, <2>3, <2>4, LastIsLast
  <2>6. Last(S) \in DOMAIN ring /\ ring[Last(S)].obj.rv > cursor[w]
    BY <2>1, <2>5 DEF Replayed
  <2>7. ring[Last(S)].obj.rv \in Nat BY <2>6, RingRV
  <2> QED BY <1>1, <2>2, <2>6, <2>7
<1> QED BY <1>2, <1>3

\* The replay of the events of one key: nothing of it when the client lacks
\* nothing, and else the last event of the key comes last.
LEMMA ReplayAbout ==
  ASSUME CtlInv, RVInv, LWInv, NEW w \in Watchers, NEW k \in Keys, FindsAll(w, k)
  PROVE  /\ ~ Missing(w, k) => AfterReplay(w, k) = cache[w][k]
         /\ Missing(w, k) => AfterReplay(w, k) = Announced(k)
<1>1. PICK R : R = {i \in Replayed(cursor[w]) : ring[i].key = k} OBVIOUS
<1>2. AfterReplay(w, k) = IF R = {} THEN cache[w][k] ELSE Applied(ring[Last(R)])
  BY <1>1 DEF AfterReplay
<1>3. /\ Len(ring) \in Nat /\ DOMAIN ring = 1 .. Len(ring)
      /\ Len(log[k]) \in Nat /\ DOMAIN log[k] = 1 .. Len(log[k])
  BY DEF CtlInv, TypeOK
<1>4. R \subseteq 1 .. Len(ring) BY <1>1, <1>3 DEF Replayed
<1>5. ASSUME NEW i \in R
      PROVE  /\ i \in DOMAIN ring /\ ring[i].key = k /\ ring[i].obj.rv > cursor[w]
             /\ \E m \in DOMAIN log[k] : log[k][m] = ring[i]
  BY <1>1, <1>5 DEF Replayed, LWInv, RingInv
<1>6. R # {} => Last(R) \in R /\ \A j \in R : j <= Last(R)
  BY <1>3, <1>4, LastIsLast
<1>7. ~ Missing(w, k) => AfterReplay(w, k) = cache[w][k]
  <2>1. R # {} => Missing(w, k) BY <1>5 DEF Missing
  <2> QED BY <1>2, <2>1
<1>8. ASSUME Missing(w, k) PROVE AfterReplay(w, k) = Announced(k)
  <2>1. PICK m \in DOMAIN log[k] : log[k][m].obj.rv > cursor[w] BY <1>8 DEF Missing
  <2>2. PICK n : n = Len(log[k]) OBVIOUS
  <2>3. n \in DOMAIN log[k] /\ m <= n /\ log[k] # << >> BY <1>3, <2>1, <2>2
  <2>4. /\ log[k][m].obj.rv \in Nat /\ log[k][n].obj.rv \in Nat /\ cursor[w] \in Nat
    BY <2>1, <2>3, RingRV DEF LWInv, LWTypes
  <2>5. m = n \/ log[k][m].obj.rv < log[k][n].obj.rv
    BY <1>3, <2>1, <2>3 DEF RVInv, KeyEventsOrdered
  <2>6. log[k][n].obj.rv > cursor[w] BY <2>1, <2>4, <2>5
  <2>7. PICK j \in DOMAIN ring : ring[j] = log[k][n] BY <2>3, <2>6 DEF FindsAll
  <2>8. ring[j].key = k BY <2>3, <2>7 DEF LWInv, RingInv
  <2>9. j \in R BY <1>1, <2>6, <2>7, <2>8 DEF Replayed
  <2>10. PICK l : l = Last(R) OBVIOUS
  <2>11. l \in R /\ j <= l BY <1>6, <2>9, <2>10
  <2>12. PICK i \in DOMAIN log[k] : log[k][i] = ring[l] BY <1>5, <2>11
  <2>13. ring[l] = log[k][n]
    <3>1. CASE j = l BY <2>7, <3>1
    <3>2. CASE j # l
      <4>1. ring[j].obj.rv < ring[l].obj.rv
        BY <1>3, <1>5, <2>8, <2>11, <3>2 DEF LWInv, RingInv
      <4>2. i = n \/ log[k][i].obj.rv < log[k][n].obj.rv
        BY <1>3, <2>2, <2>3, <2>12 DEF RVInv, KeyEventsOrdered
      <4>3. log[k][i].obj.rv \in Nat BY <2>12, RingRV
      <4> QED BY <2>4, <2>7, <2>12, <4>1, <4>2, <4>3
    <3> QED BY <3>1, <3>2
  <2>14. AfterReplay(w, k) = Applied(log[k][n]) BY <1>2, <2>9, <2>10, <2>13
  <2> QED BY <2>2, <2>3, <2>14 DEF Announced, Applied
<1> QED BY <1>7, <1>8

LEMMA ReplayType ==
  ASSUME CtlInv, LWInv, NEW w \in Watchers, NEW k \in Keys
  PROVE  AfterReplay(w, k) \in Obj \cup {None}
<1>1. PICK R : R = {i \in Replayed(cursor[w]) : ring[i].key = k} OBVIOUS
<1>2. AfterReplay(w, k) = IF R = {} THEN cache[w][k] ELSE Applied(ring[Last(R)])
  BY <1>1 DEF AfterReplay
<1>3. CASE R = {} BY <1>2, <1>3 DEF LWInv, LWTypes
<1>4. CASE R # {}
  <2>1. Len(ring) \in Nat /\ DOMAIN ring = 1 .. Len(ring) BY DEF CtlInv, TypeOK
  <2>2. R \subseteq 1 .. Len(ring) BY <1>1, <2>1 DEF Replayed
  <2>3. Last(R) \in DOMAIN ring BY <1>4, <2>1, <2>2, LastIsLast
  <2>4. ring[Last(R)] \in Event BY <2>3 DEF CtlInv, TypeOK
  <2> QED BY <1>2, <1>4, <2>4 DEF Applied, Event
<1> QED BY <1>3, <1>4

LEMMA LWResume ==
  ASSUME CtlInv, RVInv, LWInv, NEW w \in Watchers, Resume(w)
  PROVE  LWInv'
<1>1. /\ wpc[w] = "off" /\ cursor[w] # 0 /\ cmu = None
      /\ wpc' = [wpc EXCEPT ![w] = "live"]
      /\ overtaken' = [overtaken EXCEPT ![w] =
            @ \cup {k \in Keys : ~inOrder /\ ~FindsAll(w, k)}]
      /\ UNCHANGED <<vars, bmu, todo, inOrder>>
  BY DEF Resume
<1>2. \/ /\ cursor[w] < rv
         /\ cache' = [cache EXCEPT ![w] = [k \in Keys |-> AfterReplay(w, k)]]
      \/ ~ (cursor[w] < rv) /\ cache' = cache
  BY DEF Resume
<1>3. LWTypes'
  <2>1. [k \in Keys |-> AfterReplay(w, k)] \in [Keys -> Obj \cup {None}] BY ReplayType
  <2>2. cache' \in [Watchers -> [Keys -> Obj \cup {None}]]
    BY <1>2, <2>1 DEF LWInv, LWTypes
  <2>3. overtaken' \in [Watchers -> SUBSET Keys] BY <1>1 DEF LWInv, LWTypes
  <2>4. wpc' \in [Watchers -> {"off", "listing", "snap", "live"}]
    BY <1>1 DEF LWInv, LWTypes
  <2> QED BY <1>1, <2>2, <2>3, <2>4, ResumeCursor DEF LWInv, LWTypes
<1>4. LWControl' BY <1>1 DEF LWInv, LWTypes, LWControl
<1>5. \A v \in Watchers : v # w =>
           /\ wpc'[v] = wpc[v] /\ todo'[v] = todo[v] /\ cache'[v] = cache[v]
           /\ cursor'[v] = cursor[v] /\ overtaken'[v] = overtaken[v]
  BY <1>1, <1>2, ResumeCursor DEF LWInv, LWTypes
<1>6. ASSUME NEW k \in Keys, k \notin overtaken'[w]
      PROVE  k \notin overtaken[w] /\ FindsAll(w, k)
  <2>1. overtaken'[w] = overtaken[w] \cup {j \in Keys : ~inOrder /\ ~FindsAll(w, j)}
    BY <1>1 DEF LWInv, LWTypes
  <2>2. k \notin overtaken[w] /\ (inOrder \/ FindsAll(w, k)) BY <1>6, <2>1
  <2> QED BY <2>2, ResumeFinds
<1>7. Following(w) BY <1>1 DEF Following
<1>8. WindowOK(w)
  <2> SUFFICES ASSUME inOrder, NEW k \in Keys, NEW m \in DOMAIN log[k],
                      ~ InWindow(log[k][m]), k \notin overtaken'[w]
               PROVE  log[k][m].obj.rv <= cursor'[w]
    BY DEF WindowOK
  <2>1. log[k][m].obj.rv <= cursor[w] BY <1>6, <1>7 DEF LWInv, WindowInv
  <2>2. cursor'[w] \in Nat /\ cursor[w] <= cursor'[w] BY ResumeCursor
  <2>3. log[k][m].obj.rv \in Nat /\ cursor[w] \in Nat BY RingRV DEF LWInv, LWTypes
  <2> QED BY <2>1, <2>2, <2>3
<1>9. SyncedOK(w)
  <2> SUFFICES ASSUME NEW k \in Keys, k \notin overtaken'[w], ~ dropped[k]
               PROVE  \/ cache'[w][k] = Announced(k)
                      \/ Pending(k) /\ cache'[w][k] = file[k]
    BY DEF SyncedOK
  <2>1. k \notin overtaken[w] /\ FindsAll(w, k) BY <1>6
  <2>2. CASE ~ Missing(w, k)
    <3>1. cache'[w][k] = cache[w][k]
      BY <1>2, <2>1, <2>2, ReplayAbout DEF LWInv, LWTypes
    <3>2. Synced(w, k)
      BY <1>1, <1>7, <2>1, <2>2 DEF LWInv, LWControl, SyncedInv
    <3> QED BY <3>1, <3>2 DEF Synced
  <2>3. CASE Missing(w, k)
    <3>1. cursor[w] < rv
      <4>1. PICK m \in DOMAIN log[k] : log[k][m].obj.rv > cursor[w]
        BY <2>3 DEF Missing
      <4>2. log[k][m].obj.rv <= rv BY <1>1, CounterCovers
      <4>3. log[k][m].obj.rv \in Nat /\ cursor[w] \in Nat /\ rv \in Nat
        BY RingRV DEF LWInv, LWTypes, CtlInv, TypeOK
      <4> QED BY <4>1, <4>2, <4>3
    <3>2. cache'[w][k] = AfterReplay(w, k) BY <1>2, <3>1 DEF LWInv, LWTypes
    <3> QED BY <2>1, <2>3, <3>2, ReplayAbout
  <2> QED BY <2>2, <2>3
<1> QED BY <1>1, <1>3, <1>4, <1>5, <1>8, <1>9, ClientStep

-----------------------------------------------------------------------------
(* Every step *)

LEMMA LWStutter ==
  ASSUME LWInv, UNCHANGED allVars
  PROVE  LWInv'
<1>1. UNCHANGED <<vars, wvars>> BY DEF allVars
<1>2. LWTypes' BY <1>1 DEF LWInv, LWTypes, wvars
<1>3. LWControl' BY <1>1 DEF LWInv, LWControl, wvars
<1>4. RingInv' BY <1>1 DEF LWInv, RingInv, vars, wvars
<1>5. WindowInv'
  BY <1>1 DEF LWInv, WindowInv, InWindow, Following, Stamped, vars, wvars
<1>6. SyncedInv'
  <2> SUFFICES ASSUME NEW w \in Watchers, NEW k \in Keys
               PROVE  /\ Following(w)' <=> Following(w)
                      /\ Missing(w, k)' <=> Missing(w, k)
                      /\ Synced(w, k)' <=> Synced(w, k)
    BY <1>1 DEF LWInv, SyncedInv, vars, wvars
  <2>1. Announced(k)' = Announced(k) BY <1>1 DEF Announced, vars
  <2>2. Pending(k)' <=> Pending(k) BY <1>1 DEF Pending, Unannounced, vars
  <2> QED BY <1>1, <2>1, <2>2 DEF Following, Missing, Synced, vars, wvars
<1> QED BY <1>2, <1>3, <1>4, <1>5, <1>6 DEF LWInv

LEMMA LWStep ==
  ASSUME CtlInv, RVInv, AnnInv, LWInv, [LWNext]_allVars
  PROVE  LWInv'
BY LWLocal, LWPublish, LWCrash, LWStart, LWRead, LWMove, LWResume, LWStutter DEF LWNext

LEMMA LWAlways == LWSpec => []LWInv
<1>1. CtlInv /\ RVInv /\ AnnInv /\ LWInv /\ [LWNext]_allVars => LWInv' BY LWStep
<1> QED BY LWInitial, StoreAlways, <1>1, PTL DEF LWSpec

\* A subscribed client's copy of an object is the file, or the event that
\* makes it so is on its way, for any number of writers, clients, faults and
\* restarts: Watch subscribes under the broadcaster's mutex it took before it
\* read the first file, GetList notes the counter before it reads one, and a
\* replay ends with the last event of every key.
THEOREM CopiesFollowFiles == LWSpec => []LiveSynced
<1>1. ASSUME AnnInv, LWInv PROVE LiveSynced
  <2> SUFFICES ASSUME NEW w \in Live, NEW k \in Keys,
                      k \notin overtaken[w], ~ dropped[k], ~ Pending(k)
               PROVE  cache[w][k] = file[k]
    BY DEF LiveSynced
  <2>1. w \in Watchers /\ wpc[w] = "live" BY DEF Live
  <2>2. Following(w) /\ k \notin todo[w]
    BY <1>1, <2>1 DEF Following, LWInv, LWControl
  <2>3. Synced(w, k) BY <1>1, <2>1, <2>2 DEF LWInv, SyncedInv
  <2>4. Announced(k) = file[k] BY <1>1 DEF AnnInv, AnnOK, Pending
  <2> QED BY <2>3, <2>4 DEF Synced
<1>2. AnnInv /\ LWInv => LiveSynced BY <1>1
<1> QED BY LWAlways, StoreAlways, <1>2, PTL

\* replayLocked lets a client through only if it lacks nothing that the ring
\* has lost, as long as events were published in the order of their versions.
THEOREM WindowTestExact == LWSpec => ReplayCompleteInOrder
<1>1. ASSUME CtlInv, RVInv, LWInv, LWNext, NEW w \in Watchers,
             inOrder, wpc[w] = "off", wpc'[w] = "live"
      PROVE  \A k \in Keys \ overtaken[w] : FindsAll(w, k)
  <2>1. Resume(w)
    <3> SUFFICES ASSUME ~ Resume(w) PROVE FALSE
      OBVIOUS
    <3> USE DEF LWInv, LWTypes
    <3>1. ASSUME NEW p \in Procs, (LocalStep(p) /\ UNCHANGED wvars) \/ PublishTo(p)
          PROVE  FALSE
      BY <1>1, <3>1 DEF wvars, PublishTo
    <3>2. ASSUME CrashAll PROVE FALSE BY <1>1, <3>2 DEF CrashAll
    <3>3. ASSUME NEW v \in Watchers, NEW k \in Keys, ListRead(v, k) \/ SnapRead(v, k)
          PROVE  FALSE
      BY <1>1, <3>3 DEF ListRead, SnapRead
    <3>4. ASSUME NEW v \in Watchers, ListStart(v) \/ ListEnd(v) \/ SnapStart(v)
                   \/ Subscribe(v) \/ Gone(v) \/ Disconnect(v)
          PROVE  FALSE
      BY <1>1, <3>4 DEF ListStart, ListEnd, SnapStart, Subscribe, Gone, Disconnect
    <3>5. ASSUME NEW v \in Watchers, Resume(v) PROVE FALSE
      BY <1>1, <3>5 DEF Resume
    <3> QED BY <1>1, <3>1, <3>2, <3>3, <3>4, <3>5 DEF LWNext
  <2> QED BY <1>1, <2>1, ResumeFinds
<1>2. CtlInv /\ RVInv /\ LWInv /\ [LWNext]_allVars =>
        [\A w \in Watchers : inOrder /\ wpc[w] = "off" /\ wpc'[w] = "live" =>
           \A k \in Keys \ overtaken[w] : FindsAll(w, k)]_allVars
  BY <1>1
<1> QED BY LWAlways, StoreAlways, <1>2, PTL DEF LWSpec, ReplayCompleteInOrder
=============================================================================
