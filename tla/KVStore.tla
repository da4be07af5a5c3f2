------------------------------- MODULE KVStore -------------------------------
(***************************************************************************)
(* What internal/fsstorage promises to the generic registry: a map from    *)
(* keys to objects in which every operation takes effect at one instant,   *)
(* an update is applied to the value it replaces, and every value carries  *)
(* a resourceVersion that was issued before it became visible and that     *)
(* exceeds the one it replaces.  FSStore implements it with files, locks   *)
(* and a persisted counter.                                                *)
(***************************************************************************)
EXTENDS Integers

CONSTANTS
  Keys,  \* object names
  None   \* "no object under this key"

VARIABLES
  store, \* the visible object of every key
  top    \* resourceVersions up to this one have been issued

vars == <<store, top>>

Init ==
  /\ store = [k \in Keys |-> None]
  /\ top = 1

\* A resourceVersion that k may take now: issued, not carried by another
\* object, and newer than the one it replaces.
Fresh(k, r) ==
  /\ r \in 1 .. top
  /\ \A j \in Keys : store[j] # None => store[j].rv # r
  /\ store[k] # None => store[k].rv < r

Issue == top' = top + 1 /\ UNCHANGED store

Create(k) ==
  /\ store[k] = None
  /\ \E r \in 1 .. top :
       /\ Fresh(k, r)
       /\ store' = [store EXCEPT ![k] = [rv |-> r, uid |-> r, gen |-> 0]]
  /\ UNCHANGED top

Update(k) ==
  /\ store[k] # None
  /\ \E r \in 1 .. top :
       /\ Fresh(k, r)
       /\ store' = [store EXCEPT ![k] =
                      [rv |-> r, uid |-> store[k].uid, gen |-> store[k].gen + 1]]
  /\ UNCHANGED top

Delete(k) ==
  /\ store[k] # None
  /\ store' = [store EXCEPT ![k] = None]
  /\ UNCHANGED top

Next == Issue \/ \E k \in Keys : Create(k) \/ Update(k) \/ Delete(k)

Spec == Init /\ [][Next]_vars
=============================================================================
