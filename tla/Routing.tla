------------------------------- MODULE Routing -------------------------------
(***************************************************************************)
(* Which objects a request is about: the storage keys that the registry    *)
(* builds (newStore in internal/apiserver/storage.go) and the way          *)
(* internal/fsstorage takes them apart in GetList, Count and Watch.        *)
(*                                                                         *)
(* A key is its sequence of segments after strings.Trim and Split.  The    *)
(* files under the root are the sequences <<resource, [namespace,] name>>. *)
(***************************************************************************)
EXTENDS Integers, Sequences, FiniteSets

CONSTANTS
  Names,       \* names of objects and of namespaces alike
  Namespaced,  \* the namespaced resources, each with a store of its own
  Cluster,     \* the cluster-scoped ones, under the same root
  Any,         \* the empty namespace, name, or value of a field
  Phases,      \* values of status.phase
  MaxFiles     \* bound: objects at a time

ASSUME RoutingAssumption ==
  Namespaced \cap Cluster = {} /\ Any \notin Names \cup Phases /\ MaxFiles \in Nat

VARIABLES
  files,            \* the stored objects: from paths to their status.phase
  req,              \* a client's request, for lists and a watch
  watching, cache,  \* it has a watch; what it believes to exist
  astray            \* history: objects that the watch cannot take back

vars == <<files, req, watching, cache, astray>>

Objects ==
  [res : Namespaced, ns : Names, name : Names]
    \cup [res : Cluster, ns : {Any}, name : Names]

Id(o) == [res |-> o.res, ns |-> o.ns, name |-> o.name]
Object(i, ph) == [res |-> i.res, ns |-> i.ns, name |-> i.name, phase |-> ph]

-----------------------------------------------------------------------------
(* The registry *)

\* Field selectors: the labels that convert for a kind, beyond the two of
\* metadata, and the attributes that its objects are matched by.  Pods and
\* namespaces have the phase; the Pods' spec.nodeName is left out.
SelectableFields == {"status.phase"}
Accepted == {"metadata.name", "metadata.namespace"} \cup SelectableFields

\* A namespace has no namespace.
getAttrs(o) ==
  [l \in {"metadata.name", "status.phase"}
          \cup (IF o.res \in Namespaced THEN {"metadata.namespace"} ELSE {}) |->
     CASE l = "metadata.name" -> o.name
       [] l = "metadata.namespace" -> o.ns
       [] l = "status.phase" -> o.phase]

\* A selector maps some labels to values.  An attribute that is missing counts
\* as the empty string.
Values(l) == IF l = "status.phase" THEN Phases ELSE Names
Selectors ==
  UNION {{f \in [ls -> Names \cup Phases] : \A l \in ls : f[l] \in Values(l)} :
           ls \in SUBSET Accepted}

Requests ==
  UNION {[res : {res}, ns : IF res \in Namespaced THEN Names \cup {Any} ELSE {Any},
          sel : Selectors] : res \in Namespaced \cup Cluster}

KeyRootFunc(res, ns) ==
  IF res \in Namespaced /\ ns # Any THEN <<res, ns>> ELSE <<res>>

KeyFunc(res, ns, name) ==
  IF res \in Namespaced THEN <<res, ns, name>> ELSE <<res, name>>

\* ListPredicate and WatchPredicate ask for a single key where they can, and
\* otherwise for everything under the root, to be filtered by the predicate.
SingleKey(r) == "metadata.name" \in DOMAIN r.sel /\ (r.res \in Namespaced => r.ns # Any)
KeyOf(r) ==
  IF SingleKey(r) THEN KeyFunc(r.res, r.ns, r.sel["metadata.name"])
  ELSE KeyRootFunc(r.res, r.ns)
Recursive(r) == ~SingleKey(r)

Predicate(r, o) ==
  LET attrs == getAttrs(o)
  IN  \A l \in DOMAIN r.sel :
        r.sel[l] = IF l \in DOMAIN attrs THEN attrs[l] ELSE Any

-----------------------------------------------------------------------------
(* internal/fsstorage *)

\* Mutant: two segments are read as a namespace.
MutParseKeyAsPrefix(k) ==
  CASE Len(k) = 1 -> [resource |-> k[1], ns |-> Any, name |-> Any]
    [] Len(k) = 2 -> [resource |-> k[1], ns |-> k[2], name |-> Any]
    [] Len(k) = 3 -> [resource |-> k[1], ns |-> k[2], name |-> k[3]]

parseKey(k) ==
  CASE Len(k) = 1 -> [resource |-> k[1], ns |-> Any, name |-> Any]
    [] Len(k) = 2 -> [resource |-> k[1], ns |-> Any, name |-> k[2]]
    [] Len(k) = 3 -> [resource |-> k[1], ns |-> k[2], name |-> k[3]]

parsePrefix(k) ==
  CASE Len(k) = 1 -> [resource |-> k[1], ns |-> Any, single |-> FALSE, name |-> Any]
    [] Len(k) = 2 -> [resource |-> k[1], ns |-> k[2], single |-> FALSE, name |-> Any]
    [] Len(k) = 3 -> [resource |-> k[1], ns |-> k[2], single |-> TRUE, name |-> k[3]]

objectPath(resource, ns, name) ==
  IF ns = Any THEN <<resource, name>> ELSE <<resource, ns, name>>

resourceDir(resource, ns) == IF ns = Any THEN <<resource>> ELSE <<resource, ns>>

\* walkObjects finds every file below the directory.
Below(dir) ==
  {f \in DOMAIN files : Len(f) > Len(dir) /\ SubSeq(f, 1, Len(dir)) = dir}

\* The object in a file: its metadata, as it was created, and its phase.
ObjectIn(f) ==
  [res |-> f[1], ns |-> IF Len(f) = 3 THEN f[2] ELSE Any, name |-> f[Len(f)],
   phase |-> files[f]]

Existing(path) == {path} \cap DOMAIN files

PrefixFiles(p) ==
  IF p.single THEN Existing(objectPath(p.resource, p.ns, p.name))
  ELSE Below(resourceDir(p.resource, p.ns))

\* GetList: parseKey for a single key, parsePrefix for a prefix.
GetList(r) ==
  LET p == parseKey(KeyOf(r))
      found == IF Recursive(r) THEN PrefixFiles(parsePrefix(KeyOf(r)))
               ELSE IF p.name = Any THEN {}
               ELSE Existing(objectPath(p.resource, p.ns, p.name))
  IN  {o \in {ObjectIn(f) : f \in found} : Predicate(r, o)}

\* The snapshot that Watch sends for resourceVersion 0: always parsePrefix,
\* and the predicate is not applied.
Snapshot(r) == {ObjectIn(f) : f \in PrefixFiles(parsePrefix(KeyOf(r)))}

\* Watch's filter of live and of replayed events.
matchesKey(key, recursive, o) ==
  LET p == parsePrefix(key)
  IN  IF p.single THEN o.ns = p.ns /\ o.name = p.name
      ELSE recursive /\ (p.ns # Any => o.ns = p.ns)

\* The client's watch gets an event of its resource's broadcaster when the
\* object, as the event has it, matches the key and the predicate.
Passes(r, o) ==
  o.res = r.res /\ matchesKey(KeyOf(r), Recursive(r), o) /\ Predicate(r, o)

-----------------------------------------------------------------------------
Ids(S) == {Id(o) : o \in S}

PathOf(o) == LET p == parseKey(KeyFunc(o.res, o.ns, o.name))
             IN  objectPath(p.resource, p.ns, p.name)

Init == files = << >> /\ req \in Requests /\ watching = FALSE /\ cache = {} /\ astray = {}

\* Mutant: a deleted object is announced as it would be without its status.
MutPublish(etype, o) ==
  LET sent == IF etype = "DELETED" THEN [o EXCEPT !.phase = Any] ELSE o
  IN  cache' = IF ~watching \/ ~Passes(req, sent) THEN cache
               ELSE IF etype = "DELETED" THEN cache \ {Id(o)}
               ELSE cache \cup {Id(o)}

\* publish, and what the client makes of the event.
Publish(etype, o) ==
  cache' = IF ~watching \/ ~Passes(req, o) THEN cache
           ELSE IF etype = "DELETED" THEN cache \ {Id(o)}
           ELSE cache \cup {Id(o)}

\* PrepareForCreate has cleared the status.
Create(i) ==
  /\ PathOf(i) \notin DOMAIN files
  /\ Cardinality(DOMAIN files) < MaxFiles
  /\ files' = [f \in DOMAIN files \cup {PathOf(i)} |->
                 IF f = PathOf(i) THEN Any ELSE files[f]]
  /\ LET o == Object(i, Any)
     IN  Publish("ADDED", o) /\ astray' = IF Passes(req, o) THEN astray \ {i} ELSE astray
  /\ UNCHANGED <<req, watching>>

Update(i, ph) ==
  /\ PathOf(i) \in DOMAIN files
  /\ ph # files[PathOf(i)]
  /\ files' = [files EXCEPT ![PathOf(i)] = ph]
  /\ LET was == Object(i, files[PathOf(i)])
         o == Object(i, ph)
     IN  /\ Publish("MODIFIED", o)
         /\ astray' = IF Passes(req, o) THEN astray \ {i}
                      ELSE IF watching /\ Passes(req, was) THEN astray \cup {i} ELSE astray
  /\ UNCHANGED <<req, watching>>

Delete(i) ==
  /\ PathOf(i) \in DOMAIN files
  /\ files' = [f \in DOMAIN files \ {PathOf(i)} |-> files[f]]
  /\ Publish("DELETED", Object(i, files[PathOf(i)]))
  /\ UNCHANGED <<req, watching, astray>>

\* The client lists and watches from the list's resourceVersion, or watches
\* from 0 and takes the snapshot for the list.
ListAndWatch ==
  /\ watching' = TRUE /\ cache' = Ids(GetList(req))
  /\ astray' = {}
  /\ UNCHANGED <<files, req>>

WatchFromZero ==
  /\ watching' = TRUE /\ cache' = Ids(Snapshot(req))
  /\ astray' = {Id(o) : o \in {s \in Snapshot(req) : ~Predicate(req, s)}}
  /\ UNCHANGED <<files, req>>

Next ==
  \/ \E i \in Objects : Create(i) \/ Delete(i) \/ \E ph \in Phases : Update(i, ph)
  \/ ListAndWatch \/ WatchFromZero

Spec == Init /\ [][Next]_vars

-----------------------------------------------------------------------------
(* Properties *)

Stored == {Object(i, files[PathOf(i)]) : i \in {o \in Objects : PathOf(o) \in DOMAIN files}}

\* What the client means: the objects of the resource, in the namespace, whose
\* own fields have the values that the selector names.
Wanted(r, o) ==
  /\ o.res = r.res
  /\ r.ns # Any => o.ns = r.ns
  /\ \A l \in DOMAIN r.sel :
       r.sel[l] = CASE l = "metadata.name" -> o.name
                    [] l = "metadata.namespace" -> o.ns
                    [] l = "status.phase" -> o.phase

\* A list returns the objects it was asked for and no others, though the
\* same word may name a namespace and an object, though a two-segment key is
\* a name to parseKey and a namespace to parsePrefix, and whatever fields the
\* selector is about.
ListExact == GetList(req) = {o \in Stored : Wanted(req, o)}

\* A watch of one cluster-scoped object: parsePrefix takes its key for that
\* of a namespace, and nothing matches.
Deaf(r) == SingleKey(r) /\ r.res \in Cluster

\* A client that lists or takes a snapshot, and follows the events, knows
\* every object it asked for.  What it has beyond them was in an unfiltered
\* snapshot, or matched when it was sent and does not any more: neither the
\* change nor a later deletion of such an object is announced.
CacheTracksSelection ==
  watching /\ ~Deaf(req) =>
    /\ Ids({o \in Stored : Wanted(req, o)}) \subseteq cache
    /\ cache \subseteq Ids({o \in Stored : Wanted(req, o)}) \cup astray
=============================================================================
