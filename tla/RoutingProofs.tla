---------------------------- MODULE RoutingProofs ----------------------------
(***************************************************************************)
(* Proofs about Routing, for all sets of names, resources and phases: what *)
(* a list returns, and what a client that watches believes to exist.       *)
(***************************************************************************)
EXTENDS Routing, TLAPS

-----------------------------------------------------------------------------
(* Paths *)

LEMMA Tuples ==
  ASSUME NEW a, NEW b, NEW c
  PROVE  /\ Len(<<a>>) = 1 /\ Len(<<a, b>>) = 2 /\ Len(<<a, b, c>>) = 3
         /\ <<a>>[1] = a /\ <<a, b>>[1] = a /\ <<a, b>>[2] = b
         /\ <<a, b, c>>[1] = a /\ <<a, b, c>>[2] = b /\ <<a, b, c>>[3] = c
OBVIOUS

LEMMA SamePair ==
  ASSUME NEW a, NEW b, NEW x, NEW y, <<a, b>> = <<x, y>>
  PROVE  a = x /\ b = y
<1>1. <<a, b>>[1] = a /\ <<a, b>>[2] = b BY Tuples
<1>2. <<x, y>>[1] = x /\ <<x, y>>[2] = y BY Tuples
<1> QED BY <1>1, <1>2

LEMMA SameTriple ==
  ASSUME NEW a, NEW b, NEW c, NEW x, NEW y, NEW z, <<a, b, c>> = <<x, y, z>>
  PROVE  a = x /\ b = y /\ c = z
<1>1. <<a, b, c>>[1] = a /\ <<a, b, c>>[2] = b /\ <<a, b, c>>[3] = c BY Tuples
<1>2. <<x, y, z>>[1] = x /\ <<x, y, z>>[2] = y /\ <<x, y, z>>[3] = z BY Tuples
<1> QED BY <1>1, <1>2

LEMMA PrefixIs ==
  ASSUME NEW S, NEW s \in Seq(S), NEW n \in 1 .. Len(s)
  PROVE  /\ SubSeq(s, 1, n) \in Seq(S) /\ Len(SubSeq(s, 1, n)) = n
         /\ \A k \in 1 .. n : SubSeq(s, 1, n)[k] = s[k]
OBVIOUS

LEMMA ShortIs ==
  ASSUME NEW S, NEW s \in Seq(S)
  PROVE  /\ Len(s) = 1 => s = <<s[1]>>
         /\ Len(s) = 2 => s = <<s[1], s[2]>>
<1>1. Len(s) = 1 => s = <<s[1]>> OBVIOUS
<1>2. Len(s) = 2 => s = <<s[1], s[2]>> OBVIOUS
<1> QED BY <1>1, <1>2

\* The directories that a path is in.
LEMMA Prefixes ==
  ASSUME NEW a, NEW b, NEW c
  PROVE  /\ SubSeq(<<a, b>>, 1, 1) = <<a>>
         /\ SubSeq(<<a, b, c>>, 1, 1) = <<a>>
         /\ SubSeq(<<a, b, c>>, 1, 2) = <<a, b>>
<1>1. <<a, b, c>> \in Seq({a, b, c}) /\ <<a, b>> \in Seq({a, b, c}) OBVIOUS
<1>2. PICK s \in Seq({a, b, c}) : s = <<a, b, c>> BY <1>1
<1>3. PICK t \in Seq({a, b, c}) : t = <<a, b>> BY <1>1
<1>4. Len(s) = 3 /\ Len(t) = 2 /\ s[1] = a /\ s[2] = b /\ t[1] = a
  BY <1>2, <1>3, Tuples
<1>5. SubSeq(s, 1, 1) = <<a>>
  <2>1. SubSeq(s, 1, 1) \in Seq({a, b, c}) /\ Len(SubSeq(s, 1, 1)) = 1
        /\ SubSeq(s, 1, 1)[1] = s[1]
    BY <1>4, PrefixIs
  <2> QED BY <1>4, <2>1, ShortIs
<1>6. SubSeq(t, 1, 1) = <<a>>
  <2>1. SubSeq(t, 1, 1) \in Seq({a, b, c}) /\ Len(SubSeq(t, 1, 1)) = 1
        /\ SubSeq(t, 1, 1)[1] = t[1]
    BY <1>4, PrefixIs
  <2> QED BY <1>4, <2>1, ShortIs
<1>7. SubSeq(s, 1, 2) = <<a, b>>
  <2>1. SubSeq(s, 1, 2) \in Seq({a, b, c}) /\ Len(SubSeq(s, 1, 2)) = 2
        /\ SubSeq(s, 1, 2)[1] = s[1] /\ SubSeq(s, 1, 2)[2] = s[2]
    BY <1>4, PrefixIs
  <2> QED BY <1>4, <2>1, ShortIs
<1> QED BY <1>2, <1>3, <1>5, <1>6, <1>7

\* An object is namespaced or cluster-scoped, and its path says which.
LEMMA PathIs ==
  ASSUME NEW i \in Objects
  PROVE  \/ /\ i.res \in Namespaced /\ i.ns \in Names /\ i.name \in Names
            /\ PathOf(i) = <<i.res, i.ns, i.name>>
         \/ /\ i.res \in Cluster /\ i.ns = Any /\ i.name \in Names
            /\ PathOf(i) = <<i.res, i.name>>
<1>1. CASE i \in [res : Namespaced, ns : Names, name : Names]
  <2>1. /\ i.res \in Namespaced /\ i.ns \in Names /\ i.name \in Names /\ i.ns # Any
    BY <1>1, RoutingAssumption
  <2>2. KeyFunc(i.res, i.ns, i.name) = <<i.res, i.ns, i.name>> BY <2>1 DEF KeyFunc
  <2>3. parseKey(<<i.res, i.ns, i.name>>)
          = [resource |-> i.res, ns |-> i.ns, name |-> i.name]
    BY Tuples DEF parseKey
  <2> QED BY <2>1, <2>2, <2>3 DEF PathOf, objectPath
<1>2. CASE i \in [res : Cluster, ns : {Any}, name : Names]
  <2>1. /\ i.res \in Cluster /\ i.ns = Any /\ i.name \in Names /\ i.res \notin Namespaced
    BY <1>2, RoutingAssumption
  <2>2. KeyFunc(i.res, i.ns, i.name) = <<i.res, i.name>> BY <2>1 DEF KeyFunc
  <2>3. parseKey(<<i.res, i.name>>)
          = [resource |-> i.res, ns |-> Any, name |-> i.name]
    BY Tuples DEF parseKey
  <2> QED BY <2>1, <2>2, <2>3 DEF PathOf, objectPath
<1> QED BY <1>1, <1>2 DEF Objects

\* An object is its three fields.
LEMMA ObjectIs ==
  ASSUME NEW i \in Objects, NEW ph
  PROVE  /\ Id(Object(i, ph)) = i
         /\ Object(i, ph).res = i.res /\ Object(i, ph).ns = i.ns
         /\ Object(i, ph).name = i.name /\ Object(i, ph).phase = ph
<1>1. i = [res |-> i.res, ns |-> i.ns, name |-> i.name] BY DEF Objects
<1> QED BY <1>1 DEF Id, Object

\* No two objects have the same path: PathOf is injective, though a word can
\* name a namespace and an object.
LEMMA PathsDiffer ==
  ASSUME NEW i \in Objects, NEW j \in Objects, PathOf(i) = PathOf(j)
  PROVE  i = j
<1>1. i = [res |-> i.res, ns |-> i.ns, name |-> i.name]
      /\ j = [res |-> j.res, ns |-> j.ns, name |-> j.name]
  BY DEF Objects
<1>2. i.res = j.res /\ i.ns = j.ns /\ i.name = j.name
  <2>1. PICK a, b, c : a = i.res /\ b = i.ns /\ c = i.name OBVIOUS
  <2>2. PICK x, y, z : x = j.res /\ y = j.ns /\ z = j.name OBVIOUS
  <2>3. CASE PathOf(i) = <<a, b, c>> /\ PathOf(j) = <<x, y, z>>
    <3>1. <<a, b, c>> = <<x, y, z>> BY <2>3, Zenon
    <3>2. a = x /\ b = y /\ c = z BY <3>1, SameTriple
    <3> QED BY <2>1, <2>2, <3>2
  <2>4. CASE PathOf(i) = <<a, c>> /\ PathOf(j) = <<x, z>> /\ b = Any /\ y = Any
    <3>1. <<a, c>> = <<x, z>> BY <2>4, Zenon
    <3>2. a = x /\ c = z BY <3>1, SamePair
    <3> QED BY <2>1, <2>2, <2>4, <3>2
  <2>5. <<a, b, c>> # <<x, z>> /\ <<x, y, z>> # <<a, c>> BY Tuples
  <2> QED BY <2>1, <2>2, <2>3, <2>4, <2>5, PathIs
<1> QED BY <1>1, <1>2

-----------------------------------------------------------------------------
(* Requests *)

LEMMA RequestIs ==
  ASSUME NEW r \in Requests
  PROVE  /\ \/ r.res \in Namespaced /\ r.ns \in Names \cup {Any}
            \/ r.res \in Cluster /\ r.ns = Any
         /\ DOMAIN r.sel \subseteq Accepted
         /\ "metadata.name" \in DOMAIN r.sel => r.sel["metadata.name"] \in Names
<1>1. PICK res \in Namespaced \cup Cluster :
        r \in [res : {res}, ns : IF res \in Namespaced THEN Names \cup {Any} ELSE {Any},
               sel : Selectors]
  BY DEF Requests
<1>2. r.res = res /\ r.ns \in (IF res \in Namespaced THEN Names \cup {Any} ELSE {Any})
      /\ r.sel \in Selectors
  BY <1>1
<1>3. PICK ls \in SUBSET Accepted :
        r.sel \in {f \in [ls -> Names \cup Phases] : \A l \in ls : f[l] \in Values(l)}
  BY <1>2 DEF Selectors
<1>4. DOMAIN r.sel = ls /\ \A l \in ls : r.sel[l] \in Values(l) BY <1>3
<1> QED BY <1>2, <1>4 DEF Values

\* The value of a selectable field of an object.
Field(o, l) == CASE l = "metadata.name" -> o.name
                 [] l = "metadata.namespace" -> o.ns
                 [] l = "status.phase" -> o.phase

\* The predicate compares the object's own fields: the namespace that a
\* cluster-scoped object has not counts as the empty one.
LEMMA PredicateIs ==
  ASSUME NEW r \in Requests, NEW i \in Objects, NEW ph
  PROVE  Predicate(r, Object(i, ph))
           <=> \A l \in DOMAIN r.sel : r.sel[l] = Field(Object(i, ph), l)
<1>1. PICK o : o = Object(i, ph) OBVIOUS
<1>2. o.res = i.res /\ o.ns = i.ns BY <1>1, ObjectIs
<1>3. ASSUME NEW l \in DOMAIN r.sel
      PROVE  (IF l \in DOMAIN getAttrs(o) THEN getAttrs(o)[l] ELSE Any) = Field(o, l)
  <2>1. l \in {"metadata.name", "metadata.namespace", "status.phase"}
    BY <1>3, RequestIs DEF Accepted, SelectableFields
  <2>2. CASE o.res \in Namespaced BY <2>1, <2>2 DEF getAttrs, Field
  <2>3. CASE o.res \notin Namespaced
    <3>1. o.ns = Any BY <1>2, <2>3, PathIs
    <3> QED BY <2>1, <2>3, <3>1 DEF getAttrs, Field
  <2> QED BY <2>2, <2>3
<1> QED BY <1>1, <1>3 DEF Predicate

LEMMA WantedIs ==
  ASSUME NEW r \in Requests, NEW i \in Objects, NEW ph
  PROVE  Wanted(r, Object(i, ph))
           <=> /\ i.res = r.res /\ (r.ns # Any => i.ns = r.ns)
               /\ Predicate(r, Object(i, ph))
<1>1. PICK o : o = Object(i, ph) OBVIOUS
<1>2. o.res = i.res /\ o.ns = i.ns BY <1>1, ObjectIs
<1>3. Predicate(r, o) <=> \A l \in DOMAIN r.sel : r.sel[l] = Field(o, l)
  BY <1>1, PredicateIs
<1>4. Wanted(r, o) <=> /\ o.res = r.res /\ (r.ns # Any => o.ns = r.ns)
                       /\ \A l \in DOMAIN r.sel : r.sel[l] = Field(o, l)
  BY DEF Wanted, Field
<1> QED BY <1>1, <1>2, <1>3, <1>4

\* A selector of a single key also names the object.
LEMMA PredicateNames ==
  ASSUME NEW r \in Requests, NEW i \in Objects, NEW ph,
         "metadata.name" \in DOMAIN r.sel, Predicate(r, Object(i, ph))
  PROVE  i.name = r.sel["metadata.name"]
<1>1. r.sel["metadata.name"] = Field(Object(i, ph), "metadata.name") BY PredicateIs
<1>2. Field(Object(i, ph), "metadata.name") = Object(i, ph).name BY DEF Field
<1> QED BY <1>1, <1>2, ObjectIs

\* The keys the registry asks for.
LEMMA KeyIs ==
  ASSUME NEW r \in Requests
  PROVE  \/ ~SingleKey(r) /\ r.ns = Any /\ KeyOf(r) = <<r.res>>
         \/ /\ ~SingleKey(r) /\ r.res \in Namespaced /\ r.ns \in Names
            /\ KeyOf(r) = <<r.res, r.ns>>
         \/ /\ SingleKey(r) /\ r.res \in Namespaced /\ r.ns \in Names
            /\ r.sel["metadata.name"] \in Names
            /\ KeyOf(r) = <<r.res, r.ns, r.sel["metadata.name"]>>
         \/ /\ SingleKey(r) /\ Deaf(r) /\ r.res \in Cluster /\ r.ns = Any
            /\ r.sel["metadata.name"] \in Names
            /\ KeyOf(r) = <<r.res, r.sel["metadata.name"]>>
<1>1. r.ns \in Names => r.ns # Any BY RoutingAssumption
<1>2. r.res \in Cluster => r.res \notin Namespaced BY RoutingAssumption
<1> QED BY <1>1, <1>2, RequestIs DEF SingleKey, KeyOf, KeyFunc, KeyRootFunc, Deaf

-----------------------------------------------------------------------------
(* What a request finds *)

FilesInv == req \in Requests /\ \A f \in DOMAIN files : \E i \in Objects : f = PathOf(i)

\* The object in a file is the one whose path it has.
LEMMA ObjectInIs ==
  ASSUME NEW i \in Objects
  PROVE  ObjectIn(PathOf(i)) = Object(i, files[PathOf(i)])
<1>1. CASE PathOf(i) = <<i.res, i.ns, i.name>>
  BY <1>1, Tuples DEF ObjectIn, Object
<1>2. CASE PathOf(i) = <<i.res, i.name>> /\ i.ns = Any
  BY <1>2, Tuples DEF ObjectIn, Object
<1> QED BY <1>1, <1>2, PathIs

\* The objects that a request is about before the predicate is applied.
InScope(r, i) ==
  /\ i.res = r.res /\ (r.ns # Any => i.ns = r.ns)
  /\ SingleKey(r) => i.name = r.sel["metadata.name"]

\* walkObjects below the resource's directory, or the namespace's.
LEMMA BelowIs ==
  ASSUME NEW i \in Objects, PathOf(i) \in DOMAIN files
  PROVE  /\ \A res : PathOf(i) \in Below(<<res>>) <=> i.res = res
         /\ \A res, ns : res \in Namespaced
              => (PathOf(i) \in Below(<<res, ns>>) <=> i.res = res /\ i.ns = ns)
<1>1. PICK a, b, c : a = i.res /\ b = i.ns /\ c = i.name OBVIOUS
<1>2. \A res : Len(<<res>>) = 1 /\ (<<a>> = <<res>> <=> a = res)
  <2> TAKE res
  <2>1. <<a>>[1] = a /\ <<res>>[1] = res BY Tuples
  <2> QED BY <2>1, Tuples
<1>3. \A res, ns : Len(<<res, ns>>) = 2 /\ (<<a, b>> = <<res, ns>> <=> a = res /\ b = ns)
  BY Tuples, SamePair
<1>4. PICK f : f = PathOf(i) OBVIOUS
<1>5. CASE f = <<a, b, c>>
  <2>1. Len(f) = 3 /\ SubSeq(f, 1, 1) = <<a>> /\ SubSeq(f, 1, 2) = <<a, b>>
    <3>1. Len(<<a, b, c>>) = 3 BY Tuples
    <3>2. SubSeq(<<a, b, c>>, 1, 1) = <<a>> /\ SubSeq(<<a, b, c>>, 1, 2) = <<a, b>>
      BY Prefixes
    <3> QED BY <1>5, <3>1, <3>2, Zenon
  <2>2. \A res : f \in Below(<<res>>) <=> a = res BY <1>2, <1>4, <2>1 DEF Below
  <2>3. \A res, ns : f \in Below(<<res, ns>>) <=> a = res /\ b = ns
    BY <1>3, <1>4, <2>1 DEF Below
  <2> QED BY <1>1, <1>4, <2>2, <2>3
<1>6. CASE f = <<a, c>> /\ a \in Cluster
  <2>1. Len(f) = 2 /\ SubSeq(f, 1, 1) = <<a>>
    <3>1. Len(<<a, c>>) = 2 /\ SubSeq(<<a, c>>, 1, 1) = <<a>> BY Tuples, Prefixes
    <3> QED BY <1>6, <3>1, Zenon
  <2>2. a \notin Namespaced BY <1>6, RoutingAssumption
  <2>3. ASSUME NEW d
        PROVE  f \in Below(d) <=> Len(f) > Len(d) /\ SubSeq(f, 1, Len(d)) = d
    BY <1>4, Zenon DEF Below
  <2>4. ASSUME NEW res PROVE f \in Below(<<res>>) <=> a = res
    <3>1. PICK d : d = <<res>> OBVIOUS
    <3>2. Len(d) = 1 /\ (<<a>> = d <=> a = res) BY <1>2, <3>1, Zenon
    <3>3. Len(f) > Len(d) BY <2>1, <3>2
    <3>4. SubSeq(f, 1, Len(d)) = <<a>> BY <2>1, <3>2, Zenon
    <3> QED BY <2>3, <3>1, <3>2, <3>3, <3>4, Zenon
  <2>5. ASSUME NEW res, NEW ns PROVE f \notin Below(<<res, ns>>)
    <3>1. PICK d : d = <<res, ns>> OBVIOUS
    <3>2. Len(d) = 2 BY <1>3, <3>1, Zenon
    <3>3. ~(Len(f) > Len(d)) BY <2>1, <3>2
    <3> QED BY <2>3, <3>1, <3>3, Zenon
  <2> QED BY <1>1, <1>4, <2>2, <2>4, <2>5
<1> QED BY <1>1, <1>4, <1>5, <1>6, PathIs

\* parsePrefix and PrefixFiles, for a list of a prefix and for every watch
\* that is not deaf.
LEMMA PrefixFound ==
  ASSUME NEW r \in Requests, ~Deaf(r), NEW i \in Objects, PathOf(i) \in DOMAIN files
  PROVE  PathOf(i) \in PrefixFiles(parsePrefix(KeyOf(r))) <=> InScope(r, i)
<1>1. CASE ~SingleKey(r) /\ r.ns = Any /\ KeyOf(r) = <<r.res>>
  <2>1. PrefixFiles(parsePrefix(KeyOf(r))) = Below(<<r.res>>)
    BY <1>1, Tuples DEF PrefixFiles, parsePrefix, resourceDir
  <2> QED BY <1>1, <2>1, BelowIs DEF InScope
<1>2. CASE /\ ~SingleKey(r) /\ r.res \in Namespaced /\ r.ns \in Names
           /\ KeyOf(r) = <<r.res, r.ns>>
  <2>0. r.ns # Any BY <1>2, RoutingAssumption
  <2>1. PrefixFiles(parsePrefix(KeyOf(r))) = Below(<<r.res, r.ns>>)
    BY <1>2, <2>0, Tuples DEF PrefixFiles, parsePrefix, resourceDir
  <2> QED BY <1>2, <2>0, <2>1, BelowIs DEF InScope
<1>3. CASE /\ SingleKey(r) /\ r.res \in Namespaced /\ r.ns \in Names
           /\ KeyOf(r) = <<r.res, r.ns, r.sel["metadata.name"]>>
  <2>0. r.ns # Any /\ r.res \notin Cluster BY <1>3, RoutingAssumption
  <2>1. PICK n : n = r.sel["metadata.name"] OBVIOUS
  <2>2. PrefixFiles(parsePrefix(KeyOf(r))) = Existing(<<r.res, r.ns, n>>)
    BY <1>3, <2>0, <2>1, Tuples DEF PrefixFiles, parsePrefix, objectPath
  <2>3. PathOf(i) = <<r.res, r.ns, n>> <=> i.res = r.res /\ i.ns = r.ns /\ i.name = n
    BY <2>0, PathIs, SameTriple, Tuples
  <2> QED BY <1>3, <2>0, <2>1, <2>2, <2>3 DEF InScope, Existing
<1> QED BY <1>1, <1>2, <1>3, KeyIs

\* parseKey, for a list of a single key.
LEMMA KeyFound ==
  ASSUME NEW r \in Requests, SingleKey(r), NEW i \in Objects, PathOf(i) \in DOMAIN files,
         NEW p, p = parseKey(KeyOf(r))
  PROVE  /\ p.name # Any
         /\ PathOf(i) \in Existing(objectPath(p.resource, p.ns, p.name)) <=> InScope(r, i)
<1>1. PICK n : n = r.sel["metadata.name"] OBVIOUS
<1>2. CASE /\ r.res \in Namespaced /\ r.ns \in Names /\ n \in Names
           /\ KeyOf(r) = <<r.res, r.ns, n>>
  <2>0. r.ns # Any /\ n # Any /\ r.res \notin Cluster BY <1>2, RoutingAssumption
  <2>1. p.resource = r.res /\ p.ns = r.ns /\ p.name = n BY <1>2, Tuples DEF parseKey
  <2>2. objectPath(p.resource, p.ns, p.name) = <<r.res, r.ns, n>>
    BY <2>0, <2>1 DEF objectPath
  <2>3. PathOf(i) = <<r.res, r.ns, n>> <=> i.res = r.res /\ i.ns = r.ns /\ i.name = n
    BY <2>0, PathIs, SameTriple, Tuples
  <2> QED BY <1>1, <2>0, <2>1, <2>2, <2>3 DEF InScope, Existing
<1>3. CASE /\ r.res \in Cluster /\ r.ns = Any /\ n \in Names
           /\ KeyOf(r) = <<r.res, n>>
  <2>0. n # Any /\ r.res \notin Namespaced BY <1>3, RoutingAssumption
  <2>1. p.resource = r.res /\ p.ns = Any /\ p.name = n BY <1>3, Tuples DEF parseKey
  <2>2. objectPath(p.resource, p.ns, p.name) = <<r.res, n>>
    BY <2>0, <2>1 DEF objectPath
  <2>3. PathOf(i) = <<r.res, n>> <=> i.res = r.res /\ i.name = n
    BY <2>0, PathIs, SamePair, Tuples
  <2> QED BY <1>1, <1>3, <2>0, <2>1, <2>2, <2>3 DEF InScope, Existing
<1> QED BY <1>1, <1>2, <1>3, KeyIs

\* What the client wants of a request is what is in scope and passes.
LEMMA WantedInScope ==
  ASSUME NEW r \in Requests, NEW i \in Objects, NEW ph
  PROVE  Wanted(r, Object(i, ph)) <=> InScope(r, i) /\ Predicate(r, Object(i, ph))
BY WantedIs, PredicateNames DEF InScope, SingleKey

\* The stored objects that the client wants.
Want(i) == PathOf(i) \in DOMAIN files /\ Wanted(req, Object(i, files[PathOf(i)]))

LEMMA ListIs == FilesInv => ListExact
<1> SUFFICES ASSUME FilesInv PROVE ListExact OBVIOUS
<1> DEFINE p == parseKey(KeyOf(req))
           found == IF Recursive(req) THEN PrefixFiles(parsePrefix(KeyOf(req)))
                    ELSE IF p.name = Any THEN {}
                    ELSE Existing(objectPath(p.resource, p.ns, p.name))
<1>0. req \in Requests BY DEF FilesInv
<1>1. found \subseteq DOMAIN files BY DEF PrefixFiles, Existing, Below
<1>2. ASSUME NEW i \in Objects, PathOf(i) \in DOMAIN files
      PROVE  PathOf(i) \in found <=> InScope(req, i)
  <2>1. CASE SingleKey(req) BY <1>0, <1>2, <2>1, KeyFound DEF Recursive
  <2>2. CASE ~SingleKey(req) BY <1>0, <1>2, <2>2, PrefixFound DEF Recursive, Deaf
  <2> QED BY <2>1, <2>2
<1>3. GetList(req) = {o \in {ObjectIn(f) : f \in found} : Predicate(req, o)}
  BY DEF GetList
<1> HIDE DEF found
<1>4. ASSUME NEW o \in GetList(req) PROVE o \in Stored /\ Wanted(req, o)
  <2>1. PICK f \in found : o = ObjectIn(f) /\ Predicate(req, o) BY <1>3
  <2>2. PICK i \in Objects : f = PathOf(i) BY <1>1, <2>1 DEF FilesInv
  <2>3. PathOf(i) \in DOMAIN files /\ InScope(req, i) BY <1>1, <1>2, <2>1, <2>2
  <2>4. o = Object(i, files[PathOf(i)]) BY <2>1, <2>2, ObjectInIs
  <2> QED BY <1>0, <2>1, <2>3, <2>4, WantedInScope DEF Stored
<1>5. ASSUME NEW o \in Stored, Wanted(req, o) PROVE o \in GetList(req)
  <2>1. PICK i \in Objects : PathOf(i) \in DOMAIN files /\ o = Object(i, files[PathOf(i)])
    BY DEF Stored
  <2>2. InScope(req, i) /\ Predicate(req, o) BY <1>0, <1>5, <2>1, WantedInScope
  <2>3. PathOf(i) \in found /\ o = ObjectIn(PathOf(i)) BY <1>2, <2>1, <2>2, ObjectInIs
  <2> QED BY <1>3, <2>2, <2>3
<1> QED BY <1>4, <1>5 DEF ListExact

LEMMA FilesStep == FilesInv /\ [Next]_vars => FilesInv'
<1> SUFFICES ASSUME FilesInv, [Next]_vars PROVE FilesInv' OBVIOUS
<1>1. ASSUME NEW i \in Objects, Create(i) PROVE FilesInv'
  BY <1>1 DEF Create, FilesInv
<1>2. ASSUME NEW i \in Objects, Delete(i) PROVE FilesInv'
  BY <1>2 DEF Delete, FilesInv
<1>3. ASSUME NEW i \in Objects, NEW ph, Update(i, ph) PROVE FilesInv'
  BY <1>3 DEF Update, FilesInv
<1>4. CASE ListAndWatch \/ WatchFromZero \/ UNCHANGED vars
  BY <1>4 DEF ListAndWatch, WatchFromZero, vars, FilesInv
<1> QED BY <1>1, <1>2, <1>3, <1>4 DEF Next

LEMMA FilesAlways == Spec => []FilesInv
<1>1. Init => FilesInv
  <2>1. DOMAIN << >> = {} OBVIOUS
  <2> QED BY <2>1 DEF Init, FilesInv
<1> QED BY <1>1, FilesStep, PTL DEF Spec

\* GetList returns exactly the objects that were asked for, for every request,
\* whatever the names: the key that the registry builds, the parser that
\* GetList chooses for it, the directory walk and the predicate agree.
THEOREM ListsExact == Spec => []ListExact
BY FilesAlways, ListIs, PTL

-----------------------------------------------------------------------------
(* What a watching client believes *)

\* Watch's filter passes an event exactly when the client wants the object as
\* the event has it.
LEMMA PassesIs ==
  ASSUME NEW r \in Requests, ~Deaf(r), NEW i \in Objects, NEW ph
  PROVE  Passes(r, Object(i, ph)) <=> Wanted(r, Object(i, ph))
<1>1. PICK o : o = Object(i, ph) OBVIOUS
<1>2. o.res = i.res /\ o.ns = i.ns /\ o.name = i.name BY <1>1, ObjectIs
<1>3. o.res = r.res
        => (matchesKey(KeyOf(r), Recursive(r), o)
              <=> /\ r.ns # Any => i.ns = r.ns
                  /\ SingleKey(r) => i.name = r.sel["metadata.name"])
  <2>1. CASE ~SingleKey(r) /\ r.ns = Any /\ KeyOf(r) = <<r.res>>
    BY <2>1, Tuples DEF matchesKey, parsePrefix, Recursive
  <2>2. CASE /\ ~SingleKey(r) /\ r.res \in Namespaced /\ r.ns \in Names
             /\ KeyOf(r) = <<r.res, r.ns>>
    <3>1. r.ns # Any BY <2>2, RoutingAssumption
    <3> QED BY <1>2, <2>2, <3>1, Tuples DEF matchesKey, parsePrefix, Recursive
  <2>3. CASE /\ SingleKey(r) /\ r.res \in Namespaced /\ r.ns \in Names
             /\ KeyOf(r) = <<r.res, r.ns, r.sel["metadata.name"]>>
    <3>1. r.ns # Any BY <2>3, RoutingAssumption
    <3>2. PICK n : n = r.sel["metadata.name"] OBVIOUS
    <3>3. matchesKey(KeyOf(r), Recursive(r), o) <=> o.ns = r.ns /\ o.name = n
      BY <2>3, <3>2, Tuples DEF matchesKey, parsePrefix
    <3> QED BY <1>2, <2>3, <3>1, <3>2, <3>3
  <2> QED BY <2>1, <2>2, <2>3, KeyIs
<1> QED BY <1>1, <1>2, <1>3, WantedInScope DEF Passes, InScope

LEMMA IdsAre == Ids({o \in Stored : Wanted(req, o)}) = {i \in Objects : Want(i)}
<1>1. ASSUME NEW i \in Objects, Want(i)
      PROVE  i \in Ids({o \in Stored : Wanted(req, o)})
  BY <1>1, ObjectIs DEF Ids, Stored, Want
<1>2. ASSUME NEW j \in Ids({o \in Stored : Wanted(req, o)})
      PROVE  j \in Objects /\ Want(j)
  <2>1. PICK o \in Stored : Wanted(req, o) /\ j = Id(o) BY DEF Ids
  <2>2. PICK i \in Objects : PathOf(i) \in DOMAIN files /\ o = Object(i, files[PathOf(i)])
    BY DEF Stored
  <2> QED BY <2>1, <2>2, ObjectIs DEF Want
<1> QED BY <1>1, <1>2

\* CacheTracksSelection, object by object.
Tracks ==
  watching /\ ~Deaf(req) =>
    /\ \A i \in Objects : Want(i) => i \in cache
    /\ \A i \in cache : (i \in Objects /\ Want(i)) \/ i \in astray

LEMMA TracksIs == Tracks <=> CacheTracksSelection
BY IdsAre DEF Tracks, CacheTracksSelection

\* A write to one object changes nothing for the others.
LEMMA OthersKept ==
  ASSUME NEW i \in Objects, req' = req,
         \A f : f # PathOf(i) => (f \in DOMAIN files' <=> f \in DOMAIN files),
         \A f \in DOMAIN files' : f # PathOf(i) => files'[f] = files[f]
  PROVE  \A j \in Objects : j # i => (Want(j)' <=> Want(j))
<1> SUFFICES ASSUME NEW j \in Objects, j # i PROVE Want(j)' <=> Want(j) OBVIOUS
<1>1. PICK f : f = PathOf(j) OBVIOUS
<1>2. f # PathOf(i) BY <1>1, PathsDiffer
<1> QED BY <1>1, <1>2 DEF Want

\* A write to i after which the cache has i if it is wanted, loses it only if
\* it is not, and the rest of the cache is kept.
LEMMA WriteTracks ==
  ASSUME Tracks, NEW i \in Objects, UNCHANGED <<req, watching>>,
         \A j \in Objects : j # i => (Want(j)' <=> Want(j)),
         \A j : j # i => /\ j \in cache' <=> (j \in cache)
                         /\ j \in astray' <=> (j \in astray),
         watching /\ ~Deaf(req) =>
           /\ Want(i)' => i \in cache'
           /\ i \in cache' => Want(i)' \/ i \in astray'
  PROVE  Tracks'
<1> SUFFICES ASSUME watching, ~Deaf(req)
             PROVE  /\ \A j \in Objects : Want(j)' => j \in cache'
                    /\ \A j \in cache' : (j \in Objects /\ Want(j)') \/ j \in astray'
  BY DEF Tracks
<1>1. ASSUME NEW j \in Objects, Want(j)' PROVE j \in cache'
  BY <1>1 DEF Tracks
<1>2. ASSUME NEW j \in cache' PROVE (j \in Objects /\ Want(j)') \/ j \in astray'
  BY <1>2 DEF Tracks
<1> QED BY <1>1, <1>2

LEMMA TracksStep == FilesInv /\ Tracks /\ [Next]_vars => Tracks'
<1> SUFFICES ASSUME FilesInv, Tracks, [Next]_vars PROVE Tracks' OBVIOUS
<1>0. req \in Requests BY DEF FilesInv
<1>1. ASSUME NEW i \in Objects, Create(i) PROVE Tracks'
  <2>1. /\ req' = req /\ watching' = watching
        /\ \A f : f # PathOf(i) => (f \in DOMAIN files' <=> f \in DOMAIN files)
        /\ \A f \in DOMAIN files' : f # PathOf(i) => files'[f] = files[f]
        /\ PathOf(i) \notin DOMAIN files
        /\ PathOf(i) \in DOMAIN files' /\ files'[PathOf(i)] = Any
    BY <1>1 DEF Create
  <2>2. \A j \in Objects : j # i => (Want(j)' <=> Want(j)) BY <2>1, OthersKept
  <2>3. PICK o : o = Object(i, Any) OBVIOUS
  <2>4. /\ cache' = IF ~watching \/ ~Passes(req, o) THEN cache ELSE cache \cup {Id(o)}
        /\ astray' = IF Passes(req, o) THEN astray \ {i} ELSE astray
    BY <1>1, <2>3 DEF Create, Publish
  <2>5. Id(o) = i BY <2>3, ObjectIs
  <2>6. Want(i)' <=> Wanted(req, o) BY <2>1, <2>3 DEF Want
  <2>7. ~Deaf(req) => (Passes(req, o) <=> Wanted(req, o)) BY <1>0, <2>3, PassesIs
  <2>8. ~Want(i) BY <2>1 DEF Want
  <2>9. ASSUME NEW j, j # i
        PROVE  (j \in cache' <=> (j \in cache)) /\ (j \in astray' <=> (j \in astray))
    BY <2>4, <2>5, <2>9
  <2>10. ASSUME watching, ~Deaf(req)
         PROVE  (Want(i)' => i \in cache') /\ (i \in cache' => Want(i)' \/ i \in astray')
    BY <2>4, <2>5, <2>6, <2>7, <2>8, <2>10 DEF Tracks
  <2> QED BY <2>1, <2>2, <2>9, <2>10, WriteTracks
<1>2. ASSUME NEW i \in Objects, Delete(i) PROVE Tracks'
  <2>1. /\ req' = req /\ watching' = watching /\ astray' = astray
        /\ \A f : f # PathOf(i) => (f \in DOMAIN files' <=> f \in DOMAIN files)
        /\ \A f \in DOMAIN files' : f # PathOf(i) => files'[f] = files[f]
        /\ PathOf(i) \in DOMAIN files /\ PathOf(i) \notin DOMAIN files'
    BY <1>2 DEF Delete
  <2>2. \A j \in Objects : j # i => (Want(j)' <=> Want(j)) BY <2>1, OthersKept
  <2>3. PICK o : o = Object(i, files[PathOf(i)]) OBVIOUS
  <2>4. cache' = IF ~watching \/ ~Passes(req, o) THEN cache ELSE cache \ {Id(o)}
    BY <1>2, <2>3 DEF Delete, Publish
  <2>5. Id(o) = i BY <2>3, ObjectIs
  <2>6. Want(i) <=> Wanted(req, o) BY <2>1, <2>3 DEF Want
  <2>7. ~Deaf(req) => (Passes(req, o) <=> Wanted(req, o)) BY <1>0, <2>3, PassesIs
  <2>8. ~Want(i)' BY <2>1 DEF Want
  <2>9. ASSUME NEW j, j # i
        PROVE  (j \in cache' <=> (j \in cache)) /\ (j \in astray' <=> (j \in astray))
    BY <2>1, <2>4, <2>5, <2>9
  <2>10. ASSUME watching, ~Deaf(req)
         PROVE  (Want(i)' => i \in cache') /\ (i \in cache' => Want(i)' \/ i \in astray')
    BY <2>1, <2>4, <2>5, <2>6, <2>7, <2>8, <2>10 DEF Tracks
  <2> QED BY <2>1, <2>2, <2>9, <2>10, WriteTracks
<1>3. ASSUME NEW i \in Objects, NEW ph, Update(i, ph) PROVE Tracks'
  <2>1. /\ req' = req /\ watching' = watching
        /\ \A f : f # PathOf(i) => (f \in DOMAIN files' <=> f \in DOMAIN files)
        /\ \A f \in DOMAIN files' : f # PathOf(i) => files'[f] = files[f]
        /\ PathOf(i) \in DOMAIN files
        /\ PathOf(i) \in DOMAIN files' /\ files'[PathOf(i)] = ph
    BY <1>3 DEF Update
  <2>2. \A j \in Objects : j # i => (Want(j)' <=> Want(j)) BY <2>1, OthersKept
  <2>3. PICK o, was : o = Object(i, ph) /\ was = Object(i, files[PathOf(i)]) OBVIOUS
  <2>4. /\ cache' = IF ~watching \/ ~Passes(req, o) THEN cache ELSE cache \cup {Id(o)}
        /\ astray' = IF Passes(req, o) THEN astray \ {i}
                     ELSE IF watching /\ Passes(req, was) THEN astray \cup {i} ELSE astray
    BY <1>3, <2>3 DEF Update, Publish
  <2>5. Id(o) = i BY <2>3, ObjectIs
  <2>6. (Want(i)' <=> Wanted(req, o)) /\ (Want(i) <=> Wanted(req, was))
    BY <2>1, <2>3 DEF Want
  <2>7. ~Deaf(req) => /\ Passes(req, o) <=> Wanted(req, o)
                      /\ Passes(req, was) <=> Wanted(req, was)
    BY <1>0, <2>3, PassesIs
  <2>8. ASSUME NEW j, j # i
        PROVE  (j \in cache' <=> (j \in cache)) /\ (j \in astray' <=> (j \in astray))
    BY <2>4, <2>5, <2>8
  <2>9. ASSUME watching, ~Deaf(req)
        PROVE  (Want(i)' => i \in cache') /\ (i \in cache' => Want(i)' \/ i \in astray')
    BY <2>4, <2>5, <2>6, <2>7, <2>9 DEF Tracks
  <2> QED BY <2>1, <2>2, <2>8, <2>9, WriteTracks
<1>4. CASE ListAndWatch
  <2>1. UNCHANGED <<files, req>> /\ cache' = Ids(GetList(req)) BY <1>4 DEF ListAndWatch
  <2>2. cache' = {i \in Objects : Want(i)} BY <2>1, ListIs, IdsAre DEF ListExact
  <2>3. \A i \in Objects : Want(i)' <=> Want(i) BY <2>1 DEF Want
  <2> QED BY <2>2, <2>3 DEF Tracks
<1>5. CASE WatchFromZero
  <2>1. UNCHANGED <<files, req>> /\ cache' = Ids(Snapshot(req))
        /\ astray' = {Id(o) : o \in {s \in Snapshot(req) : ~Predicate(req, s)}}
    BY <1>5 DEF WatchFromZero
  <2>2. \A i \in Objects : Want(i)' <=> Want(i) BY <2>1 DEF Want
  <2> SUFFICES ASSUME ~Deaf(req)
               PROVE  /\ \A i \in Objects : Want(i)' => i \in cache'
                      /\ \A i \in cache' : (i \in Objects /\ Want(i)') \/ i \in astray'
    BY <2>1 DEF Tracks
  <2>3. ASSUME NEW i \in Objects, Want(i) PROVE i \in cache'
    <3>1. PICK o : o = Object(i, files[PathOf(i)]) OBVIOUS
    <3>2. PathOf(i) \in DOMAIN files /\ InScope(req, i)
      BY <1>0, <2>3, WantedInScope DEF Want
    <3>3. o \in Snapshot(req)
      BY <1>0, <3>1, <3>2, PrefixFound, ObjectInIs DEF Snapshot
    <3>4. Id(o) = i BY <3>1, ObjectIs
    <3> QED BY <2>1, <3>3, <3>4 DEF Ids
  <2>4. ASSUME NEW j \in cache' PROVE (j \in Objects /\ Want(j)) \/ j \in astray'
    <3>1. PICK o \in Snapshot(req) : j = Id(o) BY <2>1, <2>4 DEF Ids
    <3>2. PICK f \in PrefixFiles(parsePrefix(KeyOf(req))) : o = ObjectIn(f)
      BY DEF Snapshot
    <3>3. f \in DOMAIN files BY DEF PrefixFiles, Below, Existing
    <3>4. PICK i \in Objects : f = PathOf(i) BY <3>3 DEF FilesInv
    <3>5. o = Object(i, files[PathOf(i)]) BY <3>2, <3>4, ObjectInIs
    <3>6. j = i BY <3>1, <3>5, ObjectIs
    <3>7. InScope(req, i) BY <1>0, <3>2, <3>3, <3>4, PrefixFound
    <3>8. CASE Predicate(req, o)
      BY <1>0, <3>3, <3>4, <3>5, <3>6, <3>7, <3>8, WantedInScope DEF Want
    <3>9. CASE ~Predicate(req, o) BY <2>1, <3>1, <3>9
    <3> QED BY <3>8, <3>9
  <2> QED BY <2>2, <2>3, <2>4
<1>6. CASE UNCHANGED vars
  <2>1. \A i \in Objects : Want(i)' <=> Want(i) BY <1>6 DEF Want, vars
  <2> QED BY <1>6, <2>1 DEF Tracks, vars
<1> QED BY <1>1, <1>2, <1>3, <1>4, <1>5, <1>6 DEF Next

\* A client that lists or takes the snapshot and applies the watch's events
\* has every object it asked for; what it has beyond them is in astray, for
\* every request but a watch of one cluster-scoped object.
THEOREM CachesTrack == Spec => []CacheTracksSelection
<1>1. Init => Tracks BY DEF Init, Tracks
<1>2. Spec => []Tracks BY <1>1, FilesAlways, TracksStep, PTL DEF Spec
<1> QED BY <1>2, TracksIs, PTL

-----------------------------------------------------------------------------
(* The exception *)

\* parsePrefix takes the name of a cluster-scoped object for a namespace, and
\* matchesKey then refuses every event, as the watch is of a single key.
LEMMA DeafPassesNothing ==
  ASSUME NEW r \in Requests, Deaf(r), NEW o
  PROVE  ~Passes(r, o)
<1>1. SingleKey(r) /\ KeyOf(r) = <<r.res, r.sel["metadata.name"]>>
  <2>1. r.res \notin Namespaced BY RoutingAssumption DEF Deaf
  <2> QED BY <2>1, KeyIs DEF Deaf
<1>2. ~parsePrefix(KeyOf(r)).single BY <1>1, Tuples DEF parsePrefix
<1>3. ~Recursive(r) BY <1>1 DEF Recursive
<1> QED BY <1>2, <1>3 DEF Passes, matchesKey

\* The exception in CacheTracksSelection is exactly the code's: a client that
\* watches one cluster-scoped object hears of no write at all, so that what
\* it knows is what its last list or snapshot said.
THEOREM DeafHearsNothing ==
  Spec => [][Deaf(req) /\ files' # files => cache' = cache]_vars
<1>1. ASSUME FilesInv, [Next]_vars
      PROVE  [Deaf(req) /\ files' # files => cache' = cache]_vars
  <2> SUFFICES ASSUME Deaf(req), files' # files PROVE cache' = cache OBVIOUS
  <2>1. \A o : ~Passes(req, o) BY <1>1, DeafPassesNothing DEF FilesInv
  <2>2. \A t, o : Publish(t, o) => cache' = cache BY <2>1 DEF Publish
  <2>3. PICK i \in Objects : Create(i) \/ Delete(i) \/ \E ph \in Phases : Update(i, ph)
    BY <1>1 DEF Next, ListAndWatch, WatchFromZero, vars
  <2> QED BY <2>2, <2>3 DEF Create, Delete, Update
<1> QED BY <1>1, FilesAlways, PTL DEF Spec
=============================================================================
