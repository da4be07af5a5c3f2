--------------------------- MODULE LogStreamProofs ---------------------------
(***************************************************************************)
(* Proofs about LogStream, for all queries, any length of the log and any  *)
(* capacity of the connections: bytes are neither lost nor added on the    *)
(* way, and a response that ends in order is complete.                     *)
(***************************************************************************)
EXTENDS LogStream, TLAPS

-----------------------------------------------------------------------------
(* The inductive invariant *)

Counts ==
  /\ logged \in 0 .. MaxBytes /\ conn1 \in 0 .. Net /\ conn2 \in 0 .. Net
  /\ got \in Nat /\ pbuf \in Nat /\ hbuf \in Nat /\ pend \in Nat
  /\ off \in Nat /\ tip \in Nat /\ avail \in {None} \cup Nat /\ left \in {None} \cup Nat

Names ==
  /\ cont \in {"absent", "running", "ended"}
  /\ query \in Queries \cup {None}
  /\ client \in {"idle", "reading", "done", "left", "refused"}
  /\ px \in {"none", "do", "await", "read", "write", "end"}
  /\ hd \in {"none", "start", "read", "write", "end"}
  /\ dm \in {"none", "read", "write", "end"} /\ pipe \in {"open", "eof", "error"}
  /\ resp \in {"none", "ok", "error"} /\ status \in {"none", "ok", "error"}
  /\ log \in {"start", "serve", "shutdown", "returned"} /\ rec \in {"run", "returned"}
  /\ main \in {"select", "wait", "exited"}

Flags ==
  /\ pctx \in BOOLEAN /\ eof1 \in BOOLEAN /\ eof2 \in BOOLEAN /\ ctx \in BOOLEAN
  /\ cut \in BOOLEAN /\ opts.follow \in BOOLEAN

\* Where client, handlers and demultiplexer can be at the same time.
ClientPlaces ==
  /\ (client = "idle") <=> (px = "none")
  /\ px \in {"do", "await", "read", "write"} => query # None /\ Parses(query)
  /\ client = "done" => px = "end" /\ status = "ok" /\ conn2 = 0
  /\ eof2 => px = "end"
  /\ pctx => cut \/ client = "left"

ProxyPlaces ==
  /\ px \in {"none", "do"} => hd = "none"
  /\ px \in {"await", "read", "write"} => hd # "none"
  /\ px \in {"none", "do", "await"} => status = "none"
  /\ status = "ok" => resp = "ok"
  /\ pbuf > 0 => px = "write"

ServerPlaces ==
  /\ hd \in {"none", "start"} => resp = "none"
  /\ hd \in {"read", "write"} => resp = "ok"
  /\ hbuf > 0 => hd = "write"
  /\ eof1 <=> (hd = "end" \/ main = "exited")
  /\ main = "exited" => log = "returned" /\ hd \in {"none", "end"}

DemuxPlaces ==
  /\ (dm = "none") <=> (resp # "ok")
  /\ pend > 0 => dm = "write"
  /\ pipe # "open" => dm = "end"

\* The log server has the options that the client's query says.
OptsInv == hd # "none" => query # None /\ Parses(query) /\ opts = Options(query)

\* Bytes on their way from the demultiplexer to the client, and those that it
\* has let pass since the stream began.
Sum == got + conn2 + pbuf + conn1 + hbuf + pend
Begin == tip - Tailed(tip)
Passed == Limited(off - Begin)

EmptyInv == dm = "none" => Sum = 0 /\ off = 0 /\ tip = 0 /\ avail = None

StreamInv ==
  dm # "none" =>
    /\ tip <= logged /\ Begin <= off /\ off <= (IF avail = None THEN logged ELSE avail)
    /\ avail = (IF Wanted.follow THEN None ELSE tip)
    /\ left = (IF Wanted.limit = None \/ Wanted.limit <= 0 THEN None ELSE Wanted.limit - Passed)
    /\ Sum <= Passed

\* The demultiplexer has let pass all there will ever be.
Finished == left = 0 \/ (Readable = 0 /\ (avail = None => cont = "ended"))

\* As long as nobody has cut the stream off, nothing is lost, and whoever has
\* ended has passed on everything.
Alive == ~cut /\ client # "left"

AliveInv ==
  Alive =>
    /\ dm # "none" => Sum = Passed
    /\ pipe # "open" => Finished
    /\ hd = "end" /\ dm # "none" => pend = 0 /\ pipe # "open"
    /\ px = "end" => (client = "refused" /\ hd = "none") \/ (hd = "end" /\ conn1 = 0)

\* What holds whatever the bytes are, and what holds of them.
Shape ==
  /\ Counts /\ Names /\ Flags
  /\ ClientPlaces /\ ProxyPlaces /\ ServerPlaces /\ DemuxPlaces /\ OptsInv
BytesInv == EmptyInv /\ StreamInv /\ AliveInv

LInv == Shape /\ BytesInv

-----------------------------------------------------------------------------
(* Options *)

LEMMA IntsIs == "" \notin DOMAIN Ints /\ \A x \in DOMAIN Ints : Ints[x] \in Int /\ Ints[x] # None
BY QueriesAssumption, LogStreamAssumption

LEMMA BoolsIs == /\ DOMAIN Bools = {"true", "1", "false", "0"} /\ Bools["true"] = TRUE
                 /\ \A x \in DOMAIN Bools : Bools[x] = TRUE \/ Bools[x] = FALSE
<1>1. DOMAIN Bools = {"true", "1", "false", "0"} BY DEF Bools
<1>2. \A x \in DOMAIN Bools : Bools[x] = (x \in {"true", "1"}) BY Zenon DEF Bools
<1>3. Bools["true"] = ("true" \in {"true", "1"}) BY <1>1, <1>2
<1>4. Bools["true"] = TRUE BY <1>3, Zenon
<1>5. ASSUME NEW x \in DOMAIN Bools PROVE Bools[x] = TRUE \/ Bools[x] = FALSE
  <2>1. CASE x \in {"true", "1"} BY <1>2, <2>1
  <2>2. CASE x \notin {"true", "1"} BY <1>2, <2>2
  <2> QED BY <2>1, <2>2
<1> QED BY <1>1, <1>4, <1>5

\* What a query says that can be read.
LEMMA OptionsTypes ==
  ASSUME NEW q, Parses(q)
  PROVE  /\ Options(q).follow \in BOOLEAN
         /\ Options(q).tail \in {None} \cup Int /\ Options(q).limit \in {None} \cup Int
<1>1. Options(q).tail \in {None} \cup Int BY IntsIs DEF Options, Parses
<1>2. Options(q).limit \in {None} \cup Int BY IntsIs DEF Options, Parses
<1>3. Options(q).follow = (q.follow # "" /\ Bools[q.follow]) BY DEF Options
<1>4. Options(q).follow \in BOOLEAN BY <1>3, Zenon
<1> QED BY <1>1, <1>2, <1>4

\* strconv.FormatInt and ParseInt.
LEMMA FormatIntIs ==
  ASSUME NEW x \in DOMAIN Ints
  PROVE  FormatInt(Ints[x]) \in DOMAIN Ints /\ Ints[FormatInt(Ints[x])] = Ints[x]
<1>1. Ints[x] # None BY IntsIs
<1>2. FormatInt(Ints[x]) = CHOOSE y \in DOMAIN Ints : Ints[y] = Ints[x] BY <1>1 DEF FormatInt
<1>3. \E y \in DOMAIN Ints : Ints[y] = Ints[x] OBVIOUS
<1> QED BY <1>2, <1>3

\* The options survive the second URL.
LEMMA RoundTrip ==
  ASSUME NEW q, Parses(q)
  PROVE  parseLogOptions(encodeLogQuery(convertURLValuesToPodLogOptions(q))) = Options(q)
<1> DEFINE o == Options(q)
           e == encodeLogQuery(o)
<1>1. o = [container |-> q.container, follow |-> o.follow, tail |-> o.tail, limit |-> o.limit]
  BY DEF Options
<1>2. /\ e.container = q.container /\ e.follow = (IF o.follow THEN "true" ELSE "")
      /\ e.tail = FormatInt(o.tail) /\ e.limit = FormatInt(o.limit)
  BY DEF encodeLogQuery, Options
<1>3. (IF e.tail = "" THEN None ELSE Ints[e.tail]) = o.tail
  <2>1. CASE q.tail = ""
    <3>1. o.tail = None BY <2>1 DEF Options
    <3> QED BY <1>2, <3>1 DEF FormatInt
  <2>2. CASE q.tail \in DOMAIN Ints
    <3>1. o.tail = Ints[q.tail] BY <2>2, IntsIs DEF Options
    <3>2. e.tail \in DOMAIN Ints /\ Ints[e.tail] = o.tail
      <4>1. FormatInt(Ints[q.tail]) \in DOMAIN Ints /\ Ints[FormatInt(Ints[q.tail])] = Ints[q.tail]
        BY <2>2, FormatIntIs
      <4> QED BY <1>2, <3>1, <4>1
    <3>3. e.tail # "" BY <3>2, IntsIs
    <3> QED BY <3>2, <3>3
  <2> QED BY <2>1, <2>2 DEF Parses
<1>4. (IF e.limit = "" THEN None ELSE Ints[e.limit]) = o.limit
  <2>1. CASE q.limit = ""
    <3>1. o.limit = None BY <2>1 DEF Options
    <3> QED BY <1>2, <3>1 DEF FormatInt
  <2>2. CASE q.limit \in DOMAIN Ints
    <3>1. o.limit = Ints[q.limit] BY <2>2, IntsIs DEF Options
    <3>2. e.limit \in DOMAIN Ints /\ Ints[e.limit] = o.limit
      <4>1. FormatInt(Ints[q.limit]) \in DOMAIN Ints /\ Ints[FormatInt(Ints[q.limit])] = Ints[q.limit]
        BY <2>2, FormatIntIs
      <4> QED BY <1>2, <3>1, <4>1
    <3>3. e.limit # "" BY <3>2, IntsIs
    <3> QED BY <3>2, <3>3
  <2> QED BY <2>1, <2>2 DEF Parses
<1>5. (e.follow # "" /\ Bools[e.follow]) = o.follow
  <2>1. CASE o.follow = TRUE
    <3>1. e.follow = "true" BY <1>2, <2>1
    <3> QED BY <2>1, <3>1, BoolsIs
  <2>2. CASE o.follow = FALSE
    <3>1. e.follow = "" BY <1>2, <2>2
    <3> QED BY <2>2, <3>1
  <2>3. o.follow \in BOOLEAN BY OptionsTypes
  <2> QED BY <2>1, <2>2, <2>3
<1>6. Options(e) = [container |-> e.container, follow |-> (e.follow # "" /\ Bools[e.follow]),
                    tail |-> IF e.tail = "" THEN None ELSE Ints[e.tail],
                    limit |-> IF e.limit = "" THEN None ELSE Ints[e.limit]]
  BY DEF Options
<1>7. Options(e) = o
  <2> HIDE DEF o, e
  <2> QED BY <1>1, <1>2, <1>3, <1>4, <1>5, <1>6
<1> QED BY <1>7 DEF parseLogOptions, convertURLValuesToPodLogOptions

\* What the client wants is a choice of numbers, or all.
LEMMA WantedTypes ==
  /\ Wanted.follow \in BOOLEAN
  /\ Wanted.tail \in {None} \cup Int /\ Wanted.limit \in {None} \cup Int
<1>1. CASE query # None /\ Parses(query)
  <2>1. Wanted = Options(query) BY <1>1 DEF Wanted
  <2> QED BY <1>1, <2>1, OptionsTypes
<1>2. CASE ~ (query # None /\ Parses(query))
  <2>1. Wanted = NoOpts BY <1>2 DEF Wanted
  <2> QED BY <2>1 DEF NoOpts
<1> QED BY <1>1, <1>2

LEMMA TailedIs == ASSUME NEW n \in Nat PROVE Tailed(n) \in 0 .. n
BY WantedTypes, LogStreamAssumption DEF Tailed, Least

LEMMA LimitedIs == ASSUME NEW n \in Nat PROVE Limited(n) \in 0 .. n
BY WantedTypes, LogStreamAssumption DEF Limited, Least

LEMMA LimitedMonotonic ==
  ASSUME NEW n \in Nat, NEW m \in Nat, n <= m
  PROVE  Limited(n) <= Limited(m)
BY WantedTypes, LogStreamAssumption DEF Limited, Least

-----------------------------------------------------------------------------
(* Steps of kubelet-lite's main that end no stream *)

MainQuiet ==
  \/ Signal \/ LogFails \/ LogListens \/ LogShutsDown \/ ShutdownReturns \/ ShutdownExpires
  \/ ReconcilerReturns \/ MainCancels

LEMMA QuietIs ==
  ASSUME Names, ServerPlaces, MainQuiet
  PROVE  /\ UNCHANGED <<clientVars, proxyVars, dockerVars, serverVars, demuxVars, histVars>>
         /\ main' \in {"select", "wait", "exited"} /\ (main' = "exited" <=> main = "exited")
         /\ log' \in {"start", "serve", "shutdown", "returned"} /\ rec' \in {"run", "returned"}
         /\ main = "exited" => log' = log
<1> USE DEF MainQuiet, Signal, LogFails, LogListens, LogShutsDown, ShutdownReturns, ShutdownExpires,
            ReconcilerReturns, MainCancels, Kubelet, StreamsStay
<1>1. UNCHANGED <<clientVars, proxyVars, dockerVars, serverVars, demuxVars, histVars>>
  BY DEF histVars
<1>2. main' \in {"select", "wait", "exited"} /\ (main' = "exited" <=> main = "exited")
  BY DEF Names
<1>3. log' \in {"start", "serve", "shutdown", "returned"} /\ rec' \in {"run", "returned"}
  BY DEF Names
<1>4. main = "exited" => log' = log BY DEF ServerPlaces
<1> QED BY <1>1, <1>2, <1>3, <1>4

LEMMA NextIs ==
  Next =>
    \/ ContainerStarts \/ ContainerLogs \/ ContainerEnds
    \/ \E q \in Queries : ClientAsks(q)
    \/ ClientReads \/ ClientDone \/ ClientLeaves \/ Deadline
    \/ ProxyDo \/ ProxyRefused \/ ProxyAnswered \/ ProxyReads \/ ProxyDone
    \/ ProxyWrites \/ ProxyWriteFails
    \/ main # "exited" /\ (HandlerRefuses \/ HandlerOpens \/ HandlerReads \/ HandlerDone
                            \/ HandlerWrites \/ HandlerWriteFails)
    \/ \E n \in 1 .. MaxBytes : main # "exited" /\ DemuxReads(n)
    \/ main # "exited" /\ (DemuxWritten \/ DemuxClosed \/ DemuxEOF \/ DemuxCancelled \/ DockerBreaks)
    \/ MainExits \/ MainQuiet
BY DEF Next, ProxyStep, HandlerStep, DemuxStep, MainStep, MainQuiet

-----------------------------------------------------------------------------
(* Types *)

LEMMA NamesStep ==
  ASSUME Names, ServerPlaces, [Next]_vars
  PROVE  Names'
<1> USE DEF Names, clientVars, proxyVars, serverVars, dockerVars, demuxVars, mainVars, histVars
<1>1. CASE ContainerStarts \/ ContainerLogs \/ ContainerEnds
  BY <1>1 DEF ContainerStarts, ContainerLogs, ContainerEnds
<1>2. ASSUME NEW q \in Queries, ClientAsks(q) PROVE Names'
  BY <1>2 DEF ClientAsks
<1>3. CASE ClientReads \/ ClientDone \/ ClientLeaves \/ Deadline
  BY <1>3 DEF ClientReads, ClientDone, ClientLeaves, Deadline
<1>4. CASE ProxyRefused \/ ProxyDone \/ ProxyWriteFails
  BY <1>4 DEF ProxyRefused, ProxyDone, ProxyWriteFails, ProxyEnds
<1>5. CASE ProxyDo \/ ProxyAnswered \/ ProxyReads \/ ProxyWrites
  BY <1>5 DEF ProxyDo, ProxyAnswered, ProxyReads, ProxyWrites
<1>6. CASE HandlerRefuses \/ HandlerOpens \/ HandlerReads
  BY <1>6 DEF HandlerRefuses, HandlerOpens, HandlerReads
<1>7. CASE HandlerDone \/ HandlerWrites \/ HandlerWriteFails
  BY <1>7 DEF HandlerDone, HandlerWrites, HandlerWriteFails
<1>8. ASSUME NEW n, DemuxReads(n) PROVE Names'
  BY <1>8 DEF DemuxReads
<1>9. CASE DemuxWritten \/ DemuxClosed \/ DemuxEOF \/ DemuxCancelled \/ DockerBreaks
  BY <1>9 DEF DemuxWritten, DemuxClosed, DemuxEOF, DemuxCancelled, DockerBreaks
<1>10. CASE MainExits BY <1>10 DEF MainExits, Kubelet
<1>11. CASE MainQuiet BY <1>11, QuietIs
<1>12. CASE UNCHANGED vars BY <1>12 DEF vars
<1> QED BY <1>1, <1>2, <1>3, <1>4, <1>5, <1>6, <1>7, <1>8, <1>9, <1>10, <1>11, <1>12, NextIs

LEMMA FlagsStep ==
  ASSUME Names, ServerPlaces, ClientPlaces, Flags, [Next]_vars
  PROVE  Flags'
<1> USE DEF clientVars, proxyVars, serverVars, dockerVars, demuxVars, mainVars, histVars
<1>0. ASSUME pctx' \in {pctx, TRUE}, eof1' \in {eof1, TRUE}, eof2' \in {eof2, TRUE},
             ctx' \in {ctx, TRUE}, cut' \in {cut, TRUE}, opts' = opts
      PROVE  Flags'
  BY <1>0, Zenon DEF Flags
<1>1. CASE ContainerStarts \/ ContainerLogs \/ ContainerEnds
  BY <1>0, <1>1 DEF ContainerStarts, ContainerLogs, ContainerEnds
<1>2. ASSUME NEW q \in Queries, ClientAsks(q) PROVE Flags'
  BY <1>0, <1>2 DEF ClientAsks
<1>3. CASE ClientReads \/ ClientDone \/ ClientLeaves \/ Deadline
  BY <1>0, <1>3 DEF ClientReads, ClientDone, ClientLeaves, Deadline
<1>4. CASE ProxyRefused \/ ProxyDone \/ ProxyWriteFails
  BY <1>0, <1>4 DEF ProxyRefused, ProxyDone, ProxyWriteFails, ProxyEnds
<1>5. CASE ProxyAnswered \/ ProxyReads \/ ProxyWrites
  BY <1>0, <1>5 DEF ProxyAnswered, ProxyReads, ProxyWrites
<1>6. CASE ProxyDo
  <2>1. opts' = Options(query) /\ UNCHANGED <<pctx, eof1, eof2, ctx, cut>>
    BY <1>6, RoundTrip DEF ProxyDo, ClientPlaces
  <2>2. opts'.follow \in BOOLEAN BY <1>6, <2>1, OptionsTypes DEF ProxyDo, ClientPlaces
  <2> QED BY <2>1, <2>2, Zenon DEF Flags
<1>7. CASE HandlerRefuses \/ HandlerOpens \/ HandlerReads
  BY <1>0, <1>7 DEF HandlerRefuses, HandlerOpens, HandlerReads
<1>8. CASE HandlerDone \/ HandlerWrites \/ HandlerWriteFails
  BY <1>0, <1>8 DEF HandlerDone, HandlerWrites, HandlerWriteFails
<1>9. ASSUME NEW n, DemuxReads(n) PROVE Flags'
  BY <1>0, <1>9 DEF DemuxReads
<1>10. CASE DemuxWritten \/ DemuxClosed \/ DemuxEOF \/ DemuxCancelled \/ DockerBreaks
  BY <1>0, <1>10 DEF DemuxWritten, DemuxClosed, DemuxEOF, DemuxCancelled, DockerBreaks
<1>11. CASE MainExits
  <2>1. cut' \in BOOLEAN BY <1>11, Zenon DEF MainExits
  <2>2. eof1' = TRUE /\ UNCHANGED <<pctx, eof2, ctx, opts>> BY <1>11 DEF MainExits, Kubelet
  <2> QED BY <2>1, <2>2, Zenon DEF Flags
<1>12. CASE MainQuiet
  <2>1. ctx' \in {ctx, TRUE}
    BY <1>12 DEF MainQuiet, Signal, LogFails, LogListens, LogShutsDown, ShutdownReturns,
                 ShutdownExpires, ReconcilerReturns, MainCancels, Kubelet
  <2> QED BY <1>0, <1>12, <2>1, QuietIs
<1>13. CASE UNCHANGED vars BY <1>0, <1>13 DEF vars
<1> QED BY <1>1, <1>2, <1>3, <1>4, <1>5, <1>6, <1>7, <1>8, <1>9, <1>10, <1>11, <1>12, <1>13, NextIs

\* What is on the way is a number of bytes.
LEMMA CountsStep ==
  ASSUME Names, ServerPlaces, Counts, OptsInv, [Next]_vars
  PROVE  Counts'
<1> USE LogStreamAssumption
    DEF Counts, clientVars, proxyVars, serverVars, dockerVars, demuxVars, mainVars, histVars
<1>1. CASE ContainerStarts \/ ContainerLogs \/ ContainerEnds
  BY <1>1 DEF ContainerStarts, ContainerLogs, ContainerEnds
<1>2. ASSUME NEW q \in Queries, ClientAsks(q) PROVE Counts'
  BY <1>2 DEF ClientAsks
<1>3. CASE ClientReads \/ ClientDone \/ ClientLeaves \/ Deadline
  BY <1>3 DEF ClientReads, ClientDone, ClientLeaves, Deadline
<1>4. CASE ProxyRefused \/ ProxyDone \/ ProxyWriteFails
  BY <1>4 DEF ProxyRefused, ProxyDone, ProxyWriteFails, ProxyEnds
<1>5. CASE ProxyDo \/ ProxyAnswered \/ ProxyReads \/ ProxyWrites
  BY <1>5 DEF ProxyDo, ProxyAnswered, ProxyReads, ProxyWrites
<1>6. CASE HandlerRefuses \/ HandlerReads
  BY <1>6 DEF HandlerRefuses, HandlerReads
<1>7. CASE HandlerOpens
  <2>1. opts.tail \in {None} \cup Int /\ opts.limit \in {None} \cup Int
    BY <1>7, OptionsTypes DEF HandlerOpens, OptsInv
  <2>2. off' = logged - Tail(opts) /\ tip' = logged
    BY <1>7 DEF HandlerOpens
  <2>3. Tail(opts) \in 0 .. logged BY <2>1 DEF Tail, Least
  <2>4. avail' \in {None} \cup Nat BY <1>7 DEF HandlerOpens
  <2>5. left' \in {None} \cup Nat BY <1>7, <2>1 DEF HandlerOpens
  <2>6. UNCHANGED <<logged, conn1, conn2, got, pbuf, hbuf, pend>> BY <1>7 DEF HandlerOpens
  <2> QED BY <2>2, <2>3, <2>4, <2>5, <2>6
<1>8. CASE HandlerDone \/ HandlerWrites \/ HandlerWriteFails
  BY <1>8 DEF HandlerDone, HandlerWrites, HandlerWriteFails
<1>9. ASSUME NEW n \in 1 .. MaxBytes, DemuxReads(n) PROVE Counts'
  BY <1>9 DEF DemuxReads, Least
<1>10. CASE DemuxWritten \/ DemuxClosed \/ DemuxEOF \/ DemuxCancelled \/ DockerBreaks
  BY <1>10 DEF DemuxWritten, DemuxClosed, DemuxEOF, DemuxCancelled, DockerBreaks
<1>11. CASE MainExits BY <1>11 DEF MainExits, Kubelet
<1>12. CASE MainQuiet BY <1>12, QuietIs
<1>13. CASE UNCHANGED vars BY <1>13 DEF vars
<1> QED BY <1>1, <1>2, <1>3, <1>4, <1>5, <1>6, <1>7, <1>8, <1>9, <1>10, <1>11, <1>12, <1>13, NextIs

-----------------------------------------------------------------------------
(* Places *)

LEMMA ClientStep ==
  ASSUME Names, Flags, Counts, ClientPlaces, ProxyPlaces, ServerPlaces, DemuxPlaces, [Next]_vars
  PROVE  ClientPlaces'
<1> USE DEF ClientPlaces, clientVars, proxyVars, serverVars, dockerVars, demuxVars, mainVars, histVars
<1>1. CASE ContainerStarts \/ ContainerLogs \/ ContainerEnds
  BY <1>1 DEF ContainerStarts, ContainerLogs, ContainerEnds
<1>2. ASSUME NEW q \in Queries, ClientAsks(q) PROVE ClientPlaces'
  BY <1>2, QueriesAssumption DEF ClientAsks
<1>3. CASE ClientReads \/ ClientDone \/ ClientLeaves \/ Deadline
  BY <1>3 DEF ClientReads, ClientDone, ClientLeaves, Deadline
<1>4. CASE ProxyRefused \/ ProxyDone \/ ProxyWriteFails
  BY <1>4 DEF ProxyRefused, ProxyDone, ProxyWriteFails, ProxyEnds
<1>5. CASE ProxyDo \/ ProxyAnswered \/ ProxyReads \/ ProxyWrites
  BY <1>5 DEF ProxyDo, ProxyAnswered, ProxyReads, ProxyWrites
<1>6. CASE main # "exited" /\ (HandlerRefuses \/ HandlerOpens \/ HandlerReads)
  BY <1>6 DEF HandlerRefuses, HandlerOpens, HandlerReads
<1>7. CASE main # "exited" /\ (HandlerDone \/ HandlerWrites \/ HandlerWriteFails)
  BY <1>7 DEF HandlerDone, HandlerWrites, HandlerWriteFails
<1>8. ASSUME NEW n \in 1 .. MaxBytes, DemuxReads(n) PROVE ClientPlaces'
  BY <1>8 DEF DemuxReads
<1>9. CASE main # "exited" /\ (DemuxWritten \/ DemuxClosed \/ DemuxEOF \/ DemuxCancelled \/ DockerBreaks)
  BY <1>9 DEF DemuxWritten, DemuxClosed, DemuxEOF, DemuxCancelled, DockerBreaks
<1>10. CASE MainExits
  BY <1>10 DEF MainExits, Kubelet
<1>11. CASE MainQuiet BY <1>11, QuietIs DEF ServerPlaces
<1>12. CASE UNCHANGED vars BY <1>12 DEF vars
<1> QED BY <1>1, <1>2, <1>3, <1>4, <1>5, <1>6, <1>7, <1>8, <1>9, <1>10, <1>11, <1>12, NextIs

LEMMA ProxyPlacesStep ==
  ASSUME Names, Flags, Counts, ClientPlaces, ProxyPlaces, ServerPlaces, DemuxPlaces, [Next]_vars
  PROVE  ProxyPlaces'
<1> USE DEF ProxyPlaces, clientVars, proxyVars, serverVars, dockerVars, demuxVars, mainVars, histVars
<1>1. CASE ContainerStarts \/ ContainerLogs \/ ContainerEnds
  BY <1>1 DEF ContainerStarts, ContainerLogs, ContainerEnds
<1>2. ASSUME NEW q \in Queries, ClientAsks(q) PROVE ProxyPlaces'
  BY <1>2, QueriesAssumption DEF ClientAsks, ClientPlaces
<1>3. CASE ClientReads \/ ClientDone \/ ClientLeaves \/ Deadline
  BY <1>3 DEF ClientReads, ClientDone, ClientLeaves, Deadline
<1>4. CASE ProxyRefused \/ ProxyDone \/ ProxyWriteFails
  BY <1>4 DEF ProxyRefused, ProxyDone, ProxyWriteFails, ProxyEnds
<1>5. CASE ProxyDo \/ ProxyAnswered \/ ProxyReads \/ ProxyWrites
  BY <1>5 DEF ProxyDo, ProxyAnswered, ProxyReads, ProxyWrites
<1>6. CASE main # "exited" /\ (HandlerRefuses \/ HandlerOpens \/ HandlerReads)
  BY <1>6 DEF HandlerRefuses, HandlerOpens, HandlerReads, ServerPlaces
<1>7. CASE main # "exited" /\ (HandlerDone \/ HandlerWrites \/ HandlerWriteFails)
  BY <1>7 DEF HandlerDone, HandlerWrites, HandlerWriteFails
<1>8. ASSUME NEW n \in 1 .. MaxBytes, DemuxReads(n) PROVE ProxyPlaces'
  BY <1>8 DEF DemuxReads
<1>9. CASE main # "exited" /\ (DemuxWritten \/ DemuxClosed \/ DemuxEOF \/ DemuxCancelled \/ DockerBreaks)
  BY <1>9 DEF DemuxWritten, DemuxClosed, DemuxEOF, DemuxCancelled, DockerBreaks
<1>10. CASE MainExits
  BY <1>10 DEF MainExits, Kubelet
<1>11. CASE MainQuiet BY <1>11, QuietIs DEF ServerPlaces
<1>12. CASE UNCHANGED vars BY <1>12 DEF vars
<1> QED BY <1>1, <1>2, <1>3, <1>4, <1>5, <1>6, <1>7, <1>8, <1>9, <1>10, <1>11, <1>12, NextIs

LEMMA ServerStep ==
  ASSUME Names, Flags, Counts, ClientPlaces, ProxyPlaces, ServerPlaces, DemuxPlaces, [Next]_vars
  PROVE  ServerPlaces'
<1> USE DEF ServerPlaces, clientVars, proxyVars, serverVars, dockerVars, demuxVars, mainVars, histVars
<1>1. CASE ContainerStarts \/ ContainerLogs \/ ContainerEnds
  BY <1>1 DEF ContainerStarts, ContainerLogs, ContainerEnds
<1>2. ASSUME NEW q \in Queries, ClientAsks(q) PROVE ServerPlaces'
  BY <1>2, QueriesAssumption DEF ClientAsks
<1>3. CASE ClientReads \/ ClientDone \/ ClientLeaves \/ Deadline
  BY <1>3 DEF ClientReads, ClientDone, ClientLeaves, Deadline
<1>4. CASE ProxyRefused \/ ProxyDone \/ ProxyWriteFails
  BY <1>4 DEF ProxyRefused, ProxyDone, ProxyWriteFails, ProxyEnds
<1>5. CASE ProxyDo \/ ProxyAnswered \/ ProxyReads \/ ProxyWrites
  BY <1>5 DEF ProxyDo, ProxyAnswered, ProxyReads, ProxyWrites, ProxyPlaces
<1>6. CASE main # "exited" /\ (HandlerRefuses \/ HandlerOpens \/ HandlerReads)
  BY <1>6 DEF HandlerRefuses, HandlerOpens, HandlerReads
<1>7. CASE main # "exited" /\ (HandlerDone \/ HandlerWrites \/ HandlerWriteFails)
  BY <1>7 DEF HandlerDone, HandlerWrites, HandlerWriteFails
<1>8. ASSUME NEW n \in 1 .. MaxBytes, DemuxReads(n) PROVE ServerPlaces'
  BY <1>8 DEF DemuxReads
<1>9. CASE main # "exited" /\ (DemuxWritten \/ DemuxClosed \/ DemuxEOF \/ DemuxCancelled \/ DockerBreaks)
  BY <1>9 DEF DemuxWritten, DemuxClosed, DemuxEOF, DemuxCancelled, DockerBreaks
<1>10. CASE MainExits
  BY <1>10 DEF MainExits, Kubelet
<1>11. CASE MainQuiet BY <1>11, QuietIs DEF ServerPlaces
<1>12. CASE UNCHANGED vars BY <1>12 DEF vars
<1> QED BY <1>1, <1>2, <1>3, <1>4, <1>5, <1>6, <1>7, <1>8, <1>9, <1>10, <1>11, <1>12, NextIs

LEMMA DemuxPlacesStep ==
  ASSUME Names, Flags, Counts, ClientPlaces, ProxyPlaces, ServerPlaces, DemuxPlaces, [Next]_vars
  PROVE  DemuxPlaces'
<1> USE DEF DemuxPlaces, clientVars, proxyVars, serverVars, dockerVars, demuxVars, mainVars, histVars
<1>1. CASE ContainerStarts \/ ContainerLogs \/ ContainerEnds
  BY <1>1 DEF ContainerStarts, ContainerLogs, ContainerEnds
<1>2. ASSUME NEW q \in Queries, ClientAsks(q) PROVE DemuxPlaces'
  BY <1>2, QueriesAssumption DEF ClientAsks
<1>3. CASE ClientReads \/ ClientDone \/ ClientLeaves \/ Deadline
  BY <1>3 DEF ClientReads, ClientDone, ClientLeaves, Deadline
<1>4. CASE ProxyRefused \/ ProxyDone \/ ProxyWriteFails
  BY <1>4 DEF ProxyRefused, ProxyDone, ProxyWriteFails, ProxyEnds
<1>5. CASE ProxyDo \/ ProxyAnswered \/ ProxyReads \/ ProxyWrites
  BY <1>5 DEF ProxyDo, ProxyAnswered, ProxyReads, ProxyWrites
<1>6. CASE main # "exited" /\ (HandlerRefuses \/ HandlerOpens \/ HandlerReads)
  BY <1>6 DEF HandlerRefuses, HandlerOpens, HandlerReads, ServerPlaces, Counts
<1>7. CASE main # "exited" /\ (HandlerDone \/ HandlerWrites \/ HandlerWriteFails)
  BY <1>7 DEF HandlerDone, HandlerWrites, HandlerWriteFails
<1>8. ASSUME NEW n \in 1 .. MaxBytes, DemuxReads(n) PROVE DemuxPlaces'
  BY <1>8 DEF DemuxReads
<1>9. CASE main # "exited" /\ (DemuxWritten \/ DemuxClosed \/ DemuxEOF \/ DemuxCancelled \/ DockerBreaks)
  BY <1>9 DEF DemuxWritten, DemuxClosed, DemuxEOF, DemuxCancelled, DockerBreaks
<1>10. CASE MainExits
  BY <1>10 DEF MainExits, Kubelet
<1>11. CASE MainQuiet BY <1>11, QuietIs DEF ServerPlaces
<1>12. CASE UNCHANGED vars BY <1>12 DEF vars
<1> QED BY <1>1, <1>2, <1>3, <1>4, <1>5, <1>6, <1>7, <1>8, <1>9, <1>10, <1>11, <1>12, NextIs

LEMMA OptsStep ==
  ASSUME Names, ClientPlaces, ProxyPlaces, ServerPlaces, OptsInv, [Next]_vars
  PROVE  OptsInv'
<1> USE DEF clientVars, proxyVars, serverVars, dockerVars, demuxVars, mainVars, histVars
<1>0. ASSUME UNCHANGED <<query, opts>>, hd' # "none" => hd # "none" PROVE OptsInv'
  BY <1>0 DEF OptsInv
<1>1. CASE ContainerStarts \/ ContainerLogs \/ ContainerEnds
  BY <1>0, <1>1 DEF ContainerStarts, ContainerLogs, ContainerEnds
<1>2. ASSUME NEW q \in Queries, ClientAsks(q) PROVE OptsInv'
  BY <1>2 DEF ClientAsks, OptsInv, ClientPlaces, ProxyPlaces
<1>3. CASE ClientReads \/ ClientDone \/ ClientLeaves \/ Deadline
  BY <1>0, <1>3 DEF ClientReads, ClientDone, ClientLeaves, Deadline
<1>4. CASE ProxyRefused \/ ProxyDone \/ ProxyWriteFails
  BY <1>0, <1>4 DEF ProxyRefused, ProxyDone, ProxyWriteFails, ProxyEnds
<1>5. CASE ProxyAnswered \/ ProxyReads \/ ProxyWrites
  BY <1>0, <1>5 DEF ProxyAnswered, ProxyReads, ProxyWrites
<1>6. CASE ProxyDo
  BY <1>6, RoundTrip DEF ProxyDo, ClientPlaces, OptsInv
<1>7. CASE HandlerRefuses \/ HandlerOpens \/ HandlerReads
  BY <1>0, <1>7 DEF HandlerRefuses, HandlerOpens, HandlerReads
<1>8. CASE HandlerDone \/ HandlerWrites \/ HandlerWriteFails
  BY <1>0, <1>8 DEF HandlerDone, HandlerWrites, HandlerWriteFails
<1>9. ASSUME NEW n, DemuxReads(n) PROVE OptsInv'
  BY <1>0, <1>9 DEF DemuxReads
<1>10. CASE DemuxWritten \/ DemuxClosed \/ DemuxEOF \/ DemuxCancelled \/ DockerBreaks
  BY <1>0, <1>10 DEF DemuxWritten, DemuxClosed, DemuxEOF, DemuxCancelled, DockerBreaks
<1>11. CASE MainExits BY <1>0, <1>11 DEF MainExits, Kubelet
<1>12. CASE MainQuiet BY <1>0, <1>12, QuietIs
<1>13. CASE UNCHANGED vars BY <1>0, <1>13 DEF vars
<1> QED BY <1>1, <1>2, <1>3, <1>4, <1>5, <1>6, <1>7, <1>8, <1>9, <1>10, <1>11, <1>12, <1>13, NextIs

-----------------------------------------------------------------------------
(* Bytes *)

LEMMA ShapeStep ==
  ASSUME Shape, [Next]_vars
  PROVE  Shape'
BY CountsStep, NamesStep, FlagsStep, ClientStep, ProxyPlacesStep, ServerStep, DemuxPlacesStep,
   OptsStep
   DEF Shape

LEMMA SixNats ==
  \A a, b, c, d, e, f \in Nat : a + b + c + d + e + f \in Nat
OBVIOUS

LEMMA AddSame == \A a, b, c \in Nat : a <= b => a + c <= b + c
OBVIOUS

LEMMA SumInt ==
  ASSUME Counts
  PROVE  /\ Sum \in Nat /\ got <= Sum
         /\ Sum = got + conn2 + pbuf + conn1 + hbuf + pend
BY LogStreamAssumption DEF Counts, Sum

LEMMA PassedIs ==
  ASSUME Counts, StreamInv, dm # "none"
  PROVE  /\ Begin \in 0 .. tip /\ off - Begin \in Nat
         /\ Passed \in 0 .. off - Begin
<1>1. tip \in Nat /\ off \in Nat BY DEF Counts
<1>2. Begin \in 0 .. tip BY <1>1, TailedIs DEF Begin
<1>3. off - Begin \in Nat BY <1>1, <1>2 DEF StreamInv
<1> QED BY <1>2, <1>3, LimitedIs DEF Passed

\* Nobody asks again.
LEMMA WantedKept ==
  ASSUME query' = query
  PROVE  Wanted' = Wanted
BY DEF Wanted

LEMMA PassedKept ==
  ASSUME query' = query, off' = off, tip' = tip
  PROVE  Passed' = Passed /\ Begin' = Begin
<1>1. Wanted' = Wanted BY WantedKept
<1> QED BY <1>1 DEF Passed, Begin, Tailed, Limited

\* Steps after which nothing more is on the way, and nothing new is read.
LEMMA StreamKept ==
  ASSUME Shape, Shape', EmptyInv, StreamInv, dm' # "none" <=> dm # "none",
         UNCHANGED <<query, off, tip, avail, left>>, logged <= logged', Sum' <= Sum
  PROVE  EmptyInv' /\ StreamInv'
<1>1. Sum \in Nat /\ Sum' \in Nat
  <2>1. Counts /\ Counts' BY DEF Shape
  <2>2. Sum \in Nat BY <2>1, SumInt
  <2>3. /\ got' \in Nat /\ pbuf' \in Nat /\ hbuf' \in Nat /\ pend' \in Nat
        /\ conn1' \in Nat /\ conn2' \in Nat
    BY <2>1, LogStreamAssumption DEF Counts
  <2>4. Sum' = got' + conn2' + pbuf' + conn1' + hbuf' + pend' BY DEF Sum
  <2>5. Sum' \in Nat BY <2>3, <2>4, SixNats
  <2> QED BY <2>2, <2>5
<1>2. EmptyInv' BY <1>1 DEF EmptyInv
<1>3. ASSUME dm # "none" PROVE StreamInv'
  <2>1. Wanted' = Wanted /\ Passed' = Passed /\ Begin' = Begin BY WantedKept, PassedKept
  <2>2. Passed \in Nat BY <1>3, PassedIs DEF Shape
  <2>3. logged \in Nat /\ logged' \in Nat BY DEF Shape, Counts
  <2>4. tip <= logged /\ Begin <= off /\ off <= (IF avail = None THEN logged ELSE avail)
        /\ Sum <= Passed
    BY <1>3 DEF StreamInv
  <2>5. tip \in Nat /\ off \in Nat BY DEF Shape, Counts
  <2>6. tip' <= logged' /\ off' <= (IF avail' = None THEN logged' ELSE avail')
    BY <2>3, <2>4, <2>5
  <2>7. Sum' <= Passed' BY <1>1, <2>1, <2>2, <2>4
  <2>8. avail' = (IF Wanted'.follow THEN None ELSE tip') BY <1>3, <2>1 DEF StreamInv
  <2>9. left' = (IF Wanted'.limit = None \/ Wanted'.limit <= 0 THEN None ELSE Wanted'.limit - Passed')
    BY <1>3, <2>1 DEF StreamInv
  <2> QED BY <2>1, <2>4, <2>6, <2>7, <2>8, <2>9 DEF StreamInv
<1>4. ASSUME dm = "none" PROVE StreamInv' BY <1>4 DEF StreamInv
<1> QED BY <1>2, <1>3, <1>4

\* The steps that pass bytes on, that lose some, or that are about nothing of
\* it; nothing is lost while the stream is alive.
LEMMA Conserved ==
  ASSUME Shape, AliveInv, Next, HandlerOpens => FALSE,
         \A n \in 1 .. MaxBytes : ~ DemuxReads(n), \A q \in Queries : ~ ClientAsks(q)
  PROVE  /\ dm' # "none" <=> dm # "none"
         /\ UNCHANGED <<query, off, tip, avail, left>>
         /\ logged <= logged' /\ Sum' <= Sum
         /\ Alive' => Alive /\ (dm # "none" => Sum' = Sum)
<1> DEFINE Goal == /\ dm' # "none" <=> dm # "none"
                   /\ UNCHANGED <<query, off, tip, avail, left>>
                   /\ logged <= logged' /\ Sum' <= Sum
                   /\ Alive' => Alive /\ (dm # "none" => Sum' = Sum)
<1> USE DEF clientVars, proxyVars, serverVars, dockerVars, demuxVars, mainVars, histVars
<1>0. /\ Counts /\ Net \in Nat /\ logged \in Nat /\ conn1 \in Nat /\ conn2 \in Nat
      /\ got \in Nat /\ pbuf \in Nat /\ hbuf \in Nat /\ pend \in Nat
  BY LogStreamAssumption DEF Shape, Counts
<1>1. CASE ContainerStarts \/ ContainerLogs \/ ContainerEnds
  BY <1>0, <1>1 DEF ContainerStarts, ContainerLogs, ContainerEnds, Sum, Alive
<1>2. CASE ClientReads \/ ClientDone
  <2>1. CASE ClientReads BY <1>0, <2>1 DEF ClientReads, Sum, Alive
  <2>2. CASE ClientDone BY <1>0, <2>2 DEF ClientDone, Sum, Alive
  <2> QED BY <1>2, <2>1, <2>2
<1>3. CASE ClientLeaves \/ Deadline
  BY <1>0, <1>3 DEF ClientLeaves, Deadline, Sum, Alive
<1>4. CASE ProxyRefused \/ ProxyDone \/ ProxyWriteFails
  <2>1. /\ pbuf' = 0 /\ conn1' = 0
        /\ UNCHANGED <<clientVars, dockerVars, demuxVars, conn2, hbuf, tip>>
    BY <1>4 DEF ProxyRefused, ProxyDone, ProxyWriteFails, ProxyEnds
  <2>2. Sum' <= Sum BY <1>0, <2>1 DEF Sum
  <2>3. Alive' => Alive
    BY <1>4, <2>1 DEF ProxyRefused, ProxyDone, ProxyWriteFails, Alive
  <2>4. ASSUME Alive' PROVE Sum' = Sum
    <3>1. ~ pctx BY <2>3, <2>4 DEF Alive, Shape, ClientPlaces
    <3>2. px = "read" /\ conn1 = 0
      BY <1>4, <2>3, <2>4, <3>1 DEF ProxyRefused, ProxyDone, ProxyWriteFails, Alive
    <3>3. pbuf = 0 BY <1>0, <3>2 DEF Shape, ProxyPlaces
    <3> QED BY <2>1, <3>2, <3>3 DEF Sum
  <2> QED BY <1>0, <2>1, <2>2, <2>3, <2>4
<1>5. CASE ProxyDo \/ ProxyAnswered
  BY <1>0, <1>5 DEF ProxyDo, ProxyAnswered, Sum, Alive
<1>6. CASE ProxyReads
  <2>1. pbuf = 0 BY <1>0, <1>6 DEF ProxyReads, Shape, ProxyPlaces
  <2> QED BY <1>0, <1>6, <2>1 DEF ProxyReads, Sum, Alive
<1>7. CASE ProxyWrites BY <1>0, <1>7 DEF ProxyWrites, Sum, Alive
<1>8. CASE HandlerRefuses \/ HandlerDone
  BY <1>0, <1>8 DEF HandlerRefuses, HandlerDone, Sum, Alive
<1>9. CASE HandlerReads
  <2>1. hbuf = 0 BY <1>0, <1>9 DEF HandlerReads, Shape, ServerPlaces
  <2> QED BY <1>0, <1>9, <2>1 DEF HandlerReads, Sum, Alive
<1>10. CASE HandlerWrites BY <1>0, <1>10 DEF HandlerWrites, Sum, Alive
<1>11. CASE HandlerWriteFails
  <2>1. ~ Alive BY <1>11 DEF HandlerWriteFails, AliveInv
  <2>2. Alive' = Alive BY <1>11 DEF HandlerWriteFails, Alive
  <2> QED BY <1>0, <1>11, <2>1, <2>2 DEF HandlerWriteFails, Sum
<1>12. CASE DemuxWritten \/ DemuxEOF \/ DemuxCancelled \/ DockerBreaks
  <2>1. /\ dm # "none" /\ dm' # "none"
        /\ UNCHANGED <<clientVars, proxyVars, dockerVars, serverVars, off, avail, left, pend, tip>>
    BY <1>12 DEF DemuxWritten, DemuxEOF, DemuxCancelled, DockerBreaks
  <2>2. Sum' = Sum BY <2>1 DEF Sum
  <2>3. Sum \in Nat BY <1>0, SumInt
  <2>4. Alive' => Alive
    BY <1>12, <2>1 DEF DemuxWritten, DemuxEOF, DemuxCancelled, DockerBreaks, Alive
  <2> QED BY <1>0, <2>1, <2>2, <2>3, <2>4
<1>13. CASE DemuxClosed
  <2>1. ~ Alive BY <1>0, <1>13 DEF DemuxClosed, AliveInv
  <2>2. Alive' = Alive BY <1>13 DEF DemuxClosed, Alive
  <2> QED BY <1>0, <1>13, <2>1, <2>2 DEF DemuxClosed, Sum
<1>14. CASE MainExits
  <2>1. /\ hbuf' = 0 /\ pend' = 0 /\ (dm' # "none" <=> dm # "none")
        /\ UNCHANGED <<clientVars, proxyVars, dockerVars, off, tip, avail, left, conn1>>
    BY <1>14 DEF MainExits, Kubelet
  <2>2. Sum' <= Sum BY <1>0, <2>1 DEF Sum
  <2>3. Alive' => Alive /\ hd \in {"none", "end"}
    BY <1>14, <2>1 DEF MainExits, Alive, Shape, Names
  <2>4. ASSUME Alive', dm # "none" PROVE Sum' = Sum
    <3>1. hd = "end" BY <2>3, <2>4 DEF Shape, DemuxPlaces, ServerPlaces
    <3>2. pend = 0 /\ hbuf = 0 BY <1>0, <2>3, <2>4, <3>1 DEF AliveInv, Shape, ServerPlaces
    <3> QED BY <2>1, <3>2 DEF Sum
  <2> QED BY <1>0, <2>1, <2>2, <2>3, <2>4
<1>15. CASE MainQuiet
  <2>1. UNCHANGED <<clientVars, proxyVars, dockerVars, serverVars, demuxVars, histVars>>
    BY <1>15, QuietIs DEF Shape
  <2> QED BY <1>0, <2>1 DEF Sum, Alive
<1> QED BY <1>1, <1>2, <1>3, <1>4, <1>5, <1>6, <1>7, <1>8, <1>9, <1>10, <1>11, <1>12, <1>13,
           <1>14, <1>15, NextIs

\* The end of the log stays the end of it.
LEMMA FinishedKept ==
  ASSUME Shape, Finished, UNCHANGED <<off, avail, left>>, logged' = logged \/ cont # "ended",
         cont = "ended" => cont' = "ended"
  PROVE  Finished'
<1>1. CASE left = 0 BY <1>1 DEF Finished
<1>2. CASE Readable = 0 /\ (avail = None => cont = "ended")
  <2>1. CASE avail = None BY <1>2, <2>1 DEF Finished, Readable
  <2>2. CASE avail # None BY <1>2, <2>2 DEF Finished, Readable
  <2> QED BY <2>1, <2>2
<1> QED BY <1>1, <1>2 DEF Finished

\* Whoever ends an uncut stream has passed everything on.
LEMMA PipeEnds ==
  ASSUME Shape, AliveInv, Next, Alive, Alive', UNCHANGED <<off, avail, left>>,
         pipe' # "open", \A n \in 1 .. MaxBytes : ~ DemuxReads(n)
  PROVE  Finished'
<1> USE DEF clientVars, proxyVars, serverVars, dockerVars, demuxVars, mainVars, histVars
<1>1. CASE DemuxWritten \/ DemuxEOF \/ DemuxCancelled \/ DockerBreaks \/ DemuxClosed
  <2>1. CASE DemuxWritten
    <3>1. CASE left = 0 BY <3>1 DEF Finished
    <3>2. CASE left # 0
      <4>1. UNCHANGED pipe BY <2>1, <3>2 DEF DemuxWritten
      <4> QED BY <2>1, <4>1 DEF DemuxWritten, Shape, DemuxPlaces
    <3> QED BY <3>1, <3>2
  <2>2. CASE DemuxEOF
    <3>1. Finished /\ UNCHANGED <<logged, cont>> BY <2>2 DEF DemuxEOF, Finished
    <3> QED BY <3>1, FinishedKept
  <2>3. CASE DemuxCancelled
    <3>1. dm # "none" /\ pipe = "open" BY <2>3 DEF DemuxCancelled, Shape, DemuxPlaces
    <3>2. hd # "end" BY <3>1 DEF AliveInv
    <3>3. hd # "none" BY <3>1 DEF Shape, DemuxPlaces, ServerPlaces
    <3>4. px # "end" BY <3>2, <3>3 DEF AliveInv
    <3> QED BY <2>3, <3>2, <3>4 DEF DemuxCancelled, Cancelled
  <2>4. CASE DockerBreaks BY <2>4 DEF DockerBreaks, Alive
  <2>5. CASE DemuxClosed
    <3>1. dm # "none" /\ hd = "end" /\ pend > 0 BY <2>5 DEF DemuxClosed
    <3> QED BY <3>1 DEF AliveInv
  <2> QED BY <1>1, <2>1, <2>2, <2>3, <2>4, <2>5
<1>2. CASE ~ (DemuxWritten \/ DemuxEOF \/ DemuxCancelled \/ DockerBreaks \/ DemuxClosed)
  <2>1. UNCHANGED pipe
    <3>1. CASE ContainerStarts \/ ContainerLogs \/ ContainerEnds \/ MainExits
      BY <3>1 DEF ContainerStarts, ContainerLogs, ContainerEnds, MainExits
    <3>2. ASSUME NEW q \in Queries, ClientAsks(q) PROVE UNCHANGED pipe
      BY <3>2 DEF ClientAsks
    <3>3. CASE ClientReads \/ ClientDone \/ ClientLeaves \/ Deadline
      BY <3>3 DEF ClientReads, ClientDone, ClientLeaves, Deadline
    <3>4. CASE ProxyRefused \/ ProxyDone \/ ProxyWriteFails
      BY <3>4 DEF ProxyRefused, ProxyDone, ProxyWriteFails, ProxyEnds
    <3>5. CASE ProxyDo \/ ProxyAnswered \/ ProxyReads \/ ProxyWrites
      BY <3>5 DEF ProxyDo, ProxyAnswered, ProxyReads, ProxyWrites
    <3>6. CASE HandlerRefuses \/ HandlerOpens \/ HandlerReads
      BY <3>6 DEF HandlerRefuses, HandlerOpens, HandlerReads
    <3>7. CASE HandlerDone \/ HandlerWrites \/ HandlerWriteFails
      BY <3>7 DEF HandlerDone, HandlerWrites, HandlerWriteFails
    <3>8. CASE MainQuiet BY <3>8, QuietIs DEF Shape
    <3> QED BY <1>2, <3>1, <3>2, <3>3, <3>4, <3>5, <3>6, <3>7, <3>8, NextIs
  <2>2. Finished BY <2>1 DEF AliveInv
  <2>3. (logged' = logged \/ cont # "ended") /\ (cont = "ended" => cont' = "ended")
    <3>1. CASE ContainerStarts \/ ContainerLogs \/ ContainerEnds
      BY <3>1 DEF ContainerStarts, ContainerLogs, ContainerEnds
    <3>2. CASE MainExits BY <3>2 DEF MainExits, Kubelet
    <3>3. ASSUME NEW q \in Queries, ClientAsks(q) PROVE UNCHANGED dockerVars
      BY <3>3 DEF ClientAsks
    <3>4. CASE ClientReads \/ ClientDone \/ ClientLeaves \/ Deadline
      BY <3>4 DEF ClientReads, ClientDone, ClientLeaves, Deadline
    <3>5. CASE ProxyRefused \/ ProxyDone \/ ProxyWriteFails
      BY <3>5 DEF ProxyRefused, ProxyDone, ProxyWriteFails, ProxyEnds
    <3>6. CASE ProxyDo \/ ProxyAnswered \/ ProxyReads \/ ProxyWrites
      BY <3>6 DEF ProxyDo, ProxyAnswered, ProxyReads, ProxyWrites
    <3>7. CASE HandlerRefuses \/ HandlerOpens \/ HandlerReads
      BY <3>7 DEF HandlerRefuses, HandlerOpens, HandlerReads
    <3>8. CASE HandlerDone \/ HandlerWrites \/ HandlerWriteFails
      BY <3>8 DEF HandlerDone, HandlerWrites, HandlerWriteFails
    <3>9. CASE MainQuiet BY <3>9, QuietIs DEF Shape
    <3> QED BY <1>2, <3>1, <3>2, <3>3, <3>4, <3>5, <3>6, <3>7, <3>8, <3>9, NextIs
  <2> QED BY <2>2, <2>3, FinishedKept
<1> QED BY <1>1, <1>2

\* When the log server's handler has ended, nothing is left in the pipe.
LEMMA HandlerEnds ==
  ASSUME Shape, AliveInv, Next, Alive, Alive', hd' = "end", dm' # "none", dm # "none",
         \A n \in 1 .. MaxBytes : ~ DemuxReads(n)
  PROVE  pend' = 0 /\ pipe' # "open"
<1> USE DEF clientVars, proxyVars, serverVars, dockerVars, demuxVars, mainVars, histVars
<1>0. pend \in Nat /\ hd # "start"
  BY DEF Shape, Counts, DemuxPlaces, ServerPlaces
<1>1. CASE ContainerStarts \/ ContainerLogs \/ ContainerEnds
  BY <1>1 DEF ContainerStarts, ContainerLogs, ContainerEnds, AliveInv
<1>2. ASSUME NEW q \in Queries, ClientAsks(q) PROVE pend' = 0 /\ pipe' # "open"
  BY <1>2 DEF ClientAsks, AliveInv
<1>3. CASE ClientReads \/ ClientDone \/ ClientLeaves \/ Deadline
  BY <1>3 DEF ClientReads, ClientDone, ClientLeaves, Deadline, AliveInv
<1>4. CASE ProxyRefused \/ ProxyDone \/ ProxyWriteFails
  BY <1>4 DEF ProxyRefused, ProxyDone, ProxyWriteFails, ProxyEnds, AliveInv
<1>5. CASE ProxyDo \/ ProxyAnswered \/ ProxyReads \/ ProxyWrites
  BY <1>5 DEF ProxyDo, ProxyAnswered, ProxyReads, ProxyWrites, AliveInv
<1>6. CASE HandlerRefuses \/ HandlerOpens \/ HandlerReads
  BY <1>0, <1>6 DEF HandlerRefuses, HandlerOpens, HandlerReads
<1>7. CASE HandlerDone \/ HandlerWrites BY <1>7 DEF HandlerDone, HandlerWrites
<1>8. CASE HandlerWriteFails BY <1>8 DEF HandlerWriteFails, AliveInv
<1>9. CASE DemuxWritten \/ DemuxClosed \/ DemuxEOF \/ DemuxCancelled \/ DockerBreaks
  <2>1. hd = "end" /\ dm \in {"read", "write"}
    BY <1>9 DEF DemuxWritten, DemuxClosed, DemuxEOF, DemuxCancelled, DockerBreaks
  <2>2. pipe # "open" BY <2>1 DEF AliveInv
  <2> QED BY <2>1, <2>2 DEF Shape, DemuxPlaces
<1>10. CASE MainExits
  <2>1. hd = "end"
    BY <1>0, <1>10 DEF MainExits, Alive, Shape, Names, DemuxPlaces, ServerPlaces
  <2> QED BY <1>10, <2>1 DEF MainExits, AliveInv
<1>11. CASE MainQuiet
  <2>1. UNCHANGED <<hd, pend, pipe>> BY <1>11, QuietIs DEF Shape
  <2> QED BY <2>1 DEF AliveInv
<1> QED BY <1>1, <1>2, <1>3, <1>4, <1>5, <1>6, <1>7, <1>8, <1>9, <1>10, <1>11, NextIs

\* When the apiserver's handler has ended an uncut stream, the log server's had
\* ended before, and the connection between them is empty.
LEMMA ProxyEndsLast ==
  ASSUME Shape, AliveInv, Next, Alive, Alive', px' = "end"
  PROVE  (client' = "refused" /\ hd' = "none") \/ (hd' = "end" /\ conn1' = 0)
<1> DEFINE Ended == (client' = "refused" /\ hd' = "none") \/ (hd' = "end" /\ conn1' = 0)
<1> USE DEF clientVars, proxyVars, serverVars, dockerVars, demuxVars, mainVars, histVars
<1>1. CASE ContainerStarts \/ ContainerLogs \/ ContainerEnds
  BY <1>1 DEF ContainerStarts, ContainerLogs, ContainerEnds, AliveInv
<1>2. ASSUME NEW q \in Queries, ClientAsks(q) PROVE Ended
  BY <1>2 DEF ClientAsks, Shape, ClientPlaces, ProxyPlaces
<1>3. CASE ClientReads \/ ClientDone \/ ClientLeaves \/ Deadline
  BY <1>3 DEF ClientReads, ClientDone, ClientLeaves, Deadline, AliveInv
<1>4. CASE ProxyRefused \/ ProxyDone \/ ProxyWriteFails
  <2>1. ~ pctx BY DEF Alive, Shape, ClientPlaces
  <2>2. px = "read" /\ eof1 /\ conn1' = 0 /\ hd' = hd
    BY <1>4, <2>1 DEF ProxyRefused, ProxyDone, ProxyWriteFails, ProxyEnds, Alive
  <2>3. hd # "none" /\ (hd = "end" \/ main = "exited")
    BY <2>2 DEF Shape, ProxyPlaces, ServerPlaces
  <2>4. hd = "end" BY <2>3 DEF Shape, ServerPlaces
  <2> QED BY <2>2, <2>4
<1>5. CASE ProxyDo \/ ProxyAnswered \/ ProxyReads \/ ProxyWrites
  BY <1>5 DEF ProxyDo, ProxyAnswered, ProxyReads, ProxyWrites
<1>6. CASE HandlerRefuses \/ HandlerOpens \/ HandlerReads
  BY <1>6 DEF HandlerRefuses, HandlerOpens, HandlerReads, AliveInv
<1>7. CASE HandlerDone \/ HandlerWrites \/ HandlerWriteFails
  BY <1>7 DEF HandlerDone, HandlerWrites, HandlerWriteFails, AliveInv
<1>8. ASSUME NEW n, DemuxReads(n) PROVE Ended BY <1>8 DEF DemuxReads, AliveInv
<1>9. CASE DemuxWritten \/ DemuxClosed \/ DemuxEOF \/ DemuxCancelled \/ DockerBreaks
  BY <1>9 DEF DemuxWritten, DemuxClosed, DemuxEOF, DemuxCancelled, DockerBreaks, AliveInv
<1>10. CASE MainExits BY <1>10 DEF MainExits, Kubelet, AliveInv
<1>11. CASE MainQuiet
  <2>1. UNCHANGED <<px, client, hd, conn1>> BY <1>11, QuietIs DEF Shape
  <2> QED BY <2>1 DEF AliveInv
<1> QED BY <1>1, <1>2, <1>3, <1>4, <1>5, <1>6, <1>7, <1>8, <1>9, <1>10, <1>11, NextIs

\* All steps but those that ask for the stream, open it and read from it.
LEMMA BytesConserved ==
  ASSUME Shape, Shape', BytesInv, Next, HandlerOpens => FALSE,
         \A n \in 1 .. MaxBytes : ~ DemuxReads(n), \A q \in Queries : ~ ClientAsks(q)
  PROVE  BytesInv'
<1>1. /\ dm' # "none" <=> dm # "none"
      /\ UNCHANGED <<query, off, tip, avail, left>>
      /\ logged <= logged' /\ Sum' <= Sum
      /\ Alive' => Alive /\ (dm # "none" => Sum' = Sum)
  BY Conserved DEF BytesInv
<1>2. EmptyInv' /\ StreamInv' BY <1>1, StreamKept DEF BytesInv
<1>3. Passed' = Passed BY <1>1, PassedKept
<1>4. ASSUME Alive'
      PROVE  /\ dm' # "none" => Sum' = Passed'
             /\ pipe' # "open" => Finished'
             /\ hd' = "end" /\ dm' # "none" => pend' = 0 /\ pipe' # "open"
             /\ px' = "end" => (client' = "refused" /\ hd' = "none") \/ (hd' = "end" /\ conn1' = 0)
  <2>1. Alive /\ AliveInv BY <1>1, <1>4 DEF BytesInv
  <2>2. dm' # "none" => Sum' = Passed' BY <1>1, <1>3, <1>4, <2>1 DEF AliveInv
  <2>3. pipe' # "open" => Finished' BY <1>1, <1>4, <2>1, PipeEnds
  <2>4. hd' = "end" /\ dm' # "none" => pend' = 0 /\ pipe' # "open"
    BY <1>1, <1>4, <2>1, HandlerEnds
  <2>5. px' = "end" => (client' = "refused" /\ hd' = "none") \/ (hd' = "end" /\ conn1' = 0)
    BY <1>4, <2>1, ProxyEndsLast
  <2> QED BY <2>2, <2>3, <2>4, <2>5
<1>5. AliveInv' BY <1>4 DEF AliveInv
<1> QED BY <1>2, <1>5 DEF BytesInv

LEMMA BytesAsked ==
  ASSUME Shape, BytesInv, Next, NEW q \in Queries, ClientAsks(q)
  PROVE  BytesInv'
<1> USE DEF clientVars, proxyVars, serverVars, dockerVars, demuxVars, mainVars, histVars
<1>1. hd = "none" /\ dm = "none" /\ pipe = "open"
  BY DEF ClientAsks, Shape, ClientPlaces, ProxyPlaces, ServerPlaces, DemuxPlaces
<1>2. /\ dm' = "none" /\ hd' = "none" /\ pipe' = "open"
      /\ UNCHANGED <<got, conn2, pbuf, conn1, hbuf, pend, off, tip, avail>>
  BY <1>1 DEF ClientAsks
<1>3. Sum' = Sum BY <1>2 DEF Sum
<1>4. px' = "end" => client' = "refused" BY DEF ClientAsks
<1>5. EmptyInv' /\ StreamInv' BY <1>1, <1>2, <1>3 DEF EmptyInv, StreamInv, BytesInv
<1>6. AliveInv' BY <1>2, <1>4 DEF AliveInv
<1> QED BY <1>5, <1>6 DEF BytesInv

\* Docker.Logs: the stream begins where the client's own query says.
LEMMA BytesOpened ==
  ASSUME Shape, Shape', BytesInv, Next, HandlerOpens
  PROVE  BytesInv'
<1> USE DEF clientVars, proxyVars, serverVars, dockerVars, demuxVars, mainVars, histVars
<1>1. dm = "none" /\ pipe = "open"
  BY DEF HandlerOpens, Shape, ServerPlaces, DemuxPlaces
<1>2. /\ dm' = "read" /\ hd' = "read" /\ pipe' = "open" /\ tip' = logged /\ logged' = logged
      /\ UNCHANGED <<query, got, conn2, pbuf, conn1, hbuf, pend, px, client, cut>>
  BY <1>1 DEF HandlerOpens
<1>3. Sum' = 0
  <2>1. Sum = 0 BY <1>1 DEF BytesInv, EmptyInv
  <2>2. Sum' = Sum BY <1>2 DEF Sum
  <2> QED BY <2>1, <2>2
<1>4. Wanted = opts /\ Wanted' = Wanted
  BY <1>2, WantedKept DEF HandlerOpens, Shape, OptsInv, Wanted
<1>5. logged \in Nat BY LogStreamAssumption DEF Shape, Counts
<1>6. Tailed(logged) \in 0 .. logged BY <1>5, TailedIs
<1>7. Tail(opts) = Tailed(logged) BY <1>4, <1>5, WantedTypes, LogStreamAssumption DEF Tail, Tailed, Least
<1>8. off' = logged - Tailed(logged) BY <1>7 DEF HandlerOpens
<1>9. Begin' = logged - Tailed(logged) BY <1>2, <1>4 DEF Begin, Tailed
<1>10. off' - Begin' = 0 /\ off' \in 0 .. logged BY <1>5, <1>6, <1>8, <1>9
<1>11. Passed' = 0
  <2>1. Passed' = IF Wanted.limit = None \/ Wanted.limit <= 0 THEN 0 ELSE Least(0, Wanted.limit)
    BY <1>4, <1>10 DEF Passed, Limited
  <2> QED BY <2>1, WantedTypes, LogStreamAssumption DEF Least
<1>12. avail' = (IF Wanted'.follow THEN None ELSE tip') BY <1>2, <1>4 DEF HandlerOpens
<1>13. left' = (IF Wanted'.limit = None \/ Wanted'.limit <= 0 THEN None ELSE Wanted'.limit - Passed')
  <2>1. left' = IF opts.limit # None /\ opts.limit > 0 THEN opts.limit ELSE None
    BY DEF HandlerOpens
  <2> QED BY <1>4, <1>11, <2>1, WantedTypes, LogStreamAssumption
<1>14. off' <= (IF avail' = None THEN logged' ELSE avail')
  <2>1. avail' \in {None, logged} BY <1>2, <1>12
  <2> QED BY <1>2, <1>5, <1>10, <2>1
<1>15. Begin' <= off' BY <1>5, <1>6, <1>8, <1>9
<1>16. StreamInv' BY <1>2, <1>3, <1>5, <1>11, <1>12, <1>13, <1>14, <1>15 DEF StreamInv
<1>17. EmptyInv' BY <1>2 DEF EmptyInv
<1>18. AliveInv'
  <2>1. Alive' => Alive BY <1>2 DEF Alive
  <2>2. Alive => px # "end" BY DEF BytesInv, AliveInv, HandlerOpens
  <2> QED BY <1>2, <1>3, <1>11, <2>1, <2>2 DEF AliveInv
<1> QED BY <1>16, <1>17, <1>18 DEF BytesInv

\* StdCopy and limitWriter: of a frame as much passes as the limit allows.
LEMMA BytesRead ==
  ASSUME Shape, Shape', BytesInv, Next, NEW n \in 1 .. MaxBytes, DemuxReads(n)
  PROVE  BytesInv'
<1> USE DEF clientVars, proxyVars, serverVars, dockerVars, demuxVars, mainVars, histVars
<1>1. dm = "read" /\ dm' = "write" /\ off' = off + n /\ n <= Readable
      /\ UNCHANGED <<query, got, conn2, pbuf, conn1, hbuf, px, client, cut, hd, tip, logged, avail, pipe>>
  BY DEF DemuxReads
<1>2. /\ pend = 0 /\ pipe = "open" /\ n \in Nat /\ off \in Nat /\ logged \in Nat
      /\ avail \in {None} \cup Nat /\ pend' \in Nat
  BY <1>1, LogStreamAssumption DEF Shape, Counts, DemuxPlaces
<1>3. Wanted' = Wanted /\ Begin' = Begin
  <2>1. Wanted' = Wanted BY <1>1, WantedKept
  <2> QED BY <1>1, <2>1 DEF Begin, Tailed
<1>4. /\ tip <= logged /\ Begin <= off
      /\ avail = (IF Wanted.follow THEN None ELSE tip)
      /\ left = (IF Wanted.limit = None \/ Wanted.limit <= 0 THEN None ELSE Wanted.limit - Passed)
      /\ Sum <= Passed
  BY <1>1 DEF BytesInv, StreamInv
<1>5. Begin \in Nat /\ off - Begin \in Nat /\ Passed \in 0 .. off - Begin
  <2>1. Begin \in 0 .. tip /\ off - Begin \in Nat /\ Passed \in 0 .. off - Begin
    BY <1>1, PassedIs DEF BytesInv, Shape
  <2> QED BY <2>1
<1>6. off' - Begin' \in Nat /\ off' - Begin' = (off - Begin) + n /\ Begin' <= off'
  BY <1>1, <1>2, <1>3, <1>5
<1>7. Passed' = IF Wanted.limit = None \/ Wanted.limit <= 0 THEN (off - Begin) + n
                ELSE Least((off - Begin) + n, Wanted.limit)
  BY <1>3, <1>6 DEF Passed, Limited
<1>8. Passed = IF Wanted.limit = None \/ Wanted.limit <= 0 THEN off - Begin
               ELSE Least(off - Begin, Wanted.limit)
  BY DEF Passed, Limited
<1>9. Passed' = Passed + pend'
      /\ left' = (IF Wanted.limit = None \/ Wanted.limit <= 0 THEN None ELSE Wanted.limit - Passed')
  <2>1. CASE Wanted.limit = None \/ Wanted.limit <= 0
    <3>1. left = None BY <1>4, <2>1
    <3>2. pend' = n /\ left' = None BY <3>1 DEF DemuxReads
    <3> QED BY <1>7, <1>8, <2>1, <3>2
  <2>2. CASE ~ (Wanted.limit = None \/ Wanted.limit <= 0)
    <3>1. Wanted.limit \in Nat \ {0} BY <2>2, WantedTypes
    <3>2. left = Wanted.limit - Passed BY <1>4, <2>2
    <3>3. left \in Int /\ left # None BY <1>5, <3>1, <3>2, LogStreamAssumption
    <3>4. pend' = Least(n, left) /\ left' = left - pend' BY <3>3 DEF DemuxReads
    <3>5. PICK d \in Nat : d = off - Begin BY <1>5
    <3>6. Passed = Least(d, Wanted.limit) /\ Passed' = Least(d + n, Wanted.limit)
      BY <1>7, <1>8, <2>2, <3>5
    <3>7. Passed' = Passed + pend' BY <1>2, <3>1, <3>2, <3>4, <3>5, <3>6 DEF Least
    <3> QED BY <1>2, <1>5, <2>2, <3>1, <3>2, <3>4, <3>7
  <2> QED BY <2>1, <2>2
<1>10. Sum \in Nat /\ Sum' = Sum + pend'
  <2>1. Sum \in Nat BY SumInt DEF Shape
  <2>2. Sum = got + conn2 + pbuf + conn1 + hbuf + pend BY DEF Sum
  <2>3. Sum' = got + conn2 + pbuf + conn1 + hbuf + pend' BY <1>1 DEF Sum
  <2>4. got + conn2 + pbuf + conn1 + hbuf \in Nat
    BY LogStreamAssumption DEF Shape, Counts
  <2> QED BY <1>2, <2>1, <2>2, <2>3, <2>4
<1>11. Sum' <= Passed'
  <2>1. Passed \in Nat /\ pend' \in Nat /\ Sum \in Nat /\ Sum <= Passed
    BY <1>2, <1>4, <1>5, <1>10
  <2>2. Sum + pend' <= Passed + pend' BY <2>1, AddSame, Zenon
  <2>3. Sum' = Sum + pend' BY <1>10
  <2>4. Passed' = Passed + pend' BY <1>9
  <2> QED BY <2>2, <2>3, <2>4
<1>12. off' <= (IF avail' = None THEN logged' ELSE avail')
  <2>1. CASE avail = None
    <3>1. n <= logged - off BY <1>1, <2>1 DEF Readable
    <3> QED BY <1>1, <1>2, <2>1, <3>1
  <2>2. CASE avail # None
    <3>1. n <= avail - off /\ avail \in Nat BY <1>1, <1>2, <2>2 DEF Readable
    <3> QED BY <1>1, <1>2, <2>2, <3>1
  <2> QED BY <2>1, <2>2
<1>13. StreamInv'
  <2>1. avail' = (IF Wanted'.follow THEN None ELSE tip') BY <1>1, <1>3, <1>4
  <2>2. left' = (IF Wanted'.limit = None \/ Wanted'.limit <= 0 THEN None ELSE Wanted'.limit - Passed')
    BY <1>3, <1>9
  <2> QED BY <1>1, <1>4, <1>6, <1>11, <1>12, <2>1, <2>2 DEF StreamInv
<1>14. EmptyInv' BY <1>1 DEF EmptyInv
<1>15. AliveInv'
  <2>1. Alive' => Alive BY <1>1 DEF Alive
  <2>2. Alive => hd # "end" BY <1>1, <1>2 DEF BytesInv, AliveInv
  <2>3. hd # "none" BY <1>1 DEF Shape, DemuxPlaces, ServerPlaces
  <2>4. Alive => px # "end" BY <2>2, <2>3 DEF BytesInv, AliveInv
  <2>5. Alive => Sum = Passed BY <1>1 DEF BytesInv, AliveInv
  <2>6. Alive => Sum' = Passed' BY <1>9, <1>10, <2>5
  <2> QED BY <1>1, <1>2, <2>1, <2>2, <2>4, <2>6 DEF AliveInv
<1> QED BY <1>13, <1>14, <1>15 DEF BytesInv

-----------------------------------------------------------------------------
(* The theorems *)

LEMMA BytesStep ==
  ASSUME Shape, Shape', BytesInv, [Next]_vars
  PROVE  BytesInv'
<1>1. CASE HandlerOpens /\ Next BY <1>1, BytesOpened
<1>2. CASE Next /\ \E n \in 1 .. MaxBytes : DemuxReads(n) BY <1>2, BytesRead
<1>3. CASE Next /\ \E q \in Queries : ClientAsks(q) BY <1>3, BytesAsked
<1>4. CASE /\ Next /\ ~ HandlerOpens
           /\ ~ \E n \in 1 .. MaxBytes : DemuxReads(n)
           /\ ~ \E q \in Queries : ClientAsks(q)
  BY <1>4, BytesConserved
<1>5. CASE UNCHANGED vars
  <2> USE <1>5 DEF vars, clientVars, proxyVars, serverVars, dockerVars, demuxVars, mainVars, histVars
  <2>1. Wanted' = Wanted /\ Passed' = Passed /\ Begin' = Begin /\ Sum' = Sum
    BY WantedKept, PassedKept DEF Sum
  <2>2. Alive' = Alive /\ Finished' = Finished BY DEF Alive, Finished, Readable
  <2>3. EmptyInv' /\ StreamInv' BY <2>1 DEF EmptyInv, StreamInv, BytesInv
  <2>4. AliveInv' BY <2>1, <2>2 DEF AliveInv, BytesInv
  <2> QED BY <2>3, <2>4 DEF BytesInv
<1> QED BY <1>1, <1>2, <1>3, <1>4, <1>5

LEMMA LInit == Init => Shape /\ BytesInv
<1> SUFFICES ASSUME Init PROVE Shape /\ BytesInv OBVIOUS
<1>1. /\ logged = 0 /\ got = 0 /\ pbuf = 0 /\ conn2 = 0 /\ hbuf = 0 /\ conn1 = 0
      /\ off = 0 /\ pend = 0 /\ tip = 0 /\ avail = None /\ left = None
  BY DEF Init
<1>2. /\ cont \in {"absent", "running"} /\ query = None /\ client = "idle" /\ px = "none"
      /\ status = "none" /\ resp = "none" /\ hd = "none" /\ dm = "none" /\ pipe = "open"
      /\ main = "select" /\ log = "start" /\ rec = "run"
  BY DEF Init
<1>3. ~ pctx /\ ~ eof1 /\ ~ eof2 BY DEF Init
<1>4. Flags BY Zenon DEF Init, Flags, NoOpts
<1>5. Counts BY <1>1, LogStreamAssumption DEF Counts
<1>6. Names BY <1>2 DEF Names
<1>7. ClientPlaces /\ ProxyPlaces BY <1>1, <1>2, <1>3 DEF ClientPlaces, ProxyPlaces
<1>8. ServerPlaces /\ DemuxPlaces /\ OptsInv
  BY <1>1, <1>2, <1>3 DEF ServerPlaces, DemuxPlaces, OptsInv
<1>9. EmptyInv BY <1>1 DEF EmptyInv, Sum
<1>10. StreamInv /\ AliveInv BY <1>2 DEF StreamInv, AliveInv
<1> QED BY <1>4, <1>5, <1>6, <1>7, <1>8, <1>9, <1>10 DEF Shape, BytesInv

\* No stream is longer than the log.
LEMMA BytesBound ==
  ASSUME Shape, BytesInv
  PROVE  /\ Sum <= MaxBytes /\ off \in 0 .. MaxBytes /\ tip \in 0 .. MaxBytes
         /\ avail \in {None} \cup 0 .. MaxBytes
<1>1. MaxBytes \in Nat /\ logged \in 0 .. MaxBytes /\ tip \in Nat /\ off \in Nat
  BY LogStreamAssumption DEF Shape, Counts
<1>2. CASE dm = "none" BY <1>1, <1>2 DEF BytesInv, EmptyInv
<1>3. CASE dm # "none"
  <2>1. /\ tip <= logged /\ off <= (IF avail = None THEN logged ELSE avail)
        /\ avail \in {None, tip} /\ Sum <= Passed
    BY <1>3 DEF BytesInv, StreamInv
  <2>2. tip \in 0 .. MaxBytes BY <1>1, <2>1
  <2>3. avail \in {None} \cup 0 .. MaxBytes BY <2>1, <2>2
  <2>4. off \in 0 .. MaxBytes BY <1>1, <2>1, <2>2
  <2>5. Begin \in 0 .. tip /\ off - Begin \in Nat /\ Passed \in 0 .. off - Begin
    BY <1>3, PassedIs DEF BytesInv, Shape
  <2>6. Sum \in Nat BY SumInt DEF Shape
  <2>7. Passed <= off BY <1>1, <2>5
  <2>8. Sum <= MaxBytes BY <1>1, <2>1, <2>4, <2>5, <2>6, <2>7
  <2> QED BY <2>2, <2>3, <2>4, <2>8
<1> QED BY <1>2, <1>3

\* The end that the demultiplexer has come to is what the query asks for.
LEMMA FinishedIsAll ==
  ASSUME Shape, BytesInv, dm # "none", Finished
  PROVE  Passed = Limited(Tailed(tip) + (IF Wanted.follow THEN logged - tip ELSE 0))
<1> DEFINE all == Tailed(tip) + (IF Wanted.follow THEN logged - tip ELSE 0)
<1> SUFFICES Passed = Limited(all) OBVIOUS
<1>1. logged \in Nat /\ tip \in Nat /\ off \in Nat /\ Tailed(tip) \in 0 .. tip
  BY TailedIs DEF Shape, Counts
<1>2. /\ tip <= logged /\ Begin <= off /\ off <= (IF avail = None THEN logged ELSE avail)
      /\ avail = (IF Wanted.follow THEN None ELSE tip)
      /\ left = (IF Wanted.limit = None \/ Wanted.limit <= 0 THEN None ELSE Wanted.limit - Passed)
  BY DEF BytesInv, StreamInv
<1>3. tip # None BY <1>1, LogStreamAssumption
<1>4. Begin = tip - Tailed(tip) BY DEF Begin
<1>5. all \in Nat /\ off - Begin \in Nat /\ off - Begin <= all
  <2>1. CASE Wanted.follow
    <3>1. avail = None /\ off <= logged BY <1>2, <2>1
    <3>2. all = Tailed(tip) + (logged - tip) BY <2>1
    <3> QED BY <1>1, <1>2, <1>4, <3>1, <3>2
  <2>2. CASE ~ Wanted.follow
    <3>1. avail = tip /\ off <= tip BY <1>2, <1>3, <2>2
    <3>2. all = Tailed(tip) BY <1>1, <2>2
    <3> QED BY <1>1, <1>2, <1>4, <3>1, <3>2
  <2> QED BY <2>1, <2>2
<1>6. CASE left = 0
  <2>1. Wanted.limit # None /\ ~ (Wanted.limit <= 0) /\ Wanted.limit - Passed = 0
    BY <1>2, <1>6, LogStreamAssumption
  <2>2. Wanted.limit \in Nat \ {0} BY <2>1, WantedTypes
  <2>3. Passed = Least(off - Begin, Wanted.limit) /\ Limited(all) = Least(all, Wanted.limit)
    BY <2>1 DEF Passed, Limited
  <2> HIDE DEF all
  <2>4. PICK d \in Nat : d = off - Begin BY <1>5
  <2> QED BY <1>5, <2>1, <2>2, <2>3, <2>4 DEF Least
<1>7. CASE Readable = 0
  <2>1. CASE Wanted.follow
    <3>1. avail = None /\ logged - off = 0 BY <1>2, <1>7, <2>1 DEF Readable
    <3>2. all = Tailed(tip) + (logged - tip) BY <2>1
    <3>3. off - Begin = all BY <1>1, <1>4, <3>1, <3>2
    <3> QED BY <3>3 DEF Passed
  <2>2. CASE ~ Wanted.follow
    <3>1. avail = tip /\ tip - off = 0 BY <1>2, <1>3, <1>7, <2>2 DEF Readable
    <3>2. all = Tailed(tip) BY <1>1, <2>2
    <3>3. off - Begin = all BY <1>1, <1>4, <3>1, <3>2
    <3> QED BY <3>3 DEF Passed
  <2> QED BY <2>1, <2>2
<1> QED BY <1>6, <1>7 DEF Finished

\* The inductive invariant holds of every run: places, options and bytes.
THEOREM LAlways == Spec => []LInv
<1>1. Init => LInv BY LInit DEF LInv
<1>2. LInv /\ [Next]_vars => LInv' BY ShapeStep, BytesStep DEF LInv
<1> QED BY <1>1, <1>2, PTL DEF Spec

\* Every variable keeps its type, and no connection holds more than it can,
\* however client, handlers, demultiplexer and the end of the process interleave.
THEOREM LogStreamTypes == Spec => []TypeOK
<1>1. LInv => TypeOK
  <2> SUFFICES ASSUME Shape, BytesInv PROVE TypeOK BY DEF LInv
  <2>1. Counts /\ Names /\ Flags BY DEF Shape
  <2>2. Sum <= MaxBytes /\ off \in 0 .. MaxBytes /\ tip \in 0 .. MaxBytes
        /\ avail \in {None} \cup 0 .. MaxBytes
    BY BytesBound
  <2>3. /\ got \in 0 .. MaxBytes /\ pbuf \in 0 .. MaxBytes /\ hbuf \in 0 .. MaxBytes
        /\ pend \in 0 .. MaxBytes
    <3>1. /\ got \in Nat /\ pbuf \in Nat /\ hbuf \in Nat /\ pend \in Nat
          /\ conn1 \in Nat /\ conn2 \in Nat
      BY <2>1, LogStreamAssumption DEF Counts
    <3>2. got + conn2 + pbuf + conn1 + hbuf + pend <= MaxBytes BY <2>2 DEF Sum
    <3> QED BY <3>1, <3>2, LogStreamAssumption
  <2>4. {got, pbuf, hbuf, pend, off, tip} \subseteq 0 .. MaxBytes BY <2>2, <2>3
  <2>5. {pctx, eof1, eof2, ctx, cut} \subseteq BOOLEAN /\ opts.follow \in BOOLEAN
    BY <2>1, Zenon DEF Flags
  <2>6. /\ logged \in 0 .. MaxBytes /\ conn1 \in 0 .. Net /\ conn2 \in 0 .. Net
        /\ left \in {None} \cup Nat
    BY <2>1 DEF Counts
  <2>7. {resp, status} \subseteq {"none", "ok", "error"} BY <2>1 DEF Names
  <2> QED BY <2>1, <2>2, <2>4, <2>5, <2>6, <2>7, Zenon DEF Names, TypeOK
<1> QED BY <1>1, LAlways, PTL

\* kubectl logs: the client never has more than its limit, and a response that
\* ends without anything having been cut off is exactly what its query asks
\* for, for every query, log and speed of the hops.
THEOREM NothingLost == Spec => []CompleteUnlessCut
<1>1. LInv => CompleteUnlessCut
  <2> SUFFICES ASSUME Shape, BytesInv PROVE CompleteUnlessCut BY DEF LInv
  <2>1. got \in Nat /\ Sum \in Nat /\ got <= Sum BY SumInt DEF Shape, Counts
  <2>2. got <= Limited(MaxBytes)
    <3>1. Limited(MaxBytes) \in Nat BY LimitedIs, LogStreamAssumption
    <3>2. CASE dm = "none"
      <4>1. Sum = 0 BY <3>2 DEF BytesInv, EmptyInv
      <4> QED BY <2>1, <3>1, <4>1
    <3>3. CASE dm # "none"
      <4>1. off - Begin \in Nat /\ Passed \in Nat /\ Begin \in Nat
        <5>1. off - Begin \in Nat /\ Passed \in 0 .. off - Begin /\ Begin \in 0 .. tip
          BY <3>3, PassedIs DEF BytesInv, Shape
        <5> QED BY <5>1
      <4>2. off \in 0 .. MaxBytes BY BytesBound
      <4>3. off - Begin <= MaxBytes BY <4>1, <4>2, LogStreamAssumption
      <4>4. Passed <= Limited(MaxBytes)
        BY <4>1, <4>3, LimitedMonotonic, LogStreamAssumption DEF Passed
      <4>5. Sum <= Passed BY <3>3 DEF BytesInv, StreamInv
      <4> QED BY <2>1, <3>1, <4>1, <4>4, <4>5
    <3> QED BY <3>2, <3>3
  <2>3. ASSUME client = "done", ~cut
        PROVE  got = Limited(Tailed(tip) + (IF Wanted.follow THEN logged - tip ELSE 0))
    <3>1. Alive /\ px = "end" /\ status = "ok" /\ conn2 = 0
      BY <2>3 DEF Alive, Shape, ClientPlaces
    <3>2. dm # "none" BY <3>1 DEF Shape, ProxyPlaces, DemuxPlaces
    <3>3. hd = "end" /\ conn1 = 0 BY <2>3, <3>1 DEF BytesInv, AliveInv
    <3>4. pend = 0 /\ Finished /\ Sum = Passed
      BY <3>1, <3>2, <3>3 DEF BytesInv, AliveInv
    <3>5. pbuf = 0 /\ hbuf = 0
      BY <3>1, <3>3 DEF Shape, ProxyPlaces, ServerPlaces, Counts
    <3>6. got = Passed BY <2>1, <3>1, <3>3, <3>4, <3>5 DEF Sum
    <3> QED BY <3>2, <3>4, <3>6, FinishedIsAll
  <2> QED BY <2>2, <2>3 DEF CompleteUnlessCut
<1> QED BY <1>1, LAlways, PTL
=============================================================================
