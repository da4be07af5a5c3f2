------------------------------ MODULE LogStream ------------------------------
(***************************************************************************)
(* kubectl logs: one request from a client through the apiserver's         *)
(* pods/log handler (internal/apiserver/podlogs.go), the log server of     *)
(* kubelet-lite (internal/kubelet/logs.go) and a pipe to the goroutine     *)
(* that demultiplexes Docker's stream (Logs in docker.go), and back; and   *)
(* the two goroutines of kubelet-lite's main that serve it.                *)
(*                                                                         *)
(* Bytes are counted: every hop is a FIFO, and what each of them has in    *)
(* hand is a number.  For tailLines a byte is a line.                      *)
(***************************************************************************)
EXTENDS Integers, FiniteSets

CONSTANTS
  None,
  Queries,    \* queries that clients send: records of strings, "" for absent
  Ints,       \* strconv: the numerals of those queries, and their numbers
  Containers, \* names of the Pod's containers
  MaxBytes,   \* bound: bytes the container logs
  Net         \* bytes that a connection buffers

ASSUME QueriesAssumption ==
  /\ \A q \in Queries : DOMAIN q = {"container", "follow", "tail", "limit"}
  /\ None \notin Queries
  /\ "" \notin DOMAIN Ints /\ \A x \in DOMAIN Ints : Ints[x] \in Int

ASSUME LogStreamAssumption == MaxBytes \in Nat /\ Net \in Nat \ {0} /\ None \notin Int

VARIABLES
  cont, logged,   \* Docker: "absent", "running", "ended"; bytes logged
  query,          \* what the client asked for, or None
  client, got,    \* the client: place, bytes it has read
  pctx,           \* the context of the apiserver's request is cancelled
  px, pbuf,       \* the apiserver's handler: place, bytes in hand
  status,         \* of the response to the client: "none", "ok", "error"
  conn2, eof2,    \* to the client: bytes on the way, response complete
  opts,           \* LogOptions, parsed by the log server
  resp,           \* its response: "none", "ok", "error"
  hd, hbuf,       \* its handler: place, bytes in hand
  conn1, eof1,    \* to the apiserver: bytes on the way, response ended
  dm, off, avail, left,  \* demultiplexer: place, bytes read, bytes to read (None:
                         \* all there will be), bytes left of the limit
  pipe, pend,     \* pipe: "open", "eof", "error"; bytes of the pending write
  ctx, main, log, rec,   \* kubelet-lite: its context, main, LogServer.Run,
                         \* Reconciler.Run
  tip, cut        \* history: bytes logged when it was opened; it was cut off

clientVars == <<query, client, got>>
proxyVars == <<pctx, px, pbuf, status, conn2, eof2>>
serverVars == <<opts, resp, hd, hbuf, conn1, eof1>>
dockerVars == <<cont, logged>>
demuxVars == <<dm, off, avail, left, pipe, pend>>
mainVars == <<ctx, main, log, rec>>
histVars == <<tip, cut>>
vars == <<dockerVars, clientVars, proxyVars, serverVars, demuxVars, mainVars, histVars>>

NoOpts == [container |-> "", follow |-> FALSE, tail |-> None, limit |-> None]

Init ==
  /\ cont \in {"absent", "running"} /\ logged = 0
  /\ query = None /\ client = "idle" /\ got = 0
  /\ pctx = FALSE /\ px = "none" /\ pbuf = 0 /\ status = "none" /\ conn2 = 0 /\ eof2 = FALSE
  /\ opts = NoOpts /\ resp = "none" /\ hd = "none" /\ hbuf = 0 /\ conn1 = 0 /\ eof1 = FALSE
  /\ dm = "none" /\ off = 0 /\ avail = None /\ left = None /\ pipe = "open" /\ pend = 0
  /\ ctx = FALSE /\ main = "select" /\ log = "start" /\ rec = "run"
  /\ tip = 0 /\ cut = FALSE

Least(a, b) == IF a <= b THEN a ELSE b

-----------------------------------------------------------------------------
(* Options *)

Bools == [x \in {"true", "1", "false", "0"} |-> x \in {"true", "1"}]

\* A field that is absent or has a value that strconv accepts.
Parses(q) ==
  /\ q.follow = "" \/ q.follow \in DOMAIN Bools
  /\ q.tail = "" \/ q.tail \in DOMAIN Ints
  /\ q.limit = "" \/ q.limit \in DOMAIN Ints

Options(q) ==
  [container |-> q.container,
   follow |-> q.follow # "" /\ Bools[q.follow],
   tail |-> IF q.tail = "" THEN None ELSE Ints[q.tail],
   limit |-> IF q.limit = "" THEN None ELSE Ints[q.limit]]

\* The apiserver's reading of the client's query, and kubelet-lite's of the
\* apiserver's: the same conversion twice.
convertURLValuesToPodLogOptions(q) == Options(q)
parseLogOptions(q) == Options(q)

FormatInt(n) == IF n = None THEN "" ELSE CHOOSE x \in DOMAIN Ints : Ints[x] = n

\* Mutant: a zero is taken for an absent value.
MutEncodeNoZero(o) ==
  [container |-> o.container,
   follow |-> IF o.follow THEN "true" ELSE "",
   tail |-> IF o.tail = 0 THEN "" ELSE FormatInt(o.tail),
   limit |-> IF o.limit = 0 THEN "" ELSE FormatInt(o.limit)]

encodeLogQuery(o) ==
  [container |-> o.container,
   follow |-> IF o.follow THEN "true" ELSE "",
   tail |-> FormatInt(o.tail),
   limit |-> FormatInt(o.limit)]

\* The only container, or one that the Pod has.
Picked(o) ==
  IF o.container # "" THEN {o.container} \cap Containers
  ELSE IF Cardinality(Containers) = 1 THEN Containers
  ELSE {}

-----------------------------------------------------------------------------
(* The container, and the client *)

ContainerStarts ==
  /\ cont = "absent"
  /\ cont' = "running"
  /\ UNCHANGED <<logged, clientVars, proxyVars, serverVars, demuxVars, mainVars, histVars>>

ContainerLogs ==
  /\ cont = "running"
  /\ logged < MaxBytes
  /\ logged' = logged + 1
  /\ UNCHANGED <<cont, clientVars, proxyVars, serverVars, demuxVars, mainVars, histVars>>

ContainerEnds ==
  /\ cont = "running"
  /\ cont' = "ended"
  /\ UNCHANGED <<logged, clientVars, proxyVars, serverVars, demuxVars, mainVars, histVars>>

\* The query is converted before podLogREST.Connect is called.
ClientAsks(q) ==
  /\ client = "idle"
  /\ query' = q
  /\ IF Parses(q) THEN client' = "reading" /\ px' = "do"
     ELSE client' = "refused" /\ px' = "end"
  /\ UNCHANGED <<got, pctx, pbuf, status, conn2, eof2, dockerVars, serverVars, demuxVars,
                 mainVars, histVars>>

ClientReads ==
  /\ client = "reading"
  /\ conn2 > 0
  /\ conn2' = conn2 - 1 /\ got' = got + 1
  /\ UNCHANGED <<query, client, pctx, px, pbuf, status, eof2, dockerVars, serverVars,
                 demuxVars, mainVars, histVars>>

ClientDone ==
  /\ client = "reading"
  /\ conn2 = 0 /\ eof2
  /\ client' = IF status = "ok" THEN "done" ELSE "refused"
  /\ UNCHANGED <<query, got, proxyVars, dockerVars, serverVars, demuxVars, mainVars,
                 histVars>>

\* The apiserver's connection notices, and cancels the request's context.
ClientLeaves ==
  /\ client = "reading"
  /\ client' = "left" /\ pctx' = TRUE /\ conn2' = 0
  /\ UNCHANGED <<query, got, px, pbuf, status, eof2, dockerVars, serverVars, demuxVars,
                 mainVars, histVars>>

\* The generic apiserver's request timeout: pods/log is not declared a
\* long-running request.
Deadline ==
  /\ px \in {"do", "await", "read", "write"}
  /\ ~pctx
  /\ pctx' = TRUE /\ cut' = TRUE
  /\ UNCHANGED <<clientVars, px, pbuf, status, conn2, eof2, dockerVars, serverVars,
                 demuxVars, mainVars, tip>>

-----------------------------------------------------------------------------
(* The apiserver's handler *)

\* The handler returns and closes the response body, however it got there.
ProxyEnds ==
  /\ px' = "end" /\ pbuf' = 0 /\ eof2' = TRUE
  /\ conn1' = 0
  /\ UNCHANGED <<pctx, conn2, clientVars, dockerVars, opts, resp, hd, hbuf, eof1,
                 demuxVars, mainVars, tip>>

ProxyDo ==
  /\ px = "do"
  /\ log = "serve"
  /\ opts' = parseLogOptions(encodeLogQuery(convertURLValuesToPodLogOptions(query)))
  /\ px' = "await" /\ hd' = "start"
  /\ UNCHANGED <<clientVars, pctx, pbuf, status, conn2, eof2, resp, hbuf, conn1, eof1,
                 dockerVars, demuxVars, mainVars, histVars>>

\* ServiceUnavailable: nobody listens, or the connection breaks first.
ProxyRefused ==
  /\ \/ px = "do" /\ (log # "serve" \/ pctx)
     \/ px = "await" /\ (main = "exited" \/ pctx)
  /\ ProxyEnds
  /\ status' = "error" /\ cut' = TRUE

ProxyAnswered ==
  /\ px = "await"
  /\ resp # "none"
  /\ px' = "read" /\ status' = resp
  /\ UNCHANGED <<clientVars, pctx, pbuf, conn2, eof2, serverVars, dockerVars,
                 demuxVars, mainVars, histVars>>

ProxyReads ==
  /\ px = "read"
  /\ conn1 > 0
  /\ pbuf' = conn1 /\ conn1' = 0
  /\ px' = "write"
  /\ UNCHANGED <<clientVars, pctx, conn2, status, eof2, opts, resp, hd, hbuf, eof1,
                 dockerVars, demuxVars, mainVars, histVars>>

\* The body ends or breaks, or the context is cancelled: all the same here.
ProxyDone ==
  /\ px = "read"
  /\ (conn1 = 0 /\ eof1) \/ pctx
  /\ ProxyEnds
  /\ UNCHANGED <<status, cut>>

ProxyWrites ==
  /\ px = "write"
  /\ pbuf > 0 /\ conn2 < Net /\ client = "reading"
  /\ pbuf' = pbuf - 1 /\ conn2' = conn2 + 1
  /\ px' = IF pbuf = 1 THEN "read" ELSE "write"
  /\ UNCHANGED <<clientVars, pctx, status, eof2, serverVars, dockerVars, demuxVars, mainVars,
                 histVars>>

ProxyWriteFails ==
  /\ px = "write"
  /\ client = "left" \/ pctx
  /\ ProxyEnds
  /\ UNCHANGED <<status, cut>>

-----------------------------------------------------------------------------
(* The log server's handler *)

\* net/http cancels the request's context when the peer has gone or the
\* handler has returned.
Cancelled == px = "end" \/ hd = "end"

HandlerRefuses ==
  /\ hd = "start"
  /\ Picked(opts) = {} \/ cont = "absent" \/ Cancelled
  /\ hd' = "end" /\ resp' = "error" /\ eof1' = TRUE
  /\ UNCHANGED <<opts, hbuf, conn1, clientVars, proxyVars, dockerVars, demuxVars,
                 mainVars, histVars>>

\* Bytes that a stream opened now has in store; Docker takes a negative
\* number of lines for all of them.
Tail(o) == IF o.tail = None \/ o.tail < 0 THEN logged ELSE Least(o.tail, logged)

\* Docker.Logs: where the stream begins, and where it ends if it is not to
\* follow; a limit of 0 or less is none.
HandlerOpens ==
  /\ hd = "start"
  /\ Picked(opts) # {} /\ cont # "absent"
  /\ off' = logged - Tail(opts)
  /\ tip' = logged
  /\ avail' = IF opts.follow THEN None ELSE logged
  /\ left' = IF opts.limit # None /\ opts.limit > 0 THEN opts.limit ELSE None
  /\ hd' = "read" /\ resp' = "ok" /\ dm' = "read"
  /\ UNCHANGED <<opts, hbuf, conn1, eof1, pipe, pend, clientVars, proxyVars,
                 dockerVars, mainVars, cut>>

HandlerReads ==
  /\ hd = "read"
  /\ pend > 0
  /\ hbuf' = pend /\ pend' = 0
  /\ hd' = "write"
  /\ UNCHANGED <<opts, resp, conn1, eof1, dm, off, avail, left, pipe, clientVars,
                 proxyVars, dockerVars, mainVars, histVars>>

\* EOF and every other error end the response in the same way.
HandlerDone ==
  /\ hd = "read"
  /\ pend = 0 /\ pipe # "open"
  /\ hd' = "end" /\ eof1' = TRUE
  /\ UNCHANGED <<opts, resp, hbuf, conn1, demuxVars, clientVars, proxyVars,
                 dockerVars, mainVars, histVars>>

\* Mutant: bytes are taken to be sent before there is room for them.
MutHandlerOverfills ==
  /\ hd = "write"
  /\ hbuf > 0 /\ px # "end"
  /\ hbuf' = hbuf - 1 /\ conn1' = conn1 + 1
  /\ hd' = IF hbuf = 1 THEN "read" ELSE "write"
  /\ UNCHANGED <<opts, resp, eof1, demuxVars, clientVars, proxyVars, dockerVars,
                 mainVars, histVars>>

HandlerWrites ==
  /\ hd = "write"
  /\ hbuf > 0 /\ conn1 < Net /\ px # "end"
  /\ hbuf' = hbuf - 1 /\ conn1' = conn1 + 1
  /\ hd' = IF hbuf = 1 THEN "read" ELSE "write"
  /\ UNCHANGED <<opts, resp, eof1, demuxVars, clientVars, proxyVars, dockerVars,
                 mainVars, histVars>>

HandlerWriteFails ==
  /\ hd = "write"
  /\ px = "end"
  /\ hd' = "end" /\ hbuf' = 0 /\ eof1' = TRUE
  /\ UNCHANGED <<opts, resp, conn1, demuxVars, clientVars, proxyVars, dockerVars,
                 mainVars, histVars>>

-----------------------------------------------------------------------------
(* The demultiplexer: StdCopy into the pipe, through limitWriter *)

Readable == (IF avail = None THEN logged ELSE avail) - off

\* A frame of n bytes, cut to what is left of the limit.
DemuxReads(n) ==
  /\ dm = "read"
  /\ n <= Readable
  /\ off' = off + n
  /\ pend' = IF left = None THEN n ELSE Least(n, left)
  /\ left' = IF left = None THEN None ELSE left - pend'
  /\ dm' = "write"
  /\ UNCHANGED <<avail, pipe, clientVars, proxyVars, serverVars, dockerVars, mainVars,
                 histVars>>

\* Mutant: the limit is noticed when another byte is to be written.
MutDemuxLimitLate ==
  /\ dm = "write"
  /\ pend = 0
  /\ dm' = "read"
  /\ UNCHANGED <<off, avail, left, pipe, pend, clientVars, proxyVars, serverVars, dockerVars,
                 mainVars, histVars>>

\* The pipe has taken it all; errLimitReached ends the copy at once.
DemuxWritten ==
  /\ dm = "write"
  /\ pend = 0
  /\ IF left = 0 THEN dm' = "end" /\ pipe' = "eof" ELSE dm' = "read" /\ UNCHANGED pipe
  /\ UNCHANGED <<off, avail, left, pend, clientVars, proxyVars, serverVars, dockerVars,
                 mainVars, histVars>>

\* The handler has closed the reader: ErrClosedPipe.
DemuxClosed ==
  /\ dm = "write"
  /\ pend > 0 /\ hd = "end"
  /\ dm' = "end" /\ pipe' = "eof" /\ pend' = 0
  /\ UNCHANGED <<off, avail, left, clientVars, proxyVars, serverVars, dockerVars,
                 mainVars, histVars>>

DemuxEOF ==
  /\ dm = "read"
  /\ Readable = 0
  /\ avail = None => cont = "ended"
  /\ dm' = "end" /\ pipe' = "eof"
  /\ UNCHANGED <<off, avail, left, pend, clientVars, proxyVars, serverVars, dockerVars,
                 mainVars, histVars>>

\* Mutant: a cancelled request is noticed with the next frame only.
MutDemuxUncancelled ==
  /\ dm = "read"
  /\ Cancelled /\ Readable > 0
  /\ dm' = "end" /\ pipe' = "error"
  /\ UNCHANGED <<off, avail, left, pend, clientVars, proxyVars, serverVars, dockerVars,
                 mainVars, histVars>>

\* Docker's stream ends with the context of the request it was opened with.
DemuxCancelled ==
  /\ dm = "read"
  /\ Cancelled
  /\ dm' = "end" /\ pipe' = "error"
  /\ UNCHANGED <<off, avail, left, pend, clientVars, proxyVars, serverVars, dockerVars,
                 mainVars, histVars>>

\* Docker fails in the middle.
DockerBreaks ==
  /\ dm = "read"
  /\ dm' = "end" /\ pipe' = "error" /\ cut' = TRUE
  /\ UNCHANGED <<off, avail, left, pend, clientVars, proxyVars, serverVars, dockerVars,
                 mainVars, tip>>

-----------------------------------------------------------------------------
(* kubelet-lite: main, LogServer.Run and Reconciler.Run *)

Kubelet(ctx1, main1, log1, rec1) ==
  /\ ctx' = ctx1 /\ main' = main1 /\ log' = log1 /\ rec' = rec1
  /\ UNCHANGED <<clientVars, proxyVars, dockerVars, tip>>

StreamsStay == UNCHANGED <<serverVars, demuxVars, cut>>

Signal ==
  /\ main # "exited" /\ ~ctx
  /\ Kubelet(TRUE, main, log, rec)
  /\ StreamsStay

\* net.Listen succeeds or fails; Serve may fail later.
LogListens == log = "start" /\ Kubelet(ctx, main, "serve", rec) /\ StreamsStay
LogFails == log \in {"start", "serve"} /\ Kubelet(ctx, main, "returned", rec) /\ StreamsStay
LogShutsDown == log = "serve" /\ ctx /\ Kubelet(ctx, main, "shutdown", rec) /\ StreamsStay

\* Shutdown waits for the handlers, which it does not cancel ...
ShutdownReturns ==
  /\ log = "shutdown"
  /\ hd \in {"none", "end"}
  /\ Kubelet(ctx, main, "returned", rec)
  /\ StreamsStay

\* Mutant: Shutdown without a deadline.
MutShutdownWaits ==
  /\ log = "shutdown"
  /\ hd \in {"none", "end"}
  /\ Kubelet(ctx, main, "returned", rec)
  /\ StreamsStay

\* ... for five seconds.
ShutdownExpires ==
  /\ log = "shutdown"
  /\ Kubelet(ctx, main, "returned", rec)
  /\ StreamsStay

ReconcilerReturns == rec = "run" /\ ctx /\ Kubelet(ctx, main, log, "returned") /\ StreamsStay

MainCancels ==
  /\ main = "select"
  /\ "returned" \in {log, rec}
  /\ Kubelet(TRUE, "wait", log, rec)
  /\ StreamsStay

\* run returns and the process ends, with whatever it was streaming.
MainExits ==
  /\ main = "wait"
  /\ log = "returned" /\ rec = "returned"
  /\ Kubelet(ctx, "exited", log, rec)
  /\ cut' = (cut \/ hd \in {"start", "read", "write"})
  /\ hd' = (IF hd = "none" THEN "none" ELSE "end")
  /\ dm' = (IF dm = "none" THEN "none" ELSE "end")
  /\ eof1' = TRUE /\ hbuf' = 0 /\ pend' = 0
  /\ UNCHANGED <<opts, resp, conn1, off, avail, left, pipe>>

-----------------------------------------------------------------------------
ProxyStep ==
  \/ ProxyDo \/ ProxyRefused \/ ProxyAnswered \/ ProxyReads \/ ProxyDone
  \/ ProxyWrites \/ ProxyWriteFails

HandlerStep ==
  \/ HandlerRefuses \/ HandlerOpens \/ HandlerReads \/ HandlerDone
  \/ HandlerWrites \/ HandlerWriteFails

DemuxStep ==
  \/ \E n \in 1 .. MaxBytes : DemuxReads(n)
  \/ DemuxWritten \/ DemuxClosed \/ DemuxEOF

MainStep ==
  LogListens \/ LogShutsDown \/ ShutdownReturns \/ ReconcilerReturns \/ MainCancels \/ MainExits

Next ==
  \/ ContainerStarts \/ ContainerLogs \/ ContainerEnds
  \/ \E q \in Queries : ClientAsks(q)
  \/ ClientReads \/ ClientDone \/ ClientLeaves \/ Deadline
  \/ ProxyStep
  \/ main # "exited" /\ (HandlerStep \/ DemuxStep \/ DemuxCancelled \/ DockerBreaks)
  \/ Signal \/ LogFails \/ MainStep \/ ShutdownExpires

Spec == Init /\ [][Next]_vars

\* Goroutines run, and the five seconds pass.  The client need not read or
\* leave, the container need not log or end.
FairSpec ==
  /\ Spec
  /\ WF_vars(ProxyStep)
  /\ WF_vars(HandlerStep /\ main # "exited")
  /\ WF_vars(DemuxStep /\ main # "exited")
  /\ WF_vars(DemuxCancelled /\ main # "exited")
  /\ WF_vars(MainStep)
  /\ WF_vars(ShutdownExpires)
  /\ WF_vars(ClientDone)

-----------------------------------------------------------------------------
(* Properties *)

\* Every variable has its type, and connections hold no more than they can.
TypeOK ==
  /\ cont \in {"absent", "running", "ended"} /\ logged \in 0 .. MaxBytes
  /\ query \in Queries \cup {None}
  /\ client \in {"idle", "reading", "done", "left", "refused"}
  /\ px \in {"none", "do", "await", "read", "write", "end"}
  /\ hd \in {"none", "start", "read", "write", "end"}
  /\ dm \in {"none", "read", "write", "end"} /\ pipe \in {"open", "eof", "error"}
  /\ conn1 \in 0 .. Net /\ conn2 \in 0 .. Net
  /\ {got, pbuf, hbuf, pend, off, tip} \subseteq 0 .. MaxBytes
  /\ avail \in {None} \cup 0 .. MaxBytes /\ left \in {None} \cup Nat
  /\ opts.follow \in BOOLEAN /\ {resp, status} \subseteq {"none", "ok", "error"}
  /\ log \in {"start", "serve", "shutdown", "returned"} /\ rec \in {"run", "returned"}
  /\ main \in {"select", "wait", "exited"}
  /\ {pctx, eof1, eof2, ctx, cut} \subseteq BOOLEAN

\* What the client's own query asks for, and how many of n bytes.
Wanted == IF query # None /\ Parses(query) THEN Options(query) ELSE NoOpts
Limited(n) == IF Wanted.limit = None \/ Wanted.limit <= 0 THEN n ELSE Least(n, Wanted.limit)
Tailed(n) == IF Wanted.tail = None \/ Wanted.tail < 0 THEN n ELSE Least(n, Wanted.tail)

\* The client never has more than its limit; and when its response ends, and
\* nothing failed on the way, it has exactly what it asked for, of the log as
\* it was when the stream was opened, or to its end if it follows.  (The end
\* of a stream that was cut off looks the same to the client.)
CompleteUnlessCut ==
  /\ got <= Limited(MaxBytes)
  /\ client = "done" /\ ~cut =>
       got = Limited(Tailed(tip) + (IF Wanted.follow THEN logged - tip ELSE 0))

\* The end of a response, and a client that leaves, whatever it was waiting for
\* and however full the connections are, free the handler of the apiserver,
\* the handler of the log server and the demultiplexer with its Docker stream.
StreamsFreed ==
  client \in {"left", "done", "refused"} ~>
    px \in {"none", "end"} /\ hd \in {"none", "end"} /\ dm \in {"none", "end"}

\* The stream is finite, or has a limit and the container has logged as much.
Finite ==
  \/ ~Wanted.follow
  \/ Wanted.limit # None /\ Wanted.limit > 0 /\ Wanted.tail = None /\ logged >= Wanted.limit

\* Such a request comes to its end if the client always reads in the end,
\* without waiting for the container to log more or to end.
FiniteStreamEnds ==
  []<>(conn2 = 0) => (client = "reading" /\ Finite ~> client # "reading")

\* "Failure of either is fatal": a signal, or the end of the log server, ends
\* the process, also while a stream is being followed.
FailureStopsProcess ==
  ctx \/ log = "returned" ~> main = "exited"
=============================================================================
