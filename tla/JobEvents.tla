----------------------------- MODULE JobEvents -----------------------------
(***************************************************************************)
(* One scan job of quantumready/server.py: the thread that runs it         *)
(* (_run_job), the pool threads of the TLS stage that report progress      *)
(* through the same Job, the event streams that watch it (_stream) and the *)
(* requests that fetch its report (_result).                               *)
(*                                                                         *)
(* An event is named by its position in Job.events, which is its identity  *)
(* in the code too: the queues hold references to the dicts of that list.  *)
(* Job.lock makes two steps atomic: "append and snapshot the listeners"    *)
(* and "copy the backlog and register".  The puts that follow each of them *)
(* happen outside the lock, one step each.                                 *)
(***************************************************************************)
EXTENDS Naturals, Sequences

CONSTANTS Runner,       \* the thread of _run_job
          Workers,      \* pool threads of the TLS stage
          Streams,      \* open /api/scan/events requests
          Getters,      \* threads serving /api/scan/result
          Capacity,     \* maxsize of a listener's queue (512 in the code)
          MaxProgress   \* bound: progress events one scan publishes

ASSUME RunnerAssumption   == Runner \notin Workers
ASSUME CapacityAssumption == Capacity \in Nat \ {0}
ASSUME ProgressAssumption == MaxProgress \in Nat

VARIABLES
  status,     \* Job.status
  result,     \* Job.result is set
  events,     \* Job.events, by kind
  listeners,  \* Job.listeners, by the stream that owns the queue
  runner,     \* where _run_job is
  pub,        \* pub[p]: the event thread p is handing out, and to whom still
  stream,     \* where _stream is
  queue,      \* queue[c]: the listener queue of c
  fill,       \* fill[c]..upto[c]: backlog positions subscribe() has yet to put
  upto,       \* length of the backlog c copied
  seen,       \* seen[c]: events written to the client of c
  lost,       \* history: events of c dropped on a full queue or a dead socket
  ended,      \* history: what made c leave its loop
  kept,       \* no look-up has missed the job in STORE yet
  getter,     \* where _result is
  answer      \* status code of g's last answer; "dropped": closed without one

jobVars    == <<status, result, events, runner>>
feedVars   == <<listeners, pub>>
streamVars == <<stream, queue, fill, upto, seen, lost, ended>>
getVars    == <<kept, getter, answer>>
vars       == <<jobVars, feedVars, streamVars, getVars>>

Publishers == Workers \cup {Runner}
Statuses   == {"queued", "running", "done", "error"}
Terminal   == {"done", "error"}
\* A status event is named by its status, {"type": "error"} is "failure".
Kinds      == {"running", "progress", "result", "failure"} \cup Terminal

Init ==
  /\ status = "queued" /\ result = FALSE /\ events = << >> /\ runner = "queued"
  /\ listeners = {} /\ pub = [p \in Publishers |-> [n |-> 0, to |-> {}]]
  /\ stream = [c \in Streams |-> "idle"]
  /\ queue = [c \in Streams |-> << >>]
  /\ fill = [c \in Streams |-> 1] /\ upto = [c \in Streams |-> 0]
  /\ seen = [c \in Streams |-> {}] /\ lost = [c \in Streams |-> {}]
  /\ ended = [c \in Streams |-> "no"]
  /\ kept = TRUE
  /\ getter = [g \in Getters |-> "idle"] /\ answer = [g \in Getters |-> "none"]

-----------------------------------------------------------------------------
(* Job.publish: the locked half, then one put_nowait per listener.         *)

HandedOut(p) == pub[p].to = {}

Publish(p, kind) ==
  /\ HandedOut(p)
  /\ events' = Append(events, kind)
  /\ pub' = [pub EXCEPT ![p] = [n |-> Len(events) + 1, to |-> listeners]]
  /\ UNCHANGED listeners

OfferShort(p, c) ==   \* mutant: a queue counts as full one place too early
  /\ c \in pub[p].to
  /\ pub' = [pub EXCEPT ![p].to = @ \ {c}]
  /\ IF Len(queue[c]) + 1 < Capacity
       THEN queue' = [queue EXCEPT ![c] = Append(@, pub[p].n)] /\ UNCHANGED lost
       ELSE lost' = [lost EXCEPT ![c] = @ \cup {pub[p].n}] /\ UNCHANGED queue
  /\ UNCHANGED <<jobVars, listeners, stream, fill, upto, seen, ended, getVars>>

\* The order of the puts to different queues is left open: they commute.
Offer(p, c) ==
  /\ c \in pub[p].to
  /\ pub' = [pub EXCEPT ![p].to = @ \ {c}]
  /\ IF Len(queue[c]) < Capacity
       THEN /\ queue' = [queue EXCEPT ![c] = Append(@, pub[p].n)]
            /\ UNCHANGED lost
       ELSE /\ lost' = [lost EXCEPT ![c] = @ \cup {pub[p].n}]
            /\ UNCHANGED queue
  /\ UNCHANGED <<jobVars, listeners, stream, fill, upto, seen, ended, getVars>>

-----------------------------------------------------------------------------
(* _run_job.  "scan" is Scanner.run before the TLS pool, "pool" while it   *)
(* runs, "rest" the later stages.                                          *)

RunnerAt(from, to) ==
  /\ runner = from /\ runner' = to
  /\ HandedOut(Runner)
  /\ UNCHANGED <<streamVars, getVars>>

Quiet == UNCHANGED <<events, feedVars>>

Start ==
  /\ RunnerAt("queued", "announce")
  /\ status' = "running"
  /\ Quiet /\ UNCHANGED result

Announce ==
  /\ RunnerAt("announce", "scan")
  /\ Publish(Runner, "running")
  /\ UNCHANGED <<status, result>>

\* Scanner.emit from the job's own thread, outside the TLS pool.
EmitProgress ==
  /\ runner \in {"scan", "rest"}
  /\ Len(events) <= MaxProgress
  /\ RunnerAt(runner, runner)
  /\ Publish(Runner, "progress")
  /\ UNCHANGED <<status, result>>

OpenPool ==
  /\ RunnerAt("scan", "pool")
  /\ Quiet /\ UNCHANGED <<status, result>>

WorkerOutlivesPool(w) ==   \* mutant: the stage ends without its threads
  /\ Len(events) <= MaxProgress + 3
  /\ Publish(w, "progress")
  /\ UNCHANGED <<status, result, runner, streamVars, getVars>>

\* on_done, called by the pool thread that finished an endpoint.
WorkerProgress(w) ==
  /\ runner = "pool"
  /\ Len(events) <= MaxProgress
  /\ Publish(w, "progress")
  /\ UNCHANGED <<status, result, runner, streamVars, getVars>>

LeavePool ==   \* mutant: shutdown(wait=False)
  /\ RunnerAt("pool", "rest")
  /\ Quiet /\ UNCHANGED <<status, result>>

\* The end of "with ThreadPoolExecutor": every worker has returned.
JoinPool ==
  /\ \A w \in Workers : HandedOut(w)
  /\ RunnerAt("pool", "rest")
  /\ Quiet /\ UNCHANGED <<status, result>>

ScanReturns ==
  /\ RunnerAt("rest", "returned")
  /\ result' = TRUE
  /\ Quiet /\ UNCHANGED status

\* Discovery and the analysis can raise; the pool swallows what its tasks raise.
ScanRaises ==
  /\ runner \in {"scan", "rest"}
  /\ RunnerAt(runner, "except")
  /\ Quiet /\ UNCHANGED <<status, result>>

SetDone ==
  /\ RunnerAt("returned", "serialise")
  /\ status' = "done"
  /\ Quiet /\ UNCHANGED result

PublishResult ==
  /\ RunnerAt("serialise", "finally")
  /\ Publish(Runner, "result")
  /\ UNCHANGED <<status, result>>

ResultRaises ==   \* mutant: the publish of the result is what raises
  /\ RunnerAt("finally", "except")
  /\ Quiet /\ UNCHANGED <<status, result>>

\* serialise.to_dict is inside the try: the job was "done" and becomes "error".
SerialiseRaises ==
  /\ RunnerAt("serialise", "except")
  /\ Quiet /\ UNCHANGED <<status, result>>

SetError ==
  /\ RunnerAt("except", "failed")
  /\ status' = "error"
  /\ Quiet /\ UNCHANGED result

PublishError ==
  /\ RunnerAt("failed", "finally")
  /\ Publish(Runner, "failure")
  /\ UNCHANGED <<status, result>>

PublishFinal ==
  /\ RunnerAt("finally", "release")
  /\ Publish(Runner, status)
  /\ UNCHANGED <<status, result>>

\* STORE.release_slot(), the last thing the thread does.
ReleaseSlot ==
  /\ RunnerAt("release", "ended")
  /\ Quiet /\ UNCHANGED <<status, result>>

-----------------------------------------------------------------------------
(* Handler._stream.                                                        *)

StreamAt(c, from, to) ==
  /\ stream[c] = from
  /\ stream' = [stream EXCEPT ![c] = to]
  /\ UNCHANGED <<jobVars, pub, getVars>>

SubscribeUnlocked(c) ==   \* mutant: the backlog is copied before the lock is taken
  /\ StreamAt(c, "idle", "filling")
  /\ listeners' = listeners \cup {c}
  /\ \E n \in 0 .. Len(events) : upto' = [upto EXCEPT ![c] = n]
  /\ UNCHANGED <<queue, fill, seen, lost, ended>>

\* The locked half of Job.subscribe.
Subscribe(c) ==
  /\ StreamAt(c, "idle", "filling")
  /\ listeners' = listeners \cup {c}
  /\ upto' = [upto EXCEPT ![c] = Len(events)]
  /\ UNCHANGED <<queue, fill, seen, lost, ended>>

FillLive(c) ==   \* mutant: "for event in self.events", without the copy
  /\ fill[c] <= Len(events) /\ Len(queue[c]) < Capacity
  /\ StreamAt(c, "filling", "filling")
  /\ queue' = [queue EXCEPT ![c] = Append(@, fill[c])]
  /\ fill' = [fill EXCEPT ![c] = @ + 1]
  /\ UNCHANGED <<listeners, upto, seen, lost, ended>>

FillNext(c) ==
  /\ fill[c] <= upto[c] /\ Len(queue[c]) < Capacity
  /\ StreamAt(c, "filling", "filling")
  /\ queue' = [queue EXCEPT ![c] = Append(@, fill[c])]
  /\ fill' = [fill EXCEPT ![c] = @ + 1]
  /\ UNCHANGED <<listeners, upto, seen, lost, ended>>

\* The backlog is copied, or the queue is full and the rest is given up.
FillEnds(c) ==
  /\ fill[c] > upto[c] \/ Len(queue[c]) >= Capacity
  /\ StreamAt(c, "filling", "waiting")
  /\ lost' = [lost EXCEPT ![c] = @ \cup (fill[c] .. upto[c])]
  /\ fill' = [fill EXCEPT ![c] = upto[c] + 1]
  /\ UNCHANGED <<listeners, queue, upto, seen, ended>>

IsTerminal(n) == events[n] \in Terminal

DeliverOn(c) ==   \* mutant: a terminal status does not end the loop
  /\ queue[c] # << >>
  /\ StreamAt(c, "waiting", "waiting")
  /\ seen' = [seen EXCEPT ![c] = @ \cup {Head(queue[c])}]
  /\ queue' = [queue EXCEPT ![c] = Tail(@)]
  /\ UNCHANGED <<listeners, fill, upto, lost, ended>>

\* get() returns an event and it is written; a terminal status ends the loop.
Deliver(c) ==
  /\ queue[c] # << >>
  /\ StreamAt(c, "waiting", IF IsTerminal(Head(queue[c])) THEN "leaving" ELSE "waiting")
  /\ seen' = [seen EXCEPT ![c] = @ \cup {Head(queue[c])}]
  /\ queue' = [queue EXCEPT ![c] = Tail(@)]
  /\ ended' = IF IsTerminal(Head(queue[c])) THEN [ended EXCEPT ![c] = "terminal"] ELSE ended
  /\ UNCHANGED <<listeners, fill, upto, lost>>

\* get(timeout=15) finds the queue empty; the status is read a step later.
TimeOut(c) ==
  /\ queue[c] = << >>
  /\ StreamAt(c, "waiting", "keepalive")
  /\ UNCHANGED <<listeners, queue, fill, upto, seen, lost, ended>>

KeepAliveOnly(c) ==   \* mutant: the status is not looked at after a keepalive
  /\ StreamAt(c, "keepalive", "waiting")
  /\ UNCHANGED <<listeners, queue, fill, upto, seen, lost, ended>>

KeepAlive(c) ==
  /\ StreamAt(c, "keepalive", IF status \in Terminal THEN "leaving" ELSE "waiting")
  /\ ended' = IF status \in Terminal THEN [ended EXCEPT ![c] = "keepalive"] ELSE ended
  /\ UNCHANGED <<listeners, queue, fill, upto, seen, lost>>

\* The write fails: of an event just taken, which is gone, or of a keepalive.
DisconnectOnEvent(c) ==
  /\ queue[c] # << >>
  /\ StreamAt(c, "waiting", "leaving")
  /\ lost' = [lost EXCEPT ![c] = @ \cup {Head(queue[c])}]
  /\ queue' = [queue EXCEPT ![c] = Tail(@)]
  /\ ended' = [ended EXCEPT ![c] = "gone"]
  /\ UNCHANGED <<listeners, fill, upto, seen>>

DisconnectOnKeepAlive(c) ==
  /\ StreamAt(c, "keepalive", "leaving")
  /\ ended' = [ended EXCEPT ![c] = "gone"]
  /\ UNCHANGED <<listeners, queue, fill, upto, seen, lost>>

Unsubscribe(c) ==
  /\ StreamAt(c, "leaving", "closed")
  /\ listeners' = listeners \ {c}
  /\ UNCHANGED <<queue, fill, upto, seen, lost, ended>>

-----------------------------------------------------------------------------
(* Handler._result: job.status is read first, job.result a step later.     *)

GetterAt(g, from) ==
  /\ getter[g] = from
  /\ UNCHANGED <<jobVars, feedVars, streamVars>>

Answers(g, code) ==
  /\ getter' = [getter EXCEPT ![g] = "idle"]
  /\ answer' = [answer EXCEPT ![g] = code]

\* JobStore.create drops a job once MAX_RETAINED_SCANS newer ones exist,
\* whatever it is doing.  Only look-ups notice: its threads and its streams hold
\* the Job and go on, and a stream that subscribes late was looked up before.
\* The eviction is therefore one step with the first look-up that misses the job.
NotFound(g) ==
  /\ GetterAt(g, "idle")
  /\ kept' = FALSE
  /\ Answers(g, "404")

GetStatus(g) ==
  /\ kept
  /\ GetterAt(g, "idle")
  /\ IF status = "error"
       THEN Answers(g, "500")
       ELSE getter' = [getter EXCEPT ![g] = "checked"] /\ UNCHANGED answer
  /\ UNCHANGED kept

\* A renderer that raises ends the handler, and the connection with it.
GetResult(g) ==
  /\ GetterAt(g, "checked")
  /\ IF result THEN Answers(g, "200") \/ Answers(g, "dropped") ELSE Answers(g, "202")
  /\ UNCHANGED kept

-----------------------------------------------------------------------------
RunnerStep ==
  \/ Start \/ Announce \/ EmitProgress \/ OpenPool \/ JoinPool
  \/ ScanReturns \/ ScanRaises \/ SetDone \/ PublishResult \/ SerialiseRaises
  \/ SetError \/ PublishError \/ PublishFinal \/ ReleaseSlot

Hand(p) == \E c \in Streams : Offer(p, c)

StreamStep(c) ==
  \/ FillNext(c) \/ FillEnds(c) \/ Deliver(c) \/ TimeOut(c) \/ KeepAlive(c)
  \/ DisconnectOnEvent(c) \/ DisconnectOnKeepAlive(c) \/ Unsubscribe(c)

GetterStep(g) == NotFound(g) \/ GetStatus(g) \/ GetResult(g)

\* The job is over and no stream is open: nothing is left to do.
Over ==
  /\ runner = "ended"
  /\ \A c \in Streams : stream[c] = "closed"
  /\ UNCHANGED vars

Next ==
  \/ RunnerStep
  \/ \E w \in Workers : WorkerProgress(w)
  \/ \E p \in Publishers : Hand(p)
  \/ \E c \in Streams : Subscribe(c) \/ StreamStep(c)
  \/ \E g \in Getters : GetterStep(g)
  \/ Over

Spec == Init /\ [][Next]_vars

(* Every stage of a scan works under a socket timeout, so the job's thread *)
(* keeps moving; a put_nowait never blocks; a stream that has an event or  *)
(* a timeout to act on is scheduled.  Nobody has to subscribe or ask.      *)
Fairness ==
  /\ WF_vars(RunnerStep)
  /\ \A p \in Publishers : WF_vars(Hand(p))
  /\ \A c \in Streams : WF_vars(StreamStep(c))

FairSpec == Spec /\ Fairness

-----------------------------------------------------------------------------
(* Properties.                                                             *)

Positions == 1 .. Len(events)

\* Types of every variable.
TypeOK ==
  /\ status \in Statuses /\ result \in BOOLEAN /\ events \in Seq(Kinds)
  /\ listeners \subseteq Streams
  /\ runner \in {"queued", "announce", "scan", "pool", "rest", "returned", "serialise",
                 "except", "failed", "finally", "release", "ended"}
  /\ pub \in [Publishers -> [n : Nat, to : SUBSET Streams]]
  /\ stream \in [Streams -> {"idle", "filling", "waiting", "keepalive", "leaving", "closed"}]
  /\ queue \in [Streams -> Seq(Nat)]
  /\ fill \in [Streams -> Nat] /\ upto \in [Streams -> Nat]
  /\ seen \in [Streams -> SUBSET Nat] /\ lost \in [Streams -> SUBSET Nat]
  /\ ended \in [Streams -> {"no", "terminal", "keepalive", "gone"}]
  /\ kept \in BOOLEAN
  /\ getter \in [Getters -> {"idle", "checked"}]
  /\ answer \in [Getters -> {"none", "200", "202", "404", "500", "dropped"}]

Queued(c)   == {queue[c][i] : i \in DOMAIN queue[c]}
Backlog(c)  == fill[c] .. upto[c]
InFlight(c) == {pub[p].n : p \in {q \in Publishers : c \in pub[q].to}}

\* Where an event is on its way to c: no position is in two of these places,
\* twice in a queue, or in two threads' hands.  A stream is never sent an
\* event twice, whatever thread subscribes while whatever other publishes.
AtMostOnce ==
  \A c \in Streams :
    /\ Queued(c) \cap seen[c] = {}
    /\ Backlog(c) \cap (seen[c] \cup Queued(c)) = {}
    /\ InFlight(c) \cap (seen[c] \cup Queued(c) \cup Backlog(c)) = {}
    /\ \A i, j \in DOMAIN queue[c] : queue[c][i] = queue[c][j] => i = j
    /\ \A p, q \in Publishers :
         c \in pub[p].to \cap pub[q].to /\ pub[p].n = pub[q].n => p = q

\* No event slips between the backlog subscribe() copies and the listeners
\* publish() snapshots: while c is registered, every event of the job is
\* written, queued, waiting to be put, or known to have been dropped.
NothingSlipsBy ==
  \A c \in listeners :
    Positions \subseteq
      seen[c] \cup lost[c] \cup Queued(c) \cup Backlog(c) \cup InFlight(c)

\* The final status event is the last of the log and tells the job's status:
\* no straggler of the pool and no late error follows it.
FinalStatusIsLast ==
  \A n \in Positions :
    events[n] \in Terminal => n = Len(events) /\ events[n] = status

\* A stream that ends on the final status event was sent every event
\* published since it subscribed, unless its queue overflowed.
LiveEventsDelivered ==
  \A c \in Streams : ended[c] = "terminal" =>
    (upto[c] + 1) .. Len(events) \subseteq seen[c] \cup lost[c]

\* An event is dropped only on a queue that overflowed, which takes a job with
\* more events than the queue has places, or on a socket that is gone.
LossNeedsOverflow ==
  \A c \in Streams : lost[c] # {} => ended[c] = "gone" \/ Len(events) > Capacity

\* Once a dashboard has been sent the report, no download link it shows is
\* told "failed" (500) or "not yet" (202): a request that finds the job in the
\* store is answered 200, or dropped by a renderer that raises, also when it
\* read job.status before the report was there.
DownloadsWorkOnceShown ==
  [][(\E c \in Streams : \E n \in seen[c] : events[n] = "result") =>
       \A g \in Getters :
         /\ answer'[g] # "500"
         /\ getter[g] = "checked" /\ getter'[g] = "idle" => answer'[g] # "202"]_vars

\* A report that was served is never "not yet ready" afterwards.
ServedStaysServed ==
  [][\A g \in Getters : answer[g] = "200" => answer'[g] # "202"]_vars

\* Every stream ends: also the one whose final event was dropped on a full
\* queue, and the one that subscribes to a job that is already over.
StreamsEnd ==
  \A c \in Streams : stream[c] # "idle" ~> stream[c] = "closed"

\* The feed a client is promised (JobFeed), with the queues hidden.
Feed == INSTANCE JobFeed WITH log <- events, got <- seen
FeedSpec == Feed!Spec

ShownReport(c) == \E n \in seen[c] : events[n] = "result"

\* README.md:118-121: "watch the scan stream in real time over server-sent
\* events ... then read the report inline".  A dashboard whose stream the
\* server ended because the scan is done, and that lost nothing to a full
\* queue, has been sent its report.
DoneMeansReportShown ==
  \A c \in Streams :
    ended[c] \in {"terminal", "keepalive"} /\ status = "done" /\ lost[c] = {}
      => ShownReport(c)
=============================================================================
