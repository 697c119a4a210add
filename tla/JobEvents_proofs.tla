------------------------- MODULE JobEvents_proofs -------------------------
(***************************************************************************)
(* Proofs about JobEvents, for any number of pool threads, streams and     *)
(* report requests, any queue length and any number of progress events.    *)
(*                                                                         *)
(* Effects sorts the steps by what they do to the feed.  On top of it the  *)
(* inductive invariant is built in layers: Base (types, and what the       *)
(* runner's place says of the log), Handing (who is handing out what),     *)
(* Journey (where the events of each stream are) and Covered.              *)
(***************************************************************************)
EXTENDS JobEvents, FiniteSetTheorems, TLAPS

USE RunnerAssumption, CapacityAssumption, ProgressAssumption

-----------------------------------------------------------------------------
(* Layer 1: types and the runner.                                          *)

\* What the place of the job's thread says about the status and the log.
RunnerKnows ==
  /\ runner = "serialise" => status = "done"
  /\ runner = "failed" => status = "error"
  /\ runner \in {"finally", "release", "ended"} => status \in Terminal
  /\ runner \in {"release", "ended"} =>
       /\ events # << >> /\ events[Len(events)] = status
       /\ \A n \in 1 .. Len(events) - 1 : events[n] \notin Terminal
  /\ runner \notin {"release", "ended"} =>
       \A n \in Positions : events[n] \notin Terminal

Base == TypeOK /\ RunnerKnows

\* The types of the job's own fields, of its publishers and of its readers.
JobTypes ==
  /\ status \in Statuses /\ result \in BOOLEAN /\ events \in Seq(Kinds)
  /\ runner \in {"queued", "announce", "scan", "pool", "rest", "returned", "serialise",
                 "except", "failed", "finally", "release", "ended"}
FeedTypes ==
  /\ listeners \subseteq Streams
  /\ pub \in [Publishers -> [n : Nat, to : SUBSET Streams]]
StreamTypes ==
  /\ stream \in [Streams -> {"idle", "filling", "waiting", "keepalive", "leaving", "closed"}]
  /\ queue \in [Streams -> Seq(Nat)]
  /\ fill \in [Streams -> Nat] /\ upto \in [Streams -> Nat]
  /\ seen \in [Streams -> SUBSET Nat] /\ lost \in [Streams -> SUBSET Nat]
  /\ ended \in [Streams -> {"no", "terminal", "keepalive", "gone"}]
GetterTypes ==
  /\ kept \in BOOLEAN
  /\ getter \in [Getters -> {"idle", "checked"}]
  /\ answer \in [Getters -> {"none", "200", "202", "404", "500", "dropped"}]

LEMMA Types == TypeOK <=> JobTypes /\ FeedTypes /\ StreamTypes /\ GetterTypes
BY DEF TypeOK, JobTypes, FeedTypes, StreamTypes, GetterTypes

\* A step publishes, quietly moves the runner, hands an event to a stream,
\* moves a stream or answers a request.
Published(p, kind) == Publish(p, kind) /\ UNCHANGED <<result, streamVars, getVars>>

LEMMA Effects ==
  ASSUME Base, [Next]_vars
  PROVE  \/ \E p \in Publishers, kind \in Kinds : Published(p, kind)
         \/ \E p \in Publishers, c \in Streams : Offer(p, c)
         \/ \E c \in Streams : Subscribe(c) \/ StreamStep(c)
         \/ UNCHANGED <<events, feedVars, streamVars>>
<1> USE DEF Published, RunnerAt, Quiet, Kinds, Terminal, Publishers
<1>1. CASE RunnerStep
  <2>1. ASSUME Announce \/ EmitProgress \/ PublishResult \/ PublishError
        PROVE  \E kind \in Kinds : Published(Runner, kind)
    BY <2>1 DEF Announce, EmitProgress, PublishResult, PublishError
  <2>2. ASSUME PublishFinal PROVE \E kind \in Kinds : Published(Runner, kind)
    BY <2>2 DEF PublishFinal, Base, RunnerKnows
  <2>3. ASSUME ~(Announce \/ EmitProgress \/ PublishResult \/ PublishError \/ PublishFinal)
        PROVE  UNCHANGED <<events, feedVars, streamVars>>
    BY <1>1, <2>3 DEF RunnerStep, Start, OpenPool, JoinPool, ScanReturns, ScanRaises,
         SetDone, SerialiseRaises, SetError, ReleaseSlot
  <2> QED
    BY <2>1, <2>2, <2>3
<1>2. ASSUME NEW w \in Workers, WorkerProgress(w)
      PROVE  \E kind \in Kinds : Published(w, kind)
  BY <1>2 DEF WorkerProgress
<1>3. ASSUME NEW p \in Publishers, Hand(p) PROVE \E c \in Streams : Offer(p, c)
  BY <1>3 DEF Hand
<1>4. ASSUME NEW g \in Getters, GetterStep(g)
      PROVE  UNCHANGED <<events, feedVars, streamVars>>
  BY <1>4 DEF GetterStep, NotFound, GetStatus, GetResult, GetterAt, jobVars
<1>5. ASSUME Over \/ UNCHANGED vars PROVE UNCHANGED <<events, feedVars, streamVars>>
  BY <1>5 DEF Over, vars, jobVars
<1> QED
  BY <1>1, <1>2, <1>3, <1>4, <1>5 DEF Next

\* Where a stream's step may leave its queue, its position and its sets.
LEMMA StreamTypesStep ==
  ASSUME TypeOK, NEW c \in Streams, Subscribe(c) \/ StreamStep(c)
  PROVE  listeners' \subseteq Streams /\ StreamTypes'
<1> USE DEF StreamTypes, FeedTypes, JobTypes, StreamAt
<1>1. StreamTypes /\ listeners \subseteq Streams /\ Len(events) \in Nat
  BY Types
<1>2. CASE Subscribe(c)
  BY <1>1, <1>2 DEF Subscribe
<1>3. CASE FillNext(c)
  BY <1>1, <1>3 DEF FillNext
<1>4. CASE FillEnds(c)
  BY <1>1, <1>4 DEF FillEnds
<1>5. CASE Deliver(c) \/ DisconnectOnEvent(c)
  <2>0. queue[c] # << >> /\ queue[c] \in Seq(Nat)
    BY <1>1, <1>5 DEF Deliver, DisconnectOnEvent
  <2>1. Head(queue[c]) \in Nat /\ Tail(queue[c]) \in Seq(Nat)
    BY <2>0
  <2>2. queue' \in [Streams -> Seq(Nat)]
    BY <1>1, <1>5, <2>1 DEF Deliver, DisconnectOnEvent
  <2>5. seen[c] \cup {Head(queue[c])} \in SUBSET Nat /\ lost[c] \cup {Head(queue[c])} \in SUBSET Nat
    BY <1>1, <2>1
  <2>3. seen' \in [Streams -> SUBSET Nat] /\ lost' \in [Streams -> SUBSET Nat]
    <3>1. CASE Deliver(c)
      BY <1>1, <2>5, <3>1 DEF Deliver
    <3>2. CASE DisconnectOnEvent(c)
      BY <1>1, <2>5, <3>2 DEF DisconnectOnEvent
    <3> QED
      BY <1>5, <3>1, <3>2
  <2>4. stream' \in [Streams -> {"idle", "filling", "waiting", "keepalive", "leaving", "closed"}]
        /\ ended' \in [Streams -> {"no", "terminal", "keepalive", "gone"}]
        /\ UNCHANGED <<listeners, fill, upto>>
    BY <1>1, <1>5 DEF Deliver, DisconnectOnEvent
  <2> QED
    BY <1>1, <2>2, <2>3, <2>4
<1>6. CASE TimeOut(c) \/ KeepAlive(c) \/ DisconnectOnKeepAlive(c) \/ Unsubscribe(c)
  BY <1>1, <1>6 DEF TimeOut, KeepAlive, DisconnectOnKeepAlive, Unsubscribe
<1> QED
  BY <1>2, <1>3, <1>4, <1>5, <1>6 DEF StreamStep

\* A put leaves types alone.
LEMMA OfferTypes ==
  ASSUME TypeOK, NEW p \in Publishers, NEW c \in Streams, Offer(p, c)
  PROVE  FeedTypes' /\ StreamTypes'
<1>1. StreamTypes /\ FeedTypes
  BY Types
<1>2. pub[p].n \in Nat /\ pub[p].to \subseteq Streams
  BY <1>1 DEF FeedTypes
<1>3. FeedTypes'
  BY <1>1, <1>2 DEF FeedTypes, Offer
<1>4. queue' \in [Streams -> Seq(Nat)] /\ lost' \in [Streams -> SUBSET Nat]
  <2>1. Append(queue[c], pub[p].n) \in Seq(Nat) /\ lost[c] \cup {pub[p].n} \in SUBSET Nat
    BY <1>1, <1>2 DEF StreamTypes
  <2> QED
    BY <1>1, <2>1 DEF StreamTypes, Offer
<1> QED
  BY <1>1, <1>3, <1>4 DEF StreamTypes, Offer

\* The first layer holds initially and is preserved.
LEMMA BaseInit == Init => Base
<1> SUFFICES ASSUME Init PROVE Base
  OBVIOUS
<1>1. TypeOK
  <2>1. << >> \in Seq(Kinds) /\ << >> \in Seq(Nat)
    OBVIOUS
  <2>2. JobTypes /\ FeedTypes /\ GetterTypes
    BY <2>1 DEF Init, JobTypes, FeedTypes, GetterTypes, Statuses
  <2>3. StreamTypes
    BY <2>1 DEF Init, StreamTypes
  <2> QED
    BY <2>2, <2>3, Types
<1>2. RunnerKnows
  BY DEF Init, RunnerKnows, Positions
<1> QED
  BY <1>1, <1>2 DEF Base

LEMMA TypesStep == Base /\ [Next]_vars => TypeOK'
<1> SUFFICES ASSUME Base, [Next]_vars PROVE TypeOK'
  OBVIOUS
<1>0. TypeOK /\ JobTypes /\ FeedTypes /\ StreamTypes /\ GetterTypes
  BY Types DEF Base
<1>1. FeedTypes' /\ StreamTypes' /\ events' \in Seq(Kinds)
  <2>1. CASE \E p \in Publishers, kind \in Kinds : Published(p, kind)
    BY <1>0, <2>1 DEF Published, Publish, JobTypes, FeedTypes, StreamTypes, streamVars
  <2>2. CASE \E p \in Publishers, c \in Streams : Offer(p, c)
    BY <1>0, <2>2, OfferTypes DEF JobTypes, Offer, jobVars
  <2>3. CASE \E c \in Streams : Subscribe(c) \/ StreamStep(c)
    <3>1. UNCHANGED <<events, pub>>
      BY <2>3 DEF Subscribe, StreamStep, FillNext, FillEnds, Deliver, TimeOut, KeepAlive,
           DisconnectOnEvent, DisconnectOnKeepAlive, Unsubscribe, StreamAt, jobVars
    <3> QED
      BY <1>0, <2>3, <3>1, StreamTypesStep DEF JobTypes, FeedTypes
  <2>4. CASE UNCHANGED <<events, feedVars, streamVars>>
    BY <1>0, <2>4 DEF JobTypes, FeedTypes, StreamTypes, feedVars, streamVars
  <2> QED
    BY <2>1, <2>2, <2>3, <2>4, Effects
<1>2. GetterTypes' /\ status' \in Statuses /\ result' \in BOOLEAN
      /\ runner' \in {"queued", "announce", "scan", "pool", "rest", "returned", "serialise",
                      "except", "failed", "finally", "release", "ended"}
  <2> USE <1>0 DEF GetterTypes, JobTypes, Statuses
  <2>1. CASE RunnerStep
    BY <2>1 DEF RunnerStep, RunnerAt, getVars, Start, Announce, EmitProgress, OpenPool,
         JoinPool, ScanReturns, ScanRaises, SetDone, PublishResult, SerialiseRaises,
         SetError, PublishError, PublishFinal, ReleaseSlot
  <2>2. CASE \E w \in Workers : WorkerProgress(w)
    BY <2>2 DEF WorkerProgress, getVars
  <2>3. CASE \E p \in Publishers : Hand(p)
    BY <2>3 DEF Hand, Offer, jobVars, getVars
  <2>4. CASE \E c \in Streams : Subscribe(c) \/ StreamStep(c)
    BY <2>4 DEF Subscribe, StreamStep, FillNext, FillEnds, Deliver, TimeOut, KeepAlive,
         DisconnectOnEvent, DisconnectOnKeepAlive, Unsubscribe, StreamAt, jobVars, getVars
  <2>5. CASE \E g \in Getters : GetterStep(g)
    BY <2>5 DEF GetterStep, NotFound, GetStatus, GetResult, GetterAt, Answers, jobVars
  <2>6. CASE Over \/ UNCHANGED vars
    BY <2>6 DEF Over, vars, jobVars, getVars
  <2> QED
    BY <2>1, <2>2, <2>3, <2>4, <2>5, <2>6 DEF Next
<1>3. (JobTypes /\ FeedTypes /\ StreamTypes /\ GetterTypes)'
  BY <1>1, <1>2 DEF JobTypes
<1> QED
  BY <1>3 DEF TypeOK, JobTypes, FeedTypes, StreamTypes, GetterTypes

\* What appending does to a log.
LEMMA Appended ==
  ASSUME NEW S, NEW s \in Seq(S), NEW x
  PROVE  /\ Len(Append(s, x)) = Len(s) + 1 /\ Append(s, x)[Len(s) + 1] = x
         /\ \A n \in 1 .. Len(s) : Append(s, x)[n] = s[n]
OBVIOUS

\* The final status is published last.
LEMMA RunnerStepKnows == Base /\ [Next]_vars => RunnerKnows'
<1> SUFFICES ASSUME Base, [Next]_vars PROVE RunnerKnows'
  OBVIOUS
<1>0. RunnerKnows /\ JobTypes
  BY Types DEF Base
<1> USE <1>0 DEF RunnerKnows, JobTypes, Positions, Terminal
<1>1. CASE RunnerStep
  <2> USE DEF RunnerAt, Quiet, Publish
  <2>1. CASE Announce \/ EmitProgress \/ PublishResult \/ PublishError
    <3>1. PICK kind \in {"running", "progress", "result", "failure"} :
               events' = Append(events, kind)
      BY <2>1 DEF Announce, EmitProgress, PublishResult, PublishError
    <3>2. runner' \notin {"release", "ended", "serialise", "failed"} /\ runner \notin {"release", "ended"}
          /\ (runner' = "finally" => status' \in Terminal)
      BY <2>1 DEF Announce, EmitProgress, PublishResult, PublishError
    <3>3. \A n \in 1 .. Len(events) + 1 : events'[n] \notin Terminal
      BY <3>1, <3>2, Appended
    <3>4. Len(events') = Len(events) + 1
      BY <3>1, Appended
    <3> QED
      BY <3>2, <3>3, <3>4
  <2>2. CASE PublishFinal
    <3>1. events' = Append(events, status) /\ runner = "finally" /\ runner' = "release"
          /\ status' = status
      BY <2>2 DEF PublishFinal
    <3>2. \A n \in 1 .. Len(events) : events'[n] \notin Terminal
      BY <3>1, Appended
    <3> QED
      BY <3>1, <3>2, Appended
  <2>3. CASE Start \/ OpenPool \/ JoinPool \/ ScanReturns \/ ScanRaises \/ SetDone
             \/ SerialiseRaises \/ SetError \/ ReleaseSlot
    BY <2>3 DEF Start, OpenPool, JoinPool, ScanReturns, ScanRaises, SetDone,
         SerialiseRaises, SetError, ReleaseSlot
  <2> QED
    BY <1>1, <2>1, <2>2, <2>3 DEF RunnerStep
<1>2. CASE \E w \in Workers : WorkerProgress(w)
  BY <1>2 DEF WorkerProgress, Publish
<1>3. CASE UNCHANGED jobVars
  BY <1>3 DEF jobVars
<1>4. (\E p \in Publishers : Hand(p)) \/ (\E c \in Streams : Subscribe(c) \/ StreamStep(c))
        \/ (\E g \in Getters : GetterStep(g)) \/ Over \/ UNCHANGED vars
      => UNCHANGED jobVars
  BY DEF Hand, Offer, Subscribe, StreamStep, FillNext, FillEnds, Deliver, TimeOut, KeepAlive,
       DisconnectOnEvent, DisconnectOnKeepAlive, Unsubscribe, StreamAt, GetterStep,
       NotFound, GetStatus, GetResult, GetterAt, Over, vars
<1> QED
  BY <1>1, <1>2, <1>3, <1>4 DEF Next

LEMMA BaseStep == Base /\ [Next]_vars => Base'
BY TypesStep, RunnerStepKnows DEF Base

-----------------------------------------------------------------------------
(* Queues of distinct positions, as sets.                                  *)

Elements(s) == {s[i] : i \in DOMAIN s}
Distinct(s) == \A i, j \in DOMAIN s : s[i] = s[j] => i = j

\* Putting an element at the end of a queue.
LEMMA Put ==
  ASSUME NEW s \in Seq(Nat), NEW x \in Nat
  PROVE  /\ Elements(Append(s, x)) = Elements(s) \cup {x}
         /\ Distinct(s) /\ x \notin Elements(s) => Distinct(Append(s, x))
<1>1. DOMAIN Append(s, x) = 1 .. Len(s) + 1 /\ DOMAIN s = 1 .. Len(s) /\ Len(s) \in Nat
  OBVIOUS
<1>2. Append(s, x)[Len(s) + 1] = x /\ \A i \in 1 .. Len(s) : Append(s, x)[i] = s[i]
  OBVIOUS
<1>3. Elements(Append(s, x)) = Elements(s) \cup {x}
  <2>1. \A e \in Elements(Append(s, x)) : e \in Elements(s) \cup {x}
    BY <1>1, <1>2 DEF Elements
  <2>2. x \in Elements(Append(s, x))
    <3>1. Len(s) + 1 \in DOMAIN Append(s, x)
      BY <1>1
    <3> QED
      BY <1>2, <3>1 DEF Elements
  <2>3. ASSUME NEW i \in DOMAIN s PROVE s[i] \in Elements(Append(s, x))
    <3>1. i \in DOMAIN Append(s, x) /\ Append(s, x)[i] = s[i]
      BY <1>1, <1>2
    <3> QED
      BY <3>1 DEF Elements
  <2> QED
    BY <2>1, <2>2, <2>3 DEF Elements
<1>4. ASSUME Distinct(s), x \notin Elements(s),
             NEW i \in 1 .. Len(s) + 1, NEW j \in 1 .. Len(s) + 1,
             Append(s, x)[i] = Append(s, x)[j]
      PROVE  i = j
  <2>1. \A k \in 1 .. Len(s) : s[k] # x
    BY <1>1, <1>4 DEF Elements
  <2> QED
    BY <1>1, <1>2, <1>4, <2>1 DEF Distinct
<1>5. Distinct(s) /\ x \notin Elements(s) => Distinct(Append(s, x))
  BY <1>1, <1>4 DEF Distinct
<1> QED
  BY <1>3, <1>5

\* Taking the element at the front.
LEMMA Taken ==
  ASSUME NEW s \in Seq(Nat), s # << >>, Distinct(s)
  PROVE  /\ Head(s) \in Elements(s) /\ Head(s) \in Nat
         /\ Tail(s) \in Seq(Nat) /\ Distinct(Tail(s))
         /\ Elements(Tail(s)) = Elements(s) \ {Head(s)}
<1>1. DOMAIN s = 1 .. Len(s) /\ Len(s) \in Nat /\ Len(s) >= 1 /\ Head(s) = s[1]
  OBVIOUS
<1>2. /\ Tail(s) \in Seq(Nat) /\ DOMAIN Tail(s) = 1 .. Len(s) - 1
      /\ \A i \in 1 .. Len(s) - 1 : Tail(s)[i] = s[i + 1]
  OBVIOUS
<1>3. Head(s) \in Elements(s) /\ Head(s) \in Nat
  BY <1>1 DEF Elements
<1>4. Distinct(Tail(s))
  <2> SUFFICES ASSUME NEW i \in 1 .. Len(s) - 1, NEW j \in 1 .. Len(s) - 1,
                      Tail(s)[i] = Tail(s)[j]
               PROVE  i = j
    BY <1>2 DEF Distinct
  <2>1. i + 1 \in DOMAIN s /\ j + 1 \in DOMAIN s /\ s[i + 1] = s[j + 1]
    BY <1>1, <1>2
  <2> QED
    BY <2>1 DEF Distinct
<1>5. ASSUME NEW i \in 1 .. Len(s) - 1
      PROVE  Tail(s)[i] \in Elements(s) \ {Head(s)}
  <2>1. i + 1 \in DOMAIN s /\ 1 \in DOMAIN s /\ i + 1 # 1 /\ Tail(s)[i] = s[i + 1]
    BY <1>1, <1>2
  <2> QED
    BY <1>1, <2>1 DEF Elements, Distinct
<1>6. ASSUME NEW i \in DOMAIN s, s[i] # Head(s) PROVE s[i] \in Elements(Tail(s))
  <2>1. i - 1 \in 1 .. Len(s) - 1 /\ s[(i - 1) + 1] = s[i]
    BY <1>1, <1>6
  <2>2. Tail(s)[i - 1] = s[i]
    BY <1>2, <2>1
  <2> QED
    BY <1>2, <2>1, <2>2 DEF Elements
<1>7. Elements(Tail(s)) = Elements(s) \ {Head(s)}
  BY <1>2, <1>5, <1>6 DEF Elements
<1> QED
  BY <1>2, <1>3, <1>4, <1>7

-----------------------------------------------------------------------------
(* Layer 2: the threads that hand events out.                              *)

\* Every event in a thread's hands is in the log, no two threads hand out the
\* same, and outside the TLS stage only the job's own thread has any.
Handing ==
  /\ \A p \in Publishers : pub[p].n <= Len(events)
  /\ \A p, q \in Publishers, c \in Streams :
       c \in pub[p].to /\ c \in pub[q].to /\ pub[p].n = pub[q].n => p = q
  /\ runner # "pool" => \A w \in Workers : HandedOut(w)

LEMMA HandingInit == Init => Handing
BY DEF Init, Handing, HandedOut, Publishers

\* The pool's threads are out of events before the runner leaves it.
LEMMA PoolIsLeftEmpty ==
  ASSUME Base, Handing, [Next]_vars
  PROVE  (runner # "pool" => \A w \in Workers : HandedOut(w))'
<1>0. FeedTypes /\ \A w \in Workers : w \in Publishers /\ w # Runner
  BY Types DEF Base, Publishers
<1>1. CASE RunnerStep
  <2> USE <1>0 DEF RunnerAt, Quiet, Publish, feedVars, HandedOut, Handing, FeedTypes
  <2>1. CASE JoinPool
    BY <2>1 DEF JoinPool
  <2>2. CASE Announce \/ EmitProgress \/ PublishResult \/ PublishError \/ PublishFinal
    BY <2>2 DEF Announce, EmitProgress, PublishResult, PublishError, PublishFinal
  <2>3. CASE Start \/ OpenPool \/ ScanReturns \/ ScanRaises \/ SetDone
             \/ SerialiseRaises \/ SetError \/ ReleaseSlot
    BY <2>3 DEF Start, OpenPool, ScanReturns, ScanRaises, SetDone, SerialiseRaises,
         SetError, ReleaseSlot
  <2> QED
    BY <1>1, <2>1, <2>2, <2>3 DEF RunnerStep
<1>2. CASE \E w \in Workers : WorkerProgress(w)
  BY <1>2 DEF WorkerProgress
<1>3. CASE \E p \in Publishers : Hand(p)
  BY <1>0, <1>3 DEF Hand, Offer, jobVars, HandedOut, Handing, FeedTypes
<1>4. CASE UNCHANGED <<runner, pub>>
  BY <1>4 DEF HandedOut, Handing
<1>5. (\E c \in Streams : Subscribe(c) \/ StreamStep(c))
        \/ (\E g \in Getters : GetterStep(g)) \/ Over \/ UNCHANGED vars
      => UNCHANGED <<runner, pub>>
  BY DEF Subscribe, StreamStep, FillNext, FillEnds, Deliver, TimeOut, KeepAlive,
       DisconnectOnEvent, DisconnectOnKeepAlive, Unsubscribe, StreamAt, GetterStep,
       NotFound, GetStatus, GetResult, GetterAt, Over, vars, jobVars, feedVars
<1> QED
  BY <1>1, <1>2, <1>3, <1>4, <1>5 DEF Next

\* Publishing replaces one thread's entry, by a newer event.
LEMMA PublishedEntry ==
  ASSUME Base, NEW p \in Publishers, NEW kind, Published(p, kind)
  PROVE  /\ pub'[p].n = Len(events) + 1 /\ pub'[p].to = listeners /\ pub[p].to = {}
         /\ \A q \in Publishers \ {p} : pub'[q] = pub[q]
         /\ events' = Append(events, kind) /\ Len(events') = Len(events) + 1
         /\ Len(events) \in Nat /\ \A q \in Publishers : pub[q].n \in Nat
         /\ UNCHANGED <<listeners, stream, queue, fill, upto, seen, lost, ended>>
<1>1. FeedTypes /\ JobTypes
  BY Types DEF Base
<1> QED
  BY <1>1, Appended DEF Published, Publish, HandedOut, FeedTypes, JobTypes, streamVars

\* A put takes one stream off one thread's list.
LEMMA OfferedEntry ==
  ASSUME Base, NEW p \in Publishers, NEW c \in Streams, Offer(p, c)
  PROVE  /\ c \in pub[p].to /\ pub'[p].n = pub[p].n /\ pub'[p].to = pub[p].to \ {c}
         /\ \A q \in Publishers \ {p} : pub'[q] = pub[q]
         /\ UNCHANGED <<events, listeners, stream, fill, upto, seen, ended>>
<1>1. FeedTypes
  BY Types DEF Base
<1> QED
  BY <1>1 DEF Offer, FeedTypes, jobVars

LEMMA HandingStep == Base /\ Handing /\ [Next]_vars => Handing'
<1> SUFFICES ASSUME Base, Handing, [Next]_vars
             PROVE  (/\ \A p \in Publishers : pub[p].n <= Len(events)
                     /\ \A p, q \in Publishers, c \in Streams :
                          c \in pub[p].to /\ c \in pub[q].to /\ pub[p].n = pub[q].n => p = q)'
  BY PoolIsLeftEmpty DEF Handing
<1>1. CASE \E p \in Publishers, kind \in Kinds : Published(p, kind)
  <2> PICK p \in Publishers, kind \in Kinds : Published(p, kind)
    BY <1>1
  <2> QED
    BY PublishedEntry DEF Handing
<1>2. CASE \E p \in Publishers, c \in Streams : Offer(p, c)
  <2> PICK p \in Publishers, c \in Streams : Offer(p, c)
    BY <1>2
  <2> QED
    BY OfferedEntry DEF Handing
<1>3. CASE UNCHANGED <<events, pub>>
  BY <1>3 DEF Handing
<1>4. (\E c \in Streams : Subscribe(c) \/ StreamStep(c)) => UNCHANGED <<events, pub>>
  BY DEF Subscribe, StreamStep, FillNext, FillEnds, Deliver, TimeOut, KeepAlive,
       DisconnectOnEvent, DisconnectOnKeepAlive, Unsubscribe, StreamAt, jobVars
<1> QED
  BY <1>1, <1>2, <1>3, <1>4, Effects DEF feedVars

-----------------------------------------------------------------------------
(* Layer 3: where the events of one stream are.                            *)

Sent(c) == seen[c] \cup Queued(c)

\* The backlog a stream has still to put has not been sent, and lies below
\* whatever a thread is handing to it.
Journey(c) ==
  /\ upto[c] <= Len(events) /\ 1 <= fill[c] /\ fill[c] <= upto[c] + 1
  /\ Distinct(queue[c]) /\ Queued(c) \cap seen[c] = {}
  /\ \A n \in Sent(c) : n \in Positions /\ (n < fill[c] \/ n > upto[c])
  /\ \A p \in Publishers :
       c \in pub[p].to => pub[p].n > upto[c] /\ pub[p].n \notin Sent(c)
  /\ stream[c] = "idle" =>
       /\ c \notin listeners /\ Sent(c) = {} /\ fill[c] = 1 /\ upto[c] = 0
       /\ \A p \in Publishers : c \notin pub[p].to

Travels == Base /\ Handing /\ \A c \in Streams : Journey(c)

LEMMA JourneyInit == Init => \A c \in Streams : Journey(c)
<1> SUFFICES ASSUME Init, NEW c \in Streams PROVE Journey(c)
  OBVIOUS
<1>1. /\ queue[c] = << >> /\ seen[c] = {} /\ fill[c] = 1 /\ upto[c] = 0
      /\ listeners = {} /\ Len(events) = 0 /\ \A p \in Publishers : pub[p].to = {}
  BY DEF Init
<1>2. Queued(c) = {} /\ Distinct(queue[c])
  BY <1>1 DEF Queued, Distinct
<1> QED
  BY <1>1, <1>2 DEF Journey, Sent

\* The queue of a stream as a set, and the types of what belongs to it.
LEMMA Local ==
  ASSUME Base, NEW c \in Streams
  PROVE  /\ queue[c] \in Seq(Nat) /\ seen[c] \subseteq Nat /\ lost[c] \subseteq Nat
         /\ fill[c] \in Nat /\ upto[c] \in Nat /\ Len(events) \in Nat
         /\ Queued(c) = Elements(queue[c]) /\ Queued(c)' = Elements(queue'[c])
         /\ \A p \in Publishers : pub[p].n \in Nat /\ pub[p].to \subseteq Streams
<1>1. FeedTypes /\ JobTypes /\ StreamTypes
  BY Types DEF Base
<1>2. \A p \in Publishers : pub[p] \in [n : Nat, to : SUBSET Streams]
  BY <1>1 DEF FeedTypes
<1>3. Queued(c) = Elements(queue[c]) /\ Queued(c)' = Elements(queue'[c])
  BY DEF Queued, Elements
<1> QED
  BY <1>1, <1>2, <1>3 DEF JobTypes, StreamTypes

\* A stream's own step leaves the log, the publishers and the others alone.
LEMMA Alone ==
  ASSUME Base, NEW c \in Streams, Subscribe(c) \/ StreamStep(c),
         NEW d \in Streams, d # c
  PROVE  /\ queue'[d] = queue[d] /\ fill'[d] = fill[d] /\ upto'[d] = upto[d]
         /\ seen'[d] = seen[d] /\ lost'[d] = lost[d] /\ stream'[d] = stream[d]
         /\ ended'[d] = ended[d] /\ (d \in listeners' <=> d \in listeners)
<1>1. StreamTypes
  BY Types DEF Base
<1> QED
  BY <1>1 DEF StreamTypes, Subscribe, StreamStep, FillNext, FillEnds, Deliver, TimeOut,
       KeepAlive, DisconnectOnEvent, DisconnectOnKeepAlive, Unsubscribe, StreamAt

\* What the step does to the stream itself.
Registers(c) ==
  /\ stream[c] = "idle" /\ upto'[c] = Len(events) /\ c \in listeners'
  /\ stream'[c] = "filling"
  /\ UNCHANGED <<queue[c], fill[c], seen[c], lost[c], ended[c]>>
Puts(c) ==
  /\ stream[c] = "filling" /\ fill[c] <= upto[c]
  /\ queue'[c] = Append(queue[c], fill[c]) /\ fill'[c] = fill[c] + 1
  /\ stream'[c] # "idle" /\ (c \in listeners' <=> c \in listeners)
  /\ UNCHANGED <<upto[c], seen[c], lost[c], ended[c]>>
GivesUp(c) ==
  /\ stream[c] = "filling"
  /\ fill'[c] = upto[c] + 1 /\ lost'[c] = lost[c] \cup (fill[c] .. upto[c])
  /\ fill[c] > upto[c] \/ Len(queue[c]) >= Capacity
  /\ stream'[c] # "idle" /\ (c \in listeners' <=> c \in listeners)
  /\ UNCHANGED <<queue[c], upto[c], seen[c], ended[c]>>
Takes(c) ==
  /\ queue[c] # << >> /\ queue'[c] = Tail(queue[c])
  /\ stream[c] = "waiting" /\ stream'[c] # "idle" /\ (c \in listeners' <=> c \in listeners)
  /\ UNCHANGED <<fill[c], upto[c]>>
  /\ \/ /\ seen'[c] = seen[c] \cup {Head(queue[c])} /\ UNCHANGED lost[c]
        /\ IF IsTerminal(Head(queue[c]))
             THEN stream'[c] = "leaving" /\ ended'[c] = "terminal"
             ELSE stream'[c] = "waiting" /\ UNCHANGED ended[c]
     \/ /\ lost'[c] = lost[c] \cup {Head(queue[c])} /\ UNCHANGED seen[c]
        /\ stream'[c] = "leaving" /\ ended'[c] = "gone"
Waits(c) ==
  /\ stream[c] # "idle" /\ stream'[c] # "idle" /\ (c \in listeners' => c \in listeners)
  /\ UNCHANGED <<queue[c], fill[c], upto[c], seen[c], lost[c]>>
  /\ \/ ended'[c] = ended[c]
     \/ ended'[c] \in {"keepalive", "gone"} /\ stream'[c] = "leaving"
  /\ stream[c] \in {"leaving", "closed"} =>
       stream'[c] \in {"leaving", "closed"} /\ ended'[c] = ended[c]

LEMMA Moves ==
  ASSUME Base, NEW c \in Streams, Subscribe(c) \/ StreamStep(c)
  PROVE  /\ UNCHANGED <<events, pub>>
         /\ Registers(c) \/ Puts(c) \/ GivesUp(c) \/ Takes(c) \/ Waits(c)
<1>1. StreamTypes
  BY Types DEF Base
<1> USE <1>1 DEF StreamTypes, StreamAt, jobVars
<1>2. CASE Subscribe(c)
  BY <1>2 DEF Subscribe, Registers
<1>3. CASE FillNext(c)
  BY <1>3 DEF FillNext, Puts
<1>4. CASE FillEnds(c)
  BY <1>4 DEF FillEnds, GivesUp
<1>5. CASE Deliver(c)
  BY <1>5 DEF Deliver, Takes
<1>6. CASE DisconnectOnEvent(c)
  BY <1>6 DEF DisconnectOnEvent, Takes
<1>7. CASE TimeOut(c)
  BY <1>7 DEF TimeOut, Waits
<1>8. CASE KeepAlive(c)
  BY <1>8 DEF KeepAlive, Waits
<1>9. CASE DisconnectOnKeepAlive(c)
  BY <1>9 DEF DisconnectOnKeepAlive, Waits
<1>10. CASE Unsubscribe(c)
  BY <1>10 DEF Unsubscribe, Waits
<1> QED
  BY <1>2, <1>3, <1>4, <1>5, <1>6, <1>7, <1>8, <1>9, <1>10 DEF StreamStep

\* Preservation, for a step of each kind.
LEMMA JourneyPublished ==
  ASSUME Travels, NEW c \in Streams,
         NEW p \in Publishers, NEW kind \in Kinds, Published(p, kind)
  PROVE  Journey(c)'
<1>1. Base /\ Journey(c)
  BY DEF Travels
<1>2. queue'[c] = queue[c] /\ Queued(c)' = Queued(c) /\ Sent(c)' = Sent(c)
  BY <1>1, PublishedEntry DEF Queued, Sent
<1>3. \A n \in Sent(c) : n \in 1 .. Len(events)
  BY <1>1 DEF Journey, Positions
<1>4. ASSUME NEW q \in Publishers, c \in pub'[q].to
      PROVE  pub'[q].n > upto[c] /\ pub'[q].n \notin Sent(c)
  BY <1>1, <1>3, <1>4, PublishedEntry, Local DEF Journey
<1>5. stream[c] = "idle" => \A q \in Publishers : c \notin pub'[q].to
  BY <1>1, PublishedEntry DEF Journey
<1> QED
  BY <1>1, <1>2, <1>3, <1>4, <1>5, PublishedEntry, Local DEF Journey, Positions

LEMMA JourneyOffered ==
  ASSUME Travels, NEW c \in Streams,
         NEW p \in Publishers, NEW d \in Streams, Offer(p, d)
  PROVE  Journey(c)'
<1>1. Base /\ Handing /\ Journey(c) /\ StreamTypes
  BY Types DEF Travels, Base
<1>2. /\ \A q \in Publishers : pub'[q].n = pub[q].n /\ (c \in pub'[q].to => c \in pub[q].to)
      /\ UNCHANGED <<events, listeners, stream, fill, upto, seen>>
  BY <1>1, OfferedEntry
<1>3. CASE queue'[c] = queue[c]
  <2>1. Queued(c)' = Queued(c) /\ Sent(c)' = Sent(c)
    BY <1>2, <1>3 DEF Queued, Sent
  <2> QED
    BY <1>1, <1>2, <1>3, <2>1 DEF Journey, Positions
<1>4. CASE queue'[c] # queue[c]
  <2>1. d = c /\ queue'[c] = Append(queue[c], pub[p].n) /\ c \in pub[p].to
    BY <1>1, <1>4 DEF Offer, StreamTypes
  <2>2. pub[p].n \in Nat /\ pub[p].n \notin Sent(c) /\ pub[p].n > upto[c]
        /\ pub[p].n <= Len(events)
    BY <1>1, <2>1, Local DEF Journey, Handing
  <2>3. Queued(c)' = Queued(c) \cup {pub[p].n} /\ Distinct(queue'[c])
    <3>1. queue[c] \in Seq(Nat) /\ Queued(c) = Elements(queue[c])
          /\ Queued(c)' = Elements(queue'[c])
      BY <1>1, Local
    <3>2. pub[p].n \notin Elements(queue[c]) /\ Distinct(queue[c])
      BY <1>1, <2>2, <3>1 DEF Journey, Sent
    <3>3. /\ Elements(Append(queue[c], pub[p].n)) = Elements(queue[c]) \cup {pub[p].n}
          /\ Distinct(Append(queue[c], pub[p].n))
      BY <2>2, <3>1, <3>2, Put
    <3> QED
      BY <2>1, <3>1, <3>3
  <2>4. Sent(c)' = Sent(c) \cup {pub[p].n} /\ Queued(c)' \cap seen[c] = {}
    BY <1>1, <1>2, <2>2, <2>3 DEF Sent, Journey
  <2>5. ASSUME NEW q \in Publishers, c \in pub'[q].to PROVE pub[q].n \notin Sent(c)'
    <3>1. q # p /\ c \in pub[q].to
      BY <1>1, <2>1, <2>5, OfferedEntry
    <3>2. pub[q].n # pub[p].n
      BY <1>1, <2>1, <3>1 DEF Handing
    <3> QED
      BY <1>1, <2>4, <3>1, <3>2 DEF Journey
  <2>6. stream[c] # "idle"
    BY <1>1, <2>1 DEF Journey
  <2>7. \A n \in Sent(c)' : n \in 1 .. Len(events) /\ (n < fill[c] \/ n > upto[c])
    BY <1>1, <2>2, <2>4, Local DEF Journey, Positions
  <2> QED
    BY <1>1, <1>2, <2>3, <2>4, <2>5, <2>6, <2>7 DEF Journey, Positions
<1> QED
  BY <1>3, <1>4

LEMMA JourneyMoved ==
  ASSUME Travels, NEW c \in Streams, Subscribe(c) \/ StreamStep(c)
  PROVE  Journey(c)'
<1>1. Base /\ Journey(c) /\ events' = events /\ pub' = pub
  BY Moves DEF Travels
<1>2. /\ queue[c] \in Seq(Nat) /\ fill[c] \in Nat /\ upto[c] \in Nat /\ Len(events) \in Nat
      /\ Queued(c) = Elements(queue[c]) /\ Queued(c)' = Elements(queue'[c])
  BY <1>1, Local
<1> USE DEF Positions
<1>3. CASE Registers(c)
  <2>1. Sent(c)' = Sent(c) /\ Sent(c) = {} /\ queue'[c] = queue[c] /\ Queued(c)' = Queued(c)
    BY <1>1, <1>2, <1>3 DEF Registers, Sent, Journey
  <2> QED
    BY <1>1, <1>2, <1>3, <2>1 DEF Registers, Journey
<1>4. CASE Puts(c)
  <2>1. fill[c] \notin Sent(c) /\ fill[c] \in 1 .. Len(events)
    <3>1. fill[c] <= upto[c] /\ 1 <= fill[c] /\ upto[c] <= Len(events)
      BY <1>1, <1>4 DEF Puts, Journey
    <3>2. ~(fill[c] < fill[c] \/ fill[c] > upto[c])
      BY <1>2, <3>1
    <3> QED
      BY <1>1, <1>2, <3>1, <3>2 DEF Journey
  <2>2. Queued(c)' = Queued(c) \cup {fill[c]} /\ Distinct(queue'[c])
    BY <1>1, <1>2, <1>4, <2>1, Put DEF Puts, Journey, Sent
  <2>3. Sent(c)' = Sent(c) \cup {fill[c]} /\ Queued(c)' \cap seen'[c] = {}
    BY <1>1, <1>4, <2>1, <2>2 DEF Puts, Sent, Journey
  <2>4. \A n \in Sent(c)' : n \in 1 .. Len(events) /\ (n < fill[c] + 1 \/ n > upto[c])
    BY <1>1, <1>2, <2>1, <2>3 DEF Journey
  <2>5. \A p \in Publishers : c \in pub[p].to => pub[p].n > upto[c] /\ pub[p].n \notin Sent(c)'
    BY <1>1, <1>2, <1>4, <2>3 DEF Journey, Puts
  <2> QED
    BY <1>1, <1>2, <1>4, <2>2, <2>3, <2>4, <2>5 DEF Puts, Journey
<1>5. CASE GivesUp(c)
  <2>1. Sent(c)' = Sent(c) /\ queue'[c] = queue[c] /\ Queued(c)' = Queued(c)
    BY <1>2, <1>5 DEF GivesUp, Sent
  <2>2. \A n \in Sent(c) : n < upto[c] + 1 \/ n > upto[c]
    BY <1>1, <1>2 DEF Journey
  <2> QED
    BY <1>1, <1>2, <1>5, <2>1, <2>2 DEF GivesUp, Journey
<1>6. CASE Takes(c)
  <2>1. /\ Head(queue[c]) \in Queued(c) /\ Distinct(queue'[c])
        /\ Queued(c)' = Queued(c) \ {Head(queue[c])}
    BY <1>1, <1>2, <1>6, Taken DEF Takes, Journey
  <2>2. Sent(c)' \subseteq Sent(c) /\ Queued(c)' \cap seen'[c] = {}
    BY <1>1, <1>6, <2>1 DEF Takes, Sent, Journey
  <2> QED
    BY <1>1, <1>6, <2>1, <2>2 DEF Takes, Journey
<1>7. CASE Waits(c)
  <2>1. Sent(c)' = Sent(c) /\ queue'[c] = queue[c] /\ Queued(c)' = Queued(c)
    BY <1>2, <1>7 DEF Waits, Sent
  <2> QED
    BY <1>1, <1>7, <2>1 DEF Waits, Journey
<1> QED
  BY <1>3, <1>4, <1>5, <1>6, <1>7, Moves DEF Travels

LEMMA JourneyStep == Travels /\ [Next]_vars => \A c \in Streams : Journey(c)'
<1> SUFFICES ASSUME Travels, [Next]_vars, NEW c \in Streams PROVE Journey(c)'
  OBVIOUS
<1>0. Base /\ Journey(c)
  BY DEF Travels
<1>1. CASE \E p \in Publishers, kind \in Kinds : Published(p, kind)
  BY <1>1, JourneyPublished
<1>2. CASE \E p \in Publishers, d \in Streams : Offer(p, d)
  BY <1>2, JourneyOffered
<1>3. CASE \E d \in Streams : Subscribe(d) \/ StreamStep(d)
  <2> PICK d \in Streams : Subscribe(d) \/ StreamStep(d)
    BY <1>3
  <2>1. CASE d = c
    BY <2>1, JourneyMoved
  <2>2. CASE d # c
    <3>1. Queued(c)' = Queued(c) /\ Sent(c)' = Sent(c)
      BY <1>0, <2>2, Alone DEF Queued, Sent
    <3> QED
      BY <1>0, <2>2, <3>1, Alone, Moves DEF Journey, Positions
  <2> QED
    BY <2>1, <2>2
<1>4. CASE UNCHANGED <<events, feedVars, streamVars>>
  BY <1>0, <1>4 DEF Journey, Sent, Queued, Positions, feedVars, streamVars
<1> QED
  BY <1>0, <1>1, <1>2, <1>3, <1>4, Effects

\* The inductive invariant of the feed.
THEOREM FeedInvariant == Spec => []Travels
<1>1. Init => Travels
  BY BaseInit, HandingInit, JourneyInit DEF Travels
<1>2. Travels /\ [Next]_vars => Travels'
  BY BaseStep, HandingStep, JourneyStep DEF Travels
<1> QED
  BY <1>1, <1>2, PTL DEF Spec

\* Every variable keeps its type.
THEOREM TypeCorrect == Spec => []TypeOK
BY FeedInvariant, PTL DEF Travels, Base

\* No event is in two places on its way to a stream, so none is sent twice.
THEOREM NoDuplicates == Spec => []AtMostOnce
<1>1. Travels => AtMostOnce
  <2> SUFFICES ASSUME Travels, NEW c \in Streams
               PROVE  /\ Queued(c) \cap seen[c] = {}
                      /\ Backlog(c) \cap (seen[c] \cup Queued(c)) = {}
                      /\ InFlight(c) \cap (seen[c] \cup Queued(c) \cup Backlog(c)) = {}
                      /\ \A i, j \in DOMAIN queue[c] : queue[c][i] = queue[c][j] => i = j
                      /\ \A p, q \in Publishers :
                           c \in pub[p].to \cap pub[q].to /\ pub[p].n = pub[q].n => p = q
    BY DEF AtMostOnce
  <2>1. Base /\ Handing /\ Journey(c)
    BY DEF Travels
  <2>2. Backlog(c) \cap (seen[c] \cup Queued(c)) = {}
    BY <2>1, Local DEF Journey, Backlog, Sent
  <2>3. InFlight(c) \cap (seen[c] \cup Queued(c) \cup Backlog(c)) = {}
    BY <2>1, Local DEF Journey, InFlight, Backlog, Sent
  <2> QED
    BY <2>1, <2>2, <2>3 DEF Journey, Distinct, Handing
<1> QED
  BY <1>1, FeedInvariant, PTL

\* The final status event is the last of the log and tells the job's status.
THEOREM FinalEvent == Spec => []FinalStatusIsLast
<1>1. Base => FinalStatusIsLast
  BY Types DEF Base, RunnerKnows, FinalStatusIsLast, JobTypes, Positions
<1> QED
  BY <1>1, FeedInvariant, PTL DEF Travels

-----------------------------------------------------------------------------
(* Layer 4: no event slips by a registered stream.                         *)

Covered(c) ==
  Positions \subseteq seen[c] \cup lost[c] \cup Queued(c) \cup Backlog(c) \cup InFlight(c)

\* A stream's step leaves covered what was, and covers what it registers for.
LEMMA CoveredMoved ==
  ASSUME Travels, NEW c \in Streams, Subscribe(c) \/ StreamStep(c),
         c \in listeners => Covered(c), c \in listeners'
  PROVE  Covered(c)'
<1>1. Base /\ Journey(c) /\ events' = events /\ pub' = pub
  BY Moves DEF Travels
<1>2. /\ queue[c] \in Seq(Nat) /\ fill[c] \in Nat /\ upto[c] \in Nat /\ Len(events) \in Nat
      /\ Queued(c) = Elements(queue[c]) /\ Queued(c)' = Elements(queue'[c])
  BY <1>1, Local
<1>3. InFlight(c)' = InFlight(c) /\ Positions' = Positions
  BY <1>1 DEF InFlight, Positions
<1> USE <1>3 DEF Covered, Backlog
<1>4. CASE Registers(c)
  BY <1>1, <1>2, <1>4 DEF Registers, Journey, Positions
<1>5. CASE Puts(c)
  <2>1. Queued(c)' = Queued(c) \cup {fill[c]}
    BY <1>2, <1>5, Put DEF Puts
  <2>2. fill[c] .. upto[c] \subseteq {fill[c]} \cup ((fill[c] + 1) .. upto[c])
    BY <1>2
  <2> QED
    BY <1>5, <2>1, <2>2 DEF Puts
<1>6. CASE GivesUp(c)
  BY <1>2, <1>6 DEF GivesUp
<1>7. CASE Takes(c)
  <2>1. Queued(c)' = Queued(c) \ {Head(queue[c])}
    BY <1>1, <1>2, <1>7, Taken DEF Takes, Journey
  <2> QED
    BY <1>7, <2>1 DEF Takes
<1>8. CASE Waits(c)
  BY <1>2, <1>8 DEF Waits
<1> QED
  BY <1>1, <1>4, <1>5, <1>6, <1>7, <1>8, Moves

\* A put moves an event from a thread's hands to the queue, or drops it.
LEMMA CoveredOffered ==
  ASSUME Travels, NEW c \in Streams, Covered(c),
         NEW p \in Publishers, NEW d \in Streams, Offer(p, d)
  PROVE  Covered(c)'
<1>1. Base /\ StreamTypes
  BY Types DEF Travels, Base
<1>2. Positions' = Positions /\ Backlog(c)' = Backlog(c) /\ seen'[c] = seen[c]
  BY <1>1, OfferedEntry DEF Positions, Backlog
<1>3. CASE d = c
  <2>1. InFlight(c) \subseteq InFlight(c)' \cup {pub[p].n}
    BY <1>1, OfferedEntry DEF InFlight
  <2>2. /\ Queued(c) \cup lost[c] \subseteq Queued(c)' \cup lost'[c]
        /\ pub[p].n \in Queued(c)' \cup lost'[c]
    <3>1. CASE Len(queue[c]) < Capacity
      <4>1. queue'[c] = Append(queue[c], pub[p].n) /\ lost' = lost
        BY <1>1, <1>3, <3>1 DEF Offer, StreamTypes
      <4>2. Queued(c)' = Queued(c) \cup {pub[p].n}
        <5>1. queue[c] \in Seq(Nat) /\ pub[p].n \in Nat /\ Queued(c) = Elements(queue[c])
              /\ Queued(c)' = Elements(queue'[c])
          BY <1>1, Local
        <5>2. Elements(Append(queue[c], pub[p].n)) = Elements(queue[c]) \cup {pub[p].n}
          BY <5>1, Put
        <5> QED
          BY <4>1, <5>1, <5>2
      <4> QED
        BY <4>1, <4>2
    <3>2. CASE ~(Len(queue[c]) < Capacity)
      <4>1. lost'[c] = lost[c] \cup {pub[p].n} /\ queue' = queue
        BY <1>1, <1>3, <3>2 DEF Offer, StreamTypes
      <4> QED
        BY <4>1 DEF Queued
    <3> QED
      BY <3>1, <3>2
  <2> QED
    BY <1>2, <2>1, <2>2 DEF Covered
<1>4. CASE d # c
  <2>1. InFlight(c)' = InFlight(c)
    BY <1>1, <1>4, OfferedEntry DEF InFlight
  <2>2. Queued(c)' = Queued(c) /\ lost'[c] = lost[c]
    BY <1>1, <1>4 DEF Offer, StreamTypes, Queued
  <2> QED
    BY <1>2, <2>1, <2>2 DEF Covered
<1> QED
  BY <1>3, <1>4

LEMMA CoveredStep == Travels /\ NothingSlipsBy /\ [Next]_vars => NothingSlipsBy'
<1> SUFFICES ASSUME Travels, NothingSlipsBy, [Next]_vars, NEW c \in listeners'
             PROVE  Covered(c)'
  BY DEF NothingSlipsBy, Covered
<1>0. Base /\ TypeOK' /\ (c \in listeners => Covered(c)) /\ c \in Streams
  <2>1. TypeOK'
    BY TypesStep DEF Travels
  <2>2. c \in Streams
    BY <2>1 DEF TypeOK
  <2> QED
    BY <2>1, <2>2 DEF NothingSlipsBy, Covered, Travels
<1>1. CASE \E p \in Publishers, kind \in Kinds : Published(p, kind)
  <2> PICK p \in Publishers, kind \in Kinds : Published(p, kind)
    BY <1>1
  <2>1. InFlight(c) \cup {Len(events) + 1} \subseteq InFlight(c)'
    BY <1>0, PublishedEntry DEF InFlight
  <2>2. Positions' = Positions \cup {Len(events) + 1} /\ c \in listeners
        /\ Queued(c)' = Queued(c) /\ Backlog(c)' = Backlog(c)
    BY <1>0, PublishedEntry DEF Positions, Queued, Backlog
  <2> QED
    BY <1>0, <2>1, <2>2, PublishedEntry DEF Covered
<1>2. CASE \E p \in Publishers, d \in Streams : Offer(p, d)
  BY <1>0, <1>2, OfferedEntry, CoveredOffered
<1>3. CASE \E d \in Streams : Subscribe(d) \/ StreamStep(d)
  <2> PICK d \in Streams : Subscribe(d) \/ StreamStep(d)
    BY <1>3
  <2>1. CASE d = c
    BY <1>0, <2>1, CoveredMoved
  <2>2. CASE d # c
    <3>1. /\ Queued(c)' = Queued(c) /\ Backlog(c)' = Backlog(c) /\ InFlight(c)' = InFlight(c)
          /\ Positions' = Positions /\ c \in listeners
      BY <1>0, <2>2, Alone, Moves DEF Queued, Backlog, InFlight, Positions
    <3> QED
      BY <1>0, <2>2, <3>1, Alone DEF Covered
  <2> QED
    BY <2>1, <2>2
<1>4. CASE UNCHANGED <<events, feedVars, streamVars>>
  BY <1>0, <1>4 DEF Covered, Queued, Backlog, InFlight, Positions, feedVars, streamVars
<1> QED
  BY <1>0, <1>1, <1>2, <1>3, <1>4, Effects

\* While a stream is registered every event of the job is written to it,
\* queued, on its way, or known to have been dropped.
THEOREM NothingMissed == Spec => []NothingSlipsBy
<1>1. Init => NothingSlipsBy
  BY DEF Init, NothingSlipsBy
<1> QED
  BY <1>1, CoveredStep, FeedInvariant, PTL DEF Spec

-----------------------------------------------------------------------------
(* JobEvents implements JobFeed.                                           *)

\* A stream that has not left its loop was sent no terminal status.
Unended ==
  \A c \in Streams : stream[c] \in {"idle", "filling", "waiting", "keepalive"} =>
    \A n \in seen[c] : ~IsTerminal(n)

LEMMA UnendedStep == Travels /\ Unended /\ [Next]_vars => Unended'
<1> SUFFICES ASSUME Travels, Unended, [Next]_vars, NEW c \in Streams,
                    stream'[c] \in {"idle", "filling", "waiting", "keepalive"},
                    NEW n \in seen'[c]
             PROVE  events'[n] \notin Terminal
  BY DEF Unended, IsTerminal
<1>0. Base /\ Journey(c)
  BY DEF Travels
<1> USE DEF Unended, IsTerminal
<1>1. CASE \E p \in Publishers, kind \in Kinds : Published(p, kind)
  <2> PICK p \in Publishers, kind \in Kinds : Published(p, kind)
    BY <1>1
  <2>1. n \in seen[c] /\ stream'[c] = stream[c] /\ events' = Append(events, kind)
    BY <1>0, PublishedEntry
  <2>2. n \in 1 .. Len(events) /\ events \in Seq(Kinds)
    BY <1>0, <2>1, Types DEF Journey, Sent, Positions, Base, JobTypes
  <2>3. events'[n] = events[n]
    BY <2>1, <2>2, Appended
  <2> QED
    BY <2>1, <2>3
<1>2. CASE \E p \in Publishers, d \in Streams : Offer(p, d)
  BY <1>0, <1>2, OfferedEntry
<1>3. CASE \E d \in Streams : Subscribe(d) \/ StreamStep(d)
  <2> PICK d \in Streams : Subscribe(d) \/ StreamStep(d)
    BY <1>3
  <2>1. CASE d = c
    <3>1. UNCHANGED events /\ (Registers(c) \/ Puts(c) \/ GivesUp(c) \/ Takes(c) \/ Waits(c))
      BY <1>0, <2>1, Moves
    <3>2. CASE Takes(c)
      BY <3>1, <3>2 DEF Takes
    <3>3. CASE Registers(c)
      BY <3>1, <3>3 DEF Registers
    <3>4. CASE Puts(c) \/ GivesUp(c)
      BY <3>1, <3>4 DEF Puts, GivesUp
    <3>5. CASE Waits(c)
      <4>1. stream[c] \in {"filling", "waiting", "keepalive"}
        BY <1>0, <3>5, Types DEF Waits, Base, StreamTypes
      <4> QED
        BY <3>1, <3>5, <4>1 DEF Waits
    <3> QED
      BY <3>1, <3>2, <3>3, <3>4, <3>5
  <2>2. CASE d # c
    BY <1>0, <2>2, Alone, Moves
  <2> QED
    BY <2>1, <2>2
<1>4. CASE UNCHANGED <<events, feedVars, streamVars>>
  BY <1>4 DEF streamVars
<1> QED
  BY <1>0, <1>1, <1>2, <1>3, <1>4, Effects

\* Nothing is published after the final status.
LEMMA PublishesBeforeEnd ==
  ASSUME Base, [Next]_vars, events' # events
  PROVE  runner \notin {"release", "ended"}
<1> USE DEF RunnerAt, Quiet
<1>1. CASE RunnerStep
  BY <1>1 DEF RunnerStep, Start, Announce, EmitProgress, OpenPool, JoinPool, ScanReturns,
       ScanRaises, SetDone, PublishResult, SerialiseRaises, SetError, PublishError,
       PublishFinal, ReleaseSlot
<1>2. CASE \E w \in Workers : WorkerProgress(w)
  BY <1>2 DEF WorkerProgress
<1>3. (\E p \in Publishers : Hand(p)) \/ (\E c \in Streams : Subscribe(c) \/ StreamStep(c))
        \/ (\E g \in Getters : GetterStep(g)) \/ Over \/ UNCHANGED vars
      => UNCHANGED events
  BY DEF Hand, Offer, Subscribe, StreamStep, FillNext, FillEnds, Deliver, TimeOut, KeepAlive,
       DisconnectOnEvent, DisconnectOnKeepAlive, Unsubscribe, StreamAt, GetterStep,
       NotFound, GetStatus, GetResult, GetterAt, Over, vars, jobVars
<1> QED
  BY <1>1, <1>2, <1>3 DEF Next

\* A step of the job or of a stream is a step of the feed, or none.
LEMMA FeedStepMaps ==
  ASSUME Travels, Unended, [Next]_vars
  PROVE  [Feed!Next]_<<events, seen>>
<1>0. Base /\ JobTypes /\ StreamTypes
  BY Types DEF Travels, Base
<1>1. CASE \E p \in Publishers, kind \in Kinds : Published(p, kind)
  <2> PICK p \in Publishers, kind \in Kinds : Published(p, kind)
    BY <1>1
  <2>1. events' = Append(events, kind) /\ Len(events') = Len(events) + 1 /\ seen' = seen
    BY <1>0, PublishedEntry
  <2>2. events' # events
    BY <1>0, <2>1 DEF JobTypes
  <2>3. \A n \in DOMAIN events : events[n] \notin Terminal
    BY <1>0, <2>2, PublishesBeforeEnd DEF Base, RunnerKnows, Positions, JobTypes
  <2>4. Feed!Publish(kind)
    BY <2>1, <2>3 DEF Feed!Publish, Feed!Ended
  <2> QED
    BY <2>4 DEF Feed!Next
<1>2. CASE \E p \in Publishers, d \in Streams : Offer(p, d)
  BY <1>0, <1>2, OfferedEntry
<1>3. CASE \E d \in Streams : Subscribe(d) \/ StreamStep(d)
  <2> PICK c \in Streams : Subscribe(c) \/ StreamStep(c)
    BY <1>3
  <2>1. CASE Deliver(c)
    <3> DEFINE n == Head(queue[c])
    <3>0. Journey(c) /\ queue[c] \in Seq(Nat) /\ queue[c] # << >>
      BY <1>0, <2>1 DEF Travels, Deliver, StreamTypes
    <3>1. n \in Queued(c)
      BY <1>0, <3>0, Taken, Local DEF Journey
    <3>2. n \in DOMAIN events /\ n \notin seen[c]
      BY <1>0, <3>0, <3>1 DEF Journey, Sent, Positions, JobTypes
    <3>3. \A m \in seen[c] : events[m] \notin Terminal
      BY <2>1 DEF Unended, IsTerminal, Deliver, StreamAt
    <3>4. seen' = [seen EXCEPT ![c] = @ \cup {n}] /\ events' = events
      BY <2>1 DEF Deliver, StreamAt, jobVars
    <3>5. Feed!Receive(c, n)
      BY <3>2, <3>3, <3>4 DEF Feed!Receive, Feed!Ended
    <3> QED
      BY <3>2, <3>5 DEF Feed!Next
  <2>2. CASE ~Deliver(c)
    BY <2>2 DEF Subscribe, StreamStep, FillNext, FillEnds, TimeOut, KeepAlive,
         DisconnectOnEvent, DisconnectOnKeepAlive, Unsubscribe, StreamAt, jobVars
  <2> QED
    BY <2>1, <2>2
<1>4. CASE UNCHANGED <<events, feedVars, streamVars>>
  BY <1>4 DEF streamVars
<1> QED
  BY <1>0, <1>1, <1>2, <1>3, <1>4, Effects

\* The queues, listeners and threads of JobEvents implement the feed.
THEOREM Refinement == Spec => FeedSpec
<1>1. Init => Unended /\ Feed!Init
  BY DEF Init, Unended, Feed!Init
<1>2. Travels /\ Unended /\ [Next]_vars => [Feed!Next]_<<events, seen>>
  BY FeedStepMaps
<1> QED
  BY <1>1, <1>2, UnendedStep, FeedInvariant, PTL DEF Spec, FeedSpec, Feed!Spec

-----------------------------------------------------------------------------
(* An event is lost only on a full queue or a dead socket.                 *)

\* A queue of distinct positions, one of the log's missing, is shorter than
\* the log.
LEMMA QueueFits ==
  ASSUME NEW L \in Nat, NEW x \in 1 .. L, NEW s \in Seq(Nat), Distinct(s),
         Elements(s) \subseteq 1 .. L, x \notin Elements(s)
  PROVE  Len(s) < L
<1>1. IsFiniteSet(1 .. L) /\ Cardinality(1 .. L) = L
  BY FS_Interval
<1>2. IsFiniteSet((1 .. L) \ {x}) /\ Cardinality((1 .. L) \ {x}) = L - 1
  BY <1>1, FS_RemoveElement
<1>3. Len(s) \in Nat /\ Cardinality(1 .. Len(s)) = Len(s)
  <2> DEFINE n == Len(s)
  <2>1. n \in Nat
    OBVIOUS
  <2> HIDE DEF n
  <2>2. Cardinality(1 .. n) = n
    BY <2>1, FS_Interval
  <2> QED
    BY <2>1, <2>2 DEF n
<1>4. s \in Injection(1 .. Len(s), (1 .. L) \ {x})
  <2>1. s \in [1 .. Len(s) -> (1 .. L) \ {x}]
    BY DEF Elements
  <2> QED
    BY <2>1 DEF Injection, IsInjective, Distinct
<1>5. Cardinality(1 .. Len(s)) <= Cardinality((1 .. L) \ {x})
  BY <1>2, <1>4, FS_Injection
<1> QED
  BY <1>2, <1>3, <1>5

\* A stream that lost an event lost its socket, or the log outgrew its queue.
Excused(c) ==
  /\ lost[c] # {} => ended[c] = "gone" \/ Len(events) > Capacity
  /\ ended[c] = "gone" => stream[c] \in {"leaving", "closed"}

LEMMA ExcusedMoved ==
  ASSUME Travels, NEW c \in Streams, Subscribe(c) \/ StreamStep(c), Excused(c)
  PROVE  Excused(c)'
<1>1. Base /\ Journey(c) /\ events' = events /\ Capacity \in Nat
  BY Moves DEF Travels
<1>2. /\ queue[c] \in Seq(Nat) /\ fill[c] \in Nat /\ upto[c] \in Nat /\ Len(events) \in Nat
      /\ Queued(c) = Elements(queue[c]) /\ Len(queue[c]) \in Nat
  BY <1>1, Local
<1> USE DEF Excused
<1>3. CASE GivesUp(c)
  <2>1. CASE fill[c] > upto[c]
    <3>1. lost'[c] = lost[c]
      BY <1>2, <1>3, <2>1 DEF GivesUp
    <3> QED
      BY <1>1, <1>3, <3>1 DEF GivesUp
  <2>2. CASE fill[c] <= upto[c]
    <3>1. fill[c] \in 1 .. Len(events) /\ fill[c] \notin Queued(c)
      <4>1. fill[c] \in 1 .. Len(events) /\ ~(fill[c] < fill[c] \/ fill[c] > upto[c])
        BY <1>1, <1>2, <2>2 DEF Journey
      <4> QED
        BY <1>1, <4>1 DEF Journey, Sent
    <3>2. Elements(queue[c]) \subseteq 1 .. Len(events) /\ Distinct(queue[c])
      BY <1>1, <1>2 DEF Journey, Sent, Positions
    <3>3. Len(queue[c]) < Len(events)
      BY <1>2, <3>1, <3>2, QueueFits
    <3>4. Len(events) > Capacity
      BY <1>1, <1>2, <1>3, <2>2, <3>3 DEF GivesUp
    <3> QED
      BY <1>1, <1>3, <3>4 DEF GivesUp
  <2> QED
    BY <1>2, <2>1, <2>2
<1>4. CASE Takes(c)
  BY <1>1, <1>4 DEF Takes
<1>5. CASE Registers(c)
  BY <1>1, <1>5 DEF Registers
<1>6. CASE Puts(c)
  BY <1>1, <1>6 DEF Puts
<1>7. CASE Waits(c)
  BY <1>1, <1>7 DEF Waits
<1> QED
  BY <1>1, <1>3, <1>4, <1>5, <1>6, <1>7, Moves

LEMMA ExcusedOffered ==
  ASSUME Travels, NEW c \in Streams, NEW p \in Publishers, Offer(p, c), Excused(c)
  PROVE  Excused(c)'
<1>1. Base /\ Handing /\ Journey(c) /\ StreamTypes /\ Capacity \in Nat
  BY Types DEF Travels, Base
<1>2. /\ queue[c] \in Seq(Nat) /\ Len(events) \in Nat /\ upto[c] \in Nat /\ pub[p].n \in Nat
      /\ Queued(c) = Elements(queue[c]) /\ Len(queue[c]) \in Nat
  BY <1>1, Local
<1>3. UNCHANGED <<events, stream, ended>> /\ c \in pub[p].to
  BY <1>1, OfferedEntry
<1>4. CASE Len(queue[c]) < Capacity
  <2>1. lost' = lost
    BY <1>4 DEF Offer
  <2> QED
    BY <1>3, <2>1 DEF Excused
<1>5. CASE ~(Len(queue[c]) < Capacity)
  <2>1. pub[p].n \in 1 .. Len(events) /\ pub[p].n \notin Queued(c)
    <3>1. pub[p].n > upto[c] /\ pub[p].n \notin Sent(c) /\ pub[p].n <= Len(events)
      BY <1>1, <1>3 DEF Journey, Handing
    <3> QED
      BY <1>2, <3>1 DEF Sent
  <2>2. Elements(queue[c]) \subseteq 1 .. Len(events) /\ Distinct(queue[c])
    BY <1>1, <1>2 DEF Journey, Sent, Positions
  <2>3. Len(queue[c]) < Len(events)
    BY <1>2, <2>1, <2>2, QueueFits
  <2>4. Len(events) > Capacity
    BY <1>1, <1>2, <1>5, <2>3
  <2> QED
    BY <1>3, <2>4 DEF Excused
<1> QED
  BY <1>4, <1>5

LEMMA ExcusedStep ==
  ASSUME Travels, \A c \in Streams : Excused(c), [Next]_vars
  PROVE  \A c \in Streams : Excused(c)'
<1> SUFFICES ASSUME NEW c \in Streams PROVE Excused(c)'
  OBVIOUS
<1>0. Base /\ StreamTypes /\ Excused(c)
  BY Types DEF Travels, Base
<1>1. CASE \E p \in Publishers, kind \in Kinds : Published(p, kind)
  BY <1>0, <1>1, PublishedEntry DEF Excused
<1>2. CASE \E p \in Publishers, d \in Streams : Offer(p, d)
  <2> PICK p \in Publishers, d \in Streams : Offer(p, d)
    BY <1>2
  <2>1. CASE d = c
    BY <1>0, <2>1, ExcusedOffered
  <2>2. CASE d # c
    <3>1. lost'[c] = lost[c]
      BY <1>0, <2>2 DEF Offer, StreamTypes
    <3> QED
      BY <1>0, <3>1, OfferedEntry DEF Excused
  <2> QED
    BY <2>1, <2>2
<1>3. CASE \E d \in Streams : Subscribe(d) \/ StreamStep(d)
  <2> PICK d \in Streams : Subscribe(d) \/ StreamStep(d)
    BY <1>3
  <2>1. CASE d = c
    BY <1>0, <2>1, ExcusedMoved
  <2>2. CASE d # c
    BY <1>0, <2>2, Alone, Moves DEF Excused
  <2> QED
    BY <2>1, <2>2
<1>4. CASE UNCHANGED <<events, feedVars, streamVars>>
  BY <1>0, <1>4 DEF Excused, streamVars
<1> QED
  BY <1>0, <1>1, <1>2, <1>3, <1>4, Effects

\* An event is dropped only on a queue the log outgrew, or on a dead socket.
THEOREM LossIsOverflow == Spec => []LossNeedsOverflow
<1> DEFINE Inv == \A c \in Streams : Excused(c)
<1>1. Init => Inv
  BY DEF Init, Excused
<1>2. Travels /\ Inv /\ [Next]_vars => Inv'
  BY ExcusedStep
<1>3. Inv => LossNeedsOverflow
  BY DEF Excused, LossNeedsOverflow
<1> HIDE DEF Inv
<1> QED
  BY <1>1, <1>2, <1>3, FeedInvariant, PTL DEF Spec

-----------------------------------------------------------------------------
(* Requests for the report.                                                *)

\* The result is set before the report is published, which leaves the job done.
ResultKnows ==
  /\ runner \in {"returned", "serialise"} => result
  /\ \A n \in Positions : events[n] = "result" =>
       result /\ status = "done" /\ runner \in {"finally", "release", "ended"}
  /\ status = "error" => runner \in {"failed", "finally", "release", "ended"}
  /\ \A g \in Getters : /\ answer[g] = "200" => result
                        /\ answer[g] = "500" => status = "error"

\* No step forgets a result.
LEMMA ResultKept == Base /\ [Next]_vars /\ result => result'
<1> SUFFICES ASSUME Base, [Next]_vars, result PROVE result'
  OBVIOUS
<1>1. CASE RunnerStep
  BY <1>1 DEF RunnerStep, Start, Announce, EmitProgress, OpenPool, JoinPool, ScanReturns,
       ScanRaises, SetDone, PublishResult, SerialiseRaises, SetError, PublishError,
       PublishFinal, ReleaseSlot
<1>2. CASE \E w \in Workers : WorkerProgress(w)
  BY <1>2 DEF WorkerProgress
<1>3. (\E p \in Publishers : Hand(p)) \/ (\E c \in Streams : Subscribe(c) \/ StreamStep(c))
        \/ (\E g \in Getters : GetterStep(g)) \/ Over \/ UNCHANGED vars
      => UNCHANGED result
  BY DEF Hand, Offer, Subscribe, StreamStep, FillNext, FillEnds, Deliver, TimeOut, KeepAlive,
       DisconnectOnEvent, DisconnectOnKeepAlive, Unsubscribe, StreamAt, GetterStep,
       NotFound, GetStatus, GetResult, GetterAt, Over, vars, jobVars
<1> QED
  BY <1>1, <1>2, <1>3 DEF Next

\* What a step may do to a request.
LEMMA Answered ==
  ASSUME Base, [Next]_vars, NEW g \in Getters
  PROVE  \/ answer'[g] = answer[g] /\ getter'[g] = getter[g]
         \/ getter[g] = "idle" /\ answer'[g] \in {answer[g], "404"}
         \/ getter[g] = "idle" /\ answer'[g] = "500" /\ status = "error"
         \/ getter[g] = "checked" /\ answer'[g] \in IF result THEN {"200", "dropped"} ELSE {"202"}
<1>0. /\ answer \in [Getters -> {"none", "200", "202", "404", "500", "dropped"}]
      /\ getter \in [Getters -> {"idle", "checked"}]
  BY Types DEF Base, GetterTypes
<1>1. CASE \E h \in Getters : GetterStep(h)
  <2> PICK h \in Getters : GetterStep(h)
    BY <1>1
  <2>1. \A code \in {"200", "202", "404", "500", "dropped"} : Answers(h, code) =>
          IF g = h THEN answer'[g] = code ELSE answer'[g] = answer[g] /\ getter'[g] = getter[g]
    BY <1>0 DEF Answers
  <2>2. CASE NotFound(h)
    BY <2>1, <2>2 DEF NotFound, GetterAt
  <2>3. CASE GetStatus(h)
    BY <1>0, <2>1, <2>3 DEF GetStatus, GetterAt
  <2>4. CASE GetResult(h)
    BY <2>1, <2>4 DEF GetResult, GetterAt
  <2> QED
    BY <2>2, <2>3, <2>4 DEF GetterStep
<1>2. CASE ~\E h \in Getters : GetterStep(h)
  <2>1. RunnerStep => UNCHANGED <<answer, getter>>
    BY DEF RunnerStep, RunnerAt, getVars, Start, Announce, EmitProgress, OpenPool, JoinPool,
         ScanReturns, ScanRaises, SetDone, PublishResult, SerialiseRaises, SetError,
         PublishError, PublishFinal, ReleaseSlot
  <2>2. (\E w \in Workers : WorkerProgress(w)) \/ (\E p \in Publishers : Hand(p))
          \/ (\E c \in Streams : Subscribe(c) \/ StreamStep(c)) \/ Over \/ UNCHANGED vars
        => UNCHANGED <<answer, getter>>
    BY DEF WorkerProgress, Hand, Offer, Subscribe, StreamStep, FillNext, FillEnds, Deliver,
         TimeOut, KeepAlive, DisconnectOnEvent, DisconnectOnKeepAlive, Unsubscribe,
         StreamAt, Over, vars, getVars
  <2> QED
    BY <1>2, <2>1, <2>2 DEF Next
<1> QED
  BY <1>1, <1>2

LEMMA ResultKnowsStep == Base /\ ResultKnows /\ [Next]_vars => ResultKnows'
<1> SUFFICES ASSUME Base, ResultKnows, [Next]_vars PROVE ResultKnows'
  OBVIOUS
<1>0. JobTypes
  BY Types DEF Base
<1>1. ASSUME NEW g \in Getters
      PROVE  /\ answer'[g] = "200" => result'
             /\ answer'[g] = "500" => status = "error"
  BY ResultKept, Answered DEF ResultKnows
<1>3. status = "error" => status' = "error"
  <2> USE DEF ResultKnows
  <2>1. CASE RunnerStep
    BY <2>1 DEF RunnerStep, RunnerAt, Start, Announce, EmitProgress, OpenPool, JoinPool,
         ScanReturns, ScanRaises, SetDone, PublishResult, SerialiseRaises, SetError,
         PublishError, PublishFinal, ReleaseSlot
  <2>2. (\E w \in Workers : WorkerProgress(w)) \/ (\E p \in Publishers : Hand(p))
          \/ (\E c \in Streams : Subscribe(c) \/ StreamStep(c))
          \/ (\E g \in Getters : GetterStep(g)) \/ Over \/ UNCHANGED vars
        => UNCHANGED status
    BY DEF WorkerProgress, Hand, Offer, Subscribe, StreamStep, FillNext, FillEnds, Deliver,
         TimeOut, KeepAlive, DisconnectOnEvent, DisconnectOnKeepAlive, Unsubscribe,
         StreamAt, GetterStep, NotFound, GetStatus, GetResult, GetterAt, Over, vars, jobVars
  <2> QED
    BY <2>1, <2>2 DEF Next
<1>2. /\ runner' \in {"returned", "serialise"} => result'
      /\ status' = "error" => runner' \in {"failed", "finally", "release", "ended"}
      /\ \A n \in Positions' : events'[n] = "result" =>
           result' /\ status' = "done" /\ runner' \in {"finally", "release", "ended"}
  <2> USE <1>0 DEF ResultKnows, Positions, JobTypes
  <2>1. CASE RunnerStep
    <3> USE DEF RunnerAt, Quiet, Publish
    <3>1. CASE Announce \/ EmitProgress \/ PublishError
      <4>1. PICK kind \in {"running", "progress", "failure"} : events' = Append(events, kind)
        BY <3>1 DEF Announce, EmitProgress, PublishError
      <4>2. runner \notin {"finally", "release", "ended"} /\ runner' \notin {"returned", "serialise"}
        BY <3>1 DEF Announce, EmitProgress, PublishError
      <4>3. status' = "error" => runner' = "finally"
        BY <3>1 DEF Announce, EmitProgress, PublishError
      <4> QED
        BY <4>1, <4>2, <4>3, Appended
    <3>2. CASE PublishResult
      <4>1. events' = Append(events, "result") /\ runner = "serialise" /\ runner' = "finally"
            /\ status' = status /\ result' = result
        BY <3>2 DEF PublishResult
      <4>2. result /\ status = "done"
        BY <4>1 DEF Base, RunnerKnows
      <4> QED
        BY <4>1, <4>2
    <3>3. CASE PublishFinal
      <4>1. events' = Append(events, status) /\ runner = "finally" /\ runner' = "release"
            /\ status' = status /\ result' = result /\ status # "result"
        BY <3>3 DEF PublishFinal, Statuses
      <4> QED
        BY <4>1, Appended
    <3>4. CASE Start \/ OpenPool \/ JoinPool \/ ScanReturns \/ ScanRaises \/ SetDone
               \/ SerialiseRaises \/ SetError \/ ReleaseSlot
      BY <3>4 DEF Start, OpenPool, JoinPool, ScanReturns, ScanRaises, SetDone,
           SerialiseRaises, SetError, ReleaseSlot
    <3> QED
      BY <2>1, <3>1, <3>2, <3>3, <3>4 DEF RunnerStep
  <2>2. CASE \E w \in Workers : WorkerProgress(w)
    <3>1. events' = Append(events, "progress") /\ UNCHANGED <<status, result, runner>>
      BY <2>2 DEF WorkerProgress, Publish
    <3> QED
      BY <3>1, Appended
  <2>3. CASE UNCHANGED jobVars
    BY <2>3 DEF jobVars
  <2>4. (\E p \in Publishers : Hand(p)) \/ (\E c \in Streams : Subscribe(c) \/ StreamStep(c))
          \/ (\E g \in Getters : GetterStep(g)) \/ Over \/ UNCHANGED vars
        => UNCHANGED jobVars
    BY DEF Hand, Offer, Subscribe, StreamStep, FillNext, FillEnds, Deliver, TimeOut, KeepAlive,
         DisconnectOnEvent, DisconnectOnKeepAlive, Unsubscribe, StreamAt, GetterStep,
         NotFound, GetStatus, GetResult, GetterAt, Over, vars
  <2> QED
    BY <2>1, <2>2, <2>3, <2>4 DEF Next
<1> QED
  BY <1>1, <1>2, <1>3 DEF ResultKnows

LEMMA ResultKnown == Spec => []ResultKnows
<1>1. Init => ResultKnows
  BY DEF Init, ResultKnows, Positions
<1>2. Travels => Base
  BY DEF Travels
<1> QED
  BY <1>1, <1>2, ResultKnowsStep, FeedInvariant, PTL DEF Spec

\* A report that was served is never "not yet ready" afterwards.
THEOREM ReportStays == Spec => ServedStaysServed
<1>1. Base /\ ResultKnows /\ [Next]_vars
        => [\A g \in Getters : answer[g] = "200" => answer'[g] # "202"]_vars
  <2> SUFFICES ASSUME Base, ResultKnows, [Next]_vars,
                      NEW g \in Getters, answer[g] = "200"
               PROVE  answer'[g] # "202"
    OBVIOUS
  <2>1. result
    BY DEF ResultKnows
  <2> QED
    BY <2>1, Answered
<1>2. Travels => Base
  BY DEF Travels
<1> QED
  BY <1>1, <1>2, ResultKnown, FeedInvariant, PTL DEF Spec, ServedStaysServed

\* Once a dashboard was sent the report, /api/scan/result answers no request
\* "failed" or "not yet": that the report was sent tells that the job is done.
THEOREM DownloadsWork == Spec => DownloadsWorkOnceShown
<1>1. Travels /\ ResultKnows /\ [Next]_vars
        => [(\E c \in Streams : \E n \in seen[c] : events[n] = "result") =>
              \A g \in Getters :
                /\ answer'[g] # "500"
                /\ getter[g] = "checked" /\ getter'[g] = "idle" => answer'[g] # "202"]_vars
  <2> SUFFICES ASSUME Travels, ResultKnows, [Next]_vars,
                      NEW c \in Streams, NEW n \in seen[c], events[n] = "result",
                      NEW g \in Getters
               PROVE  /\ answer'[g] # "500"
                      /\ getter[g] = "checked" /\ getter'[g] = "idle" => answer'[g] # "202"
    OBVIOUS
  <2>1. n \in Positions /\ Base
    BY DEF Travels, Journey, Sent
  <2>2. result /\ status = "done" /\ answer[g] # "500"
    BY <2>1 DEF ResultKnows
  <2> QED
    BY <2>1, <2>2, Answered
<1> QED
  BY <1>1, ResultKnown, FeedInvariant, PTL DEF Spec, DownloadsWorkOnceShown

-----------------------------------------------------------------------------
(* A stream that ends on the final event was sent what came before it.     *)

Late == runner \in {"release", "ended"}

\* After x, a queue holds only what the backlog put there.
LastLive(s, x, b) == \A i, j \in DOMAIN s : i < j /\ s[i] = x => s[j] <= b

LEMMA LastLivePut ==
  ASSUME NEW s \in Seq(Nat), NEW e \in Nat, NEW x \in Nat, NEW b \in Nat,
         LastLive(s, x, b), e <= b \/ x \notin Elements(s)
  PROVE  LastLive(Append(s, e), x, b)
<1> SUFFICES ASSUME NEW i \in 1 .. Len(s) + 1, NEW j \in 1 .. Len(s) + 1, i < j,
                    Append(s, e)[i] = x
             PROVE  Append(s, e)[j] <= b
  BY DEF LastLive
<1>1. Len(s) \in Nat /\ DOMAIN s = 1 .. Len(s) /\ i \in 1 .. Len(s)
  OBVIOUS
<1>2. s[i] = x
  BY <1>1
<1>3. CASE j \in 1 .. Len(s)
  <2>1. Append(s, e)[j] = s[j]
    BY <1>3
  <2> QED
    BY <1>1, <1>2, <1>3, <2>1 DEF LastLive
<1>4. CASE j = Len(s) + 1
  <2>1. Append(s, e)[j] = e /\ e <= b
    BY <1>1, <1>2, <1>4 DEF Elements
  <2> QED
    BY <2>1
<1> QED
  BY <1>1, <1>3, <1>4

LEMMA LastLiveTaken ==
  ASSUME NEW s \in Seq(Nat), s # << >>, NEW x \in Nat, NEW b \in Nat, LastLive(s, x, b)
  PROVE  LastLive(Tail(s), x, b)
<1>1. Len(s) \in Nat /\ DOMAIN s = 1 .. Len(s)
  OBVIOUS
<1>2. DOMAIN Tail(s) = 1 .. Len(s) - 1
  OBVIOUS
<1>3. \A k \in 1 .. Len(s) - 1 : Tail(s)[k] = s[k + 1]
  BY <1>1
<1>4. ASSUME NEW i \in 1 .. Len(s) - 1, NEW j \in 1 .. Len(s) - 1, i < j, s[i + 1] = x
      PROVE  s[j + 1] <= b
  <2> DEFINE p == i + 1
             q == j + 1
  <2>1. p \in DOMAIN s /\ q \in DOMAIN s /\ p < q
    BY <1>1, <1>4
  <2>2. s[p] = x
    BY <1>4
  <2> HIDE DEF p, q
  <2>3. s[q] <= b
    BY <2>1, <2>2 DEF LastLive
  <2> QED
    BY <2>3 DEF q
<1> QED
  BY <1>2, <1>3, <1>4 DEF LastLive

\* If the head is x, the rest of the queue came from the backlog.
LEMMA LastLiveHead ==
  ASSUME NEW s \in Seq(Nat), s # << >>, NEW b \in Nat, LastLive(s, Head(s), b)
  PROVE  \A e \in Elements(s) : e # Head(s) => e <= b
<1> SUFFICES ASSUME NEW j \in DOMAIN s, s[j] # Head(s) PROVE s[j] <= b
  BY DEF Elements
<1>1. 1 \in DOMAIN s /\ s[1] = Head(s) /\ 1 < j
  OBVIOUS
<1> QED
  BY <1>1 DEF LastLive

\* The final event, and what a stream has of the live events before it.
LastInHand == Late => pub[Runner].n = Len(events)
Before(c)  == (upto[c] + 1) .. (Len(events) - 1)
Settled(c) ==
  /\ Late /\ upto[c] < Len(events) =>
       /\ Len(events) \in Queued(c) \cup InFlight(c) =>
            Before(c) \subseteq seen[c] \cup lost[c] \cup Queued(c)
       /\ LastLive(queue[c], Len(events), upto[c])
  /\ ended[c] = "terminal" =>
       Late /\ (upto[c] + 1) .. Len(events) \subseteq seen[c] \cup lost[c]

\* Once the final event is published the runner and the log are settled.
LEMMA LateStays ==
  ASSUME Base, [Next]_vars, Late
  PROVE  Late' /\ events' = events /\ pub'[Runner].n = pub[Runner].n
<1>0. events' = events
  BY PublishesBeforeEnd DEF Late
<1>1. FeedTypes /\ JobTypes /\ Runner \in Publishers
  BY Types DEF Base, Publishers
<1>2. CASE RunnerStep
  BY <1>0, <1>2 DEF RunnerStep, RunnerAt, Quiet, feedVars, Late, Start, Announce,
       EmitProgress, OpenPool, JoinPool, ScanReturns, ScanRaises, SetDone, PublishResult,
       SerialiseRaises, SetError, PublishError, PublishFinal, ReleaseSlot
<1>3. CASE \E w \in Workers : WorkerProgress(w)
  BY <1>3 DEF WorkerProgress, Late
<1>4. CASE \E p \in Publishers : Hand(p)
  BY <1>1, <1>4 DEF Hand, Offer, jobVars, Late, FeedTypes
<1>5. CASE UNCHANGED <<runner, pub>>
  BY <1>0, <1>5 DEF Late
<1>6. (\E c \in Streams : Subscribe(c) \/ StreamStep(c))
        \/ (\E g \in Getters : GetterStep(g)) \/ Over \/ UNCHANGED vars
      => UNCHANGED <<runner, pub>>
  BY DEF Subscribe, StreamStep, FillNext, FillEnds, Deliver, TimeOut, KeepAlive,
       DisconnectOnEvent, DisconnectOnKeepAlive, Unsubscribe, StreamAt, GetterStep,
       NotFound, GetStatus, GetResult, GetterAt, Over, vars, jobVars, feedVars
<1> QED
  BY <1>2, <1>3, <1>4, <1>5, <1>6 DEF Next

\* It becomes so when PublishFinal publishes the status, and in no other way.
LEMMA LateBegins ==
  ASSUME Base, [Next]_vars, ~Late, Late'
  PROVE  Published(Runner, status) /\ status \in Kinds
         /\ runner = "finally" /\ HandedOut(Runner)
<1>1. CASE RunnerStep
  BY <1>1 DEF RunnerStep, RunnerAt, Quiet, Late, Base, RunnerKnows, Kinds, Published,
       Start, Announce, EmitProgress, OpenPool, JoinPool, ScanReturns, ScanRaises, SetDone,
       PublishResult, SerialiseRaises, SetError, PublishError, PublishFinal, ReleaseSlot
<1>2. (\E w \in Workers : WorkerProgress(w)) \/ (\E p \in Publishers : Hand(p))
        \/ (\E c \in Streams : Subscribe(c) \/ StreamStep(c))
        \/ (\E g \in Getters : GetterStep(g)) \/ Over \/ UNCHANGED vars
      => UNCHANGED runner
  BY DEF WorkerProgress, Hand, Offer, Subscribe, StreamStep, FillNext, FillEnds, Deliver,
       TimeOut, KeepAlive, DisconnectOnEvent, DisconnectOnKeepAlive, Unsubscribe, StreamAt,
       GetterStep, NotFound, GetStatus, GetResult, GetterAt, Over, vars, jobVars
<1> QED
  BY <1>1, <1>2 DEF Next, Late

LEMMA LastInHandStep == Base /\ LastInHand /\ [Next]_vars => LastInHand'
<1> SUFFICES ASSUME Base, LastInHand, [Next]_vars, Late'
             PROVE  pub'[Runner].n = Len(events')
  BY DEF LastInHand
<1>1. CASE Late
  BY <1>1, LateStays DEF LastInHand
<1>2. CASE ~Late
  BY <1>2, LateBegins, PublishedEntry DEF Publishers
<1> QED
  BY <1>1, <1>2

\* When the final event is published every earlier one has left its thread.
LEMMA SettledBegins ==
  ASSUME Travels, NothingSlipsBy, [Next]_vars, ~Late, Late', NEW c \in Streams, Settled(c)
  PROVE  Settled(c)'
<1>1. Base /\ Handing /\ Journey(c)
  BY DEF Travels
<1>2. Published(Runner, status) /\ runner = "finally" /\ Runner \in Publishers
  BY <1>1, LateBegins DEF Publishers
<1>3. /\ \A q \in Publishers : pub[q].to = {}
      /\ Len(events') = Len(events) + 1 /\ c \notin InFlight(c)
      /\ queue'[c] = queue[c] /\ upto'[c] = upto[c] /\ seen'[c] = seen[c]
      /\ lost'[c] = lost[c] /\ ended'[c] = ended[c] /\ Queued(c)' = Queued(c)
      /\ pub'[Runner].to = listeners /\ \A q \in Publishers \ {Runner} : pub'[q] = pub[q]
  <2>1. \A q \in Publishers : pub[q].to = {}
    BY <1>1, <1>2, PublishedEntry DEF Handing, HandedOut, Publishers
  <2>2. InFlight(c) = {}
    BY <2>1 DEF InFlight
  <2> QED
    BY <1>1, <1>2, <2>1, <2>2, PublishedEntry DEF Queued
<1>4. Elements(queue[c]) \subseteq 1 .. Len(events) /\ Queued(c) = Elements(queue[c])
      /\ Len(events) \in Nat /\ upto[c] \in Nat /\ fill[c] \in Nat
  BY <1>1, Local DEF Journey, Sent, Positions
<1>5. ended[c] # "terminal"
  BY DEF Settled
<1>6. LastLive(queue[c], Len(events) + 1, upto[c])
  <2>1. \A i \in DOMAIN queue[c] : queue[c][i] \in 1 .. Len(events)
    BY <1>4 DEF Elements
  <2>2. \A n \in 1 .. Len(events) : n # Len(events) + 1
    BY <1>4
  <2> QED
    BY <2>1, <2>2 DEF LastLive
<1>7. ASSUME Len(events) + 1 \in Queued(c)' \cup InFlight(c)'
      PROVE  (upto[c] + 1) .. Len(events) \subseteq seen[c] \cup lost[c] \cup Queued(c)
  <2>1. c \in listeners
    <3>1. Len(events) + 1 \notin Queued(c)'
      BY <1>3, <1>4
    <3>2. PICK q \in Publishers : c \in pub'[q].to
      BY <1>7, <3>1 DEF InFlight
    <3> QED
      BY <1>3, <3>2
  <2>2. Positions \subseteq seen[c] \cup lost[c] \cup Queued(c) \cup Backlog(c) \cup InFlight(c)
    BY <2>1 DEF NothingSlipsBy
  <2>3. InFlight(c) = {}
    BY <1>3 DEF InFlight
  <2>4. \A n \in (upto[c] + 1) .. Len(events) : n \in Positions /\ n \notin Backlog(c)
    BY <1>4 DEF Positions, Backlog
  <2> QED
    BY <2>2, <2>3, <2>4
<1>8. Before(c)' = (upto[c] + 1) .. Len(events)
  BY <1>3, <1>4 DEF Before
<1> QED
  BY <1>3, <1>5, <1>6, <1>7, <1>8 DEF Settled

\* A put: only the final event is still in a thread's hands.
LEMMA SettledOffered ==
  ASSUME Travels, LastInHand, [Next]_vars, Late, NEW c \in Streams, Settled(c),
         NEW p \in Publishers, Offer(p, c)
  PROVE  Settled(c)'
<1>1. Base /\ Handing /\ Journey(c) /\ StreamTypes
  BY Types DEF Travels, Base
<1>2. /\ UNCHANGED <<events, upto, seen, ended>> /\ c \in pub[p].to /\ Late'
      /\ pub'[p].n = pub[p].n /\ \A q \in Publishers \ {p} : pub'[q] = pub[q]
  BY <1>1, OfferedEntry, LateStays
<1>3. p = Runner /\ pub[p].n = Len(events)
  BY <1>1, <1>2 DEF Handing, HandedOut, Late, LastInHand, Publishers
<1>4. /\ Len(events) \in Nat /\ upto[c] \in Nat /\ queue[c] \in Seq(Nat)
      /\ Queued(c) = Elements(queue[c]) /\ Queued(c)' = Elements(queue'[c])
  BY <1>1, Local
<1>5. Len(events) \notin Queued(c) /\ Len(events) \in InFlight(c)
  BY <1>1, <1>2, <1>3 DEF Journey, Sent, InFlight
<1>6. /\ LastLive(queue[c], Len(events), upto[c]) => LastLive(queue'[c], Len(events), upto[c])
      /\ Queued(c) \subseteq Queued(c)' /\ lost[c] \subseteq lost'[c]
  <2>1. CASE Len(queue[c]) < Capacity
    <3>1. queue'[c] = Append(queue[c], Len(events)) /\ lost' = lost
      BY <1>1, <1>3, <2>1 DEF Offer, StreamTypes
    <3>2. Elements(Append(queue[c], Len(events))) = Elements(queue[c]) \cup {Len(events)}
      BY <1>4, Put
    <3> QED
      BY <1>4, <1>5, <3>1, <3>2, LastLivePut
  <2>2. CASE ~(Len(queue[c]) < Capacity)
    <3>1. queue' = queue /\ lost'[c] = lost[c] \cup {pub[p].n}
      BY <1>1, <2>2 DEF Offer, StreamTypes
    <3> QED
      BY <1>4, <3>1
  <2> QED
    BY <2>1, <2>2
<1>7. Before(c)' = Before(c)
  BY <1>2 DEF Before
<1> QED
  BY <1>2, <1>5, <1>6, <1>7 DEF Settled

LEMMA SettledMoved ==
  ASSUME Travels, [Next]_vars, Late, NEW c \in Streams, Settled(c),
         Subscribe(c) \/ StreamStep(c)
  PROVE  Settled(c)'
<1>1. Base /\ Journey(c) /\ events' = events /\ pub' = pub /\ Late'
  BY Moves, LateStays DEF Travels
<1>2. /\ queue[c] \in Seq(Nat) /\ fill[c] \in Nat /\ upto[c] \in Nat /\ Len(events) \in Nat
      /\ Queued(c) = Elements(queue[c]) /\ Queued(c)' = Elements(queue'[c])
      /\ InFlight(c)' = InFlight(c) /\ Distinct(queue[c])
  BY <1>1, Local DEF InFlight, Journey
<1>3. upto'[c] = upto[c] => Before(c)' = Before(c)
  BY <1>1 DEF Before
<1>4. CASE Registers(c)
  <2>1. upto'[c] = Len(events) /\ (upto'[c] + 1) .. Len(events) = {}
    BY <1>2, <1>4 DEF Registers
  <2> QED
    BY <1>1, <1>2, <2>1 DEF Settled
<1>5. CASE Puts(c)
  <2>1. Queued(c)' = Queued(c) \cup {fill[c]} /\ fill[c] <= upto[c]
    BY <1>2, <1>5, Put DEF Puts
  <2>2. LastLive(queue[c], Len(events), upto[c]) => LastLive(queue'[c], Len(events), upto[c])
    BY <1>2, <1>5, <2>1, LastLivePut DEF Puts
  <2>3. upto[c] < Len(events) => fill[c] # Len(events)
    BY <1>2, <2>1
  <2> QED
    BY <1>1, <1>2, <1>3, <1>5, <2>1, <2>2, <2>3 DEF Puts, Settled
<1>6. CASE GivesUp(c)
  BY <1>1, <1>2, <1>3, <1>6 DEF GivesUp, Settled
<1>7. CASE Takes(c)
  <2> DEFINE n == Head(queue[c])
  <2>1. /\ n \in Queued(c) /\ Queued(c)' = Queued(c) \ {n} /\ n \in Nat
        /\ Queued(c) \cup seen[c] \cup lost[c] = Queued(c)' \cup seen'[c] \cup lost'[c]
        /\ seen[c] \cup lost[c] \subseteq seen'[c] \cup lost'[c] /\ n \in seen'[c] \cup lost'[c]
        /\ upto'[c] = upto[c]
    BY <1>2, <1>7, Taken DEF Takes
  <2>2. LastLive(queue[c], Len(events), upto[c]) => LastLive(queue'[c], Len(events), upto[c])
    BY <1>2, <1>7, LastLiveTaken DEF Takes
  <2>3. CASE ended'[c] = ended[c] \/ ended'[c] = "gone"
    BY <1>1, <1>2, <1>3, <2>1, <2>2, <2>3 DEF Settled
  <2>4. CASE ended'[c] = "terminal" /\ IsTerminal(n)
    <3>1. n = Len(events)
      <4>1. n \in Positions /\ JobTypes
        BY <1>1, <2>1, Types DEF Journey, Sent, Base
      <4> QED
        BY <1>1, <1>2, <2>4, <4>1 DEF IsTerminal, Base, RunnerKnows, Late, Positions
    <3>2. (upto[c] + 1) .. Len(events) \subseteq seen'[c] \cup lost'[c]
      <4>1. CASE upto[c] < Len(events)
        <5>1. \A e \in Queued(c) : e # n => e <= upto[c]
          BY <1>2, <1>7, <3>1, <4>1, LastLiveHead DEF Settled, Takes
        <5>2. Before(c) \subseteq seen[c] \cup lost[c] \cup Queued(c)
          BY <2>1, <3>1, <4>1 DEF Settled
        <5>3. ASSUME NEW e \in (upto[c] + 1) .. Len(events)
              PROVE  e \in seen'[c] \cup lost'[c]
          <6>1. e = n \/ (e \in Before(c) /\ ~(e <= upto[c]) /\ e # n)
            BY <1>2, <3>1 DEF Before
          <6> QED
            BY <2>1, <5>1, <5>2, <6>1
        <5> QED
          BY <5>3
      <4>2. CASE ~(upto[c] < Len(events))
        BY <1>2, <4>2
      <4> QED
        BY <4>1, <4>2
    <3> QED
      BY <1>1, <1>2, <1>3, <2>1, <2>2, <3>2 DEF Settled
  <2> QED
    BY <1>7, <2>3, <2>4 DEF Takes
<1>8. CASE Waits(c)
  BY <1>1, <1>2, <1>3, <1>8 DEF Waits, Settled
<1> QED
  BY <1>1, <1>4, <1>5, <1>6, <1>7, <1>8, Moves

\* Before the final event no stream ends on it.
LEMMA NotYetSettled ==
  ASSUME Travels, [Next]_vars, ~Late, ~Late', NEW c \in Streams, Settled(c)
  PROVE  Settled(c)'
<1>0. Base /\ Journey(c) /\ ended[c] # "terminal"
  BY DEF Travels, Settled
<1> SUFFICES ended'[c] # "terminal"
  BY DEF Settled
<1>1. CASE \E p \in Publishers, kind \in Kinds : Published(p, kind)
  BY <1>0, <1>1, PublishedEntry
<1>2. CASE \E p \in Publishers, d \in Streams : Offer(p, d)
  BY <1>0, <1>2, OfferedEntry
<1>3. CASE \E d \in Streams : Subscribe(d) \/ StreamStep(d)
  <2> PICK d \in Streams : Subscribe(d) \/ StreamStep(d)
    BY <1>3
  <2>1. CASE d # c
    BY <1>0, <2>1, Alone
  <2>2. CASE d = c /\ Takes(c)
    <3>1. Head(queue[c]) \in Queued(c)
      BY <1>0, <2>2, Local, Taken DEF Takes, Journey
    <3>2. Head(queue[c]) \in Positions
      BY <1>0, <3>1 DEF Journey, Sent
    <3>3. ~IsTerminal(Head(queue[c]))
      BY <1>0, <3>2 DEF Base, RunnerKnows, Late, IsTerminal
    <3> QED
      BY <1>0, <2>2, <3>3 DEF Takes
  <2>3. CASE d = c /\ ~Takes(c)
    BY <1>0, <2>3, Moves DEF Registers, Puts, GivesUp, Waits
  <2> QED
    BY <2>1, <2>2, <2>3
<1>4. CASE UNCHANGED <<events, feedVars, streamVars>>
  BY <1>0, <1>4 DEF streamVars
<1> QED
  BY <1>0, <1>1, <1>2, <1>3, <1>4, Effects

LEMMA SettledStep ==
  ASSUME Travels, NothingSlipsBy, LastInHand, \A c \in Streams : Settled(c), [Next]_vars
  PROVE  \A c \in Streams : Settled(c)'
<1> SUFFICES ASSUME NEW c \in Streams PROVE Settled(c)'
  OBVIOUS
<1>1. CASE ~Late
  BY <1>1, NotYetSettled, SettledBegins
<1>2. CASE Late
  <2>0. Base /\ StreamTypes /\ Late /\ Late' /\ events' = events /\ Settled(c)
    BY <1>2, Types, LateStays DEF Travels, Base
  <2>1. CASE \E p \in Publishers, kind \in Kinds : Published(p, kind)
    <3>1. Len(events') = Len(events) + 1 /\ Len(events) \in Nat
      BY <2>0, <2>1, PublishedEntry
    <3> QED
      BY <2>0, <3>1
  <2>2. CASE \E p \in Publishers, d \in Streams : Offer(p, d)
    <3> PICK p \in Publishers, d \in Streams : Offer(p, d)
      BY <2>2
    <3>1. CASE d = c
      BY <1>2, <2>0, <3>1, SettledOffered
    <3>2. CASE d # c
      <4>1. queue'[c] = queue[c] /\ lost'[c] = lost[c] /\ UNCHANGED <<upto, seen, ended>>
        BY <2>0, <3>2 DEF Offer, StreamTypes
      <4>2. InFlight(c)' = InFlight(c) /\ Queued(c)' = Queued(c) /\ Before(c)' = Before(c)
        BY <2>0, <3>2, <4>1, OfferedEntry DEF InFlight, Queued, Before
      <4> QED
        BY <2>0, <4>1, <4>2 DEF Settled
    <3> QED
      BY <3>1, <3>2
  <2>3. CASE \E d \in Streams : Subscribe(d) \/ StreamStep(d)
    <3> PICK d \in Streams : Subscribe(d) \/ StreamStep(d)
      BY <2>3
    <3>1. CASE d = c
      BY <1>2, <2>0, <3>1, SettledMoved
    <3>2. CASE d # c
      <4>1. /\ InFlight(c)' = InFlight(c) /\ Queued(c)' = Queued(c) /\ Before(c)' = Before(c)
            /\ queue'[c] = queue[c] /\ upto'[c] = upto[c] /\ seen'[c] = seen[c]
            /\ lost'[c] = lost[c] /\ ended'[c] = ended[c]
        BY <2>0, <3>2, Alone, Moves DEF InFlight, Queued, Before
      <4> QED
        BY <2>0, <4>1 DEF Settled
    <3> QED
      BY <3>1, <3>2
  <2>4. CASE UNCHANGED <<events, feedVars, streamVars>>
    BY <2>0, <2>4 DEF Settled, Before, Queued, InFlight, feedVars, streamVars
  <2> QED
    BY <2>0, <2>1, <2>2, <2>3, <2>4, Effects
<1> QED
  BY <1>1, <1>2

\* A stream that ends on the final status event was sent what was published
\* since it subscribed, or dropped it on a full queue.
THEOREM LiveDelivery == Spec => []LiveEventsDelivered
<1> DEFINE Inv == LastInHand /\ \A c \in Streams : Settled(c)
<1>1. Init => Inv
  BY DEF Init, LastInHand, Late, Settled
<1>2. Travels /\ NothingSlipsBy /\ Inv /\ [Next]_vars => Inv'
  BY SettledStep, LastInHandStep DEF Travels
<1>3. Inv => LiveEventsDelivered
  BY DEF Settled, LiveEventsDelivered
<1> HIDE DEF Inv
<1> QED
  BY <1>1, <1>2, <1>3, NothingMissed, FeedInvariant, PTL DEF Spec
=============================================================================
