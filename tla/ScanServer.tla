----------------------------- MODULE ScanServer -----------------------------
(***************************************************************************)
(* JobStore of quantumready/server.py, the POST /api/scan handlers that    *)
(* take a slot and create a job, and the job threads that give the slot    *)
(* back.  A job is named by the order of its creation (a uuid in the       *)
(* code); what happens inside one job is JobEvents' business.              *)
(*                                                                         *)
(* A request that fails validation before it asks for a slot changes       *)
(* nothing and is left out.                                                *)
(***************************************************************************)
EXTENDS Naturals, Sequences, FiniteSets

CONSTANTS Posts,           \* threads serving POST /api/scan
          MaxConcurrent,   \* MAX_CONCURRENT_SCANS (4)
          MaxRetained,     \* MAX_RETAINED_SCANS (40)
          MaxAccepted      \* bound: requests that are given a slot

ASSUME PostsAssumption      == IsFiniteSet(Posts)
ASSUME ConcurrentAssumption == MaxConcurrent \in Nat \ {0}
ASSUME RetainedAssumption   == MaxRetained \in Nat \ {0}
ASSUME AcceptedAssumption   == MaxAccepted \in Nat

VARIABLES
  running,    \* JobStore._running
  order,      \* JobStore._order
  jobs,       \* the keys of JobStore._jobs
  post,       \* where do_POST is: it holds a slot in "slot" and "created"
  mine,       \* mine[h]: the job h created
  runner,     \* runner[j]: the thread of job j
  accepted,   \* requests given a slot so far
  made,       \* jobs created so far
  leaked,     \* history: handlers that died holding a slot
  reply       \* reply[h]: h's last answer; "none" is a dropped connection

storeVars == <<running, order, jobs>>
histVars  == <<accepted, made, leaked>>
vars      == <<storeVars, post, mine, runner, histVars, reply>>

Jobs == 1 .. MaxAccepted

Init ==
  /\ running = 0 /\ order = << >> /\ jobs = {}
  /\ post = [h \in Posts |-> "idle"] /\ mine = [h \in Posts |-> 0]
  /\ runner = [j \in Jobs |-> "none"]
  /\ accepted = 0 /\ made = 0 /\ leaked = 0
  /\ reply = [h \in Posts |-> "none"]

-----------------------------------------------------------------------------
(* do_POST.                                                                *)

\* STORE.acquire_slot() under the lock.
AcquireSlot(h) ==
  /\ post[h] = "idle" /\ accepted < MaxAccepted
  /\ running < MaxConcurrent
  /\ running' = running + 1
  /\ post' = [post EXCEPT ![h] = "slot"]
  /\ accepted' = accepted + 1
  /\ UNCHANGED <<order, jobs, mine, runner, made, leaked, reply>>

\* "too many scans in progress; try again shortly"
Refuse(h) ==
  /\ post[h] = "idle"
  /\ running >= MaxConcurrent
  /\ reply' = [reply EXCEPT ![h] = "429"]
  /\ UNCHANGED <<storeVars, post, mine, runner, histVars>>

\* The handler dies: nothing between acquire_slot and the job's thread gives
\* the slot back.
Abandon(h) ==
  /\ post' = [post EXCEPT ![h] = "idle"]
  /\ leaked' = leaked + 1
  /\ reply' = [reply EXCEPT ![h] = "none"]
  /\ UNCHANGED <<storeVars, mine, runner, accepted, made>>

\* int(payload.get("max_hosts") or 8) on a value that is not a number.
OptionsRaise(h) == post[h] = "slot" /\ Abandon(h)

\* Thread.start() cannot get a thread.
StartRaises(h) == post[h] = "created" /\ Abandon(h)

EvictEarly(s) == IF Len(s) >= MaxRetained THEN Len(s) - MaxRetained + 1 ELSE 0   \* mutant

\* How many of the oldest jobs the "while" of create() pops.
Excess(s) == IF Len(s) > MaxRetained THEN Len(s) - MaxRetained ELSE 0

\* STORE.create: register and evict in one locked section.
Create(h) ==
  LET listed == Append(order, made + 1)
      cut    == Excess(listed)
  IN /\ post[h] = "slot"
     /\ made' = made + 1
     /\ order' = SubSeq(listed, cut + 1, Len(listed))
     /\ jobs' = (jobs \cup {made + 1}) \ {listed[i] : i \in 1 .. cut}
     /\ mine' = [mine EXCEPT ![h] = made + 1]
     /\ post' = [post EXCEPT ![h] = "created"]
     /\ UNCHANGED <<running, runner, accepted, leaked, reply>>

StartThread(h) ==
  /\ post[h] = "created"
  /\ runner' = [runner EXCEPT ![mine[h]] = "queued"]
  /\ post' = [post EXCEPT ![h] = "idle"]
  /\ reply' = [reply EXCEPT ![h] = "202"]
  /\ UNCHANGED <<storeVars, mine, histVars>>

-----------------------------------------------------------------------------
(* _run_job, from outside: it starts, publishes its final status, and then *)
(* releases the slot.                                                      *)

RunnerMoves(j, from, to) ==
  /\ runner[j] = from
  /\ runner' = [runner EXCEPT ![j] = to]
  /\ UNCHANGED <<order, jobs, post, mine, histVars, reply>>

BeginAgain(j) ==   \* mutant: a thread that ended is started again
  (RunnerMoves(j, "queued", "running") \/ RunnerMoves(j, "ended", "running")) /\ UNCHANGED running

BeginScan(j)  == RunnerMoves(j, "queued", "running") /\ UNCHANGED running
FinishScan(j) == RunnerMoves(j, "running", "finished") /\ UNCHANGED running

ReleaseTwice(j) ==   \* mutant: in the "except" and again in the "finally"
  /\ RunnerMoves(j, "finished", "ended")
  /\ running' = IF running > 1 THEN running - 2 ELSE 0

ReleaseNothing(j) ==   \* mutant: an early return skips the release
  RunnerMoves(j, "finished", "ended") /\ UNCHANGED running

\* max(0, self._running - 1)
ReleaseSlot(j) ==
  /\ RunnerMoves(j, "finished", "ended")
  /\ running' = IF running > 0 THEN running - 1 ELSE 0

-----------------------------------------------------------------------------
\* The handlers and the job threads that will still give their slot back.
Holding == {h \in Posts : post[h] \in {"slot", "created"}}
Live    == {j \in Jobs : runner[j] \in {"queued", "running", "finished"}}

PostStep(h) == OptionsRaise(h) \/ StartRaises(h) \/ Create(h) \/ StartThread(h)

RunnerStep(j) == BeginScan(j) \/ FinishScan(j) \/ ReleaseSlot(j)

\* The bounded supply of requests is spent and every scan is over.
Spent ==
  /\ accepted = MaxAccepted /\ Holding = {} /\ Live = {}
  /\ UNCHANGED vars

Next ==
  \/ \E h \in Posts : AcquireSlot(h) \/ Refuse(h) \/ PostStep(h)
  \/ \E j \in Jobs : RunnerStep(j)
  \/ Spent

Spec == Init /\ [][Next]_vars

(* A handler that was given a slot and a job's thread keep running; nobody *)
(* has to send a request.                                                  *)
Fairness ==
  /\ \A h \in Posts : WF_vars(PostStep(h))
  /\ \A j \in Jobs : WF_vars(RunnerStep(j))

FairSpec == Spec /\ Fairness

-----------------------------------------------------------------------------
(* Properties.                                                             *)

\* Types of every variable.
TypeOK ==
  /\ running \in Nat /\ order \in Seq(Jobs) /\ jobs \subseteq Jobs
  /\ post \in [Posts -> {"idle", "slot", "created"}]
  /\ mine \in [Posts -> Jobs \cup {0}]
  /\ runner \in [Jobs -> {"none", "queued", "running", "finished", "ended"}]
  /\ accepted \in Nat /\ made \in Nat /\ leaked \in Nat
  /\ reply \in [Posts -> {"none", "429", "202"}]

\* _running counts exactly the handlers between acquire and start, the job
\* threads that have not released, and the slots no one will release.
SlotsAccounted == running = Cardinality(Holding) + Cardinality(Live) + leaked

\* No interleaving of handlers and job threads runs more scans at a time
\* than MAX_CONCURRENT_SCANS.
AtMostMaxScans == Cardinality(Live) <= MaxConcurrent

\* The store holds the newest MAX_RETAINED_SCANS jobs, oldest first, and
\* _order and _jobs agree: an id answers 404 only after that many newer ones.
NewestRetained ==
  /\ Len(order) = IF made <= MaxRetained THEN made ELSE MaxRetained
  /\ \A i \in DOMAIN order : order[i] = made - Len(order) + i
  /\ jobs = (made - Len(order) + 1) .. made

\* No two handlers work on the same job, and a job has its thread started
\* by the one handler that created it.
OneHandlerPerJob ==
  \A h \in Posts : post[h] = "created" =>
    /\ runner[mine[h]] = "none"
    /\ \A k \in Posts : post[k] = "created" /\ mine[k] = mine[h] => k = h

\* The slots a scan holds come back: a full house ends, unless every slot
\* was lost by a handler that died.
SlotsComeBack == running = MaxConcurrent ~> (running < MaxConcurrent \/ leaked = MaxConcurrent)

\* The slots do what they are for.
Slots == INSTANCE ScanSlots WITH
  Slots <- MaxConcurrent, scanning <- Live, scanned <- {j \in Jobs : runner[j] = "ended"}
SlotsSpec == Slots!Spec
=============================================================================
