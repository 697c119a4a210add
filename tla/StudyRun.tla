------------------------------ MODULE StudyRun ------------------------------
(***************************************************************************)
(* run_study of quantumready/study.py with its JSONL checkpoint: the pool  *)
(* of scan_subject tasks, the main thread that submits them, collects them *)
(* as they complete and appends one line each, Ctrl-C, a kill at any point *)
(* (also half way through a line), and the re-runs that resume.            *)
(*                                                                         *)
(* The checkpoint is what its loader can tell: the domains on well-formed  *)
(* lines and the text after the last newline, if any.  A malformed line is *)
(* skipped by the loader and leaves no trace.  A subject is a position of  *)
(* the cohort; whether its scan went well is part of the entry and decides *)
(* nothing here (scan_subject never raises).                               *)
(***************************************************************************)
EXTENDS Naturals, Sequences, FiniteSets

CONSTANTS Domains,   \* domains that may occur in the checkpoint
          Cohort,    \* the subjects of this study, a sequence of domains
          Workers,   \* StudyOptions.workers
          MayTear,   \* a kill may cut a line
          MaxRuns,   \* bound: times the study is started
          Clean,     \* the checkpoint ends with a newline
          Partial    \* it ends with part of a line that does not parse

ASSUME CohortAssumption  == Cohort \in Seq(Domains)
ASSUME WorkersAssumption == Workers \in Nat \ {0}
ASSUME TearAssumption    == MayTear \in BOOLEAN
ASSUME RunsAssumption    == MaxRuns \in Nat
ASSUME TailAssumption    == Clean \notin Domains /\ Partial \notin Domains /\ Clean # Partial

VARIABLES
  lines,    \* domains on the well-formed lines of the checkpoint
  tail,     \* what follows its last newline: Clean, Partial, or a whole entry
  main,     \* where run_study is; "down" is no process
  runs,     \* runs started so far
  done,     \* the domains loaded from the checkpoint
  next,     \* the position submitted next
  task,     \* task[i]: the future of position i
  taken,    \* the position as_completed handed out last
  saved,    \* history: domains whose line was written and flushed, ever
  told      \* history: domains reported to the progress callback, ever

fileVars == <<lines, tail, saved>>
vars     == <<fileVars, main, runs, done, next, task, taken, told>>

Positions == 1 .. Len(Cohort)

\* What a resume would find in the checkpoint.
Recoverable == lines \cup ({tail} \cap Domains)

Pending == {i \in Positions : Cohort[i] \notin done}

Idle == [i \in Positions |-> "none"]

Init ==
  /\ lines \in SUBSET Domains /\ tail = Clean
  /\ main = "down" /\ runs = 0
  /\ done = {} /\ next = 1 /\ task = Idle /\ taken = 0
  /\ saved = lines /\ told = {}

-----------------------------------------------------------------------------
LoadAfresh ==   \* mutant: the checkpoint is opened with "w"
  /\ main \in {"down", "stopped", "finished"} /\ runs < MaxRuns
  /\ runs' = runs + 1
  /\ done' = Recoverable
  /\ main' = "submit" /\ next' = 1 /\ task' = Idle /\ taken' = 0
  /\ lines' = {} /\ tail' = Clean
  /\ UNCHANGED <<saved, told>>

\* Load the checkpoint and open it for appending, whatever it ends with.
Load ==
  /\ main \in {"down", "stopped", "finished"} /\ runs < MaxRuns
  /\ runs' = runs + 1
  /\ done' = Recoverable
  /\ main' = "submit" /\ next' = 1 /\ task' = Idle /\ taken' = 0
  /\ UNCHANGED <<fileVars, told>>

\* pool.submit for one pending subject, and the pause after it.
Submit ==
  /\ main = "submit" /\ next \in Positions
  /\ task' = IF next \in Pending THEN [task EXCEPT ![next] = "queued"] ELSE task
  /\ next' = next + 1
  /\ UNCHANGED <<fileVars, main, runs, done, taken, told>>

\* Only now does the main thread look at what the pool has finished.
StartCollecting ==
  /\ main = "submit" /\ next \notin Positions
  /\ main' = "collect"
  /\ UNCHANGED <<fileVars, runs, done, next, task, taken, told>>

InPool(state) == {i \in Positions : task[i] = state}

\* A pool thread takes the oldest task.
StartScan(i) ==
  /\ task[i] = "queued"
  /\ \A k \in InPool("queued") : i <= k
  /\ Cardinality(InPool("running")) < Workers
  /\ task' = [task EXCEPT ![i] = "running"]
  /\ UNCHANGED <<fileVars, main, runs, done, next, taken, told>>

EndScan(i) ==
  /\ task[i] = "running"
  /\ task' = [task EXCEPT ![i] = "finished"]
  /\ UNCHANGED <<fileVars, main, runs, done, next, taken, told>>

TakeAndTell(i) ==   \* mutant: the callback comes before the write
  /\ main = "collect" /\ task[i] = "finished"
  /\ task' = [task EXCEPT ![i] = "taken"]
  /\ taken' = i
  /\ told' = told \cup {Cohort[i]}
  /\ main' = "write"
  /\ UNCHANGED <<fileVars, runs, done, next>>

\* as_completed hands out a finished future; any of them may come first.
Take(i) ==
  /\ main = "collect" /\ task[i] = "finished"
  /\ task' = [task EXCEPT ![i] = "taken"]
  /\ taken' = i
  /\ main' = "write"
  /\ UNCHANGED <<fileVars, runs, done, next, told>>

WriteOver ==   \* mutant: each entry replaces the file
  /\ main = "write"
  /\ lines' = {Cohort[taken]} /\ tail' = Clean
  /\ saved' = saved \cup {Cohort[taken]}
  /\ main' = "tell"
  /\ UNCHANGED <<runs, done, next, task, taken, told>>

WriteBare ==   \* mutant: no newline after an entry
  /\ main = "write"
  /\ tail' = IF tail = Clean THEN Cohort[taken] ELSE Partial
  /\ saved' = saved \cup {Cohort[taken]}
  /\ main' = "tell"
  /\ UNCHANGED <<lines, runs, done, next, task, taken, told>>

\* handle.write and flush.  The line goes right after whatever the file ends
\* with: after a torn line the two make one malformed line.
Write ==
  /\ main = "write"
  /\ lines' = IF tail = Clean THEN lines \cup {Cohort[taken]} ELSE lines
  /\ tail' = Clean
  /\ saved' = saved \cup {Cohort[taken]}
  /\ main' = "tell"
  /\ UNCHANGED <<runs, done, next, task, taken, told>>

\* progress(completed, total, entry)
Tell ==
  /\ main = "tell"
  /\ told' = told \cup {Cohort[taken]}
  /\ main' = "collect"
  /\ UNCHANGED <<fileVars, runs, done, next, task, taken>>

FinishEarly ==   \* mutant: nothing is waited for
  /\ main = "collect" /\ InPool("finished") = {}
  /\ main' = "finished"
  /\ UNCHANGED <<fileVars, runs, done, next, task, taken, told>>

FinishWithAll ==   \* mutant: also the subjects of the checkpoint are waited for
  /\ main = "collect" /\ \A i \in Positions : task[i] = "taken"
  /\ main' = "finished"
  /\ UNCHANGED <<fileVars, runs, done, next, task, taken, told>>

\* Every future was handed out: the file is closed and the results returned.
Finish ==
  /\ main = "collect" /\ \A i \in Pending : task[i] = "taken"
  /\ main' = "finished"
  /\ UNCHANGED <<fileVars, runs, done, next, task, taken, told>>

\* Ctrl-C reaches the main thread; the pool's exit waits for what was submitted.
Interrupt ==
  /\ main \in {"submit", "collect", "write", "tell"}
  /\ main' = "draining"
  /\ UNCHANGED <<fileVars, runs, done, next, task, taken, told>>

Stop ==
  /\ main = "draining"
  /\ InPool("queued") \cup InPool("running") = {}
  /\ main' = "stopped"
  /\ UNCHANGED <<fileVars, runs, done, next, task, taken, told>>

Running == main \in {"submit", "collect", "write", "tell", "draining"}

Die == main' = "down" /\ done' = {} /\ next' = 1 /\ task' = Idle /\ taken' = 0

\* A kill between two steps of the main thread.
Kill ==
  /\ Running
  /\ Die
  /\ UNCHANGED <<fileVars, runs, told>>

\* A kill that cuts the line being written: nothing that parses is left of
\* it, or everything but its newline.
KillInWrite ==
  /\ MayTear /\ main = "write"
  /\ Die
  /\ tail' \in {Partial} \cup (IF tail = Clean THEN {Cohort[taken]} ELSE {})
  /\ UNCHANGED <<lines, saved, runs, told>>

-----------------------------------------------------------------------------
MainStep == Submit \/ StartCollecting \/ (\E i \in Positions : Take(i))
            \/ Write \/ Tell \/ Finish \/ Stop

PoolStep(i) == StartScan(i) \/ EndScan(i)

\* Nobody starts the study again.
Rest ==
  /\ ~Running /\ runs = MaxRuns
  /\ UNCHANGED vars

Next ==
  \/ Load \/ MainStep \/ Interrupt \/ Kill \/ KillInWrite
  \/ \E i \in Positions : PoolStep(i)
  \/ Rest

Spec == Init /\ [][Next]_vars

(* The main thread and the pool keep working: every probe of a scan has a  *)
(* socket timeout.  Nobody has to start, interrupt or kill the study.      *)
Fairness == WF_vars(MainStep) /\ \A i \in Positions : WF_vars(PoolStep(i))

FairSpec == Spec /\ Fairness

-----------------------------------------------------------------------------
(* Properties.                                                             *)

Wanted == {Cohort[i] : i \in Positions}

\* Types of every variable.
TypeOK ==
  /\ lines \subseteq Domains /\ tail \in Domains \cup {Clean, Partial}
  /\ main \in {"down", "submit", "collect", "write", "tell", "draining",
               "stopped", "finished"}
  /\ runs \in Nat /\ done \subseteq Domains
  /\ next \in 1 .. Len(Cohort) + 1
  /\ task \in [Positions -> {"none", "queued", "running", "finished", "taken"}]
  /\ taken \in Positions \cup {0}
  /\ saved \subseteq Domains /\ told \subseteq Domains

\* study.py:16: "Low concurrency", also while an interrupted run drains.
AtMostWorkersScan == Cardinality(InPool("running")) <= Workers

\* A subject the checkpoint holds when a run starts is not scanned again in
\* it, and no future is handed out before its subject was submitted.
OnlyMissingScanned ==
  \A i \in Positions : task[i] # "none" => Cohort[i] \notin done /\ i < next

\* A subject's progress line is printed after its entry was written and flushed.
ToldIsSaved == told \subseteq saved

\* What an earlier run wrote, or showed the user as finished, is not scanned
\* again by a later one, wherever that run was killed or interrupted: a subject
\* with an entry has a task only in the run that took its result.
FinishedNotRescanned ==
  \A i \in Positions :
    task[i] # "none" /\ Cohort[i] \in saved \cup told =>
      \E j \in Positions : Cohort[j] = Cohort[i] /\ task[j] = "taken"

\* study.py:229: "a truncated last line is expected after a kill".  It takes one
\* entry with it, the next one written: of all that n runs wrote, whatever kills
\* cut, a resume misses fewer than n.
EachRunLosesOne == runs > 0 => Cardinality(saved \ Recoverable) < runs

\* study.py:213: "checkpointing as it goes so a long run can resume".  A line
\* that was written and flushed is found by every later resume.
SavedIsRecoverable == saved \subseteq Recoverable

\* A run that ends normally returns a result for every subject, and has
\* them all on disk.
FinishedMeansAll ==
  main = "finished" =>
    /\ \A i \in Positions : Cohort[i] \in done \/ task[i] = "taken"
    /\ Wanted \subseteq Recoverable

\* A started run ends: finished, stopped after Ctrl-C, or killed.
RunEnds == Running ~> ~Running

\* The checkpoint as a ledger that only grows.
Ledger == INSTANCE StudyLedger WITH
  recorded <- Recoverable, complete <- (main = "finished")
LedgerSpec == Ledger!Spec
=============================================================================
