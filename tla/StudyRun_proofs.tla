-------------------------- MODULE StudyRun_proofs --------------------------
(***************************************************************************)
(* Proofs about StudyRun, for any cohort, number of workers and of runs.   *)
(*                                                                         *)
(* Bookkeeping holds whatever a kill does to the file.  OnDisk, what the   *)
(* checkpoint is for, needs that no line is ever cut: the StudyRunGlued    *)
(* run shows that it fails otherwise, and Losses how much a cut line can   *)
(* cost.  TakenOrLoaded says where a run stands on what was ever written,  *)
(* which is why it scans none of it again.  Budget counts the steps a started   *)
(* study can still take; every step but another start lowers it.           *)
(***************************************************************************)
EXTENDS StudyRun, FiniteSetTheorems, TLAPS

\* The entry in the main thread's hands is a future it was handed.
Held == main \in {"write", "tell"} => taken \in Positions /\ task[taken] = "taken"

\* Nothing is told before it is saved.
SavedFirst == ToldIsSaved /\ (main = "tell" => Cohort[taken] \in saved)

Bookkeeping ==
  /\ TypeOK /\ OnlyMissingScanned /\ Held /\ SavedFirst

Collecting == main \in {"submit", "collect", "write", "tell", "finished"}

\* What a run has loaded or taken is on disk, but for the entry it is about
\* to write.
OnDisk ==
  /\ tail = Clean /\ saved \subseteq lines
  /\ Collecting => done \subseteq lines
  /\ Collecting => \A i \in Positions :
       task[i] = "taken" => Cohort[i] \in lines \/ (main = "write" /\ i = taken)
  /\ main = "finished" => \A i \in Pending : task[i] = "taken"

USE CohortAssumption, WorkersAssumption, TearAssumption, RunsAssumption, TailAssumption

\* Positions of the cohort name domains.
LEMMA CohortDomains ==
  /\ Len(Cohort) \in Nat
  /\ \A i \in Positions : Cohort[i] \in Domains
BY DEF Positions

\* A resume finds domains, and all of lines if no line is cut.
LEMMA RecoverableDomains ==
  /\ lines \subseteq Domains => Recoverable \subseteq Domains
  /\ lines \subseteq Recoverable
  /\ tail = Clean => Recoverable = lines
BY DEF Recoverable

-----------------------------------------------------------------------------
(* Bookkeeping.                                                            *)

\* The initial states satisfy the bookkeeping invariant.
LEMMA BookkeepingInit == Init => Bookkeeping
BY CohortDomains DEF Init, Bookkeeping, TypeOK, OnlyMissingScanned, Held, SavedFirst,
                     ToldIsSaved, Idle, Positions

\* Every step preserves the bookkeeping invariant.
LEMMA BookkeepingStep == Bookkeeping /\ [Next]_vars => Bookkeeping'
<1> SUFFICES ASSUME Bookkeeping, [Next]_vars PROVE Bookkeeping'
  OBVIOUS
<1> USE DEF Bookkeeping, TypeOK, OnlyMissingScanned, Held, SavedFirst, ToldIsSaved
<1>1. CASE Load
  <2>1. Recoverable \subseteq Domains
    BY RecoverableDomains
  <2> QED
    BY <1>1, <2>1, CohortDomains DEF Load, fileVars, Idle
<1>2. CASE Submit
  BY <1>2, CohortDomains DEF Submit, fileVars, Positions, Pending
<1>3. CASE StartCollecting
  BY <1>3 DEF StartCollecting, fileVars
<1>4. ASSUME NEW i \in Positions, StartScan(i) PROVE Bookkeeping'
  BY <1>4 DEF StartScan, fileVars
<1>5. ASSUME NEW i \in Positions, EndScan(i) PROVE Bookkeeping'
  BY <1>5 DEF EndScan, fileVars
<1>6. ASSUME NEW i \in Positions, Take(i) PROVE Bookkeeping'
  BY <1>6 DEF Take, fileVars
<1>7. CASE Write
  <2>1. taken \in Positions /\ Cohort[taken] \in Domains
    BY <1>7, CohortDomains DEF Write
  <2> QED
    BY <1>7, <2>1 DEF Write
<1>8. CASE Tell
  <2>1. taken \in Positions /\ Cohort[taken] \in Domains
    BY <1>8, CohortDomains DEF Tell
  <2> QED
    BY <1>8, <2>1 DEF Tell, fileVars
<1>9. CASE Finish
  BY <1>9 DEF Finish, fileVars
<1>10. CASE Interrupt
  BY <1>10 DEF Interrupt, fileVars
<1>11. CASE Stop
  BY <1>11 DEF Stop, fileVars
<1>12. CASE Kill
  BY <1>12, CohortDomains DEF Kill, Die, fileVars, Idle
<1>13. CASE KillInWrite
  <2>1. taken \in Positions /\ Cohort[taken] \in Domains
    BY <1>13, CohortDomains DEF KillInWrite
  <2> QED
    BY <1>13, <2>1, CohortDomains DEF KillInWrite, Die, fileVars, Idle
<1>14. CASE UNCHANGED vars
  BY <1>14 DEF vars, fileVars
<1> QED
  BY <1>1, <1>2, <1>3, <1>4, <1>5, <1>6, <1>7, <1>8, <1>9, <1>10, <1>11, <1>12, <1>13,
     <1>14 DEF Next, MainStep, PoolStep, Rest

\* The bookkeeping invariant holds of every run.
THEOREM BookkeepingInvariant == Spec => []Bookkeeping
BY BookkeepingInit, BookkeepingStep, PTL DEF Spec

\* The state of a study is well typed.
THEOREM TypeCorrect == Spec => []TypeOK
<1>1. Bookkeeping => TypeOK
  BY DEF Bookkeeping
<1> QED
  BY <1>1, BookkeepingInvariant, PTL

-----------------------------------------------------------------------------
(* The pool.                                                               *)

Scanning == InPool("running")

\* The running scans are a finite set.
LEMMA ScanningFinite == IsFiniteSet(Scanning) /\ Cardinality(Scanning) \in Nat
<1>1. IsFiniteSet(Positions)
  BY CohortDomains, FS_Interval DEF Positions
<1>2. Scanning \in SUBSET Positions
  BY DEF Scanning, InPool
<1> QED
  BY <1>1, <1>2, FS_Subset, FS_CardinalityType

\* Fewer tasks running than before.
LEMMA FewerScans ==
  ASSUME TypeOK, AtMostWorkersScan, Scanning' \subseteq Scanning
  PROVE  AtMostWorkersScan'
<1>1. Cardinality(Scanning') <= Cardinality(Scanning) /\ Cardinality(Scanning') \in Nat
  BY ScanningFinite, FS_Subset, FS_CardinalityType
<1> QED
  BY <1>1, ScanningFinite DEF AtMostWorkersScan, Scanning

\* Never more subjects under scan than the study's workers: low concurrency
\* holds for any cohort and whatever the main thread is doing.
THEOREM LowConcurrency == Spec => []AtMostWorkersScan
<1>1. Init => AtMostWorkersScan
  <2> SUFFICES ASSUME Init PROVE AtMostWorkersScan
    OBVIOUS
  <2>1. InPool("running") = {}
    BY DEF Init, InPool, Idle
  <2> QED
    BY <2>1, FS_EmptySet, ScanningFinite, WorkersAssumption DEF AtMostWorkersScan, Scanning
<1>2. TypeOK /\ AtMostWorkersScan /\ [Next]_vars => AtMostWorkersScan'
  <2> SUFFICES ASSUME TypeOK, AtMostWorkersScan, [Next]_vars PROVE AtMostWorkersScan'
    OBVIOUS
  <2>t. task \in [Positions -> {"none", "queued", "running", "finished", "taken"}]
    BY DEF TypeOK
  <2>1. ASSUME NEW i \in Positions, StartScan(i) PROVE AtMostWorkersScan'
    <3>1. Scanning' = Scanning \cup {i} /\ i \notin Scanning
      BY <2>t, <2>1 DEF StartScan, Scanning, InPool
    <3>2. Cardinality(Scanning') = Cardinality(Scanning) + 1
      BY <3>1, ScanningFinite, FS_AddElement
    <3>3. Cardinality(Scanning) < Workers
      BY <2>1 DEF StartScan, Scanning
    <3> QED
      BY <3>2, <3>3, ScanningFinite DEF AtMostWorkersScan, Scanning
  <2>2. ASSUME NEW i \in Positions, EndScan(i) \/ Take(i) PROVE Scanning' \subseteq Scanning
    BY <2>t, <2>2 DEF EndScan, Take, Scanning, InPool
  <2>3. CASE Submit
    BY <2>t, <2>3, FewerScans DEF Submit, Scanning, InPool
  <2>4. CASE task' = Idle
    BY <2>t, <2>4, FewerScans DEF Idle, Scanning, InPool
  <2>5. CASE task' = task
    BY <2>t, <2>5, FewerScans DEF Scanning, InPool
  <2>6. ASSUME StartCollecting \/ Write \/ Tell \/ Finish \/ Stop \/ Interrupt \/ UNCHANGED vars
        PROVE  task' = task
    BY <2>6 DEF StartCollecting, Write, Tell, Finish, Stop, Interrupt, vars
  <2>7. ASSUME Load \/ Kill \/ KillInWrite PROVE task' = Idle
    BY <2>7 DEF Load, Kill, KillInWrite, Die
  <2> QED
    BY <2>1, <2>2, <2>3, <2>4, <2>5, <2>6, <2>7, FewerScans
       DEF Next, MainStep, PoolStep, Rest
<1> QED
  BY <1>1, <1>2, TypeCorrect, PTL DEF Spec

-----------------------------------------------------------------------------
(* The checkpoint, when no kill cuts a line.                               *)

\* Every step preserves OnDisk.
LEMMA OnDiskStep ==
  ~MayTear /\ Bookkeeping /\ OnDisk /\ [Next]_vars => OnDisk'
<1> SUFFICES ASSUME ~MayTear, Bookkeeping, OnDisk, [Next]_vars PROVE OnDisk'
  OBVIOUS
<1> USE DEF OnDisk, Collecting
<1>t. /\ task \in [Positions -> {"none", "queued", "running", "finished", "taken"}]
      /\ \A i \in Positions : task[i] # "none" => i \in Pending
      /\ main \in {"write", "tell"} => taken \in Positions /\ task[taken] = "taken"
  BY DEF Bookkeeping, TypeOK, OnlyMissingScanned, Held, Pending
<1>1. CASE Load
  <2>1. Recoverable = lines
    BY RecoverableDomains
  <2> QED
    BY <1>1, <2>1 DEF Load, fileVars, Idle
<1>2. CASE Submit
  BY <1>t, <1>2 DEF Submit, fileVars
<1>3. CASE StartCollecting
  BY <1>3 DEF StartCollecting, fileVars
<1>4. ASSUME NEW i \in Positions, StartScan(i) PROVE OnDisk'
  BY <1>t, <1>4 DEF StartScan, fileVars, Pending
<1>5. ASSUME NEW i \in Positions, EndScan(i) PROVE OnDisk'
  BY <1>t, <1>5 DEF EndScan, fileVars, Pending
<1>6. ASSUME NEW i \in Positions, Take(i) PROVE OnDisk'
  BY <1>t, <1>6 DEF Take, fileVars
<1>7. CASE Write
  BY <1>t, <1>7 DEF Write
<1>8. CASE Tell
  BY <1>8 DEF Tell, fileVars
<1>9. CASE Finish
  BY <1>9 DEF Finish, fileVars, Pending
<1>10. CASE Interrupt
  BY <1>10 DEF Interrupt, fileVars
<1>11. CASE Stop
  BY <1>11 DEF Stop, fileVars
<1>12. CASE Kill
  BY <1>12 DEF Kill, Die, fileVars
<1>13. CASE KillInWrite
  BY <1>13 DEF KillInWrite
<1>14. CASE UNCHANGED vars
  BY <1>14 DEF vars, fileVars, Pending
<1> QED
  BY <1>1, <1>2, <1>3, <1>4, <1>5, <1>6, <1>7, <1>8, <1>9, <1>10, <1>11, <1>12, <1>13,
     <1>14 DEF Next, MainStep, PoolStep, Rest

\* With whole lines, OnDisk holds of every run.
THEOREM OnDiskInvariant ==
  ASSUME ~MayTear PROVE Spec => []OnDisk
<1>1. Init => OnDisk
  BY DEF Init, OnDisk, Collecting
<1>2. Bookkeeping /\ OnDisk /\ [Next]_vars => OnDisk'
  BY OnDiskStep
<1> QED
  BY <1>1, <1>2, BookkeepingInvariant, PTL DEF Spec

\* With whole lines, what was ever written is found by every later resume.
THEOREM Durable ==
  ASSUME ~MayTear PROVE Spec => []SavedIsRecoverable
<1>1. OnDisk => SavedIsRecoverable
  BY RecoverableDomains DEF OnDisk, SavedIsRecoverable
<1> QED
  BY <1>1, OnDiskInvariant, PTL

\* A finished run covered the cohort and has it on disk.
LEMMA FinishedOnDisk == Bookkeeping /\ OnDisk => FinishedMeansAll
<1> SUFFICES ASSUME Bookkeeping, OnDisk, main = "finished"
             PROVE  /\ \A i \in Positions : Cohort[i] \in done \/ task[i] = "taken"
                    /\ Wanted \subseteq Recoverable
  BY DEF FinishedMeansAll
<1>1. \A i \in Positions : Cohort[i] \in done \/ task[i] = "taken"
  BY DEF OnDisk, Pending
<1>2. \A i \in Positions : Cohort[i] \in lines
  BY <1>1 DEF OnDisk, Collecting
<1> QED
  BY <1>1, <1>2, RecoverableDomains DEF Wanted

\* With whole lines, a run that ends normally has every subject's entry on
\* disk and a result for each.
THEOREM CompleteWhenFinished ==
  ASSUME ~MayTear PROVE Spec => []FinishedMeansAll
BY FinishedOnDisk, BookkeepingInvariant, OnDiskInvariant, PTL

\* With whole lines, every step is a step of the ledger.
LEMMA LedgerStep ==
  ASSUME ~MayTear
  PROVE  Bookkeeping /\ OnDisk /\ OnDisk' /\ [Next]_vars
           => [Ledger!Next]_<<Recoverable, (main = "finished")>>
<1> SUFFICES ASSUME Bookkeeping, OnDisk, OnDisk', [Next]_vars
             PROVE  Ledger!Next \/ UNCHANGED <<Recoverable, (main = "finished")>>
  OBVIOUS
<1>r. Recoverable = lines /\ Recoverable' = lines'
  BY RecoverableDomains DEF OnDisk, Recoverable
<1>1. CASE Write
  <2>1. main = "write" /\ main' = "tell" /\ lines' = lines \cup {Cohort[taken]}
    BY <1>1 DEF Write, OnDisk
  <2>2. Cohort[taken] \in Domains
    BY <2>1, CohortDomains DEF Bookkeeping, Held
  <2>3. Ledger!Record(Cohort[taken])
    BY <1>r, <2>1 DEF Ledger!Record
  <2> QED
    BY <2>2, <2>3 DEF Ledger!Next
<1>2. CASE Finish
  <2>1. main # "finished" /\ main' = "finished" /\ lines' = lines /\ done' = done
    BY <1>2 DEF Finish, fileVars
  <2>2. \A i \in Positions : Cohort[i] \in lines
    BY <1>2 DEF Finish, OnDisk, Collecting, Pending
  <2>3. Ledger!Finish
    BY <1>r, <2>1, <2>2 DEF Ledger!Finish, Wanted
  <2> QED
    BY <2>3 DEF Ledger!Next
<1>3. CASE Load
  <2>1. main' = "submit" /\ lines' = lines
    BY <1>3 DEF Load, fileVars
  <2>2. Ledger!Rerun
    BY <1>r, <2>1 DEF Ledger!Rerun
  <2> QED
    BY <2>2 DEF Ledger!Next
<1>4. ASSUME lines' = lines, (main' = "finished") <=> (main = "finished")
      PROVE  UNCHANGED <<Recoverable, (main = "finished")>>
  BY <1>r, <1>4
<1>5. ASSUME Submit \/ StartCollecting \/ Tell \/ Stop \/ Interrupt \/ Kill
      PROVE  lines' = lines /\ main # "finished" /\ main' # "finished"
  BY <1>5 DEF Submit, StartCollecting, Tell, Stop, Interrupt, Kill, Running, Die, fileVars
<1>6. ASSUME NEW i \in Positions, StartScan(i) \/ EndScan(i)
      PROVE  lines' = lines /\ main' = main
  BY <1>6 DEF StartScan, EndScan, fileVars
<1>7. ASSUME NEW i \in Positions, Take(i)
      PROVE  lines' = lines /\ main # "finished" /\ main' # "finished"
  BY <1>7 DEF Take, fileVars
<1>8. CASE UNCHANGED vars
  BY <1>4, <1>8 DEF vars, fileVars
<1> QED
  BY <1>1, <1>2, <1>3, <1>4, <1>5, <1>6, <1>7, <1>8
     DEF Next, MainStep, PoolStep, Rest, KillInWrite

\* With whole lines, the checkpoint is a ledger that only grows, and a run
\* that ends normally has the whole cohort in it.
THEOREM Refinement ==
  ASSUME ~MayTear PROVE Spec => LedgerSpec
<1>1. Init => Ledger!Init
  BY RecoverableDomains DEF Init, Ledger!Init
<1>2. Bookkeeping /\ OnDisk /\ OnDisk' /\ [Next]_vars
        => [Ledger!Next]_<<Recoverable, (main = "finished")>>
  BY LedgerStep
<1> QED
  BY <1>1, <1>2, BookkeepingInvariant, OnDiskInvariant, PTL DEF Spec, LedgerSpec, Ledger!Spec

-----------------------------------------------------------------------------
(* What a run does not do again, when no kill cuts a line.                 *)

\* Of what was ever written, a run has loaded or taken all; no process, no task.
TakenOrLoaded ==
  /\ main = "down" => \A i \in Positions : task[i] = "none"
  /\ main # "down" => \A d \in saved :
       d \in done \/ \E j \in Positions : Cohort[j] = d /\ task[j] = "taken"

\* A taken task stays taken while its run lasts.
LEMMA TakenStays ==
  ASSUME Bookkeeping, [Next]_vars, main' # "down", ~Load
  PROVE  /\ done' = done
         /\ \A j \in Positions : task[j] = "taken" => task'[j] = "taken"
<1>t. /\ task \in [Positions -> {"none", "queued", "running", "finished", "taken"}]
      /\ \A i \in Positions : task[i] # "none" => i < next
      /\ next \in Nat
  BY CohortDomains DEF Bookkeeping, TypeOK, OnlyMissingScanned
<1>1. CASE Submit
  <2>1. task[next] = "none" /\ next \in Positions
    BY <1>t, <1>1 DEF Submit
  <2> QED
    BY <1>t, <1>1, <2>1 DEF Submit
<1>2. ASSUME NEW i \in Positions, StartScan(i) \/ EndScan(i) \/ Take(i)
      PROVE  /\ done' = done
             /\ \A j \in Positions : task[j] = "taken" => task'[j] = "taken"
  BY <1>t, <1>2 DEF StartScan, EndScan, Take
<1>3. ASSUME StartCollecting \/ Write \/ Tell \/ Finish \/ Stop \/ Interrupt \/ UNCHANGED vars
      PROVE  done' = done /\ task' = task
  BY <1>3 DEF StartCollecting, Write, Tell, Finish, Stop, Interrupt, vars
<1>4. ASSUME Kill \/ KillInWrite PROVE FALSE
  BY <1>4 DEF Kill, KillInWrite, Die
<1> QED
  BY <1>1, <1>2, <1>3, <1>4 DEF Next, MainStep, PoolStep, Rest

\* Every step preserves TakenOrLoaded.
LEMMA TakenOrLoadedStep ==
  Bookkeeping /\ OnDisk /\ TakenOrLoaded /\ [Next]_vars => TakenOrLoaded'
<1> SUFFICES ASSUME Bookkeeping, OnDisk, TakenOrLoaded, [Next]_vars PROVE TakenOrLoaded'
  OBVIOUS
<1>1. CASE Load
  <2>1. saved' \subseteq done' /\ main' = "submit"
    BY <1>1, RecoverableDomains DEF Load, OnDisk, fileVars
  <2> QED
    BY <2>1 DEF TakenOrLoaded
<1>2. CASE main' = "down"
  <2>1. Kill \/ KillInWrite \/ UNCHANGED <<main, task>>
    BY <1>2 DEF Next, MainStep, PoolStep, Rest, Load, Submit, StartCollecting, Take, Write,
                Tell, Finish, Stop, Interrupt, StartScan, EndScan, vars, TakenOrLoaded
  <2> QED
    BY <1>2, <2>1 DEF Kill, KillInWrite, Die, Idle, TakenOrLoaded
<1>3. CASE main' # "down" /\ ~Load
  <2>1. /\ done' = done
        /\ \A j \in Positions : task[j] = "taken" => task'[j] = "taken"
    BY <1>3, TakenStays
  <2>2. main # "down"
    BY <1>3 DEF Next, MainStep, PoolStep, Rest, Submit, StartCollecting, Take, Write, Tell,
                Finish, Stop, Interrupt, Kill, KillInWrite, Running, StartScan, EndScan, vars,
                TakenOrLoaded
  <2>3. CASE Write
    <3>1. saved' = saved \cup {Cohort[taken]} /\ taken \in Positions /\ task[taken] = "taken"
      BY <2>3 DEF Write, Bookkeeping, Held
    <3> QED
      BY <1>3, <2>1, <2>2, <3>1 DEF TakenOrLoaded
  <2>4. CASE ~Write
    <3>1. saved' = saved
      BY <1>3, <2>4 DEF Next, MainStep, PoolStep, Rest, Submit, StartCollecting, Take, Tell,
                Finish, Stop, Interrupt, Kill, KillInWrite, StartScan, EndScan, vars, fileVars
    <3> QED
      BY <1>3, <2>1, <2>2, <3>1 DEF TakenOrLoaded
  <2> QED
    BY <2>3, <2>4
<1> QED
  BY <1>1, <1>2, <1>3

\* With whole lines, no later run scans again what an earlier one wrote or
\* reported as finished, wherever each of them was killed or interrupted.
THEOREM NoRescan ==
  ASSUME ~MayTear PROVE Spec => []FinishedNotRescanned
<1>1. Init => TakenOrLoaded
  BY DEF Init, TakenOrLoaded, Idle
<1>2. Bookkeeping /\ TakenOrLoaded => FinishedNotRescanned
  BY DEF Bookkeeping, OnlyMissingScanned, SavedFirst, ToldIsSaved, TakenOrLoaded,
         FinishedNotRescanned
<1> QED
  BY <1>1, <1>2, TakenOrLoadedStep, BookkeepingInvariant, OnDiskInvariant, PTL DEF Spec

-----------------------------------------------------------------------------
(* What a cut line costs.                                                  *)

\* Entries that were written and are on no well-formed line.
Lost == saved \ lines

\* 1 if the next line will be glued to what the file ends with.
Dirt == IF tail = Clean THEN 0 ELSE 1

\* A kill leaves at most one such tail, and the next run pays for it.
Losses ==
  /\ IsFiniteSet(Lost)
  /\ Cardinality(Lost) + Dirt <= runs
  /\ Running => Cardinality(Lost) + Dirt < runs
  /\ runs > 0 => Cardinality(Lost) < runs

\* A finite set with one element more.
LEMMA OneMore ==
  ASSUME NEW S, IsFiniteSet(S), NEW x
  PROVE  /\ IsFiniteSet(S \cup {x}) /\ Cardinality(S \cup {x}) \in Nat
         /\ Cardinality(S \cup {x}) <= Cardinality(S) + 1
<1>1. Cardinality(S) \in Nat /\ IsFiniteSet(S \cup {x})
  BY FS_AddElement, FS_CardinalityType
<1>2. Cardinality(S \cup {x}) = Cardinality(S) \/ Cardinality(S \cup {x}) = Cardinality(S) + 1
  BY FS_AddElement
<1> QED
  BY <1>1, <1>2

\* Every step preserves Losses.
LEMMA LossesStep == Bookkeeping /\ Losses /\ [Next]_vars => Losses'
<1> SUFFICES ASSUME Bookkeeping, Losses, [Next]_vars PROVE Losses'
  OBVIOUS
<1>t. /\ IsFiniteSet(Lost) /\ Cardinality(Lost) \in Nat /\ runs \in Nat
      /\ Dirt \in {0, 1} /\ Dirt' \in {0, 1}
  BY FS_CardinalityType DEF Bookkeeping, TypeOK, Losses, Dirt
<1>1. CASE Load
  <2>1. Lost' = Lost /\ Dirt' = Dirt /\ runs' = runs + 1
    BY <1>1 DEF Load, fileVars, Lost, Dirt
  <2> HIDE DEF Lost, Dirt
  <2> QED
    BY <1>t, <2>1 DEF Losses
<1>2. CASE Write
  <2>1. Running /\ Running' /\ runs' = runs /\ Dirt' = 0
    BY <1>2 DEF Write, Running, Dirt
  <2>2. CASE Dirt = 0
    <3>1. Lost' \subseteq Lost
      BY <1>2, <2>2 DEF Write, Lost, Dirt
    <3>2. IsFiniteSet(Lost') /\ Cardinality(Lost') \in Nat
          /\ Cardinality(Lost') <= Cardinality(Lost)
      BY <1>t, <3>1, FS_Subset, FS_CardinalityType
    <3> HIDE DEF Lost, Dirt, Running
    <3> QED
      BY <1>t, <2>1, <2>2, <3>2 DEF Losses
  <2>3. CASE Dirt = 1
    <3>1. Lost' \subseteq Lost \cup {Cohort[taken]}
      BY <1>2, <2>3 DEF Write, Lost, Dirt
    <3>2. /\ IsFiniteSet(Lost \cup {Cohort[taken]})
          /\ Cardinality(Lost \cup {Cohort[taken]}) <= Cardinality(Lost) + 1
          /\ Cardinality(Lost \cup {Cohort[taken]}) \in Nat
      BY <1>t, OneMore
    <3>3. IsFiniteSet(Lost') /\ Cardinality(Lost') \in Nat
          /\ Cardinality(Lost') <= Cardinality(Lost \cup {Cohort[taken]})
      BY <3>1, <3>2, FS_Subset, FS_CardinalityType
    <3> HIDE DEF Lost, Dirt, Running
    <3> QED
      BY <1>t, <2>1, <2>3, <3>2, <3>3 DEF Losses
  <2> QED
    BY <1>t, <2>2, <2>3
<1>3. CASE Kill \/ KillInWrite
  <2>1. Lost' = Lost /\ runs' = runs /\ Running /\ ~Running'
    BY <1>3 DEF Kill, KillInWrite, Die, Running, fileVars, Lost
  <2> HIDE DEF Lost, Dirt, Running
  <2> QED
    BY <1>t, <2>1 DEF Losses
<1>4. ASSUME UNCHANGED <<fileVars, runs>>, Running' => Running PROVE Losses'
  <2>1. Lost' = Lost /\ Dirt' = Dirt /\ runs' = runs
    BY <1>4 DEF fileVars, Lost, Dirt
  <2> HIDE DEF Lost, Dirt, Running
  <2> QED
    BY <1>4, <2>1 DEF Losses
<1>5. ASSUME Submit \/ StartCollecting \/ Tell \/ Finish \/ Stop \/ Interrupt
      PROVE  UNCHANGED <<fileVars, runs>> /\ Running
  BY <1>5 DEF Submit, StartCollecting, Tell, Finish, Stop, Interrupt, Running
<1>6. ASSUME NEW i \in Positions, StartScan(i) \/ EndScan(i)
      PROVE  UNCHANGED <<fileVars, runs, main>>
  BY <1>6 DEF StartScan, EndScan
<1>7. ASSUME NEW i \in Positions, Take(i) PROVE UNCHANGED <<fileVars, runs>> /\ Running
  BY <1>7 DEF Take, Running
<1>8. ASSUME UNCHANGED vars PROVE UNCHANGED <<fileVars, runs, main>>
  BY <1>8 DEF vars
<1>9. ASSUME UNCHANGED main PROVE Running' <=> Running
  BY <1>9 DEF Running
<1> QED
  BY <1>1, <1>2, <1>3, <1>4, <1>5, <1>6, <1>7, <1>8, <1>9 DEF Next, MainStep, PoolStep, Rest

\* Whatever kills cut, of all the entries n runs ever wrote a resume misses fewer
\* than n: each earlier run costs at most one.
THEOREM BoundedLoss == Spec => []EachRunLosesOne
<1>1. Init => Losses
  <2> SUFFICES ASSUME Init PROVE Losses
    OBVIOUS
  <2>1. Lost = {} /\ Dirt = 0 /\ runs = 0 /\ ~Running
    BY DEF Init, Lost, Dirt, Running
  <2> QED
    BY <2>1, FS_EmptySet DEF Losses
<1>2. Bookkeeping /\ Losses => EachRunLosesOne
  <2> SUFFICES ASSUME Bookkeeping, Losses, runs > 0
               PROVE  Cardinality(saved \ Recoverable) < runs
    BY DEF EachRunLosesOne
  <2>1. saved \ Recoverable \subseteq Lost
    BY RecoverableDomains DEF Lost
  <2>2. /\ Cardinality(saved \ Recoverable) <= Cardinality(Lost)
        /\ Cardinality(saved \ Recoverable) \in Nat /\ Cardinality(Lost) \in Nat
    BY <2>1, FS_Subset, FS_CardinalityType DEF Losses
  <2> QED
    BY <2>2 DEF Losses, Bookkeeping, TypeOK
<1> QED
  BY <1>1, <1>2, LossesStep, BookkeepingInvariant, PTL DEF Spec

-----------------------------------------------------------------------------
(* A started study comes to an end.                                        *)

\* The pool has nothing left to do for a run that is over.
Quiet == ~Running => \A i \in Positions : task[i] \notin {"queued", "running"}

\* What is still to be done for position i: submit, start, end, take, write, tell.
StepsLeft(i) ==
  CASE i >= next                         -> 6
    [] i < next /\ task[i] = "queued"    -> 5
    [] i < next /\ task[i] = "running"   -> 4
    [] i < next /\ task[i] = "finished"  -> 3
    [] i < next /\ task[i] = "taken" /\ i = taken /\ main = "write" -> 2
    [] i < next /\ task[i] = "taken" /\ i = taken /\ main = "tell"  -> 1
    [] OTHER                             -> 0

MainLeft ==
  CASE main = "submit"                      -> 3
    [] main \in {"collect", "write", "tell"} -> 2
    [] main = "draining"                    -> 1
    [] OTHER                                -> 0

ToDo == {x \in Positions \X (1 .. 6) : x[2] <= StepsLeft(x[1])}

Budget == IF Running THEN MainLeft + Cardinality(ToDo) ELSE 0

Most == 6 * Len(Cohort) + 3

LEMMA ToDoIsFinite ==
  /\ IsFiniteSet(ToDo) /\ Cardinality(ToDo) \in Nat /\ Cardinality(ToDo) <= 6 * Len(Cohort)
<1>1. \A n \in Nat : IsFiniteSet(1 .. n) /\ Cardinality(1 .. n) = n
  <2> TAKE n \in Nat
  <2>1. IsFiniteSet(1 .. n) /\ Cardinality(1 .. n) = IF 1 > n THEN 0 ELSE n - 1 + 1
    BY FS_Interval
  <2> QED
    BY <2>1
<1>2. /\ IsFiniteSet(Positions) /\ Cardinality(Positions) = Len(Cohort)
      /\ IsFiniteSet(1 .. 6) /\ Cardinality(1 .. 6) = 6
  BY <1>1, CohortDomains DEF Positions
<1>3. /\ IsFiniteSet(Positions \X (1 .. 6))
      /\ Cardinality(Positions \X (1 .. 6)) = Cardinality(Positions) * Cardinality(1 .. 6)
  BY <1>2, FS_Product
<1>4. Cardinality(Positions \X (1 .. 6)) = 6 * Len(Cohort)
  BY <1>2, <1>3, CohortDomains
<1>5. ToDo \subseteq Positions \X (1 .. 6)
  BY DEF ToDo
<1>6. IsFiniteSet(ToDo) /\ Cardinality(ToDo) <= Cardinality(Positions \X (1 .. 6))
  BY <1>3, <1>5, FS_Subset
<1> QED
  BY <1>4, <1>6, FS_CardinalityType

LEMMA StepsLeftType == \A i \in Positions : StepsLeft(i) \in 0 .. 6
BY DEF StepsLeft

LEMMA MainLeftType ==
  /\ MainLeft \in 0 .. 3
  /\ Running => MainLeft \in 1 .. 3
BY DEF MainLeft, Running

\* If no position has more to do than before, there is no more to do in all, and
\* less if one of them has less.
LEMMA Shrinks ==
  ASSUME \A i \in Positions : StepsLeft(i)' <= StepsLeft(i),
         \A i \in Positions : StepsLeft(i)' \in 0 .. 6
  PROVE  /\ Cardinality(ToDo') \in Nat /\ Cardinality(ToDo') <= Cardinality(ToDo)
         /\ \A i \in Positions : StepsLeft(i)' < StepsLeft(i) =>
              Cardinality(ToDo') < Cardinality(ToDo)
<1>1. ToDo' \subseteq ToDo
  <2> SUFFICES ASSUME NEW x \in ToDo' PROVE x \in ToDo
    OBVIOUS
  <2>1. x \in Positions \X (1 .. 6) /\ x[2] <= StepsLeft(x[1])'
    BY DEF ToDo
  <2>2. x[1] \in Positions /\ x[2] \in 1 .. 6
    BY <2>1
  <2>3. StepsLeft(x[1]) \in 0 .. 6 /\ StepsLeft(x[1])' \in 0 .. 6
        /\ StepsLeft(x[1])' <= StepsLeft(x[1])
    BY <2>2, StepsLeftType
  <2>4. x[2] <= StepsLeft(x[1])
    BY <2>1, <2>2, <2>3
  <2> QED
    BY <2>1, <2>4 DEF ToDo
<1>2. IsFiniteSet(ToDo) /\ Cardinality(ToDo) \in Nat
  BY ToDoIsFinite
<1>3. IsFiniteSet(ToDo') /\ Cardinality(ToDo') \in Nat /\ Cardinality(ToDo') <= Cardinality(ToDo)
  BY <1>1, <1>2, FS_Subset, FS_CardinalityType
<1>4. ASSUME NEW i \in Positions, StepsLeft(i)' < StepsLeft(i)
      PROVE  Cardinality(ToDo') < Cardinality(ToDo)
  <2> DEFINE x == <<i, StepsLeft(i)>>
  <2>1. StepsLeft(i) \in 1 .. 6 /\ StepsLeft(i)' \in 0 .. 6
    BY <1>4, StepsLeftType
  <2>2. x \in ToDo
    BY <2>1 DEF ToDo
  <2>3. x \notin ToDo'
    BY <1>4, <2>1 DEF ToDo
  <2> QED
    BY <1>1, <1>2, <1>3, <2>2, <2>3, FS_Subset
<1> QED
  BY <1>3, <1>4

\* A step that leaves the study running and advances one of the two parts of the
\* budget without setting the other back.
LEMMA BudgetFalls ==
  ASSUME Running,
         \A i \in Positions : StepsLeft(i)' <= StepsLeft(i) /\ StepsLeft(i)' \in 0 .. 6,
         MainLeft' <= MainLeft, MainLeft' \in Nat,
         MainLeft' < MainLeft \/ \E i \in Positions : StepsLeft(i)' < StepsLeft(i)
  PROVE  Budget' < Budget
<1>1. MainLeft \in Nat /\ Cardinality(ToDo) \in Nat /\ MainLeft \in 1 .. 3
  BY MainLeftType, ToDoIsFinite
<1>2. /\ Cardinality(ToDo') \in Nat /\ Cardinality(ToDo') <= Cardinality(ToDo)
      /\ MainLeft' < MainLeft \/ Cardinality(ToDo') < Cardinality(ToDo)
  BY Shrinks
<1>3. Budget = MainLeft + Cardinality(ToDo)
  BY DEF Budget
<1>4. Budget' = MainLeft' + Cardinality(ToDo') \/ Budget' = 0
  BY DEF Budget
<1> HIDE DEF MainLeft, ToDo, Budget
<1> QED
  BY <1>1, <1>2, <1>3, <1>4

LEMMA QuietInit == Init => Quiet
BY DEF Init, Quiet, Idle, Running

LEMMA QuietStep == Bookkeeping /\ Quiet /\ [Next]_vars => Quiet'
<1> SUFFICES ASSUME Bookkeeping, Quiet, [Next]_vars PROVE Quiet'
  OBVIOUS
<1> USE DEF Quiet
<1>1. CASE Load
  BY <1>1 DEF Load, Running
<1>2. CASE Submit \/ StartCollecting \/ Interrupt \/ Write \/ Tell
  BY <1>2 DEF Submit, StartCollecting, Interrupt, Write, Tell, Running
<1>3. CASE \E i \in Positions : Take(i)
  BY <1>3 DEF Take, Running
<1>4. CASE Finish
  BY <1>4 DEF Finish, Running, Pending, Bookkeeping, OnlyMissingScanned
<1>5. CASE Stop
  BY <1>5 DEF Stop, InPool, Running
<1>6. CASE Kill \/ KillInWrite
  BY <1>6 DEF Kill, KillInWrite, Die, Idle
<1>7. CASE \E i \in Positions : PoolStep(i)
  <2>1. PICK i \in Positions : task[i] \in {"queued", "running"} /\ main' = main
    BY <1>7 DEF PoolStep, StartScan, EndScan
  <2> QED
    BY <2>1 DEF Running
<1>8. CASE UNCHANGED vars
  BY <1>8 DEF vars, fileVars, Running
<1> QED
  BY <1>1, <1>2, <1>3, <1>4, <1>5, <1>6, <1>7, <1>8 DEF Next, MainStep, Rest

\* Every step of a run but a start takes from its budget.
LEMMA RunCosts ==
  ASSUME Bookkeeping, Quiet, Next, ~Load, ~UNCHANGED vars
  PROVE  Budget' < Budget
<1> USE DEF Bookkeeping
<1>0. /\ next \in Nat /\ Len(Cohort) \in Nat /\ Positions \subseteq Nat
      /\ \A i \in Positions : task[i] # "none" => i < next
  BY CohortDomains DEF TypeOK, Positions, OnlyMissingScanned
<1>1. CASE Submit
  <2>1. /\ Running /\ MainLeft' = MainLeft /\ MainLeft' \in Nat
        /\ main = "submit" /\ next' = next + 1 /\ UNCHANGED <<main, taken>>
    BY <1>1 DEF Submit, Running, MainLeft
  <2>2. PICK k \in Positions : k = next
    BY <1>1 DEF Submit
  <2>3. task' = IF k \in Pending THEN [task EXCEPT ![k] = "queued"] ELSE task
    BY <1>1, <2>2 DEF Submit
  <2>4. StepsLeft(k) = 6 /\ StepsLeft(k)' \in 0 .. 5
    <3>1. task[k] = "none" /\ k \in Nat /\ k >= next
      BY <1>0, <2>2 DEF TypeOK
    <3>2. task'[k] \in {"queued", "none"}
      BY <2>3, <3>1 DEF TypeOK
    <3>3. k < next' /\ ~(k >= next')
      BY <1>0, <2>1, <2>2
    <3>4. StepsLeft(k) = 6
      BY <3>1 DEF StepsLeft
    <3>5. StepsLeft(k)' \in {5, 0}
      BY <2>1, <3>2, <3>3 DEF StepsLeft
    <3> QED
      BY <3>4, <3>5
  <2>5. ASSUME NEW i \in Positions, i # k PROVE StepsLeft(i)' = StepsLeft(i)
    <3>1. task'[i] = task[i]
      BY <2>3, <2>5 DEF TypeOK
    <3>2. (i >= next' <=> i >= next) /\ (i < next' <=> i < next)
      BY <1>0, <2>1, <2>2, <2>5
    <3> QED
      BY <2>1, <3>1, <3>2 DEF StepsLeft
  <2> HIDE DEF StepsLeft, MainLeft, Budget
  <2>6. \A i \in Positions : StepsLeft(i)' <= StepsLeft(i) /\ StepsLeft(i)' \in 0 .. 6
    <3>1. ASSUME NEW i \in Positions PROVE StepsLeft(i)' <= StepsLeft(i) /\ StepsLeft(i)' \in 0 .. 6
      <4>1. CASE i = k
        BY <2>4, <4>1
      <4>2. CASE i # k
        <5>1. StepsLeft(i) \in 0 .. 6 /\ StepsLeft(i)' = StepsLeft(i)
          BY <2>5, <4>2, StepsLeftType
        <5> QED
          BY <5>1
      <4> QED
        BY <4>1, <4>2
    <3> QED
      BY <3>1
  <2>7. StepsLeft(k)' < StepsLeft(k) /\ MainLeft' <= MainLeft
    BY <2>1, <2>4
  <2> QED
    BY <2>1, <2>6, <2>7, BudgetFalls
<1>2. CASE StartCollecting \/ Interrupt \/ Finish \/ Stop
  <2>1. Running /\ MainLeft' < MainLeft /\ MainLeft' \in Nat /\ main' \notin {"write", "tell"}
        /\ UNCHANGED <<next, task, taken>>
    BY <1>2 DEF StartCollecting, Interrupt, Finish, Stop, Running, MainLeft
  <2>2. \A i \in Positions : StepsLeft(i)' = StepsLeft(i) \/ StepsLeft(i)' = 0
    BY <2>1 DEF StepsLeft
  <2>3. \A i \in Positions : StepsLeft(i)' <= StepsLeft(i) /\ StepsLeft(i)' \in 0 .. 6
    <3> HIDE DEF StepsLeft
    <3> QED
      BY <2>2, StepsLeftType
  <2> HIDE DEF StepsLeft, MainLeft, Budget
  <2> QED
    BY <2>1, <2>3, MainLeftType, BudgetFalls
<1>3. ASSUME NEW k \in Positions, Take(k) PROVE Budget' < Budget
  <2>1. /\ Running /\ MainLeft' = MainLeft /\ MainLeft' \in Nat
        /\ main = "collect" /\ main' = "write" /\ taken' = k /\ next' = next
        /\ task[k] = "finished" /\ task' = [task EXCEPT ![k] = "taken"]
    BY <1>3 DEF Take, Running, MainLeft
  <2>2. task'[k] = "taken" /\ \A i \in Positions \ {k} : task'[i] = task[i]
    BY <2>1 DEF TypeOK
  <2>3. k < next
    BY <1>0, <2>1
  <2>4. StepsLeft(k) = 3 /\ StepsLeft(k)' = 2
    BY <1>0, <2>1, <2>2, <2>3 DEF StepsLeft
  <2>5. \A i \in Positions \ {k} : StepsLeft(i)' = StepsLeft(i)
    BY <1>0, <2>1, <2>2 DEF StepsLeft
  <2>6. \A i \in Positions : StepsLeft(i)' <= StepsLeft(i) /\ StepsLeft(i)' \in 0 .. 6
    BY <2>4, <2>5, StepsLeftType
  <2> HIDE DEF StepsLeft, MainLeft, Budget
  <2> QED
    BY <2>1, <2>4, <2>6, BudgetFalls
<1>4. CASE Write \/ Tell
  <2>1. /\ Running /\ MainLeft' = MainLeft /\ MainLeft' \in Nat /\ UNCHANGED <<next, task, taken>>
        /\ \/ main = "write" /\ main' = "tell"
           \/ main = "tell" /\ main' = "collect"
    BY <1>4 DEF Write, Tell, Running, MainLeft
  <2>2. taken \in Positions /\ task[taken] = "taken" /\ taken < next
    BY <1>0, <2>1 DEF Held
  <2>3. StepsLeft(taken)' < StepsLeft(taken) /\ StepsLeft(taken)' \in 0 .. 6
    BY <1>0, <2>1, <2>2 DEF StepsLeft
  <2>4. \A i \in Positions \ {taken} : StepsLeft(i)' = StepsLeft(i)
    BY <2>1 DEF StepsLeft
  <2>5. StepsLeft(taken) \in 0 .. 6
    BY <2>2, StepsLeftType
  <2>6. \A i \in Positions : StepsLeft(i)' <= StepsLeft(i) /\ StepsLeft(i)' \in 0 .. 6
    <3>1. ASSUME NEW i \in Positions PROVE StepsLeft(i)' <= StepsLeft(i) /\ StepsLeft(i)' \in 0 .. 6
      <4>1. CASE i = taken
        BY <2>1, <2>3, <2>5, <4>1
      <4>2. CASE i # taken
        BY <2>4, <4>2, StepsLeftType
      <4> QED
        BY <4>1, <4>2
    <3> QED
      BY <3>1
  <2>7. \E i \in Positions : StepsLeft(i)' < StepsLeft(i)
    BY <2>1, <2>2, <2>3
  <2> HIDE DEF StepsLeft, MainLeft, Budget
  <2> QED
    BY <2>1, <2>6, <2>7, BudgetFalls
<1>5. CASE Kill \/ KillInWrite
  <2>1. Running /\ ~Running'
    BY <1>5 DEF Kill, KillInWrite, Die, Running
  <2>2. Budget' = 0 /\ Budget = MainLeft + Cardinality(ToDo)
    BY <2>1 DEF Budget
  <2>3. MainLeft \in 1 .. 3 /\ Cardinality(ToDo) \in Nat
    BY <2>1, MainLeftType, ToDoIsFinite
  <2> HIDE DEF MainLeft, ToDo, Budget
  <2> QED
    BY <2>2, <2>3
<1>6. ASSUME NEW k \in Positions, PoolStep(k) PROVE Budget' < Budget
  <2>1. /\ UNCHANGED <<main, next, taken>>
        /\ \/ task[k] = "queued" /\ task' = [task EXCEPT ![k] = "running"]
           \/ task[k] = "running" /\ task' = [task EXCEPT ![k] = "finished"]
    BY <1>6 DEF PoolStep, StartScan, EndScan
  <2>2. Running /\ MainLeft' = MainLeft /\ MainLeft' \in Nat
    BY <2>1, MainLeftType DEF Quiet, MainLeft
  <2>3. /\ k < next /\ \A i \in Positions \ {k} : task'[i] = task[i]
        /\ \/ task[k] = "queued" /\ task'[k] = "running"
           \/ task[k] = "running" /\ task'[k] = "finished"
    BY <1>0, <2>1 DEF TypeOK
  <2>4. StepsLeft(k)' < StepsLeft(k) /\ StepsLeft(k)' \in 0 .. 6
    BY <1>0, <2>1, <2>3 DEF StepsLeft
  <2>5. \A i \in Positions \ {k} : StepsLeft(i)' = StepsLeft(i)
    BY <2>1, <2>3 DEF StepsLeft
  <2>6. \A i \in Positions : StepsLeft(i)' <= StepsLeft(i) /\ StepsLeft(i)' \in 0 .. 6
    BY <2>4, <2>5, StepsLeftType
  <2> HIDE DEF StepsLeft, MainLeft, Budget
  <2> QED
    BY <2>2, <2>4, <2>6, BudgetFalls
<1> QED
  BY <1>1, <1>2, <1>3, <1>4, <1>5, <1>6 DEF Next, MainStep, Rest

\* A study that was started is over, finished, stopped or killed, after at most
\* 6 * Len(Cohort) + 3 steps of its threads and of whoever interrupts it: every
\* step but the start of another run takes from a budget that starts there.  And
\* the pool never works for a run that is over.  This is RunEnds without the
\* scheduling it needs.
THEOREM RunBounded ==
  Spec => [](Budget \in 0 .. Most) /\ [][Load \/ Budget' < Budget]_vars /\ []Quiet
<1>1. Budget \in 0 .. Most
  <2>1. MainLeft \in 0 .. 3 /\ Cardinality(ToDo) \in Nat /\ Cardinality(ToDo) <= 6 * Len(Cohort)
    BY MainLeftType, ToDoIsFinite
  <2>2. Len(Cohort) \in Nat
    BY CohortDomains
  <2> HIDE DEF MainLeft, ToDo
  <2> QED
    BY <2>1, <2>2 DEF Budget, Most
<1>2. Bookkeeping /\ Quiet /\ [Next]_vars => [Load \/ Budget' < Budget]_vars
  BY RunCosts
<1> QED
  BY <1>1, <1>2, QuietInit, QuietStep, BookkeepingInvariant, PTL DEF Spec
=============================================================================
