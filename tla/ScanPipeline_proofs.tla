------------------------ MODULE ScanPipeline_proofs ------------------------
(***************************************************************************)
(* Proofs about ScanPipeline, for any number of names, limit on hosts,     *)
(* number of workers and limit on HTTP checks.                             *)
(*                                                                         *)
(* The invariant says what the stage and the task of each host tell of the *)
(* result under construction (Stages, Answers), how far the racing counter *)
(* can be (Counts), and which checks have been made (Accounts).  Budget    *)
(* counts the steps a scan can still take: every step lowers it.           *)
(***************************************************************************)
EXTENDS ScanPipeline, FiniteSetTheorems, TLAPS

USE NamesAssumption, GuessAssumption, LimitAssumption, WorkersAssumption, HttpAssumption

-----------------------------------------------------------------------------
(* The first n of a host list.                                             *)

LEMMA HostsFinite == IsFiniteSet(Hosts) /\ \A S \in SUBSET Hosts : IsFiniteSet(S)
<1>1. IsFiniteSet(Hosts)
  BY FS_Interval DEF Hosts
<1> QED
  BY <1>1, FS_Subset

\* It has at most n members: each has a rank of its own below n.
LEMMA FirstIsBounded ==
  ASSUME NEW S \in SUBSET Hosts, NEW n \in Nat
  PROVE  /\ First(S, n) \subseteq S
         /\ Cardinality(First(S, n)) <= n
<1> DEFINE Below(k) == {j \in S : j < k}
           rank == [k \in First(S, n) |-> Cardinality(Below(k))]
<1>1. IsFiniteSet(S) /\ S \subseteq Nat /\ First(S, n) \subseteq S
  BY HostsFinite DEF First, Hosts
<1>2. ASSUME NEW k \in S
      PROVE  IsFiniteSet(Below(k)) /\ Cardinality(Below(k)) \in Nat
  BY <1>1, FS_Subset, FS_CardinalityType
<1>3. ASSUME NEW k \in S, NEW m \in S, k < m
      PROVE  Cardinality(Below(k)) < Cardinality(Below(m))
  <2>0. \A j \in S : ~(k < k) /\ (j < k => j < m)
    BY <1>1, <1>3
  <2>1. Below(k) \subseteq Below(m) /\ k \in Below(m) /\ k \notin Below(k)
    BY <1>3, <2>0
  <2>2. Below(k) # Below(m)
    BY <2>1
  <2> HIDE DEF Below
  <2> QED
    BY <1>2, <2>1, <2>2, FS_Subset
<1>4. \A k \in First(S, n) : Cardinality(Below(k)) \in 0 .. (n - 1)
  BY <1>1, <1>2 DEF First
<1>5. rank \in [First(S, n) -> 0 .. (n - 1)]
  BY <1>4
<1>6. \A k, m \in First(S, n) : rank[k] = rank[m] => k = m
  <2> SUFFICES ASSUME NEW k \in First(S, n), NEW m \in First(S, n), rank[k] = rank[m]
               PROVE  k = m
    OBVIOUS
  <2>1. k \in S /\ m \in S /\ k \in Nat /\ m \in Nat
        /\ Cardinality(Below(k)) = Cardinality(Below(m))
    BY <1>1
  <2> HIDE DEF Below, rank
  <2> QED
    BY <1>2, <1>3, <2>1
<1>7. rank \in Injection(First(S, n), 0 .. (n - 1))
  BY <1>5, <1>6 DEF Injection, IsInjective
<1>8. IsFiniteSet(0 .. (n - 1)) /\ Cardinality(0 .. (n - 1)) = n
  BY FS_Interval
<1>9. Cardinality(First(S, n)) <= Cardinality(0 .. (n - 1))
  BY <1>7, <1>8, FS_Injection
<1> QED
  BY <1>1, <1>8, <1>9

-----------------------------------------------------------------------------
(* Types.                                                                  *)

LEMMA TypeStep == TypeOK /\ [Next]_vars => TypeOK'
<1> SUFFICES ASSUME TypeOK, [Next]_vars PROVE TypeOK'
  OBVIOUS
<1> USE DEF TypeOK
<1>0. Apex \in Hosts
  BY DEF Apex, Hosts
<1>1. ASSUME Discover \/ DiscoverRaises \/ FilterLive \/ FilterRaises PROVE TypeOK'
  <2>1. ASSUME NEW S \in SUBSET Hosts PROVE First(S, Limit) \subseteq Hosts
    BY DEF First
  <2>2. Guessable \subseteq Hosts
    BY DEF Hosts
  <2>3. CASE Discover
    <3>1. PICK certified \in SUBSET Hosts, guessed \in SUBSET Guessable :
                found' = First(Collected(certified, guessed), Limit)
      BY <2>3 DEF Discover
    <3>2. Collected(certified, guessed) \subseteq Hosts
      BY <1>0, <2>2 DEF Collected
    <3>3. found' \subseteq Hosts
      BY <2>1, <3>1, <3>2
    <3> QED
      BY <2>3, <3>3 DEF Discover, poolVars, resultVars
  <2>4. CASE DiscoverRaises
    BY <1>0, <2>4 DEF DiscoverRaises, poolVars
  <2>5. CASE FilterLive
    BY <1>0, <2>5 DEF FilterLive, resultVars
  <2>6. CASE FilterRaises
    BY <2>6 DEF FilterRaises, poolVars
  <2> QED
    BY <1>1, <2>3, <2>4, <2>5, <2>6
<1>2. CASE JoinPool
  <2>1. First(reached, MaxHttp) \subseteq Hosts
    BY DEF First
  <2> QED
    BY <1>2, <2>1 DEF JoinPool, poolVars, resultVars
<1>3. CASE CheckHttp
  BY <1>3 DEF CheckHttp, IsFirst, Records, poolVars, Checks
<1>4. CASE CheckDns \/ CheckLicences
  BY <1>4 DEF CheckDns, CheckLicences, Pass, Records, poolVars, Checks
<1>5. CASE HttpDone \/ SkipDns \/ SkipLicences \/ Analyse \/ AnalyseRaises
  BY <1>5 DEF HttpDone, SkipDns, SkipLicences, Analyse, AnalyseRaises, Pass, poolVars,
       resultVars
<1>6. ASSUME NEW h \in Hosts, PoolStep(h) PROVE TypeOK'
  <2>1. CASE StartTask(h) \/ StoreResult(h) \/ TaskRaises(h)
    BY <2>1 DEF StartTask, StoreResult, TaskRaises, TaskMoves
  <2>2. CASE ReadCount(h) \/ WriteCount(h) \/ ReadShare(h) \/ ReportHost(h)
    BY <2>2 DEF ReadCount, WriteCount, ReadShare, ReportHost, TaskMoves
  <2> QED
    BY <1>6, <2>1, <2>2 DEF PoolStep
<1>7. CASE Over \/ UNCHANGED vars
  BY <1>7 DEF Over, vars, poolVars, resultVars
<1> QED
  BY <1>1, <1>2, <1>3, <1>4, <1>5, <1>6, <1>7 DEF Next, RunStep

-----------------------------------------------------------------------------
(* The stages, the tasks of the pool, and what they leave in the result.   *)

\* What the stage of run() says about the hosts and their tasks.
Stages ==
  /\ stage \in {"discovery", "filter"} =>
       /\ hosts = {} /\ completed = 0 /\ shown = 0
       /\ \A h \in Hosts : task[h] = "none"
  /\ stage = "filter" => Cardinality(found) <= Limit
  /\ stage # "tls" => \A h \in Hosts : task[h] \in {"none", "done", "lost"}
  /\ stage \in AfterPool \cup {"tls"} => hosts # {} /\ \A h \in hosts : task[h] # "none"
  /\ \A h \in Hosts : task[h] # "none" => h \in hosts
  /\ Cardinality(hosts) <= Limit

\* A host has an endpoint exactly when its task stored one, and none exactly
\* when its task raised.
Answers ==
  \A h \in Hosts :
    /\ h \in reached \cup missed <=>
         task[h] \in {"read", "write", "share", "report", "done"}
    /\ <<"tls", h>> \in failed <=> task[h] = "lost"
    /\ h \notin reached \cap missed

\* What the tasks read from the counter was never ahead of them.
Counts ==
  /\ BarNeverAhead
  /\ \A h \in Hosts : task[h] \in {"write", "report"} => local[h] <= Cardinality(Counted)

Scanning == TypeOK /\ Stages /\ Answers /\ Counts /\ Cardinality(Busy) <= Workers

\* The steps before the pool, and those after it.
Early == Discover \/ DiscoverRaises \/ FilterLive \/ FilterRaises
Later == CheckHttp \/ HttpDone \/ CheckDns \/ SkipDns \/ CheckLicences \/ SkipLicences
           \/ Analyse \/ AnalyseRaises

LEMMA LaterKeeps ==
  ASSUME TypeOK, Later
  PROVE  /\ UNCHANGED <<options, found, hosts, task, reached, missed, completed, local, shown, said>>
         /\ stage \in AfterPool /\ stage' \in AfterPool \cup {"raised"}
         /\ \A h \in Hosts : <<"tls", h>> \in failed' <=> <<"tls", h>> \in failed
BY DEF Later, CheckHttp, HttpDone, CheckDns, SkipDns, CheckLicences, SkipLicences, Analyse,
     AnalyseRaises, Pass, Records, poolVars, resultVars, AfterPool

\* A pool task moves within the TLS stage, one state at a time.
LEMMA PoolMoves ==
  ASSUME TypeOK, Stages, NEW h \in Hosts, PoolStep(h)
  PROVE  /\ stage = "tls" /\ h \in hosts
         /\ UNCHANGED <<options, stage, found, hosts, httpLeft, has, errors>>
         /\ task' = [task EXCEPT ![h] = task'[h]]
         /\ \/ task[h] = "queued" /\ task'[h] = "scanning"
            \/ task[h] = "scanning" /\ task'[h] \in {"read", "lost"}
            \/ task[h] = "read" /\ task'[h] = "write"
            \/ task[h] = "write" /\ task'[h] = "share"
            \/ task[h] = "share" /\ task'[h] = "report"
            \/ task[h] = "report" /\ task'[h] = "done"
<1>1. task \in [Hosts -> {"none", "queued", "scanning", "read", "write", "share",
                          "report", "done", "lost"}]
  BY DEF TypeOK
<1>2. /\ UNCHANGED <<options, stage, found, hosts, httpLeft, has, errors>>
      /\ task' = [task EXCEPT ![h] = task'[h]]
      /\ \/ task[h] = "queued" /\ task'[h] = "scanning"
         \/ task[h] = "scanning" /\ task'[h] \in {"read", "lost"}
         \/ task[h] = "read" /\ task'[h] = "write"
         \/ task[h] = "write" /\ task'[h] = "share"
         \/ task[h] = "share" /\ task'[h] = "report"
         \/ task[h] = "report" /\ task'[h] = "done"
  BY <1>1 DEF PoolStep, StartTask, StoreResult, TaskRaises, ReadCount, WriteCount, ReadShare,
       ReportHost, TaskMoves
<1> QED
  BY <1>2 DEF Stages

\* The stages and their hosts.
LEMMA StagesStep == TypeOK /\ Stages /\ [Next]_vars => Stages'
<1> SUFFICES ASSUME TypeOK, Stages, [Next]_vars PROVE Stages'
  OBVIOUS
<1>0. /\ Apex \in Hosts /\ Limit \in Nat \ {0} /\ Cardinality({Apex}) = 1
      /\ Cardinality({}) = 0
      /\ \A S \in SUBSET Hosts : Cardinality(First(S, Limit)) <= Limit
  <2>1. Apex \in Hosts
    BY DEF Apex, Hosts
  <2>2. Limit \in Nat
    OBVIOUS
  <2> QED
    BY <2>1, <2>2, FirstIsBounded, FS_Singleton, FS_EmptySet
<1>1. CASE Discover
  <2>1. Cardinality(found') <= Limit
    <3>1. PICK certified \in SUBSET Hosts, guessed \in SUBSET Guessable :
                found' = First(Collected(certified, guessed), Limit)
      BY <1>1 DEF Discover
    <3>2. Collected(certified, guessed) \subseteq Hosts
      BY <1>0 DEF Collected, Hosts
    <3> QED
      BY <1>0, <3>1, <3>2
  <2> QED
    BY <1>1, <2>1 DEF Discover, Stages, poolVars, AfterPool
<1>2. CASE DiscoverRaises
  BY <1>0, <1>2 DEF DiscoverRaises, Stages, poolVars, AfterPool
<1>3. CASE FilterLive
  <2>1. PICK live \in SUBSET found : hosts' = IF live = {} THEN {Apex} ELSE live
    BY <1>3 DEF FilterLive
  <2>2. Cardinality(live) <= Limit
    <3>1. IsFiniteSet(found) /\ Cardinality(found) <= Limit
      BY <1>3, HostsFinite DEF FilterLive, Stages, TypeOK
    <3>2. Cardinality(live) <= Cardinality(found) /\ Cardinality(live) \in Nat
          /\ Cardinality(found) \in Nat
      BY <3>1, FS_Subset, FS_CardinalityType
    <3> QED
      BY <1>0, <3>1, <3>2
  <2>3. hosts' # {} /\ hosts' \subseteq Hosts /\ Cardinality(hosts') <= Limit
    BY <1>0, <2>1, <2>2 DEF TypeOK
  <2> QED
    BY <1>3, <2>3 DEF FilterLive, Stages, AfterPool
<1>4. CASE FilterRaises
  BY <1>4 DEF FilterRaises, Stages, poolVars, AfterPool
<1>5. CASE JoinPool
  BY <1>5 DEF JoinPool, Stages, poolVars, AfterPool
<1>6. CASE Later
  BY <1>6, LaterKeeps DEF Stages, AfterPool
<1>7. CASE \E h \in Hosts : PoolStep(h)
  BY <1>7, PoolMoves DEF Stages, AfterPool, TypeOK
<1>8. CASE Over \/ UNCHANGED vars
  BY <1>8 DEF Over, vars, poolVars, Stages, AfterPool
<1> QED
  BY <1>1, <1>2, <1>3, <1>4, <1>5, <1>6, <1>7, <1>8 DEF Next, RunStep, Later

\* Before the pool there is nothing to count or to answer.
LEMMA EarlyKeeps ==
  ASSUME TypeOK, Stages, Early
  PROVE  /\ UNCHANGED <<reached, missed, completed, local, shown, said>>
         /\ completed = 0 /\ shown = 0
         /\ \A h \in Hosts : task[h] = "none" /\ task'[h] \in {"none", "queued"}
         /\ \A h \in Hosts : <<"tls", h>> \in failed' <=> <<"tls", h>> \in failed
BY DEF Early, Discover, DiscoverRaises, FilterLive, FilterRaises, Stages, poolVars,
     resultVars, TypeOK

LEMMA AnswersStep == TypeOK /\ Stages /\ Answers /\ [Next]_vars => Answers'
<1> SUFFICES ASSUME TypeOK, Stages, Answers, [Next]_vars PROVE Answers'
  OBVIOUS
<1>1. CASE Early
  BY <1>1, EarlyKeeps DEF Answers
<1>2. CASE Later
  BY <1>2, LaterKeeps DEF Answers
<1>3. CASE \E h \in Hosts : PoolStep(h)
  <2> PICK h \in Hosts : PoolStep(h)
    BY <1>3
  <2> USE DEF Answers, TaskMoves, TypeOK
  <2>1. CASE StartTask(h)
    BY <2>1 DEF StartTask
  <2>2. CASE StoreResult(h)
    BY <2>2 DEF StoreResult
  <2>3. CASE TaskRaises(h)
    BY <2>3 DEF TaskRaises
  <2>4. CASE ReadCount(h)
    BY <2>4 DEF ReadCount
  <2>5. CASE WriteCount(h)
    BY <2>5 DEF WriteCount
  <2>6. CASE ReadShare(h)
    BY <2>6 DEF ReadShare
  <2>7. CASE ReportHost(h)
    BY <2>7 DEF ReportHost
  <2> QED
    BY <2>1, <2>2, <2>3, <2>4, <2>5, <2>6, <2>7 DEF PoolStep
<1>4. CASE JoinPool \/ Over \/ UNCHANGED vars
  BY <1>4 DEF JoinPool, Over, vars, poolVars, resultVars, Answers
<1> QED
  BY <1>1, <1>2, <1>3, <1>4 DEF Next, RunStep, Early, Later

\* A count read while it was not ahead is not ahead after one more is counted.
LEMMA CountsStep == TypeOK /\ Stages /\ Counts /\ [Next]_vars => Counts'
<1> SUFFICES ASSUME TypeOK, Stages, Counts, [Next]_vars PROVE Counts'
  OBVIOUS
<1>0. /\ Cardinality(Counted) \in Nat /\ IsFiniteSet(Counted)
      /\ completed <= Cardinality(Counted) /\ shown <= Cardinality(Counted)
      /\ \A h \in Hosts : task[h] \in {"write", "report"} => local[h] <= Cardinality(Counted)
  <2>1. Counted \subseteq Hosts
    BY DEF Counted, TypeOK
  <2> QED
    BY <2>1, HostsFinite, FS_CardinalityType DEF Counts, BarNeverAhead
<1>1. CASE Early
  <2>1. Counted' \subseteq Hosts
    BY <1>1, TypeStep DEF Counted, TypeOK
  <2>2. Cardinality(Counted') \in Nat
    BY <2>1, HostsFinite, FS_CardinalityType
  <2> QED
    BY <1>1, <2>2, EarlyKeeps DEF Counts, BarNeverAhead
<1>2. CASE Later \/ JoinPool \/ Over \/ UNCHANGED vars
  <2>1. UNCHANGED <<hosts, task, completed, local, shown>>
    BY <1>2, LaterKeeps DEF JoinPool, Over, vars, poolVars
  <2> QED
    BY <2>1 DEF Counts, BarNeverAhead, Counted
<1>3. CASE \E h \in Hosts : PoolStep(h)
  <2> PICK h \in Hosts : PoolStep(h)
    BY <1>3
  <2>0. /\ hosts' = hosts /\ h \in hosts /\ task' = [task EXCEPT ![h] = task'[h]]
        /\ task \in [Hosts -> {"none", "queued", "scanning", "read", "write", "share",
                               "report", "done", "lost"}]
        /\ local \in [Hosts -> Nat] /\ completed \in Nat /\ shown \in Nat
        /\ hosts \subseteq Hosts
    BY PoolMoves DEF TypeOK
  <2>1. CASE StartTask(h) \/ StoreResult(h) \/ TaskRaises(h)
    <3>1. UNCHANGED <<completed, local, shown>>
          /\ task[h] \in {"queued", "scanning"} /\ task'[h] \in {"scanning", "read", "lost"}
      BY <2>0, <2>1 DEF StartTask, StoreResult, TaskRaises, TaskMoves
    <3>2. Counted' = Counted
      BY <2>0, <3>1 DEF Counted
    <3> QED
      BY <1>0, <2>0, <3>1, <3>2 DEF Counts, BarNeverAhead
  <2>2. CASE ReadCount(h) \/ ReadShare(h)
    <3>1. /\ UNCHANGED <<completed, shown>> /\ local' = [local EXCEPT ![h] = completed]
          /\ \/ task[h] = "read" /\ task'[h] = "write"
             \/ task[h] = "share" /\ task'[h] = "report"
      BY <2>0, <2>2 DEF ReadCount, ReadShare, TaskMoves
    <3>2. Counted' = Counted
      BY <2>0, <3>1 DEF Counted
    <3> QED
      BY <1>0, <2>0, <3>1, <3>2 DEF Counts, BarNeverAhead
  <2>3. CASE WriteCount(h)
    <3>1. /\ UNCHANGED <<local, shown>> /\ completed' = local[h] + 1
          /\ task[h] = "write" /\ task'[h] = "share"
      BY <2>0, <2>3 DEF WriteCount, TaskMoves
    <3>2. Counted' = Counted \cup {h} /\ h \notin Counted
      BY <2>0, <3>1 DEF Counted
    <3>3. Cardinality(Counted') = Cardinality(Counted) + 1
      BY <1>0, <3>2, FS_AddElement
    <3> QED
      BY <1>0, <2>0, <3>1, <3>3 DEF Counts, BarNeverAhead
  <2>4. CASE ReportHost(h)
    <3>1. /\ UNCHANGED <<local, completed>> /\ shown' = local[h]
          /\ task[h] = "report" /\ task'[h] = "done"
      BY <2>0, <2>4 DEF ReportHost, TaskMoves
    <3>2. Counted' = Counted
      BY <2>0, <3>1 DEF Counted
    <3> QED
      BY <1>0, <2>0, <3>1, <3>2 DEF Counts, BarNeverAhead
  <2> QED
    BY <2>1, <2>2, <2>3, <2>4 DEF PoolStep
<1> QED
  BY <1>1, <1>2, <1>3 DEF Next, RunStep, Early, Later

\* A thread takes a task only while fewer than Workers are at one.
LEMMA BusyStep ==
  TypeOK /\ Stages /\ Cardinality(Busy) <= Workers /\ [Next]_vars
    => Cardinality(Busy') <= Workers
<1> SUFFICES ASSUME TypeOK, Stages, Cardinality(Busy) <= Workers, [Next]_vars
             PROVE  Cardinality(Busy') <= Workers
  OBVIOUS
<1>0. /\ Workers \in Nat \ {0} /\ IsFiniteSet(Busy) /\ Cardinality(Busy) \in Nat
      /\ Cardinality({}) = 0
  <2>1. Busy \subseteq Hosts
    BY DEF Busy
  <2> QED
    BY <2>1, HostsFinite, FS_CardinalityType, FS_EmptySet
<1>1. CASE Early
  <2>1. Busy' = {}
    BY <1>1, EarlyKeeps DEF Busy
  <2> QED
    BY <1>0, <2>1
<1>2. CASE Later \/ JoinPool \/ Over \/ UNCHANGED vars
  <2>1. task' = task
    BY <1>2, LaterKeeps DEF JoinPool, Over, vars, poolVars
  <2> QED
    BY <2>1 DEF Busy
<1>3. CASE \E h \in Hosts : PoolStep(h)
  <2> PICK h \in Hosts : PoolStep(h)
    BY <1>3
  <2>1. CASE StartTask(h)
    <3>1. Busy' = Busy \cup {h} /\ h \notin Busy /\ Cardinality(Busy) < Workers
      BY <2>1 DEF StartTask, TaskMoves, Busy, TypeOK
    <3>2. Cardinality(Busy') = Cardinality(Busy) + 1
      BY <1>0, <3>1, FS_AddElement
    <3> QED
      BY <1>0, <3>1, <3>2
  <2>2. CASE ~StartTask(h)
    <3>1. Busy' \subseteq Busy
      BY <2>2 DEF PoolStep, StoreResult, TaskRaises, ReadCount, WriteCount, ReadShare,
           ReportHost, TaskMoves, Busy, TypeOK
    <3>2. Cardinality(Busy') <= Cardinality(Busy) /\ Cardinality(Busy') \in Nat
      BY <1>0, <3>1, FS_Subset, FS_CardinalityType
    <3> QED
      BY <1>0, <3>2
  <2> QED
    BY <2>1, <2>2
<1> QED
  BY <1>1, <1>2, <1>3 DEF Next, RunStep, Early, Later

LEMMA ScanningInit == Init => Scanning
<1> SUFFICES ASSUME Init PROVE Scanning
  OBVIOUS
<1>1. Busy = {} /\ Counted = {} /\ Cardinality({}) = 0
  BY FS_EmptySet DEF Init, Busy, Counted
<1>2. TypeOK
  BY DEF Init, TypeOK
<1>3. Stages /\ Answers
  BY <1>1 DEF Init, Stages, Answers, AfterPool
<1>4. Counts
  BY <1>1 DEF Init, Counts, BarNeverAhead
<1> QED
  BY <1>1, <1>2, <1>3, <1>4 DEF Scanning

LEMMA ScanningStep == Scanning /\ [Next]_vars => Scanning'
BY TypeStep, StagesStep, AnswersStep, CountsStep, BusyStep DEF Scanning

\* The inductive invariant of a scan.
THEOREM ScanInvariant == Spec => []Scanning
BY ScanningInit, ScanningStep, PTL DEF Spec

\* Every variable keeps its type.
THEOREM TypeCorrect == Spec => []TypeOK
BY ScanInvariant, PTL DEF Scanning

\* After the TLS stage every host is in the report, unless its task raised.
THEOREM HostsAnswered == Spec => []EveryHostAnswered
<1>1. Scanning => EveryHostAnswered
  <2> SUFFICES ASSUME Scanning, stage \in AfterPool PROVE EveryHostAnswered
    BY DEF EveryHostAnswered
  <2>1. hosts # {} /\ \A h \in hosts : h \in Hosts /\ task[h] \in {"done", "lost"}
    BY DEF Scanning, Stages, AfterPool, TypeOK
  <2>2. reached \cup missed \subseteq Hosts /\ reached \cap missed = {}
    BY DEF Scanning, Answers, TypeOK
  <2>3. \A h \in reached \cup missed : h \in hosts /\ <<"tls", h>> \notin failed
    BY <2>2 DEF Scanning, Answers, Stages
  <2>4. \A h \in hosts : <<"tls", h>> \notin failed => h \in reached \cup missed
    BY <2>1 DEF Scanning, Answers
  <2> QED
    BY <2>1, <2>2, <2>3, <2>4 DEF EveryHostAnswered
<1> QED
  BY <1>1, ScanInvariant, PTL

\* At most max_hosts hosts are assessed, by at most Workers threads at a time.
THEOREM Bounded == Spec => []ScanIsBounded
<1>1. Scanning => ScanIsBounded
  BY DEF Scanning, Stages, ScanIsBounded
<1> QED
  BY <1>1, ScanInvariant, PTL

\* Whatever updates of the counter are lost, the bar is never ahead.
THEOREM BarTrails == Spec => []BarNeverAhead
<1>1. Scanning => BarNeverAhead
  BY DEF Scanning, Counts
<1> QED
  BY <1>1, ScanInvariant, PTL

-----------------------------------------------------------------------------
(* ScanPipeline implements ScanPhases.                                     *)

PhaseOf(s) ==
  IF s \in {"discovery", "filter"} THEN "scan"
  ELSE IF s = "tls" THEN "pool"
  ELSE IF s \in {"returned", "raised"} THEN s
  ELSE "rest"

\* A step of the scan is a step of its phases, or none.
LEMMA PhaseStepMaps ==
  ASSUME Scanning, [Next]_vars
  PROVE  [Phases!Next]_<<PhaseOf(stage), said>>
<1>0. TypeOK /\ Stages
  BY DEF Scanning
<1> USE DEF PhaseOf, Phases!Next, Phases!Move, Phases!PoolReports
<1>1. CASE Early
  BY <1>1 DEF Early, Discover, DiscoverRaises, FilterLive, FilterRaises, poolVars
<1>2. CASE JoinPool
  BY <1>2 DEF JoinPool, poolVars
<1>3. CASE Later
  BY <1>3 DEF Later, CheckHttp, HttpDone, CheckDns, SkipDns, CheckLicences, SkipLicences,
       Analyse, AnalyseRaises, Pass, poolVars
<1>4. CASE \E h \in Hosts : PoolStep(h)
  <2> PICK h \in Hosts : PoolStep(h)
    BY <1>4
  <2>1. stage = "tls" /\ stage' = stage
    BY <1>0, PoolMoves
  <2>2. CASE ReportHost(h)
    BY <2>1, <2>2 DEF ReportHost
  <2>3. CASE ~ReportHost(h)
    BY <2>1, <2>3 DEF PoolStep, StartTask, StoreResult, TaskRaises, ReadCount, WriteCount,
         ReadShare
  <2> QED
    BY <2>2, <2>3
<1>5. CASE Over \/ UNCHANGED vars
  BY <1>5 DEF Over, vars, poolVars
<1> QED
  BY <1>1, <1>2, <1>3, <1>4, <1>5 DEF Next, RunStep, Early, Later

\* A scan keeps to the phases its job is written against.
THEOREM Refinement == Spec => PhasesSpec
<1>1. Init => Phases!Init
  BY DEF Init, Phases!Init
<1>2. Scanning /\ [Next]_vars => [Phases!Next]_<<PhaseOf(stage), said>>
  BY PhaseStepMaps
<1> QED
  BY <1>1, <1>2, ScanInvariant, PTL DEF Spec, PhasesSpec, Phases!Spec, PhaseOf

-----------------------------------------------------------------------------
(* Which checks a report accounts for.                                     *)

\* In the report or among its errors; and the checks made so far.
Accounted == has \cup (errors \ {<<"discovery", 0>>})
HttpMade == IF stage \in AfterPool
              THEN {<<"http", h>> : h \in First(reached, MaxHttp) \ httpLeft} ELSE {}
DnsMade == IF options.dns /\ stage \in {"licences", "analysis", "returned"}
             THEN {<<"dns", 0>>} ELSE {}
LicencesMade == IF options.licences /\ reached # {} /\ stage \in {"analysis", "returned"}
                  THEN {<<"licences", 0>>} ELSE {}

Accounts ==
  /\ stage = "http" => httpLeft \subseteq First(reached, MaxHttp)
  /\ stage # "http" => httpLeft = {}
  /\ stage # "raised" =>
       has \cap errors = {} /\ Accounted = HttpMade \cup DnsMade \cup LicencesMade

\* A check that was not accounted for yet is, once, after it is made.
LEMMA Recorded ==
  ASSUME NEW s, NEW h, Records(s, h), <<s, h>> # <<"discovery", 0>>,
         <<s, h>> \notin Accounted, has \cap errors = {}
  PROVE  has' \cap errors' = {} /\ Accounted' = Accounted \cup {<<s, h>>}
BY DEF Records, Accounted

LEMMA AccountsStep == Scanning /\ Accounts /\ [Next]_vars => Accounts'
<1> SUFFICES ASSUME Scanning, Accounts, [Next]_vars PROVE Accounts'
  OBVIOUS
<1>0. TypeOK /\ Stages
  BY DEF Scanning
<1> USE DEF AfterPool
<1>1. CASE Early
  <2>1. stage \in {"discovery", "filter"} /\ stage' \in {"filter", "tls", "raised"}
        /\ has' = has /\ httpLeft' = httpLeft
        /\ (errors' = errors \/ errors' = errors \cup {<<"discovery", 0>>})
    BY <1>1 DEF Early, Discover, DiscoverRaises, FilterLive, FilterRaises, resultVars
  <2>2. <<"discovery", 0>> \notin has
    BY <1>0 DEF TypeOK, Checks
  <2>3. Accounted' = Accounted /\ (has \cap errors = {} => has' \cap errors' = {})
    BY <2>1, <2>2 DEF Accounted
  <2> QED
    BY <2>1, <2>3 DEF Accounts, HttpMade, DnsMade, LicencesMade
<1>2. CASE JoinPool
  BY <1>2 DEF JoinPool, poolVars, resultVars, Accounts, Accounted, HttpMade, DnsMade,
       LicencesMade
<1>3. CASE \E h \in Hosts : PoolStep(h)
  <2>1. /\ UNCHANGED <<options, stage, httpLeft, has, errors>> /\ stage = "tls"
    BY <1>0, <1>3, PoolMoves
  <2> QED
    BY <2>1 DEF Accounts, Accounted, HttpMade, DnsMade, LicencesMade
<1>4. CASE CheckHttp
  <2>1. PICK h \in httpLeft : httpLeft' = httpLeft \ {h} /\ Records("http", h)
    BY <1>4 DEF CheckHttp
  <2>2. stage = "http" /\ UNCHANGED <<options, stage, reached>> /\ h \in First(reached, MaxHttp)
    BY <1>4, <2>1 DEF CheckHttp, poolVars, Accounts
  <2>3. has \cap errors = {} /\ Accounted = HttpMade /\ DnsMade = {} /\ LicencesMade = {}
    BY <2>2 DEF Accounts, DnsMade, LicencesMade
  <2>4. <<"http", h>> \notin HttpMade /\ HttpMade' = HttpMade \cup {<<"http", h>>}
    BY <2>1, <2>2 DEF HttpMade
  <2>5. has' \cap errors' = {} /\ Accounted' = Accounted \cup {<<"http", h>>}
    BY <2>1, <2>3, <2>4, Recorded
  <2>6. DnsMade' = {} /\ LicencesMade' = {}
    BY <2>2 DEF DnsMade, LicencesMade
  <2>7. httpLeft' \subseteq First(reached', MaxHttp)
    BY <2>1, <2>2 DEF Accounts
  <2> QED
    BY <2>2, <2>3, <2>4, <2>5, <2>6, <2>7 DEF Accounts
<1>5. CASE HttpDone \/ SkipDns \/ SkipLicences \/ Analyse \/ AnalyseRaises
  BY <1>5 DEF HttpDone, SkipDns, SkipLicences, Analyse, AnalyseRaises, Pass, poolVars,
       resultVars, Accounts, Accounted, HttpMade, DnsMade, LicencesMade
<1>6. CASE CheckDns
  <2>1. options.dns /\ stage = "dns" /\ stage' = "licences" /\ Records("dns", 0)
        /\ UNCHANGED <<options, reached, httpLeft>>
    BY <1>6 DEF CheckDns, Pass, poolVars
  <2>2. has \cap errors = {} /\ Accounted = HttpMade /\ <<"dns", 0>> \notin HttpMade
    BY <2>1 DEF Accounts, HttpMade, DnsMade, LicencesMade
  <2>3. has' \cap errors' = {} /\ Accounted' = HttpMade \cup {<<"dns", 0>>}
    BY <2>1, <2>2, Recorded
  <2>4. HttpMade' = HttpMade /\ DnsMade' = {<<"dns", 0>>} /\ LicencesMade' = {}
    BY <2>1 DEF HttpMade, DnsMade, LicencesMade
  <2> QED
    BY <2>1, <2>3, <2>4 DEF Accounts
<1>7. CASE CheckLicences
  <2>1. options.licences /\ reached # {} /\ stage = "licences" /\ stage' = "analysis"
        /\ Records("licences", 0) /\ UNCHANGED <<options, reached, httpLeft>>
    BY <1>7 DEF CheckLicences, Pass, poolVars
  <2>2. has \cap errors = {} /\ Accounted = HttpMade \cup DnsMade
        /\ <<"licences", 0>> \notin HttpMade \cup DnsMade
    BY <2>1 DEF Accounts, HttpMade, DnsMade, LicencesMade
  <2>3. has' \cap errors' = {} /\ Accounted' = HttpMade \cup DnsMade \cup {<<"licences", 0>>}
    BY <2>1, <2>2, Recorded
  <2>4. HttpMade' = HttpMade /\ DnsMade' = DnsMade /\ LicencesMade' = {<<"licences", 0>>}
    BY <2>1 DEF HttpMade, DnsMade, LicencesMade
  <2> QED
    BY <2>1, <2>3, <2>4 DEF Accounts
<1>8. CASE Over \/ UNCHANGED vars
  BY <1>8 DEF Over, vars, poolVars, resultVars, Accounts, Accounted, HttpMade, DnsMade,
       LicencesMade
<1> QED
  BY <1>1, <1>2, <1>3, <1>4, <1>5, <1>6, <1>7, <1>8 DEF Next, RunStep, Early

\* Each check of a finished report is in it or among its errors, never both.
THEOREM ChecksComplete == Spec => []ChecksAccounted
<1>1. Init => Accounts
  BY DEF Init, Accounts, Accounted, HttpMade, DnsMade, LicencesMade, AfterPool
<1>2. Accounts => ChecksAccounted
  BY DEF Accounts, Accounted, HttpMade, DnsMade, LicencesMade, AfterPool, ChecksAccounted
<1> QED
  BY <1>1, <1>2, AccountsStep, ScanInvariant, PTL DEF Spec

-----------------------------------------------------------------------------
(* Which failures a report does not show.                                  *)

\* The failures that end run(), and those no stage records.
Fatal  == {<<"filter", 0>>, <<"analysis", 0>>}
Silent == Fatal \cup {<<"tls", h>> : h \in Hosts}

\* What failed and is not among the errors is one of those; run() raises
\* exactly when one of the fatal ones does.
Hidden ==
  /\ failed \ errors \subseteq Silent
  /\ failed \cap Fatal # {} <=> stage = "raised"

LEMMA HiddenStep == Scanning /\ Hidden /\ [Next]_vars => Hidden'
<1> SUFFICES ASSUME Scanning, Hidden, [Next]_vars PROVE Hidden'
  OBVIOUS
<1>0. TypeOK /\ Stages
  BY DEF Scanning
<1> USE DEF Hidden, Silent, Fatal
<1>1. CASE Early
  <2>1. CASE Discover \/ FilterLive
    BY <2>1 DEF Discover, FilterLive, resultVars
  <2>2. CASE DiscoverRaises
    <3>1. /\ stage # "raised" /\ stage' # "raised"
          /\ errors' = errors \cup {<<"discovery", 0>>}
          /\ failed' = failed \cup {<<"discovery", 0>>}
      BY <2>2 DEF DiscoverRaises
    <3>2. <<"discovery", 0>> # <<"filter", 0>> /\ <<"discovery", 0>> # <<"analysis", 0>>
      OBVIOUS
    <3> QED
      BY <3>1, <3>2
  <2>3. CASE FilterRaises
    BY <2>3 DEF FilterRaises
  <2> QED
    BY <1>1, <2>1, <2>2, <2>3 DEF Early
<1>2. CASE CheckHttp \/ CheckDns \/ CheckLicences
  BY <1>2 DEF CheckHttp, CheckDns, CheckLicences, Pass, Records
<1>3. CASE HttpDone \/ SkipDns \/ SkipLicences \/ Analyse \/ AnalyseRaises
  BY <1>3 DEF HttpDone, SkipDns, SkipLicences, Analyse, AnalyseRaises, Pass, resultVars
<1>4. CASE \E h \in Hosts : PoolStep(h)
  <2> PICK h \in Hosts : PoolStep(h)
    BY <1>4
  <2>1. UNCHANGED <<stage, errors>>
    BY <1>0, PoolMoves
  <2>2. failed' = failed \/ failed' = failed \cup {<<"tls", h>>}
    BY DEF PoolStep, StartTask, StoreResult, TaskRaises, ReadCount, WriteCount, ReadShare,
         ReportHost
  <2> QED
    BY <2>1, <2>2
<1>5. CASE JoinPool \/ Over \/ UNCHANGED vars
  BY <1>5 DEF JoinPool, Over, vars, resultVars
<1> QED
  BY <1>1, <1>2, <1>3, <1>4, <1>5 DEF Next, RunStep, Early

\* A finished scan hides only the raise that ended it and the hosts whose task
\* raised, which are missing from its report.
THEOREM FailuresShow == Spec => []HiddenFailures
<1>1. Init => Hidden
  BY DEF Init, Hidden, Silent, Fatal
<1>2. Scanning /\ Hidden => HiddenFailures
  <2> SUFFICES ASSUME Scanning, Hidden PROVE HiddenFailures
    OBVIOUS
  <2>1. \A h \in Hosts : <<"tls", h>> \in failed => h \in hosts \ (reached \cup missed)
    BY DEF Scanning, Answers, Stages, TypeOK
  <2>2. failed \ errors \subseteq
          Fatal \cup {<<"tls", h>> : h \in hosts \ (reached \cup missed)}
    BY <2>1 DEF Hidden, Silent
  <2> QED
    BY <2>2 DEF Hidden, Fatal, HiddenFailures
<1> QED
  BY <1>1, <1>2, HiddenStep, ScanInvariant, PTL DEF Spec

-----------------------------------------------------------------------------
(* A scan cannot go on for ever.                                           *)

\* The steps the task of h has before it, and the stages run() has.
StepsLeft(h) ==
  CASE task[h] \in {"none", "queued"} -> 6
    [] task[h] = "scanning"           -> 5
    [] task[h] = "read"               -> 4
    [] task[h] = "write"              -> 3
    [] task[h] = "share"              -> 2
    [] task[h] = "report"             -> 1
    [] OTHER                          -> 0

StagesLeft ==
  CASE stage = "discovery" -> 7
    [] stage = "filter"    -> 6
    [] stage = "tls"       -> 5
    [] stage = "http"      -> 4
    [] stage = "dns"       -> 3
    [] stage = "licences"  -> 2
    [] stage = "analysis"  -> 1
    [] OTHER               -> 0

ToDo == {x \in Hosts \X (1 .. 6) : x[2] <= StepsLeft(x[1])}

HttpAhead ==
  IF stage \in {"discovery", "filter", "tls"} THEN MaxHttp ELSE Cardinality(httpLeft)

Budget == StagesLeft + Cardinality(ToDo) + HttpAhead

Most == 7 + 6 * Names + MaxHttp

\* The HTTP stage never has more before it than its limit.
HttpBounded == Scanning /\ Cardinality(httpLeft) <= MaxHttp

LEMMA ToDoIsFinite ==
  /\ IsFiniteSet(Hosts \X (1 .. 6)) /\ Cardinality(Hosts \X (1 .. 6)) = 6 * Names
  /\ IsFiniteSet(ToDo) /\ Cardinality(ToDo) \in Nat /\ Cardinality(ToDo) <= 6 * Names
<1>1. /\ IsFiniteSet(Hosts) /\ Cardinality(Hosts) = Names
      /\ IsFiniteSet(1 .. 6) /\ Cardinality(1 .. 6) = 6
  <2>1. \A n \in Nat : IsFiniteSet(1 .. n) /\ Cardinality(1 .. n) = n
    <3> TAKE n \in Nat
    <3>1. IsFiniteSet(1 .. n) /\ Cardinality(1 .. n) = IF 1 > n THEN 0 ELSE n - 1 + 1
      BY FS_Interval
    <3> QED
      BY <3>1
  <2> QED
    BY <2>1 DEF Hosts
<1>2. /\ IsFiniteSet(Hosts \X (1 .. 6))
      /\ Cardinality(Hosts \X (1 .. 6)) = Cardinality(Hosts) * Cardinality(1 .. 6)
  BY <1>1, FS_Product
<1>3. Cardinality(Hosts \X (1 .. 6)) = 6 * Names
  BY <1>1, <1>2
<1>4. ToDo \subseteq Hosts \X (1 .. 6)
  BY DEF ToDo
<1>5. IsFiniteSet(ToDo) /\ Cardinality(ToDo) <= Cardinality(Hosts \X (1 .. 6))
  BY <1>2, <1>4, FS_Subset
<1> QED
  BY <1>2, <1>3, <1>5, FS_CardinalityType

LEMMA HttpIsFinite ==
  Scanning => IsFiniteSet(httpLeft) /\ Cardinality(httpLeft) \in Nat
BY HostsFinite, FS_CardinalityType DEF Scanning, TypeOK

LEMMA BudgetIsNat ==
  HttpBounded => /\ Budget \in Nat /\ Budget <= Most
             /\ StagesLeft \in 0 .. 7 /\ HttpAhead \in 0 .. MaxHttp
<1> SUFFICES ASSUME HttpBounded
             PROVE  /\ Budget \in Nat /\ Budget <= Most
                    /\ StagesLeft \in 0 .. 7 /\ HttpAhead \in 0 .. MaxHttp
  OBVIOUS
<1>1. StagesLeft \in 0 .. 7
  BY DEF StagesLeft
<1>2. HttpAhead \in 0 .. MaxHttp
  BY HttpIsFinite DEF HttpAhead, HttpBounded
<1>3. Cardinality(ToDo) \in Nat /\ Cardinality(ToDo) <= 6 * Names
  BY ToDoIsFinite
<1> HIDE DEF StagesLeft, HttpAhead, ToDo
<1> QED
  BY <1>1, <1>2, <1>3 DEF Budget, Most

\* A step of the pool takes one of the things to do.
LEMMA PoolCosts ==
  ASSUME HttpBounded, NEW h \in Hosts, PoolStep(h)
  PROVE  Budget' < Budget /\ UNCHANGED httpLeft
<1>1. /\ UNCHANGED <<stage, httpLeft>>
      /\ task' = [task EXCEPT ![h] = task'[h]]
      /\ \/ task[h] = "queued" /\ task'[h] = "scanning"
         \/ task[h] = "scanning" /\ task'[h] \in {"read", "lost"}
         \/ task[h] = "read" /\ task'[h] = "write"
         \/ task[h] = "write" /\ task'[h] = "share"
         \/ task[h] = "share" /\ task'[h] = "report"
         \/ task[h] = "report" /\ task'[h] = "done"
  BY PoolMoves DEF HttpBounded, Scanning
<1>2. StepsLeft(h) \in 1 .. 6 /\ StepsLeft(h)' \in 0 .. 6 /\ StepsLeft(h)' < StepsLeft(h)
  BY <1>1 DEF StepsLeft
<1>3. \A g \in Hosts \ {h} : StepsLeft(g)' = StepsLeft(g)
  <2> TAKE g \in Hosts \ {h}
  <2>1. task'[g] = task[g]
    BY <1>1 DEF HttpBounded, Scanning, TypeOK
  <2> QED
    BY <2>1 DEF StepsLeft
<1>4. ToDo' \subseteq ToDo
  <2> SUFFICES ASSUME NEW x \in ToDo' PROVE x \in ToDo
    OBVIOUS
  <2>1. x \in Hosts \X (1 .. 6) /\ x[2] <= StepsLeft(x[1])' /\ x[1] \in Hosts /\ x[2] \in 1 .. 6
    BY DEF ToDo
  <2>2. CASE x[1] = h
    <3>1. x[2] <= StepsLeft(x[1])
      BY <1>2, <2>1, <2>2
    <3> QED
      BY <2>1, <3>1 DEF ToDo
  <2>3. CASE x[1] # h
    <3>1. x[2] <= StepsLeft(x[1])
      BY <1>3, <2>1, <2>3
    <3> QED
      BY <2>1, <3>1 DEF ToDo
  <2> QED
    BY <2>2, <2>3
<1>5. ToDo' # ToDo
  <2> DEFINE x == <<h, StepsLeft(h)>>
  <2>1. x \in ToDo
    BY <1>2 DEF ToDo
  <2>2. x \notin ToDo'
    BY <1>2 DEF ToDo
  <2> QED
    BY <2>1, <2>2
<1>6. Cardinality(ToDo') < Cardinality(ToDo) /\ Cardinality(ToDo') \in Nat
  <2>1. IsFiniteSet(ToDo) /\ Cardinality(ToDo) \in Nat
    BY ToDoIsFinite
  <2>2. IsFiniteSet(ToDo')
    BY <1>4, <2>1, FS_Subset
  <2> QED
    BY <1>4, <1>5, <2>1, <2>2, FS_Subset, FS_CardinalityType
<1>7. StagesLeft' = StagesLeft /\ HttpAhead' = HttpAhead
  BY <1>1 DEF StagesLeft, HttpAhead
<1>8. Budget' = StagesLeft' + Cardinality(ToDo') + HttpAhead'
  BY DEF Budget
<1>9. StagesLeft \in Nat /\ HttpAhead \in Nat /\ Cardinality(ToDo) \in Nat
  BY BudgetIsNat, ToDoIsFinite
<1> HIDE DEF StagesLeft, HttpAhead, ToDo
<1>10. Budget' < Budget
  BY <1>6, <1>7, <1>8, <1>9 DEF Budget
<1> QED
  BY <1>1, <1>10

\* What the run's own steps do to the three parts of the budget.
Pays ==
  /\ ToDo' = ToDo
  /\ \/ StagesLeft' < StagesLeft /\ HttpAhead' <= HttpAhead
     \/ StagesLeft' = StagesLeft /\ HttpAhead' < HttpAhead
  /\ Cardinality(httpLeft') \in Nat /\ Cardinality(httpLeft') <= MaxHttp

LEMMA RunCosts ==
  ASSUME HttpBounded, RunStep
  PROVE  Pays
<1>0. /\ IsFiniteSet(httpLeft) /\ Cardinality(httpLeft) \in Nat /\ Cardinality(httpLeft) <= MaxHttp
      /\ MaxHttp \in Nat
  BY HttpIsFinite DEF HttpBounded
<1>1. ASSUME UNCHANGED task PROVE ToDo' = ToDo
  BY <1>1 DEF ToDo, StepsLeft
<1>2. ASSUME UNCHANGED httpLeft, StagesLeft' < StagesLeft, ToDo' = ToDo,
             stage \in {"discovery", "filter", "tls"}
               \/ stage' \notin {"discovery", "filter", "tls"}
      PROVE  Pays
  BY <1>0, <1>2 DEF Pays, HttpAhead
<1>3. CASE Discover \/ DiscoverRaises
  BY <1>1, <1>2, <1>3 DEF Discover, DiscoverRaises, poolVars, StagesLeft
<1>4. CASE FilterLive
  <2>1. \A h \in Hosts : task[h] = "none" /\ task'[h] \in {"none", "queued"}
    BY <1>4 DEF FilterLive, HttpBounded, Scanning, Stages
  <2>2. \A h \in Hosts : StepsLeft(h)' = StepsLeft(h)
    BY <2>1 DEF StepsLeft
  <2>3. ToDo' = ToDo
    BY <2>2 DEF ToDo
  <2> QED
    BY <1>2, <1>4, <2>3 DEF FilterLive, StagesLeft
<1>5. CASE FilterRaises
  BY <1>1, <1>2, <1>5 DEF FilterRaises, poolVars, StagesLeft
<1>6. CASE JoinPool
  <2>1. stage = "tls" /\ stage' = "http" /\ httpLeft' = First(reached, MaxHttp) /\ UNCHANGED task
    BY <1>6 DEF JoinPool, poolVars
  <2>2. reached \in SUBSET Hosts
    BY DEF HttpBounded, Scanning, TypeOK
  <2>3. httpLeft' \subseteq Hosts /\ Cardinality(httpLeft') <= MaxHttp
    BY <2>1, <2>2, FirstIsBounded
  <2>4. Cardinality(httpLeft') \in Nat
    BY <2>3, HostsFinite, FS_CardinalityType
  <2> QED
    BY <1>0, <1>1, <2>1, <2>3, <2>4 DEF Pays, HttpAhead, StagesLeft
<1>7. CASE CheckHttp
  <2>1. PICK h \in httpLeft : httpLeft' = httpLeft \ {h}
    BY <1>7 DEF CheckHttp
  <2>2. stage = "http" /\ UNCHANGED <<stage, task>>
    BY <1>7 DEF CheckHttp, poolVars
  <2>3. Cardinality(httpLeft') = Cardinality(httpLeft) - 1 /\ IsFiniteSet(httpLeft')
    BY <1>0, <2>1, FS_RemoveElement
  <2>4. Cardinality(httpLeft') \in Nat
    BY <2>3, FS_CardinalityType
  <2> QED
    BY <1>0, <1>1, <2>2, <2>3, <2>4 DEF Pays, HttpAhead, StagesLeft
<1>8. CASE HttpDone \/ CheckDns \/ SkipDns \/ CheckLicences \/ SkipLicences \/ Analyse \/ AnalyseRaises
  <2>1. /\ UNCHANGED <<task, httpLeft>>
        /\ \/ stage = "http" /\ stage' = "dns"
           \/ stage = "dns" /\ stage' = "licences"
           \/ stage = "licences" /\ stage' = "analysis"
           \/ stage = "analysis" /\ stage' \in {"returned", "raised"}
    BY <1>8 DEF HttpDone, CheckDns, SkipDns, CheckLicences, SkipLicences, Analyse, AnalyseRaises,
         Pass, poolVars
  <2> QED
    BY <1>1, <1>2, <2>1 DEF StagesLeft
<1> QED
  BY <1>3, <1>4, <1>5, <1>6, <1>7, <1>8 DEF RunStep

\* A scan is over after at most 7 + 6 * Names + MaxHttp steps of the job's and the
\* pool's threads together, however their steps interleave and whatever raises:
\* every one takes from a budget that starts there.  This is ScanEnds without
\* the scheduling it needs.
THEOREM ScanSteps ==
  Spec => [](Budget \in 0 .. Most) /\ [][Budget' < Budget]_vars
<1>1. Init => HttpBounded
  <2>1. Init => httpLeft = {}
    BY DEF Init
  <2> QED
    BY <2>1, ScanningInit, FS_EmptySet DEF HttpBounded
<1>2. HttpBounded => Budget \in 0 .. Most
  <2> SUFFICES ASSUME HttpBounded PROVE Budget \in 0 .. Most
    OBVIOUS
  <2>1. Budget \in Nat /\ Budget <= Most /\ Most \in Nat
    BY BudgetIsNat DEF Most
  <2> HIDE DEF Budget, Most
  <2> QED
    BY <2>1
<1>3. HttpBounded /\ [Next]_vars => HttpBounded' /\ [Budget' < Budget]_vars
  <2> SUFFICES ASSUME HttpBounded, [Next]_vars PROVE HttpBounded' /\ [Budget' < Budget]_vars
    OBVIOUS
  <2>1. Scanning'
    BY ScanningStep DEF HttpBounded
  <2>2. CASE UNCHANGED vars
    BY <2>1, <2>2 DEF HttpBounded, vars
  <2>3. CASE \E h \in Hosts : PoolStep(h)
    BY <2>1, <2>3, PoolCosts DEF HttpBounded
  <2>4. CASE RunStep
    <3>1. Pays
      BY <2>4, RunCosts
    <3>2. HttpBounded'
      BY <2>1, <3>1 DEF Pays, HttpBounded
    <3>3. HttpBounded' => (StagesLeft \in 0 .. 7 /\ HttpAhead \in 0 .. MaxHttp)'
      BY BudgetIsNat, PTL
    <3>4. /\ StagesLeft \in Nat /\ HttpAhead \in Nat /\ Cardinality(ToDo) \in Nat
          /\ StagesLeft' \in Nat /\ HttpAhead' \in Nat
      BY <3>2, <3>3, BudgetIsNat, ToDoIsFinite
    <3>5. Budget' = StagesLeft' + Cardinality(ToDo) + HttpAhead'
      BY <3>1 DEF Pays, Budget
    <3> HIDE DEF StagesLeft, HttpAhead, ToDo
    <3>6. Budget' < Budget
      BY <3>1, <3>4, <3>5 DEF Pays, Budget
    <3> QED
      BY <3>2, <3>6
  <2>5. CASE Over
    BY <2>1, <2>5 DEF Over, HttpBounded, vars
  <2> QED
    BY <2>2, <2>3, <2>4, <2>5 DEF Next
<1> QED
  BY <1>1, <1>2, <1>3, PTL DEF Spec
=============================================================================
