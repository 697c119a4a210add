------------------------- MODULE ScanServer_proofs -------------------------
(***************************************************************************)
(* Proofs about ScanServer, for any number of handlers, slots and jobs.    *)
(*                                                                         *)
(* The inductive invariant IInv is built in three layers: Ids (types and   *)
(* the numbering of the jobs), SlotsAccounted with the bound on _running,  *)
(* and NewestRetained.  Each layer is preserved given the ones before it.  *)
(***************************************************************************)
EXTENDS ScanServer, FiniteSetTheorems, TLAPS

InSlot == {h \in Posts : post[h] = "slot"}

\* Ids are given out in order and within the bound: every accepted request
\* makes at most one job.
IdsInOrder ==
  /\ accepted <= MaxAccepted
  /\ made + Cardinality(InSlot) <= accepted
  /\ \A j \in Jobs : j > made => runner[j] = "none"

\* What a handler with a job knows about it.
CreatedJobs ==
  \A h \in Posts : post[h] = "created" => mine[h] \in 1 .. made

Ids == TypeOK /\ IdsInOrder /\ CreatedJobs /\ OneHandlerPerJob

IInv == Ids /\ SlotsAccounted /\ running <= MaxConcurrent /\ NewestRetained

USE PostsAssumption, ConcurrentAssumption, RetainedAssumption, AcceptedAssumption

\* The three sets of actors that are counted are finite.
LEMMA Counts ==
  /\ IsFiniteSet(InSlot) /\ Cardinality(InSlot) \in Nat
  /\ IsFiniteSet(Holding) /\ Cardinality(Holding) \in Nat
  /\ IsFiniteSet(Live) /\ Cardinality(Live) \in Nat
<1>1. IsFiniteSet(Jobs)
  BY FS_Interval DEF Jobs
<1>2. InSlot \in SUBSET Posts /\ Holding \in SUBSET Posts /\ Live \in SUBSET Jobs
  BY DEF InSlot, Holding, Live
<1>3. IsFiniteSet(InSlot) /\ IsFiniteSet(Holding) /\ IsFiniteSet(Live)
  BY <1>1, <1>2, FS_Subset
<1> QED
  BY <1>3, FS_CardinalityType

\* How one handler's or one job's step changes the sets that are counted.
LEMMA Joins ==
  ASSUME NEW S, NEW x, IsFiniteSet(S), x \notin S
  PROVE  Cardinality(S \cup {x}) = Cardinality(S) + 1
BY FS_AddElement

LEMMA Leaves ==
  ASSUME NEW S, NEW x, IsFiniteSet(S), x \in S
  PROVE  Cardinality(S \ {x}) = Cardinality(S) - 1 /\ Cardinality(S) >= 1
<1>1. Cardinality(S \ {x}) = Cardinality(S) - 1 /\ IsFiniteSet(S \ {x})
  BY FS_RemoveElement
<1>2. Cardinality(S \ {x}) \in Nat /\ Cardinality(S) \in Nat
  BY <1>1, FS_CardinalityType
<1> QED
  BY <1>1, <1>2

\* Appending the next id to ids that are numbered without a gap.
LEMMA Appended ==
  ASSUME NEW n \in Nat, NEW S, NEW s \in Seq(S), n + 1 \in S, Len(s) <= n,
         \A i \in 1 .. Len(s) : s[i] = n - Len(s) + i
  PROVE  /\ Append(s, n + 1) \in Seq(S)
         /\ Len(Append(s, n + 1)) = Len(s) + 1
         /\ \A i \in 1 .. Len(s) + 1 : Append(s, n + 1)[i] = n - Len(s) + i
OBVIOUS

\* Dropping the first c elements of a sequence.
LEMMA Dropped ==
  ASSUME NEW S, NEW t \in Seq(S), NEW c \in 0 .. Len(t)
  PROVE  /\ SubSeq(t, c + 1, Len(t)) \in Seq(S)
         /\ Len(SubSeq(t, c + 1, Len(t))) = Len(t) - c
         /\ \A i \in 1 .. Len(t) - c : SubSeq(t, c + 1, Len(t))[i] = t[c + i]
OBVIOUS

\* The first c elements of ids numbered from b + 1 are an interval.
LEMMA FirstIds ==
  ASSUME NEW b \in Int, NEW t, NEW m \in Nat, \A i \in 1 .. m : t[i] = b + i,
         NEW c \in 0 .. m
  PROVE  {t[i] : i \in 1 .. c} = (b + 1) .. (b + c)
<1>1. \A i \in 1 .. c : t[i] \in (b + 1) .. (b + c)
  OBVIOUS
<1>2. ASSUME NEW e \in (b + 1) .. (b + c)
      PROVE  \E i \in 1 .. c : t[i] = e
  <2>1. e - b \in 1 .. c /\ b + (e - b) = e
    OBVIOUS
  <2>2. t[e - b] = e
    BY <2>1
  <2> QED
    BY <2>1, <2>2
<1> QED
  BY <1>1, <1>2

-----------------------------------------------------------------------------
(* Layer 1: types, and the numbering of the jobs.                          *)

\* A handler in "slot" has an id left to give out.
LEMMA IdLeft ==
  ASSUME Ids, NEW h \in Posts, post[h] = "slot"
  PROVE  made + 1 \in Jobs /\ runner[made + 1] = "none"
<1>1. h \in InSlot
  BY DEF InSlot
<1>2. Cardinality(InSlot) >= 1
  BY <1>1, Counts, Leaves
<1> QED
  BY <1>2, Counts DEF Ids, IdsInOrder, TypeOK, Jobs

\* The initial state satisfies the first layer.
LEMMA IdsInit == Init => Ids
<1> SUFFICES ASSUME Init PROVE Ids
  OBVIOUS
<1>1. InSlot = {}
  BY DEF Init, InSlot
<1>2. Cardinality(InSlot) = 0
  BY <1>1, FS_EmptySet
<1> QED
  BY <1>2 DEF Init, Ids, TypeOK, IdsInOrder, CreatedJobs, OneHandlerPerJob, Jobs

\* Every step preserves the first layer.
LEMMA IdsStep == Ids /\ [Next]_vars => Ids'
<1> SUFFICES ASSUME Ids, [Next]_vars PROVE Ids'
  OBVIOUS
<1> USE DEF Ids, TypeOK, IdsInOrder, CreatedJobs, OneHandlerPerJob
<1>1. ASSUME NEW h \in Posts, AcquireSlot(h) PROVE Ids'
  <2>1. InSlot' = InSlot \cup {h} /\ h \notin InSlot
    BY <1>1 DEF AcquireSlot, InSlot
  <2>2. Cardinality(InSlot') = Cardinality(InSlot) + 1
    BY <2>1, Counts, Joins
  <2>3. TypeOK'
    BY <1>1 DEF AcquireSlot
  <2>4. IdsInOrder'
    BY <1>1, <2>2, Counts DEF AcquireSlot
  <2> QED
    BY <1>1, <2>3, <2>4 DEF AcquireSlot
<1>2. ASSUME NEW h \in Posts, Refuse(h) PROVE Ids'
  <2>1. InSlot' = InSlot
    BY <1>2 DEF Refuse, InSlot
  <2> QED
    BY <1>2, <2>1 DEF Refuse, storeVars, histVars
<1>3. ASSUME NEW h \in Posts, OptionsRaise(h) PROVE Ids'
  <2>1. InSlot' = InSlot \ {h} /\ h \in InSlot
    BY <1>3 DEF OptionsRaise, Abandon, InSlot
  <2>2. Cardinality(InSlot') <= Cardinality(InSlot) /\ Cardinality(InSlot') \in Nat
    BY <2>1, Counts, Leaves
  <2>3. TypeOK'
    BY <1>3 DEF OptionsRaise, Abandon, storeVars
  <2>4. IdsInOrder'
    BY <1>3, <2>2, Counts DEF OptionsRaise, Abandon, storeVars
  <2> QED
    BY <1>3, <2>3, <2>4 DEF OptionsRaise, Abandon, storeVars
<1>4. ASSUME NEW h \in Posts, StartRaises(h) PROVE Ids'
  <2>1. InSlot' = InSlot
    BY <1>4 DEF StartRaises, Abandon, InSlot
  <2> QED
    BY <1>4, <2>1 DEF StartRaises, Abandon, storeVars
<1>5. ASSUME NEW h \in Posts, Create(h) PROVE Ids'
  <2>1. InSlot' = InSlot \ {h} /\ h \in InSlot
    BY <1>5 DEF Create, InSlot
  <2>2. Cardinality(InSlot') = Cardinality(InSlot) - 1
    BY <2>1, Counts, Leaves
  <2>3. made + 1 \in Jobs /\ runner[made + 1] = "none"
    BY <1>5, IdLeft DEF Create
  <2>4. order' \in Seq(Jobs)
    <3> DEFINE listed == Append(order, made + 1)
    <3>1. listed \in Seq(Jobs)
      BY <2>3
    <3>2. order' = SubSeq(listed, Excess(listed) + 1, Len(listed))
      BY <1>5 DEF Create
    <3> HIDE DEF listed
    <3>3. Excess(listed) \in 0 .. Len(listed)
      BY <3>1 DEF Excess
    <3> QED
      BY <3>1, <3>2, <3>3, Dropped
  <2>5. TypeOK'
    <3>1. jobs' \subseteq Jobs /\ mine' \in [Posts -> Jobs \cup {0}]
      BY <1>5, <2>3 DEF Create
    <3>2. post' \in [Posts -> {"idle", "slot", "created"}] /\ made' \in Nat
      BY <1>5 DEF Create
    <3> QED
      BY <1>5, <2>4, <3>1, <3>2 DEF Create
  <2>6. IdsInOrder'
    <3>1. made' = made + 1 /\ accepted' = accepted /\ runner' = runner
      BY <1>5 DEF Create
    <3> QED
      BY <2>2, <3>1, Counts DEF Jobs
  <2>7. CreatedJobs'
    BY <1>5, <2>3 DEF Create
  <2>8. OneHandlerPerJob'
    BY <1>5, <2>3 DEF Create
  <2> QED
    BY <2>5, <2>6, <2>7, <2>8
<1>6. ASSUME NEW h \in Posts, StartThread(h) PROVE Ids'
  <2>1. InSlot' = InSlot
    BY <1>6 DEF StartThread, InSlot
  <2>2. mine[h] \in 1 .. made /\ mine[h] \in Jobs
    BY <1>6, Counts DEF StartThread, Jobs
  <2>3. TypeOK'
    BY <1>6, <2>2 DEF StartThread, storeVars, histVars
  <2>4. IdsInOrder'
    BY <1>6, <2>1, <2>2 DEF StartThread, storeVars, histVars
  <2>5. CreatedJobs' /\ OneHandlerPerJob'
    BY <1>6, <2>2 DEF StartThread, storeVars, histVars
  <2> QED
    BY <2>3, <2>4, <2>5
<1>7. ASSUME NEW j \in Jobs, RunnerStep(j) PROVE Ids'
  <2>1. InSlot' = InSlot
    BY <1>7 DEF RunnerStep, BeginScan, FinishScan, ReleaseSlot, RunnerMoves, InSlot
  <2>2. PICK to \in {"running", "finished", "ended"} :
           runner[j] # "none" /\ runner' = [runner EXCEPT ![j] = to]
    BY <1>7 DEF RunnerStep, BeginScan, FinishScan, ReleaseSlot, RunnerMoves
  <2>3. UNCHANGED <<order, jobs, post, mine, accepted, made, leaked, reply>>
    BY <1>7 DEF RunnerStep, BeginScan, FinishScan, ReleaseSlot, RunnerMoves, histVars
  <2>4. running' \in Nat
    BY <1>7 DEF RunnerStep, BeginScan, FinishScan, ReleaseSlot
  <2>5. TypeOK'
    BY <2>2, <2>3, <2>4
  <2>6. IdsInOrder'
    BY <2>1, <2>2, <2>3
  <2>7. CreatedJobs' /\ OneHandlerPerJob'
    BY <2>2, <2>3
  <2> QED
    BY <2>5, <2>6, <2>7
<1>8. CASE UNCHANGED vars
  <2>1. InSlot' = InSlot
    BY <1>8 DEF InSlot, vars
  <2> QED
    BY <1>8, <2>1 DEF vars, storeVars, histVars
<1> QED
  BY <1>1, <1>2, <1>3, <1>4, <1>5, <1>6, <1>7, <1>8 DEF Next, PostStep, Spent

-----------------------------------------------------------------------------
(* Layer 2: what _running counts.                                          *)

SlotsInv == SlotsAccounted /\ running <= MaxConcurrent

\* The initial state satisfies the second layer.
LEMMA SlotsInit == Init => SlotsInv
<1> SUFFICES ASSUME Init PROVE SlotsInv
  OBVIOUS
<1>1. Holding = {} /\ Live = {}
  BY DEF Init, Holding, Live
<1> QED
  BY <1>1, FS_EmptySet DEF Init, SlotsInv, SlotsAccounted

\* Every step preserves the second layer.
LEMMA SlotsStep == Ids /\ Ids' /\ SlotsInv /\ [Next]_vars => SlotsInv'
<1> SUFFICES ASSUME Ids, Ids', SlotsInv, [Next]_vars PROVE SlotsInv'
  OBVIOUS
<1> USE DEF SlotsInv, SlotsAccounted
<1>t. TypeOK
  BY DEF Ids
<1>n. running \in Nat /\ leaked \in Nat
  BY <1>t DEF TypeOK
<1>1. ASSUME NEW h \in Posts, AcquireSlot(h) PROVE SlotsInv'
  <2>1. Holding' = Holding \cup {h} /\ h \notin Holding /\ Live' = Live
    BY <1>1, <1>t DEF AcquireSlot, Holding, Live, TypeOK
  <2>2. Cardinality(Holding') = Cardinality(Holding) + 1
    BY <2>1, Counts, Joins
  <2> QED
    BY <1>1, <1>n, <2>1, <2>2, Counts DEF AcquireSlot
<1>2. ASSUME NEW h \in Posts, Refuse(h) PROVE SlotsInv'
  <2>1. Holding' = Holding /\ Live' = Live
    BY <1>2 DEF Refuse, Holding, Live
  <2> QED
    BY <1>2, <2>1 DEF Refuse, storeVars, histVars
<1>3. ASSUME NEW h \in Posts, OptionsRaise(h) \/ StartRaises(h) PROVE SlotsInv'
  <2>0. Live' = Live
    BY <1>3 DEF OptionsRaise, StartRaises, Abandon, Live
  <2>1. Holding' = Holding \ {h} /\ h \in Holding
    BY <1>3, <1>t DEF OptionsRaise, StartRaises, Abandon, Holding, TypeOK
  <2>2. Cardinality(Holding') = Cardinality(Holding) - 1
    BY <2>1, Counts, Leaves
  <2>3. running' = running /\ leaked' = leaked + 1
    BY <1>3 DEF OptionsRaise, StartRaises, Abandon, storeVars
  <2> QED
    BY <1>n, <2>0, <2>2, <2>3, Counts
<1>4. ASSUME NEW h \in Posts, Create(h) PROVE SlotsInv'
  <2>1. Holding' = Holding /\ Live' = Live
    BY <1>4, <1>t DEF Create, Holding, Live, TypeOK
  <2> QED
    BY <1>4, <2>1 DEF Create
<1>5. ASSUME NEW h \in Posts, StartThread(h) PROVE SlotsInv'
  <2>1. Holding' = Holding \ {h} /\ h \in Holding
    BY <1>5, <1>t DEF StartThread, Holding, TypeOK
  <2>2. runner[mine[h]] = "none" /\ mine[h] \in Jobs
    BY <1>5, <1>t, Counts DEF StartThread, Ids, CreatedJobs, OneHandlerPerJob,
                              IdsInOrder, TypeOK, Jobs
  <2>3. Live' = Live \cup {mine[h]} /\ mine[h] \notin Live
    BY <1>5, <1>t, <2>2 DEF StartThread, Live, TypeOK
  <2>4. Cardinality(Holding') = Cardinality(Holding) - 1
    BY <2>1, Counts, Leaves
  <2>5. Cardinality(Live') = Cardinality(Live) + 1
    BY <2>3, Counts, Joins
  <2>6. running' = running /\ leaked' = leaked
    BY <1>5 DEF StartThread, storeVars, histVars
  <2> QED
    BY <1>n, <2>4, <2>5, <2>6, Counts
<1>6. ASSUME NEW j \in Jobs, BeginScan(j) \/ FinishScan(j) PROVE SlotsInv'
  <2>1. Holding' = Holding /\ Live' = Live
    BY <1>6, <1>t DEF BeginScan, FinishScan, RunnerMoves, Holding, Live, TypeOK
  <2> QED
    BY <1>6, <2>1 DEF BeginScan, FinishScan, RunnerMoves, histVars
<1>7. ASSUME NEW j \in Jobs, ReleaseSlot(j) PROVE SlotsInv'
  <2>1. Holding' = Holding /\ Live' = Live \ {j} /\ j \in Live
    BY <1>7, <1>t DEF ReleaseSlot, RunnerMoves, Holding, Live, TypeOK
  <2>2. Cardinality(Live') = Cardinality(Live) - 1 /\ Cardinality(Live) >= 1
    BY <2>1, Counts, Leaves
  <2>3. running >= 1
    BY <1>n, <2>2, Counts
  <2>4. running' = running - 1 /\ leaked' = leaked
    BY <1>7, <2>3 DEF ReleaseSlot, RunnerMoves, histVars
  <2> QED
    BY <1>n, <2>1, <2>2, <2>4, Counts
<1>8. CASE UNCHANGED vars
  <2>1. Holding' = Holding /\ Live' = Live
    BY <1>8 DEF Holding, Live, vars
  <2> QED
    BY <1>8, <2>1 DEF vars, storeVars, histVars
<1> QED
  BY <1>1, <1>2, <1>3, <1>4, <1>5, <1>6, <1>7, <1>8
     DEF Next, PostStep, RunnerStep, Spent

-----------------------------------------------------------------------------
(* Layer 3: the jobs the store keeps.                                      *)

\* Every step preserves the third layer.
LEMMA RetainedStep == Ids /\ NewestRetained /\ [Next]_vars => NewestRetained'
<1> SUFFICES ASSUME Ids, NewestRetained, [Next]_vars PROVE NewestRetained'
  OBVIOUS
<1>t. order \in Seq(Jobs) /\ made \in Nat
  BY DEF Ids, TypeOK
<1>1. ASSUME NEW h \in Posts, Create(h) PROVE NewestRetained'
  <2> DEFINE n      == Len(order)
             base   == made - n
             listed == Append(order, made + 1)
             cut    == Excess(listed)
  <2>1. made + 1 \in Jobs
    BY <1>1, IdLeft DEF Create
  <2>2. /\ n = IF made <= MaxRetained THEN made ELSE MaxRetained
        /\ \A i \in 1 .. n : order[i] = base + i
        /\ jobs = (base + 1) .. made
    <3>1. DOMAIN order = 1 .. n
      BY <1>t
    <3> QED
      BY <3>1, Zenon DEF NewestRetained
  <2>3. n \in Nat /\ n <= made /\ n <= MaxRetained /\ base \in Nat
    BY <1>t, <2>2
  <2>4. /\ listed \in Seq(Jobs)
        /\ Len(listed) = n + 1
        /\ \A i \in 1 .. n + 1 : listed[i] = base + i
    <3>1. n <= made /\ \A i \in 1 .. Len(order) : order[i] = made - Len(order) + i
      BY <2>2, <2>3, Zenon
    <3>2. order \in Seq(Jobs) /\ made \in Nat /\ Len(order) <= made
      BY <1>t, <3>1, Zenon
    <3> HIDE DEF n, base, listed
    <3>3. LET s == Append(order, made + 1)
          IN  /\ s \in Seq(Jobs) /\ Len(s) = Len(order) + 1
              /\ \A i \in 1 .. Len(order) + 1 : s[i] = made - Len(order) + i
      BY <2>1, <3>1, <3>2, Appended
    <3> QED
      BY <3>3 DEF n, base, listed
  <2>5. cut = IF n + 1 > MaxRetained THEN n + 1 - MaxRetained ELSE 0
    BY <2>4 DEF Excess
  <2>6. /\ made' = made + 1
        /\ order' = SubSeq(listed, cut + 1, Len(listed))
        /\ jobs' = (jobs \cup {made + 1}) \ {listed[i] : i \in 1 .. cut}
    BY <1>1 DEF Create
  <2> HIDE DEF listed, cut
  <2>7. cut \in 0 .. n + 1
    BY <2>3, <2>5
  <2>8. /\ order' \in Seq(Jobs)
        /\ Len(order') = n + 1 - cut
        /\ \A i \in 1 .. n + 1 - cut : order'[i] = listed[cut + i]
    BY <2>4, <2>6, <2>7, Dropped
  <2> HIDE DEF n, base
  <2>l. Len(order') = n + 1 - cut
    BY <2>8
  <2>m. made' = made + 1 /\ made = base + n
    BY <1>t, <2>3, <2>6 DEF base
  <2>9. made' - Len(order') = base + cut
    BY <2>3, <2>7, <2>l, <2>m
  <2>10. Len(order') = IF made' <= MaxRetained THEN made' ELSE MaxRetained
    BY <1>t, <2>2, <2>3, <2>5, <2>l, <2>m
  <2>11. \A i \in DOMAIN order' : order'[i] = made' - Len(order') + i
    <3>1. \A i \in 1 .. n + 1 - cut : cut + i \in 1 .. n + 1 /\ base + (cut + i) = base + cut + i
      BY <2>3, <2>7
    <3>2. \A i \in 1 .. n + 1 - cut : order'[i] = base + cut + i
      BY <2>4, <2>8, <3>1
    <3> QED
      BY <2>8, <2>9, <3>2
  <2>12. jobs' = (made' - Len(order') + 1) .. made'
    <3>0. n + 1 \in Nat /\ base \in Int /\ \A i \in 1 .. n + 1 : listed[i] = base + i
      BY <2>3, <2>4
    <3>1. {listed[i] : i \in 1 .. cut} = (base + 1) .. (base + cut)
      BY <2>7, <3>0, FirstIds
    <3>2. jobs \cup {made + 1} = (base + 1) .. (made + 1)
      BY <1>t, <2>2, <2>3 DEF base
    <3>3. jobs' = ((base + 1) .. (made + 1)) \ ((base + 1) .. (base + cut))
      BY <2>6, <3>1, <3>2
    <3>4. jobs' = (base + cut + 1) .. (made + 1)
      BY <1>t, <2>3, <2>7, <3>3
    <3> QED
      BY <2>6, <2>9, <3>4
  <2> QED
    BY <2>10, <2>11, <2>12 DEF NewestRetained
<1>2. CASE UNCHANGED <<order, jobs, made>>
  BY <1>2 DEF NewestRetained
<1>3. ASSUME NEW h \in Posts,
             AcquireSlot(h) \/ Refuse(h) \/ OptionsRaise(h) \/ StartRaises(h) \/ StartThread(h)
      PROVE  UNCHANGED <<order, jobs, made>>
  BY <1>3 DEF AcquireSlot, Refuse, OptionsRaise, StartRaises, Abandon, StartThread,
              storeVars, histVars
<1>4. ASSUME NEW j \in Jobs, RunnerStep(j) PROVE UNCHANGED <<order, jobs, made>>
  BY <1>4 DEF RunnerStep, BeginScan, FinishScan, ReleaseSlot, RunnerMoves, histVars
<1>5. CASE UNCHANGED vars
  BY <1>2, <1>5 DEF vars, storeVars, histVars
<1> QED
  BY <1>1, <1>2, <1>3, <1>4, <1>5 DEF Next, PostStep, Spent

-----------------------------------------------------------------------------
\* The three layers together are an invariant of the specification.
THEOREM Invariant == Spec => []IInv
<1>1. Init => IInv
  <2>1. Init => NewestRetained
    BY DEF Init, NewestRetained
  <2> QED
    BY <2>1, IdsInit, SlotsInit DEF IInv, SlotsInv
<1>2. IInv /\ [Next]_vars => IInv'
  BY IdsStep, SlotsStep, RetainedStep DEF IInv, SlotsInv
<1> QED
  BY <1>1, <1>2, PTL DEF Spec

\* The state of the server is well typed.
THEOREM TypeCorrect == Spec => []TypeOK
<1>1. IInv => TypeOK
  BY DEF IInv, Ids
<1> QED
  BY <1>1, Invariant, PTL

\* _running is the number of slots held, in flight or lost, in any
\* interleaving of any number of handlers and job threads.
THEOREM SlotAccounting == Spec => []SlotsAccounted
<1>1. IInv => SlotsAccounted
  BY DEF IInv
<1> QED
  BY <1>1, Invariant, PTL

\* Never more than MAX_CONCURRENT_SCANS scans at a time.
THEOREM ConcurrencyBound == Spec => []AtMostMaxScans
<1>1. IInv => AtMostMaxScans
  BY Counts DEF IInv, Ids, TypeOK, SlotsAccounted, AtMostMaxScans
<1> QED
  BY <1>1, Invariant, PTL

\* The store keeps exactly the newest MAX_RETAINED_SCANS jobs.
THEOREM Retention == Spec => []NewestRetained
<1>1. IInv => NewestRetained
  BY DEF IInv
<1> QED
  BY <1>1, Invariant, PTL

\* One handler, and so one thread, per job.
THEOREM ThreadPerJob == Spec => []OneHandlerPerJob
<1>1. IInv => OneHandlerPerJob
  BY DEF IInv, Ids
<1> QED
  BY <1>1, Invariant, PTL

-----------------------------------------------------------------------------
(* The server's slots implement ScanSlots.                                 *)

Over == {j \in Jobs : runner[j] = "ended"}

\* Every step of the server begins a scan, ends one, or is invisible there.
LEMMA SlotsStepMaps ==
  IInv /\ [Next]_vars => [Slots!Next]_<<Live, {j \in Jobs : runner[j] = "ended"}>>
<1> SUFFICES ASSUME IInv, [Next]_vars
             PROVE  Slots!Next \/ UNCHANGED <<Live, Over>>
  BY DEF Over
<1>t. TypeOK /\ running \in Nat /\ leaked \in Nat
  BY DEF IInv, Ids, TypeOK
<1>1. ASSUME NEW h \in Posts, StartThread(h) PROVE Slots!Next
  <2> DEFINE j == mine[h]
  <2>1. j \in Jobs /\ runner[j] = "none" /\ runner' = [runner EXCEPT ![j] = "queued"]
    BY <1>1, <1>t, Counts DEF StartThread, IInv, Ids, CreatedJobs, OneHandlerPerJob,
                              IdsInOrder, TypeOK, Jobs
  <2> HIDE DEF j
  <2>2. j \notin Live /\ j \notin Over /\ Live' = Live \cup {j} /\ Over' = Over
    BY <1>t, <2>1 DEF Live, Over, TypeOK
  <2>3. h \in Holding
    BY <1>1 DEF StartThread, Holding
  <2>4. Cardinality(Holding) >= 1
    BY <2>3, Counts, Leaves
  <2>5. Cardinality(Live) < MaxConcurrent
    BY <1>t, <2>4, Counts DEF IInv, SlotsAccounted
  <2>6. Slots!Begin(j)
    BY <2>2, <2>5 DEF Slots!Begin, Over, Cardinality, Slots!Cardinality
  <2> QED
    BY <2>1, <2>6 DEF Slots!Next
<1>2. ASSUME NEW j \in Jobs, ReleaseSlot(j) PROVE Slots!Next
  <2>1. j \in Live /\ Live' = Live \ {j} /\ Over' = Over \cup {j}
    BY <1>2, <1>t DEF ReleaseSlot, RunnerMoves, Live, Over, TypeOK
  <2>2. Slots!End(j)
    BY <2>1 DEF Slots!End, Over
  <2> QED
    BY <2>2 DEF Slots!Next
<1>3. ASSUME NEW j \in Jobs, BeginScan(j) \/ FinishScan(j) PROVE UNCHANGED <<Live, Over>>
  BY <1>3, <1>t DEF BeginScan, FinishScan, RunnerMoves, Live, Over, TypeOK
<1>4. ASSUME runner' = runner PROVE UNCHANGED <<Live, Over>>
  BY <1>4 DEF Live, Over
<1>5. ASSUME NEW h \in Posts,
             AcquireSlot(h) \/ Refuse(h) \/ OptionsRaise(h) \/ StartRaises(h) \/ Create(h)
      PROVE  runner' = runner
  BY <1>5 DEF AcquireSlot, Refuse, OptionsRaise, StartRaises, Abandon, Create
<1>6. CASE UNCHANGED vars
  BY <1>4, <1>6 DEF vars
<1> QED
  BY <1>1, <1>2, <1>3, <1>4, <1>5, <1>6 DEF Next, PostStep, RunnerStep, Spent

\* The detailed server implements the abstract slots: a job is scanned once,
\* and at most MAX_CONCURRENT_SCANS at a time.
THEOREM Refinement == Spec => SlotsSpec
<1>1. Init => Slots!Init
  BY DEF Init, Slots!Init, Live
<1>2. IInv /\ [Next]_vars => [Slots!Next]_<<Live, {j \in Jobs : runner[j] = "ended"}>>
  BY SlotsStepMaps
<1> QED
  BY <1>1, <1>2, Invariant, PTL DEF Spec, SlotsSpec, Slots!Spec
=============================================================================
