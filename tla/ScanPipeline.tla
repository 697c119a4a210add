---------------------------- MODULE ScanPipeline ----------------------------
(***************************************************************************)
(* Scanner.run of quantumready/scanner.py: host discovery, the filter on   *)
(* names that resolve, the thread pool of scan/tls.py's scan_endpoints     *)
(* with its progress callback, and the HTTP, DNS, licence and analysis     *)
(* stages.                                                                 *)
(*                                                                         *)
(* A host is its rank in the order discover() sorts by: 1 is the apex, 2   *)
(* is www, then the shorter names.  Every host list of the code is kept in *)
(* that order, so a set stands for it.  What a stage learns is abstracted  *)
(* to whether it has a result.                                             *)
(***************************************************************************)
EXTENDS Naturals, FiniteSets

CONSTANTS Names,      \* how many names could be discovered; 1 is the apex
          Guessable,  \* the names DNS guessing tries
          Limit,      \* ScanOptions.max_hosts
          Workers,    \* ScanOptions.workers
          MaxHttp     \* endpoints whose headers are checked (6)

ASSUME NamesAssumption   == Names \in Nat \ {0}
ASSUME GuessAssumption   == Guessable \subseteq 2 .. Names
ASSUME LimitAssumption   == Limit \in Nat \ {0}
ASSUME WorkersAssumption == Workers \in Nat \ {0}
ASSUME HttpAssumption    == MaxHttp \in Nat

VARIABLES
  options,    \* ScanOptions: use_ct, check_dns, check_licences
  stage,      \* where run() is
  found,      \* Discovery.hosts
  hosts,      \* result.discovered_hosts
  task,       \* task[h]: the pool task that scans h
  reached,    \* hosts whose result slot holds a reachable endpoint
  missed,     \* hosts whose result slot holds an unreachable one
  completed,  \* on_done's counter
  local,      \* local[h]: what on_done last read from the counter for h
  shown,      \* the count behind the last percentage a pool thread reported
  said,       \* reports made by pool threads
  httpLeft,   \* endpoints the HTTP stage has yet to check
  has,        \* what the result holds: <<stage, host>>
  errors,     \* result.errors, by what failed
  failed      \* history: every stage or task that raised

poolVars   == <<task, reached, missed, completed, local, shown, said>>
resultVars == <<has, errors, failed>>
vars       == <<options, stage, found, hosts, poolVars, httpLeft, resultVars>>

Apex == 1
Hosts == 1 .. Names

\* The first n of a host list.
First(S, n) == {k \in S : Cardinality({j \in S : j < k}) < n}

IsFirst(k, S) == k \in S /\ \A j \in S : k <= j

Init ==
  /\ options \in [ct : BOOLEAN, dns : BOOLEAN, licences : BOOLEAN]
  /\ stage = "discovery" /\ found = {} /\ hosts = {}
  /\ task = [h \in Hosts |-> "none"] /\ reached = {} /\ missed = {}
  /\ completed = 0 /\ local = [h \in Hosts |-> 0] /\ shown = 0 /\ said = 0
  /\ httpLeft = {} /\ has = {} /\ errors = {} /\ failed = {}

-----------------------------------------------------------------------------
(* _discover.                                                              *)

\* What certificate transparency and DNS guessing collect: guessing is tried
\* when CT is off or brought nothing but the apex.
Collected(certified, guessed) ==
  {Apex} \cup (IF options.ct THEN certified ELSE {})
         \cup (IF ~options.ct \/ certified \subseteq {Apex} THEN guessed ELSE {})

Discover ==
  /\ stage = "discovery" /\ stage' = "filter"
  /\ \E certified \in SUBSET Hosts, guessed \in SUBSET Guessable :
       found' = First(Collected(certified, guessed), Limit)
  /\ UNCHANGED <<options, hosts, poolVars, httpLeft, resultVars>>

DiscoverRaises ==
  /\ stage = "discovery" /\ stage' = "filter"
  /\ found' = {Apex}
  /\ errors' = errors \cup {<<"discovery", 0>>}
  /\ failed' = failed \cup {<<"discovery", 0>>}
  /\ UNCHANGED <<options, hosts, poolVars, httpLeft, has>>

FilterAll ==   \* mutant: the apex is not kept when nothing resolves
  /\ stage = "filter" /\ stage' = "tls"
  /\ hosts' \in SUBSET found
  /\ task' = [h \in Hosts |-> IF h \in hosts' THEN "queued" ELSE "none"]
  /\ UNCHANGED <<options, found, reached, missed, completed, local, shown, said,
                 httpLeft, resultVars>>

\* Names that resolve, or the apex if none does; the pool tasks are submitted.
FilterLive ==
  /\ stage = "filter" /\ stage' = "tls"
  /\ \E live \in SUBSET found : hosts' = IF live = {} THEN {Apex} ELSE live
  /\ task' = [h \in Hosts |-> IF h \in hosts' THEN "queued" ELSE "none"]
  /\ UNCHANGED <<options, found, reached, missed, completed, local, shown, said,
                 httpLeft, resultVars>>

\* resolves() catches OSError only; the filter is not inside the try.
FilterRaises ==
  /\ stage = "filter" /\ stage' = "raised"
  /\ failed' = failed \cup {<<"filter", 0>>}
  /\ UNCHANGED <<options, found, hosts, poolVars, httpLeft, has, errors>>

-----------------------------------------------------------------------------
(* scan_endpoints and on_done.                                             *)

At(state) == {h \in Hosts : task[h] = state}
Busy      == {h \in Hosts : task[h] \in {"scanning", "read", "write", "share", "report"}}

TaskMoves(h, from, to) ==
  /\ task[h] = from
  /\ task' = [task EXCEPT ![h] = to]
  /\ UNCHANGED <<options, stage, found, hosts, httpLeft, has, errors>>

\* A pool thread takes the oldest task.
StartTask(h) ==
  /\ IsFirst(h, At("queued")) /\ Cardinality(Busy) < Workers
  /\ TaskMoves(h, "queued", "scanning")
  /\ UNCHANGED <<reached, missed, completed, local, shown, said, failed>>

\* results[index] = scan_endpoint(...)
StoreResult(h) ==
  /\ TaskMoves(h, "scanning", "read")
  /\ \/ reached' = reached \cup {h} /\ UNCHANGED missed
     \/ missed' = missed \cup {h} /\ UNCHANGED reached
  /\ UNCHANGED <<completed, local, shown, said, failed>>

\* scan_endpoint raises: the future keeps the exception and nobody asks it.
TaskRaises(h) ==
  /\ TaskMoves(h, "scanning", "lost")
  /\ failed' = failed \cup {<<"tls", h>>}
  /\ UNCHANGED <<reached, missed, completed, local, shown, said>>

\* completed[0] += 1 is a read and a write; share reads the counter again.
ReadCount(h) ==
  /\ TaskMoves(h, "read", "write")
  /\ local' = [local EXCEPT ![h] = completed]
  /\ UNCHANGED <<reached, missed, completed, shown, said, failed>>

WriteCountTwice(h) ==   \* mutant: a host is counted twice
  /\ TaskMoves(h, "write", "share")
  /\ completed' = local[h] + 2
  /\ UNCHANGED <<reached, missed, local, shown, said, failed>>

WriteCount(h) ==
  /\ TaskMoves(h, "write", "share")
  /\ completed' = local[h] + 1
  /\ UNCHANGED <<reached, missed, local, shown, said, failed>>

ReadShare(h) ==
  /\ TaskMoves(h, "share", "report")
  /\ local' = [local EXCEPT ![h] = completed]
  /\ UNCHANGED <<reached, missed, completed, shown, said, failed>>

ReportHost(h) ==
  /\ TaskMoves(h, "report", "done")
  /\ shown' = local[h] /\ said' = said + 1
  /\ UNCHANGED <<reached, missed, completed, local, failed>>

LeavePool ==   \* mutant: shutdown(wait=False)
  /\ stage = "tls" /\ stage' = "http"
  /\ httpLeft' = First(reached, MaxHttp)
  /\ UNCHANGED <<options, found, hosts, poolVars, resultVars>>

JoinReported ==   \* mutant: the stage waits for every host's report
  /\ stage = "tls" /\ stage' = "http"
  /\ said = Cardinality(hosts)
  /\ httpLeft' = First(reached, MaxHttp)
  /\ UNCHANGED <<options, found, hosts, poolVars, resultVars>>

\* The pool's exit waits for its tasks; the HTTP stage takes what is reachable.
JoinPool ==
  /\ stage = "tls" /\ stage' = "http"
  /\ \A h \in hosts : task[h] \in {"done", "lost"}
  /\ httpLeft' = First(reached, MaxHttp)
  /\ UNCHANGED <<options, found, hosts, poolVars, resultVars>>

-----------------------------------------------------------------------------
(* The later stages, each of which records its own failure.                *)

RecordsQuietly(s, h) ==   \* mutant: "except: pass"
  \/ has' = has \cup {<<s, h>>} /\ UNCHANGED <<errors, failed>>
  \/ failed' = failed \cup {<<s, h>>} /\ UNCHANGED <<has, errors>>

Records(s, h) ==
  \/ has' = has \cup {<<s, h>>} /\ UNCHANGED <<errors, failed>>
  \/ /\ errors' = errors \cup {<<s, h>>} /\ failed' = failed \cup {<<s, h>>}
     /\ UNCHANGED has

HttpGivesUp ==   \* mutant: the try is around the loop, not inside it
  /\ stage = "http"
  /\ \E h \in httpLeft :
       /\ IsFirst(h, httpLeft) /\ Records("http", h)
       /\ httpLeft' = IF <<"http", h>> \in errors' THEN {} ELSE httpLeft \ {h}
  /\ UNCHANGED <<options, stage, found, hosts, poolVars>>

CheckHttp ==
  /\ stage = "http"
  /\ \E h \in httpLeft :
       IsFirst(h, httpLeft) /\ httpLeft' = httpLeft \ {h} /\ Records("http", h)
  /\ UNCHANGED <<options, stage, found, hosts, poolVars>>

Pass(from, to) ==
  /\ stage = from /\ stage' = to
  /\ UNCHANGED <<options, found, hosts, poolVars, httpLeft>>

HttpDone == httpLeft = {} /\ Pass("http", "dns") /\ UNCHANGED resultVars

CheckDns == options.dns /\ Pass("dns", "licences") /\ Records("dns", 0)
SkipDns  == ~options.dns /\ Pass("dns", "licences") /\ UNCHANGED resultVars

\* The licence scan looks at the first reachable endpoint.
CheckLicences ==
  /\ options.licences /\ reached # {}
  /\ Pass("licences", "analysis") /\ Records("licences", 0)

SkipLicences ==
  /\ ~options.licences \/ reached = {}
  /\ Pass("licences", "analysis") /\ UNCHANGED resultVars

Analyse == Pass("analysis", "returned") /\ UNCHANGED resultVars

\* Nothing in run() catches what the analysis raises.
AnalyseRaises ==
  /\ Pass("analysis", "raised")
  /\ failed' = failed \cup {<<"analysis", 0>>}
  /\ UNCHANGED <<has, errors>>

-----------------------------------------------------------------------------
RunStep ==
  \/ Discover \/ DiscoverRaises \/ FilterLive \/ FilterRaises \/ JoinPool
  \/ CheckHttp \/ HttpDone \/ CheckDns \/ SkipDns
  \/ CheckLicences \/ SkipLicences \/ Analyse \/ AnalyseRaises

PoolStep(h) ==
  \/ StartTask(h) \/ StoreResult(h) \/ TaskRaises(h)
  \/ ReadCount(h) \/ WriteCount(h) \/ ReadShare(h) \/ ReportHost(h)

Over == stage \in {"returned", "raised"} /\ UNCHANGED vars

Next == RunStep \/ (\E h \in Hosts : PoolStep(h)) \/ Over

Spec == Init /\ [][Next]_vars

(* Every connection of every stage has a timeout, so the job's thread and  *)
(* the pool's threads keep moving.                                         *)
Fairness == WF_vars(RunStep) /\ \A h \in Hosts : WF_vars(PoolStep(h))

FairSpec == Spec /\ Fairness

-----------------------------------------------------------------------------
(* Properties.                                                             *)

Checks == {<<"dns", 0>>, <<"licences", 0>>} \cup {<<"http", h>> : h \in Hosts}

\* Types of every variable.
TypeOK ==
  /\ options \in [ct : BOOLEAN, dns : BOOLEAN, licences : BOOLEAN]
  /\ stage \in {"discovery", "filter", "tls", "http", "dns", "licences", "analysis",
                "returned", "raised"}
  /\ found \subseteq Hosts /\ hosts \subseteq Hosts
  /\ task \in [Hosts -> {"none", "queued", "scanning", "read", "write", "share",
                         "report", "done", "lost"}]
  /\ reached \subseteq Hosts /\ missed \subseteq Hosts
  /\ completed \in Nat /\ local \in [Hosts -> Nat] /\ shown \in Nat /\ said \in Nat
  /\ httpLeft \subseteq Hosts
  /\ has \subseteq Checks
  /\ errors \subseteq Checks \cup {<<"discovery", 0>>}
  /\ failed \subseteq
       Checks \cup {<<"discovery", 0>>, <<"filter", 0>>, <<"analysis", 0>>}
              \cup {<<"tls", h>> : h \in Hosts}

AfterPool == {"http", "dns", "licences", "analysis", "returned"}

\* When the TLS stage is over the report has an endpoint, reachable or not,
\* for every host the scan set out to assess, except those whose task raised.
EveryHostAnswered ==
  stage \in AfterPool =>
    /\ hosts # {}
    /\ reached \cup missed = {h \in hosts : <<"tls", h>> \notin failed}
    /\ reached \cap missed = {}

\* One scan never assesses more hosts than max_hosts, nor more than its
\* workers at a time.
ScanIsBounded == Cardinality(hosts) <= Limit /\ Cardinality(Busy) <= Workers

\* Each check a finished report was to have is either in it or among its
\* errors, never both and never silently missing.
ChecksAccounted ==
  stage = "returned" =>
    /\ has \cap errors = {}
    /\ has \cup (errors \ {<<"discovery", 0>>}) =
         {<<"http", h>> : h \in First(reached, MaxHttp)}
         \cup (IF options.dns THEN {<<"dns", 0>>} ELSE {})
         \cup (IF options.licences /\ reached # {} THEN {<<"licences", 0>>} ELSE {})

\* The racing counter never overstates: what the bar shows is at most the
\* hosts whose result is stored, so the TLS stage stays within its share.
Counted == {h \in hosts : task[h] \in {"share", "report", "done"}}
BarNeverAhead == shown <= Cardinality(Counted) /\ completed <= Cardinality(Counted)

\* A scan ends, whichever of its stages fail.
ScanEnds == <>(stage \in {"returned", "raised"})

\* The scan keeps to the phases the server's job is written against.
Phases == INSTANCE ScanPhases WITH
  heard <- said,
  phase <- IF stage \in {"discovery", "filter"} THEN "scan"
           ELSE IF stage = "tls" THEN "pool"
           ELSE IF stage \in {"returned", "raised"} THEN stage
           ELSE "rest"
PhasesSpec == Phases!Spec

\* scanner.py:4-6: "Failures in one stage are recorded and the scan continues."
\* It holds but for two kinds: a raise of the filter or of the analysis ends the
\* scan, and a pool task that raises shows only as a host missing from the report.
HiddenFailures ==
  stage \in {"returned", "raised"} =>
    /\ failed \ errors \subseteq
         {<<"filter", 0>>, <<"analysis", 0>>}
         \cup {<<"tls", h>> : h \in hosts \ (reached \cup missed)}
    /\ failed \cap {<<"filter", 0>>, <<"analysis", 0>>} # {} <=> stage = "raised"
=============================================================================
