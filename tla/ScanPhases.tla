----------------------------- MODULE ScanPhases -----------------------------
(***************************************************************************)
(* The life of one scan as a Job sees it (quantumready/server.py, _run_job *)
(* around Scanner.run): first stages, a pool of threads that report, later *)
(* stages, and a return or an exception.  Threads other than the job's own *)
(* report only while the pool is open.  JobEvents is written against this; *)
(* ScanPipeline shows that quantumready/scanner.py keeps to it.            *)
(***************************************************************************)
EXTENDS Naturals

VARIABLES phase,   \* "scan", "pool", "rest", "returned" or "raised"
          heard    \* reports made by pool threads so far

Init == phase = "scan" /\ heard = 0

Move(from, to) == phase = from /\ phase' = to /\ UNCHANGED heard

PoolReports == phase = "pool" /\ heard' = heard + 1 /\ UNCHANGED phase

Next ==
  \/ Move("scan", "pool") \/ Move("pool", "rest") \/ Move("rest", "returned")
  \/ Move("scan", "raised") \/ Move("rest", "raised")
  \/ PoolReports

Spec == Init /\ [][Next]_<<phase, heard>>
=============================================================================
