----------------------------- MODULE ScanSlots -----------------------------
(***************************************************************************)
(* What the server's slots are for (quantumready/server.py, JobStore): a   *)
(* scan runs once, and at most Slots scans run at a time.                  *)
(***************************************************************************)
EXTENDS Naturals, FiniteSets

CONSTANTS Jobs, Slots

VARIABLES scanning,   \* the jobs whose scan is under way
          scanned     \* the jobs whose scan is over

Init == scanning = {} /\ scanned = {}

Begin(j) ==
  /\ j \notin scanning \cup scanned
  /\ Cardinality(scanning) < Slots
  /\ scanning' = scanning \cup {j}
  /\ UNCHANGED scanned

End(j) ==
  /\ j \in scanning
  /\ scanning' = scanning \ {j}
  /\ scanned' = scanned \cup {j}

Next == \E j \in Jobs : Begin(j) \/ End(j)

Spec == Init /\ [][Next]_<<scanning, scanned>>
=============================================================================
