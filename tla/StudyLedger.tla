---------------------------- MODULE StudyLedger ----------------------------
(***************************************************************************)
(* What a resumable study promises (quantumready/study.py, run_study): the *)
(* record of finished subjects only grows, across kills, interrupts and    *)
(* re-runs, and a run that ends normally has the whole cohort on record.   *)
(***************************************************************************)
CONSTANTS Domains,   \* the subjects' domains
          Wanted     \* those of the cohort under study

VARIABLES recorded,  \* the subjects on record
          complete   \* the last run ended normally

Init == recorded \in SUBSET Domains /\ complete = FALSE

Record(d) ==
  /\ ~complete
  /\ recorded' = recorded \cup {d}
  /\ UNCHANGED complete

Finish ==
  /\ Wanted \subseteq recorded
  /\ complete' = TRUE
  /\ UNCHANGED recorded

Rerun ==
  /\ complete' = FALSE
  /\ UNCHANGED recorded

Next == (\E d \in Domains : Record(d)) \/ Finish \/ Rerun

Spec == Init /\ [][Next]_<<recorded, complete>>
=============================================================================
