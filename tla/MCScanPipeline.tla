-------------------------- MODULE MCScanPipeline --------------------------
(* Small instances of ScanPipeline for TLC.                                *)
EXTENDS ScanPipeline

\* www and one more of the names DNS guessing tries.
MCGuessable == {2, 3}
=============================================================================
