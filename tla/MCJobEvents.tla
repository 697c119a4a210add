---------------------------- MODULE MCJobEvents ----------------------------
(* Small instances of JobEvents for TLC.                                   *)
EXTENDS JobEvents, TLC

CONSTANTS w1, w2, c1, g1, main

MCOneWorker  == {w1}
MCTwoWorkers == {w1, w2}
MCOneStream  == {c1}
=============================================================================
