---------------------------- MODULE MCStudyRun ----------------------------
(* Small instances of StudyRun for TLC.                                    *)
EXTENDS StudyRun, TLC

CONSTANTS d1, d2, d3, other

MCDomains      == {d1, d2, d3, other}
MCCohort       == <<d1, d2, d3, d1>>   \* two presets that share a subject
MCShortCohort  == <<d1, d2>>
=============================================================================
