\* Kills that may cut a line, a subject listed twice.
SPECIFICATION FairSpec
CONSTANTS
  d1 = d1
  d2 = d2
  d3 = d3
  other = other
  Clean = Clean
  Partial = Partial
  Domains <- MCDomains
  Cohort <- MCCohort
  Workers = 1
  MayTear = TRUE
  MaxRuns = 3
INVARIANTS
  EachRunLosesOne
PROPERTIES
  RunEnds
