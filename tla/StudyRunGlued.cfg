\* Resuming after a torn line.
SPECIFICATION Spec
CONSTANTS
  d1 = d1
  d2 = d2
  d3 = d3
  other = other
  Clean = Clean
  Partial = Partial
  Domains <- MCDomains
  Cohort <- MCShortCohort
  Workers = 2
  MayTear = TRUE
  MaxRuns = 3
INVARIANTS
  SavedIsRecoverable
