\* Three subjects, one listed twice, two workers, kills between two lines, three runs.
SPECIFICATION Spec
CONSTANTS
  d1 = d1
  d2 = d2
  d3 = d3
  other = other
  Clean = Clean
  Partial = Partial
  Domains <- MCDomains
  Cohort <- MCCohort
  Workers = 2
  MayTear = FALSE
  MaxRuns = 3
INVARIANTS
  SavedIsRecoverable
  FinishedMeansAll
  FinishedNotRescanned
PROPERTIES
  LedgerSpec
