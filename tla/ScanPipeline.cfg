\* Four names of which three are scanned, two pool threads.
SPECIFICATION FairSpec
CONSTANTS
  Names = 4
  Guessable <- MCGuessable
  Limit = 3
  Workers = 2
  MaxHttp = 2
INVARIANTS
  HiddenFailures
  EveryHostAnswered
  ChecksAccounted
  BarNeverAhead
PROPERTIES
  PhasesSpec
  ScanEnds
