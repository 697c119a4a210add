\* Five domains, three resolvers, any exchange lost, cut or refused.
SPECIFICATION Spec
CONSTANTS
  Resolvers = 3
  Zones <- MCZones
INVARIANTS
  AbsenceNeedsDoubt
  AbsenceReported
