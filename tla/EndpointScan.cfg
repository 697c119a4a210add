\* Every kind of server, any connection lost or balked at.
SPECIFICATION Spec
CONSTANTS
  Suites <- MCSuites
  Servers <- MCServers
  ClassicalGroups <- MCClassicalGroups
  PqcGroups <- MCPqcGroups
  Rank <- MCRank
  MaxGroupRounds = 2
  MaxSuiteRounds = 3
  MaxFaults = 3
INVARIANTS
  OrderKept
  CompleteUnlessCut
  NothingInvented
  NoHybridIsReal
