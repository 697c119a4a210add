\* A server whose every hello is answered.
SPECIFICATION Spec
CONSTANTS
  Suites <- MCSuites
  Servers <- MCServers
  ClassicalGroups <- MCClassicalGroups
  PqcGroups <- MCPqcGroups
  Rank <- MCRank
  MaxGroupRounds = 2
  MaxSuiteRounds = 3
  MaxFaults = 3
INVARIANTS
  VersionsSeen
