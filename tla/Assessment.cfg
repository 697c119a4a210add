\* Scans of up to two of ten kinds of endpoint, read by a study and by the gate.
SPECIFICATION Spec
CONSTANTS
  Suites <- MCSuites
  ClassicalCodes <- MCClassicalCodes
  Facts <- MCFacts
  MaxEndpoints = 2
  SiteReports <- MCSiteReports
  DnsReports <- MCDnsReports
  LicenceReports <- MCLicenceReports
  Clocks <- MCClocks
  Demands <- MCDemands
INVARIANTS
  FailedControlsActedOn
  GateIsHonest
  ClassificationsAgree
  InventoryMatchesFindings
  MoscaDeadline
PROPERTIES
  MoreFindingsNeverHelp
