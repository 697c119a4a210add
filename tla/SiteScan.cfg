\* Redirects between two hosts and both schemes, any request lost, three manifests.
SPECIFICATION FairSpec
CONSTANTS
  Own = "own"
  Hosts <- MCHosts
  MaxRedirects = 2
  HeaderSets <- MCHeaderSets
  Paths <- MCPaths
  Absolute <- MCAbsolute
  Shows <- MCShows
  Manifests <- MCManifests
  MaxDeps = 2
  Category <- MCCategory
  Retired = {"old"}
INVARIANTS
  HardenedSiteIsClean
  InventorySource
  InventoryAccounted
PROPERTIES
  SiteEnds
