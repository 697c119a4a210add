\* Three handlers for two slots, a store of two jobs, four requests.
SPECIFICATION FairSpec
CONSTANTS
  h1 = h1
  h2 = h2
  h3 = h3
  Posts <- MCPosts
  MaxConcurrent = 2
  MaxRetained = 2
  MaxAccepted = 4
INVARIANTS
  SlotsAccounted
  NewestRetained
PROPERTIES
  SlotsSpec
  SlotsComeBack
