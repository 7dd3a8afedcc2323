SPECIFICATION BoardFairSpec
CONSTANTS
  poly1 = poly1
  lim1 = lim1
  loop = loop
  Events <- MCEvents
  PlatformOf <- MCPlatformOf
  TitleOf <- MCTitleOf
  PagesOf <- MCPagesOf
  Scans <- MCScans
  Loop = loop
  Micros <- MCMicros
  Feeds <- MCFeeds
  Structures <- MCStructures
  Books <- MCBooks
  First <- MCFirst
INVARIANTS
  BoardTypeOK
  OneRowPerArb
PROPERTIES
  DeadDealLeaves
  ArbIsOffered
