SPECIFICATION Spec
CONSTANTS
  h1 = h1
  h2 = h2
  h3 = h3
  a1 = a1
  a2 = a2
  Handler = {h1,h2,h3}
  Album = {a1,a2}
  AlbumOf <- TwoAlbums
  TTL = 2
  CompactAbove = 1
  MaxClock = 3
INVARIANTS TypeOK WaitersHaveLeader OneLeaderPerWindow
PROPERTIES ImplementsAlbumDecisions EveryMessageDecided
