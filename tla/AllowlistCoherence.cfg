SPECIFICATION Spec
CONSTANTS
  Group = {g1,g2}
  Bot = {b1}
  Handler = {h1,h2}
  Admin = {a1,a2}
  NoGroup = NoGroup
INVARIANTS TypeOK CacheCoherent
SYMMETRY Symmetry
