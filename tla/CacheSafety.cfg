SPECIFICATION Spec
CONSTANTS
  Group = {g1}
  Channel = {c1,c2}
  User = {u1}
  NoChannel = NoChannel
  Handler = {h1,h2}
  Admin = {a1}
  TTL = 2
  Second = 2
  MaxEntries = 1
  EvictBatch = 1
  MaxClock = 3
  MaxEpoch = 2
INVARIANTS TypeOK ApprovalsFresh CacheBounded StoreFollowsBinding SetNeverPoisons
PROPERTY ImplementsApprovals
