SPECIFICATION Spec
CONSTANTS
  Group = {g1}
  Channel = {c1}
  User = {u1}
  NoChannel = NoChannel
  Handler = {h1,h2}
  Admin = {a1}
  TTL = 1
  Second = 1
  MaxEntries = 1
  EvictBatch = 1
  MaxClock = 1
  MaxEpoch = 2
INVARIANT RebindAsksAgain
