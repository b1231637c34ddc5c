SPECIFICATION ProcessSpec
CONSTANTS
  NumUpdates = 4
  Slots = 2
  Buffer = 2
  Group = {"g1"}
  Cooldown = 2
  MaxRestarts = 1
INVARIANTS TypeOK FetchedAreHandled HandlersKeepResources SelfCheckTypeOK Throttled
PROPERTIES ShutdownCompletes AlertsArrive
