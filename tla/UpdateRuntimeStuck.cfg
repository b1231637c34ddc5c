SPECIFICATION SpecLongPause
CONSTANTS
  NumUpdates = 3
  Slots = 2
  Buffer = 2
PROPERTY ShutdownNeverBlocks
