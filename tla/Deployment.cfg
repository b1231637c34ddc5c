SPECIFICATION Spec
CONSTANTS
  Run = {"u1","u2"}
  MaxVersion = 2
  Group = {"g"}
  MaxEpoch = 2
  MaxCrashes = 1
\* Overlapping updates may lose the executable, its backup and the download.
CHECK_DEADLOCK FALSE
INVARIANTS TypeOK BinarySurvives OpenIsComplete StatementsRepeatable
PROPERTIES UpgradesOnly EpochsFresh ServiceComesBack
