SPECIFICATION Spec
CONSTANTS
  r1 = r1
  r2 = r2
  r3 = r3
  alice = alice
  bob = bob
  Reply = {r1,r2,r3}
  User = {alice,bob}
  NumUpdates = 4
  ReplyOf <- Replies
  CallerOf <- Callers
  Edit <- Edits
  MuteThreshold = 2
  BanThreshold = 3
  MaxRestarts = 1
INVARIANT TypeOK
PROPERTY PunishmentJustified
