SPECIFICATION SyncSpec
CONSTANTS
  alice = alice
  bob = bob
  User = {alice, bob}
  NoUser = NoUser
  Task = {h1, h2}
  Worker = {w1, w2}
  Import = {i1, i2}
  MaxVersion = 2
  Serial = {alice}
  Author = {alice}
  Changing = {alice}
SYMMETRY TaskSymmetry
INVARIANTS
  SyncTypeOK
  NobodyIsWelcomed
  SuccessIsFresh
  OnlyMappedAreTold
