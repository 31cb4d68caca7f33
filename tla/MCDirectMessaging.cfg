SPECIFICATION MsgSpec
CONSTANTS
  alice = alice
  bob = bob
  carol = carol
  a1 = a1
  b1 = b1
  b2 = b2
  c1 = c1
  k1 = k1
  pair = pair
  User = {alice, bob, carol}
  Token = {k1}
  MaxTimers = 2
  Leaver = {alice, bob, carol}
  Socket = {a1, b1, b2, c1}
  NoUser = NoUser
  NoSocket = NoSocket
  SocketUser <- MCSocketUser
  HandshakeUserId <- MCSocketUser
  Draft <- MCDraft
  NoDraft = NoDraft
  Chat = {pair}
  Solo = {}
  Task = {h1, h2}
  MaxId = 2
SYMMETRY TaskSymmetry
INVARIANTS
  MsgTypeOK
  StoredOnce
  DeliveredToParticipants
  TokenAccounted
  AckImpliesStored
PROPERTIES
  AckedReachesOnlineReceiver
  ImplementsChatLog
