SPECIFICATION MsgFairSpec
CONSTANTS
  alice = alice
  bob = bob
  a1 = a1
  a2 = a2
  b1 = b1
  k1 = k1
  k2 = k2
  solo = solo
  User = {alice, bob}
  Token = {k1, k2}
  MaxTimers = 2
  Leaver = {alice, bob}
  Socket = {a1, a2, b1}
  NoUser = NoUser
  NoSocket = NoSocket
  SocketUser <- MCSocketUser
  HandshakeUserId <- MCSocketUser
  Draft <- MCDraft
  NoDraft = NoDraft
  Chat = {solo}
  Solo = {solo}
  Task = {h1, h2}
  MaxId = 2
PROPERTIES
  SoloPointerAdvances
  Answered
