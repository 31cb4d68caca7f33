SPECIFICATION ServerSpec
CONSTANTS
  alice = alice
  bob = bob
  a1 = a1
  b1 = b1
  k1 = k1
  pair = pair
  User = {alice, bob}
  NoUser = NoUser
  NoRow = NoRow
  Calm = {}
  Task = {r1}
  MaxRequest = 1
  MaxFriend = 1
  Token = {k1}
  MaxTimers = 1
  Leaver = {alice, bob}
  Socket = {a1, b1}
  NoSocket = NoSocket
  SocketUser <- MCSocketUser
  HandshakeUserId <- MCSocketUser
  Draft <- MCDraft
  NoDraft = NoDraft
  Chat = {pair}
  Solo = {}
  Handler = {h1}
  MaxId = 1
INVARIANTS
  ReceiversAreFriends
