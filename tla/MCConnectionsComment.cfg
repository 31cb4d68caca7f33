SPECIFICATION ConnSpec
CONSTANTS
  alice = alice
  bob = bob
  carol = carol
  a1 = a1
  a2 = a2
  b1 = b1
  c1 = c1
  c2 = c2
  User = {alice, bob, carol}
  Token = {t1}
  MaxTimers = 3
  Leaver = {alice, bob, carol}
  Socket = {a1, a2, b1, c1, c2}
  NoUser = NoUser
  NoSocket = NoSocket
  SocketUser <- MCSocketUser
  HandshakeUserId <- MCSocketUser
PROPERTIES
  DisconnectRemovesTheClient
