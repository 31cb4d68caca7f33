SPECIFICATION TypingSpec
CONSTANTS
  alice = alice
  bob = bob
  a1 = a1
  b1 = b1
  b2 = b2
  a2 = a2
  User = {alice, bob}
  Token = {}
  MaxTimers = 0
  Leaver = {alice, bob}
  Socket = {a1, a2, b1, b2}
  NoUser = NoUser
  NoSocket = NoSocket
  SocketUser <- MCSocketUser
  HandshakeUserId <- MCHandshakeUserId
  Nobody = Nobody
  Focused = {alice}
INVARIANTS
  TypingTypeOK
  IndicatorHasTimer
PROPERTY IndicatorGoesOff
