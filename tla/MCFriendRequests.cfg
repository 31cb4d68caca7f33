SPECIFICATION RequestsSpec
CONSTANTS
  alice = alice
  bob = bob
  carol = carol
  User = {alice, bob, carol}
  NoUser = NoUser
  NoRow = NoRow
  Calm <- MCCalm
  Task = {h1, h2}
  MaxRequest = 2
  MaxFriend = 2
SYMMETRY TaskSymmetry
INVARIANTS
  FriendsWereAsked
  OneRequestPerPair
  AcceptedAreFriends
PROPERTIES
  RequestKeepsPair
  ImplementsAcquaintances
