--------------------------- MODULE Acquaintances ---------------------------
(***************************************************************************)
(* What the rest of the server relies on about friend requests: who may    *)
(* message whom starts out empty, and grows by one pair of different users *)
(* at a time.  It is what Befriend of DirectMessaging does to related, and *)
(* FriendRequests implements it.                                           *)
(***************************************************************************)
CONSTANT User

VARIABLE related  \* the pairs of users that isFriend accepts

Meet(u, v) ==
  /\ u # v
  /\ related' = related \union {{u, v}}

AcquaintancesInit == related = {}

AcquaintancesNext == \E u, v \in User : Meet(u, v)

AcquaintancesSpec == AcquaintancesInit /\ [][AcquaintancesNext]_related
=============================================================================
