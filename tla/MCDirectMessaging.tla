------------------------- MODULE MCDirectMessaging -------------------------
(* Alice and bob write to each other in one chat, both at the same time,    *)
(* and repeat their messages.  Bob has two sockets: a reconnect, which the  *)
(* server may see before the disconnect.  Carol is online and has no part   *)
(* in their chat.                                                           *)
EXTENDS DirectMessaging, TLC

CONSTANTS alice, bob, carol, a1, b1, b2, c1, k1, pair

MCSocketUser == [s \in Socket |-> IF s = a1 THEN alice ELSE IF s = c1 THEN carol ELSE bob]

Msg(author, receiver, chat, token, timestamp) ==
  [author |-> author, receiver |-> receiver, chat |-> chat,
   token |-> token, timestamp |-> timestamp]

MCDraft == {Msg(alice, bob, pair, k1, 1), Msg(bob, alice, pair, k1, 2)}

TaskSymmetry == Permutations(Task)
=============================================================================
