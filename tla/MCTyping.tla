------------------------------ MODULE MCTyping ------------------------------
(* Alice types to one user at a time, from either of her tabs; bob types to  *)
(* anybody, himself included, and his client sends his id with one of its    *)
(* two sockets only.                                                         *)
EXTENDS Typing

CONSTANTS alice, bob, a1, a2, b1, b2

MCSocketUser ==
  [s \in Socket |-> CASE s \in {a1, a2} -> alice
                      [] s \in {b1, b2} -> bob]

MCHandshakeUserId ==
  [s \in Socket |-> IF s = b2 THEN NoUser ELSE MCSocketUser[s]]
=============================================================================
