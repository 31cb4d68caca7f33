--------------------------- MODULE MCConnections ---------------------------
(* Alice and bob send their own ids in every handshake.  One client of carol *)
(* sends no userId, or carol's id as a string; the other sends bob's.        *)
EXTENDS Connections

CONSTANTS alice, bob, carol, a1, a2, b1, c1, c2

MCSocketUser ==
  [s \in Socket |-> IF s \in {a1, a2} THEN alice
                    ELSE IF s = b1 THEN bob ELSE carol]

MCHandshakeUserId ==
  [s \in Socket |-> IF s = c1 THEN NoUser ELSE IF s = c2 THEN bob ELSE MCSocketUser[s]]
=============================================================================
