----------------------- MODULE MCDirectMessagingSolo -----------------------
(* Alice sends bob two messages and waits for the answer to the first; she  *)
(* has two tabs.  Handlers are scheduled fairly.                            *)
EXTENDS DirectMessaging

CONSTANTS alice, bob, a1, a2, b1, k1, k2, solo

MCSocketUser == [s \in Socket |-> IF s = b1 THEN bob ELSE alice]

MCDraft ==
  [author : {alice}, receiver : {bob}, chat : {solo}, token : {k1}, timestamp : {1}]
    \union
  [author : {alice}, receiver : {bob}, chat : {solo}, token : {k2}, timestamp : {2}]
=============================================================================
