------------------------------ MODULE MCServer ------------------------------
(* Alice, who has one message for bob, asks bob, or bob asks alice. *)
EXTENDS Server

CONSTANTS alice, bob, a1, b1, k1, pair

MCSocketUser == [s \in Socket |-> IF s = a1 THEN alice ELSE bob]

MCDraft == [author : {alice}, receiver : {bob}, chat : {pair}, token : {k1}, timestamp : {1}]
=============================================================================
