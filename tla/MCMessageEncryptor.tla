------------------------- MODULE MCMessageEncryptor -------------------------
(* Three letters, an emoji and its two halves: a letter shares its code with *)
(* the first half, another one with the second half.                         *)
EXTENDS MessageEncryptor

CONSTANTS a, b, c, emoji, first, second

MCHalvesOf == [x \in {emoji} |-> <<first, second>>]
MCHash == [x \in CodePoint |-> CASE x \in {a, first} -> 1
                                 [] x \in {b, second} -> 2
                                 [] x = emoji -> 3
                                 [] x = c -> 4
                                 [] x = Zero -> 5]
=============================================================================
