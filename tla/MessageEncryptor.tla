-------------------------- MODULE MessageEncryptor --------------------------
(***************************************************************************)
(* The encryptor of the search index: ESMessageEncryptor                   *)
(* (src/src/direct-message/security/es-message-encryptor.ts), the instance *)
(* of one user.                                                            *)
(*                                                                         *)
(* A character is written as the first eight characters of a hash over the *)
(* user's key and its code point; two maps remember the characters written *)
(* so far.  A new instance is made from the characters that an earlier one *)
(* had mapped (getMappings): a string of them in the order in which they   *)
(* were mapped, read as codePointAt reads it at every 16-bit unit.  A      *)
(* character above 0xFFFF is read, and then its second half once more, as  *)
(* a code point of its own; a lone first half is not read where a lone     *)
(* second half stands after it in the string: the character that the two   *)
(* make is read in its place.  A text is a sequence of code points.        *)
(***************************************************************************)
EXTENDS Naturals, Sequences, FiniteSets

CONSTANTS
  CodePoint,  \* the code points that texts are made of, lone halves among them
  Zero,       \* the code point 0, which is taken for a missing one
  High, Low,  \* the first and the second halves
  HalvesOf,   \* character above 0xFFFF -> its two halves
  Code,
  Hash,       \* code point -> the code made from its hash
  MaxText     \* bound of the model: characters of a text

Wide == DOMAIN HalvesOf

ASSUME EncryptorAssumption ==
  /\ IsFiniteSet(CodePoint)
  /\ High \union Low \union Wide \subseteq CodePoint \ {Zero}
  /\ High \intersect Low = {} /\ (High \union Low) \intersect Wide = {}
  /\ HalvesOf \in [Wide -> High \X Low]
  /\ \A h \in High, l \in Low : \E c \in Wide : HalvesOf[c] = <<h, l>>
  /\ Hash \in [CodePoint -> Code]
  /\ MaxText \in Nat

(* A first half right before a second one is no text: the two are one        *)
(* character.                                                                *)
Text ==
  {t \in UNION {[1..n -> CodePoint] : n \in 0..MaxText} :
     \A i \in 2..Len(t) : ~(t[i - 1] \in High /\ t[i] \in Low)}

VARIABLES
  charMap,     \* code point -> code
  place,       \* mapped code point -> its place in the order of charMap
  reverseMap,  \* code -> code point
  written      \* history: the characters encrypted so far, with their codes

encVars == <<charMap, place, reverseMap, written>>

Mapped == DOMAIN charMap

EncTypeOK ==
  /\ Mapped \subseteq CodePoint \ {Zero}
  /\ charMap \in [Mapped -> Code]
  /\ place \in [Mapped -> Nat]
  /\ DOMAIN reverseMap \subseteq Code
  /\ reverseMap \in [DOMAIN reverseMap -> Mapped]
  /\ written \subseteq [char : CodePoint, code : Code]

EncInit ==
  /\ charMap = <<>>
  /\ place = <<>>
  /\ reverseMap = <<>>
  /\ written = {}

----------------------------------------------------------------------------
(* Mutants (see MessageTokens).                                              *)

(* charCodeAt instead of codePointAt: halves are read, and not the whole. *)
UnitsAlone(string) ==
  (DOMAIN string \ Wide) \union
    UNION {{HalvesOf[c][1], HalvesOf[c][2]} : c \in Wide \intersect DOMAIN string}

(* No test for a collision. *)
NeverTaken(c, others) == FALSE

(* No test for a missing code point. *)
OnlyTaken(c, others) ==
  /\ c \notin Mapped
  /\ Hash[c] \in DOMAIN reverseMap \/ \E d \in others \ {c} : Hash[d] = Hash[c]

----------------------------------------------------------------------------

(* set on a Map, for every entry of g. *)
Put(f, g) == [x \in DOMAIN f \union DOMAIN g |-> IF x \in DOMAIN g THEN g[x] ELSE f[x]]

CodesOf(chars) == [c \in chars |-> Hash[c]]

CharsOf(chars) ==
  [k \in {Hash[c] : c \in chars} |-> CHOOSE c \in chars : Hash[c] = k]

(* The code of c belongs to another code point: a mapped one, or one of those *)
(* that are mapped before it.                                                *)
Taken(c, others) ==
  Hash[c] \in DOMAIN reverseMap \/ \E d \in others \ {c} : Hash[d] = Hash[c]

(* encryptChar throws, or the test of its caller does. *)
Refused(c, others) == c = Zero \/ (c \notin Mapped /\ Taken(c, others))

Before(text, n) == {text[j] : j \in 1..(n - 1)}

Places(text, c) == {i \in DOMAIN text : text[i] = c}

Earlier(ps, qs) == \E p \in ps : \A q \in qs : p < q

(* encryptChar of the first n - 1 characters, none of which is refused: the *)
(* new ones come after those that are mapped, in the order of the text.     *)
EncryptChars(text, n) ==
  LET new == Before(text, n) \ Mapped
      Ahead(c) == {d \in Before(text, n) : Earlier(Places(text, d), Places(text, c))} IN
  /\ charMap' = Put(charMap, CodesOf(new))
  /\ place' = Put(place, [c \in new |-> Cardinality(Mapped \union Ahead(c)) + 1])
  /\ reverseMap' = Put(reverseMap, CharsOf(new))

RefusedAt(text, n) == Refused(text[n], Before(text, n) \ Mapped)

Encrypt(text) ==
  /\ \A n \in DOMAIN text : ~RefusedAt(text, n)
  /\ EncryptChars(text, Len(text) + 1)
  /\ written' = written \union {[char |-> c, code |-> charMap'[c]] : c \in Before(text, Len(text) + 1)}

(* The characters before the one that is refused stay mapped. *)
EncryptThrows(text) ==
  /\ \E n \in DOMAIN text :
       /\ RefusedAt(text, n)
       /\ \A j \in 1..(n - 1) : ~RefusedAt(text, j)
       /\ EncryptChars(text, n)
  /\ UNCHANGED written

(* decrypt(code) returns c. *)
Decrypts(code, c) == code \in DOMAIN reverseMap /\ reverseMap[code] = c

(* The string of the mapped characters: each at its place. *)
GetMappings == place

Whole(h, l) == CHOOSE c \in Wide : HalvesOf[c] = <<h, l>>

(* codePointAt at the place of c in the string. *)
CodePointAt(string, c) ==
  LET next == {l \in Low \intersect DOMAIN string : string[l] = string[c] + 1} IN
  IF c \in High /\ next # {} THEN Whole(c, CHOOSE l \in next : TRUE) ELSE c

SecondHalves(chars) == {HalvesOf[c][2] : c \in Wide \intersect chars}

(* The code points that initMapping reads. *)
Units(string) ==
  {CodePointAt(string, c) : c \in DOMAIN string} \union SecondHalves(DOMAIN string)

(* When it reads d: at the first or at the second unit of some character. *)
Reads(string, d) ==
  {2 * string[c] : c \in {x \in DOMAIN string : CodePointAt(string, x) = d}} \union
  {2 * string[c] + 1 : c \in {x \in Wide \intersect DOMAIN string : HalvesOf[x][2] = d}}

(* A new instance takes the place of the old one, or the constructor throws. *)
InitMapping ==
  LET string == GetMappings
      units == Units(string)
      Ahead(d) == {e \in units : Earlier(Reads(string, e), Reads(string, d))} IN
  /\ IF \E c, d \in units : c # d /\ Hash[c] = Hash[d]
     THEN UNCHANGED <<charMap, place, reverseMap>>
     ELSE /\ charMap' = CodesOf(units)
          /\ place' = [d \in units |-> Cardinality(Ahead(d)) + 1]
          /\ reverseMap' = CharsOf(units)
  /\ UNCHANGED written

EncNext ==
  \/ \E text \in Text : Encrypt(text) \/ EncryptThrows(text)
  \/ InitMapping

EncSpec == EncInit /\ [][EncNext]_encVars

----------------------------------------------------------------------------

(* The two maps are inverse to each other, also after an encryption that     *)
(* broke off half way: no two characters share a code, whatever the hash     *)
(* does, and each of them can be read back.                                  *)
MapsInverse ==
  /\ \A c \in Mapped : charMap[c] \in DOMAIN reverseMap /\ reverseMap[charMap[c]] = c
  /\ \A k \in DOMAIN reverseMap : reverseMap[k] \in Mapped /\ charMap[reverseMap[k]] = k

(* What has been encrypted once can be decrypted ever after: by the instance *)
(* that wrote it, after other texts and failures, and by every instance made *)
(* from the mappings of an earlier one.  The exception is a lone first half  *)
(* that a new instance has read together with a lone second half as one      *)
(* character, which is mapped from then on, beside the second half.          *)
MergedWith(h, l) == {l, Whole(h, l)} \subseteq Mapped

StaysReadable ==
  \A w \in written :
    \/ Decrypts(w.code, w.char)
    \/ w.char \in High /\ \E l \in Low : MergedWith(w.char, l)
=============================================================================
