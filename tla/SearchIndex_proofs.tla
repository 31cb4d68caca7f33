-------------------------- MODULE SearchIndex_proofs --------------------------
(***************************************************************************)
(* Proofs about the two modules of the search index.  MessageEncryptor,    *)
(* for all characters, hashes and texts: the two maps stay inverse to each *)
(* other, and what has been encrypted can be decrypted, but a lone first   *)
(* half that was merged with a second one.  SearchSync, for any users,     *)
(* registrations, imports and workers: nobody is welcomed, what has been   *)
(* reported as synchronised does not go back for a user whose changes wait *)
(* for each other, and only authors with a mapping are told that a message *)
(* was seen.                                                               *)
(***************************************************************************)
EXTENDS MessageEncryptor, SearchSync, FiniteSetTheorems, TLAPS

----------------------------------------------------------------------------
(* The encryptor                                                             *)

(* The invariant: the maps have their types, are inverse to each other and   *)
(* agree with the hash; a character that has been written has the code that  *)
(* the hash gives it, and is mapped, unless it is a first half that has been *)
(* merged with a second one.                                                 *)
MapsInv ==
  /\ EncTypeOK
  /\ MapsInverse
  /\ \A c \in Mapped : charMap[c] = Hash[c]

WrittenInv ==
  \A w \in written :
    /\ w.code = Hash[w.char]
    /\ \/ w.char \in Mapped
       \/ w.char \in High /\ \E l \in Low : MergedWith(w.char, l)

EncInv == MapsInv /\ WrittenInv

(* Characters that encryptChar may map: code points other than 0, the new    *)
(* ones with codes that are free and different.                              *)
Mappable(chars) ==
  /\ chars \subseteq CodePoint \ {Zero}
  /\ \A c \in chars \ Mapped : Hash[c] \notin DOMAIN reverseMap
  /\ \A c, d \in chars \ Mapped : Hash[c] = Hash[d] => c = d

----------------------------------------------------------------------------
(* The maps                                                                  *)

(* Mapping such characters adds them to the maps and keeps the maps inverse. *)
LEMMA EncryptCharsStep ==
  ASSUME NEW text, NEW n, Mappable(Before(text, n)), EncTypeOK, MapsInverse,
         \A c \in Mapped : charMap[c] = Hash[c],
         EncryptChars(text, n)
  PROVE  /\ Mapped' = Mapped \union Before(text, n)
         /\ Mapped' \subseteq CodePoint \ {Zero}
         /\ charMap' \in [Mapped' -> Code]
         /\ place' \in [Mapped' -> Nat]
         /\ DOMAIN reverseMap' \subseteq Code
         /\ reverseMap' \in [DOMAIN reverseMap' -> Mapped']
         /\ MapsInverse'
         /\ \A c \in Mapped' : charMap'[c] = Hash[c]
<1> DEFINE new == Before(text, n) \ Mapped
           Ahead(c) == {d \in Before(text, n) : Earlier(Places(text, d), Places(text, c))}
           codes == {Hash[c] : c \in new}
<1>1. charMap' = [x \in Mapped \union new |-> IF x \in new THEN Hash[x] ELSE charMap[x]]
  BY DEF EncryptChars, Put, CodesOf, Mapped
<1>2. reverseMap' = [k \in DOMAIN reverseMap \union codes |->
                       IF k \in codes THEN CHOOSE c \in new : Hash[c] = k ELSE reverseMap[k]]
  BY DEF EncryptChars, Put, CharsOf
<1>3. Mapped' = Mapped \union new /\ Mapped' = Mapped \union Before(text, n)
  BY <1>1 DEF Mapped
<1>4. Mapped' \subseteq CodePoint \ {Zero}
  BY <1>3 DEF Mappable, EncTypeOK
<1>5. \A c \in Mapped' : charMap'[c] = Hash[c]
  BY <1>1, <1>3
<1>6. charMap' \in [Mapped' -> Code]
  BY <1>1, <1>3, <1>4, <1>5, EncryptorAssumption
<1>7. DOMAIN reverseMap' = DOMAIN reverseMap \union codes
  BY <1>2
<1>8. \A k \in codes : reverseMap'[k] \in new /\ Hash[reverseMap'[k]] = k
  BY <1>2
<1>9. \A k \in DOMAIN reverseMap : k \notin codes /\ reverseMap'[k] = reverseMap[k]
  BY <1>2 DEF Mappable
<1>10. DOMAIN reverseMap' \subseteq Code
  BY <1>4, <1>3, <1>7, EncryptorAssumption DEF EncTypeOK
<1>11. \A k \in DOMAIN reverseMap' : reverseMap'[k] \in Mapped' /\ Hash[reverseMap'[k]] = k
  BY <1>3, <1>7, <1>8, <1>9 DEF EncTypeOK, MapsInverse
<1>12. reverseMap' \in [DOMAIN reverseMap' -> Mapped']
  BY <1>2, <1>11
<1>13. \A c \in Mapped' : Hash[c] \in DOMAIN reverseMap' /\ reverseMap'[Hash[c]] = c
  <2> SUFFICES ASSUME NEW c \in Mapped'
               PROVE  Hash[c] \in DOMAIN reverseMap' /\ reverseMap'[Hash[c]] = c
    OBVIOUS
  <2>1. CASE c \in new
    BY <2>1, <1>7, <1>8 DEF Mappable
  <2>2. CASE c \in Mapped
    BY <2>2, <1>7, <1>9 DEF MapsInverse
  <2> QED BY <2>1, <2>2, <1>3
<1>14. place' \in [Mapped' -> Nat]
  <2>1. place' = [x \in Mapped \union new |->
                    IF x \in new THEN Cardinality(Mapped \union Ahead(x)) + 1 ELSE place[x]]
    BY DEF EncryptChars, Put, EncTypeOK
  <2>2. ASSUME NEW c \in new
        PROVE  Cardinality(Mapped \union Ahead(c)) \in Nat
    <3>1. Mapped \union Ahead(c) \subseteq CodePoint
      BY DEF Mappable, EncTypeOK
    <3> QED BY <3>1, FS_Subset, FS_CardinalityType, EncryptorAssumption
  <2> HIDE DEF Ahead
  <2> QED BY <2>1, <2>2, <1>3 DEF EncTypeOK
<1> QED BY <1>14, <1>3, <1>4, <1>5, <1>6, <1>10, <1>11, <1>12, <1>13 DEF MapsInverse

(* A text is a sequence of characters.                                       *)
LEMMA TextIsSequence ==
  ASSUME NEW text \in Text
  PROVE  /\ text \in Seq(CodePoint)
         /\ Len(text) \in Nat
         /\ DOMAIN text = 1..Len(text)
         /\ \A i \in DOMAIN text : text[i] \in CodePoint
<1>1. PICK n \in 0..MaxText : text \in [1..n -> CodePoint]
  BY DEF Text
<1>2. text \in Seq(CodePoint)
  BY <1>1, EncryptorAssumption
<1> QED BY <1>2

(* The characters of a text up to one that is refused may be mapped.         *)
LEMMA BeforeMappable ==
  ASSUME EncTypeOK, NEW text \in Text, NEW n \in 1..(Len(text) + 1),
         \A j \in 1..(n - 1) : ~RefusedAt(text, j)
  PROVE  Mappable(Before(text, n))
<1>1. \A j \in 1..(n - 1) : text[j] \in CodePoint \ {Zero}
  <2> SUFFICES ASSUME NEW j \in 1..(n - 1)
               PROVE  text[j] \in CodePoint \ {Zero}
    OBVIOUS
  <2>1. Len(text) \in Nat /\ DOMAIN text = 1..Len(text) /\ \A i \in DOMAIN text : text[i] \in CodePoint
    BY TextIsSequence
  <2>2. j \in 1..Len(text)
    BY <2>1
  <2>3. text[j] # Zero
    BY DEF RefusedAt, Refused
  <2> QED BY <2>1, <2>2, <2>3
<1>2. ASSUME NEW j \in 1..(n - 1), text[j] \notin Mapped
      PROVE  /\ Hash[text[j]] \notin DOMAIN reverseMap
             /\ \A i \in 1..(j - 1) :
                  text[i] \notin Mapped /\ text[i] # text[j] => Hash[text[i]] # Hash[text[j]]
  BY <1>2 DEF RefusedAt, Refused, Taken, Before
<1>3. \A c \in Before(text, n) : c \in CodePoint \ {Zero}
  BY <1>1 DEF Before
<1>4. \A c \in Before(text, n) \ Mapped : Hash[c] \notin DOMAIN reverseMap
  BY <1>2 DEF Before
<1>5. ASSUME NEW c \in Before(text, n) \ Mapped, NEW d \in Before(text, n) \ Mapped,
             Hash[c] = Hash[d]
      PROVE  c = d
  <2>1. PICK i \in 1..(n - 1), j \in 1..(n - 1) : c = text[i] /\ d = text[j]
    BY DEF Before
  <2>2. i = j \/ i \in 1..(j - 1) \/ j \in 1..(i - 1)
    OBVIOUS
  <2> QED BY <1>2, <1>5, <2>1, <2>2
<1> QED BY <1>3, <1>4, <1>5 DEF Mappable

(* What a new instance has read: every character that was mapped but a first *)
(* half before a second one, which is merged.                                *)
LEMMA UnitsOfString ==
  ASSUME EncTypeOK
  PROVE  /\ Units(GetMappings) \subseteq CodePoint \ {Zero}
         /\ \A c \in Mapped :
              \/ c \in Units(GetMappings)
              \/ c \in High /\ \E l \in Low : {l, Whole(c, l)} \subseteq Units(GetMappings)
<1> DEFINE units == Units(GetMappings)
           At(c) == CodePointAt(GetMappings, c)
<1>1. DOMAIN GetMappings = Mapped
  BY DEF GetMappings, EncTypeOK
<1>2. \A h \in High, l \in Low : Whole(h, l) \in Wide
  BY EncryptorAssumption DEF Whole
<1>3. ASSUME NEW c \in Mapped
      PROVE  \/ At(c) = c
             \/ c \in High /\ \E l \in Low \intersect Mapped : At(c) = Whole(c, l)
  <2> DEFINE next == {l \in Low \intersect DOMAIN GetMappings :
                        GetMappings[l] = GetMappings[c] + 1}
  <2>1. next # {} => (CHOOSE l \in next : TRUE) \in Low \intersect Mapped
    BY <1>1
  <2> QED BY <2>1 DEF CodePointAt
<1>4. \A c \in Mapped : At(c) \in units
  BY <1>1 DEF Units
<1>5. SecondHalves(DOMAIN GetMappings) \subseteq Low
  BY EncryptorAssumption DEF SecondHalves
<1>6. units \subseteq CodePoint \ {Zero}
  <2>1. \A c \in Mapped : At(c) \in CodePoint \ {Zero}
    BY <1>2, <1>3, EncryptorAssumption DEF EncTypeOK
  <2> HIDE DEF At
  <2> QED BY <1>1, <1>5, <2>1, EncryptorAssumption DEF Units, At
<1>7. ASSUME NEW c \in Mapped, c \notin High
      PROVE  c \in units
  BY <1>3, <1>4, <1>7
<1>8. ASSUME NEW c \in Mapped, c \notin units
      PROVE  c \in High /\ \E l \in Low : {l, Whole(c, l)} \subseteq units
  <2>1. PICK l \in Low \intersect Mapped : c \in High /\ At(c) = Whole(c, l)
    BY <1>3, <1>4, <1>8
  <2>2. l \in units
    BY <1>7, EncryptorAssumption
  <2> QED BY <1>4, <2>1, <2>2
<1> QED BY <1>6, <1>8

(* What such a new instance holds.                                           *)
LEMMA NewInstance ==
  ASSUME NEW units, units \subseteq CodePoint \ {Zero},
         \A c, d \in units : Hash[c] = Hash[d] => c = d,
         charMap' = CodesOf(units),
         reverseMap' = CharsOf(units)
  PROVE  /\ Mapped' = units
         /\ charMap' \in [units -> Code]
         /\ DOMAIN reverseMap' \subseteq Code
         /\ reverseMap' \in [DOMAIN reverseMap' -> units]
         /\ MapsInverse'
         /\ \A c \in units : charMap'[c] = Hash[c]
<1>1. /\ Mapped' = units
      /\ charMap' = [c \in units |-> Hash[c]]
      /\ \A c \in units : charMap'[c] = Hash[c]
  BY DEF CodesOf, Mapped
<1>2. /\ DOMAIN reverseMap' = {Hash[c] : c \in units}
      /\ \A k \in DOMAIN reverseMap' : reverseMap'[k] \in units /\ Hash[reverseMap'[k]] = k
      /\ reverseMap' \in [DOMAIN reverseMap' -> units]
  BY DEF CharsOf
<1>3. charMap' \in [units -> Code] /\ DOMAIN reverseMap' \subseteq Code
  BY <1>1, <1>2, EncryptorAssumption
<1>4. MapsInverse'
  BY <1>1, <1>2 DEF MapsInverse
<1> QED BY <1>1, <1>2, <1>3, <1>4

(* A step keeps the maps' invariant, and forgets no character but first      *)
(* halves that have been merged.                                             *)
KeepsMapped ==
  \A c \in Mapped :
    \/ c \in Mapped'
    \/ c \in High /\ \E l \in Low : MergedWith(c, l)'

LEMMA MapsStep ==
  MapsInv /\ [EncNext]_encVars => MapsInv' /\ KeepsMapped
<1> SUFFICES ASSUME MapsInv, [EncNext]_encVars
             PROVE  MapsInv' /\ KeepsMapped
  OBVIOUS
<1> USE DEF MapsInv
<1>1. ASSUME NEW text \in Text, Encrypt(text)
      PROVE  MapsInv' /\ KeepsMapped
  <2> DEFINE chars == Before(text, Len(text) + 1)
  <2>1. /\ Len(text) + 1 \in 1..(Len(text) + 1)
        /\ \A j \in 1..((Len(text) + 1) - 1) : ~RefusedAt(text, j)
    BY <1>1, TextIsSequence DEF Encrypt
  <2>2. Mappable(chars)
    BY <2>1, BeforeMappable
  <2>3. EncryptChars(text, Len(text) + 1)
    BY <1>1 DEF Encrypt
  <2>4. /\ Mapped' = Mapped \union chars
        /\ Mapped' \subseteq CodePoint \ {Zero}
        /\ charMap' \in [Mapped' -> Code]
        /\ place' \in [Mapped' -> Nat]
        /\ DOMAIN reverseMap' \subseteq Code
        /\ reverseMap' \in [DOMAIN reverseMap' -> Mapped']
        /\ MapsInverse'
        /\ \A c \in Mapped' : charMap'[c] = Hash[c]
    BY <2>2, <2>3, EncryptCharsStep
  <2>5. \A c \in chars : [char |-> c, code |-> charMap'[c]] \in [char : CodePoint, code : Code]
    BY <2>4
  <2>6. written' \subseteq [char : CodePoint, code : Code]
    <3> HIDE DEF chars
    <3>1. written' = written \union {[char |-> c, code |-> charMap'[c]] : c \in chars}
      BY <1>1 DEF Encrypt, chars
    <3> QED BY <2>5, <3>1 DEF EncTypeOK
  <2> QED BY <2>4, <2>6 DEF EncTypeOK, KeepsMapped
<1>2. ASSUME NEW text \in Text, EncryptThrows(text)
      PROVE  MapsInv' /\ KeepsMapped
  <2>1. PICK n \in DOMAIN text : /\ \A j \in 1..(n - 1) : ~RefusedAt(text, j)
                                /\ EncryptChars(text, n)
    BY <1>2 DEF EncryptThrows
  <2>2. n \in 1..(Len(text) + 1)
    BY TextIsSequence
  <2>3. Mappable(Before(text, n))
    BY <2>1, <2>2, BeforeMappable
  <2> QED BY <1>2, <2>1, <2>3, EncryptCharsStep DEF EncryptThrows, EncTypeOK, KeepsMapped
<1>3. CASE InitMapping
  <2> DEFINE units == Units(GetMappings)
             Ahead(d) == {e \in units : Earlier(Reads(GetMappings, e), Reads(GetMappings, d))}
  <2>1. CASE UNCHANGED <<charMap, place, reverseMap>>
    BY <1>3, <2>1 DEF InitMapping, EncTypeOK, MapsInverse, Mapped, KeepsMapped
  <2>2. CASE /\ \A c, d \in units : Hash[c] = Hash[d] => c = d
             /\ charMap' = CodesOf(units)
             /\ place' = [d \in units |-> Cardinality(Ahead(d)) + 1]
             /\ reverseMap' = CharsOf(units)
    <3>1. \A d \in units : Ahead(d) \subseteq units
      OBVIOUS
    <3> HIDE DEF units, Ahead
    <3>2. units \subseteq CodePoint \ {Zero}
      BY UnitsOfString DEF units
    <3>3. place' \in [units -> Nat]
      <4> SUFFICES ASSUME NEW d \in units
                   PROVE  Cardinality(Ahead(d)) \in Nat
        BY <2>2
      <4> QED BY <3>1, <3>2, FS_Subset, FS_CardinalityType, EncryptorAssumption
    <3>4. /\ Mapped' = units
          /\ charMap' \in [units -> Code]
          /\ DOMAIN reverseMap' \subseteq Code
          /\ reverseMap' \in [DOMAIN reverseMap' -> units]
          /\ MapsInverse'
          /\ \A c \in units : charMap'[c] = Hash[c]
      BY <2>2, <3>2, NewInstance
    <3>5. written' \subseteq [char : CodePoint, code : Code]
      BY <1>3 DEF InitMapping, EncTypeOK
    <3>6. KeepsMapped
      BY <3>4, UnitsOfString DEF KeepsMapped, MergedWith, units
    <3> QED BY <3>2, <3>3, <3>4, <3>5, <3>6 DEF EncTypeOK
  <2> QED BY <1>3, <2>1, <2>2 DEF InitMapping
<1>4. CASE UNCHANGED encVars
  BY <1>4 DEF encVars, EncTypeOK, MapsInverse, Mapped, KeepsMapped
<1> QED BY <1>1, <1>2, <1>3, <1>4 DEF EncNext

(* The characters that have been written stay mapped, but merged halves.     *)
LEMMA WrittenStep ==
  MapsInv /\ WrittenInv /\ [EncNext]_encVars => WrittenInv'
<1> SUFFICES ASSUME MapsInv, WrittenInv, [EncNext]_encVars, NEW w \in written'
             PROVE  /\ w.code = Hash[w.char]
                    /\ \/ w.char \in Mapped'
                       \/ w.char \in High /\ \E l \in Low : MergedWith(w.char, l)'
  BY DEF WrittenInv
<1>1. MapsInv' /\ KeepsMapped
  BY MapsStep
<1>2. CASE w \in written
  <2>1. w.code = Hash[w.char]
    BY <1>2 DEF WrittenInv
  <2>2. CASE w.char \in Mapped
    BY <1>1, <2>1, <2>2 DEF KeepsMapped
  <2>3. ASSUME NEW l \in Low, w.char \in High, MergedWith(w.char, l)
        PROVE  MergedWith(w.char, l)'
    <3>1. Whole(w.char, l) \in Wide
      BY <2>3, EncryptorAssumption DEF Whole
    <3>2. l \notin High /\ Whole(w.char, l) \notin High
      BY <3>1, EncryptorAssumption
    <3> QED BY <1>1, <2>3, <3>2 DEF KeepsMapped, MergedWith
  <2> QED BY <1>2, <2>1, <2>2, <2>3 DEF WrittenInv
<1>3. ASSUME NEW text \in Text, Encrypt(text), NEW c \in Before(text, Len(text) + 1),
             w = [char |-> c, code |-> charMap'[c]]
      PROVE  w.char \in Mapped' /\ w.code = Hash[w.char]
  <2>1. c \in Mapped'
    BY <1>3 DEF Encrypt, EncryptChars, Put, CodesOf, Mapped
  <2> QED BY <1>1, <1>3, <2>1 DEF MapsInv
<1> QED BY <1>2, <1>3 DEF EncNext, Encrypt, EncryptThrows, InitMapping, encVars

----------------------------------------------------------------------------
(* The theorems                                                              *)

(* The invariant holds always.                                               *)
THEOREM EncInvariant == EncSpec => []EncInv
<1>1. EncInit => EncInv
  BY DEF EncInit, EncInv, MapsInv, WrittenInv, EncTypeOK, MapsInverse, Mapped
<1>2. EncInv /\ [EncNext]_encVars => EncInv'
  BY MapsStep, WrittenStep DEF EncInv
<1> QED BY <1>1, <1>2, PTL DEF EncSpec

(* The variables always have their types.                                    *)
THEOREM EncTypeCorrect == EncSpec => []EncTypeOK
  BY EncInvariant, PTL DEF EncInv, MapsInv

(* No two characters ever share a code.                                      *)
THEOREM MapsInverseAlways == EncSpec => []MapsInverse
  BY EncInvariant, PTL DEF EncInv, MapsInv

(* What has been encrypted once can be decrypted ever after, but a lone first *)
(* half that has been merged with a second one.                              *)
THEOREM StaysReadableAlways == EncSpec => []StaysReadable
<1>1. EncInv => StaysReadable
  <2> SUFFICES ASSUME EncInv, NEW w \in written, w.char \in Mapped
               PROVE  Decrypts(w.code, w.char)
    BY DEF StaysReadable, EncInv, WrittenInv
  <2>1. w.code = charMap[w.char]
    BY DEF EncInv, WrittenInv, MapsInv
  <2> QED BY <2>1 DEF EncInv, MapsInv, MapsInverse, Decrypts
<1> QED BY <1>1, EncInvariant, PTL

----------------------------------------------------------------------------
(* The synchronisation                                                       *)

Busy(w) == worker[w].pc # "unused"

(* A worker that has a message comes no further than the check.              *)
MessagesWait ==
  \A w \in Worker : worker[w].type = "message" => worker[w].pc = "check"

(* The worker has the row or the profile of a user whose changes wait.       *)
SerialWorker(w) == Busy(w) /\ worker[w].type # "message" /\ worker[w].user \in Serial

(* No worker is ahead of the row of its user, which is there; and whoever    *)
(* will write the document of a user whose changes wait has the row as it is *)
(* now: the row stays as it is until that work is done.                      *)
WorkIsCurrent ==
  /\ \A w \in Worker : Busy(w) => worker[w].version \in 1..version[worker[w].user]
  /\ \A w \in Worker : SerialWorker(w) => worker[w].version = version[worker[w].user]
  /\ \A i \in Import, u \in Serial : import[i][u] > 0 => import[i][u] = version[u]

(* SuccessIsFresh, said of the index.                                        *)
IndexIsFresh == \A u \in Serial : index[u] >= promised[u]

SyncInv ==
  /\ SyncTypeOK
  /\ NobodyIsWelcomed
  /\ MessagesWait
  /\ WorkIsCurrent
  /\ IndexIsFresh

(* What the type of a worker says about its fields.                          *)
LEMMA WorkerFields ==
  ASSUME SyncTypeOK, NEW w \in Worker
  PROVE  /\ worker[w] = Unused <=> ~Busy(w)
         /\ Busy(w) => worker[w] \in [pc : {"check", "find", "index"},
                                      type : {"message", "user", "profile"},
                                      user : User, version : Version]
BY DEF SyncTypeOK, Busy, Unused

(* The synchronisation of a new row throws: its user has no encryptor.       *)
LEMMA NewRowHasNoEncryptor ==
  ASSUME SyncTypeOK, NEW u \in User, version[u] = 0
  PROVE  u \notin encryptors
BY DEF SyncTypeOK

LEMMA InitInv == SyncInit => SyncInv
<1> SUFFICES ASSUME SyncInit PROVE SyncInv
  OBVIOUS
<1>0. 0 \in Version /\ 0 <= 0
  BY SearchSyncAssumption DEF Version
<1>1. SyncTypeOK
  BY <1>0 DEF SyncInit, SyncTypeOK, NothingRead
<1>2. \A w \in Worker : ~Busy(w) /\ worker[w].type = "user"
  BY DEF SyncInit, Busy, Unused
<1>3. IndexIsFresh
  BY SearchSyncAssumption, <1>0 DEF SyncInit, IndexIsFresh
<1>4. \A i \in Import, u \in Serial : ~(import[i][u] > 0)
  <2>1. \A i \in Import, u \in Serial : import[i][u] = 0
    BY SearchSyncAssumption DEF SyncInit, NothingRead
  <2> QED
    BY <2>1
<1> QED
  BY <1>1, <1>2, <1>3, <1>4
  DEF SyncInit, SyncInv, NobodyIsWelcomed, MessagesWait, WorkIsCurrent, SerialWorker

----------------------------------------------------------------------------
(* Types                                                                     *)

(* Every step keeps the types.                                               *)
LEMMA TypeStep == SyncInv /\ [SyncNext]_syncVars => SyncTypeOK'
<1> SUFFICES ASSUME SyncInv, [SyncNext]_syncVars PROVE SyncTypeOK'
  OBVIOUS
<1>0. SyncTypeOK
  BY DEF SyncInv
<1> USE SearchSyncAssumption DEF Version
<1> DEFINE Work == [pc : {"check", "find", "index"}, type : {"message", "user", "profile"},
                    user : User, version : Version]
<1>1. ASSUME NEW t \in Task, NEW u \in User, Register(t, u)
      PROVE  SyncTypeOK'
  BY <1>0, <1>1 DEF Register, SyncTypeOK
<1>2. ASSUME NEW t \in Task, FindNobody(t)
      PROVE  SyncTypeOK'
  BY <1>0, <1>2 DEF FindNobody, SyncTypeOK, Idle
<1>3. ASSUME NEW t \in Task, NEW w \in Worker, CreateUser(t, w)
      PROVE  SyncTypeOK'
  <2>1. task[t].user \in User /\ version[task[t].user] = 0
    BY <1>0, <1>3 DEF CreateUser, InsertUser, SyncTypeOK, Idle
  <2>2. worker' = worker /\ cookie' = cookie
    BY <1>0, <1>3, <2>1, NewRowHasNoEncryptor DEF CreateUser, SyncDataToES
  <2> QED
    BY <1>0, <1>3, <2>1, <2>2 DEF CreateUser, InsertUser, Done, SyncTypeOK
<1>4. ASSUME NEW t \in Task, RegisterFails(t)
      PROVE  SyncTypeOK'
  <2>1. task' \in [Task -> {Idle} \union [pc : {"find", "create"}, user : User]]
    BY <1>0, <1>4 DEF RegisterFails, Done, SyncTypeOK
  <2>2. /\ version' \in [User -> Version]
        /\ \A x \in User : version[x] <= version'[x]
    <3>1. task[t].pc = "create" => task[t].user \in User
      BY <1>0 DEF SyncTypeOK, Idle
    <3> QED
      BY <1>0, <1>4, <3>1 DEF RegisterFails, InsertUser, SyncTypeOK
  <2>3. \A x \in User : /\ version[x] \in Nat /\ version'[x] \in Nat
                        /\ index[x] \in Nat /\ promised[x] \in Nat
                        /\ \A i \in Import : import[i][x] \in Nat
    BY <1>0, <2>2 DEF SyncTypeOK
  <2> QED
    BY <1>0, <1>4, <2>1, <2>2, <2>3 DEF RegisterFails, SyncTypeOK
<1>5. ASSUME NEW u \in User, NEW m \in {"empty", "chars"}, CreateMessageMapping(u, m)
      PROVE  SyncTypeOK'
  BY <1>0, <1>5 DEF CreateMessageMapping, SyncTypeOK
<1>6. ASSUME NEW u \in User, InitESMessageEncryptor(u)
      PROVE  SyncTypeOK'
  BY <1>0, <1>6 DEF InitESMessageEncryptor, Decryptable, SyncTypeOK
<1>7. ASSUME NEW u \in User, Login(u) \/ Logout(u)
      PROVE  SyncTypeOK'
  BY <1>0, <1>7 DEF Login, Logout, GetUserByEmail, SendClientJWT, RemoveJWT, Authenticated, SyncTypeOK
<1>8. ASSUME NEW u \in User, NEW w \in Worker, MarkAsSeen(u, w)
      PROVE  SyncTypeOK'
  <2>1. version[u] \in Version
    BY <1>0 DEF SyncTypeOK
  <2> QED
    BY <1>0, <1>8, <2>1 DEF MarkAsSeen, WriteStatus, SyncDataToES, SyncTypeOK
<1>9. ASSUME NEW u \in User, MarkFails(u)
      PROVE  SyncTypeOK'
  BY <1>0, <1>9 DEF MarkFails, WriteStatus, SyncTypeOK
<1>10. ASSUME NEW u \in User, NEW w \in Worker, NEW type \in {"user", "profile"},
              ChangeUser(u, w, type)
       PROVE  SyncTypeOK'
  <2>1. version[u] + 1 \in Version
    BY <1>0, <1>10 DEF ChangeUser, SyncTypeOK
  <2> QED
    BY <1>0, <1>10, <2>1 DEF ChangeUser, SyncDataToES, SyncTypeOK
<1>11. ASSUME NEW w \in Worker, CheckInputData(w)
       PROVE  SyncTypeOK'
  <2>1. [worker[w] EXCEPT !.pc = "find"] \in Work
    BY <1>0, <1>11, WorkerFields DEF CheckInputData, Busy
  <2> QED
    BY <1>0, <1>11, <2>1 DEF CheckInputData, SyncTypeOK
<1>12. ASSUME NEW w \in Worker, FindUser(w)
       PROVE  SyncTypeOK'
  <2> DEFINE v == FoundVersion(w)
  <2>1. worker[w] \in Work /\ v \in Version
    BY <1>0, <1>12, WorkerFields DEF FindUser, FoundVersion, SyncTypeOK, Busy
  <2>2. [worker[w] EXCEPT !.pc = "index", !.version = v] \in Work
    BY <2>1
  <2>3. worker' = [worker EXCEPT ![w] = [worker[w] EXCEPT !.pc = "index", !.version = v]]
    BY <1>12 DEF FindUser
  <2> QED
    BY <1>0, <1>12, <2>2, <2>3 DEF FindUser, SyncTypeOK
<1>13. ASSUME NEW w \in Worker, IndexUser(w) \/ WorkerFails(w)
       PROVE  SyncTypeOK'
  <2>1. worker[w].pc = "index" => /\ worker[w].user \in User /\ worker[w].version \in Version
                                  /\ worker[w].version <= version[worker[w].user]
    BY <1>0, WorkerFields DEF SyncInv, WorkIsCurrent, SyncTypeOK, Busy
  <2> QED
    BY <1>0, <1>13, <2>1 DEF IndexUser, WorkerFails, GiveUp, WriteDocument, SyncTypeOK
<1>14. ASSUME NEW i \in Import, InitData(i)
       PROVE  SyncTypeOK'
  BY <1>0, <1>14 DEF InitData, SyncTypeOK
<1>15. ASSUME NEW i \in Import, NEW u \in User, ImportUser(i, u) \/ ImportFails(i, u)
       PROVE  SyncTypeOK'
  <2>1. /\ import[i][u] \in Version /\ import[i][u] <= version[u]
        /\ \A x \in User : 0 <= version[x]
    BY <1>0 DEF SyncTypeOK
  <2>2. import' \in [Import -> [User -> Version]]
    BY <1>0, <1>15 DEF ImportUser, ImportFails, NothingRead, SyncTypeOK
  <2>3. \A j \in Import, x \in User : import'[j][x] \in {import[j][x], 0}
    BY <1>0, <1>15 DEF ImportUser, ImportFails, NothingRead, SyncTypeOK
  <2>4. \A j \in Import, x \in User : import'[j][x] <= version'[x]
    BY <1>0, <1>15, <2>1, <2>3 DEF ImportUser, ImportFails, SyncTypeOK
  <2>5. /\ index' \in [User -> Version] /\ promised' \in [User -> Version]
        /\ \A x \in User : index'[x] <= version[x] /\ promised'[x] <= version[x]
    <3>1. /\ index' \in {index, [index EXCEPT ![u] = import[i][u]]}
          /\ promised' \in {promised, [promised EXCEPT ![u] = import[i][u]]}
      BY <1>0, <1>15 DEF ImportUser, ImportFails, SyncTypeOK
    <3> QED
      BY <1>0, <2>1, <3>1 DEF SyncTypeOK
  <2> QED
    BY <1>0, <1>15, <2>2, <2>4, <2>5 DEF ImportUser, ImportFails, SyncTypeOK
<1>16. CASE RestartServer
  BY <1>0, <1>16 DEF RestartServer, NothingRead, SyncTypeOK
<1>17. CASE UNCHANGED syncVars
  BY <1>0, <1>17 DEF syncVars, SyncTypeOK
<1> QED
  BY <1>1, <1>2, <1>3, <1>4, <1>5, <1>6, <1>7, <1>8, <1>9, <1>10, <1>11, <1>12, <1>13, <1>14, <1>15, <1>16, <1>17
  DEF SyncNext, WorkerStep

----------------------------------------------------------------------------
(* Work                                                                      *)

(* A row is only made for a user nobody is at work for.                      *)
LEMMA InsertKeepsWork ==
  ASSUME SyncInv, NEW u \in User, InsertUser(u), UNCHANGED <<worker, import>>
  PROVE  WorkIsCurrent' /\ MessagesWait'
<1> USE SearchSyncAssumption DEF Version
<1>0. SyncTypeOK
  BY DEF SyncInv
<1>1. version[u] = 0 /\ \A x \in User \ {u} : version'[x] = version[x]
  BY <1>0 DEF InsertUser, SyncTypeOK
<1>2. \A w \in Worker : Busy(w) => worker[w].user \in User \ {u}
  BY <1>0, <1>1, WorkerFields DEF SyncInv, WorkIsCurrent
<1>3. \A i \in Import : import[i][u] = 0
  BY <1>0, <1>1 DEF SyncTypeOK
<1> QED
  BY <1>1, <1>2, <1>3 DEF SyncInv, WorkIsCurrent, MessagesWait, SerialWorker, Busy

(* Work that ends, and steps of others.                                      *)
LEMMA LessWork ==
  ASSUME SyncInv,
         \A w \in Worker : worker'[w] \in {worker[w], Unused},
         \A i \in Import, u \in User : import'[i][u] \in {import[i][u], 0},
         UNCHANGED version
  PROVE  WorkIsCurrent' /\ MessagesWait'
<1>1. \A w \in Worker : Busy(w)' => Busy(w) /\ worker'[w] = worker[w]
  BY DEF Busy, Unused
<1>2. \A i \in Import, u \in Serial : import'[i][u] > 0 => import'[i][u] = import[i][u]
  BY SearchSyncAssumption
<1>3. MessagesWait'
  BY DEF SyncInv, MessagesWait, Unused
<1> QED
  BY <1>1, <1>2, <1>3 DEF SyncInv, WorkIsCurrent, SerialWorker

(* A worker that starts or goes on.                                          *)
LEMMA OneWorkerStep ==
  ASSUME SyncInv, NEW w \in Worker, NEW u \in User, NEW x,
         worker' = [worker EXCEPT ![w] = x],
         x.user = u, x.version \in 1..version[u],
         x.type = "message" => x.pc = "check",
         u \in Serial /\ x.type # "message" => x.version = version[u],
         UNCHANGED <<version, import>>
  PROVE  WorkIsCurrent' /\ MessagesWait'
<1>1. worker'[w] = x /\ \A y \in Worker \ {w} : worker'[y] = worker[y]
  BY DEF SyncInv, SyncTypeOK
<1> QED
  BY <1>1 DEF SyncInv, WorkIsCurrent, MessagesWait, SerialWorker, Busy

(* A row that is changed: nobody is at work for its user if the user's       *)
(* changes wait.                                                             *)
LEMMA ChangeKeepsWork ==
  ASSUME SyncInv, NEW u \in User, NEW w \in Worker, NEW type \in {"user", "profile"},
         ChangeUser(u, w, type)
  PROVE  WorkIsCurrent' /\ MessagesWait'
<1> DEFINE x == [pc |-> "check", type |-> type, user |-> u, version |-> version[u] + 1]
<1>0. SyncTypeOK
  BY DEF SyncInv
<1>1. /\ version[u] \in Nat /\ version[u] > 0
      /\ version' = [version EXCEPT ![u] = @ + 1]
      /\ UNCHANGED import
      /\ UNCHANGED worker \/ (worker[w] = Unused /\ worker' = [worker EXCEPT ![w] = x])
      /\ u \in Serial => Settled(u)
  BY <1>0, SearchSyncAssumption DEF ChangeUser, SyncDataToES, SyncTypeOK, Version
<1>2. /\ x.user = u /\ x.version = version[u] + 1 /\ x.type # "message"
  OBVIOUS
<1> HIDE DEF x
<1>3. version'[u] = version[u] + 1 /\ \A y \in User \ {u} : version'[y] = version[y]
  BY <1>0, <1>1 DEF SyncTypeOK
<1>4. \A y \in Worker : worker'[y] = worker[y] \/ worker'[y] = x
  BY <1>0, <1>1 DEF SyncTypeOK
<1>5. MessagesWait'
  BY <1>2, <1>4 DEF SyncInv, MessagesWait
<1>6. ASSUME NEW y \in Worker, Busy(y)'
      PROVE  /\ worker'[y].version \in 1..version'[worker'[y].user]
             /\ SerialWorker(y)' => worker'[y].version = version'[worker'[y].user]
  <2>1. CASE worker'[y] = x
    BY <1>1, <1>2, <1>3, <2>1
  <2>2. CASE worker'[y] = worker[y]
    <3>1. /\ Busy(y) /\ worker[y].user \in User
          /\ worker[y].version \in 1..version[worker[y].user]
      BY <1>0, <1>6, <2>2, WorkerFields DEF Busy, SyncInv, WorkIsCurrent
    <3>2. CASE worker[y].user = u
      <4>1. ~SerialWorker(y)'
        BY <1>1, <2>2, <3>2 DEF SerialWorker, Settled
      <4>2. worker[y].version \in 1..(version[u] + 1)
        BY <1>1, <3>1, <3>2
      <4> QED
        BY <1>3, <2>2, <3>2, <4>1, <4>2
    <3>3. CASE worker[y].user # u
      BY <1>3, <2>2, <3>1, <3>3 DEF SyncInv, WorkIsCurrent, SerialWorker, Busy
    <3> QED
      BY <3>2, <3>3
  <2> QED
    BY <1>4, <2>1, <2>2
<1>7. \A i \in Import, v \in Serial : import'[i][v] > 0 => import'[i][v] = version'[v]
  <2> SUFFICES ASSUME NEW i \in Import, NEW v \in Serial, import[i][v] > 0
               PROVE  import[i][v] = version'[v]
    BY <1>1
  <2>1. v # u
    BY <1>1 DEF Settled
  <2> QED
    BY <1>3, <2>1, SearchSyncAssumption DEF SyncInv, WorkIsCurrent
<1> QED
  BY <1>5, <1>6, <1>7 DEF WorkIsCurrent, SerialWorker

(* Every step keeps what is said of the work.                                *)
LEMMA WorkStep ==
  SyncInv /\ [SyncNext]_syncVars => WorkIsCurrent' /\ MessagesWait'
<1> SUFFICES ASSUME SyncInv, [SyncNext]_syncVars
             PROVE  WorkIsCurrent' /\ MessagesWait'
  OBVIOUS
<1>0. SyncTypeOK
  BY DEF SyncInv
<1>1. CASE UNCHANGED <<version, worker, import>>
  BY <1>1 DEF SyncInv, WorkIsCurrent, MessagesWait, SerialWorker, Busy
<1>2. ASSUME NEW t \in Task, NEW w \in Worker, CreateUser(t, w)
      PROVE  WorkIsCurrent' /\ MessagesWait'
  <2>1. task[t].user \in User /\ version[task[t].user] = 0
    BY <1>0, <1>2 DEF CreateUser, InsertUser, SyncTypeOK, Idle
  <2>2. UNCHANGED <<worker, import>> /\ InsertUser(task[t].user)
    BY <1>0, <1>2, <2>1, NewRowHasNoEncryptor DEF CreateUser, SyncDataToES
  <2> QED
    BY <2>1, <2>2, InsertKeepsWork
<1>3. ASSUME NEW t \in Task, RegisterFails(t)
      PROVE  WorkIsCurrent' /\ MessagesWait'
  <2>1. CASE task[t].pc = "create" /\ InsertUser(task[t].user)
    <3>1. task[t].user \in User
      BY <1>0, <2>1 DEF SyncTypeOK, Idle
    <3> QED
      BY <1>3, <2>1, <3>1, InsertKeepsWork DEF RegisterFails
  <2> QED
    BY <1>1, <1>3, <2>1 DEF RegisterFails
<1>4. ASSUME NEW u \in User, NEW w \in Worker, MarkAsSeen(u, w)
      PROVE  WorkIsCurrent' /\ MessagesWait'
  <2> DEFINE x == [pc |-> "check", type |-> "message", user |-> u, version |-> version[u]]
  <2>1. /\ UNCHANGED <<version, import>> /\ version[u] \in Nat /\ version[u] > 0
        /\ UNCHANGED worker \/ worker' = [worker EXCEPT ![w] = x]
    BY <1>0, <1>4, SearchSyncAssumption DEF MarkAsSeen, SyncDataToES, SyncTypeOK, Version
  <2>2. x.user = u /\ x.type = "message" /\ x.pc = "check" /\ x.version = version[u]
    OBVIOUS
  <2> HIDE DEF x
  <2>3. x.version \in 1..version[u]
    BY <2>1, <2>2
  <2> QED
    BY <1>1, <2>1, <2>2, <2>3, OneWorkerStep
<1>5. ASSUME NEW w \in Worker, CheckInputData(w) \/ FindUser(w)
      PROVE  WorkIsCurrent' /\ MessagesWait'
  <2> DEFINE u == worker[w].user
  <2>1. /\ worker[w] \in [pc : {"check", "find", "index"}, type : {"message", "user", "profile"},
                          user : User, version : Version]
        /\ Busy(w) /\ worker[w].type # "message"
        /\ UNCHANGED <<version, import>>
    BY <1>0, <1>5, WorkerFields DEF CheckInputData, FindUser, Busy, SyncInv, MessagesWait
  <2>2. worker[w].version \in 1..version[u] /\ version[u] \in Nat
    BY <1>0, <2>1, SearchSyncAssumption DEF SyncInv, WorkIsCurrent, SyncTypeOK, Version
  <2>3. u \in Serial => worker[w].version = version[u]
    BY <2>1 DEF SyncInv, WorkIsCurrent, SerialWorker
  <2>4. CASE CheckInputData(w)
    <3> DEFINE x == [worker[w] EXCEPT !.pc = "find"]
    <3>1. x.user = u /\ x.type = worker[w].type /\ x.version = worker[w].version
      BY <2>1
    <3>2. worker' = [worker EXCEPT ![w] = x]
      BY <2>4 DEF CheckInputData
    <3> HIDE DEF x
    <3> QED
      BY <2>1, <2>2, <2>3, <3>1, <3>2, OneWorkerStep
  <2>5. CASE FindUser(w)
    <3> DEFINE x == [worker[w] EXCEPT !.pc = "index", !.version = FoundVersion(w)]
    <3>1. x.user = u /\ x.type = worker[w].type /\ x.version = FoundVersion(w)
      BY <2>1
    <3>2. worker' = [worker EXCEPT ![w] = x]
      BY <2>5 DEF FindUser
    <3>3. FoundVersion(w) \in {version[u], worker[w].version}
      BY DEF FoundVersion
    <3> HIDE DEF x, u
    <3>4. x.version \in 1..version[u] /\ (u \in Serial => x.version = version[u])
      BY <2>2, <2>3, <3>1, <3>3
    <3>5. u \in User
      BY <2>1 DEF u
    <3> QED
      BY <2>1, <3>1, <3>2, <3>4, <3>5, OneWorkerStep
  <2> QED
    BY <1>5, <2>4, <2>5
<1>6. ASSUME NEW w \in Worker, IndexUser(w) \/ WorkerFails(w)
      PROVE  WorkIsCurrent' /\ MessagesWait'
  BY <1>0, <1>6, LessWork DEF IndexUser, WorkerFails, GiveUp, SyncTypeOK
<1>7. ASSUME NEW i \in Import, InitData(i)
      PROVE  WorkIsCurrent' /\ MessagesWait'
  <2>1. \A j \in Import, u \in Serial : import'[j][u] \in {import[j][u], version[u]}
    BY <1>0, <1>7 DEF InitData, SyncTypeOK
  <2> QED
    BY <1>7, <2>1 DEF InitData, SyncInv, WorkIsCurrent, MessagesWait, SerialWorker, Busy
<1>8. ASSUME NEW i \in Import, NEW u \in User, ImportUser(i, u) \/ ImportFails(i, u)
      PROVE  WorkIsCurrent' /\ MessagesWait'
  <2>1. \A j \in Import, x \in User : import'[j][x] \in {import[j][x], 0}
    BY <1>0, <1>8 DEF ImportUser, ImportFails, NothingRead, SyncTypeOK
  <2> QED
    BY <1>8, <2>1, LessWork DEF ImportUser, ImportFails
<1>9. CASE RestartServer
  BY <1>9, LessWork DEF RestartServer, NothingRead
<1>10. \/ UNCHANGED <<version, worker, import>>
       \/ \E t \in Task : RegisterFails(t) \/ \E w \in Worker : CreateUser(t, w)
       \/ \E i \in Import : InitData(i) \/ \E u \in User : ImportUser(i, u) \/ ImportFails(i, u)
       \/ \E u \in User, w \in Worker : MarkAsSeen(u, w)
       \/ \E u \in User, w \in Worker, type \in {"user", "profile"} : ChangeUser(u, w, type)
       \/ \E w \in Worker : WorkerStep(w)
       \/ RestartServer
  BY DEF SyncNext, syncVars, Register, FindNobody, CreateMessageMapping,
         InitESMessageEncryptor, Login, Logout, MarkFails
<1> QED
  BY <1>1, <1>2, <1>3, <1>4, <1>5, <1>6, <1>7, <1>8, <1>9, <1>10, ChangeKeepsWork
  DEF WorkerStep

(* What is written for a user whose changes wait, and reported, is the row   *)
(* as it is.                                                                 *)
LEMMA WriteIsCurrent ==
  ASSUME SyncInv, [SyncNext]_syncVars, NEW u \in Serial
  PROVE  \/ index'[u] = index[u] /\ promised'[u] = promised[u]
         \/ index'[u] = version[u] /\ UNCHANGED version
<1>0. SyncTypeOK /\ u \in User
  BY SearchSyncAssumption DEF SyncInv
<1>1. ASSUME NEW w \in Worker, IndexUser(w) \/ WorkerFails(w)
      PROVE  \/ index'[u] = index[u] /\ promised'[u] = promised[u]
             \/ index'[u] = version[u] /\ UNCHANGED version
  <2>1. CASE UNCHANGED <<index, promised>>
    BY <2>1
  <2>2. CASE worker[w].pc = "index" /\ WriteDocument(w)
    <3>1. worker[w].user = u => worker[w].version = version[u]
      BY <2>2 DEF SyncInv, MessagesWait, WorkIsCurrent, SerialWorker, Busy
    <3>2. index'[u] = IF worker[w].user = u THEN worker[w].version ELSE index[u]
      BY <1>0, <2>2 DEF WriteDocument, SyncTypeOK
    <3>3. worker[w].user # u => promised'[u] = promised[u]
      BY <1>0, <1>1 DEF IndexUser, WorkerFails, SyncTypeOK
    <3> QED
      BY <1>1, <3>1, <3>2, <3>3 DEF IndexUser, WorkerFails
  <2> QED
    BY <1>1, <2>1, <2>2 DEF IndexUser, WorkerFails
<1>2. ASSUME NEW i \in Import, NEW x \in User, ImportUser(i, x) \/ ImportFails(i, x)
      PROVE  \/ index'[u] = index[u] /\ promised'[u] = promised[u]
             \/ index'[u] = version[u] /\ UNCHANGED version
  <2>1. x = u => import[i][u] = version[u]
    BY <1>2 DEF ImportUser, ImportFails, SyncInv, WorkIsCurrent
  <2>2. x # u => index'[u] = index[u] /\ promised'[u] = promised[u]
    BY <1>0, <1>2 DEF ImportUser, ImportFails, SyncTypeOK
  <2>3. x = u => \/ index'[u] = index[u] /\ promised'[u] = promised[u]
                 \/ index'[u] = import[i][u]
    BY <1>0, <1>2 DEF ImportUser, ImportFails, SyncTypeOK
  <2> QED
    BY <1>2, <2>1, <2>2, <2>3 DEF ImportUser, ImportFails
<1>3. \/ UNCHANGED <<index, promised>>
      \/ \E w \in Worker : IndexUser(w) \/ WorkerFails(w)
      \/ \E i \in Import, x \in User : ImportUser(i, x) \/ ImportFails(i, x)
  BY DEF SyncNext, syncVars, Register, FindNobody, CreateUser, RegisterFails,
         CreateMessageMapping, InitESMessageEncryptor, Login, Logout, MarkAsSeen, MarkFails,
         ChangeUser, WorkerStep, CheckInputData, FindUser, InitData, RestartServer
<1> QED
  BY <1>1, <1>2, <1>3

----------------------------------------------------------------------------
(* The invariant                                                             *)

(* createUser never gets past the synchronisation of the row it has made.    *)
LEMMA WelcomeStep == SyncInv /\ [SyncNext]_syncVars => NobodyIsWelcomed'
<1> SUFFICES ASSUME SyncInv, [SyncNext]_syncVars PROVE NobodyIsWelcomed'
  OBVIOUS
<1>0. SyncTypeOK
  BY DEF SyncInv
<1>1. CASE UNCHANGED cookie
  BY <1>1 DEF SyncInv, NobodyIsWelcomed
<1>2. ASSUME NEW t \in Task, NEW w \in Worker, CreateUser(t, w)
      PROVE  UNCHANGED cookie
  <2>1. task[t].user \in User /\ version[task[t].user] = 0
    BY <1>0, <1>2 DEF CreateUser, InsertUser, SyncTypeOK, Idle
  <2> QED
    BY <1>0, <1>2, <2>1, NewRowHasNoEncryptor DEF CreateUser
<1>3. ASSUME NEW u \in User, Login(u) \/ Logout(u)
      PROVE  NobodyIsWelcomed'
  BY <1>0, <1>3 DEF Login, Logout, GetUserByEmail, SendClientJWT, RemoveJWT, Authenticated,
                    SyncInv, NobodyIsWelcomed, SyncTypeOK
<1>4. \/ UNCHANGED cookie
      \/ \E t \in Task, w \in Worker : CreateUser(t, w)
      \/ \E u \in User : Login(u) \/ Logout(u)
  BY DEF SyncNext, syncVars, Register, FindNobody, RegisterFails, CreateMessageMapping,
         InitESMessageEncryptor, ImportUser, ImportFails, InitData, MarkAsSeen, MarkFails,
         ChangeUser, WorkerStep, CheckInputData, FindUser, IndexUser, WorkerFails, RestartServer
<1> QED
  BY <1>1, <1>2, <1>3, <1>4

LEMMA StepInv == SyncInv /\ [SyncNext]_syncVars => SyncInv'
<1> SUFFICES ASSUME SyncInv, [SyncNext]_syncVars PROVE SyncInv'
  OBVIOUS
<1>1. SyncTypeOK'
  BY TypeStep
<1>2. IndexIsFresh'
  <2> SUFFICES ASSUME NEW u \in Serial PROVE index'[u] >= promised'[u]
    BY DEF IndexIsFresh
  <2>1. u \in User /\ index[u] >= promised[u]
    BY SearchSyncAssumption DEF SyncInv, IndexIsFresh
  <2>2. promised'[u] <= version'[u] /\ promised'[u] \in Nat /\ version'[u] \in Nat
    BY <1>1, <2>1, SearchSyncAssumption DEF SyncTypeOK, Version
  <2>3. CASE index'[u] = index[u] /\ promised'[u] = promised[u]
    BY <2>1, <2>3
  <2>4. CASE index'[u] = version[u] /\ UNCHANGED version
    BY <2>2, <2>4
  <2> QED
    BY <2>3, <2>4, WriteIsCurrent
<1> QED
  BY <1>1, <1>2, WorkStep, WelcomeStep DEF SyncInv

(* The invariant of accounts, workers, imports and the index.                *)
THEOREM SyncInvariant == SyncSpec => []SyncInv
BY InitInv, StepInv, PTL DEF SyncSpec

(* Type correctness: an encryptor belongs to a row in message_mappings, that *)
(* to a user, no document is ahead of its row, and nobody is told of a       *)
(* message that was not marked.                                              *)
THEOREM SyncTypeCorrect == SyncSpec => []SyncTypeOK
<1>1. SyncInv => SyncTypeOK
  BY DEF SyncInv
<1> QED
  BY <1>1, SyncInvariant, PTL

(* createUser never gets past the synchronisation of the row it has made.    *)
THEOREM NobodyIsWelcomedAlways == SyncSpec => []NobodyIsWelcomed
<1>1. SyncInv => NobodyIsWelcomed
  BY DEF SyncInv
<1> QED
  BY <1>1, SyncInvariant, PTL

(* A search finds a user that has been reported as synchronised, in that     *)
(* state or a newer one, if the row of the user is changed only when no work *)
(* for it is left.                                                           *)
THEOREM SuccessIsFreshAlways == SyncSpec => []SuccessIsFresh
<1>1. SyncInv => SuccessIsFresh
  <2> SUFFICES ASSUME SyncInv, NEW u \in Serial, promised[u] > 0
               PROVE  \E hit \in SearchUsers({u}) : hit.version >= promised[u]
    BY DEF SuccessIsFresh
  <2> DEFINE hit == [user |-> u, version |-> index[u], isOnline |-> FALSE]
  <2>1. index[u] >= promised[u] /\ index[u] \in Nat /\ promised[u] \in Nat
    BY SearchSyncAssumption DEF SyncInv, IndexIsFresh, SyncTypeOK, Version
  <2>2. index[u] > 0
    BY <2>1
  <2>3. hit \in SearchUsers({u})
    BY <2>2 DEF SearchUsers
  <2>4. hit.version >= promised[u]
    BY <2>1
  <2> QED
    BY <2>3, <2>4
<1> QED
  BY <1>1, SyncInvariant, PTL

(* An author is told only after a row of its own in message_mappings, whose  *)
(* characters can be read, has been there.                                   *)
THEOREM OnlyMappedAreToldAlways == SyncSpec => []OnlyMappedAreTold
<1>1. SyncInit => OnlyMappedAreTold
  BY DEF SyncInit, OnlyMappedAreTold
<1>2. SyncInv /\ OnlyMappedAreTold /\ [SyncNext]_syncVars => OnlyMappedAreTold'
  <2> SUFFICES ASSUME SyncInv, OnlyMappedAreTold, [SyncNext]_syncVars
               PROVE  OnlyMappedAreTold'
    OBVIOUS
  <2>1. told \subseteq User
    BY SearchSyncAssumption DEF SyncInv, SyncTypeOK
  <2>2. \A u \in User : mapping[u] = "empty" => mapping'[u] = "empty"
    <3>1. ASSUME NEW u \in User, NEW m \in {"empty", "chars"}, CreateMessageMapping(u, m)
          PROVE  \A x \in User : mapping[x] = "empty" => mapping'[x] = "empty"
      BY <3>1 DEF CreateMessageMapping, SyncInv, SyncTypeOK
    <3>2. (\E u \in User, m \in {"empty", "chars"} : CreateMessageMapping(u, m)) \/ UNCHANGED mapping
      BY DEF SyncNext, syncVars, WorkerStep, Register, FindNobody, CreateUser, RegisterFails,
             InitESMessageEncryptor, Login, Logout, ImportUser, ImportFails, InitData, MarkAsSeen, MarkFails,
             ChangeUser, CheckInputData, FindUser, IndexUser, WorkerFails, RestartServer
    <3> QED
      BY <3>1, <3>2
  <2>3. ASSUME NEW x \in told' PROVE x \in told \/ x \in encryptors
    <3>1. ASSUME NEW u \in User, NEW w \in Worker, MarkAsSeen(u, w)
          PROVE  x \in told \/ x \in encryptors
      BY <2>3, <3>1 DEF MarkAsSeen
    <3>2. (\E u \in User, w \in Worker : MarkAsSeen(u, w)) \/ UNCHANGED told
      BY DEF SyncNext, syncVars, WorkerStep, Register, FindNobody, CreateUser, RegisterFails,
             CreateMessageMapping, InitESMessageEncryptor, Login, Logout, ImportUser, ImportFails,
             InitData, MarkFails, ChangeUser, CheckInputData, FindUser, IndexUser, WorkerFails, RestartServer
    <3> QED
      BY <2>3, <3>1, <3>2
  <2> QED
    BY <2>1, <2>2, <2>3 DEF OnlyMappedAreTold, SyncInv, SyncTypeOK
<1> QED
  BY <1>1, <1>2, SyncInvariant, PTL DEF SyncSpec

(* The document of a user whose row is changed only when no work for it is   *)
(* left is never replaced by one of an older state, reported or not.         *)
THEOREM IndexAdvancesAlways == SyncSpec => IndexAdvances
<1>1. ASSUME SyncInv, [SyncNext]_syncVars, NEW u \in Serial
      PROVE  index'[u] >= index[u]
  <2>1. index[u] \in Nat /\ version[u] \in Nat /\ index[u] <= version[u]
    BY <1>1, SearchSyncAssumption DEF SyncInv, SyncTypeOK, Version
  <2> QED
    BY <1>1, <2>1, WriteIsCurrent
<1>2. SyncInv /\ [SyncNext]_syncVars => [\A u \in Serial : index'[u] >= index[u]]_syncVars
  BY <1>1
<1> QED
  BY <1>2, SyncInvariant, PTL DEF SyncSpec, IndexAdvances
=============================================================================
