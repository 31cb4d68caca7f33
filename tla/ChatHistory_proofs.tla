------------------------- MODULE ChatHistory_proofs -------------------------
(***************************************************************************)
(* Proofs about ChatHistory, for every size of a page and any number of    *)
(* messages, senders and timestamps: type correctness; no page skips a     *)
(* message; none brings a message again but for the client that has its    *)
(* pages sorted by time and senders whose clocks differ.                   *)
(***************************************************************************)
EXTENDS ChatHistory, FiniteSetTheorems, WellFoundedInduction, TLAPS

(* A non-empty set of natural numbers has a least element, and a bounded one *)
(* a greatest.                                                               *)
LEMMA LeastNumber ==
  ASSUME NEW T \in SUBSET Nat, T # {}
  PROVE  \E x \in T : \A y \in T : x <= y
<1> DEFINE R == {p \in Nat \X Nat : p[1] < p[2]}
<1>1. IsWellFoundedOn(R, Nat)
  BY NatLessThanWellFounded DEF OpToRel
<1>2. PICK x \in T : \A y \in T : ~(<<y, x>> \in R)
  <2> HIDE DEF R
  <2> QED
    BY <1>1, WFMin
<1>3. \A y \in T : ~(y < x)
  BY <1>2
<1> QED
  BY <1>3

LEMMA GreatestNumber ==
  ASSUME NEW N \in Nat, NEW T \in SUBSET (1..N), T # {}
  PROVE  \E x \in T : \A y \in T : y <= x
<1> DEFINE D == {k \in Nat : N - k \in T}
<1>1. D \in SUBSET Nat /\ D # {}
  <2>1. PICK y \in T : TRUE
    OBVIOUS
  <2>2. N - y \in Nat /\ N - (N - y) = y
    BY <2>1
  <2> QED
    BY <2>2
<1>2. PICK k \in D : \A j \in D : k <= j
  <2> HIDE DEF D
  <2> QED
    BY <1>1, LeastNumber
<1>3. ASSUME NEW y \in T
      PROVE  y <= N - k
  <2>1. N - y \in D
    <3>1. N - y \in Nat /\ N - (N - y) = y
      OBVIOUS
    <3> QED
      BY <3>1
  <2>2. k <= N - y
    BY <1>2, <2>1
  <2>3. k \in Nat /\ y \in Nat
    BY <1>2
  <2> QED
    BY <2>2, <2>3
<1> QED
  BY <1>2, <1>3

LEMMA MinIsLeast ==
  ASSUME NEW S \in SUBSET Nat, S # {}
  PROVE  Min(S) \in S /\ \A j \in S : Min(S) <= j
  BY LeastNumber DEF Min

----------------------------------------------------------------------------
(* The query                                                                 *)

LEMMA IdsFinite ==
  ASSUME NEW ids \in SUBSET MessageId
  PROVE  IsFiniteSet(ids) /\ Cardinality(ids) \in Nat /\ ids \subseteq Nat
<1>1. IsFiniteSet(1..MaxMessage) /\ 1..MaxMessage \subseteq Nat
  BY FS_Interval, HistoryAssumption
<1>2. ids \in SUBSET (1..MaxMessage)
  BY DEF MessageId
<1>3. IsFiniteSet(ids)
  BY <1>1, <1>2, FS_Subset
<1> QED
  BY <1>1, <1>2, <1>3, FS_CardinalityType

(* What the query takes is newer than what it leaves, and it leaves          *)
(* something only if it has taken n.                                         *)
LEMMA TakeNewest ==
  ASSUME NEW ids \in SUBSET MessageId, NEW n \in Nat
  PROVE  /\ Take(ids, n) \subseteq ids
         /\ \A i \in ids \ Take(ids, n), j \in Take(ids, n) : i < j
         /\ Take(ids, n) # ids => Cardinality(Take(ids, n)) >= n
<1> DEFINE newer(i) == {j \in ids : j > i}
<1>1. \A i \in ids : IsFiniteSet(newer(i)) /\ Cardinality(newer(i)) \in Nat
  BY IdsFinite
<1>2. Take(ids, n) = {i \in ids : Cardinality(newer(i)) < n}
  BY DEF Take
<1>3. ASSUME NEW i \in ids \ Take(ids, n), NEW j \in Take(ids, n), ~(i < j)
      PROVE  FALSE
  <2>0. i \in Nat /\ j \in Nat
    BY <1>2, IdsFinite
  <2>1. newer(i) \in SUBSET newer(j)
    <3>1. ASSUME NEW k \in ids, k > i
          PROVE  k > j
      <4>1. k \in Nat
        BY IdsFinite
      <4> QED
        BY <1>3, <2>0, <3>1, <4>1
    <3> QED
      BY <3>1
  <2>2. Cardinality(newer(i)) <= Cardinality(newer(j))
    BY <1>1, <1>2, <2>1, FS_Subset
  <2>3. Cardinality(newer(j)) < n /\ ~(Cardinality(newer(i)) < n)
    BY <1>2
  <2> HIDE DEF newer
  <2> QED
    BY <1>1, <1>2, <2>2, <2>3
<1>4. ASSUME Take(ids, n) # ids
      PROVE  Cardinality(Take(ids, n)) >= n
  <2> DEFINE left == ids \ Take(ids, n)
  <2>1. left \in SUBSET (1..MaxMessage) /\ left # {}
    BY <1>2, <1>4 DEF MessageId
  <2>2. PICK x \in left : \A y \in left : y <= x
    <3> HIDE DEF left
    <3> QED
      BY <2>1, GreatestNumber, HistoryAssumption
  <2>3. newer(x) \in SUBSET Take(ids, n)
    BY <2>2, IdsFinite
  <2>4. /\ IsFiniteSet(Take(ids, n))
        /\ Cardinality(Take(ids, n)) \in Nat
    BY <1>2, IdsFinite
  <2>5. Cardinality(newer(x)) <= Cardinality(Take(ids, n))
    BY <2>3, <2>4, FS_Subset
  <2>6. Cardinality(newer(x)) \in Nat /\ ~(Cardinality(newer(x)) < n)
    BY <1>1, <1>2, <2>2
  <2> HIDE DEF newer
  <2> QED
    BY <2>4, <2>5, <2>6
<1> QED
  BY <1>2, <1>3, <1>4

(* It takes n at most: behind the oldest that it takes there are less than n.*)
LEMMA TakeAtMost ==
  ASSUME NEW ids \in SUBSET MessageId, NEW n \in Nat
  PROVE  Cardinality(Take(ids, n)) <= n
<1> DEFINE newer(i) == {j \in ids : j > i}
           taken == Take(ids, n)
<1>1. /\ taken \in SUBSET ids
      /\ \A i \in taken : Cardinality(newer(i)) < n
  BY DEF Take
<1>2. /\ IsFiniteSet(taken) /\ Cardinality(taken) \in Nat /\ taken \in SUBSET Nat
      /\ \A i \in ids : IsFiniteSet(newer(i)) /\ Cardinality(newer(i)) \in Nat
  <2>1. taken \in SUBSET MessageId /\ \A i \in ids : newer(i) \in SUBSET MessageId
    BY <1>1
  <2> HIDE DEF newer, taken
  <2> QED
    BY <2>1, IdsFinite
<1>3. CASE taken = {}
  BY <1>3, FS_EmptySet
<1>4. CASE taken # {}
  <2>1. PICK x \in taken : \A y \in taken : x <= y
    <3> HIDE DEF taken
    <3> QED
      BY <1>2, <1>4, LeastNumber
  <2>2. taken \ {x} \in SUBSET newer(x)
    BY <1>1, <1>2, <2>1
  <2>3. x \in ids /\ Cardinality(newer(x)) < n
    BY <1>1
  <2> HIDE DEF newer, taken
  <2>4. Cardinality(taken \ {x}) <= Cardinality(newer(x))
    BY <1>2, <2>2, <2>3, FS_Subset
  <2>5. Cardinality(taken \ {x}) = Cardinality(taken) - 1
    BY <1>2, <2>1, FS_RemoveElement
  <2>6. Cardinality(newer(x)) \in Nat /\ Cardinality(taken) \in Nat
    BY <1>2, <2>3
  <2> QED
    BY <2>3, <2>4, <2>5, <2>6 DEF taken
<1> QED
  BY <1>3, <1>4

(* What the handler answers about the ids it asks for.                       *)
LEMMA AnswerFacts ==
  ASSUME NEW o, NEW f \in BOOLEAN, Older(o, f) \in SUBSET MessageId,
         NEW answer, answer = GetOlderDirectMessagesHandler(o, f)
  PROVE  /\ answer.directMessages \subseteq Older(o, f)
         /\ answer.hasMoreMessages \in BOOLEAN
         /\ answer.hasMoreMessages => answer.directMessages # {}
         /\ \A i \in Older(o, f) \ answer.directMessages, j \in answer.directMessages : i < j
         /\ ~answer.hasMoreMessages =>
              \A i \in Older(o, f) \ answer.directMessages, j \in Older(o, f) : i <= j
<1> DEFINE ids == Older(o, f)
           page == answer.directMessages
<1>1. PICK messages : messages = Take(Older(o, f), Limit + 1)
  OBVIOUS
<1>2. /\ page = IF messages = {} THEN {} ELSE messages \ {Min(messages)}
      /\ answer.hasMoreMessages = (Cardinality(messages) > Limit)
  BY <1>1
  DEF GetOlderDirectMessagesHandler, GetOlderDirectMessages, CutLast, HasMoreMessages
<1>3. Limit + 1 \in Nat /\ Limit \in Nat /\ Limit >= 1
  BY HistoryAssumption
<1> HIDE DEF page
<1>4. /\ messages \subseteq ids
      /\ \A i \in ids \ messages, j \in messages : i < j
      /\ messages # ids => Cardinality(messages) >= Limit + 1
  BY <1>1, <1>3, TakeNewest
<1>5. /\ IsFiniteSet(messages) /\ Cardinality(messages) \in Nat
      /\ messages \subseteq Nat /\ ids \subseteq Nat
  BY <1>4, IdsFinite
<1>6. messages # {} => Min(messages) \in messages /\ \A j \in messages : Min(messages) <= j
  BY <1>5, MinIsLeast
<1>7. page \subseteq ids
  BY <1>2, <1>4
<1>8. ASSUME Cardinality(messages) > Limit
      PROVE  page # {}
  <2>1. messages # {}
    BY <1>3, <1>8, FS_EmptySet
  <2>2. /\ IsFiniteSet(messages \ {Min(messages)})
        /\ Cardinality(messages \ {Min(messages)}) = Cardinality(messages) - 1
    BY <1>5, <1>6, <2>1, FS_RemoveElement
  <2>3. Cardinality(messages) - 1 # 0
    BY <1>3, <1>5, <1>8
  <2> QED
    BY <1>2, <2>1, <2>2, <2>3, FS_EmptySet
<1>9. ASSUME NEW i \in ids \ page, NEW j \in page
      PROVE  i < j
  <2>1. messages # {} /\ j \in messages /\ j # Min(messages)
    BY <1>2
  <2>2. i \notin messages \/ i = Min(messages)
    BY <1>2
  <2>3. i \in Nat /\ j \in Nat
    BY <1>5, <1>7
  <2> QED
    BY <1>4, <1>6, <2>1, <2>2, <2>3
<1>10. ASSUME ~(Cardinality(messages) > Limit), NEW i \in ids \ page, NEW j \in ids
       PROVE  i <= j
  <2>1. messages = ids
    BY <1>3, <1>4, <1>5, <1>10
  <2>2. i = Min(messages)
    BY <1>2, <2>1
  <2> QED
    BY <1>6, <2>1, <2>2
<1>11. answer.hasMoreMessages \in BOOLEAN
  BY <1>2
<1>12. answer.hasMoreMessages <=> Cardinality(messages) > Limit
  BY <1>2
<1>13. answer.hasMoreMessages => page # {}
  BY <1>8, <1>12
<1>14. ~answer.hasMoreMessages => \A i \in ids \ page, j \in ids : i <= j
  BY <1>10, <1>12
<1> QED
  BY <1>7, <1>9, <1>11, <1>13, <1>14 DEF page

(* A page holds as many messages as the limit says or less; if it says that  *)
(* there are more, then it is full, whatever the chat holds.                 *)
THEOREM PagesHoldTheLimit ==
  ASSUME HistoryTypeOK, NEW o, NEW f \in BOOLEAN,
         NEW answer, answer = GetOlderDirectMessagesHandler(o, f)
  PROVE  /\ Cardinality(answer.directMessages) <= Limit
         /\ answer.hasMoreMessages => Cardinality(answer.directMessages) = Limit
<1>0. Older(o, f) \in SUBSET MessageId
  <2>1. 1..(nextMessage - 1) \subseteq 1..MaxMessage
    BY HistoryAssumption DEF HistoryTypeOK
  <2> QED
    BY <2>1 DEF HistoryTypeOK, Older, MessageId
<1>1. PICK messages : messages = Take(Older(o, f), Limit + 1)
  OBVIOUS
<1>2. /\ answer.directMessages = IF messages = {} THEN {} ELSE messages \ {Min(messages)}
      /\ answer.hasMoreMessages <=> Cardinality(messages) > Limit
  BY <1>1
  DEF GetOlderDirectMessagesHandler, GetOlderDirectMessages, CutLast, HasMoreMessages
<1>3. Limit \in Nat /\ Limit + 1 \in Nat
  BY HistoryAssumption
<1>4. messages \in SUBSET MessageId /\ Cardinality(messages) <= Limit + 1
  BY <1>0, <1>1, <1>3, TakeNewest, TakeAtMost
<1>5. IsFiniteSet(messages) /\ Cardinality(messages) \in Nat /\ messages \in SUBSET Nat
  BY <1>4, IdsFinite
<1>6. CASE messages = {}
  BY <1>2, <1>3, <1>6, FS_EmptySet
<1>7. CASE messages # {}
  <2>1. Min(messages) \in messages
    BY <1>5, <1>7, MinIsLeast
  <2>2. Cardinality(messages \ {Min(messages)}) = Cardinality(messages) - 1
    BY <1>5, <2>1, FS_RemoveElement
  <2>3. Cardinality(answer.directMessages) = Cardinality(messages) - 1
    BY <1>2, <1>7, <2>2
  <2> QED
    BY <1>2, <1>3, <1>4, <1>5, <2>3
<1> QED
  BY <1>6, <1>7

----------------------------------------------------------------------------
(* The inductive invariant                                                   *)

(* A message has a time of its own: the table refuses a second one.          *)
TimesDiffer == \A i, j \in Stored : createdAt[i] = createdAt[j] => i = j

(* Nothing is shown before the first page, and the first page is asked for   *)
(* all that the client wants.                                                *)
FirstPage ==
  /\ reading \in {"closed", "first"} => shown = {} /\ ~repeated
  /\ reading = "first" => known \subseteq Older(msgOffset, TRUE)

Ordered == \A m, n \in Stored : m < n => createdAt[m] <= createdAt[n]

(* If the order of the ids is that of the times, or the page is left in the  *)
(* order of the ids, the next page starts from the least id that was shown.  *)
OffsetIsLeast ==
  reading = "more" /\ (sortType = "DESC" \/ Ordered) => \A n \in shown : msgOffset <= n

HistoryInv ==
  /\ HistoryTypeOK
  /\ TimesDiffer
  /\ FirstPage
  /\ OffsetIsLeast
  /\ NothingSkipped
  /\ NoRepeats

LEMMA StoredIds ==
  ASSUME HistoryTypeOK
  PROVE  /\ Stored \in SUBSET MessageId
         /\ nextMessage \in Nat
         /\ \A i \in Stored : i \in Nat /\ createdAt[i] \in Nat
         /\ NoOffset \notin Stored
<1>1. nextMessage \in Nat /\ nextMessage - 1 <= MaxMessage
  BY HistoryAssumption DEF HistoryTypeOK
<1>2. Stored \in SUBSET MessageId
  BY <1>1, HistoryAssumption DEF HistoryTypeOK, MessageId
<1>3. \A i \in Stored : createdAt[i] \in Time
  BY DEF HistoryTypeOK
<1>4. \A i \in Stored : i \in Nat
  BY <1>2, HistoryAssumption DEF MessageId
<1>5. \A i \in Stored : createdAt[i] \in Nat
  BY <1>3, HistoryAssumption DEF Time
<1> QED
  BY <1>1, <1>2, <1>4, <1>5, HistoryAssumption

(* The senders only add messages, whose times differ from all others.        *)
LEMMA SendersType ==
  ASSUME HistoryInv, NEW i,
         (\E time \in Time : StartInsert(time)) \/ EndInsert(i)
  PROVE  /\ HistoryTypeOK'
         /\ TimesDiffer'
         /\ Stored \subseteq Stored'
         /\ \A j \in Stored : createdAt'[j] = createdAt[j]
         /\ UNCHANGED readerVars
<1> USE DEF HistoryInv
<1>1. ASSUME NEW time \in Time, StartInsert(time)
      PROVE  /\ HistoryTypeOK'
             /\ TimesDiffer'
             /\ Stored \subseteq Stored'
             /\ \A j \in Stored : createdAt'[j] = createdAt[j]
             /\ UNCHANGED readerVars
  <2>1. /\ nextMessage \in MessageId
        /\ nextMessage' = nextMessage + 1
        /\ inserting' = [j \in DOMAIN inserting \union {nextMessage} |->
                           IF j = nextMessage THEN time ELSE inserting[j]]
        /\ createdAt' = createdAt
        /\ UNCHANGED readerVars
    BY <1>1 DEF StartInsert, With
  <2>2. Stored' = Stored
    BY <2>1 DEF Stored
  <2>3. /\ nextMessage \in Nat
        /\ nextMessage' \in 1..(MaxMessage + 1)
        /\ 1..(nextMessage - 1) \subseteq 1..(nextMessage' - 1)
        /\ nextMessage \in 1..(nextMessage' - 1)
        /\ nextMessage \notin 1..(nextMessage - 1)
    BY <2>1, HistoryAssumption DEF MessageId
  <2>4. DOMAIN inserting' = DOMAIN inserting \union {nextMessage}
    BY <2>1
  <2>5. /\ Stored \subseteq 1..(nextMessage' - 1)
        /\ DOMAIN inserting' \subseteq (1..(nextMessage' - 1)) \ Stored
    BY <2>3, <2>4 DEF HistoryTypeOK
  <2>6. inserting' \in [DOMAIN inserting' -> Time]
    BY <2>1, <2>4 DEF HistoryTypeOK
  <2>7. HistoryTypeOK'
    BY <2>1, <2>2, <2>3, <2>5, <2>6 DEF HistoryTypeOK, readerVars
  <2>8. TimesDiffer'
    BY <2>1, <2>2 DEF TimesDiffer
  <2> QED
    BY <2>1, <2>2, <2>7, <2>8
<1>2. ASSUME EndInsert(i)
      PROVE  /\ HistoryTypeOK'
             /\ TimesDiffer'
             /\ Stored \subseteq Stored'
             /\ \A j \in Stored : createdAt'[j] = createdAt[j]
             /\ UNCHANGED readerVars
  <2>1. /\ i \in DOMAIN inserting
        /\ inserting' = [j \in DOMAIN inserting \ {i} |-> inserting[j]]
        /\ nextMessage' = nextMessage
        /\ UNCHANGED readerVars
    BY <1>2 DEF EndInsert, Without
  <2>2. /\ DOMAIN inserting' = DOMAIN inserting \ {i}
        /\ inserting' \in [DOMAIN inserting' -> Time]
        /\ inserting[i] \in Time
        /\ i \in 1..(nextMessage - 1) /\ i \notin Stored
    BY <2>1 DEF HistoryTypeOK
  <2>3. CASE \E j \in Stored : createdAt[j] = inserting[i]
    <3>1. createdAt' = createdAt /\ Stored' = Stored
      BY <1>2, <2>3 DEF EndInsert, Stored
    <3>2. HistoryTypeOK'
      BY <2>1, <2>2, <3>1 DEF HistoryTypeOK, readerVars
    <3> QED
      BY <2>1, <3>1, <3>2 DEF TimesDiffer
  <2>4. CASE ~\E j \in Stored : createdAt[j] = inserting[i]
    <3>1. createdAt' = [j \in Stored \union {i} |-> IF j = i THEN inserting[i] ELSE createdAt[j]]
      BY <1>2, <2>4 DEF EndInsert, With, Stored
    <3>2. Stored' = Stored \union {i}
      BY <3>1 DEF Stored
    <3>3. createdAt' \in [Stored' -> Time]
      BY <2>2, <3>1, <3>2 DEF HistoryTypeOK
    <3>4. /\ Stored' \subseteq 1..(nextMessage - 1)
          /\ DOMAIN inserting' \subseteq (1..(nextMessage - 1)) \ Stored'
      BY <2>2, <3>2 DEF HistoryTypeOK
    <3>5. HistoryTypeOK'
      BY <2>1, <2>2, <3>2, <3>3, <3>4 DEF HistoryTypeOK, readerVars
    <3>6. TimesDiffer'
      BY <2>2, <2>4, <3>1, <3>2 DEF TimesDiffer
    <3> QED
      BY <2>1, <2>2, <3>1, <3>2, <3>5, <3>6
  <2> QED
    BY <2>3, <2>4
<1> QED
  BY <1>1, <1>2

LEMMA SendersStep ==
  ASSUME HistoryInv, NEW i,
         (\E time \in Time : StartInsert(time)) \/ EndInsert(i)
  PROVE  HistoryInv'
<1>1. /\ HistoryTypeOK' /\ TimesDiffer'
      /\ Stored \subseteq Stored'
      /\ \A j \in Stored : createdAt'[j] = createdAt[j]
      /\ UNCHANGED <<reading, sortType, msgOffset, known, shown, repeated>>
  BY SendersType DEF readerVars
<1>2. Ordered' => Ordered
  BY <1>1 DEF Ordered
<1>3. FirstPage'
  BY <1>1 DEF HistoryInv, FirstPage, Older
<1>4. OffsetIsLeast'
  BY <1>1, <1>2 DEF HistoryInv, OffsetIsLeast
<1>5. NothingSkipped'
  BY <1>1 DEF HistoryInv, NothingSkipped
<1>6. NoRepeats'
  BY <1>1 DEF HistoryInv, NoRepeats
<1> QED
  BY <1>1, <1>3, <1>4, <1>5, <1>6 DEF HistoryInv

LEMMA OpenChatStep ==
  ASSUME HistoryInv, NEW o \in Stored \union {NoOffset}, NEW sort \in SortType,
         OpenChat(o, sort)
  PROVE  HistoryInv'
<1>1. /\ reading' = "first" /\ sortType' = sort /\ msgOffset' = o
      /\ known' = Older(o, TRUE)
      /\ shown' = shown /\ repeated' = repeated /\ shown = {}
      /\ createdAt' = createdAt /\ inserting' = inserting /\ nextMessage' = nextMessage
      /\ Stored' = Stored
  BY DEF OpenChat, tableVars, HistoryInv, FirstPage, Stored
<1>2. HistoryTypeOK'
  BY <1>1, StoredIds DEF HistoryInv, HistoryTypeOK, Older
<1>3. ~repeated
  BY DEF OpenChat, HistoryInv, FirstPage
<1>4. FirstPage'
  BY <1>1, <1>3 DEF FirstPage, Older
<1> QED
  BY <1>1, <1>2, <1>3, <1>4
  DEF HistoryInv, TimesDiffer, OffsetIsLeast, NothingSkipped, NoRepeats

LEMMA CloseChatStep == ASSUME HistoryInv, CloseChat PROVE HistoryInv'
<1>1. /\ reading' = "closed" /\ sortType' = "ASC" /\ msgOffset' = NoOffset
      /\ known' = {} /\ shown' = {} /\ repeated' = FALSE
      /\ createdAt' = createdAt /\ inserting' = inserting /\ nextMessage' = nextMessage
      /\ Stored' = Stored
  BY DEF CloseChat, tableVars, Stored
<1>2. HistoryTypeOK'
  BY <1>1 DEF HistoryInv, HistoryTypeOK, SortType
<1> QED
  BY <1>1, <1>2
  DEF HistoryInv, TimesDiffer, FirstPage, OffsetIsLeast, NothingSkipped, NoRepeats

(* The next page is asked for from its old end.                              *)
LEMMA OldEndIsLeast ==
  ASSUME HistoryTypeOK, TimesDiffer, NEW page \in SUBSET Stored, page # {}
  PROVE  /\ OldEnd(page) \in page
         /\ sortType = "DESC" \/ Ordered => \A j \in page : OldEnd(page) <= j
<1>1. page \in SUBSET Nat /\ \A i \in page : createdAt[i] \in Nat
  BY StoredIds
<1>2. Min(page) \in page /\ \A j \in page : Min(page) <= j
  BY <1>1, MinIsLeast
<1>3. CASE sortType = "ASC"
  <2> DEFINE times == {createdAt[i] : i \in page}
  <2>1. times \in SUBSET Nat /\ times # {}
    BY <1>1
  <2>2. PICK time \in times : \A u \in times : time <= u
    <3> HIDE DEF times
    <3> QED
      BY <2>1, LeastNumber
  <2>3. \E i \in page : \A j \in page : createdAt[i] <= createdAt[j]
    BY <2>2
  <2>4. PICK e : e = OldEnd(page)
    OBVIOUS
  <2>5. e \in page /\ \A j \in page : createdAt[e] <= createdAt[j]
    BY <1>3, <2>3, <2>4 DEF OldEnd
  <2>6. ASSUME Ordered, NEW j \in page
        PROVE  e <= j
    <3>1. e \in Nat /\ j \in Nat /\ createdAt[e] \in Nat /\ createdAt[j] \in Nat
      BY <1>1, <2>5
    <3>2. j < e => createdAt[j] = createdAt[e]
      BY <2>5, <2>6, <3>1 DEF Ordered
    <3>3. j < e => j = e
      BY <2>5, <3>2 DEF TimesDiffer
    <3> QED
      BY <3>1, <3>3
  <2> QED
    BY <1>3, <2>4, <2>5, <2>6
<1>4. CASE sortType # "ASC"
  BY <1>2, <1>4 DEF OldEnd
<1> QED
  BY <1>3, <1>4

LEMMA FetchStep == ASSUME HistoryInv, FetchMessages PROVE HistoryInv'
<1> USE DEF HistoryInv
<1>1. PICK f \in BOOLEAN : f = (reading = "first")
  OBVIOUS
<1>2. PICK answer : answer = GetOlderDirectMessagesHandler(msgOffset, f)
  OBVIOUS
<1>3. PICK page : page = answer.directMessages
  OBVIOUS
<1>4. PICK ids : ids = Older(msgOffset, f)
  OBVIOUS
<1>5. /\ reading \in {"first", "more"}
      /\ shown' = shown \union page
      /\ repeated' = (repeated \/ shown \intersect page # {})
      /\ reading' = IF answer.hasMoreMessages THEN "more" ELSE "done"
      /\ msgOffset' = IF page = {} THEN msgOffset ELSE OldEnd(page)
      /\ sortType' = sortType /\ known' = known
      /\ createdAt' = createdAt /\ inserting' = inserting /\ nextMessage' = nextMessage
  BY <1>1, <1>2, <1>3 DEF FetchMessages, tableVars
<1>6. Stored' = Stored
  BY <1>5 DEF Stored
<1>7. /\ Stored \in SUBSET MessageId
      /\ \A i \in Stored : i \in Nat
      /\ NoOffset \notin Stored
      /\ known \subseteq Stored /\ shown \subseteq Stored
  BY StoredIds DEF HistoryTypeOK
<1>8. ids \subseteq Stored
  BY <1>4 DEF Older
<1>9. /\ page \subseteq ids
      /\ answer.hasMoreMessages \in BOOLEAN
      /\ answer.hasMoreMessages => page # {}
      /\ \A i \in ids \ page, j \in page : i < j
      /\ ~answer.hasMoreMessages => \A i \in ids \ page, j \in ids : i <= j
  <2>1. Older(msgOffset, f) \in SUBSET MessageId
    BY <1>4, <1>7, <1>8
  <2> QED
    BY <1>2, <1>3, <1>4, <2>1, AnswerFacts
<1>10. page # {} => /\ OldEnd(page) \in page
                    /\ sortType = "DESC" \/ Ordered => \A j \in page : OldEnd(page) <= j
  BY <1>8, <1>9, OldEndIsLeast
<1>11. reading = "more" =>
         /\ msgOffset \in shown /\ msgOffset \in Nat /\ msgOffset # NoOffset
         /\ ids = {i \in Stored : i < msgOffset}
  <2> SUFFICES ASSUME reading = "more"
               PROVE  /\ msgOffset \in shown /\ msgOffset \in Nat /\ msgOffset # NoOffset
                      /\ ids = {i \in Stored : i < msgOffset}
    OBVIOUS
  <2>1. msgOffset \in shown
    BY DEF HistoryTypeOK
  <2>2. ~f
    BY <1>1
  <2> QED
    BY <1>4, <1>7, <2>1, <2>2 DEF Older
<1>12. known \ shown \subseteq ids
  <2>1. CASE reading = "first"
    BY <1>1, <1>4, <2>1 DEF FirstPage
  <2>2. CASE reading = "more"
    BY <1>7, <1>11, <2>2 DEF NothingSkipped
  <2> QED
    BY <1>5, <2>1, <2>2
<1>13. HistoryTypeOK'
  <2>1. reading' \in {"closed", "first", "more", "done"}
    BY <1>5
  <2>2. reading' = "more" => msgOffset' \in shown'
    BY <1>5, <1>9, <1>10
  <2>3. msgOffset' \in MessageId \union {NoOffset}
    BY <1>5, <1>7, <1>8, <1>9, <1>10 DEF HistoryTypeOK
  <2>4. shown' \subseteq Stored /\ repeated' \in BOOLEAN
    BY <1>5, <1>7, <1>8, <1>9 DEF HistoryTypeOK
  <2> QED
    BY <1>5, <1>6, <2>1, <2>2, <2>3, <2>4 DEF HistoryTypeOK
<1>14. TimesDiffer'
  BY <1>5, <1>6 DEF TimesDiffer
<1>15. FirstPage'
  BY <1>5 DEF FirstPage
<1>16. OffsetIsLeast'
  <2> SUFFICES ASSUME reading' = "more", sortType = "DESC" \/ Ordered, NEW n \in shown'
               PROVE  msgOffset' <= n
    BY <1>5, <1>6 DEF OffsetIsLeast, Ordered
  <2>1. page # {} /\ msgOffset' \in page /\ \A j \in page : msgOffset' <= j
    BY <1>5, <1>9, <1>10
  <2>2. CASE n \in page
    BY <2>1, <2>2
  <2>3. CASE n \in shown
    <3>1. reading = "more"
      BY <1>5, <2>3 DEF FirstPage
    <3>2. msgOffset <= n /\ msgOffset' < msgOffset
      BY <1>9, <1>11, <2>1, <2>3, <3>1 DEF OffsetIsLeast
    <3>3. n \in Nat /\ msgOffset \in Nat /\ msgOffset' \in Nat
      BY <1>7, <1>8, <1>9, <1>11, <2>1, <2>3, <3>1
    <3> QED
      BY <3>2, <3>3
  <2> QED
    BY <1>5, <2>2, <2>3
<1>17. NothingSkipped'
  <2>1. ASSUME NEW m \in known \ shown', NEW n \in shown'
        PROVE  m < n
    <3>1. m \in ids \ page /\ m \in known \ shown
      BY <1>5, <1>12
    <3>2. CASE n \in page
      BY <1>9, <3>1, <3>2
    <3>3. CASE n \in shown
      BY <3>1, <3>3 DEF NothingSkipped
    <3> QED
      BY <1>5, <3>2, <3>3
  <2>2. ASSUME reading' = "done", NEW m \in known \ shown', NEW n \in known
        PROVE  m <= n
    <3>1. m \in ids \ page
      BY <1>5, <1>12
    <3>2. ~answer.hasMoreMessages
      BY <1>5, <2>2
    <3>3. CASE n \in ids
      BY <1>9, <3>1, <3>2, <3>3
    <3>4. CASE n \notin ids
      <4>1. n \in shown
        BY <1>12, <3>4
      <4>2. m < n /\ m \in Nat /\ n \in Nat
        BY <1>7, <2>1, <1>5, <4>1
      <4> QED
        BY <4>2
    <3> QED
      BY <3>3, <3>4
  <2> QED
    BY <1>5, <2>1, <2>2 DEF NothingSkipped
<1>18. NoRepeats'
  <2> SUFFICES ASSUME repeated', ~repeated
               PROVE  /\ sortType = "ASC"
                      /\ \E m, n \in Stored : m < n /\ createdAt[m] > createdAt[n]
    BY <1>5, <1>6 DEF NoRepeats
  <2>1. PICK k \in shown : k \in page
    BY <1>5
  <2>2. reading = "more"
    BY <1>5, <2>1 DEF FirstPage
  <2>3. k < msgOffset /\ k \in Nat
    BY <1>7, <1>9, <1>11, <2>1, <2>2
  <2>4. ~(sortType = "DESC" \/ Ordered)
    <3>1. ASSUME sortType = "DESC" \/ Ordered PROVE FALSE
      <4>1. msgOffset <= k
        BY <2>1, <2>2, <3>1 DEF OffsetIsLeast
      <4> QED
        BY <1>11, <2>2, <2>3, <4>1
    <3> QED
      BY <3>1
  <2>5. sortType = "ASC"
    BY <2>4 DEF HistoryTypeOK, SortType
  <2>6. PICK m \in Stored, n \in Stored : m < n /\ ~(createdAt[m] <= createdAt[n])
    BY <2>4 DEF Ordered
  <2>7. createdAt[m] \in Nat /\ createdAt[n] \in Nat
    BY StoredIds
  <2>8. createdAt[m] > createdAt[n]
    BY <2>6, <2>7
  <2> QED
    BY <2>5, <2>6, <2>8
<1> QED
  BY <1>13, <1>14, <1>15, <1>16, <1>17, <1>18

(* The invariant holds in every state.                                       *)
LEMMA HistoryInvariant == HistorySpec => []HistoryInv
<1>1. HistoryInit => HistoryInv
  <2> SUFFICES ASSUME HistoryInit PROVE HistoryInv
    OBVIOUS
  <2>1. Stored = {} /\ DOMAIN inserting = {}
    BY DEF HistoryInit, Stored
  <2>2. createdAt \in [{} -> Time] /\ inserting \in [{} -> Time]
    BY DEF HistoryInit
  <2>3. nextMessage \in 1..(MaxMessage + 1)
    BY HistoryAssumption DEF HistoryInit
  <2>4. HistoryTypeOK
    BY <2>1, <2>2, <2>3 DEF HistoryInit, HistoryTypeOK, SortType
  <2> QED
    BY <2>1, <2>4
    DEF HistoryInit, HistoryInv, TimesDiffer, FirstPage, OffsetIsLeast, NothingSkipped, NoRepeats
<1>2. HistoryInv /\ [HistoryNext]_historyVars => HistoryInv'
  <2> SUFFICES ASSUME HistoryInv, [HistoryNext]_historyVars
               PROVE  HistoryInv'
    OBVIOUS
  <2>1. CASE UNCHANGED historyVars
    <3>1. /\ createdAt' = createdAt /\ inserting' = inserting /\ nextMessage' = nextMessage
          /\ UNCHANGED <<reading, sortType, msgOffset, known, shown, repeated>>
          /\ Stored' = Stored
      BY <2>1 DEF historyVars, readerVars, Stored
    <3>2. HistoryTypeOK'
      BY <3>1 DEF HistoryInv, HistoryTypeOK
    <3> QED
      BY <3>1, <3>2
      DEF HistoryInv, TimesDiffer, FirstPage, Older, OffsetIsLeast, Ordered, NothingSkipped,
          NoRepeats
  <2>2. CASE \E time \in Time : StartInsert(time)
    BY <2>2, SendersStep
  <2> QED
    BY <2>1, <2>2, SendersStep, OpenChatStep, CloseChatStep, FetchStep DEF HistoryNext
<1> QED
  BY <1>1, <1>2, PTL DEF HistorySpec

(* The variables always have their types; a client that is told of more has  *)
(* a message to start the next page from.                                    *)
THEOREM HistoryTypeCorrect == HistorySpec => []HistoryTypeOK
  BY HistoryInvariant, PTL DEF HistoryInv

(* No page skips a message, whatever is inserted between two pages.          *)
THEOREM NothingSkippedAlways == HistorySpec => []NothingSkipped
  BY HistoryInvariant, PTL DEF HistoryInv

(* A message comes twice only to a client that has its pages sorted by time, *)
(* in a chat whose ids and times are not in the same order.                  *)
THEOREM NoRepeatsAlways == HistorySpec => []NoRepeats
  BY HistoryInvariant, PTL DEF HistoryInv

(* Each page after the first starts from an older message than the last one, *)
(* or is the last: the part of PagingEnds that needs no fairness.            *)
THEOREM PagesGoBackAlways == HistorySpec => PagesGoBack
<1>1. ASSUME HistoryInv, FetchMessages, reading = "more"
      PROVE  reading' = "done" \/ msgOffset' < msgOffset
  <2> DEFINE answer == GetOlderDirectMessagesHandler(msgOffset, FALSE)
             page == answer.directMessages
  <2>1. /\ reading' = IF answer.hasMoreMessages THEN "more" ELSE "done"
        /\ msgOffset' = IF page = {} THEN msgOffset ELSE OldEnd(page)
    <3>1. (reading = "first") = FALSE
      BY <1>1
    <3> QED
      BY <1>1, <3>1 DEF FetchMessages
  <2>2. /\ msgOffset \in Stored
        /\ Stored \in SUBSET MessageId
        /\ NoOffset \notin Stored
    BY <1>1, StoredIds DEF HistoryInv, HistoryTypeOK
  <2>3. Older(msgOffset, FALSE) = {i \in Stored : i < msgOffset}
    BY <2>2 DEF Older
  <2>4. /\ page \subseteq {i \in Stored : i < msgOffset}
        /\ answer.hasMoreMessages => page # {}
    <3>1. Older(msgOffset, FALSE) \in SUBSET MessageId
      BY <2>2, <2>3
    <3> QED
      BY <2>3, <3>1, AnswerFacts
  <2> HIDE DEF answer
  <2>5. page # {} => OldEnd(page) \in page
    BY <1>1, <2>4, OldEndIsLeast DEF HistoryInv
  <2> QED
    BY <2>1, <2>4, <2>5
<1>2. HistoryInv /\ [HistoryNext]_historyVars
        => [FetchMessages /\ reading = "more"
              => reading' = "done" \/ msgOffset' < msgOffset]_historyVars
  BY <1>1
<1> QED
  BY <1>2, HistoryInvariant, PTL DEF HistorySpec, PagesGoBack
=============================================================================
