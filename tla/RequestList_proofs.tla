------------------------- MODULE RequestList_proofs -------------------------
(***************************************************************************)
(* Proofs about RequestList, for every size of a page and any number of    *)
(* rows: type correctness; no settled row is skipped; a settled row comes  *)
(* twice only behind a row that moved, and a friend never does.            *)
(***************************************************************************)
EXTENDS RequestList, FiniteSetTheorems, TLAPS

(* The ids are 1..n, so there are finitely many, and n is their number.      *)
LEMMA RowsFinite ==
  ASSUME ListTypeOK
  PROVE  /\ IsFiniteSet(Rows)
         /\ Cardinality(Rows) \in Nat
         /\ Rows = 1..Cardinality(Rows)
         /\ Rows \subseteq RowId
<1>1. PICK n \in 0..MaxRow : Rows = 1..n
  BY DEF ListTypeOK
<1>2. n \in Nat /\ MaxRow \in Nat
  BY <1>1, RequestListAssumption
<1>3. IsFiniteSet(1..n) /\ Cardinality(1..n) = n
  BY <1>2, FS_Interval
<1> QED
  BY <1>1, <1>2, <1>3 DEF RowId

(* Times and ids are numbers.                                                *)
LEMMA RowIsNatural ==
  ASSUME ListTypeOK, NEW i \in Rows
  PROVE  createdAt[i] \in Nat /\ updatedAt[i] \in Nat /\ i \in Nat
<1>1. createdAt[i] \in Time /\ updatedAt[i] \in Time
  BY DEF ListTypeOK
<1>2. i \in RowId
  BY RowsFinite
<1> QED
  BY <1>1, <1>2 DEF Time, RowId

----------------------------------------------------------------------------
(* The order of a list                                                       *)

(* Each list is in a strict order, total but for ties.                       *)
LEMMA BeforeIsStrict ==
  ASSUME ListTypeOK, NEW i \in Rows, NEW j \in Rows
  PROVE  /\ ~Before(i, i)
         /\ Before(i, j) => ~Before(j, i)
         /\ i = j \/ Before(i, j) \/ Before(j, i) \/ Tied(i, j)
<1>1. /\ createdAt[i] \in Nat /\ createdAt[j] \in Nat
      /\ updatedAt[i] \in Nat /\ updatedAt[j] \in Nat
      /\ i \in Nat /\ j \in Nat
  BY RowIsNatural
<1>2. table = "friends" \/ table = "friend_requests"
  BY DEF ListTypeOK
<1> QED
  BY <1>1, <1>2 DEF Before, Tied

LEMMA BeforeIsTransitive ==
  ASSUME ListTypeOK, NEW i \in Rows, NEW j \in Rows, NEW k \in Rows,
         Before(i, j), Before(j, k)
  PROVE  Before(i, k)
<1>1. /\ createdAt[i] \in Nat /\ createdAt[j] \in Nat /\ createdAt[k] \in Nat
      /\ updatedAt[i] \in Nat /\ updatedAt[j] \in Nat /\ updatedAt[k] \in Nat
      /\ i \in Nat /\ j \in Nat /\ k \in Nat
  BY RowIsNatural
<1> QED
  BY <1>1 DEF Before

(* Two rows that a step leaves alone keep their order.                       *)
LEMMA BeforeIsKept ==
  ASSUME NEW i, NEW j, table' = table,
         createdAt'[i] = createdAt[i], createdAt'[j] = createdAt[j],
         updatedAt'[i] = updatedAt[i], updatedAt'[j] = updatedAt[j]
  PROVE  Before(i, j)' <=> Before(i, j)
  BY DEF Before

(* A page that leaves a row of its list out is full, and nothing it leaves   *)
(* out comes before what it shows.                                           *)
LEMMA PageIsFull ==
  ASSUME ListTypeOK, NEW rows \in SUBSET Rows, NEW page \in Pages(rows),
         NEW k \in rows, k \notin page
  PROVE  /\ Cardinality(page) = Limit
         /\ page # {}
         /\ \A i \in page : ~Before(k, i)
<1>1. IsFiniteSet(rows) /\ Cardinality(rows) \in Nat
  BY RowsFinite, FS_Subset, FS_CardinalityType
<1>2. page \in SUBSET rows
  BY DEF Pages
<1>3. Cardinality(page) # Cardinality(rows)
  BY <1>1, <1>2, FS_Subset
<1>4. Cardinality(page) = Limit
  BY <1>3 DEF Pages
<1>5. page # {}
  BY <1>4, FS_EmptySet, RequestListAssumption
<1> QED
  BY <1>4, <1>5 DEF Pages

----------------------------------------------------------------------------
(* Type correctness                                                          *)

LEMMA CreateType == ASSUME ListTypeOK, Create PROVE ListTypeOK'
<1>1. PICK i : i = Cardinality(Rows) + 1
  OBVIOUS
<1>2. /\ i \in RowId
      /\ i \notin Rows
      /\ Rows \union {i} = 1..i
      /\ i \in 0..MaxRow
  BY <1>1, RowsFinite, RequestListAssumption DEF Create, RowId
<1>3. /\ createdAt' = [j \in Rows \union {i} |-> IF j = i THEN now ELSE createdAt[j]]
      /\ updatedAt' = [j \in Rows \union {i} |-> IF j = i THEN now ELSE updatedAt[j]]
  BY <1>1 DEF Create, With, ListTypeOK, Rows
<1>4. Rows' = Rows \union {i}
  BY <1>3 DEF Rows
<1>5. /\ table' = table /\ now' = now /\ serverNow' = serverNow /\ reading' = reading
      /\ cursor' = cursor /\ shown' = shown /\ repeated' = repeated /\ setBack' = setBack
  BY DEF Create
<1>6. settled' \subseteq Rows' /\ strayed' \in BOOLEAN
  BY <1>4 DEF Create, Settle, ListTypeOK
<1>7. \E n \in 0..MaxRow : Rows' = 1..n
  BY <1>2, <1>4
<1>8. createdAt' \in [Rows' -> Time] /\ updatedAt' \in [Rows' -> Time]
  BY <1>3, <1>4 DEF ListTypeOK
<1>9. \A j \in Rows' : createdAt'[j] <= now' /\ (updatedAt'[j] <= now' \/ updatedAt'[j] <= serverNow')
  BY <1>3, <1>4, <1>5 DEF ListTypeOK, Time
<1> QED
  BY <1>4, <1>5, <1>6, <1>7, <1>8, <1>9 DEF ListTypeOK

LEMMA UpdateType ==
  ASSUME ListTypeOK, NEW i \in RowId, Update(i)
  PROVE  ListTypeOK'
<1>1. updatedAt' = [updatedAt EXCEPT ![i] = serverNow] /\ i \in Rows
  BY DEF Update
<1>2. Rows' = Rows
  BY DEF Update, Rows
<1>3. /\ table' = table /\ now' = now /\ serverNow' = serverNow /\ reading' = reading
      /\ cursor' = cursor /\ shown' = shown /\ repeated' = repeated /\ createdAt' = createdAt
      /\ setBack' \in BOOLEAN
  BY DEF Update, ListTypeOK
<1>4. settled' \subseteq Rows /\ strayed' \in BOOLEAN
  BY DEF Update, Settle, ListTypeOK
<1>5. updatedAt' \in [Rows -> Time]
  BY <1>1 DEF ListTypeOK
<1>6. \A j \in Rows : createdAt'[j] <= now /\ (updatedAt'[j] <= now \/ updatedAt'[j] <= serverNow)
  BY <1>1, <1>3 DEF ListTypeOK, Time
<1> QED
  BY <1>2, <1>3, <1>4, <1>5, <1>6 DEF ListTypeOK

LEMMA TickType == ASSUME ListTypeOK, Tick PROVE ListTypeOK'
<1>1. /\ now' \in Time /\ serverNow' \in Time
      /\ now <= now' /\ serverNow <= serverNow'
  BY RequestListAssumption DEF Tick, ListTypeOK, Time
<1>2. UNCHANGED <<table, createdAt, updatedAt, readerVars>>
  BY DEF Tick
<1>3. Rows' = Rows
  BY <1>2 DEF Rows
<1>4. \A j \in Rows : /\ createdAt[j] <= now'
                      /\ updatedAt[j] <= now' \/ updatedAt[j] <= serverNow'
  <2> SUFFICES ASSUME NEW j \in Rows
               PROVE  /\ createdAt[j] <= now'
                      /\ updatedAt[j] <= now' \/ updatedAt[j] <= serverNow'
    OBVIOUS
  <2>1. /\ createdAt[j] \in Nat /\ updatedAt[j] \in Nat
        /\ now \in Nat /\ serverNow \in Nat /\ now' \in Nat /\ serverNow' \in Nat
    BY <1>1 DEF ListTypeOK, Time
  <2> QED
    BY <1>1, <2>1 DEF ListTypeOK
<1> QED
  BY <1>1, <1>2, <1>3, <1>4 DEF ListTypeOK, readerVars

LEMMA NextPageType == ASSUME ListTypeOK, NextPage PROVE ListTypeOK'
<1>1. PICK rows \in Behind(cursor) : \E page \in Pages(rows) :
         /\ shown' = shown \union page
         /\ repeated' = (repeated \/ shown \intersect page \intersect settled # {})
         /\ reading' = IF Cardinality(page) < Limit THEN "done" ELSE "reading"
         /\ IF page = {}
            THEN UNCHANGED <<cursor, strayed>>
            ELSE /\ cursor' \in Ends(page)
                 /\ strayed' = (strayed \/ cursor' \notin settled)
  BY DEF NextPage
<1>2. PICK page \in Pages(rows) :
         /\ shown' = shown \union page
         /\ repeated' = (repeated \/ shown \intersect page \intersect settled # {})
         /\ reading' = IF Cardinality(page) < Limit THEN "done" ELSE "reading"
         /\ IF page = {}
            THEN UNCHANGED <<cursor, strayed>>
            ELSE /\ cursor' \in Ends(page)
                 /\ strayed' = (strayed \/ cursor' \notin settled)
  BY <1>1
<1>3. rows \subseteq Rows
  BY DEF Behind
<1>4. page \subseteq Rows
  BY <1>3 DEF Pages
<1>5. UNCHANGED tableVars /\ UNCHANGED <<settled, setBack>> /\ Rows' = Rows
  BY DEF NextPage, tableVars, Rows
<1>6. cursor' \in shown' \union {NoCursor}
  BY <1>2 DEF Ends, ListTypeOK
<1> QED
  BY <1>2, <1>4, <1>5, <1>6 DEF ListTypeOK, tableVars

LEMMA ListTypeStep == ListTypeOK /\ [ListNext]_listVars => ListTypeOK'
<1> SUFFICES ASSUME ListTypeOK, [ListNext]_listVars
             PROVE  ListTypeOK'
  OBVIOUS
<1>1. CASE UNCHANGED listVars
  BY <1>1 DEF listVars, tableVars, readerVars, Rows, ListTypeOK
<1>2. CASE OpenList
  BY <1>2 DEF OpenList, tableVars, Rows, ListTypeOK
<1>3. CASE CloseList
  BY <1>3 DEF CloseList, tableVars, Rows, ListTypeOK
<1> QED
  BY <1>1, <1>2, <1>3, CreateType, UpdateType, TickType, NextPageType
  DEF ListNext, GetFriendRequests, GetFriends

(* The variables always have their types; the rows keep times that one of    *)
(* the two clocks has shown.                                                 *)
THEOREM ListTypeCorrect == ListSpec => []ListTypeOK
<1>1. ListInit => ListTypeOK
  <2> SUFFICES ASSUME ListInit PROVE ListTypeOK
    OBVIOUS
  <2>1. Rows = {}
    BY DEF ListInit, Rows
  <2>2. 0 \in 0..MaxRow /\ 1..0 = {} /\ 1 \in Time
    BY RequestListAssumption DEF Time
  <2>3. createdAt \in [{} -> Time] /\ updatedAt \in [{} -> Time]
    BY DEF ListInit
  <2> QED
    BY <2>1, <2>2, <2>3 DEF ListInit, ListTypeOK
<1> QED
  BY <1>1, ListTypeStep, PTL DEF ListSpec

----------------------------------------------------------------------------
(* The inductive invariant                                                   *)

(* No settled row shares its place with another.                             *)
Untied == \A i \in settled, j \in Rows : ~Tied(i, j)

(* What is shown lies before the cursor.                                     *)
Fresh ==
  /\ reading = "closed" => cursor = NoCursor
  /\ cursor = NoCursor => shown = {}

(* While every page has started behind a settled row, the settled rows that  *)
(* were shown are the cursor and what lies before it.                        *)
SettledInOrder ==
  ~strayed =>
    /\ cursor # NoCursor => cursor \in settled
    /\ \A k \in settled \intersect shown : k = cursor \/ Before(k, cursor)

(* In the list of friends so are all rows that were shown, settled or not.   *)
FriendsInOrder ==
  table = "friends" => \A k \in shown : k = cursor \/ Before(k, cursor)

ListInv ==
  /\ Untied
  /\ Fresh
  /\ SettledInOrder
  /\ FriendsInOrder
  /\ SettledIsShown
  /\ RepeatsOnlyAfterMove

(* A step that leaves the rows and the reader alone.                         *)
LEMMA IdleStep ==
  ASSUME ListInv,
         UNCHANGED <<table, createdAt, updatedAt, readerVars>>
  PROVE  ListInv'
  BY DEF readerVars, ListInv, Untied, Fresh, SettledInOrder, FriendsInOrder, SettledIsShown,
         RepeatsOnlyAfterMove, Tied, Before, Rows

LEMMA OpenStep == ASSUME ListTypeOK, ListInv, OpenList PROVE ListInv'
<1>1. /\ reading' = "reading"
      /\ settled' = {i \in Rows : \A j \in Rows : ~Tied(i, j)}
      /\ cursor = NoCursor /\ shown = {}
  BY DEF OpenList, ListInv, Fresh
<1>2. /\ cursor' = cursor /\ shown' = shown /\ repeated' = repeated /\ strayed' = strayed
      /\ table' = table /\ createdAt' = createdAt /\ updatedAt' = updatedAt
  BY DEF OpenList, tableVars
<1>3. Untied'
  BY <1>1, <1>2 DEF Untied, Tied, Rows
<1>4. SettledIsShown'
  BY <1>1, <1>2 DEF SettledIsShown
<1>5. RepeatsOnlyAfterMove'
  BY <1>2 DEF ListInv, RepeatsOnlyAfterMove
<1>6. Fresh' /\ SettledInOrder' /\ FriendsInOrder'
  BY <1>1, <1>2 DEF Fresh, SettledInOrder, FriendsInOrder
<1> QED
  BY <1>3, <1>4, <1>5, <1>6 DEF ListInv

LEMMA CloseStep == ASSUME CloseList PROVE ListInv'
  BY DEF CloseList, ListInv, Untied, Fresh, SettledInOrder, FriendsInOrder, SettledIsShown,
         RepeatsOnlyAfterMove

(* A new row, or one that is sent again, leaves the order of the others.  A  *)
(* cursor that moves comes to the head of the list, if the clock of the      *)
(* server is not behind: the settled rows stay behind it.                    *)
LEMMA SenderStep ==
  ASSUME ListTypeOK, ListTypeOK', ListInv, NEW i,
         \/ Create /\ i = Cardinality(Rows) + 1
         \/ Update(i)
  PROVE  ListInv'
<1>1. /\ table' = table /\ reading' = reading /\ cursor' = cursor /\ shown' = shown
      /\ repeated' = repeated
  BY DEF Create, Update
<1>2. /\ Rows \subseteq Rows'
      /\ \A k \in Rows \ {i} : createdAt'[k] = createdAt[k] /\ updatedAt'[k] = updatedAt[k]
      /\ settled' \subseteq settled \ {i}
  <2>1. CASE Create /\ i = Cardinality(Rows) + 1
    <3>1. i \notin Rows
      BY <2>1, RowsFinite
    <3>2. /\ createdAt' = [j \in Rows \union {i} |-> IF j = i THEN now ELSE createdAt[j]]
          /\ updatedAt' = [j \in Rows \union {i} |-> IF j = i THEN now ELSE updatedAt[j]]
      BY <2>1 DEF Create, With, ListTypeOK, Rows
    <3>3. settled' \subseteq settled
      BY <2>1 DEF Create, Settle
    <3> QED
      BY <3>1, <3>2, <3>3 DEF Rows, ListTypeOK
  <2>2. CASE Update(i)
    <3>1. settled' \subseteq settled \ {i}
      BY <2>2 DEF Update, Settle
    <3> QED
      BY <2>2, <3>1 DEF Update, Rows, ListTypeOK
  <2> QED
    BY <2>1, <2>2
<1>3. /\ \A k \in settled', j \in Rows' : ~Tied(k, j)'
      /\ strayed' = (strayed \/ cursor \in Rows \ settled')
  BY DEF Create, Update, Settle
<1>4. \A j, k \in Rows \ {i} : Before(j, k)' <=> Before(j, k)
  BY <1>1, <1>2, BeforeIsKept
<1>5. cursor # NoCursor => cursor \in Rows
  BY DEF ListTypeOK
<1>6. settled \subseteq Rows
  BY DEF ListTypeOK
<1>7. SettledInOrder'
  <2> SUFFICES ASSUME ~strayed'
               PROVE  /\ cursor # NoCursor => cursor \in settled'
                      /\ \A k \in settled' \intersect shown : k = cursor \/ Before(k, cursor)'
    BY <1>1 DEF SettledInOrder
  <2>1. ~strayed /\ (cursor # NoCursor => cursor \in settled')
    BY <1>3, <1>5
  <2>2. ASSUME NEW k \in settled' \intersect shown, k # cursor
        PROVE  Before(k, cursor)'
    <3>1. PICK c : c = cursor
      OBVIOUS
    <3>2. Before(k, c)
      BY <1>2, <2>1, <2>2, <3>1 DEF ListInv, SettledInOrder
    <3>3. k \in Rows \ {i}
      BY <1>2, <1>6, <2>2
    <3>4. cursor # NoCursor
      BY <2>2 DEF ListInv, Fresh
    <3>5. c \in Rows \ {i}
      BY <1>2, <1>6, <2>1, <3>1, <3>4
    <3>6. Before(k, c)'
      BY <1>4, <3>2, <3>3, <3>5
    <3> QED
      BY <1>1, <3>1, <3>6
  <2> QED
    BY <2>1, <2>2
<1>8. FriendsInOrder'
  <2> SUFFICES ASSUME table = "friends", NEW k \in shown, k # cursor
               PROVE  Before(k, cursor)'
    BY <1>1 DEF FriendsInOrder
  <2>1. PICK c : c = cursor
    OBVIOUS
  <2>2. cursor # NoCursor
    BY DEF ListInv, Fresh
  <2>3. i \notin Rows
    BY RowsFinite DEF Update
  <2>4. k \in Rows \ {i} /\ c \in Rows \ {i}
    BY <1>5, <2>1, <2>2, <2>3 DEF ListTypeOK
  <2>5. Before(k, c)
    BY <2>1 DEF ListInv, FriendsInOrder
  <2>6. Before(k, c)'
    BY <1>4, <2>4, <2>5
  <2> QED
    BY <1>1, <2>1, <2>6
<1>9. SettledIsShown'
  <2> SUFFICES ASSUME ~setBack', NEW k \in settled' \ shown
               PROVE  /\ reading # "done"
                      /\ cursor # NoCursor => Before(cursor, k)'
    BY <1>1 DEF SettledIsShown
  <2>1. ~setBack
    BY DEF Create, Update
  <2>2. k \in settled \ shown /\ k \in Rows \ {i}
    BY <1>2, <1>6
  <2>3. reading # "done"
    BY <2>1, <2>2 DEF ListInv, SettledIsShown
  <2>4. ASSUME cursor # NoCursor
        PROVE  Before(cursor, k)'
    <3>1. PICK c : c = cursor
      OBVIOUS
    <3>2. Before(c, k) /\ c \in Rows
      BY <1>5, <2>1, <2>2, <2>4, <3>1 DEF ListInv, SettledIsShown
    <3>3. CASE c # i
      BY <1>1, <1>4, <2>2, <3>1, <3>2, <3>3
    <3>4. CASE c = i
      <4>1. Update(i)
        BY <3>2, <3>4, RowsFinite
      <4>2. ~(serverNow < now) /\ table = "friend_requests"
        BY <3>1, <3>4, <4>1 DEF Update
      <4>3. /\ updatedAt'[c] = serverNow /\ updatedAt'[k] = updatedAt[k]
            /\ createdAt'[c] = createdAt[c] /\ createdAt'[k] = createdAt[k]
        BY <1>2, <2>2, <3>2, <3>4, <4>1 DEF Update, ListTypeOK
      <4>4. /\ updatedAt[c] \in Nat /\ updatedAt[k] \in Nat
            /\ createdAt[c] \in Nat /\ createdAt[k] \in Nat
            /\ now \in Nat /\ serverNow \in Nat
        BY <2>2, <3>2 DEF ListTypeOK, Time
      <4>5. /\ updatedAt[c] <= now \/ updatedAt[c] <= serverNow
            /\ updatedAt[k] <= now \/ updatedAt[k] <= serverNow
        BY <2>2, <3>2 DEF ListTypeOK
      <4>6. updatedAt[c] > updatedAt[k]
              \/ (updatedAt[c] = updatedAt[k] /\ createdAt[c] > createdAt[k])
        BY <3>2, <4>2 DEF Before
      <4>7. updatedAt'[c] > updatedAt'[k]
              \/ (updatedAt'[c] = updatedAt'[k] /\ createdAt'[c] > createdAt'[k])
        BY <4>2, <4>3, <4>4, <4>5, <4>6
      <4>8. Before(c, k)'
        BY <1>1, <4>2, <4>7 DEF Before
      <4> QED
        BY <1>1, <3>1, <4>8
    <3> QED
      BY <3>3, <3>4
  <2> QED
    BY <2>3, <2>4
<1>10. Untied'
  BY <1>3 DEF Untied
<1>11. Fresh' /\ RepeatsOnlyAfterMove'
  BY <1>1, <1>3 DEF ListInv, Fresh, RepeatsOnlyAfterMove
<1> QED
  BY <1>7, <1>8, <1>9, <1>10, <1>11 DEF ListInv

(* A page starts behind the cursor, so the settled rows that are still to    *)
(* come are in the list it is the head of; and what it shows lies behind the *)
(* cursor, if the cursor is a row that no other shares its place with.       *)
LEMMA BehindCursor ==
  ASSUME ListTypeOK, NEW c \in Rows, NEW rows \in Behind(c), c # NoCursor
  PROVE  /\ rows \in SUBSET Rows
         /\ \A k \in Rows : Before(c, k) => k \in rows
         /\ (\A j \in Rows : ~Tied(c, j)) => \A k \in rows : Before(c, k)
<1> DEFINE from == {i \in Rows : ~Before(i, c)}
<1>1. PICK first \in from : (\A j \in from : ~Before(j, first)) /\ rows = from \ {first}
  BY DEF Behind
<1>2. c \in from
  BY BeforeIsStrict
<1>3. ASSUME NEW k \in Rows, Before(c, k)
      PROVE  k \in rows
  BY <1>1, <1>2, <1>3, BeforeIsStrict
<1>4. ASSUME \A j \in Rows : ~Tied(c, j), NEW k \in rows
      PROVE  Before(c, k)
  <2>1. first = c
    BY <1>1, <1>2, <1>4, BeforeIsStrict
  <2>2. k \in Rows /\ k # c /\ ~Before(k, c)
    BY <1>1, <2>1
  <2> QED
    BY <1>4, <2>2, BeforeIsStrict
<1> QED
  BY <1>1, <1>3, <1>4

LEMMA NextPageStep == ASSUME ListTypeOK, ListTypeOK', ListInv, NextPage PROVE ListInv'
<1>1. PICK rows \in Behind(cursor) : \E page \in Pages(rows) :
         /\ shown' = shown \union page
         /\ repeated' = (repeated \/ shown \intersect page \intersect settled # {})
         /\ reading' = IF Cardinality(page) < Limit THEN "done" ELSE "reading"
         /\ IF page = {}
            THEN UNCHANGED <<cursor, strayed>>
            ELSE /\ cursor' \in Ends(page)
                 /\ strayed' = (strayed \/ cursor' \notin settled)
  BY DEF NextPage
<1>2. PICK page \in Pages(rows) :
         /\ shown' = shown \union page
         /\ repeated' = (repeated \/ shown \intersect page \intersect settled # {})
         /\ reading' = IF Cardinality(page) < Limit THEN "done" ELSE "reading"
         /\ IF page = {}
            THEN UNCHANGED <<cursor, strayed>>
            ELSE /\ cursor' \in Ends(page)
                 /\ strayed' = (strayed \/ cursor' \notin settled)
  BY <1>1
<1>3. /\ table' = table /\ createdAt' = createdAt /\ updatedAt' = updatedAt
      /\ settled' = settled /\ setBack' = setBack
  BY DEF NextPage, tableVars
<1>4. PICK c : c = cursor
  OBVIOUS
<1>5. PICK d : d = cursor'
  OBVIOUS
<1>6. /\ page \subseteq rows
      /\ rows \subseteq Rows
      /\ settled \subseteq Rows /\ shown \subseteq Rows
      /\ c # NoCursor => c \in Rows
  BY <1>4 DEF Pages, Behind, ListTypeOK
<1>7. \A j, k : Before(j, k)' <=> Before(j, k)
  BY <1>3 DEF Before
<1>8. \A k \in settled, j \in Rows : ~Tied(k, j) /\ ~Tied(j, k)
  BY DEF ListInv, Untied, Tied
<1>9. page # {} => d \in page /\ \A j \in page : j = d \/ Before(j, d) \/ Tied(j, d)
  BY <1>2, <1>5, <1>6, BeforeIsStrict DEF Ends, Tied
<1>10. page = {} => d = c /\ shown' = shown /\ strayed' = strayed
  BY <1>2, <1>4, <1>5
<1>11. (table = "friends" \/ ~strayed) /\ c # NoCursor
         => \A k \in rows : Before(c, k)
  <2> SUFFICES ASSUME table = "friends" \/ ~strayed, c # NoCursor
               PROVE  \A k \in rows : Before(c, k)
    OBVIOUS
  <2>1. \A j \in Rows : ~Tied(c, j)
    BY <1>4, <1>8 DEF Tied, ListInv, SettledInOrder
  <2> QED
    BY <1>4, <1>6, <2>1, BehindCursor
<1>12. RepeatsOnlyAfterMove'
  <2> SUFFICES ASSUME repeated', ~(strayed /\ table = "friend_requests")
               PROVE  FALSE
    BY <1>2, <1>3 DEF RepeatsOnlyAfterMove
  <2>1. ~repeated
    BY DEF ListInv, RepeatsOnlyAfterMove
  <2>2. PICK k \in shown \intersect page : k \in settled
    BY <1>2, <2>1
  <2>3. c # NoCursor
    BY <1>4, <2>2 DEF ListInv, Fresh
  <2>4. table = "friends" \/ ~strayed
    BY DEF ListTypeOK
  <2>5. Before(c, k)
    BY <1>6, <1>11, <2>2, <2>3, <2>4
  <2>6. k = c \/ Before(k, c)
    BY <1>4, <2>2, <2>4 DEF ListInv, SettledInOrder, FriendsInOrder
  <2> QED
    BY <1>6, <2>2, <2>3, <2>5, <2>6, BeforeIsStrict
<1>13. SettledIsShown'
  <2> SUFFICES ASSUME ~setBack, NEW k \in settled \ shown'
               PROVE  reading' # "done" /\ Before(d, k)
    BY <1>3, <1>5, <1>7 DEF SettledIsShown
  <2>1. k \in Rows /\ k \notin shown /\ k \notin page
    BY <1>2, <1>6
  <2>2. c # NoCursor => Before(c, k)
    BY <1>4, <2>1 DEF ListInv, SettledIsShown
  <2>3. k \in rows
    <3>1. CASE c = NoCursor
      BY <1>4, <2>1, <3>1 DEF Behind
    <3>2. CASE c # NoCursor
      BY <1>4, <1>6, <2>1, <2>2, <3>2, BehindCursor
    <3> QED
      BY <3>1, <3>2
  <2>4. Cardinality(page) = Limit /\ page # {} /\ \A i \in page : ~Before(k, i)
    BY <1>6, <2>1, <2>3, PageIsFull
  <2>5. reading' # "done"
    BY <1>2, <2>4, RequestListAssumption
  <2>6. d \in page /\ d # k /\ d \in Rows
    BY <1>6, <1>9, <2>1, <2>4
  <2>7. Before(d, k)
    BY <1>8, <2>1, <2>4, <2>6, BeforeIsStrict
  <2> QED
    BY <2>5, <2>7
<1>14. ASSUME NEW k \in Rows, page # {}, k = c \/ Before(k, c),
              c # NoCursor, \A j \in rows : Before(c, j)
       PROVE  Before(k, d)
  <2>1. Before(c, d) /\ d \in Rows
    BY <1>6, <1>9, <1>14
  <2> QED
    BY <1>6, <1>14, <2>1, BeforeIsTransitive
<1>15. SettledInOrder'
  <2> SUFFICES ASSUME ~strayed'
               PROVE  /\ d # NoCursor => d \in settled
                      /\ \A k \in settled \intersect shown' : k = d \/ Before(k, d)
    BY <1>3, <1>5, <1>7 DEF SettledInOrder
  <2>1. CASE page = {}
    BY <1>4, <1>10, <2>1 DEF ListInv, SettledInOrder
  <2>2. CASE page # {}
    <3>1. ~strayed /\ d \in settled
      BY <1>2, <1>5, <2>2
    <3>2. ASSUME NEW k \in settled, k \in page, k # d
          PROVE  Before(k, d)
      BY <1>6, <1>8, <1>9, <3>1, <3>2
    <3>3. ASSUME NEW k \in settled, k \in shown
          PROVE  Before(k, d)
      <4>1. c # NoCursor
        BY <1>4, <3>3 DEF ListInv, Fresh
      <4>2. k = c \/ Before(k, c)
        BY <1>4, <3>1, <3>3 DEF ListInv, SettledInOrder
      <4> QED
        BY <1>6, <1>11, <1>14, <2>2, <3>1, <4>1, <4>2
    <3> QED
      BY <1>2, <3>1, <3>2, <3>3
  <2> QED
    BY <2>1, <2>2
<1>16. FriendsInOrder'
  <2> SUFFICES ASSUME table = "friends", NEW k \in shown', k # d
               PROVE  Before(k, d)
    BY <1>3, <1>5, <1>7 DEF FriendsInOrder
  <2>1. CASE page = {}
    BY <1>4, <1>10, <2>1 DEF ListInv, FriendsInOrder
  <2>2. CASE page # {}
    <3>1. CASE k \in page
      BY <1>9, <2>2, <3>1 DEF Tied
    <3>2. CASE k \in shown
      <4>1. c # NoCursor
        BY <1>4, <3>2 DEF ListInv, Fresh
      <4>2. k = c \/ Before(k, c)
        BY <1>4, <3>2 DEF ListInv, FriendsInOrder
      <4> QED
        BY <1>6, <1>11, <1>14, <2>2, <3>2, <4>1, <4>2
    <3> QED
      BY <1>2, <3>1, <3>2
  <2> QED
    BY <2>1, <2>2
<1>17. Fresh'
  <2>1. reading' # "closed"
    BY <1>2
  <2>2. page # {} => d # NoCursor
    BY <1>6, <1>9, RowsFinite, RequestListAssumption
  <2> QED
    BY <1>4, <1>5, <1>10, <2>1, <2>2 DEF ListInv, Fresh
<1>18. Untied'
  BY <1>3 DEF ListInv, Untied, Tied, Rows
<1> QED
  BY <1>12, <1>13, <1>15, <1>16, <1>17, <1>18 DEF ListInv

(* The invariant holds in every state.                                       *)
LEMMA ListInvariant == ListSpec => []ListInv
<1>1. ListInit => ListInv
  BY DEF ListInit, ListInv, Untied, Fresh, SettledInOrder, FriendsInOrder, SettledIsShown,
         RepeatsOnlyAfterMove
<1>2. ListTypeOK /\ ListTypeOK' /\ ListInv /\ [ListNext]_listVars => ListInv'
  <2> SUFFICES ASSUME ListTypeOK, ListTypeOK', ListInv, [ListNext]_listVars
               PROVE  ListInv'
    OBVIOUS
  <2>1. CASE Create
    BY <2>1, SenderStep
  <2>2. CASE Tick \/ UNCHANGED listVars
    BY <2>2, IdleStep DEF Tick, listVars, tableVars
  <2> QED
    BY <2>1, <2>2, SenderStep, OpenStep, CloseStep, NextPageStep
    DEF ListNext, GetFriendRequests, GetFriends
<1> QED
  BY <1>1, <1>2, ListTypeCorrect, PTL DEF ListSpec

(* No page leaves a settled row behind, wherever the row that the page       *)
(* starts behind has moved, unless a late clock moved it.                    *)
THEOREM SettledIsShownAlways == ListSpec => []SettledIsShown
  BY ListInvariant, PTL DEF ListInv

(* No settled row comes twice while the pages start behind settled rows, and *)
(* no friend ever does.                                                      *)
THEOREM RepeatsOnlyAfterMoveAlways == ListSpec => []RepeatsOnlyAfterMove
  BY ListInvariant, PTL DEF ListInv
=============================================================================
