---------------------------- MODULE RequestList ----------------------------
(***************************************************************************)
(* The two lists that are read page by page behind a cursor:               *)
(* getFriendRequests (src/src/friend-request/friend-request.service.ts)    *)
(* and getFriends (src/src/friend/friend.service.ts), asked by the client  *)
(* of one user while rows of that user are added and changed.              *)
(*                                                                         *)
(* A page starts behind the last row of the page before, wherever that row *)
(* is by now.  Requests are sorted by updatedAt and then createdAt, newest *)
(* first; sending a rejected request again sets its updatedAt and so moves *)
(* it.  Friends are sorted by createdAt, newest first, and then by id, and *)
(* never change.  Times are in milliseconds: requests may share them, and  *)
(* the query then leaves their order open.  The database gives a new row   *)
(* its times; the server, by its own clock, gives the new updatedAt.       *)
(***************************************************************************)
EXTENDS Naturals, FiniteSets

CONSTANTS
  MaxRow,      \* bound of the model: ids of the table
  MaxTime,     \* bound of the model: times
  Limit,       \* rows on a page
  NoCursor     \* "undefined" for lastFriendRequestId and lastFriendId

RowId == 1..MaxRow
Time == 1..MaxTime

ASSUME RequestListAssumption ==
  /\ MaxRow \in Nat
  /\ MaxTime \in Nat \ {0}
  /\ Limit \in Nat \ {0}
  /\ NoCursor \notin RowId

VARIABLES
  table,        \* the table that is listed
  createdAt,    \* id -> time, for the rows there are
  updatedAt,    \* id -> time
  now,          \* the clock of the database
  serverNow,    \* the clock of the server
  reading,      \* the client: "closed", "reading" or "done"
  cursor,       \* the last row it was shown
  settled,      \* history: see Settle
  shown,        \* the rows it was shown
  repeated,     \* history: has it been shown a settled row twice?
  strayed,      \* history: has the cursor been a row that was not settled?
  setBack       \* history: has a clock that is behind moved the cursor?

tableVars == <<table, createdAt, updatedAt, now, serverNow>>
readerVars == <<reading, cursor, settled, shown, repeated, strayed, setBack>>
listVars == <<tableVars, readerVars>>

Rows == DOMAIN createdAt

ListTypeOK ==
  /\ table \in {"friend_requests", "friends"}
  /\ \E n \in 0..MaxRow : Rows = 1..n
  /\ createdAt \in [Rows -> Time]
  /\ updatedAt \in [Rows -> Time]
  /\ now \in Time
  /\ serverNow \in Time
  /\ \A i \in Rows : createdAt[i] <= now /\ (updatedAt[i] <= now \/ updatedAt[i] <= serverNow)
  /\ reading \in {"closed", "reading", "done"}
  /\ cursor \in shown \union {NoCursor}
  /\ settled \subseteq Rows
  /\ shown \subseteq Rows
  /\ repeated \in BOOLEAN
  /\ strayed \in BOOLEAN
  /\ setBack \in BOOLEAN

ListInit ==
  /\ table \in {"friend_requests", "friends"}
  /\ createdAt = <<>>
  /\ updatedAt = <<>>
  /\ now = 1
  /\ serverNow = 1
  /\ reading = "closed"
  /\ cursor = NoCursor
  /\ settled = {}
  /\ shown = {}
  /\ repeated = FALSE
  /\ strayed = FALSE
  /\ setBack = FALSE

----------------------------------------------------------------------------
(* The query                                                                 *)

(* orderBy updatedAt desc, createdAt desc; createdAt desc, id asc. *)
Before(i, j) ==
  IF table = "friends"
  THEN createdAt[i] > createdAt[j] \/ (createdAt[i] = createdAt[j] /\ i < j)
  ELSE updatedAt[i] > updatedAt[j]
         \/ (updatedAt[i] = updatedAt[j] /\ createdAt[i] > createdAt[j])

Tied(i, j) ==
  /\ i # j /\ table = "friend_requests"
  /\ updatedAt[i] = updatedAt[j] /\ createdAt[i] = createdAt[j]

(* Mutant: the page starts at a position instead of at a row. *)
BehindShown(c) ==
  {{i \in Rows : Cardinality({j \in Rows : Before(j, i)}) >= Cardinality(shown)}}

(* Mutant: one row behind the cursor is skipped instead of the cursor. *)
SkipNext(c) ==
  IF c = NoCursor
  THEN {Rows}
  ELSE LET rows == {i \in Rows : Before(c, i)} IN
       {rows} \union {rows \ {first} : first \in {i \in rows : \A j \in rows : ~Before(j, i)}}

(* The rest of the list: the rows from the cursor on, but for the first one. *)
(* (That is the cursor, or a row tied with it.)                              *)
Behind(c) ==
  IF c = NoCursor
  THEN {Rows}
  ELSE LET rows == {i \in Rows : ~Before(i, c)} IN
       {rows \ {first} : first \in {i \in rows : \A j \in rows : ~Before(j, i)}}

(* take: the pages that the list may begin with, of at most Limit rows. *)
Pages(rows) ==
  {page \in SUBSET rows :
     /\ Cardinality(page) = IF Cardinality(rows) < Limit THEN Cardinality(rows) ELSE Limit
     /\ \A i \in page, j \in rows \ page : ~Before(j, i)}

Ends(page) == {i \in page : \A j \in page : ~Before(i, j)}

----------------------------------------------------------------------------
(* The senders                                                               *)

(* Settled are the rows of the reader's list that have not been changed and  *)
(* have not shared their place with another one since it began to read.      *)
Settle(ids) ==
  /\ settled' = {i \in ids : \A j \in Rows' : ~Tied(i, j)'}
  /\ strayed' = (strayed \/ cursor \in Rows \ settled')

With(f, i, x) == [j \in DOMAIN f \union {i} |-> IF j = i THEN x ELSE f[j]]

(* Mutant: updatedAt has no default. *)
CreateUndated ==
  LET i == Cardinality(Rows) + 1 IN
  /\ i \in RowId
  /\ createdAt' = With(createdAt, i, now)
  /\ updatedAt' = With(updatedAt, i, 0)
  /\ UNCHANGED <<table, now, serverNow, reading, cursor, shown, repeated, setBack>>
  /\ Settle(settled)

(* create, of either table *)
Create ==
  LET i == Cardinality(Rows) + 1 IN
  /\ i \in RowId
  /\ createdAt' = With(createdAt, i, now)
  /\ updatedAt' = With(updatedAt, i, now)
  /\ UNCHANGED <<table, now, serverNow, reading, cursor, shown, repeated, setBack>>
  /\ Settle(settled)

(* update: the request is sent again. *)
Update(i) ==
  /\ table = "friend_requests"
  /\ i \in Rows
  /\ updatedAt' = [updatedAt EXCEPT ![i] = serverNow]
  /\ setBack' = (setBack \/ (i = cursor /\ serverNow < now))
  /\ UNCHANGED <<table, createdAt, now, serverNow, reading, cursor, shown, repeated>>
  /\ Settle(settled \ {i})

Tick ==
  /\ \/ now < MaxTime /\ now' = now + 1 /\ UNCHANGED serverNow
     \/ serverNow < MaxTime /\ serverNow' = serverNow + 1 /\ UNCHANGED now
  /\ UNCHANGED <<table, createdAt, updatedAt, readerVars>>

----------------------------------------------------------------------------
(* The reader                                                                *)

OpenList ==
  /\ reading = "closed"
  /\ reading' = "reading"
  /\ settled' = {i \in Rows : \A j \in Rows : ~Tied(i, j)}
  /\ UNCHANGED <<cursor, shown, repeated, strayed, setBack, tableVars>>

(* A page that is not full is the last one. *)
NextPage ==
  /\ reading = "reading"
  /\ \E rows \in Behind(cursor) : \E page \in Pages(rows) :
       /\ shown' = shown \union page
       /\ repeated' = (repeated \/ shown \intersect page \intersect settled # {})
       /\ reading' = IF Cardinality(page) < Limit THEN "done" ELSE "reading"
       /\ IF page = {}
          THEN UNCHANGED <<cursor, strayed>>
          ELSE /\ cursor' \in Ends(page)
               /\ strayed' = (strayed \/ cursor' \notin settled)
  /\ UNCHANGED <<settled, setBack, tableVars>>

GetFriendRequests == table = "friend_requests" /\ NextPage

GetFriends == table = "friends" /\ NextPage

CloseList ==
  /\ reading # "closed"
  /\ reading' = "closed"
  /\ cursor' = NoCursor
  /\ settled' = {}
  /\ shown' = {}
  /\ repeated' = FALSE
  /\ strayed' = FALSE
  /\ setBack' = FALSE
  /\ UNCHANGED tableVars

ListNext ==
  \/ Create
  \/ \E i \in RowId : Update(i)
  \/ Tick
  \/ OpenList
  \/ GetFriendRequests
  \/ GetFriends
  \/ CloseList

ListSpec == ListInit /\ [][ListNext]_listVars

----------------------------------------------------------------------------

(* A settled row is never skipped, wherever others, and the one the next     *)
(* page starts behind, move between two pages: while it has not been shown   *)
(* it is still to come.  Unless the row that the next page starts behind was *)
(* sent again by a server whose clock is behind that of the database.        *)
SettledIsShown ==
  ~setBack =>
    \A i \in settled \ shown :
      /\ reading # "done"
      /\ cursor # NoCursor => Before(cursor, i)

(* A settled row comes twice only if a page had to start behind one that is  *)
(* not; a friend, then, never does.                                          *)
RepeatsOnlyAfterMove == repeated => strayed /\ table = "friend_requests"
=============================================================================
