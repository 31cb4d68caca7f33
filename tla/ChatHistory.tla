---------------------------- MODULE ChatHistory ----------------------------
(***************************************************************************)
(* Reading a chat backwards: getOlderDirectMessages and its handler        *)
(* (src/src/direct-message/direct-message.service.ts), asked by a client   *)
(* page after page while other clients send.                               *)
(*                                                                         *)
(* A page is chosen by message id and sorted by the time that the sending  *)
(* client wrote into the message, so the two orders may differ.  Ids are   *)
(* given out when an insert begins; another insert may be visible first.   *)
(* Sets of ids stand for lists of messages; of the order of a page only    *)
(* the end that the next page starts from is kept.                         *)
(***************************************************************************)
EXTENDS Naturals, FiniteSets, FiniteSetsExt

CONSTANTS
  MaxMessage,  \* bound of the model: message ids of the chat
  MaxTime,     \* bound of the model: timestamps
  MaxInserts,  \* bound of the model: inserts under way at a time
  Limit,       \* messages that a page may show
  NoOffset     \* "undefined" for msgOffset

MessageId == 1..MaxMessage
Time == 1..MaxTime

ASSUME HistoryAssumption ==
  /\ MaxMessage \in Nat
  /\ MaxTime \in Nat
  /\ MaxInserts \in Nat
  /\ Limit \in Nat \ {0}
  /\ NoOffset \notin MessageId

SortType == {"ASC", "DESC"}

VARIABLES
  createdAt,    \* the stored messages: id -> timestamp
  inserting,    \* the inserts under way: id -> timestamp
  nextMessage,  \* the sequence of direct_messages.id
  reading,      \* the client: "closed", "first", "more" or "done"
  sortType,     \* the order it asks for
  msgOffset,    \* where its next page starts
  known,        \* history: the messages it asks for, as stored when it began
  shown,        \* the messages it has received
  repeated      \* history: has a page brought a message a second time?

tableVars == <<createdAt, inserting, nextMessage>>
readerVars == <<reading, sortType, msgOffset, known, shown, repeated>>
historyVars == <<createdAt, inserting, nextMessage, readerVars>>

Stored == DOMAIN createdAt

HistoryTypeOK ==
  /\ Stored \subseteq 1..(nextMessage - 1)
  /\ DOMAIN inserting \subseteq (1..(nextMessage - 1)) \ Stored
  /\ createdAt \in [Stored -> Time]
  /\ inserting \in [DOMAIN inserting -> Time]
  /\ nextMessage \in 1..(MaxMessage + 1)
  /\ reading \in {"closed", "first", "more", "done"}
  /\ sortType \in SortType
  /\ msgOffset \in MessageId \union {NoOffset}
  /\ reading = "more" => msgOffset \in shown
  /\ known \subseteq Stored
  /\ shown \subseteq Stored
  /\ repeated \in BOOLEAN

HistoryInit ==
  /\ createdAt = <<>>
  /\ inserting = <<>>
  /\ nextMessage = 1
  /\ reading = "closed"
  /\ sortType = "ASC"
  /\ msgOffset = NoOffset
  /\ known = {}
  /\ shown = {}
  /\ repeated = FALSE

With(f, i, x) == [j \in DOMAIN f \union {i} |-> IF j = i THEN x ELSE f[j]]
Without(f, i) == [j \in DOMAIN f \ {i} |-> f[j]]

----------------------------------------------------------------------------
(* Mutants (see MessageTokens).                                              *)

(* "lte" on every page. *)
OlderOrEqual(o, isFirstTime) == {i \in Stored : o = NoOffset \/ i <= o}

(* The page is cut at its new end. *)
CutNewest(fetched) == fetched \ {Max(fetched)}

(* There is more whatever the query finds. *)
AlwaysMore(fetched) == TRUE

----------------------------------------------------------------------------
(* The query and its handler                                                 *)

(* The condition on id; none for an offset that is undefined. *)
Older(o, isFirstTime) ==
  {i \in Stored : o = NoOffset \/ i < o \/ (isFirstTime /\ i = o)}

(* orderBy id desc, take n. *)
Take(ids, n) == {i \in ids : Cardinality({j \in ids : j > i}) < n}

GetOlderDirectMessages(o, n, isFirstTime) == Take(Older(o, isFirstTime), n)

(* slice(0, -1): the message with the least id is left out. *)
CutLast(fetched) == fetched \ {Min(fetched)}

HasMoreMessages(fetched) == Cardinality(fetched) > Limit

(* One message more than the limit is fetched, and one is always left out.   *)
GetOlderDirectMessagesHandler(o, isFirstTime) ==
  LET messages == GetOlderDirectMessages(o, Limit + 1, isFirstTime) IN
  [directMessages |-> IF messages = {} THEN {} ELSE CutLast(messages),
   hasMoreMessages |-> HasMoreMessages(messages)]

(* The oldest end of a page: its first message if it is sorted by time, its  *)
(* last one if it is left in the order of the query.                         *)
OldEnd(page) ==
  IF sortType = "ASC"
  THEN CHOOSE i \in page : \A j \in page : createdAt[i] <= createdAt[j]
  ELSE Min(page)

----------------------------------------------------------------------------
(* Senders                                                                   *)

StartInsert(time) ==
  /\ nextMessage \in MessageId
  /\ Cardinality(DOMAIN inserting) < MaxInserts
  /\ inserting' = With(inserting, nextMessage, time)
  /\ nextMessage' = nextMessage + 1
  /\ UNCHANGED <<createdAt, readerVars>>

(* The insert is visible, unless the chat has a message of the same time. *)
EndInsert(i) ==
  /\ i \in DOMAIN inserting
  /\ inserting' = Without(inserting, i)
  /\ createdAt' = IF \E j \in Stored : createdAt[j] = inserting[i]
                  THEN createdAt
                  ELSE With(createdAt, i, inserting[i])
  /\ UNCHANGED <<nextMessage, readerVars>>

----------------------------------------------------------------------------
(* The reader                                                                *)

(* The client opens the chat, from the last message it has heard of or from  *)
(* the end.                                                                  *)
OpenChat(o, sort) ==
  /\ reading = "closed"
  /\ reading' = "first"
  /\ sortType' = sort
  /\ msgOffset' = o
  /\ known' = Older(o, TRUE)
  /\ UNCHANGED <<shown, repeated, tableVars>>

FetchMessages ==
  /\ reading \in {"first", "more"}
  /\ LET answer == GetOlderDirectMessagesHandler(msgOffset, reading = "first") IN
     /\ shown' = shown \union answer.directMessages
     /\ repeated' = (repeated \/ shown \intersect answer.directMessages # {})
     /\ reading' = IF answer.hasMoreMessages THEN "more" ELSE "done"
     /\ msgOffset' = IF answer.directMessages = {}
                     THEN msgOffset
                     ELSE OldEnd(answer.directMessages)
  /\ UNCHANGED <<sortType, known, tableVars>>

CloseChat ==
  /\ reading # "closed"
  /\ reading' = "closed"
  /\ sortType' = "ASC"
  /\ msgOffset' = NoOffset
  /\ known' = {}
  /\ shown' = {}
  /\ repeated' = FALSE
  /\ UNCHANGED tableVars

HistoryNext ==
  \/ \E time \in Time : StartInsert(time)
  \/ \E i \in MessageId : EndInsert(i)
  \/ \E o \in Stored \union {NoOffset}, sort \in SortType : OpenChat(o, sort)
  \/ FetchMessages
  \/ CloseChat

(* A client that has opened a chat keeps asking for pages. *)
HistorySpec ==
  HistoryInit /\ [][HistoryNext]_historyVars /\ WF_historyVars(FetchMessages)

----------------------------------------------------------------------------

(* No message is skipped between two pages, whatever is inserted meanwhile   *)
(* and however the clocks of the senders differ: one that was there when the *)
(* client began and has not been shown is older than all that were.  When    *)
(* the client is told that there are no more, one at most is left: the first *)
(* message of the chat, which no page ever shows.                            *)
NothingSkipped ==
  /\ \A m \in known \ shown, n \in shown : m < n
  /\ reading = "done" => \A m \in known \ shown, n \in known : m <= n

(* No page brings a message again, except to a client that has its pages     *)
(* sorted by time, and in a chat whose messages are not stored in the order  *)
(* of their times.                                                           *)
NoRepeats ==
  repeated =>
    /\ sortType = "ASC"
    /\ \E m, n \in Stored : m < n /\ createdAt[m] > createdAt[n]

(* Every page but the first starts from an older message than the one before *)
(* it, in either order and whatever the times are, or the client is told     *)
(* that there are no more: no page makes a client go round.                  *)
PagesGoBack ==
  [][FetchMessages /\ reading = "more" => reading' = "done" \/ msgOffset' < msgOffset]_historyVars

(* Paging back through a chat ends, also while messages come in. *)
PagingEnds == reading = "first" ~> reading \in {"done", "closed"}
=============================================================================
