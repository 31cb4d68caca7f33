# A verification of the Thunder Chat server

TLA+ specifications of the server in `src/`, the TLC runs that model-check them, and
theorems about them that TLAPS proves. Every definition that models code is translated from
the source; `PROJECT.json` maps it to the lines it stands for, lists the hazards of the code
at their lines, and names for each property a mutation of the code that breaks it.

    tlc -workers 2 -config X.cfg M.tla      # one run; the pairs of X and M are in PROJECT.json
    tlapm M_proofs.tla                      # one module of proofs

## 1. The system

A NestJS server in one Node.js process. It talks to browsers over HTTP and over socket.io,
keeps its tables in PostgreSQL through Prisma, and copies users into an Elasticsearch index
from worker threads. There are no tests in the repository.

JavaScript runs one callback at a time. What interleaves are the pieces of a handler between
two `await`s on something outside the process (a query, the index, a thread), the timers, and
the connects and disconnects of the sockets. An `await` on a promise that is already settled
lets no other event in. Every model below has its atomic steps cut at these points: the answer
of one query and the start of the next one are one step.

| Component | State | Operations | Interacts with |
|---|---|---|---|
| Message tokens (`gateway/helpers/message-tokens.helper.ts`) | accepted tokens per user; one timer per token | check and record, drop one (timer), drop all (disconnect) | gateway hooks, send handler |
| Client registry and hooks (`gateway/socket/socket.service.ts`, `gateway.ts` 74-132, `auth/auth.service.ts`) | one socket per user | connect, refuse, disconnect, JWT middleware | tokens; everything that emits |
| Sending direct messages (`gateway.ts` 154-241, `direct-message`, `direct-chat`) | handlers between queries; `direct_messages`, `direct_chats.lastSentMessageId` | token check, isFriend, insert, point the chat, emit, answer | registry, tokens, friend requests |
| Marking as seen (`gateway.ts` 243-258) | message status | update, synchronise, notify | index synchronisation |
| Typing notices (`gateway.ts` 260-274, `conversation-typing.helper.ts`) | one timer per sender | forward, put off | registry |
| Reading a chat (`direct-message.service.ts` 85-137) | none; the client keeps an offset | one page of older messages | senders that insert meanwhile |
| Friend requests (`friend-request.service.ts` 22-176) | `friend_requests`, `friends` | send, send again, accept, reject | registry (notices), isFriend |
| List of friend requests (`friend-request.service.ts` 178-211), of friends (`friend.service.ts` 41-70) | none; the client keeps a cursor | one page | senders that move and add rows meanwhile |
| Search for users in the database (`user.service.ts` 80-143) | none; the client keeps a cursor | one page, by two queries | users that register meanwhile |
| Accounts (`user`, `auth`) | `users`, the cookie | register, login, logout, guard | index synchronisation |
| Index synchronisation (`configs/elasticsearch`, `message-mapping`, `utils/helpers.ts`, `search`, `temp` 35-57) | encryptors in memory, mappings, workers, the index | make mapping, make encryptor, synchronise, import all users, search | accounts, marking, the index |
| Message encryptor (`direct-message/security/es-message-encryptor.ts`) | two maps | encrypt, decrypt, load mappings | index synchronisation |
| Direct chats, stickers, other temporary endpoints, wiring | - | mostly reads | see section 7 |

What is hard in it, and what makes each component correct:

* **Tokens.** Timers outlive the tokens they were started for, so an old timer can meet a new
  record of its token. Correct: no token is kept for ever, none lacks a timer, and for a user
  who stays connected a duplicate is refused for exactly one delay.
* **Registry.** Connects, refused attempts and disconnects of several sockets of a user come
  in any order, and a disconnect removes *whatever* is registered under the `userId` of the
  handshake, which nothing validates. Correct: the registry never names a dead or a foreign
  socket, and a connected client that it does not name lost its entry to another socket.
* **Sending.** The token is recorded before the first query, the registry is read after the
  third, and in between everything may happen: another handler of the chat, a disconnect, a
  failure, the end of the process. Correct: nothing is stored twice or handed to a third user,
  a success answer is true, a refused retry has a reason, a pointer is never dangling.
* **Typing.** A sender has one timer for all its receivers, and the timer captures a socket.
  Correct: an indicator that is on has the timer that puts it off.
* **Paging.** A page is chosen by id and sorted by the time of another machine; rows are
  inserted late and moved between two pages, cursors included, by two machines with clocks of
  their own. A page of the search for users comes from two tables behind one cursor. Correct:
  nothing is skipped, repeats have a cause, paging ends.
* **Friend requests.** Check-then-act on rows, and a transaction that none of its queries uses.
  Correct for any interleaving: friends were asked, a request stays with its pair. Correct for
  users who take turns: one request per pair, friends exactly if one is accepted.
* **Index.** Rows are written before a synchronisation that may throw; workers and the import
  overtake each other, and imports overtake imports; nothing is retried. Correct: a search
  finds what was reported as synchronised, or something newer, for a user whose row is changed
  only when no work for it is left.
* **Encryptor.** Truncated hashes collide, and the characters are stored as one string, which is
  read unit by unit: halves of characters that were apart may meet in it. Correct: the two maps
  stay inverse, and what was encrypted stays readable, but for a lone first half so merged.

## 2. The modules

    MessageTokens <- Connections <- DirectMessaging  --implements-->  ChatLog
                          ^
                          +------- Typing
    FriendRequests  --implements-->  Acquaintances  (the step Befriend of DirectMessaging)
    Server  =  FriendRequests and DirectMessaging in one process
    ChatHistory    RequestList    UserSearch    SearchSync    MessageEncryptor

An arrow is EXTENDS: a module that composes another one uses its actions (`SubmitMessage` of
DirectMessaging contains `IsUniqueToken` of MessageTokens; the steps of Connections appear in
DirectMessaging and in Typing). `Server` runs FriendRequests next to an INSTANCE of
DirectMessaging in which the pairs that may message each other are read from the rows of the
requests, where DirectMessaging alone has an environment: `isFriend` asks while the handlers of
requests write. `X_proofs` extends `X`, and the proofs about a module that composes another one
extend the proofs about that one; `Server_proofs` holds those about FriendRequests as well, and
`SearchIndex_proofs` those about SearchSync and MessageEncryptor. `MCX` gives TLC the values of the
constants that a .cfg file cannot express. `ChatLog` is an abstract specification: what
sending a message promises, without sockets, tokens, handlers or queries. `Acquaintances` is
one too: what the rest of the server relies on about friend requests. DirectMessaging has it as
the step of its environment, so the two compose; Server is the composition.

| Module | Code | State | Steps |
|---|---|---|---|
| MessageTokens | MessageTokensManager | `uniqueMsgTokens`; `tokenTimers`, in the order in which they fire (all delays are equal) | one per method, and the timer |
| Connections | the hooks, SocketService | `phase` of every socket, `connectedClients`; `disputed`: the open sockets whose user's entry another socket has written or removed | one per hook; the refusal runs the disconnect hook, as `client.disconnect` does |
| DirectMessaging | handleSendDirectMessage and the services it awaits | tables; `task`: the local state of each handler (`pc` names the query it waits for) | arrival, one step per answer, one per failure; befriending; all of Connections; restart |
| Typing | handleTyping, ConversationTypingManager | `typingTimers`, `flags`; `indicator`: what each client shows | a notice, the timer, connections, restart |
| ChatHistory | getOlderDirectMessages and its handler | messages, inserts under way; the client's offset | start and end of an insert, open, next page, close |
| FriendRequests | FriendRequestService, isFriend | `requests`, `friends`, `task` | one per query and answer, failures, restart |
| Server | the gateway and the friend requests of one process | that of both; `handler` is the `task` of DirectMessaging | the steps of both, one restart for all |
| RequestList | getFriendRequests, getFriends | a table of rows with two times; two clocks; the client's cursor | create, send again, tick, open, next page, close |
| UserSearch | searchUsers, mergeSimilarUsers | users, profiles; the client's cursor and what the first query found | register, new profile, open, one per query, close |
| SearchSync | user and auth services, SyncDataToESService and its worker, initData, the search for users in the index | `version` of each row, mappings, encryptors, workers, imports, index, cookies | one per query, per caller, per step of a worker, and per document of an import |
| MessageEncryptor | ESMessageEncryptor | `charMap` with the `place` of each character in its order, `reverseMap` | encrypt, encrypt that throws half way, new instance from the mappings |

Names follow the source: `IsUniqueToken`, `AddConnectedClient`, `UpdateDirectChat`,
`GetOlderDirectMessages`, `SyncDataToES` are the methods of these names. Variables whose
comment says *history* are read by properties only. Data is abstract: a token, a socket, a
user are model values; a draft is a record of the fields the properties tell apart; a time is
a small number.

A query that fails ends its handler with an error answer. It may have been carried out: the
models have an outcome of its own for an insert or update whose answer is lost, unless the
state it leads to is the one a success leads to.

The parts headed *Mutants* hold forms of the operators that a plausible bug would produce. No
specification uses them. Each shows, for one property of one run, that the run can fail.

## 3. The runs

| Run | Module, configuration | Instance | Distinct states |
|---|---|---|---|
| `connections` | MCConnections | 3 users, 5 sockets, 2 tokens, 3 timers; one user with two tabs; one whose client sends no userId with one socket and another user's with the other; fair timer | 109,404 |
| `connections_comment` | MCConnections, MCConnectionsComment.cfg | the same with 1 token; every client sends its own userId | violation |
| `messaging` | MCDirectMessaging | 3 users, 4 sockets, 2 drafts that may be repeated, 2 handlers, 2 ids, 2 timers | 1,255,938 |
| `messaging_solo` | MCDirectMessagingSolo | 2 users, 3 sockets, 2 drafts of one chat whose client waits, 2 handlers; fair | 130,154 |
| `typing` | MCTyping | 2 users with 2 sockets each, one of them without userId; fair timer | 106,879 |
| `history` | ChatHistory | 5 messages, 4 times, 2 inserts at a time, pages of 2; fair client | 422,333 |
| `friend_requests` | MCFriendRequests | 3 users, 2 handlers, 2 requests, 2 rows of friends for a pair | 1,058,051 |
| `is_friend` | MCServer | 2 users with a socket each, 1 draft, 1 request; 1 handler of requests, 1 of messages | violation |
| `request_list` | RequestList | 5 rows of either table, 3 times on each of two clocks, pages of 2 | 4,900,070 |
| `user_search` | UserSearch | 4 users, 3 profiles, queries that take 2 | 1,534,208 |
| `encryptor` | MCMessageEncryptor | 7 code points, texts of up to 3: letters and lone halves with colliding hashes, a character and its halves, code point 0 | 2,305 |
| `search_sync` | MCSearchSync | 2 users, 2 registrations, 2 workers, 2 imports, 2 versions; messages and changes of one user | 1,541,871 |

What they show:

* **connections.** `RegisteredIsOpen` and `TokensOnlyWhileOnline` hold for the users in
  `Identified`: their clients always send their own id as `userId`, as a number, which the
  validation of the handshake does not ask for. `OpenIsRegistered` holds for all: a connected
  client that is not registered has been replaced by another socket of its user, or a socket
  that sent the user's id was disconnected or refused since. Clients may open, close and
  reopen in any order, and the server learns of it in any order: a socket is open from its
  connection hook to its disconnect hook, however long ago its client closed it. So the late
  disconnect of a socket that was closed before the live one opened is a step of this run, and it
  takes the entry of the live one: `connections_comment` shows it.
  `RecordedHasTimer`: every recorded token has a pending timer, whichever timers of earlier
  records are still about. `FullWindow`: for a user whose disconnects drop no tokens the window
  in which a duplicate is refused lasts one delay exactly. For any other it may be shorter:
  `removeAllTokens` leaves the timers running. `RecordedExpires`: under fair timers every
  record ends.
* **messaging.** Retries, lost answers, reconnects and restarts never store a draft twice
  (`StoredOnce`): once a token is forgotten only the unique index stands between a retry and a
  second row. A user is only handed messages it takes part in (`DeliveredToParticipants`). An
  overlap answer has a reason (`TokenAccounted`). A success answer is true (`AckImpliesStored`)
  and means that a connected receiver has been handed the message, unless another socket has
  replaced or unregistered it (`AckedReachesOnlineReceiver`). `ImplementsChatLog` is the
  refinement.
* **messaging_solo.** Two handlers of one chat may insert in one order and set
  `lastSentMessageId` in the other. `SoloPointerAdvances` says when that cannot happen: when the
  clients of the chat wait for answers. `Answered`: every handler ends.
* **typing.** `IndicatorHasTimer` and `IndicatorGoesOff`, for sockets that no other has replaced
  or unregistered and senders who end typing to one user before they type to another. A sender
  who does not leaves an indicator on: its single timer moves to the second receiver. A socket
  that is replaced keeps what it shows until the timer, which names it, fires; it loses that
  timer if the sender goes on typing, to the new socket.
* **history.** `NothingSkipped`: whatever is inserted meanwhile and however clocks differ, no
  message of the time the client began is skipped between pages. At the end one is missing: the
  first message of the chat, which no page ever shows, because one message is always dropped.
  `NoRepeats`: repeats need ASC order and clocks that disagree with the ids. `PagingEnds`.
* **friend_requests.** For all users: `FriendsWereAsked`, `RequestKeepsPair`, and
  `ImplementsAcquaintances`: who may message whom grows by one pair at a time. For pairs in `Calm`:
  `OneRequestPerPair`, `AcceptedAreFriends`. Outside of `Calm` both fail, through the two races
  that `hazards` lists at `friend-request.service.ts` 87 and 148.
* **is_friend.** `isFriend` accepts a request of any status; the refusal text says otherwise. In
  the whole server a message therefore reaches a user who is no friend of its author
  (`ReceiversAreFriends`). What holds instead, one has sent the other a request, is the theorem
  `ReachedWereAskedAlways`.
* **request_list.** `SettledIsShown`: a row that does not move and shares its times with no
  other is not skipped, wherever the row that the next page starts behind has moved. The one
  exception, `setBack`, is real: the server's clock stamps a request that is sent again, the
  database's one that is made, and a clock that is behind can move the cursor back over rows
  that were not shown. `RepeatsOnlyAfterMove`: such a row comes twice only if a cursor moved;
  in the list of friends, never.
* **user_search.** `NobodySkipped` and `NobodyTwice`: no page leaves behind a user who matched
  when the search began, none comes on two pages, and no page lists a user by e-mail address
  and by name, whoever registers between the pages or between the two queries of one. The first
  two need that the cursor fits (`CursorFits`): it is the id of a user, and the query over
  profiles starts at the *profile* of that id. A search that meets names with profiles whose ids
  differ from those of their users, or names and addresses at once, skips and repeats users.
* **encryptor.** `MapsInverse`, also after an encryption that was refused half way, and
  `StaysReadable` over all later instances. Its exception is real: the mapped characters are
  stored as one string in the order in which they were mapped, and a lone first half that comes
  to stand before a lone second half is read with it as one character by the next instance,
  which can no longer decrypt the code of the first half.
* **search_sync.** `NobodyIsWelcomed`: no registration is ever answered with success, although
  the account is created. `SuccessIsFresh`: a search finds what was reported as synchronised, for
  a user whose row is changed only when neither a worker nor an import is at work for it
  (`Serial`); imports and marks overlap freely. For any other user two workers, or a worker and an
  import, overtake each other. `OnlyMappedAreTold`: a message is marked as seen and its author is
  told, if connected, only if the author has a mapping that can be read; for all others the
  status is written, the synchronisation throws, and the notice is lost.

### Two findings

1. `gateway.ts:117` says that a disconnect "removes the client from the connected clients
   list". `connections_comment`: it removes whatever socket is registered for the user, which
   may be a live one, or nothing when the handshake named no `userId`.
2. `friend.message.ts:2` says "You just can send message to your friend". `is_friend`: a user is
   handed the message of one whose request it has not accepted.

### Bounds

Every bound is a constant whose comment says so (`MaxTimers`, `Task`, `Handler`, `MaxId`, `MaxRequest`,
`MaxFriend`, `MaxMessage`, `MaxRow`, `MaxTime`, `MaxInserts`, `MaxUser`, `MaxProfile`,
`MaxVersion`, `Worker`, `Import`, `Author`, `Changing`, `MaxText`) and a guard of the action that would pass it. Why they suffice
to show what can go wrong:

* Two handlers: each race of the code is between two of them, and the third party of a race is
  a step of the connections or of the database. Two users who write and one who looks on.
* A socket connects once. So a user needs one socket per session: two for a reconnect or for two
  tabs. The hooks of the two run in any order, the disconnect of the first one after the
  connection of the second included.
* Three timers for two tokens: a token is recorded, forgotten, and recorded again while its first
  timer is pending, with the other token recorded in between.
* Five messages and pages of two: a first page, one in the middle, a last one, with inserts
  under way between them. Four times: ids and times in any order, and two messages of one time.
* Five rows and pages of two: two full pages and one row that is new, or has moved, meanwhile.
  Three times on each clock: equal, behind and ahead of each other.
* Four users and three profiles: a profile with the id of its user, one with the id of another
  user, and a user without; two pages of each query.
* Two versions: a change, and the state before it that a worker, the other worker or the import
  may still be about to write. Two imports, so that one may overtake the other. Only alice's
  messages are marked and only her row is changed; bob's is there for the races of two users.
* The encryptor: letters that collide with either half of a character, and the halves on their
  own, in texts long enough to put a letter between them.

Sets of interchangeable handlers and workers are symmetric where only safety is checked.

### Assumptions and fairness

`Leaver`, `Solo`, `Focused`, `Calm` and `Serial` are sets of users, pairs
or chats that behave in some way. They are assumptions about clients, or about who changes rows;
`Identified` is defined from the handshakes. `NoSocket`, `NoDraft` and the like are `null` and `undefined`.

* Timers (`connections`, `typing`): weak fairness of the step that runs the next one. The event loop
  runs every timer that is due, and equal delays fire in the order of their start.
* Handlers (`messaging_solo`): weak fairness of the steps of each handler. Every query ends, with
  a result or an error; the database client has time limits. No particular outcome is assumed.
* The reader (`history`): a client that has opened a chat goes on asking, or closes it.

No fairness is assumed of clients that send, connect or disconnect, of failures, or of restarts.

## 4. The proofs

| Module | Theorems |
|---|---|
| Connections_proofs | `ConnTypeCorrect`, `RegisteredIsOpenAlways`, `OpenIsRegisteredAlways`, `TokensOnlyWhileOnlineAlways`, `RecordedHasTimerAlways`, `FullWindowAlways` |
| Server_proofs | `ServerRunsRequests`, `ServerImplementsMessaging`, `ReachedWereAskedAlways`; of FriendRequests: `RequestsTypeCorrect`, `FriendsWereAskedAlways`, `RequestKeepsPairAlways`, `OneRequestPerPairAlways`, `AcceptedAreFriendsAlways`, `RequestsImplementAcquaintances` |
| DirectMessaging_proofs | `KeepsConnections`, `MsgTypeCorrect`, `StoredOnceAlways`, `LastSentValidAlways`, `DeliveredToParticipantsAlways`, `AckImpliesStoredAlways`, `TokenAccountedAlways`, `SoloPointerAdvancesAlways`, `AckedReachesOnlineReceiverAlways`, `MessagingImplementsChatLog`, `ChatLogPromises`, `MessagingKeepsAcquaintances`, `StoredAreRelatedAlways` |
| Typing_proofs | `TypingKeepsConnections`, `TypingTypeCorrect`, `IndicatorHasTimerAlways` |
| ChatHistory_proofs | `HistoryTypeCorrect`, `NothingSkippedAlways`, `NoRepeatsAlways`, `PagesGoBackAlways`, `PagesHoldTheLimit` |
| RequestList_proofs | `ListTypeCorrect`, `SettledIsShownAlways`, `RepeatsOnlyAfterMoveAlways` |
| UserSearch_proofs | `SearchTypeCorrect`, `NobodySkippedAlways`, `NobodyTwiceAlways`, `SearchMovesOnAlways` |
| SearchIndex_proofs | `EncTypeCorrect`, `MapsInverseAlways`, `StaysReadableAlways`; `SyncTypeCorrect`, `NobodyIsWelcomedAlways`, `SuccessIsFreshAlways`, `IndexAdvancesAlways`, `OnlyMappedAreToldAlways` |

They hold for all values of the constants that meet the assumption named in each module
(`TokensAssumption`, `ConnectionsAssumption`, `MessagingAssumption`, ...), so for any number of
users, sockets, drafts, handlers, ids and versions. TLC evaluates each assumption in the runs.
`ReachedWereAskedAlways` has the assumptions of the gateway's modules as its hypothesis
(`GatewayConstants`), since an INSTANCE does not assume them; MCServer meets them.

The inductive invariants:

* **Tokens.** `RecordedHasTimer` and `FullWindow` are inductive over the steps of MessageTokens: a
  token is recorded anew only if it was not recorded, and then, for a user whose tokens no
  disconnect drops, no timer of it is pending. Every step of Connections is one of these, or the
  restart, which drops records and timers together.
* **Registry** (`RegistryInv`). For the users in `Identified`, a socket that closes clears its own
  user's entry, so a closed socket is never the registered one. `OpenIsRegistered` needs no
  assumption about clients: whichever hook writes or removes the entry of a user adds the other
  open sockets of that user to `disputed` (`CloseKeepsRegistry` for the hooks that remove it).
* **Messaging** (`MsgInv`). Properties speak of tables; the steps are justified by what each
  handler learnt from earlier queries. `Working(t)` says just that, for each value of `pc`:
  the draft came in on a socket of its author; after the first query the users are related;
  after the second the message is stored under the id the handler holds; after the third the
  chat has a last message. Other steps keep it because tables only grow (`Grows`).
  `StorageInv` (ids in order, no slot twice, pointers valid) gives `StoredOnce`; `SoloInv` (one
  handler per waiting chat, with a message newer than the pointer) gives
  `SoloPointerAdvances`. `KeepsConnections` carries `RegistryInv` over, and with it
  `DeliverMessage` finds sockets of participants only, and the open one of a receiver that has
  one nobody has disputed.
  The refinement maps an insert to `Post`, the emission to `Deliver`, the rest to stuttering;
  `ChatLogPromises` says what that is worth.
  Of friend requests all this takes for granted what `Acquaintances` says
  (`MessagingKeepsAcquaintances`), and `StoredAreRelated` follows: what a handler learnt from its
  first query is still so when it inserts, because pairs are never taken away.
* **The whole server.** Each step of Server is one of FriendRequests and leaves the gateway alone,
  or the other way round, or the restart of both. A step of FriendRequests is, to the gateway,
  `Befriend` or nothing: that is `RequestsImplementAcquaintances` once more, step by step, for
  the pairs that somebody writes to. So `ServerImplementsMessaging`, and all that is proved of
  DirectMessaging holds of the whole; with `StoredAreRelated` and `DeliveredToParticipants` it
  gives `ReachedWereAsked`.
* **Friend requests.** Rows stay with their pair, and a handler that is about to create a
  friendship holds a row of that very pair (`AskedInv`). A step writes one row at most, and rows
  are of two different users: so `Related`, the pairs of all rows, takes the steps of
  Acquaintances. For a pair that takes turns (`CalmAt`):
  it has one handler, what that handler read is still so when it writes (`Current`), it has one
  request, and the friendship is missing exactly while an acceptance is between its two queries.
  Handlers of other pairs keep that because they write rows of their own pair only.
* **Typing.** `TypingKeepsConnections` carries `OpenIsRegistered` over, as `KeepsConnections` does
  for messaging: a notice to a receiver with an undisputed socket reaches it. A sender in `Focused`
  has one timer at most, and a socket that has not been opened shows nothing (`NewIsDark`); so an
  indicator loses its timer only with the notice that puts it off.
* **Paging through a chat** (`HistoryInv`). Ids are fetched in descending order and the offset is
  the least id shown (`OffsetIsLeast`), unless a page was sorted by times that disagree with the
  ids. That a page cut to a limit leaves out the oldest only, for every limit, needs the least
  element of a set of numbers, which the library's theorem on well-founded relations gives.
  A page after the first asks for ids below the offset and takes the next offset from what it
  gets, so `PagesGoBack` needs no invariant but the types. `PagesHoldTheLimit` is a fact about
  the handler alone.
* **Paging through requests and friends** (`ListInv`). While no cursor was a row that had moved,
  the settled rows that were shown are the cursor and what lies before it (`SettledInOrder`),
  so none comes twice; the ones still to come lie behind it, also after the cursor was sent
  again, which moves it forward unless the clock of the server is behind (`setBack`). Friends
  never move, and their ids break all ties (`FriendsInOrder`).
* **The search for users** (`SearchInv`). While the cursor fits, the cursor is one of the users
  that were shown, nobody shown lies behind it and everybody still to come does (`Reached`); the
  first page has no cursor and needs a part of its own (`FirstPage`). Between the two queries
  of a page the profiles that were found lie behind the cursor and before those that were left
  (`ByName`). That the cursor fits can only cease to hold, so the invariant speaks of the
  present kinds only, and no later registration breaks it. `SearchMovesOn` follows.
* **Encryptor** (`EncInv`). The maps stay inverse, because a character is refused exactly if its
  code belongs to another one. A new instance keeps every mapped character but a first half that
  it reads as part of a whole (`UnitsOfString`, `KeepsMapped`). So what was written is mapped, or
  merged (`WrittenInv`); and merged it stays, since second halves and whole characters are never
  lost.
* **Accounts and index** (`SyncInv`). An encryptor implies a mapping, a mapping implies the
  row: so when a row is created there is no encryptor (`NewRowHasNoEncryptor`), and who is told has
  a mapping. For `Serial` users whatever a worker or an import is about to write is the row as
  it is now (`WorkIsCurrent`): no change begins before all of them are done, and no work for a
  user is under way before the user has a row. Any number of workers and imports may be at it;
  they write the same (`WriteIsCurrent`), which gives `SuccessIsFresh` and `IndexAdvances`.

## 5. Model-checked only

Liveness: `RecordedExpires`, `Answered`, `IndicatorGoesOff`, `PagingEnds`. The prover does not
handle fairness. What they rest on is proved: a record has its timer, an indicator has its
timer, a page goes back. Every safety property of the passing runs is a theorem.

Proved without a run of their own: `StoredAreRelated`, `ReachedWereAsked`, `PagesGoBack`,
`SearchMovesOn`, `IndexAdvances`. TLC checks any of them if it is added to the configuration
of its module (MCServer for `ReachedWereAsked`).

## 6. Plan

The order was: registry and tokens, sending, requests, paging, typing, index and encryptor;
each with its runs before its proofs; then the lists of friends, the two clocks, the search for
users, the import, and the proofs of what had been model-checked only. What is left, in order:

1. The notices to connected clients about friend requests, over Connections.
2. The open transaction of `friendRequestAction` and the connection pool it waits for.
3. Typing notices in Server, next to the messages that share the registry with them.

## 7. Not modelled

* `recoverMissingMessages`, `getNewerDirectMessages`: unreachable, because every handshake with
  a `messageOffset` fails validation (`auth.dto.ts:34`). The refusal is modelled.
* `GatewayInterceptor`: not bound (`gateway.ts:48` is commented out).
* The conversion of `clientId` to a number: `SocketUser` is its result, and `HandshakeUserId` what
  the raw `userId` is as a key of the maps: a user's number, or nothing that they hold.
* Who a notice that a message was seen goes to: the client names the receiver, and the model
  takes it to name the author of the message.
* The text matching and the scores of the index, which are not code of the repository. Its index
  of messages is never filled, so `searchDirectMessages` finds nothing, and its delete operations
  have no caller. The search module has a registry of its own (`search.module.ts:11`) in which
  nobody is registered: it shows every user as offline, and so does `SearchUsers`.
* `countMutualFriend` has no caller. Stickers: read-only queries over tables nothing writes.
* The temporary endpoints other than `initData`, one of which deletes every message: the models
  describe the server without them.
* Notices to connected clients about friend requests: a lookup in the registry after the last
  query, which changes no state.
* The pool of database connections: it is inside the database client. Its outcome, a query that
  fails, is modelled (`QueryFails` of FriendRequests).
* The index code of the worker for messages: a worker that is given a message fails before it.
* A document that reaches the index after its worker or import gave up, the delay until the index shows a
  document, and worker threads that idle, whose number nothing bounds.
* Formats, wording, logging, hashing of passwords, signing of tokens, and the wiring of modules.
