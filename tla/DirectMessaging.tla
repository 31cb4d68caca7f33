-------------------------- MODULE DirectMessaging --------------------------
(***************************************************************************)
(* Sending direct messages: handleSendDirectMessage and the message events *)
(* of the chat gateway (src/src/gateway/gateway.ts), over the registry and *)
(* the tokens of Connections and over the database tables friend_requests, *)
(* direct_messages and direct_chats.                                       *)
(*                                                                         *)
(* A handler checks the token in the step in which the message arrives.    *)
(* It then awaits three queries: is there a friend request between author  *)
(* and receiver, insert the message, point the chat at it.  Between two of *)
(* them anything else may run: other handlers, connections, disconnects,   *)
(* timers, and the end of the process.  The answer of a query and the      *)
(* start of the next one are one step.  Any query may fail, with or        *)
(* without having been carried out.  The client side sends a draft as      *)
(* often as it wants, which covers its retries.                            *)
(***************************************************************************)
EXTENDS Connections

CONSTANTS
  Draft,    \* messages as clients send them
  NoDraft,
  Chat,     \* the rows of direct_chats
  Solo,     \* the chats whose clients send one message at a time
  Task,     \* bound of the model: handlers that run at a time
  MaxId     \* bound of the model: message ids

MsgId == 1..MaxId
NoMsg == 0

ASSUME MessagingAssumption ==
  /\ MaxId \in Nat
  /\ NoDraft \notin Draft
  /\ Solo \subseteq Chat
  /\ \A d \in Draft : /\ d.author \in User
                      /\ d.receiver \in User
                      /\ d.chat \in Chat
                      /\ d.token \in Token

VARIABLES
  related,    \* pairs of users with a row in friend_requests, of any status
  messages,   \* message id -> the draft stored under it
  nextId,     \* the sequence of direct_messages.id
  lastSent,   \* chat -> lastSentMessageId
  task,       \* handler -> how far handleSendDirectMessage has come
  delivered,  \* history: user -> ids emitted to a socket of the user
  acked,      \* history: drafts answered with success
  failed      \* history: drafts whose last handler answered with an error

dbVars == <<related, messages, nextId, lastSent>>
historyVars == <<delivered, acked, failed>>
msgVars == <<dbVars, task, historyVars>>
vars == <<connVars, msgVars>>

Idle == [pc |-> "idle", socket |-> NoSocket, draft |-> NoDraft, msg |-> NoMsg]

TaskState ==
  [pc : {"idle", "friend", "create", "update", "deliver"},
   socket : Socket \union {NoSocket},
   draft : Draft \union {NoDraft},
   msg : MsgId \union {NoMsg}]

MsgTypeOK ==
  /\ ConnTypeOK
  /\ related \subseteq SUBSET User
  /\ messages \in [MsgId -> Draft \union {NoDraft}]
  /\ nextId \in 1..(MaxId + 1)
  /\ lastSent \in [Chat -> MsgId \union {NoMsg}]
  /\ task \in [Task -> TaskState]
  /\ delivered \in [User -> SUBSET MsgId]
  /\ acked \subseteq Draft
  /\ failed \subseteq Draft

MsgInit ==
  /\ ConnInit
  /\ related = {}
  /\ messages = [i \in MsgId |-> NoDraft]
  /\ nextId = 1
  /\ lastSent = [c \in Chat |-> NoMsg]
  /\ task = [t \in Task |-> Idle]
  /\ delivered = [u \in User |-> {}]
  /\ acked = {}
  /\ failed = {}

Stored(i) == messages[i] # NoDraft
SameSlot(d, e) == d.chat = e.chat /\ d.timestamp = e.timestamp
Busy(t) == task[t].pc # "idle"

----------------------------------------------------------------------------
(* Mutants (see MessageTokens).                                              *)

(* The handler gives up without an answer. *)
AnswerNothing(t) ==
  /\ task' = [task EXCEPT ![t] = Idle]
  /\ UNCHANGED historyVars

(* The error is sent, and the handler does not return. *)
AnswerAndStay(t) ==
  /\ failed' = failed \union {task[t].draft}
  /\ UNCHANGED <<task, delivered, acked>>

(* The answer is sent before the message is stored. *)
DeliverBeforeCreate(t) ==
  /\ task[t].pc = "friend"
  /\ {task[t].draft.author, task[t].draft.receiver} \in related
  /\ task' = [task EXCEPT ![t].pc = "deliver"]
  /\ UNCHANGED <<connVars, dbVars, historyVars>>

(* No unique index over chat and timestamp. *)
NoUniqueIndex(d) == TRUE

(* The id is read from the sequence after the insert. *)
CreateWithNextId(t) ==
  /\ task[t].pc = "create"
  /\ nextId \in MsgId
  /\ \A i \in MsgId : Stored(i) => ~SameSlot(messages[i], task[t].draft)
  /\ messages' = [messages EXCEPT ![nextId] = task[t].draft]
  /\ nextId' = nextId + 1
  /\ task' = [task EXCEPT ![t].pc = "update", ![t].msg = nextId + 1]
  /\ UNCHANGED <<connVars, related, lastSent, historyVars>>

(* A failed update of the chat takes the message back. *)
UpdateFailsAndDeletes(t) ==
  /\ task[t].pc = "update"
  /\ messages' = [messages EXCEPT ![task[t].msg] = NoDraft]
  /\ failed' = failed \union {task[t].draft}
  /\ task' = [task EXCEPT ![t] = Idle]
  /\ UNCHANGED <<connVars, related, nextId, lastSent, delivered, acked>>

(* A failed update of the chat clears its pointer. *)
UpdateFailsAndClears(t) ==
  /\ task[t].pc = "update"
  /\ lastSent' = [lastSent EXCEPT ![task[t].draft.chat] = NoMsg]
  /\ failed' = failed \union {task[t].draft}
  /\ task' = [task EXCEPT ![t] = Idle]
  /\ UNCHANGED <<connVars, related, messages, nextId, delivered, acked>>

(* server.emit instead of socket.emit. *)
BroadcastRecipients(t) == {s \in Socket : phase[s] = "open"}

(* The message is only emitted back to its author. *)
AuthorOnly(t) == {s \in {task[t].socket} : phase[s] = "open"}

----------------------------------------------------------------------------
(* handleSendDirectMessage                                                   *)

(* The handler returns an error to the client. *)
AnswerError(t) ==
  /\ failed' = failed \union {task[t].draft}
  /\ task' = [task EXCEPT ![t] = Idle]
  /\ UNCHANGED <<delivered, acked>>

(* The clients of a chat in Solo wait for the answer to a message. *)
MaySend(d) ==
  d.chat \in Solo => \A t \in Task : Busy(t) => task[t].draft.chat # d.chat

(* A draft arrives on an accepted socket and its token is new. *)
SubmitMessage(s, t, d) ==
  /\ phase[s] = "open"
  /\ SocketUser[s] = d.author
  /\ MaySend(d)
  /\ ~Busy(t)
  /\ IsUniqueToken(d.author, d.token)
  /\ task' = [task EXCEPT ![t] = [pc |-> "friend", socket |-> s, draft |-> d, msg |-> NoMsg]]
  /\ failed' = failed \ {d}
  /\ UNCHANGED <<phase, connectedClients, disputed, dbVars, delivered, acked>>

(* A draft arrives again: it is answered with MESSAGE_OVERLAPS at once. *)
OverlapMessage(s, d) ==
  /\ phase[s] = "open"
  /\ SocketUser[s] = d.author
  /\ OverlappingToken(d.author, d.token)
  /\ UNCHANGED <<phase, connectedClients, disputed, msgVars>>

IsFriend(u, v) == {u, v} \in related

(* The answer of isFriend: the insert is started. *)
CheckFriendship(t) ==
  /\ task[t].pc = "friend"
  /\ IsFriend(task[t].draft.author, task[t].draft.receiver)
  /\ task' = [task EXCEPT ![t].pc = "create"]
  /\ UNCHANGED <<connVars, dbVars, historyVars>>

(* There is no row, or the query failed. *)
FriendshipRefused(t) ==
  /\ task[t].pc = "friend"
  /\ AnswerError(t)
  /\ UNCHANGED <<connVars, dbVars>>

(* The unique index of direct_messages over chat and timestamp. *)
SlotFree(d) == \A i \in MsgId : Stored(i) => ~SameSlot(messages[i], d)

InsertMessage(d) ==
  /\ nextId \in MsgId
  /\ SlotFree(d)
  /\ messages' = [messages EXCEPT ![nextId] = d]
  /\ nextId' = nextId + 1
  /\ UNCHANGED <<related, lastSent>>

CreateNewMessage(t) ==
  /\ task[t].pc = "create"
  /\ InsertMessage(task[t].draft)
  /\ task' = [task EXCEPT ![t].pc = "update", ![t].msg = nextId]
  /\ UNCHANGED <<connVars, historyVars>>

(* The insert ends in an error: nothing was stored (the slot is taken, the  *)
(* query failed), or the message was and the answer got lost.               *)
CreateFails(t) ==
  /\ task[t].pc = "create"
  /\ UNCHANGED dbVars \/ InsertMessage(task[t].draft)
  /\ AnswerError(t)
  /\ UNCHANGED connVars

UpdateDirectChat(c, m) ==
  /\ lastSent' = [lastSent EXCEPT ![c] = m]
  /\ UNCHANGED <<related, messages, nextId>>

AddLastSentMessage(t) ==
  /\ task[t].pc = "update"
  /\ UpdateDirectChat(task[t].draft.chat, task[t].msg)
  /\ task' = [task EXCEPT ![t].pc = "deliver"]
  /\ UNCHANGED <<connVars, historyVars>>

(* The update ends in an error, with or without being carried out. *)
UpdateFails(t) ==
  /\ task[t].pc = "update"
  /\ UNCHANGED dbVars \/ UpdateDirectChat(task[t].draft.chat, task[t].msg)
  /\ AnswerError(t)
  /\ UNCHANGED connVars

(* The sockets that are still connected among the one registered for the     *)
(* receiver now and the one the draft came in on.                            *)
Recipients(t) ==
  {s \in {GetConnectedClient(task[t].draft.receiver), task[t].socket} \ {NoSocket} :
     phase[s] = "open"}

DeliverMessage(t) ==
  /\ task[t].pc = "deliver"
  /\ delivered' = [u \in User |-> IF \E s \in Recipients(t) : SocketUser[s] = u
                                  THEN delivered[u] \union {task[t].msg}
                                  ELSE delivered[u]]
  /\ acked' = acked \union {task[t].draft}
  /\ task' = [task EXCEPT ![t] = Idle]
  /\ UNCHANGED <<connVars, dbVars, failed>>

TaskStep(t) ==
  \/ CheckFriendship(t)
  \/ FriendshipRefused(t)
  \/ CreateNewMessage(t)
  \/ CreateFails(t)
  \/ AddLastSentMessage(t)
  \/ UpdateFails(t)
  \/ DeliverMessage(t)

----------------------------------------------------------------------------
(* The other events                                                          *)

(* A friend request is made; no code deletes one or changes its pair: this   *)
(* is Meet of Acquaintances, which FriendRequests implements.                *)
Befriend(u, v) ==
  /\ u # v
  /\ related' = related \union {{u, v}}
  /\ UNCHANGED <<connVars, messages, nextId, lastSent, task, historyVars>>

(* The steps of Connections other than the token check. *)
ConnectionStep ==
  /\ \/ \E s \in Socket : \/ HandleConnection(s)
                          \/ RefuseConnection(s)
                          \/ HandleDisconnect(s)
                          \/ RefusedByMiddleware(s)
     \/ ConnTimerFires
  /\ UNCHANGED msgVars

(* The end of the process ends the handlers where they are. *)
Restart ==
  /\ RestartServer
  /\ task' = [t \in Task |-> Idle]
  /\ UNCHANGED <<dbVars, historyVars>>

MsgNext ==
  \/ \E s \in Socket, t \in Task, d \in Draft : SubmitMessage(s, t, d)
  \/ \E s \in Socket, d \in Draft : OverlapMessage(s, d)
  \/ \E t \in Task : TaskStep(t)
  \/ \E d \in Draft : Befriend(d.author, d.receiver)
  \/ ConnectionStep
  \/ Restart

MsgSpec == MsgInit /\ [][MsgNext]_vars

(* Every query ends, with a result or an error, and its handler runs on. *)
MsgFairSpec == MsgSpec /\ \A t \in Task : WF_vars(TaskStep(t))

----------------------------------------------------------------------------

(* Retries never store or hand over a message twice, also when the tokens    *)
(* that refuse duplicates are gone: after a disconnect, a restart, or the    *)
(* loss of the answer to an insert that was carried out.                     *)
StoredOnce ==
  \A i, j \in MsgId : Stored(i) /\ messages[i] = messages[j] => i = j

(* The pointer of a chat to its last message never dangles and never leaves  *)
(* the chat, whatever order the handlers of the chat end in.                 *)
LastSentValid ==
  \A c \in Chat :
    lastSent[c] # NoMsg => Stored(lastSent[c]) /\ messages[lastSent[c]].chat = c

(* What a user is handed is stored, and the user is the author or the        *)
(* receiver: the registry is read after three awaits, and still never names  *)
(* the socket of another user.                                               *)
DeliveredToParticipants ==
  \A u \in User : \A m \in delivered[u] :
    Stored(m) /\ u \in {messages[m].author, messages[m].receiver}

(* Every stored message is between two different users who have a friend     *)
(* request: whatever a handler has lost track of meanwhile, it inserts for   *)
(* the two users it has asked about.                                         *)
StoredAreRelated ==
  \A i \in MsgId :
    Stored(i) => /\ IsFriend(messages[i].author, messages[i].receiver)
                 /\ messages[i].author # messages[i].receiver

(* A draft is refused as an overlap only for a reason its author can know    *)
(* of: it is stored, a handler is at work on it, or it was answered with an  *)
(* error.  No token is burnt silently.                                       *)
TokenAccounted ==
  \A u \in User : \A k \in uniqueMsgTokens[u] :
    \E d \in Draft :
      /\ d.author = u /\ d.token = k
      /\ \/ \E i \in MsgId : messages[i] = d
         \/ \E t \in Task : task[t].draft = d
         \/ d \in failed

(* A success answer means that the message is stored, the chat points to     *)
(* one of its messages, and the author may write to the receiver.            *)
AckImpliesStored ==
  \A d \in acked :
    /\ \E i \in MsgId : messages[i] = d
    /\ lastSent[d.chat] # NoMsg
    /\ IsFriend(d.author, d.receiver)

(* When a message is confirmed to its author, a receiver that is connected   *)
(* at that moment has been handed it: reading the registry late finds the    *)
(* live socket also after a reconnect during the queries, unless another     *)
(* socket has disputed its entry (see OpenIsRegistered).                     *)
AckedReachesOnlineReceiver ==
  [][\A t \in Task : DeliverMessage(t) =>
       \A s \in Socket :
         /\ phase[s] = "open"
         /\ SocketUser[s] = task[t].draft.receiver
         /\ s \notin disputed
         => task[t].msg \in delivered'[SocketUser[s]]]_vars

(* As long as the clients of a chat wait for answers, its pointer only moves *)
(* on to newer messages, over all failures and restarts.  (Two handlers of   *)
(* one chat may update the pointer in the other order than they inserted.)   *)
SoloPointerAdvances ==
  [][\A c \in Solo : lastSent'[c] >= lastSent[c]]_vars

(* Every message that passed the token check is answered, or the process     *)
(* ends: no handler waits forever.                                           *)
Answered == \A t \in Task : Busy(t) ~> ~Busy(t)

(* The promise of ChatLog, kept by the handlers.                             *)
StoredDrafts == {messages[i] : i \in {j \in MsgId : Stored(j)}}

Log == INSTANCE ChatLog WITH
         log <- StoredDrafts,
         inbox <- [u \in User |-> {messages[m] : m \in delivered[u]}]

ImplementsChatLog == Log!LogSpec
=============================================================================
