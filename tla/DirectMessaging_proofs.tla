------------------------ MODULE DirectMessaging_proofs ------------------------
(***************************************************************************)
(* Proofs about DirectMessaging, for any users, sockets, drafts, handlers  *)
(* and ids: every step of it is one of Connections or leaves the           *)
(* connections alone, the safety properties of the runs, and that the      *)
(* handlers keep the promise of ChatLog.                                   *)
(***************************************************************************)
EXTENDS DirectMessaging, Connections_proofs

----------------------------------------------------------------------------
(* The connections                                                           *)

(* Every step is a step of Connections or leaves the connections alone.      *)
LEMMA ConnectionsStep == [MsgNext]_vars => [ConnNext]_connVars
<1> SUFFICES ASSUME [MsgNext]_vars PROVE [ConnNext]_connVars
  OBVIOUS
<1>1. ASSUME NEW s \in Socket, NEW t \in Task, NEW d \in Draft, SubmitMessage(s, t, d)
      PROVE  ConnNext
  <2>1. SubmitToken(s, d.token)
    BY <1>1 DEF SubmitMessage, SubmitToken
  <2>2. d.token \in Token
    BY MessagingAssumption
  <2> QED
    BY <2>1, <2>2 DEF ConnNext
<1>2. ASSUME NEW s \in Socket, NEW d \in Draft, OverlapMessage(s, d)
      PROVE  UNCHANGED connVars
  BY <1>2 DEF OverlapMessage, OverlappingToken, connVars
<1>3. ASSUME NEW t \in Task, TaskStep(t)
      PROVE  UNCHANGED connVars
  BY <1>3 DEF TaskStep, CheckFriendship, FriendshipRefused, CreateNewMessage, CreateFails,
              AddLastSentMessage, UpdateFails, DeliverMessage
<1>4. ASSUME NEW d \in Draft, Befriend(d.author, d.receiver)
      PROVE  UNCHANGED connVars
  BY <1>4 DEF Befriend
<1>5. CASE ConnectionStep
  BY <1>5 DEF ConnectionStep, ConnNext
<1>6. CASE Restart
  BY <1>6 DEF Restart, ConnNext
<1>7. CASE UNCHANGED vars
  BY <1>7 DEF vars
<1> QED
  BY <1>1, <1>2, <1>3, <1>4, <1>5, <1>6, <1>7 DEF MsgNext

(* The connections of DirectMessaging behave as Connections says, so what is *)
(* proved of Connections holds here.                                         *)
THEOREM KeepsConnections == MsgSpec => ConnSpec
<1>1. MsgInit => ConnInit
  BY DEF MsgInit
<1> QED
  BY <1>1, ConnectionsStep, PTL DEF MsgSpec, ConnSpec

(* The types and the registry at both ends of a step.                        *)
ConnInv == ConnTypeOK /\ RegistryInv

LEMMA ConnInvariant == MsgSpec => []ConnInv
BY KeepsConnections, ConnTypeCorrect, RegistryInvariant, PTL DEF ConnInv

----------------------------------------------------------------------------
(* The invariant                                                             *)

(* What a handler that has come so far relies on: its draft came in on a     *)
(* socket of the author; after the first query the two users are related,    *)
(* after the second its message is stored, after the third the chat has a    *)
(* last message.                                                             *)
Working(t) ==
  LET d == task[t].draft IN
  /\ d \in Draft
  /\ task[t].socket \in Socket
  /\ SocketUser[task[t].socket] = d.author
  /\ task[t].pc # "friend" => IsFriend(d.author, d.receiver)
  /\ task[t].pc \in {"update", "deliver"} => task[t].msg \in MsgId /\ messages[task[t].msg] = d
  /\ task[t].pc = "deliver" => lastSent[d.chat] # NoMsg

TasksInv ==
  \A t \in Task : /\ Busy(t) => Working(t)
                  /\ ~Busy(t) => task[t] = Idle

(* Ids are given out in order, no two messages share a slot, and the         *)
(* pointers are valid.                                                       *)
StorageInv ==
  /\ \A i \in MsgId : Stored(i) => i < nextId
  /\ \A i, j \in MsgId :
       Stored(i) /\ Stored(j) /\ SameSlot(messages[i], messages[j]) => i = j
  /\ LastSentValid

(* The chats of clients that wait: one handler at most, with a message newer *)
(* than the one the chat points to.                                          *)
SoloInv ==
  /\ \A t, h \in Task :
       Busy(t) /\ Busy(h) /\ task[t].draft.chat = task[h].draft.chat
                          /\ task[t].draft.chat \in Solo => t = h
  /\ \A t \in Task :
       task[t].pc = "update" /\ task[t].draft.chat \in Solo =>
         lastSent[task[t].draft.chat] < task[t].msg

MsgInv ==
  /\ MsgTypeOK
  /\ TasksInv
  /\ StorageInv
  /\ SoloInv
  /\ DeliveredToParticipants
  /\ AckImpliesStored

(* What no step takes back.                                                  *)
Grows ==
  /\ \A i \in MsgId : Stored(i) => messages'[i] = messages[i]
  /\ related \subseteq related'
  /\ \A c \in Chat : lastSent[c] # NoMsg => lastSent'[c] # NoMsg

(* The parts of the type of a handler.                                       *)
LEMMA TaskFields ==
  ASSUME MsgTypeOK, NEW t \in Task
  PROVE  /\ task[t] \in TaskState
         /\ task[t].draft \in Draft => task[t].draft.chat \in Chat
         /\ NoMsg \notin MsgId /\ NoDraft \notin Draft
BY MessagingAssumption DEF MsgTypeOK, MsgId, NoMsg

(* A handler that a step does not touch goes on relying on what it did.      *)
LEMMA StaysWorking ==
  ASSUME MsgTypeOK, Grows, NEW t \in Task, Busy(t), Working(t), task'[t] = task[t]
  PROVE  Working(t)'
<1> DEFINE d == task[t].draft
<1>1. d \in Draft /\ d \in Draft => d.chat \in Chat /\ d # NoDraft
  BY TaskFields DEF Working
<1>2. task[t].pc # "friend" => IsFriend(d.author, d.receiver)'
  BY DEF Working, Grows, IsFriend
<1>3. task[t].pc \in {"update", "deliver"} =>
        task[t].msg \in MsgId /\ messages'[task[t].msg] = d
  BY <1>1, TaskFields DEF Working, Grows, Stored
<1>4. task[t].pc = "deliver" => lastSent'[d.chat] # NoMsg
  BY <1>1, TaskFields DEF Working, Grows
<1> QED
  BY <1>2, <1>3, <1>4 DEF Working

----------------------------------------------------------------------------
(* The queries                                                               *)

(* An insert adds the draft under the next id and changes nothing else.      *)
LEMMA InsertMessageStep ==
  ASSUME MsgTypeOK, StorageInv, NEW d \in Draft, InsertMessage(d)
  PROVE  /\ Grows
         /\ StorageInv'
         /\ messages' \in [MsgId -> Draft \union {NoDraft}]
         /\ nextId \in MsgId /\ messages'[nextId] = d /\ ~Stored(nextId)
         /\ \A i \in MsgId \ {nextId} : messages'[i] = messages[i]
         /\ nextId' \in 1..(MaxId + 1)
<1> USE MessagingAssumption DEF MsgId, NoMsg
<1>1. /\ nextId \in MsgId /\ messages'[nextId] = d
      /\ \A i \in MsgId \ {nextId} : messages'[i] = messages[i]
      /\ messages' \in [MsgId -> Draft \union {NoDraft}]
      /\ nextId' = nextId + 1 /\ nextId \in Nat
  BY DEF InsertMessage, MsgTypeOK
<1>2. ~Stored(nextId)
  BY <1>1 DEF StorageInv
<1>3. Grows
  BY <1>1, <1>2 DEF Grows, InsertMessage
<1>4. \A i \in MsgId : Stored(i)' => i = nextId \/ (Stored(i) /\ messages'[i] = messages[i])
  BY <1>1 DEF Stored
<1>5. \A i \in MsgId : Stored(i)' => i < nextId'
  BY <1>1, <1>4 DEF StorageInv
<1>6. \A i, j \in MsgId :
        Stored(i)' /\ Stored(j)' /\ SameSlot(messages'[i], messages'[j]) => i = j
  <2>1. \A i \in MsgId : Stored(i) => ~SameSlot(messages[i], d)
    BY DEF InsertMessage, SlotFree
  <2> QED
    BY <1>1, <1>4, <2>1 DEF StorageInv, SameSlot
<1>7. LastSentValid'
  <2> SUFFICES ASSUME NEW c \in Chat, lastSent[c] # NoMsg
               PROVE  /\ messages'[lastSent[c]] # NoDraft
                      /\ messages'[lastSent[c]].chat = c
    BY DEF LastSentValid, InsertMessage, Stored
  <2>1. lastSent[c] \in MsgId /\ Stored(lastSent[c]) /\ messages[lastSent[c]].chat = c
    BY DEF StorageInv, LastSentValid, MsgTypeOK
  <2>2. messages'[lastSent[c]] = messages[lastSent[c]]
    BY <2>1, <1>3 DEF Grows
  <2> QED
    BY <2>1, <2>2 DEF Stored
<1> QED
  BY <1>1, <1>2, <1>3, <1>5, <1>6, <1>7 DEF StorageInv

(* Pointing a chat at a stored message of the chat.                          *)
LEMMA UpdateDirectChatStep ==
  ASSUME MsgTypeOK, StorageInv, NEW c \in Chat, NEW m \in MsgId,
         Stored(m), messages[m].chat = c, UpdateDirectChat(c, m)
  PROVE  /\ Grows
         /\ StorageInv'
         /\ lastSent' \in [Chat -> MsgId \union {NoMsg}]
         /\ lastSent'[c] = m /\ m # NoMsg
         /\ \A x \in Chat \ {c} : lastSent'[x] = lastSent[x]
<1>1. /\ lastSent' \in [Chat -> MsgId \union {NoMsg}]
      /\ lastSent'[c] = m
      /\ \A x \in Chat \ {c} : lastSent'[x] = lastSent[x]
  BY DEF UpdateDirectChat, MsgTypeOK
<1>2. m # NoMsg
  BY MessagingAssumption DEF MsgId, NoMsg
<1>3. UNCHANGED <<messages, nextId, related>>
  BY DEF UpdateDirectChat
<1> QED
  BY <1>1, <1>2, <1>3 DEF Grows, StorageInv, LastSentValid, Stored

----------------------------------------------------------------------------
(* The handlers                                                              *)

(* What is said of handed over and confirmed messages outlives every step    *)
(* that hands over and confirms nothing.                                     *)
LEMMA PromisesStay ==
  ASSUME MsgInv, Grows, UNCHANGED <<delivered, acked>>
  PROVE  DeliveredToParticipants' /\ AckImpliesStored'
<1>1. DeliveredToParticipants'
  <2> SUFFICES ASSUME NEW u \in User, NEW m \in delivered[u]
               PROVE  /\ messages'[m] # NoDraft
                      /\ u \in {messages'[m].author, messages'[m].receiver}
    BY DEF DeliveredToParticipants, Stored
  <2>1. m \in MsgId /\ Stored(m) /\ u \in {messages[m].author, messages[m].receiver}
    BY DEF MsgInv, MsgTypeOK, DeliveredToParticipants
  <2> QED
    BY <2>1 DEF Grows, Stored
<1>2. AckImpliesStored'
  <2> SUFFICES ASSUME NEW d \in acked
               PROVE  /\ \E i \in MsgId : messages'[i] = d
                      /\ lastSent'[d.chat] # NoMsg
                      /\ IsFriend(d.author, d.receiver)'
    BY DEF AckImpliesStored
  <2>1. d \in Draft /\ d # NoDraft /\ d.chat \in Chat
    BY MessagingAssumption DEF MsgInv, MsgTypeOK
  <2>2. PICK i \in MsgId : messages[i] = d
    BY DEF MsgInv, AckImpliesStored
  <2>3. messages'[i] = d
    BY <2>1, <2>2 DEF Grows, Stored
  <2>4. lastSent[d.chat] # NoMsg /\ IsFriend(d.author, d.receiver)
    BY DEF MsgInv, AckImpliesStored
  <2> QED
    BY <2>1, <2>3, <2>4 DEF Grows, IsFriend
<1> QED
  BY <1>1, <1>2

(* A step of one handler leaves the others what they rely on.                *)
LEMMA OthersStay ==
  ASSUME MsgTypeOK, TasksInv, Grows, NEW t \in Task,
         \A h \in Task \ {t} : task'[h] = task[h],
         Busy(t)' => Working(t)',
         ~Busy(t)' => task'[t] = Idle
  PROVE  TasksInv'
<1> SUFFICES ASSUME NEW h \in Task
             PROVE  (Busy(h)' => Working(h)') /\ (~Busy(h)' => task'[h] = Idle)
  BY DEF TasksInv
<1>1. CASE h = t
  BY <1>1
<1>2. CASE h # t
  <2>1. task'[h] = task[h] /\ Busy(h)' = Busy(h)
    BY <1>2 DEF Busy
  <2>2. Busy(h) => Working(h)'
    BY <2>1, StaysWorking DEF TasksInv
  <2> QED
    BY <2>1, <2>2 DEF TasksInv
<1> QED
  BY <1>1, <1>2

(* A handler that ends leaves the others what they rely on, unless it moves  *)
(* the pointer of a chat of waiting clients that is not its own.             *)
LEMMA HandlerEnds ==
  ASSUME MsgInv, Grows, NEW t \in Task, Busy(t),
         task' = [task EXCEPT ![t] = Idle],
         \A c \in Solo : lastSent'[c] = lastSent[c] \/ task[t].draft.chat = c
  PROVE  TasksInv' /\ SoloInv' /\ task' \in [Task -> TaskState]
<1> USE DEF MsgInv
<1>1. /\ task'[t] = Idle
      /\ \A h \in Task \ {t} : task'[h] = task[h]
      /\ task' \in [Task -> TaskState]
  BY DEF MsgTypeOK, Idle, TaskState
<1>2. ~Busy(t)'
  BY <1>1 DEF Busy, Idle
<1>3. TasksInv'
  BY <1>1, <1>2, OthersStay
<1>4. \A h \in Task : Busy(h)' => h # t /\ Busy(h) /\ task'[h] = task[h]
  BY <1>1, <1>2 DEF Busy
<1>5. \A h \in Task : task'[h].pc = "update" => Busy(h)'
  BY DEF Busy
<1>6. ASSUME NEW h \in Task, task'[h].pc = "update", task'[h].draft.chat \in Solo
      PROVE  lastSent'[task'[h].draft.chat] < task'[h].msg
  <2>1. h # t /\ Busy(h) /\ task'[h] = task[h]
    BY <1>4, <1>5, <1>6
  <2>2. task[t].draft.chat # task[h].draft.chat
    BY <1>6, <2>1 DEF SoloInv
  <2> QED
    BY <1>6, <2>1, <2>2 DEF SoloInv
<1>7. SoloInv'
  BY <1>4, <1>6 DEF SoloInv
<1> QED
  BY <1>1, <1>3, <1>7

(* A handler that goes on to its next query with the same draft.             *)
LEMMA HandlerGoesOn ==
  ASSUME MsgInv, Grows, NEW t \in Task, Busy(t),
         \A h \in Task \ {t} : task'[h] = task[h],
         task'[t].pc # "idle",
         task'[t].draft = task[t].draft,
         Working(t)',
         task'[t].pc = "update" /\ task[t].draft.chat \in Solo =>
           lastSent'[task[t].draft.chat] < task'[t].msg,
         \A c \in Solo : lastSent'[c] = lastSent[c] \/ task[t].draft.chat = c
  PROVE  TasksInv' /\ SoloInv'
<1> USE DEF MsgInv
<1>1. Busy(t)'
  BY DEF Busy
<1>2. TasksInv'
  BY <1>1, OthersStay
<1>3. \A h \in Task : /\ Busy(h)' <=> Busy(h)
                      /\ task'[h].draft = task[h].draft
  BY <1>1 DEF Busy
<1>4. ASSUME NEW h \in Task, task'[h].pc = "update", task'[h].draft.chat \in Solo
      PROVE  lastSent'[task'[h].draft.chat] < task'[h].msg
  <2>1. CASE h = t
    BY <1>4, <2>1
  <2>2. CASE h # t
    <3>1. task'[h] = task[h] /\ Busy(h)
      BY <1>4, <2>2 DEF Busy
    <3>2. task[t].draft.chat # task[h].draft.chat
      BY <1>4, <2>2, <3>1 DEF SoloInv
    <3> QED
      BY <1>4, <3>1, <3>2 DEF SoloInv
  <2> QED
    BY <2>1, <2>2
<1>5. SoloInv'
  BY <1>3, <1>4 DEF SoloInv
<1> QED
  BY <1>2, <1>5

(* The answer with an error, after a query that changed the tables or not.   *)
LEMMA AnswerErrorStep ==
  ASSUME MsgInv, ConnTypeOK', Grows, StorageInv', NEW t \in Task, Busy(t),
         AnswerError(t),
         related' = related,
         messages' \in [MsgId -> Draft \union {NoDraft}],
         nextId' \in 1..(MaxId + 1),
         lastSent' \in [Chat -> MsgId \union {NoMsg}],
         \A c \in Solo : lastSent'[c] = lastSent[c] \/ task[t].draft.chat = c
  PROVE  MsgInv'
<1>1. TasksInv' /\ SoloInv' /\ task' \in [Task -> TaskState]
  BY HandlerEnds DEF AnswerError
<1>2. DeliveredToParticipants' /\ AckImpliesStored'
  BY PromisesStay DEF AnswerError
<1>3. task[t].draft \in Draft
  BY DEF MsgInv, TasksInv, Working
<1>4. MsgTypeOK'
  BY <1>1, <1>3 DEF MsgTypeOK, MsgInv, AnswerError
<1> QED
  BY <1>1, <1>2, <1>4 DEF MsgInv

(* Nothing is lost by a step that leaves the tables alone.                   *)
LEMMA TablesStay ==
  ASSUME MsgInv, UNCHANGED dbVars
  PROVE  /\ Grows
         /\ StorageInv'
         /\ messages' \in [MsgId -> Draft \union {NoDraft}]
         /\ nextId' \in 1..(MaxId + 1)
         /\ lastSent' \in [Chat -> MsgId \union {NoMsg}]
         /\ \A c \in Solo : lastSent'[c] = lastSent[c]
<1>1. related' = related /\ messages' = messages /\ nextId' = nextId /\ lastSent' = lastSent
  BY DEF dbVars
<1>2. Grows
  BY <1>1 DEF Grows
<1>3. StorageInv'
  BY <1>1 DEF MsgInv, StorageInv, LastSentValid, Stored
<1> QED
  BY <1>1, <1>2, <1>3 DEF MsgInv, MsgTypeOK
----------------------------------------------------------------------------
(* The steps of handleSendDirectMessage                                      *)

LEMMA SubmitMessageStep ==
  ASSUME MsgInv, ConnTypeOK', NEW s \in Socket, NEW t \in Task, NEW d \in Draft,
         SubmitMessage(s, t, d)
  PROVE  MsgInv'
<1> DEFINE new == [pc |-> "friend", socket |-> s, draft |-> d, msg |-> NoMsg]
<1>1. /\ task' = [task EXCEPT ![t] = new]
      /\ UNCHANGED dbVars /\ UNCHANGED <<delivered, acked>>
      /\ failed' = failed \ {d}
      /\ SocketUser[s] = d.author
      /\ ~Busy(t) /\ MaySend(d)
  BY DEF SubmitMessage
<1>2. Grows /\ StorageInv' /\ (\A c \in Solo : lastSent'[c] = lastSent[c])
  BY <1>1, TablesStay
<1>3. /\ task'[t] = new
      /\ \A h \in Task \ {t} : task'[h] = task[h]
      /\ task' \in [Task -> TaskState]
  BY <1>1 DEF MsgInv, MsgTypeOK, TaskState
<1>4. Busy(t)' /\ Working(t)'
  BY <1>1, <1>3 DEF Busy, Working
<1>5. TasksInv'
  BY <1>2, <1>3, <1>4, OthersStay DEF MsgInv
<1>6. SoloInv'
  <2>1. \A h \in Task : Busy(h)' /\ h # t => Busy(h) /\ task'[h] = task[h]
    BY <1>3 DEF Busy
  <2>2. \A h \in Task : Busy(h)' /\ h # t /\ d.chat \in Solo => task'[h].draft.chat # d.chat
    BY <1>1, <2>1 DEF MaySend
  <2>3. \A h \in Task : task'[h].pc = "update" => h # t /\ task'[h] = task[h]
    BY <1>3
  <2>4. /\ task'[t].draft = d
        /\ \A h, g \in Task :
             Busy(h)' /\ Busy(g)' /\ task'[h].draft.chat = task'[g].draft.chat
                     /\ task'[h].draft.chat \in Solo => h = g
    BY <1>3, <2>1, <2>2 DEF MsgInv, SoloInv
  <2>5. \A h \in Task :
          task'[h].pc = "update" /\ task'[h].draft.chat \in Solo =>
            lastSent'[task'[h].draft.chat] < task'[h].msg
    BY <1>2, <2>3 DEF MsgInv, SoloInv
  <2> QED
    BY <2>4, <2>5 DEF SoloInv
<1>7. DeliveredToParticipants' /\ AckImpliesStored'
  BY <1>1, <1>2, PromisesStay
<1>8. MsgTypeOK'
  BY <1>1, <1>3, TablesStay DEF MsgInv, MsgTypeOK, dbVars
<1> QED
  BY <1>2, <1>5, <1>6, <1>7, <1>8 DEF MsgInv

LEMMA CheckFriendshipStep ==
  ASSUME MsgInv, ConnTypeOK', NEW t \in Task, CheckFriendship(t)
  PROVE  MsgInv'
<1>1. /\ task' = [task EXCEPT ![t].pc = "create"]
      /\ task[t].pc = "friend" /\ Busy(t)
      /\ IsFriend(task[t].draft.author, task[t].draft.receiver)
      /\ UNCHANGED dbVars /\ UNCHANGED <<delivered, acked, failed>>
  BY DEF CheckFriendship, historyVars, Busy
<1>2. Grows /\ StorageInv' /\ (\A c \in Solo : lastSent'[c] = lastSent[c])
  BY <1>1, TablesStay
<1>3. /\ task[t] \in TaskState
      /\ task'[t] = [task[t] EXCEPT !.pc = "create"]
      /\ \A h \in Task \ {t} : task'[h] = task[h]
  BY <1>1 DEF MsgInv, MsgTypeOK
<1>4. /\ task'[t].pc = "create" /\ task'[t].draft = task[t].draft
      /\ task'[t].socket = task[t].socket
      /\ task'[t] \in TaskState
  BY <1>3 DEF TaskState
<1>5. task' \in [Task -> TaskState]
  BY <1>1, <1>3, <1>4 DEF MsgInv, MsgTypeOK
<1>6. Working(t)'
  <2>1. Working(t)
    BY <1>1 DEF MsgInv, TasksInv
  <2>2. IsFriend(task[t].draft.author, task[t].draft.receiver)'
    BY <1>1, <1>4 DEF dbVars, IsFriend
  <2> QED
    BY <1>4, <2>1, <2>2 DEF Working
<1>7. TasksInv' /\ SoloInv'
  BY <1>1, <1>2, <1>3, <1>4, <1>6, HandlerGoesOn
<1>8. DeliveredToParticipants' /\ AckImpliesStored'
  BY <1>1, <1>2, PromisesStay
<1>9. MsgTypeOK'
  BY <1>1, <1>5, TablesStay DEF MsgInv, MsgTypeOK, dbVars
<1> QED
  BY <1>2, <1>7, <1>8, <1>9 DEF MsgInv

LEMMA CreateNewMessageStep ==
  ASSUME MsgInv, ConnTypeOK', NEW t \in Task, CreateNewMessage(t)
  PROVE  MsgInv'
<1> DEFINE d == task[t].draft
<1>1. /\ task' = [task EXCEPT ![t].pc = "update", ![t].msg = nextId]
      /\ task[t].pc = "create" /\ Busy(t)
      /\ InsertMessage(d)
      /\ UNCHANGED <<related, lastSent, delivered, acked, failed>>
  BY DEF CreateNewMessage, InsertMessage, historyVars, Busy
<1>2. Working(t) /\ d \in Draft /\ d.chat \in Chat
  BY <1>1, MessagingAssumption DEF MsgInv, TasksInv, Working
<1>3. /\ Grows /\ StorageInv'
      /\ messages' \in [MsgId -> Draft \union {NoDraft}]
      /\ nextId \in MsgId /\ messages'[nextId] = d
      /\ nextId' \in 1..(MaxId + 1)
  BY <1>1, <1>2, InsertMessageStep DEF MsgInv
<1>4. /\ task[t] \in TaskState
      /\ task'[t] = [task[t] EXCEPT !.pc = "update", !.msg = nextId]
      /\ \A h \in Task \ {t} : task'[h] = task[h]
  BY <1>1 DEF MsgInv, MsgTypeOK
<1>5. /\ task'[t].pc = "update" /\ task'[t].draft = d
      /\ task'[t].socket = task[t].socket /\ task'[t].msg = nextId
      /\ task'[t] \in TaskState
  BY <1>3, <1>4 DEF TaskState
<1>6. task' \in [Task -> TaskState]
  BY <1>1, <1>4, <1>5 DEF MsgInv, MsgTypeOK
<1>7. Working(t)'
  <2>1. {d.author, d.receiver} \in related
    BY <1>1, <1>2 DEF Working, IsFriend
  <2>2. related' = related /\ task'[t].draft = task[t].draft
    BY <1>1, <1>5
  <2>3. IsFriend(task[t].draft.author, task[t].draft.receiver)'
    BY <2>1, <2>2 DEF IsFriend
  <2> QED
    BY <1>2, <1>3, <1>5, <2>3 DEF Working
<1>8. lastSent'[d.chat] < nextId
  BY <1>1, <1>2, <1>3 DEF MsgInv, MsgTypeOK, StorageInv, LastSentValid, MsgId, NoMsg
<1>9. TasksInv' /\ SoloInv'
  BY <1>1, <1>3, <1>4, <1>5, <1>7, <1>8, HandlerGoesOn
<1>10. DeliveredToParticipants' /\ AckImpliesStored'
  BY <1>1, <1>3, PromisesStay
<1>11. MsgTypeOK'
  BY <1>1, <1>3, <1>6 DEF MsgInv, MsgTypeOK
<1> QED
  BY <1>3, <1>9, <1>10, <1>11 DEF MsgInv
LEMMA AddLastSentMessageStep ==
  ASSUME MsgInv, ConnTypeOK', NEW t \in Task, AddLastSentMessage(t)
  PROVE  MsgInv'
<1> DEFINE d == task[t].draft
<1>1. /\ task' = [task EXCEPT ![t].pc = "deliver"]
      /\ task[t].pc = "update" /\ Busy(t)
      /\ UpdateDirectChat(d.chat, task[t].msg)
      /\ UNCHANGED <<related, messages, nextId, delivered, acked, failed>>
  BY DEF AddLastSentMessage, UpdateDirectChat, historyVars, Busy
<1>2. /\ Working(t) /\ d \in Draft /\ d.chat \in Chat
      /\ task[t].msg \in MsgId /\ messages[task[t].msg] = d /\ Stored(task[t].msg)
  BY <1>1, MessagingAssumption DEF MsgInv, TasksInv, Working, Stored
<1>3. /\ Grows /\ StorageInv'
      /\ lastSent' \in [Chat -> MsgId \union {NoMsg}]
      /\ lastSent'[d.chat] # NoMsg
      /\ \A c \in Chat \ {d.chat} : lastSent'[c] = lastSent[c]
  BY <1>1, <1>2, UpdateDirectChatStep DEF MsgInv
<1>4. /\ task[t] \in TaskState
      /\ task'[t] = [task[t] EXCEPT !.pc = "deliver"]
      /\ \A h \in Task \ {t} : task'[h] = task[h]
  BY <1>1 DEF MsgInv, MsgTypeOK
<1>5. /\ task'[t].pc = "deliver" /\ task'[t].draft = task[t].draft
      /\ task'[t].socket = task[t].socket /\ task'[t].msg = task[t].msg
      /\ task'[t] \in TaskState
  BY <1>4 DEF TaskState
<1>6. task' \in [Task -> TaskState]
  BY <1>1, <1>4, <1>5 DEF MsgInv, MsgTypeOK
<1>7. Working(t)'
  <2>1. {d.author, d.receiver} \in related
    BY <1>1, <1>2 DEF Working, IsFriend
  <2>2. related' = related /\ messages' = messages /\ task'[t].draft = task[t].draft
    BY <1>1, <1>5
  <2>3. IsFriend(task[t].draft.author, task[t].draft.receiver)'
    BY <2>1, <2>2 DEF IsFriend
  <2> QED
    BY <1>2, <1>3, <1>5, <2>2, <2>3 DEF Working
<1>8. \A c \in Solo : lastSent'[c] = lastSent[c] \/ d.chat = c
  BY <1>3, MessagingAssumption
<1>9. TasksInv' /\ SoloInv'
  BY <1>1, <1>3, <1>4, <1>5, <1>7, <1>8, HandlerGoesOn
<1>10. DeliveredToParticipants' /\ AckImpliesStored'
  BY <1>1, <1>3, PromisesStay
<1>11. MsgTypeOK'
  BY <1>1, <1>3, <1>6 DEF MsgInv, MsgTypeOK
<1> QED
  BY <1>3, <1>9, <1>10, <1>11 DEF MsgInv

(* The three queries that end in an error.                                   *)
LEMMA FailureStep ==
  ASSUME MsgInv, ConnTypeOK', NEW t \in Task,
         FriendshipRefused(t) \/ CreateFails(t) \/ UpdateFails(t)
  PROVE  MsgInv'
<1> DEFINE d == task[t].draft
<1>1. Busy(t) /\ AnswerError(t)
  BY DEF FriendshipRefused, CreateFails, UpdateFails, Busy
<1>2. Working(t) /\ d \in Draft /\ d.chat \in Chat
  BY <1>1, MessagingAssumption DEF MsgInv, TasksInv, Working
<1>3. CASE UNCHANGED dbVars
  <2>1. related' = related
    BY <1>3 DEF dbVars
  <2> QED
    BY <1>1, <1>3, <2>1, TablesStay, AnswerErrorStep
<1>4. CASE InsertMessage(d)
  <2>1. related' = related /\ lastSent' = lastSent
    BY <1>4 DEF InsertMessage
  <2>2. lastSent' \in [Chat -> MsgId \union {NoMsg}]
    BY <2>1 DEF MsgInv, MsgTypeOK
  <2>3. /\ Grows /\ StorageInv'
        /\ messages' \in [MsgId -> Draft \union {NoDraft}]
        /\ nextId' \in 1..(MaxId + 1)
    BY <1>2, <1>4, InsertMessageStep DEF MsgInv
  <2> QED
    BY <1>1, <2>1, <2>2, <2>3, AnswerErrorStep
<1>5. CASE task[t].pc = "update" /\ UpdateDirectChat(d.chat, task[t].msg)
  <2>1. task[t].msg \in MsgId /\ messages[task[t].msg] = d /\ Stored(task[t].msg)
    BY <1>2, <1>5, MessagingAssumption DEF Working, Stored
  <2>2. /\ Grows /\ StorageInv'
        /\ lastSent' \in [Chat -> MsgId \union {NoMsg}]
        /\ \A c \in Chat \ {d.chat} : lastSent'[c] = lastSent[c]
    BY <1>2, <1>5, <2>1, UpdateDirectChatStep DEF MsgInv
  <2>3. related' = related /\ messages' = messages /\ nextId' = nextId
    BY <1>5 DEF UpdateDirectChat
  <2>4. \A c \in Solo : lastSent'[c] = lastSent[c] \/ d.chat = c
    BY <2>2, MessagingAssumption
  <2>5. /\ messages' \in [MsgId -> Draft \union {NoDraft}]
        /\ nextId' \in 1..(MaxId + 1)
    BY <2>3 DEF MsgInv, MsgTypeOK
  <2> QED
    BY <1>1, <2>2, <2>3, <2>4, <2>5, AnswerErrorStep
<1> QED
  BY <1>3, <1>4, <1>5 DEF FriendshipRefused, CreateFails, UpdateFails

(* The registry, read after three queries, names no socket of a third user.  *)
LEMMA RecipientsAreParticipants ==
  ASSUME MsgInv, RegistryInv, NEW t \in Task, Busy(t), NEW s \in Recipients(t)
  PROVE  SocketUser[s] \in {task[t].draft.author, task[t].draft.receiver}
<1>1. task[t].draft.receiver \in User /\ SocketUser[task[t].socket] = task[t].draft.author
  BY MessagingAssumption DEF MsgInv, TasksInv, Working
<1>2. CASE s = task[t].socket
  BY <1>1, <1>2
<1>3. CASE s = connectedClients[task[t].draft.receiver] /\ s # NoSocket
  BY <1>1, <1>3 DEF RegistryInv
<1> QED
  BY <1>2, <1>3 DEF Recipients, GetConnectedClient

LEMMA DeliverMessageStep ==
  ASSUME MsgInv, RegistryInv, ConnTypeOK', NEW t \in Task, DeliverMessage(t)
  PROVE  MsgInv'
<1> DEFINE d == task[t].draft
           m == task[t].msg
<1>1. /\ task' = [task EXCEPT ![t] = Idle]
      /\ task[t].pc = "deliver" /\ Busy(t)
      /\ UNCHANGED dbVars /\ failed' = failed
      /\ acked' = acked \union {d}
      /\ delivered' = [u \in User |-> IF \E s \in Recipients(t) : SocketUser[s] = u
                                      THEN delivered[u] \union {m}
                                      ELSE delivered[u]]
  BY DEF DeliverMessage, Busy
<1>2. /\ Working(t) /\ d \in Draft /\ IsFriend(d.author, d.receiver)
      /\ m \in MsgId /\ messages[m] = d /\ Stored(m)
      /\ lastSent[d.chat] # NoMsg
  BY <1>1, MessagingAssumption DEF MsgInv, TasksInv, Working, Stored
<1>3. /\ Grows /\ StorageInv' /\ (\A c \in Solo : lastSent'[c] = lastSent[c])
      /\ related' = related /\ messages' = messages /\ lastSent' = lastSent
  BY <1>1, TablesStay DEF dbVars
<1>4. TasksInv' /\ SoloInv' /\ task' \in [Task -> TaskState]
  BY <1>1, <1>3, HandlerEnds
<1>5. DeliveredToParticipants'
  <2> SUFFICES ASSUME NEW u \in User, NEW i \in delivered'[u]
               PROVE  /\ messages[i] # NoDraft
                      /\ u \in {messages[i].author, messages[i].receiver}
    BY <1>3 DEF DeliveredToParticipants, Stored
  <2>1. CASE i \in delivered[u]
    BY <2>1 DEF MsgInv, DeliveredToParticipants, Stored
  <2>2. CASE i \notin delivered[u]
    <3>1. i = m /\ \E s \in Recipients(t) : SocketUser[s] = u
      BY <1>1, <2>2
    <3>2. u \in {d.author, d.receiver}
      BY <1>1, <3>1, RecipientsAreParticipants
    <3> QED
      BY <1>2, <3>1, <3>2 DEF Stored
  <2> QED
    BY <2>1, <2>2
<1>6. AckImpliesStored'
  <2> SUFFICES ASSUME NEW e \in acked'
               PROVE  /\ \E i \in MsgId : messages[i] = e
                      /\ lastSent[e.chat] # NoMsg
                      /\ {e.author, e.receiver} \in related
    BY <1>3 DEF AckImpliesStored, IsFriend
  <2>1. CASE e \in acked
    BY <2>1 DEF MsgInv, AckImpliesStored, IsFriend
  <2>2. CASE e = d
    BY <1>2, <2>2 DEF IsFriend
  <2> QED
    BY <1>1, <2>1, <2>2
<1>7. MsgTypeOK'
  <2>1. delivered' \in [User -> SUBSET MsgId]
    BY <1>1, <1>2 DEF MsgInv, MsgTypeOK
  <2> QED
    BY <1>1, <1>2, <1>4, <2>1 DEF MsgInv, MsgTypeOK, dbVars
<1> QED
  BY <1>3, <1>4, <1>5, <1>6, <1>7 DEF MsgInv
----------------------------------------------------------------------------
(* Every step                                                                *)

(* A step that only touches the connections, or nothing.                     *)
LEMMA UnchangedStep ==
  ASSUME MsgInv, ConnTypeOK', UNCHANGED msgVars
  PROVE  MsgInv'
<1>1. UNCHANGED dbVars /\ task' = task /\ UNCHANGED <<delivered, acked, failed>>
  BY DEF msgVars, historyVars
<1>2. Grows /\ StorageInv' /\ (\A c \in Solo : lastSent'[c] = lastSent[c])
  BY <1>1, TablesStay
<1>3. TasksInv' /\ SoloInv'
  <2>1. lastSent' = lastSent /\ messages' = messages /\ related' = related
    BY <1>1 DEF dbVars
  <2> QED
    BY <1>1, <2>1 DEF MsgInv, TasksInv, SoloInv, Busy, Working, IsFriend
<1>4. DeliveredToParticipants' /\ AckImpliesStored'
  BY <1>1, <1>2, PromisesStay
<1>5. MsgTypeOK'
  BY <1>1, TablesStay DEF MsgInv, MsgTypeOK, dbVars
<1> QED
  BY <1>2, <1>3, <1>4, <1>5 DEF MsgInv

LEMMA BefriendStep ==
  ASSUME MsgInv, ConnTypeOK', NEW d \in Draft, Befriend(d.author, d.receiver)
  PROVE  MsgInv' /\ Grows
<1>1. /\ related' = related \union {{d.author, d.receiver}}
      /\ messages' = messages /\ nextId' = nextId /\ lastSent' = lastSent
      /\ task' = task /\ UNCHANGED <<delivered, acked, failed>>
  BY DEF Befriend, historyVars
<1>2. Grows
  BY <1>1 DEF Grows
<1>3. StorageInv'
  BY <1>1 DEF MsgInv, StorageInv, LastSentValid, Stored
<1>4. TasksInv'
  <2> SUFFICES ASSUME NEW t \in Task, Busy(t)
               PROVE  Working(t)'
    BY <1>1 DEF MsgInv, TasksInv, Busy
  <2> QED
    BY <1>1, <1>2, StaysWorking DEF MsgInv, TasksInv
<1>5. SoloInv'
  BY <1>1 DEF MsgInv, SoloInv, Busy
<1>6. DeliveredToParticipants' /\ AckImpliesStored'
  BY <1>1, <1>2, PromisesStay
<1>7. MsgTypeOK'
  <2>1. {d.author, d.receiver} \subseteq User
    BY MessagingAssumption
  <2> QED
    BY <1>1, <2>1 DEF MsgInv, MsgTypeOK
<1> QED
  BY <1>2, <1>3, <1>4, <1>5, <1>6, <1>7 DEF MsgInv

LEMMA RestartStep ==
  ASSUME MsgInv, ConnTypeOK', Restart
  PROVE  MsgInv'
<1>1. /\ UNCHANGED dbVars /\ UNCHANGED <<delivered, acked, failed>>
      /\ \A t \in Task : task'[t] = Idle
      /\ task' \in [Task -> TaskState]
  BY DEF Restart, historyVars, TaskState, Idle
<1>2. Grows /\ StorageInv'
  BY <1>1, TablesStay
<1>3. TasksInv' /\ SoloInv'
  BY <1>1 DEF TasksInv, SoloInv, Busy, Idle
<1>4. DeliveredToParticipants' /\ AckImpliesStored'
  BY <1>1, <1>2, PromisesStay
<1>5. MsgTypeOK'
  BY <1>1, TablesStay DEF MsgInv, MsgTypeOK, dbVars
<1> QED
  BY <1>2, <1>3, <1>4, <1>5 DEF MsgInv

LEMMA MsgInvStep ==
  MsgInv /\ ConnInv /\ ConnInv' /\ [MsgNext]_vars => MsgInv'
<1> SUFFICES ASSUME MsgInv, RegistryInv, ConnTypeOK', [MsgNext]_vars
             PROVE  MsgInv'
  BY DEF ConnInv
<1>1. ASSUME NEW s \in Socket, NEW t \in Task, NEW d \in Draft, SubmitMessage(s, t, d)
      PROVE  MsgInv'
  BY <1>1, SubmitMessageStep
<1>2. ASSUME NEW s \in Socket, NEW d \in Draft, OverlapMessage(s, d)
      PROVE  MsgInv'
  BY <1>2, UnchangedStep DEF OverlapMessage
<1>3. ASSUME NEW t \in Task, TaskStep(t)
      PROVE  MsgInv'
  BY <1>3, CheckFriendshipStep, CreateNewMessageStep, AddLastSentMessageStep, FailureStep,
     DeliverMessageStep DEF TaskStep
<1>4. ASSUME NEW d \in Draft, Befriend(d.author, d.receiver)
      PROVE  MsgInv'
  BY <1>4, BefriendStep
<1>5. CASE ConnectionStep
  BY <1>5, UnchangedStep DEF ConnectionStep
<1>6. CASE Restart
  BY <1>6, RestartStep
<1>7. CASE UNCHANGED vars
  BY <1>7, UnchangedStep DEF vars
<1> QED
  BY <1>1, <1>2, <1>3, <1>4, <1>5, <1>6, <1>7 DEF MsgNext

LEMMA MsgInvInit == MsgInit => MsgInv
<1> SUFFICES ASSUME MsgInit PROVE MsgInv
  OBVIOUS
<1> USE MessagingAssumption
<1>1. ConnTypeOK
  BY ConnectionsAssumption DEF MsgInit, ConnInit, TokensInit, ConnTypeOK, TokensTypeOK
<1>2. MsgTypeOK
  BY <1>1 DEF MsgInit, MsgTypeOK, TaskState, Idle
<1>3. \A t \in Task : task[t] = Idle /\ ~Busy(t)
  BY DEF MsgInit, Busy, Idle
<1>4. TasksInv /\ SoloInv
  BY <1>3 DEF TasksInv, SoloInv, Idle
<1>5. StorageInv
  BY DEF MsgInit, StorageInv, LastSentValid, Stored
<1>6. DeliveredToParticipants /\ AckImpliesStored
  BY DEF MsgInit, DeliveredToParticipants, AckImpliesStored
<1> QED
  BY <1>2, <1>4, <1>5, <1>6 DEF MsgInv

LEMMA MsgInvariant == MsgSpec => [](MsgInv /\ ConnInv)
<1>1. MsgInv /\ ConnInv /\ ConnInv' /\ [MsgNext]_vars => MsgInv'
  BY MsgInvStep
<1> QED
  BY <1>1, MsgInvInit, ConnInvariant, PTL DEF MsgSpec

(* The variables always have their types.                                    *)
THEOREM MsgTypeCorrect == MsgSpec => []MsgTypeOK
BY MsgInvariant, PTL DEF MsgInv

(* No message is stored twice, over retries, disconnects, restarts and lost  *)
(* answers: two messages of one draft would share a slot.                    *)
THEOREM StoredOnceAlways == MsgSpec => []StoredOnce
<1>1. MsgInv => StoredOnce
  BY DEF MsgInv, StorageInv, StoredOnce, SameSlot, Stored
<1> QED
  BY <1>1, MsgInvariant, PTL

(* The pointer of a chat to its last message is valid, in whatever order the *)
(* handlers of the chat end, and whichever queries fail.                     *)
THEOREM LastSentValidAlways == MsgSpec => []LastSentValid
BY MsgInvariant, PTL DEF MsgInv, StorageInv

(* A user is handed stored messages it wrote or is the receiver of, only.    *)
THEOREM DeliveredToParticipantsAlways == MsgSpec => []DeliveredToParticipants
BY MsgInvariant, PTL DEF MsgInv

(* A success answer is never given before everything is stored.              *)
THEOREM AckImpliesStoredAlways == MsgSpec => []AckImpliesStored
BY MsgInvariant, PTL DEF MsgInv
----------------------------------------------------------------------------
(* The steps                                                                 *)

(* Only the update of a handler moves the pointer of a chat, and the handler *)
(* has a newer message.                                                      *)
THEOREM SoloPointerAdvancesAlways == MsgSpec => SoloPointerAdvances
<1>1. ASSUME MsgInv, [MsgNext]_vars
      PROVE  \A c \in Solo : lastSent'[c] >= lastSent[c]
  <2> SUFFICES ASSUME NEW c \in Solo PROVE lastSent'[c] >= lastSent[c]
    OBVIOUS
  <2>1. c \in Chat /\ lastSent[c] \in Nat
    BY <1>1, MessagingAssumption DEF MsgInv, MsgTypeOK, MsgId, NoMsg
  <2>2. CASE lastSent' = lastSent
    BY <2>1, <2>2
  <2>3. ASSUME NEW t \in Task, task[t].pc = "update",
               UpdateDirectChat(task[t].draft.chat, task[t].msg)
        PROVE  lastSent'[c] >= lastSent[c]
    <3>1. CASE task[t].draft.chat = c
      <4>1. lastSent[c] < task[t].msg
        BY <1>1, <2>3, <3>1 DEF MsgInv, SoloInv
      <4>2. lastSent'[c] = task[t].msg
        BY <1>1, <2>1, <2>3, <3>1 DEF UpdateDirectChat, MsgInv, MsgTypeOK
      <4>3. task[t].msg \in Nat
        BY <1>1, <2>3, MessagingAssumption DEF MsgInv, TasksInv, Working, Busy, MsgId
      <4> QED
        BY <2>1, <4>1, <4>2, <4>3
    <3>2. CASE task[t].draft.chat # c
      BY <1>1, <2>1, <2>3, <3>2 DEF UpdateDirectChat, MsgInv, MsgTypeOK
    <3> QED
      BY <3>1, <3>2
  <2>4. ASSUME NEW t \in Task, TaskStep(t)
        PROVE  \/ lastSent' = lastSent
               \/ task[t].pc = "update" /\ UpdateDirectChat(task[t].draft.chat, task[t].msg)
    BY <2>4 DEF TaskStep, CheckFriendship, FriendshipRefused, CreateNewMessage, CreateFails,
                AddLastSentMessage, UpdateFails, DeliverMessage, InsertMessage, dbVars
  <2>5. (\E t \in Task : TaskStep(t)) \/ lastSent' = lastSent
    BY <1>1 DEF MsgNext, SubmitMessage, OverlapMessage, Befriend, ConnectionStep, Restart,
                vars, msgVars, dbVars
  <2> QED
    BY <2>2, <2>3, <2>4, <2>5
<1> QED
  BY <1>1, MsgInvariant, PTL DEF SoloPointerAdvances, MsgSpec

(* The registry names the open socket of the receiver, which no other has    *)
(* disputed, when the handler reads it: a confirmed message has reached it.  *)
THEOREM AckedReachesOnlineReceiverAlways == MsgSpec => AckedReachesOnlineReceiver
<1> DEFINE Reached ==
      \A t \in Task : DeliverMessage(t) =>
        \A s \in Socket :
          /\ phase[s] = "open"
          /\ SocketUser[s] = task[t].draft.receiver
          /\ s \notin disputed
          => task[t].msg \in delivered'[SocketUser[s]]
<1>1. ConnInv => Reached
  <2> SUFFICES ASSUME ConnInv, NEW t \in Task, DeliverMessage(t), NEW s \in Socket,
                      phase[s] = "open",
                      SocketUser[s] = task[t].draft.receiver,
                      s \notin disputed
               PROVE  task[t].msg \in delivered'[SocketUser[s]]
    OBVIOUS
  <2>1. s # NoSocket /\ SocketUser[s] \in User
    BY ConnectionsAssumption
  <2>2. connectedClients[SocketUser[s]] = s
    BY DEF ConnInv, RegistryInv, OpenIsRegistered
  <2>3. s \in Recipients(t)
    BY <2>1, <2>2 DEF Recipients, GetConnectedClient
  <2> QED
    BY <2>1, <2>3 DEF DeliverMessage
<1>2. ConnInv => [Reached]_vars
  BY <1>1
<1> QED
  BY <1>2, ConnInvariant, PTL DEF AckedReachesOnlineReceiver
----------------------------------------------------------------------------
(* The tokens                                                                *)

(* No step takes back a message, a friendship or the last message of a chat. *)
LEMMA GrowsStep == MsgInv /\ [MsgNext]_vars => Grows
<1> SUFFICES ASSUME MsgInv, [MsgNext]_vars PROVE Grows
  OBVIOUS
<1>1. ASSUME NEW t \in Task, CreateNewMessage(t) \/ CreateFails(t)
      PROVE  Grows
  <2>1. task[t].draft \in Draft
    BY <1>1 DEF CreateNewMessage, CreateFails, MsgInv, TasksInv, Working, Busy
  <2>2. InsertMessage(task[t].draft) \/ UNCHANGED dbVars
    BY <1>1 DEF CreateNewMessage, CreateFails
  <2> QED
    BY <2>1, <2>2, InsertMessageStep, TablesStay DEF MsgInv
<1>2. ASSUME NEW t \in Task, AddLastSentMessage(t) \/ UpdateFails(t)
      PROVE  Grows
  <2>1. task[t].draft \in Draft /\ task[t].draft.chat \in Chat /\ task[t].msg \in MsgId
    BY <1>2, MessagingAssumption
    DEF AddLastSentMessage, UpdateFails, MsgInv, TasksInv, Working, Busy
  <2>2. Stored(task[t].msg) /\ messages[task[t].msg].chat = task[t].draft.chat
    BY <1>2, <2>1, MessagingAssumption
    DEF AddLastSentMessage, UpdateFails, MsgInv, TasksInv, Working, Busy, Stored
  <2>3. UpdateDirectChat(task[t].draft.chat, task[t].msg) \/ UNCHANGED dbVars
    BY <1>2 DEF AddLastSentMessage, UpdateFails
  <2> QED
    BY <2>1, <2>2, <2>3, UpdateDirectChatStep, TablesStay DEF MsgInv
<1>3. ASSUME NEW t \in Task, TaskStep(t)
      PROVE  Grows
  BY <1>1, <1>2, <1>3, TablesStay
  DEF TaskStep, CheckFriendship, FriendshipRefused, DeliverMessage
<1>4. (\E d \in Draft : Befriend(d.author, d.receiver)) => Grows
  BY BefriendStep DEF MsgInv, Befriend, Grows
<1>5. \/ \E t \in Task : TaskStep(t)
      \/ \E d \in Draft : Befriend(d.author, d.receiver)
      \/ UNCHANGED dbVars
  BY DEF MsgNext, SubmitMessage, OverlapMessage, ConnectionStep, Restart, vars, msgVars
<1> QED
  BY <1>3, <1>4, <1>5, TablesStay

(* The reasons TokenAccounted names.                                         *)
Accounted(d) ==
  \/ \E i \in MsgId : messages[i] = d
  \/ \E t \in Task : task[t].draft = d
  \/ d \in failed

(* A handler does not drop its draft without storing it or an error.         *)
LEMMA AccountedStays ==
  ASSUME MsgInv, [MsgNext]_vars, ~Restart, NEW d \in Draft, Accounted(d)
  PROVE  Accounted(d)'
<1>1. ASSUME NEW i \in MsgId, messages[i] = d
      PROVE  Accounted(d)'
  BY <1>1, GrowsStep, MessagingAssumption DEF Grows, Stored, Accounted
<1>2. ASSUME NEW s \in Socket, NEW t \in Task, NEW e \in Draft, SubmitMessage(s, t, e)
      PROVE  Accounted(d)'
  <2>1. /\ task'[t].draft = e /\ ~Busy(t) /\ failed' = failed \ {e}
        /\ \A h \in Task \ {t} : task'[h] = task[h]
    BY <1>2 DEF SubmitMessage, MsgInv, MsgTypeOK
  <2>2. task[t].draft # d
    BY <2>1, MessagingAssumption DEF MsgInv, TasksInv, Idle
  <2>3. ASSUME NEW h \in Task, task[h].draft = d
        PROVE  task'[h].draft = d
    BY <2>1, <2>2, <2>3
  <2> QED
    BY <1>1, <2>1, <2>3 DEF Accounted
<1>3. ASSUME NEW t \in Task, TaskStep(t)
      PROVE  Accounted(d)'
  <2>1. \A h \in Task \ {t} : task'[h] = task[h]
    BY <1>3 DEF TaskStep, CheckFriendship, FriendshipRefused, CreateNewMessage, CreateFails,
                AddLastSentMessage, UpdateFails, DeliverMessage, AnswerError, MsgInv, MsgTypeOK
  <2>2. failed \subseteq failed'
    BY <1>3 DEF TaskStep, CheckFriendship, FriendshipRefused, CreateNewMessage, CreateFails,
                AddLastSentMessage, UpdateFails, DeliverMessage, AnswerError, historyVars
  <2>3. ASSUME task[t].draft = d
        PROVE  Accounted(d)'
    <3>1. task[t] \in TaskState
      BY DEF MsgInv, MsgTypeOK
    <3>2. CASE CheckFriendship(t) \/ CreateNewMessage(t) \/ AddLastSentMessage(t)
      <4>1. task'[t].draft = d
        BY <2>3, <3>1, <3>2
        DEF CheckFriendship, CreateNewMessage, AddLastSentMessage, MsgInv, MsgTypeOK, TaskState
      <4> QED
        BY <4>1 DEF Accounted
    <3>3. CASE AnswerError(t)
      BY <2>3, <3>3 DEF AnswerError, Accounted
    <3>4. CASE DeliverMessage(t)
      <4>1. task[t].msg \in MsgId /\ messages[task[t].msg] = d
        BY <2>3, <3>4 DEF DeliverMessage, MsgInv, TasksInv, Working, Busy
      <4> QED
        BY <1>1, <4>1
    <3> QED
      BY <1>3, <3>2, <3>3, <3>4 DEF TaskStep, FriendshipRefused, CreateFails, UpdateFails
  <2>4. ASSUME NEW h \in Task, task[h].draft = d
        PROVE  Accounted(d)'
    <3>1. CASE h = t
      BY <2>3, <2>4, <3>1
    <3>2. CASE h # t
      BY <2>1, <2>4, <3>2 DEF Accounted
    <3> QED
      BY <3>1, <3>2
  <2> QED
    BY <1>1, <2>2, <2>4 DEF Accounted
<1>4. CASE task' = task /\ failed' = failed
  BY <1>1, <1>4 DEF Accounted
<1> QED
  BY <1>2, <1>3, <1>4
  DEF MsgNext, OverlapMessage, Befriend, ConnectionStep, vars, msgVars, historyVars

(* No step but the token check of a message adds a token.                    *)
LEMMA TokensAdded ==
  ASSUME ConnTypeOK, [MsgNext]_vars, NEW u \in User, NEW k \in uniqueMsgTokens'[u]
  PROVE  \/ k \in uniqueMsgTokens[u]
         \/ \E s \in Socket, t \in Task, d \in Draft :
              SubmitMessage(s, t, d) /\ d.author = u /\ d.token = k
<1> USE DEF ConnTypeOK, TokensTypeOK
<1>1. ASSUME NEW s \in Socket, NEW t \in Task, NEW d \in Draft, SubmitMessage(s, t, d),
             k \notin uniqueMsgTokens[u]
      PROVE  d.author = u /\ d.token = k
  BY <1>1, MessagingAssumption DEF SubmitMessage, IsUniqueToken
<1>2. ASSUME NEW s \in Socket, ForgetClient(s)
      PROVE  k \in uniqueMsgTokens[u]
  BY <1>2 DEF ForgetClient, RemoveAllTokens, tokensVars
<1>3. CASE ConnectionStep
  <2>1. CASE ConnTimerFires
    BY <2>1 DEF ConnTimerFires, TokenTimerFires, RemoveSingleToken
  <2> QED
    BY <1>2, <1>3, <2>1
    DEF ConnectionStep, HandleConnection, RefuseConnection, HandleDisconnect, Close,
        RefusedByMiddleware, tokensVars
<1>4. CASE Restart
  BY <1>4 DEF Restart, RestartServer
<1>5. CASE UNCHANGED uniqueMsgTokens
  BY <1>5
<1>6. ASSUME NEW t \in Task, TaskStep(t)
      PROVE  UNCHANGED uniqueMsgTokens
  BY <1>6 DEF TaskStep, CheckFriendship, FriendshipRefused, CreateNewMessage, CreateFails,
              AddLastSentMessage, UpdateFails, DeliverMessage, connVars, tokensVars
<1>7. ASSUME NEW s \in Socket, NEW d \in Draft, OverlapMessage(s, d)
      PROVE  UNCHANGED uniqueMsgTokens
  BY <1>7 DEF OverlapMessage, OverlappingToken, tokensVars
<1>8. ASSUME NEW d \in Draft, Befriend(d.author, d.receiver)
      PROVE  UNCHANGED uniqueMsgTokens
  BY <1>8 DEF Befriend, connVars, tokensVars
<1>9. CASE UNCHANGED vars
  BY <1>9 DEF vars, connVars, tokensVars
<1> QED
  BY <1>1, <1>3, <1>4, <1>5, <1>6, <1>7, <1>8, <1>9 DEF MsgNext

(* A draft is refused as an overlap only while it is stored, in work, or     *)
(* answered with an error.                                                   *)
THEOREM TokenAccountedAlways == MsgSpec => []TokenAccounted
<1>1. MsgInit => TokenAccounted
  BY DEF MsgInit, ConnInit, TokensInit, TokenAccounted
<1>2. MsgInv /\ ConnInv /\ TokenAccounted /\ [MsgNext]_vars => TokenAccounted'
  <2> SUFFICES ASSUME MsgInv, ConnTypeOK, TokenAccounted, [MsgNext]_vars,
                      NEW u \in User, NEW k \in uniqueMsgTokens'[u]
               PROVE  \E d \in Draft : d.author = u /\ d.token = k /\ Accounted(d)'
    BY DEF ConnInv, TokenAccounted, Accounted
  <2>1. ~Restart
    BY DEF Restart, RestartServer
  <2>2. CASE k \in uniqueMsgTokens[u]
    <3>1. PICK d \in Draft : d.author = u /\ d.token = k /\ Accounted(d)
      BY <2>2 DEF TokenAccounted, Accounted
    <3> QED
      BY <2>1, <3>1, AccountedStays
  <2>3. ASSUME NEW s \in Socket, NEW t \in Task, NEW d \in Draft,
               SubmitMessage(s, t, d), d.author = u, d.token = k
        PROVE  Accounted(d)'
    BY <2>3 DEF SubmitMessage, Accounted, MsgInv, MsgTypeOK
  <2> QED
    BY <2>2, <2>3, TokensAdded
<1> QED
  BY <1>1, <1>2, MsgInvariant, PTL DEF MsgSpec
----------------------------------------------------------------------------
(* The abstract log                                                          *)

(* What ChatLog sees of the handed over messages.                            *)
Inbox == [u \in User |-> {messages[m] : m \in delivered[u]}]

(* A step that keeps the stored messages and hands over nothing leaves the   *)
(* inboxes as they are.                                                      *)
LEMMA InboxStays ==
  ASSUME MsgInv, Grows, delivered' = delivered
  PROVE  Inbox' = Inbox
<1> SUFFICES ASSUME NEW u \in User
             PROVE  {messages'[m] : m \in delivered[u]} = {messages[m] : m \in delivered[u]}
  BY DEF Inbox
<1>1. \A m \in delivered[u] : messages'[m] = messages[m]
  BY DEF MsgInv, MsgTypeOK, DeliveredToParticipants, Grows
<1> QED
  BY <1>1

(* An insert posts the draft.                                                *)
LEMMA InsertPosts ==
  ASSUME MsgInv, NEW d \in Draft, InsertMessage(d), UNCHANGED <<delivered, acked>>
  PROVE  Log!Post(d)
<1>1. /\ Grows /\ nextId \in MsgId /\ messages'[nextId] = d /\ ~Stored(nextId)
      /\ \A i \in MsgId \ {nextId} : messages'[i] = messages[i]
  BY InsertMessageStep DEF MsgInv
<1>2. d # NoDraft
  BY MessagingAssumption
<1>3. StoredDrafts' = StoredDrafts \union {d}
  BY <1>1, <1>2 DEF StoredDrafts, Stored
<1>4. \A e \in StoredDrafts : ~Log!SameSlot(d, e)
  BY DEF StoredDrafts, InsertMessage, SlotFree, SameSlot, Log!SameSlot
<1>5. Inbox' = Inbox
  BY <1>1, InboxStays
<1> QED
  BY <1>3, <1>4, <1>5 DEF Log!Post, Inbox

(* Emitting a message delivers its draft to participants and confirms it.    *)
LEMMA DeliverMessageDelivers ==
  ASSUME MsgInv, RegistryInv, NEW t \in Task, DeliverMessage(t)
  PROVE  \E d \in Draft : \E who \in SUBSET {d.author, d.receiver} : Log!Deliver(d, who)
<1> DEFINE d == task[t].draft
           m == task[t].msg
           who == {u \in User : \E s \in Recipients(t) : SocketUser[s] = u}
<1>1. /\ Busy(t) /\ task[t].pc = "deliver"
      /\ UNCHANGED dbVars /\ acked' = acked \union {d}
      /\ delivered' = [u \in User |-> IF u \in who THEN delivered[u] \union {m}
                                      ELSE delivered[u]]
  BY DEF DeliverMessage, Busy
<1>2. d \in Draft /\ m \in MsgId /\ messages[m] = d /\ d # NoDraft
  BY <1>1, MessagingAssumption DEF MsgInv, TasksInv, Working
<1>3. who \in SUBSET {d.author, d.receiver}
  BY <1>1, RecipientsAreParticipants
<1>4. messages' = messages /\ StoredDrafts' = StoredDrafts /\ d \in StoredDrafts
  BY <1>1, <1>2 DEF dbVars, StoredDrafts, Stored
<1>5. ASSUME NEW u \in User
      PROVE  {messages'[i] : i \in delivered'[u]} =
               IF u \in who THEN {messages[i] : i \in delivered[u]} \union {d}
                            ELSE {messages[i] : i \in delivered[u]}
  <2>1. CASE u \in who
    <3>1. delivered'[u] = delivered[u] \union {m}
      BY <1>1, <2>1
    <3>2. {messages[i] : i \in delivered[u] \union {m}} =
            {messages[i] : i \in delivered[u]} \union {messages[m]}
      OBVIOUS
    <3> QED
      BY <1>2, <1>4, <2>1, <3>1, <3>2
  <2>2. CASE u \notin who
    BY <1>1, <1>4, <2>2
  <2> QED
    BY <2>1, <2>2
<1> HIDE DEF who
<1>6. Inbox' = [u \in User |-> IF u \in who THEN Inbox[u] \union {d} ELSE Inbox[u]]
  BY <1>5 DEF Inbox
<1>7. Log!Deliver(d, who)
  BY <1>1, <1>4, <1>6 DEF Log!Deliver, Inbox
<1>8. \E w \in SUBSET {d.author, d.receiver} : Log!Deliver(d, w)
  BY <1>3, <1>7 DEF Log!Deliver
<1> HIDE DEF d
<1> QED
  BY <1>2, <1>8

(* The handlers, with everything that goes on between their queries, keep    *)
(* the promise of the abstract log.                                          *)
THEOREM MessagingImplementsChatLog == MsgSpec => ImplementsChatLog
<1>1. MsgInit => Log!LogInit
  <2> SUFFICES ASSUME MsgInit PROVE Log!LogInit
    OBVIOUS
  <2>1. StoredDrafts = {}
    BY DEF MsgInit, StoredDrafts, Stored
  <2>2. Inbox = [u \in User |-> {}]
    BY DEF MsgInit, Inbox
  <2> QED
    BY <2>1, <2>2 DEF MsgInit, Log!LogInit, Inbox
<1>2. MsgInv /\ ConnInv /\ [MsgNext]_vars => [Log!LogNext]_(Log!logVars)
  <2> SUFFICES ASSUME MsgInv, RegistryInv, [MsgNext]_vars
               PROVE  Log!LogNext \/ UNCHANGED Log!logVars
    BY DEF ConnInv
  <2>1. ASSUME NEW t \in Task, DeliverMessage(t)
        PROVE  Log!LogNext
    BY <2>1, DeliverMessageDelivers DEF Log!LogNext
  <2>2. ASSUME NEW t \in Task, CreateNewMessage(t) \/ CreateFails(t),
               InsertMessage(task[t].draft)
        PROVE  Log!LogNext
    <3>1. task[t].draft \in Draft
      BY <2>2 DEF CreateNewMessage, CreateFails, MsgInv, TasksInv, Working, Busy
    <3>2. UNCHANGED <<delivered, acked>>
      BY <2>2 DEF CreateNewMessage, CreateFails, AnswerError, historyVars
    <3> QED
      BY <2>2, <3>1, <3>2, InsertPosts DEF Log!LogNext
  <2>3. CASE UNCHANGED <<messages, delivered, acked>>
    <3>1. Inbox' = Inbox /\ StoredDrafts' = StoredDrafts
      BY <2>3 DEF Inbox, StoredDrafts, Stored
    <3> QED
      BY <2>3, <3>1 DEF Log!logVars, Inbox
  <2>4. ASSUME NEW t \in Task, TaskStep(t)
        PROVE  Log!LogNext \/ UNCHANGED <<messages, delivered, acked>>
    BY <2>1, <2>2, <2>4
    DEF TaskStep, CheckFriendship, FriendshipRefused, CreateNewMessage, CreateFails,
        AddLastSentMessage, UpdateFails, UpdateDirectChat, AnswerError, dbVars, historyVars
  <2>5. (\E t \in Task : TaskStep(t)) \/ UNCHANGED <<messages, delivered, acked>>
    BY DEF MsgNext, SubmitMessage, OverlapMessage, Befriend, ConnectionStep, Restart, vars,
           msgVars, dbVars, historyVars
  <2> QED
    BY <2>3, <2>4, <2>5
<1> QED
  BY <1>1, <1>2, MsgInvariant, PTL DEF MsgSpec, ImplementsChatLog, Log!LogSpec

(* What ChatLog says is what it promises, and it takes nothing back: so the  *)
(* refinement carries the promise to the tables, the sockets and the answers.*)
THEOREM ChatLogPromises == Log!LogSpec => []Log!LogPromise /\ Log!LogOnlyGrows
<1>1. Log!LogInit => Log!LogPromise
  BY DEF Log!LogInit, Log!LogPromise, Inbox
<1>2. ASSUME Log!LogPromise, NEW d \in Draft, Log!Post(d)
      PROVE  Log!LogPromise'
  BY <1>2 DEF Log!LogPromise, Log!Post, Log!SameSlot
<1>3. ASSUME Log!LogPromise, NEW d \in Draft, NEW who \in SUBSET {d.author, d.receiver},
             Log!Deliver(d, who)
      PROVE  Log!LogPromise'
  BY <1>3 DEF Log!LogPromise, Log!Deliver, Log!SameSlot
<1>4. ASSUME UNCHANGED Log!logVars, Log!LogPromise
      PROVE  Log!LogPromise'
  BY <1>4 DEF Log!logVars, Log!LogPromise, Log!SameSlot
<1>5. Log!LogPromise /\ [Log!LogNext]_(Log!logVars) => Log!LogPromise'
  BY <1>2, <1>3, <1>4 DEF Log!LogNext
<1> DEFINE grows == /\ StoredDrafts \subseteq StoredDrafts'
                    /\ acked \subseteq acked'
                    /\ \A u \in User : Inbox[u] \subseteq Inbox'[u]
<1>6. [Log!LogNext]_(Log!logVars) => [grows]_(Log!logVars)
  BY DEF Log!LogNext, Log!Post, Log!Deliver, Inbox
<1> QED
  BY <1>1, <1>5, <1>6, PTL DEF Log!LogSpec, Log!LogOnlyGrows, Inbox

----------------------------------------------------------------------------
(* Who is written to                                                         *)

Acquainted == INSTANCE Acquaintances

(* The handlers leave alone who may message whom.                            *)
LEMMA RelatedStaysOrMeets == [MsgNext]_vars => [Acquainted!AcquaintancesNext]_related
<1> SUFFICES ASSUME [MsgNext]_vars
             PROVE  Acquainted!AcquaintancesNext \/ related' = related
  OBVIOUS
<1>1. ASSUME NEW d \in Draft, Befriend(d.author, d.receiver)
      PROVE  Acquainted!AcquaintancesNext
  <2>1. Acquainted!Meet(d.author, d.receiver)
    BY <1>1 DEF Befriend, Acquainted!Meet
  <2>2. d.author \in User /\ d.receiver \in User
    BY MessagingAssumption
  <2> QED
    BY <2>1, <2>2 DEF Acquainted!AcquaintancesNext
<1>2. ASSUME NEW t \in Task, TaskStep(t)
      PROVE  related' = related
  BY <1>2 DEF TaskStep, CheckFriendship, FriendshipRefused, CreateNewMessage, CreateFails,
              InsertMessage, AddLastSentMessage, UpdateFails, UpdateDirectChat,
              DeliverMessage, dbVars
<1>3. \/ \E d \in Draft : Befriend(d.author, d.receiver)
      \/ \E t \in Task : TaskStep(t)
      \/ related' = related
  BY DEF MsgNext, SubmitMessage, OverlapMessage, ConnectionStep, Restart, vars, msgVars, dbVars
<1> QED
  BY <1>1, <1>2, <1>3

(* To the tables of the gateway, friend requests are no more than what       *)
(* Acquaintances says, which FriendRequests implements.                      *)
THEOREM MessagingKeepsAcquaintances == MsgSpec => Acquainted!AcquaintancesSpec
<1>1. MsgInit => Acquainted!AcquaintancesInit
  BY DEF MsgInit, Acquainted!AcquaintancesInit
<1> QED
  BY <1>1, RelatedStaysOrMeets, PTL DEF MsgSpec, Acquainted!AcquaintancesSpec

(* A pair in related is one of two different users.                          *)
NoOneAlone == \A u \in User : {u} \notin related

LEMMA StoredAreRelatedStep ==
  ASSUME MsgInv, [MsgNext]_vars, StoredAreRelated, NoOneAlone, NoOneAlone'
  PROVE  StoredAreRelated'
<1>1. Grows
  BY GrowsStep
<1> SUFFICES ASSUME NEW i \in MsgId, messages'[i] # NoDraft
             PROVE  /\ {messages'[i].author, messages'[i].receiver} \in related'
                    /\ messages'[i].author # messages'[i].receiver
  BY DEF StoredAreRelated, Stored, IsFriend
<1>2. CASE Stored(i)
  BY <1>1, <1>2 DEF StoredAreRelated, IsFriend, Grows
<1>3. ASSUME NEW t \in Task, CreateNewMessage(t) \/ CreateFails(t),
             InsertMessage(task[t].draft), ~Stored(i)
      PROVE  /\ {messages'[i].author, messages'[i].receiver} \in related'
             /\ messages'[i].author # messages'[i].receiver
  <2> DEFINE d == task[t].draft
  <2>1. d \in Draft /\ IsFriend(d.author, d.receiver) /\ d.author \in User
    BY <1>3, MessagingAssumption
    DEF CreateNewMessage, CreateFails, MsgInv, TasksInv, Working, Busy
  <2>2. messages'[i] = d
    <3>1. \A j \in MsgId \ {nextId} : messages'[j] = messages[j]
      BY <1>3, <2>1, InsertMessageStep DEF MsgInv
    <3>2. messages'[nextId] = d
      BY <1>3, <2>1, InsertMessageStep DEF MsgInv
    <3> QED
      BY <1>3, <3>1, <3>2 DEF Stored
  <2>3. d.author # d.receiver
    BY <2>1 DEF NoOneAlone, IsFriend
  <2> QED
    BY <1>1, <2>1, <2>2, <2>3 DEF IsFriend, Grows
<1>4. ASSUME NEW t \in Task, TaskStep(t), messages' # messages
      PROVE  (CreateNewMessage(t) \/ CreateFails(t)) /\ InsertMessage(task[t].draft)
  BY <1>4 DEF TaskStep, CheckFriendship, FriendshipRefused, CreateNewMessage, CreateFails,
              AddLastSentMessage, UpdateFails, UpdateDirectChat, DeliverMessage, dbVars
<1>5. (\E t \in Task : TaskStep(t)) \/ messages' = messages
  BY DEF MsgNext, SubmitMessage, OverlapMessage, Befriend, ConnectionStep, Restart, vars,
         msgVars, dbVars
<1> QED
  BY <1>2, <1>3, <1>4, <1>5 DEF Stored

(* isFriend is asked before the insert is started, and nothing takes back    *)
(* what it has accepted: a message is only ever stored between two different *)
(* users who have a friend request.                                          *)
THEOREM StoredAreRelatedAlways == MsgSpec => []StoredAreRelated
<1>1. MsgInit => StoredAreRelated /\ NoOneAlone
  BY DEF MsgInit, StoredAreRelated, Stored, NoOneAlone
<1>2. NoOneAlone /\ [MsgNext]_vars => NoOneAlone'
  <2> SUFFICES ASSUME NoOneAlone, Acquainted!AcquaintancesNext \/ related' = related
               PROVE  NoOneAlone'
    BY RelatedStaysOrMeets
  <2>1. ASSUME NEW u \in User, NEW v \in User, Acquainted!Meet(u, v)
        PROVE  NoOneAlone'
    <3>1. \A x \in User : {x} # {u, v}
      BY <2>1 DEF Acquainted!Meet
    <3> QED
      BY <2>1, <3>1 DEF Acquainted!Meet, NoOneAlone
  <2> QED
    BY <2>1 DEF NoOneAlone, Acquainted!AcquaintancesNext
<1> QED
  BY <1>1, <1>2, StoredAreRelatedStep, MsgInvariant, PTL DEF MsgSpec
=============================================================================
