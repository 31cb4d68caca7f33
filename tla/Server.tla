-------------------------------- MODULE Server --------------------------------
(***************************************************************************)
(* The chat gateway over friend requests as they are: the handlers of      *)
(* FriendRequests write the rows that isFriend reads for those of          *)
(* DirectMessaging.  All of them run in one process, so one restart ends   *)
(* them all; the tables outlive it.                                        *)
(*                                                                         *)
(* To DirectMessaging, related is the pairs of the rows, as far as         *)
(* somebody writes to somebody; a handler there is a Handler here.         *)
(***************************************************************************)
EXTENDS FriendRequests

CONSTANTS
  Token, MaxTimers, Leaver,                              \* see MessageTokens
  Socket, NoSocket, SocketUser, HandshakeUserId,        \* see Connections
  Draft, NoDraft, Chat, Solo, MaxId,                     \* see DirectMessaging
  Handler  \* bound of the model: handlers of messages that run at a time

VARIABLES
  uniqueMsgTokens, tokenTimers, phase, connectedClients, disputed, messages, nextId,
  lastSent, handler, delivered, acked, failed

messagingVars ==
  <<uniqueMsgTokens, tokenTimers, phase, connectedClients, disputed, messages, nextId,
    lastSent, handler, delivered, acked, failed>>

serverVars == <<requestVars, messagingVars>>

(* The pairs of users that isFriend may be asked about, and accepts. *)
MayMessage == {p \in Related : \E d \in Draft : p = {d.author, d.receiver}}

Msg == INSTANCE DirectMessaging WITH
         related <- MayMessage,
         task <- handler,
         Task <- Handler

ServerInit == RequestsInit /\ Msg!MsgInit

(* sendFriendRequest and friendRequestAction. *)
RequestStep ==
  /\ \/ \E t \in Task, u, v \in User : SendFriendRequest(t, u, v)
     \/ \E t \in Task, i \in RequestId, pc \in {"accept", "reject"} : ActOnRequest(t, i, pc)
     \/ \E t \in Task : TaskStep(t)
  /\ UNCHANGED messagingVars

(* The hooks and the message events of the gateway. *)
GatewayStep ==
  /\ UNCHANGED requestVars
  /\ \/ \E s \in Socket, t \in Handler, d \in Draft : Msg!SubmitMessage(s, t, d)
     \/ \E s \in Socket, d \in Draft : Msg!OverlapMessage(s, d)
     \/ \E t \in Handler : Msg!TaskStep(t)
     \/ Msg!ConnectionStep

Restart == RestartServer /\ Msg!Restart

ServerNext == RequestStep \/ GatewayStep \/ Restart

ServerSpec == ServerInit /\ [][ServerNext]_serverVars

----------------------------------------------------------------------------

(* The constants of DirectMessaging and what it extends are as assumed there. *)
GatewayConstants ==
  /\ MaxTimers \in Nat
  /\ Leaver \subseteq User
  /\ NoSocket \notin Socket
  /\ SocketUser \in [Socket -> User]
  /\ NoUser \notin User
  /\ HandshakeUserId \in [Socket -> Leaver \union {NoUser}]
  /\ MaxId \in Nat
  /\ NoDraft \notin Draft
  /\ Solo \subseteq Chat
  /\ \A d \in Draft : /\ d.author \in User
                      /\ d.receiver \in User
                      /\ d.chat \in Chat
                      /\ d.token \in Token

(* Nobody but the author and the receiver is handed a message; these are two *)
(* users, and one of them has sent the other a friend request: isFriend is   *)
(* asked three queries before the message is handed over, while the handlers *)
(* of friend requests write, turn round, reject and fail, and a restart ends *)
(* both.                                                                     *)
ReachedWereAsked ==
  \A u \in User : \A m \in delivered[u] :
    /\ u \in {messages[m].author, messages[m].receiver}
    /\ messages[m].author # messages[m].receiver
    /\ IsFriend(messages[m].author, messages[m].receiver)

(* IS_NOT_FRIEND, "You just can send message to your friend": the receiver   *)
(* who is handed a message is a friend of its author.                        *)
ReceiversAreFriends ==
  \A u \in User : \A m \in delivered[u] :
    u = messages[m].receiver => friends[{messages[m].author, u}] > 0
=============================================================================
