------------------------------- MODULE Typing -------------------------------
(***************************************************************************)
(* "... is typing": handleTyping of the chat gateway                       *)
(* (src/src/gateway/gateway.ts) and ConversationTypingManager              *)
(* (src/src/gateway/helpers/conversation-typing.helper.ts), over the       *)
(* registry of Connections.                                                *)
(*                                                                         *)
(* The notice "true" is emitted to the socket that is registered for the   *)
(* receiver, and a timer of the sender is to emit "false" to that same     *)
(* socket.  A sender has one timer, whomever it types to; the timers all   *)
(* run for the same time.  The notice carries no sender, so the client has *)
(* one indicator; which sender put it on is history.                       *)
(***************************************************************************)
EXTENDS Connections

CONSTANTS
  Nobody,
  Focused  \* the users that end typing to one user before they type to another

ASSUME TypingAssumption ==
  /\ Nobody \notin User
  /\ Focused \subseteq User

VARIABLES
  flags,         \* the senders that ConversationTypingManager has an entry of
  typingTimers,  \* the pending timers, the next one to fire first
  indicator      \* socket -> the sender its client shows as typing

typingVars == <<flags, typingTimers, indicator>>
vars == <<connVars, typingVars>>

TypingTypeOK ==
  /\ ConnTypeOK
  /\ flags \subseteq User
  /\ typingTimers \in Seq([sender : flags, socket : Socket])
  /\ indicator \in [Socket -> User \union {Nobody}]
  /\ \A i, j \in DOMAIN typingTimers :
       typingTimers[i].sender = typingTimers[j].sender => i = j

TypingInit ==
  /\ ConnInit
  /\ flags = {}
  /\ typingTimers = <<>>
  /\ indicator = [s \in Socket |-> Nobody]

----------------------------------------------------------------------------

(* An emission reaches the client if the socket is still connected. *)
Emit(s, u) ==
  indicator' = IF phase[s] = "open" THEN [indicator EXCEPT ![s] = u] ELSE indicator

(* clearTimeout: the timer that the entry of the sender names, if it has not *)
(* fired.                                                                    *)
IsPending(u) == u \in flags /\ \E i \in DOMAIN typingTimers : typingTimers[i].sender = u

TimerOf(u) == CHOOSE i \in DOMAIN typingTimers : typingTimers[i].sender = u

ClearTimeout(u) ==
  IF IsPending(u)
  THEN [i \in 1..(Len(typingTimers) - 1) |->
          typingTimers[IF i < TimerOf(u) THEN i ELSE i + 1]]
  ELSE typingTimers

(* Mutant: the old timer keeps running. *)
InitTypingAlone(u, s) ==
  /\ typingTimers' = Append(typingTimers, [sender |-> u, socket |-> s])
  /\ flags' = flags \union {u}

InitTyping(u, s) ==
  /\ typingTimers' = Append(ClearTimeout(u), [sender |-> u, socket |-> s])
  /\ flags' = flags \union {u}

RemoveTyping(u) ==
  /\ typingTimers' = ClearTimeout(u)
  /\ flags' = flags \ {u}

(* The socket has been connected ever since, and its user's entry is its own. *)
Undisputed(s) == phase[s] = "open" /\ s \notin disputed

(* A user in Focused has no indicator on at one user when it sends a notice  *)
(* to another.  (What a client that is gone still shows is nobody's concern, *)
(* nor what one shows that the sender can no longer reach.)                  *)
MayType(u, receiver) ==
  u \in Focused =>
    \A s \in Socket : Undisputed(s) /\ indicator[s] = u => SocketUser[s] = receiver

(* Mutant: the end of typing is not emitted. *)
ForwardStart(s, u, isTyping) ==
  IF isTyping THEN Emit(s, u) /\ InitTyping(u, s) ELSE RemoveTyping(u) /\ UNCHANGED indicator

(* Mutant: the timer is not started. *)
ForwardOnly(s, u, isTyping) ==
  /\ Emit(s, IF isTyping THEN u ELSE Nobody)
  /\ UNCHANGED <<flags, typingTimers>>

(* The notice is passed on to the socket of the receiver. *)
Forward(s, u, isTyping) ==
  IF isTyping
  THEN Emit(s, u) /\ InitTyping(u, s)
  ELSE Emit(s, Nobody) /\ RemoveTyping(u)

HandleTyping(s, receiver, isTyping) ==
  /\ phase[s] = "open"
  /\ MayType(SocketUser[s], receiver)
  /\ IF GetConnectedClient(receiver) = NoSocket
     THEN UNCHANGED typingVars
     ELSE Forward(GetConnectedClient(receiver), SocketUser[s], isTyping)
  /\ UNCHANGED connVars

(* The entry of the sender stays. *)
TypingTimerFires ==
  /\ typingTimers # <<>>
  /\ Emit(Head(typingTimers).socket, Nobody)
  /\ typingTimers' = Tail(typingTimers)
  /\ UNCHANGED <<connVars, flags>>

ConnectionStep ==
  /\ \E s \in Socket : \/ HandleConnection(s)
                       \/ RefuseConnection(s)
                       \/ HandleDisconnect(s)
                       \/ RefusedByMiddleware(s)
  /\ UNCHANGED typingVars

Restart ==
  /\ RestartServer
  /\ flags' = {}
  /\ typingTimers' = <<>>
  /\ UNCHANGED indicator

TypingNext ==
  \/ \E s \in Socket, receiver \in User, isTyping \in BOOLEAN :
       HandleTyping(s, receiver, isTyping)
  \/ TypingTimerFires
  \/ ConnectionStep
  \/ Restart

(* The event loop runs every timer that is due. *)
TypingSpec == TypingInit /\ [][TypingNext]_vars /\ WF_vars(TypingTimerFires)

----------------------------------------------------------------------------

(* The sockets on which an indicator is never left behind: connected ones    *)
(* whose entry no other socket has disputed, lit by a sender who types to    *)
(* one user at a time.  (Another sender's timer is moved to the socket it    *)
(* types to next; and the end of typing is sent to the socket that is        *)
(* registered, which need not be the one that shows the start.)              *)
Tended(s) == Undisputed(s) /\ indicator[s] \in Focused

(* An indicator that is on has a timer of its sender that is to put this     *)
(* very socket's indicator off, however the sender goes offline, the         *)
(* receiver reconnects, and whoever else types.                              *)
IndicatorHasTimer ==
  \A s \in Socket :
    Tended(s) => \E i \in DOMAIN typingTimers :
                   typingTimers[i] = [sender |-> indicator[s], socket |-> s]

(* An indicator only stays on while somebody goes on typing. *)
IndicatorGoesOff ==
  \A s \in Socket :
    <>[]Tended(s) =>
      []<><<\E r \in Socket : HandleTyping(r, SocketUser[s], TRUE)>>_vars
=============================================================================
