---------------------------- MODULE Connections ----------------------------
(***************************************************************************)
(* Who is online: the connection hooks of the chat gateway                 *)
(* (src/src/gateway/gateway.ts) over the registry of connected clients     *)
(* (src/src/gateway/socket/socket.service.ts) and the message tokens.      *)
(*                                                                         *)
(* The registry keeps one socket per user.  A connection registers its     *)
(* socket under handshake.auth.clientId, converted to a number; the        *)
(* disconnect hook removes the entry and the tokens of the raw value of    *)
(* handshake.auth.userId, which nothing validates or converts.  Validating *)
(* a handshake awaits nothing but settled promises, so each hook runs as   *)
(* one step of the event loop.  A socket is open from the connection hook  *)
(* to the disconnect hook: its client may have closed it long before the   *)
(* server finds out, and opened others since.                              *)
(***************************************************************************)
EXTENDS MessageTokens

CONSTANTS
  NoUser,
  Socket,           \* every socket of the run; each one connects at most once
  NoSocket,         \* "null" of getConnectedClient
  SocketUser,       \* socket -> its handshake.auth.clientId as a number
  HandshakeUserId   \* socket -> its handshake.auth.userId, if that is the number of
                    \*   a user; NoUser if it is missing, a string or anything else

ASSUME ConnectionsAssumption ==
  /\ NoUser \notin User
  /\ NoSocket \notin Socket
  /\ SocketUser \in [Socket -> User]
  /\ HandshakeUserId \in [Socket -> Leaver \union {NoUser}]

VARIABLES
  phase,             \* socket -> "new", "open" or "closed"
  connectedClients,  \* user -> its registered socket
  disputed           \* history: the open sockets whose user's entry another
                     \*   socket has written or removed since they connected

connVars == <<phase, connectedClients, disputed, tokensVars>>

(* The users whose clients always send their own id, as a number. *)
Identified == {u \in User : \A s \in Socket : SocketUser[s] = u => HandshakeUserId[s] = u}

ConnTypeOK ==
  /\ TokensTypeOK
  /\ phase \in [Socket -> {"new", "open", "closed"}]
  /\ connectedClients \in [User -> Socket \union {NoSocket}]
  /\ disputed \subseteq {s \in Socket : phase[s] = "open"}

ConnInit ==
  /\ TokensInit
  /\ phase = [s \in Socket |-> "new"]
  /\ connectedClients = [u \in User |-> NoSocket]
  /\ disputed = {}

----------------------------------------------------------------------------
(* Mutants (see MessageTokens).                                              *)

(* The disconnect hook drops the tokens but not the registration. *)
ForgetTokensOnly(s) ==
  IF HandshakeUserId[s] # NoUser
  THEN RemoveAllTokens(HandshakeUserId[s]) /\ UNCHANGED connectedClients
  ELSE UNCHANGED <<connectedClients, tokensVars>>

(* The disconnect hook drops the registration but not the tokens. *)
ForgetSocketOnly(s) ==
  IF HandshakeUserId[s] # NoUser
  THEN /\ connectedClients' = [connectedClients EXCEPT ![HandshakeUserId[s]] = NoSocket]
       /\ UNCHANGED tokensVars
  ELSE UNCHANGED <<connectedClients, tokensVars>>

(* The entry disappears from the registry for good. *)
DropEntryForGood(u) ==
  connectedClients' = [v \in User \ {u} |-> connectedClients[v]]

(* A user that is registered already keeps its socket. *)
KeepFirstClient(u, s) ==
  connectedClients' = [connectedClients EXCEPT ![u] = IF @ = NoSocket THEN s ELSE @]

----------------------------------------------------------------------------
(* The registry                                                              *)

AddConnectedClient(u, s) ==
  connectedClients' = [connectedClients EXCEPT ![u] = s]

GetConnectedClient(u) == connectedClients[u]

RemoveConnectedClient(u) ==
  connectedClients' = [connectedClients EXCEPT ![u] = NoSocket]

(* What the disconnect hook does to the memory of the server: a userId that  *)
(* is no user's number is a key that neither map has.                        *)
ForgetClient(s) ==
  IF HandshakeUserId[s] # NoUser
  THEN RemoveConnectedClient(HandshakeUserId[s]) /\ RemoveAllTokens(HandshakeUserId[s])
  ELSE UNCHANGED <<connectedClients, tokensVars>>

----------------------------------------------------------------------------
(* The hooks                                                                 *)

(* History: socket s has acted on the entry of user u. *)
DisputedBy(s, u) == {r \in Socket \ {s} : SocketUser[r] = u /\ phase[r] = "open"}

(* The handshake is valid: the socket is registered, in the place of any     *)
(* other socket of the same user.                                            *)
HandleConnection(s) ==
  /\ phase[s] = "new"
  /\ phase' = [phase EXCEPT ![s] = "open"]
  /\ AddConnectedClient(SocketUser[s], s)
  /\ disputed' = disputed \union DisputedBy(s, SocketUser[s])
  /\ UNCHANGED tokensVars

(* The disconnect hook runs, for a socket that is open or refused. *)
Close(s) ==
  /\ phase' = [phase EXCEPT ![s] = "closed"]
  /\ ForgetClient(s)
  /\ disputed' = (disputed \union DisputedBy(s, HandshakeUserId[s])) \ {s}

(* The handshake is not valid (any messageOffset makes it so): the server    *)
(* disconnects the socket, and that runs the disconnect hook.                *)
RefuseConnection(s) == phase[s] = "new" /\ Close(s)

(* The server learns that the socket is gone. *)
HandleDisconnect(s) == phase[s] = "open" /\ Close(s)

(* The JWT middleware turns the socket away before any hook is bound to it. *)
RefusedByMiddleware(s) ==
  /\ phase[s] = "new"
  /\ phase' = [phase EXCEPT ![s] = "closed"]
  /\ UNCHANGED <<connectedClients, disputed, tokensVars>>

(* The token check of a message that arrives on an accepted socket. *)
SubmitToken(s, t) ==
  /\ phase[s] = "open"
  /\ IsUniqueToken(SocketUser[s], t) \/ OverlappingToken(SocketUser[s], t)
  /\ UNCHANGED <<phase, connectedClients, disputed>>

ConnTimerFires ==
  /\ TokenTimerFires
  /\ UNCHANGED <<phase, connectedClients, disputed>>

(* The process ends and is started again: its memory and sockets are gone. *)
RestartServer ==
  /\ phase' = [s \in Socket |-> IF phase[s] = "open" THEN "closed" ELSE phase[s]]
  /\ connectedClients' = [u \in User |-> NoSocket]
  /\ disputed' = {}
  /\ uniqueMsgTokens' = [u \in User |-> {}]
  /\ tokenTimers' = <<>>

ConnNext ==
  \/ \E s \in Socket :
       \/ HandleConnection(s)
       \/ RefuseConnection(s)
       \/ HandleDisconnect(s)
       \/ RefusedByMiddleware(s)
       \/ \E t \in Token : SubmitToken(s, t)
  \/ ConnTimerFires
  \/ RestartServer

ConnSpec == ConnInit /\ [][ConnNext]_connVars

(* The event loop runs every timer that is due. *)
ConnFairSpec == ConnSpec /\ WF_connVars(ConnTimerFires)

----------------------------------------------------------------------------

(* A message is only ever handed to a socket that has not been disconnected, *)
(* of the user it is for: the registry holds no other, as long as the        *)
(* clients of the user send its id.  The disconnect of any socket of the     *)
(* user clears the entry, whichever socket it names.                         *)
RegisteredIsOpen ==
  \A u \in Identified :
    connectedClients[u] # NoSocket =>
      /\ phase[connectedClients[u]] = "open"
      /\ SocketUser[connectedClients[u]] = u

(* A connected client is unreachable for one reason only: since it connected, *)
(* another socket has connected for the same user, or has been disconnected  *)
(* or refused with the user's id in its handshake.  (This reason is real: the *)
(* hook of a socket that its client closed before it opened the live one may *)
(* run late, and then it takes the entry of the live one away: see           *)
(* DisconnectRemovesTheClient.)                                              *)
OpenIsRegistered ==
  \A s \in Socket :
    phase[s] = "open" /\ s \notin disputed => connectedClients[SocketUser[s]] = s

(* Tokens are kept for connected users only, so the memory they take is      *)
(* bounded by what the connected clients sent, also when stale timers, other *)
(* tabs and refused attempts interfere.                                      *)
TokensOnlyWhileOnline ==
  \A u \in Identified :
    uniqueMsgTokens[u] # {} =>
      \E s \in Socket : phase[s] = "open" /\ SocketUser[s] = u

(* The comment on handleDisconnect: "It removes the client from the          *)
(* connected clients list".  The client that disconnects, and no other.      *)
DisconnectRemovesTheClient ==
  [][\A s \in Socket :
       HandleDisconnect(s) =>
         \A u \in User :
           connectedClients'[u] =
             IF connectedClients[u] = s THEN NoSocket ELSE connectedClients[u]]_connVars
=============================================================================
