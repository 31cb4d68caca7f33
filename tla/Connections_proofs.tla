------------------------- MODULE Connections_proofs -------------------------
(***************************************************************************)
(* Proofs about MessageTokens and Connections: type correctness; every     *)
(* recorded token has a pending timer; the full duplicate window of a user *)
(* whose tokens no disconnect drops; the registry holds live sockets of    *)
(* their own user only; a connected socket is registered unless another    *)
(* socket has disputed its user's entry; tokens are kept for connected     *)
(* users only.                                                             *)
(***************************************************************************)
EXTENDS Connections, TLAPS

(* What Append does to a sequence, element by element.                       *)
LEMMA AppendTimer ==
  ASSUME NEW S, NEW s \in Seq(S), NEW e \in S
  PROVE  /\ Append(s, e) \in Seq(S)
         /\ DOMAIN Append(s, e) = 1..(Len(s) + 1)
         /\ \A i \in DOMAIN s : Append(s, e)[i] = s[i]
         /\ Append(s, e)[Len(s) + 1] = e
         /\ DOMAIN s = 1..Len(s)
         /\ Len(s) \in Nat
  OBVIOUS

(* What Tail leaves of a non-empty sequence, element by element.             *)
LEMMA TailTimer ==
  ASSUME NEW S, NEW s \in Seq(S), s # <<>>
  PROVE  /\ Tail(s) \in Seq(S)
         /\ Head(s) \in S
         /\ Head(s) = s[1]
         /\ Len(s) \in Nat \ {0}
         /\ DOMAIN s = 1..Len(s)
         /\ DOMAIN Tail(s) = 1..(Len(s) - 1)
         /\ \A i \in DOMAIN Tail(s) : Tail(s)[i] = s[i + 1]
  OBVIOUS

----------------------------------------------------------------------------
(* Type correctness                                                          *)

(* Every step of the manager keeps the types of its variables.               *)
LEMMA TokensTypeStep == TokensTypeOK /\ [TokensNext]_tokensVars => TokensTypeOK'
<1> SUFFICES ASSUME TokensTypeOK, [TokensNext]_tokensVars
             PROVE  TokensTypeOK'
  OBVIOUS
<1> USE DEF TokensTypeOK, TokenTimer
<1>1. ASSUME NEW u \in User, NEW t \in Token, IsUniqueToken(u, t)
      PROVE  TokensTypeOK'
  <2>1. [user |-> u, token |-> t] \in TokenTimer
    OBVIOUS
  <2>2. tokenTimers' \in Seq(TokenTimer)
    BY <1>1, <2>1, AppendTimer DEF IsUniqueToken, CleanTokenAutomatically
  <2>3. QED
    BY <1>1, <2>2 DEF IsUniqueToken
<1>2. ASSUME NEW u \in User, NEW t \in Token, OverlappingToken(u, t)
      PROVE  TokensTypeOK'
  BY <1>2 DEF OverlappingToken, tokensVars
<1>3. ASSUME NEW u \in Leaver, RemoveAllTokens(u)
      PROVE  TokensTypeOK'
  BY <1>3 DEF RemoveAllTokens
<1>4. CASE TokenTimerFires
  <2>1. tokenTimers' \in Seq(TokenTimer)
    BY <1>4, TailTimer DEF TokenTimerFires
  <2>2. QED
    BY <1>4, <2>1 DEF TokenTimerFires, RemoveSingleToken
<1>5. CASE UNCHANGED tokensVars
  BY <1>5 DEF tokensVars
<1>6. QED
  BY <1>1, <1>2, <1>3, <1>4, <1>5 DEF TokensNext

----------------------------------------------------------------------------
(* Every recorded token has a timer                                          *)

(* Accepting a token starts its timer and takes no other away.               *)
LEMMA IsUniqueTokenKeepsTimers ==
  ASSUME TokensTypeOK, RecordedHasTimer,
         NEW u \in User, NEW t \in Token, IsUniqueToken(u, t)
  PROVE  RecordedHasTimer'
<1> DEFINE new == [user |-> u, token |-> t]
<1>1. /\ DOMAIN tokenTimers' = 1..(Len(tokenTimers) + 1)
      /\ \A i \in DOMAIN tokenTimers : tokenTimers'[i] = tokenTimers[i]
      /\ tokenTimers'[Len(tokenTimers) + 1] = new
      /\ DOMAIN tokenTimers = 1..Len(tokenTimers)
      /\ Len(tokenTimers) \in Nat
  <2>1. new \in TokenTimer
    BY DEF TokenTimer
  <2>2. QED
    BY <2>1, AppendTimer DEF TokensTypeOK, IsUniqueToken, CleanTokenAutomatically
<1>2. ASSUME NEW v \in User, NEW w \in uniqueMsgTokens'[v]
      PROVE  HasTimer(v, w)'
  <2>1. CASE v = u /\ w = t
    BY <1>1, <2>1 DEF HasTimer
  <2>2. CASE ~(v = u /\ w = t)
    <3>1. w \in uniqueMsgTokens[v]
      BY <2>2, <1>2 DEF IsUniqueToken, TokensTypeOK
    <3>2. PICK i \in DOMAIN tokenTimers : tokenTimers[i] = [user |-> v, token |-> w]
      BY <3>1 DEF RecordedHasTimer, HasTimer
    <3>3. QED
      BY <1>1, <3>2 DEF HasTimer
  <2>3. QED
    BY <2>1, <2>2
<1>3. QED
  BY <1>2 DEF RecordedHasTimer

(* The timer that fires drops the token it was started for, so every token   *)
(* that is still recorded has a timer in the rest of the queue.              *)
LEMMA TimerKeepsTimers ==
  ASSUME TokensTypeOK, RecordedHasTimer, TokenTimerFires
  PROVE  RecordedHasTimer'
<1>1. /\ Head(tokenTimers) \in TokenTimer
      /\ Head(tokenTimers) = tokenTimers[1]
      /\ Len(tokenTimers) \in Nat \ {0}
      /\ DOMAIN tokenTimers = 1..Len(tokenTimers)
      /\ DOMAIN tokenTimers' = 1..(Len(tokenTimers) - 1)
      /\ \A i \in DOMAIN tokenTimers' : tokenTimers'[i] = tokenTimers[i + 1]
  BY TailTimer DEF TokensTypeOK, TokenTimerFires
<1>2. ASSUME NEW v \in User, NEW w \in uniqueMsgTokens'[v]
      PROVE  HasTimer(v, w)'
  <2>1. /\ w \in uniqueMsgTokens[v]
        /\ tokenTimers[1] # [user |-> v, token |-> w]
    BY <1>1, <1>2 DEF TokensTypeOK, TokenTimer, TokenTimerFires, RemoveSingleToken
  <2>2. PICK i \in DOMAIN tokenTimers : tokenTimers[i] = [user |-> v, token |-> w]
    BY <2>1 DEF RecordedHasTimer, HasTimer
  <2>3. i - 1 \in DOMAIN tokenTimers' /\ tokenTimers'[i - 1] = tokenTimers[i]
    BY <1>1, <2>1, <2>2
  <2>4. QED
    BY <2>2, <2>3 DEF HasTimer
<1>3. QED
  BY <1>2 DEF RecordedHasTimer

(* Dropping all tokens of a user leaves the timers alone.                    *)
LEMMA RemoveAllKeepsTimers ==
  ASSUME TokensTypeOK, RecordedHasTimer, NEW u \in User, RemoveAllTokens(u)
  PROVE  RecordedHasTimer'
  BY DEF TokensTypeOK, RecordedHasTimer, HasTimer, RemoveAllTokens

(* A token that isUniqueToken recorded is never left without a pending       *)
(* timer.                                                                    *)
LEMMA RecordedHasTimerStep ==
  TokensTypeOK /\ RecordedHasTimer /\ [TokensNext]_tokensVars => RecordedHasTimer'
<1> SUFFICES ASSUME TokensTypeOK, RecordedHasTimer, [TokensNext]_tokensVars
             PROVE  RecordedHasTimer'
  OBVIOUS
<1>1. CASE UNCHANGED tokensVars
  BY <1>1 DEF tokensVars, RecordedHasTimer, HasTimer
<1>2. ASSUME NEW u \in User, NEW t \in Token, OverlappingToken(u, t)
      PROVE  RecordedHasTimer'
  BY <1>1, <1>2 DEF OverlappingToken
<1>3. QED
  BY <1>1, <1>2, IsUniqueTokenKeepsTimers, RemoveAllKeepsTimers, TimerKeepsTimers,
     TokensAssumption DEF TokensNext

----------------------------------------------------------------------------
(* The duplicate window                                                      *)

(* While a user stays connected, each of its recorded tokens has exactly the *)
(* one timer of its acceptance, and nothing but that timer drops the token.  *)
LEMMA FullWindowStep ==
  TokensTypeOK /\ FullWindow /\ [TokensNext]_tokensVars => FullWindow'
<1> SUFFICES ASSUME TokensTypeOK, FullWindow, [TokensNext]_tokensVars
             PROVE  FullWindow'
  OBVIOUS
<1>0. /\ \A i \in DOMAIN tokenTimers : tokenTimers[i] \in TokenTimer
      /\ DOMAIN tokenTimers = 1..Len(tokenTimers)
      /\ Len(tokenTimers) \in Nat
  BY DEF TokensTypeOK
<1>1. CASE UNCHANGED tokensVars
  BY <1>1 DEF tokensVars, FullWindow
<1>2. ASSUME NEW u \in User, NEW t \in Token, OverlappingToken(u, t)
      PROVE  FullWindow'
  BY <1>1, <1>2 DEF OverlappingToken
<1>3. ASSUME NEW u \in User, NEW t \in Token, IsUniqueToken(u, t)
      PROVE  FullWindow'
  <2> DEFINE new == [user |-> u, token |-> t]
  <2>1. /\ DOMAIN tokenTimers' = 1..(Len(tokenTimers) + 1)
        /\ \A i \in DOMAIN tokenTimers : tokenTimers'[i] = tokenTimers[i]
        /\ tokenTimers'[Len(tokenTimers) + 1] = new
    <3>1. new \in TokenTimer
      BY DEF TokenTimer
    <3>2. QED
      BY <1>3, <3>1, AppendTimer DEF TokensTypeOK, IsUniqueToken, CleanTokenAutomatically
  <2>2. u \notin Leaver => \A i \in DOMAIN tokenTimers : tokenTimers[i] # new
    BY <1>0, <1>3 DEF FullWindow, IsUniqueToken, TokenTimer
  <2>3. /\ uniqueMsgTokens'[u] = uniqueMsgTokens[u] \union {t}
        /\ \A v \in User \ {u} : uniqueMsgTokens'[v] = uniqueMsgTokens[v]
    BY <1>3 DEF IsUniqueToken, TokensTypeOK
  <2>4. ASSUME NEW i \in DOMAIN tokenTimers', tokenTimers'[i].user \notin Leaver
        PROVE  /\ tokenTimers'[i].token \in uniqueMsgTokens'[tokenTimers'[i].user]
               /\ \A j \in DOMAIN tokenTimers' : tokenTimers'[i] = tokenTimers'[j] => i = j
    <3>1. CASE i \in DOMAIN tokenTimers
      BY <1>0, <2>1, <2>2, <2>3, <2>4, <3>1 DEF FullWindow, TokenTimer
    <3>2. CASE i = Len(tokenTimers) + 1
      BY <1>0, <2>1, <2>2, <2>3, <2>4, <3>2 DEF FullWindow, TokenTimer
    <3>3. QED
      BY <1>0, <2>1, <3>1, <3>2
  <2>5. QED
    BY <2>4 DEF FullWindow
<1>4. ASSUME NEW u \in Leaver, RemoveAllTokens(u)
      PROVE  FullWindow'
  BY <1>0, <1>4 DEF FullWindow, RemoveAllTokens, TokensTypeOK, TokenTimer
<1>5. CASE TokenTimerFires
  <2>1. /\ Head(tokenTimers) \in TokenTimer
        /\ Head(tokenTimers) = tokenTimers[1]
        /\ DOMAIN tokenTimers' = 1..(Len(tokenTimers) - 1)
        /\ \A i \in DOMAIN tokenTimers' : tokenTimers'[i] = tokenTimers[i + 1]
    BY <1>5, TailTimer DEF TokensTypeOK, TokenTimerFires
  <2>2. ASSUME NEW i \in DOMAIN tokenTimers', tokenTimers'[i].user \notin Leaver
        PROVE  /\ tokenTimers'[i].token \in uniqueMsgTokens'[tokenTimers'[i].user]
               /\ \A j \in DOMAIN tokenTimers' : tokenTimers'[i] = tokenTimers'[j] => i = j
    <3>1. /\ i + 1 \in DOMAIN tokenTimers
          /\ 1 \in DOMAIN tokenTimers
          /\ tokenTimers'[i] = tokenTimers[i + 1]
          /\ \A j \in DOMAIN tokenTimers' : j + 1 \in DOMAIN tokenTimers
      BY <1>0, <2>1
    <3>2. tokenTimers[i + 1].token \in uniqueMsgTokens[tokenTimers[i + 1].user]
      BY <2>2, <3>1 DEF FullWindow
    <3>3. tokenTimers[i + 1] # tokenTimers[1]
      <4>1. i + 1 # 1
        BY <2>1
      <4>2. QED
        BY <2>2, <3>1, <4>1 DEF FullWindow
    <3>4. tokenTimers'[i].token \in uniqueMsgTokens'[tokenTimers'[i].user]
      BY <1>0, <1>5, <2>1, <3>1, <3>2, <3>3
      DEF TokenTimerFires, RemoveSingleToken, TokensTypeOK, TokenTimer
    <3>5. ASSUME NEW j \in DOMAIN tokenTimers', tokenTimers'[i] = tokenTimers'[j]
          PROVE  i = j
      <4>1. i + 1 = j + 1
        BY <2>1, <2>2, <3>1, <3>5 DEF FullWindow
      <4>2. QED
        BY <2>1, <4>1
    <3>6. QED
      BY <3>4, <3>5
  <2>3. QED
    BY <2>2 DEF FullWindow
<1>6. QED
  BY <1>1, <1>2, <1>3, <1>4, <1>5 DEF TokensNext

----------------------------------------------------------------------------
(* The types of the gateway                                                  *)

(* The operators on the registry and the tokens keep their types.            *)
LEMMA ForgetClientType ==
  ASSUME ConnTypeOK, NEW s \in Socket, ForgetClient(s)
  PROVE  /\ TokensTypeOK'
         /\ connectedClients' \in [User -> Socket \union {NoSocket}]
  BY ConnectionsAssumption, TokensAssumption
  DEF ConnTypeOK, TokensTypeOK, ForgetClient, RemoveConnectedClient, RemoveAllTokens,
      tokensVars

(* The steps of the token manager keep the types of its variables, whoever   *)
(* takes them.                                                               *)
LEMMA TokenStepTypes ==
  /\ \A u \in User, t \in Token : TokensTypeOK /\ IsUniqueToken(u, t) => TokensTypeOK'
  /\ TokensTypeOK /\ TokenTimerFires => TokensTypeOK'
  BY TokensTypeStep DEF TokensNext

(* Every step of the gateway keeps the types.                                *)
LEMMA ConnTypeStep == ConnTypeOK /\ [ConnNext]_connVars => ConnTypeOK'
<1> SUFFICES ASSUME ConnTypeOK, [ConnNext]_connVars
             PROVE  ConnTypeOK'
  OBVIOUS
<1> USE DEF ConnTypeOK
<1>1. ASSUME NEW s \in Socket, HandleConnection(s)
      PROVE  ConnTypeOK'
  BY <1>1, ConnectionsAssumption
  DEF HandleConnection, AddConnectedClient, DisputedBy, tokensVars, TokensTypeOK
<1>2. ASSUME NEW s \in Socket, Close(s)
      PROVE  ConnTypeOK'
  BY <1>2, ForgetClientType DEF Close, DisputedBy
<1>3. ASSUME NEW s \in Socket, RefuseConnection(s) \/ HandleDisconnect(s)
      PROVE  ConnTypeOK'
  BY <1>2, <1>3 DEF RefuseConnection, HandleDisconnect
<1>4. ASSUME NEW s \in Socket, RefusedByMiddleware(s)
      PROVE  ConnTypeOK'
  BY <1>4 DEF RefusedByMiddleware, tokensVars, TokensTypeOK
<1>5. ASSUME NEW s \in Socket, NEW t \in Token, SubmitToken(s, t)
      PROVE  ConnTypeOK'
  <2>1. SocketUser[s] \in User
    BY ConnectionsAssumption
  <2>2. CASE IsUniqueToken(SocketUser[s], t)
    BY <1>5, <2>1, <2>2, TokenStepTypes DEF SubmitToken
  <2>3. CASE OverlappingToken(SocketUser[s], t)
    BY <1>5, <2>3 DEF SubmitToken, OverlappingToken, tokensVars, TokensTypeOK
  <2>4. QED
    BY <1>5, <2>2, <2>3 DEF SubmitToken
<1>6. CASE ConnTimerFires
  BY <1>6, TokenStepTypes DEF ConnTimerFires
<1>7. CASE RestartServer
  BY <1>7 DEF RestartServer, TokensTypeOK
<1>8. CASE UNCHANGED connVars
  BY <1>8 DEF connVars, tokensVars, TokensTypeOK
<1>9. QED
  BY <1>1, <1>2, <1>3, <1>4, <1>5, <1>6, <1>7, <1>8 DEF ConnNext

(* The variables always have their types.                                    *)
THEOREM ConnTypeCorrect == ConnSpec => []ConnTypeOK
<1>1. ConnInit => ConnTypeOK
  BY ConnectionsAssumption DEF ConnInit, TokensInit, ConnTypeOK, TokensTypeOK
<1>2. QED
  BY <1>1, ConnTypeStep, PTL DEF ConnSpec

----------------------------------------------------------------------------
(* The registry                                                              *)

(* Every entry of the registry is a socket of the user it is filed under.    *)
(* Together with RegisteredIsOpen and OpenIsRegistered this is inductive: a  *)
(* hook that takes an entry away is that of a socket whose handshake names   *)
(* the user, and then it disputes every open socket of that user.            *)
RegistryInv ==
  /\ \A u \in User :
       connectedClients[u] # NoSocket => SocketUser[connectedClients[u]] = u
  /\ RegisteredIsOpen
  /\ OpenIsRegistered

(* The disconnect hook of a socket, open or refused, keeps the invariant.    *)
LEMMA CloseKeepsRegistry ==
  ASSUME ConnTypeOK, RegistryInv, NEW s \in Socket, Close(s)
  PROVE  RegistryInv'
<1> USE ConnectionsAssumption, TokensAssumption DEF ConnTypeOK
<1>1. connectedClients' = IF HandshakeUserId[s] # NoUser
                          THEN [connectedClients EXCEPT ![HandshakeUserId[s]] = NoSocket]
                          ELSE connectedClients
  BY DEF Close, ForgetClient, RemoveConnectedClient
<1>2. \A u \in User : /\ connectedClients'[u] # NoSocket =>
                            /\ connectedClients'[u] = connectedClients[u]
                            /\ u # HandshakeUserId[s]
                      /\ u # HandshakeUserId[s] => connectedClients'[u] = connectedClients[u]
  BY <1>1
<1>3. \A u \in User :
        connectedClients'[u] # NoSocket => SocketUser[connectedClients'[u]] = u
  BY <1>2 DEF RegistryInv
<1>4. RegisteredIsOpen'
  <2> SUFFICES ASSUME NEW u \in Identified, connectedClients'[u] # NoSocket
               PROVE  /\ phase'[connectedClients'[u]] = "open"
                      /\ SocketUser[connectedClients'[u]] = u
    BY DEF RegisteredIsOpen
  <2>1. /\ connectedClients'[u] = connectedClients[u]
        /\ connectedClients[u] \in Socket
        /\ u # HandshakeUserId[s]
    BY <1>2 DEF Identified
  <2>2. /\ phase[connectedClients[u]] = "open"
        /\ SocketUser[connectedClients[u]] = u
    BY <2>1 DEF RegistryInv, RegisteredIsOpen
  <2>3. connectedClients[u] # s
    BY <2>1, <2>2 DEF Identified
  <2>4. QED
    BY <2>1, <2>2, <2>3 DEF Close
<1>5. OpenIsRegistered'
  <2> SUFFICES ASSUME NEW r \in Socket, phase'[r] = "open", r \notin disputed'
               PROVE  connectedClients'[SocketUser[r]] = r
    BY DEF OpenIsRegistered
  <2>1. r # s /\ phase[r] = "open"
    BY DEF Close
  <2>2. r \notin disputed /\ SocketUser[r] # HandshakeUserId[s]
    BY <2>1 DEF Close, DisputedBy
  <2>3. connectedClients[SocketUser[r]] = r
    BY <2>1, <2>2 DEF RegistryInv, OpenIsRegistered
  <2>4. QED
    BY <1>2, <2>2, <2>3
<1>6. QED
  BY <1>3, <1>4, <1>5 DEF RegistryInv

(* The registry holds live sockets of the right user only, and every open    *)
(* socket that no other socket has disputed.                                 *)
LEMMA RegistryInvariant == ConnSpec => []RegistryInv
<1> USE ConnectionsAssumption
<1>1. ConnInit => RegistryInv
  BY DEF ConnInit, RegistryInv, RegisteredIsOpen, OpenIsRegistered, Identified
<1>2. ConnTypeOK /\ RegistryInv /\ [ConnNext]_connVars => RegistryInv'
  <2> SUFFICES ASSUME ConnTypeOK, RegistryInv, [ConnNext]_connVars
               PROVE  RegistryInv'
    OBVIOUS
  <2>1. ASSUME NEW s \in Socket, HandleConnection(s)
        PROVE  RegistryInv'
    <3>1. /\ phase' = [phase EXCEPT ![s] = "open"]
          /\ connectedClients' = [connectedClients EXCEPT ![SocketUser[s]] = s]
          /\ phase[s] = "new"
      BY <2>1 DEF HandleConnection, AddConnectedClient
    <3>2. \A u \in User :
            connectedClients'[u] # NoSocket => SocketUser[connectedClients'[u]] = u
      BY <3>1 DEF ConnTypeOK, RegistryInv
    <3>3. RegisteredIsOpen'
      BY <3>1 DEF ConnTypeOK, RegistryInv, RegisteredIsOpen
    <3>4. OpenIsRegistered'
      <4> SUFFICES ASSUME NEW r \in Socket, phase'[r] = "open", r \notin disputed'
                   PROVE  connectedClients'[SocketUser[r]] = r
        BY DEF OpenIsRegistered
      <4>1. CASE r = s
        BY <3>1, <4>1 DEF ConnTypeOK
      <4>2. CASE r # s
        <5>1. phase[r] = "open"
          BY <3>1, <4>2 DEF ConnTypeOK
        <5>2. r \notin disputed /\ SocketUser[r] # SocketUser[s]
          BY <2>1, <4>2, <5>1 DEF HandleConnection, DisputedBy
        <5>3. QED
          BY <3>1, <5>1, <5>2 DEF ConnTypeOK, RegistryInv, OpenIsRegistered
      <4>3. QED
        BY <4>1, <4>2
    <3>5. QED
      BY <3>2, <3>3, <3>4 DEF RegistryInv
  <2>2. ASSUME NEW s \in Socket, RefuseConnection(s)
        PROVE  RegistryInv'
    BY <2>2, CloseKeepsRegistry DEF RefuseConnection
  <2>3. ASSUME NEW s \in Socket, HandleDisconnect(s)
        PROVE  RegistryInv'
    BY <2>3, CloseKeepsRegistry DEF HandleDisconnect
  <2>4. ASSUME NEW s \in Socket, RefusedByMiddleware(s)
        PROVE  RegistryInv'
    <3>1. \A r \in Socket : /\ phase'[r] = "open" => phase[r] = "open"
                            /\ phase[r] = "open" => phase'[r] = "open"
      BY <2>4 DEF RefusedByMiddleware, ConnTypeOK
    <3>2. connectedClients' = connectedClients /\ disputed' = disputed
      BY <2>4 DEF RefusedByMiddleware
    <3>3. \A u \in User : connectedClients[u] \in Socket \union {NoSocket}
      BY DEF ConnTypeOK
    <3>4. QED
      BY <3>1, <3>2, <3>3 DEF RegistryInv, RegisteredIsOpen, OpenIsRegistered, Identified
  <2>5. ASSUME UNCHANGED <<phase, connectedClients, disputed>>
        PROVE  RegistryInv'
    BY <2>5 DEF RegistryInv, RegisteredIsOpen, OpenIsRegistered
  <2>6. CASE RestartServer
    BY <2>6 DEF RestartServer, RegistryInv, RegisteredIsOpen, OpenIsRegistered, Identified
  <2>7. QED
    BY <2>1, <2>2, <2>3, <2>4, <2>5, <2>6
    DEF ConnNext, SubmitToken, ConnTimerFires, connVars
<1>3. QED
  BY <1>1, <1>2, ConnTypeCorrect, PTL DEF ConnSpec

(* With clients that send their ids, no closed socket and no socket of another  *)
(* user is ever found in the registry.                                       *)
THEOREM RegisteredIsOpenAlways == ConnSpec => []RegisteredIsOpen
  BY RegistryInvariant, PTL DEF RegistryInv

(* The open socket of a user is missing from the registry only if another    *)
(* socket has connected for the user since it connected, or has been         *)
(* disconnected or refused with the user's id in its handshake.              *)
THEOREM OpenIsRegisteredAlways == ConnSpec => []OpenIsRegistered
  BY RegistryInvariant, PTL DEF RegistryInv

----------------------------------------------------------------------------
(* The tokens                                                                *)

(* The disconnect hook closes one socket, and drops the tokens of its user   *)
(* if the handshake names it.                                                *)
LEMMA ClosingKeepsTokens ==
  ASSUME ConnTypeOK, TokensOnlyWhileOnline, NEW s \in Socket,
         Close(s)
  PROVE  TokensOnlyWhileOnline'
<1> USE ConnectionsAssumption, TokensAssumption DEF ConnTypeOK, TokensTypeOK
<1> SUFFICES ASSUME NEW u \in Identified, uniqueMsgTokens'[u] # {}
             PROVE  \E r \in Socket : phase'[r] = "open" /\ SocketUser[r] = u
  BY DEF TokensOnlyWhileOnline
<1>1. uniqueMsgTokens[u] # {} /\ SocketUser[s] # u
  BY DEF Close, ForgetClient, RemoveAllTokens, tokensVars, Identified
<1>2. PICK r \in Socket : phase[r] = "open" /\ SocketUser[r] = u
  BY <1>1 DEF TokensOnlyWhileOnline
<1>3. QED
  BY <1>1, <1>2 DEF Close

(* The server keeps tokens of users with an open socket only.                *)
THEOREM TokensOnlyWhileOnlineAlways == ConnSpec => []TokensOnlyWhileOnline
<1> USE ConnectionsAssumption
<1>1. ConnInit => TokensOnlyWhileOnline
  BY DEF ConnInit, TokensInit, TokensOnlyWhileOnline, Identified
<1>2. ConnTypeOK /\ TokensOnlyWhileOnline /\ [ConnNext]_connVars => TokensOnlyWhileOnline'
  <2> SUFFICES ASSUME ConnTypeOK, TokensOnlyWhileOnline, [ConnNext]_connVars
               PROVE  TokensOnlyWhileOnline'
    OBVIOUS
  <2>1. ASSUME NEW s \in Socket, HandleConnection(s) \/ RefusedByMiddleware(s)
        PROVE  TokensOnlyWhileOnline'
    <3>1. \A r \in Socket : phase[r] = "open" => phase'[r] = "open"
      BY <2>1 DEF HandleConnection, RefusedByMiddleware, ConnTypeOK
    <3>2. uniqueMsgTokens' = uniqueMsgTokens
      BY <2>1 DEF HandleConnection, RefusedByMiddleware, tokensVars
    <3>3. QED
      BY <3>1, <3>2 DEF TokensOnlyWhileOnline
  <2>2. ASSUME NEW s \in Socket, RefuseConnection(s) \/ HandleDisconnect(s)
        PROVE  TokensOnlyWhileOnline'
    BY <2>2, ClosingKeepsTokens DEF RefuseConnection, HandleDisconnect
  <2>3. ASSUME NEW s \in Socket, NEW t \in Token, SubmitToken(s, t)
        PROVE  TokensOnlyWhileOnline'
    <3>1. phase' = phase /\ phase[s] = "open"
      BY <2>3 DEF SubmitToken
    <3>2. \A u \in User : u # SocketUser[s] => uniqueMsgTokens'[u] = uniqueMsgTokens[u]
      BY <2>3
      DEF SubmitToken, IsUniqueToken, OverlappingToken, tokensVars, ConnTypeOK, TokensTypeOK
    <3>3. QED
      BY <3>1, <3>2 DEF TokensOnlyWhileOnline, Identified
  <2>4. CASE ConnTimerFires
    <3>1. \A u \in User : uniqueMsgTokens'[u] \subseteq uniqueMsgTokens[u]
      BY <2>4 DEF ConnTimerFires, TokenTimerFires, RemoveSingleToken, ConnTypeOK, TokensTypeOK
    <3>2. phase' = phase
      BY <2>4 DEF ConnTimerFires
    <3>3. QED
      BY <3>1, <3>2 DEF TokensOnlyWhileOnline, Identified
  <2>5. CASE RestartServer
    BY <2>5 DEF RestartServer, TokensOnlyWhileOnline, Identified
  <2>6. CASE UNCHANGED connVars
    BY <2>6 DEF connVars, tokensVars, TokensOnlyWhileOnline
  <2>7. QED
    BY <2>1, <2>2, <2>3, <2>4, <2>5, <2>6 DEF ConnNext
<1>3. QED
  BY <1>1, <1>2, ConnTypeCorrect, PTL DEF ConnSpec

----------------------------------------------------------------------------
(* The records of the token manager, while users come and go                 *)

(* All that the gateway does to the tokens the manager does, or a restart.   *)
LEMMA TokensStep ==
  ConnTypeOK /\ [ConnNext]_connVars => [TokensNext]_tokensVars \/ RestartServer
<1> SUFFICES ASSUME ConnTypeOK, [ConnNext]_connVars, ~RestartServer
             PROVE  [TokensNext]_tokensVars
  OBVIOUS
<1>1. ASSUME NEW s \in Socket, ForgetClient(s)
      PROVE  [TokensNext]_tokensVars
  BY <1>1, ConnectionsAssumption DEF ForgetClient, TokensNext, tokensVars
<1>2. ASSUME NEW s \in Socket, NEW t \in Token, SubmitToken(s, t)
      PROVE  [TokensNext]_tokensVars
  <2>1. SocketUser[s] \in User
    BY ConnectionsAssumption
  <2> QED
    BY <1>2, <2>1 DEF SubmitToken, TokensNext
<1> QED
  BY <1>1, <1>2
  DEF ConnNext, connVars, HandleConnection, RefuseConnection, HandleDisconnect, Close,
      RefusedByMiddleware, ConnTimerFires, TokensNext

(* A token that isUniqueToken recorded is never left without a pending       *)
(* timer.                                                                    *)
THEOREM RecordedHasTimerAlways == ConnSpec => []RecordedHasTimer
<1>1. ConnInit => RecordedHasTimer
  BY DEF ConnInit, TokensInit, RecordedHasTimer
<1>2. RestartServer => RecordedHasTimer'
  BY DEF RestartServer, RecordedHasTimer
<1>3. ConnTypeOK => TokensTypeOK
  BY DEF ConnTypeOK
<1> QED
  BY <1>1, <1>2, <1>3, TokensStep, RecordedHasTimerStep, ConnTypeCorrect, PTL DEF ConnSpec

(* A user whose id no handshake carries has, for each of its recorded tokens, exactly *)
(* the one timer of its acceptance, and nothing but that timer drops the     *)
(* token while the server runs.                                              *)
THEOREM FullWindowAlways == ConnSpec => []FullWindow
<1>1. ConnInit => FullWindow
  BY DEF ConnInit, TokensInit, FullWindow
<1>2. RestartServer => FullWindow'
  BY DEF RestartServer, FullWindow
<1>3. ConnTypeOK => TokensTypeOK
  BY DEF ConnTypeOK
<1> QED
  BY <1>1, <1>2, <1>3, TokensStep, FullWindowStep, ConnTypeCorrect, PTL DEF ConnSpec
=============================================================================
