--------------------------- MODULE Typing_proofs ---------------------------
(***************************************************************************)
(* Proofs about Typing: type correctness, and that no indicator that is on *)
(* is left without the timer that puts it off.                             *)
(***************************************************************************)
EXTENDS Typing, Connections_proofs

TypingTimer == [sender : User, socket : Socket]

(* A function on 1..n is a sequence of n elements.                           *)
LEMMA FunctionIsSeq ==
  ASSUME NEW S, NEW n \in Nat, NEW f \in [1..n -> S]
  PROVE  /\ f \in Seq(S)
         /\ DOMAIN f = 1..n
  OBVIOUS

(* And back: a sequence is a function on the numbers up to its length.       *)
LEMMA SeqIsFunction ==
  ASSUME NEW S, NEW s \in Seq(S)
  PROVE  /\ Len(s) \in Nat
         /\ DOMAIN s = 1..Len(s)
         /\ s \in [1..Len(s) -> S]
         /\ \A i \in 1..Len(s) : s[i] \in S
  OBVIOUS

(* A sequence is one of whatever set its elements are in.                    *)
LEMMA SeqOfElements ==
  ASSUME NEW S, NEW T, NEW s \in Seq(S), \A i \in 1..Len(s) : s[i] \in T
  PROVE  s \in Seq(T)
<1>1. s \in [1..Len(s) -> S] /\ Len(s) \in Nat
  BY SeqIsFunction
<1>2. s \in [1..Len(s) -> T]
  BY <1>1
<1> QED
  BY <1>1, <1>2, FunctionIsSeq

(* clearTimeout leaves all pending timers but the sender's, in their order.  *)
LEMMA ClearTimeoutLeaves ==
  ASSUME TypingTypeOK, NEW u \in User
  PROVE  /\ ClearTimeout(u) \in Seq([sender : flags \ {u}, socket : Socket])
         /\ \A i, j \in DOMAIN ClearTimeout(u) :
              ClearTimeout(u)[i].sender = ClearTimeout(u)[j].sender => i = j
         /\ \A j \in DOMAIN typingTimers :
              typingTimers[j].sender # u =>
                \E i \in DOMAIN ClearTimeout(u) : ClearTimeout(u)[i] = typingTimers[j]
<1> DEFINE left == ClearTimeout(u)
           n == Len(typingTimers)
           S == [sender : flags \ {u}, socket : Socket]
<1>0. typingTimers \in Seq([sender : flags, socket : Socket])
  BY DEF TypingTypeOK
<1>1. /\ n \in Nat
      /\ DOMAIN typingTimers = 1..n
      /\ \A i \in 1..n : typingTimers[i] \in [sender : flags, socket : Socket]
      /\ \A i, j \in 1..n : typingTimers[i].sender = typingTimers[j].sender => i = j
  <2>1. PICK R : R = [sender : flags, socket : Socket]
    OBVIOUS
  <2>2. typingTimers \in Seq(R)
    BY <1>0, <2>1
  <2>3. n \in Nat /\ DOMAIN typingTimers = 1..n /\ \A i \in 1..n : typingTimers[i] \in R
    BY <2>2, SeqIsFunction
  <2>4. \A i, j \in DOMAIN typingTimers :
          typingTimers[i].sender = typingTimers[j].sender => i = j
    BY DEF TypingTypeOK
  <2> QED
    BY <2>1, <2>3, <2>4
<1>2. CASE ~IsPending(u)
  <2>1. left = typingTimers
    BY <1>2 DEF ClearTimeout
  <2>2. \A i \in 1..n : typingTimers[i].sender # u
    BY <1>1, <1>2 DEF IsPending
  <2>3. \A i \in 1..n : typingTimers[i] \in S
    BY <1>1, <2>2
  <2>4. typingTimers \in Seq(S)
    BY <1>0, <2>3, SeqOfElements
  <2> QED
    BY <1>1, <2>1, <2>4
<1>3. CASE IsPending(u)
  <2>1. PICK t \in 1..n : t = TimerOf(u) /\ typingTimers[t].sender = u
    BY <1>1, <1>3 DEF IsPending, TimerOf
  <2>2. \A i \in 1..n : i # t => typingTimers[i] \in S
    BY <1>1, <2>1
  <2> DEFINE old(i) == IF i < t THEN i ELSE i + 1
  <2>3. left = [i \in 1..(n - 1) |-> typingTimers[old(i)]]
    BY <1>3, <2>1 DEF ClearTimeout
  <2>4. n - 1 \in Nat
    BY <1>1
  <2>5. \A i \in 1..(n - 1) : old(i) \in 1..n /\ old(i) # t
    BY <1>1
  <2>6. left \in [1..(n - 1) -> S]
    BY <2>2, <2>3, <2>5
  <2>7. left \in Seq(S) /\ DOMAIN left = 1..(n - 1)
    BY <2>4, <2>6, FunctionIsSeq
  <2>8. \A i, j \in 1..(n - 1) : old(i) = old(j) => i = j
    BY <1>1
  <2>9. \A i, j \in 1..(n - 1) : left[i].sender = left[j].sender => i = j
    BY <1>1, <2>3, <2>5, <2>8
  <2>10. ASSUME NEW j \in 1..n, typingTimers[j].sender # u
         PROVE  \E i \in 1..(n - 1) : left[i] = typingTimers[j]
    <3>1. j # t
      BY <2>1, <2>10
    <3>2. CASE j < t
      BY <1>1, <2>3, <3>2
    <3>3. CASE j > t
      <4>1. /\ j - 1 \in 1..(n - 1)
            /\ old(j - 1) = j
        BY <1>1, <3>3
      <4> QED
        BY <2>3, <4>1
    <3> QED
      BY <1>1, <3>1, <3>2, <3>3
  <2> QED
    BY <1>1, <2>7, <2>9, <2>10
<1> QED
  BY <1>2, <1>3

(* The same, with the sender's new timer behind the others.                  *)
LEMMA InitTypingLeaves ==
  ASSUME TypingTypeOK, NEW u \in User, NEW r \in Socket, InitTyping(u, r)
  PROVE  /\ typingTimers' \in Seq([sender : flags \union {u}, socket : Socket])
         /\ \A i, j \in DOMAIN typingTimers' :
              typingTimers'[i].sender = typingTimers'[j].sender => i = j
         /\ \A j \in DOMAIN typingTimers :
              typingTimers[j].sender # u =>
                \E i \in DOMAIN typingTimers' : typingTimers'[i] = typingTimers[j]
         /\ \E i \in DOMAIN typingTimers' :
              typingTimers'[i] = [sender |-> u, socket |-> r]
<1> DEFINE S == [sender : flags \union {u}, socket : Socket]
           new == [sender |-> u, socket |-> r]
<1>1. PICK left : left = ClearTimeout(u)
  OBVIOUS
<1>2. /\ left \in Seq([sender : flags \ {u}, socket : Socket])
      /\ \A i, j \in DOMAIN left : left[i].sender = left[j].sender => i = j
      /\ \A j \in DOMAIN typingTimers :
           typingTimers[j].sender # u => \E i \in DOMAIN left : left[i] = typingTimers[j]
  BY <1>1, ClearTimeoutLeaves
<1>3. /\ left \in Seq(S) /\ new \in S
      /\ \A i \in 1..Len(left) : left[i].sender # u
  <2>0. PICK R : R = [sender : flags \ {u}, socket : Socket]
    OBVIOUS
  <2>1. \A i \in 1..Len(left) : left[i] \in R
    BY <1>2, <2>0, SeqIsFunction
  <2>2. \A i \in 1..Len(left) : left[i] \in S /\ left[i].sender # u
    BY <2>0, <2>1
  <2> QED
    BY <1>2, <2>2, SeqOfElements
<1>4. typingTimers' = Append(left, new)
  BY <1>1 DEF InitTyping
<1>5. /\ typingTimers' \in Seq(S)
      /\ DOMAIN typingTimers' = 1..(Len(left) + 1)
      /\ \A i \in DOMAIN left : typingTimers'[i] = left[i]
      /\ typingTimers'[Len(left) + 1] = new
      /\ DOMAIN left = 1..Len(left)
      /\ Len(left) \in Nat
  BY <1>3, <1>4, AppendTimer
<1>6. \A i \in DOMAIN left : left[i].sender # u
  BY <1>3, <1>5
<1>7. \A i, j \in DOMAIN typingTimers' :
        typingTimers'[i].sender = typingTimers'[j].sender => i = j
  BY <1>2, <1>5, <1>6
<1> QED
  BY <1>2, <1>5, <1>7

----------------------------------------------------------------------------
(* The registry under the typing notices                                     *)

(* To the registry every step of Typing is one of its own steps, or none.    *)
LEMMA TypingStepIsConnStep == [TypingNext]_vars => [ConnNext]_connVars
  BY DEF TypingNext, HandleTyping, TypingTimerFires, ConnectionStep, Restart, vars, ConnNext

(* The registry and its hooks under the typing notices are those of          *)
(* Connections, so what is proved of them holds here.                        *)
THEOREM TypingKeepsConnections == TypingSpec => ConnSpec
  BY TypingStepIsConnStep, PTL DEF TypingSpec, TypingInit, ConnSpec

(* What a step of the connection hooks leaves of a socket: none is opened but *)
(* a new one, none becomes new, and an open one that is disputed stays so.   *)
LEMMA PhaseStep ==
  ASSUME ConnTypeOK, NEW s \in Socket, NEW q \in Socket,
         \/ HandleConnection(s)
         \/ RefuseConnection(s)
         \/ HandleDisconnect(s)
         \/ RefusedByMiddleware(s)
  PROVE  /\ phase'[q] = "open" => phase[q] \in {"open", "new"}
         /\ phase'[q] = "new" => phase[q] = "new"
         /\ phase'[q] = "open" /\ q \in disputed => q \in disputed'
  BY DEF ConnTypeOK, HandleConnection, RefuseConnection, HandleDisconnect, Close,
         RefusedByMiddleware

----------------------------------------------------------------------------
(* Type correctness                                                          *)

LEMMA EmitType ==
  ASSUME TypingTypeOK, NEW s \in Socket, NEW u \in User \union {Nobody}, Emit(s, u)
  PROVE  indicator' \in [Socket -> User \union {Nobody}]
  BY DEF Emit, TypingTypeOK

(* A notice keeps the types: the sender has one timer at most.               *)
LEMMA HandleTypingType ==
  ASSUME TypingTypeOK, ConnTypeOK', NEW s \in Socket, NEW receiver \in User,
         NEW isTyping \in BOOLEAN, HandleTyping(s, receiver, isTyping)
  PROVE  TypingTypeOK'
<1>1. PICK u \in User : u = SocketUser[s]
  BY ConnectionsAssumption
<1>2. PICK r : r = connectedClients[receiver]
  OBVIOUS
<1>3. CASE UNCHANGED typingVars
  BY <1>3 DEF typingVars, TypingTypeOK
<1>4. CASE r # NoSocket /\ Forward(r, u, isTyping)
  <2>1. r \in Socket
    BY <1>2, <1>4 DEF TypingTypeOK, ConnTypeOK
  <2>2. CASE isTyping
    <3>1. Emit(r, u) /\ InitTyping(u, r)
      BY <1>4, <2>2 DEF Forward
    <3>2. flags' = flags \union {u} /\ flags' \subseteq User
      BY <3>1 DEF InitTyping, TypingTypeOK
    <3> QED
      BY <2>1, <3>1, <3>2, EmitType, InitTypingLeaves DEF TypingTypeOK
  <2>3. CASE ~isTyping
    <3>1. Emit(r, Nobody) /\ RemoveTyping(u)
      BY <1>4, <2>3 DEF Forward
    <3>2. /\ flags' = flags \ {u}
          /\ flags' \subseteq User
          /\ typingTimers' = ClearTimeout(u)
      BY <3>1 DEF RemoveTyping, TypingTypeOK
    <3> QED
      BY <2>1, <3>1, <3>2, EmitType, ClearTimeoutLeaves DEF TypingTypeOK
  <2> QED
    BY <2>2, <2>3
<1> QED
  BY <1>1, <1>2, <1>3, <1>4 DEF HandleTyping, GetConnectedClient

(* The timer that fires takes no other out of its place.                     *)
LEMMA TypingTimerType ==
  ASSUME TypingTypeOK, ConnTypeOK', TypingTimerFires
  PROVE  TypingTypeOK'
<1>1. /\ typingTimers' \in Seq([sender : flags, socket : Socket])
      /\ Head(typingTimers) \in [sender : flags, socket : Socket]
      /\ Len(typingTimers) \in Nat \ {0}
      /\ DOMAIN typingTimers = 1..Len(typingTimers)
      /\ DOMAIN typingTimers' = 1..(Len(typingTimers) - 1)
      /\ \A i \in DOMAIN typingTimers' : typingTimers'[i] = typingTimers[i + 1]
  BY TailTimer DEF TypingTypeOK, TypingTimerFires
<1>2. PICK s \in Socket : s = Head(typingTimers).socket
  BY <1>1
<1>3. indicator' \in [Socket -> User \union {Nobody}]
  BY <1>2, EmitType DEF TypingTimerFires
<1>4. \A i, j \in DOMAIN typingTimers' :
        typingTimers'[i].sender = typingTimers'[j].sender => i = j
  BY <1>1 DEF TypingTypeOK
<1> QED
  BY <1>1, <1>3, <1>4 DEF TypingTypeOK, TypingTimerFires

LEMMA TypingTypeStep == TypingTypeOK /\ [TypingNext]_vars => TypingTypeOK'
<1> SUFFICES ASSUME TypingTypeOK, [TypingNext]_vars
             PROVE  TypingTypeOK'
  OBVIOUS
<1>1. ConnTypeOK'
  BY TypingStepIsConnStep, ConnTypeStep DEF TypingTypeOK
<1>2. CASE UNCHANGED typingVars
  BY <1>1, <1>2 DEF typingVars, TypingTypeOK
<1>3. CASE Restart
  BY <1>1, <1>3 DEF Restart, TypingTypeOK
<1> QED
  BY <1>1, <1>2, <1>3, HandleTypingType, TypingTimerType
  DEF TypingNext, vars, ConnectionStep

(* The variables always have their types; in particular a sender never has   *)
(* two timers pending.                                                       *)
THEOREM TypingTypeCorrect == TypingSpec => []TypingTypeOK
<1>1. TypingInit => TypingTypeOK
  <2> SUFFICES ASSUME TypingInit PROVE TypingTypeOK
    OBVIOUS
  <2>1. ConnTypeOK
    BY ConnectionsAssumption
    DEF TypingInit, ConnInit, TokensInit, ConnTypeOK, TokensTypeOK
  <2> QED
    BY <2>1 DEF TypingInit, TypingTypeOK
<1> QED
  BY <1>1, TypingTypeStep, PTL DEF TypingSpec

----------------------------------------------------------------------------
(* The timer of an indicator                                                 *)

(* The invariant says of the sockets that are still to come that nothing was *)
(* emitted to them: a client starts with its indicator off.                  *)
NewIsDark == \A s \in Socket : phase[s] = "new" => indicator[s] = Nobody

LEMMA NewIsDarkStep ==
  TypingTypeOK /\ NewIsDark /\ [TypingNext]_vars => NewIsDark'
<1> SUFFICES ASSUME TypingTypeOK, NewIsDark, [TypingNext]_vars, NEW q \in Socket,
                    phase'[q] = "new"
             PROVE  indicator'[q] = Nobody
  BY DEF NewIsDark
<1>1. ASSUME NEW s, NEW u, Emit(s, u), UNCHANGED phase
      PROVE  indicator'[q] = Nobody
  BY <1>1 DEF Emit, NewIsDark, TypingTypeOK
<1>2. ASSUME NEW s \in Socket, NEW receiver \in User, NEW isTyping \in BOOLEAN,
             HandleTyping(s, receiver, isTyping)
      PROVE  indicator'[q] = Nobody
  BY <1>1, <1>2 DEF HandleTyping, Forward, typingVars, connVars, NewIsDark
<1>3. CASE TypingTimerFires
  BY <1>1, <1>3 DEF TypingTimerFires, connVars
<1>4. CASE ConnectionStep
  BY <1>4, PhaseStep DEF ConnectionStep, typingVars, NewIsDark, TypingTypeOK
<1>5. CASE Restart
  BY <1>5 DEF Restart, RestartServer, NewIsDark, TypingTypeOK
<1>6. CASE UNCHANGED vars
  BY <1>6 DEF vars, typingVars, connVars, NewIsDark
<1> QED
  BY <1>2, <1>3, <1>4, <1>5, <1>6 DEF TypingNext

(* A notice of a sender can only take the timer of an indicator away if that *)
(* indicator is the sender's own; a sender who types to one user at a time   *)
(* then sends the notice to that very user, and so to that very socket.      *)
LEMMA HandleTypingKeepsTimers ==
  ASSUME TypingTypeOK, IndicatorHasTimer, OpenIsRegistered,
         NEW s \in Socket, NEW receiver \in User, NEW isTyping \in BOOLEAN,
         HandleTyping(s, receiver, isTyping)
  PROVE  IndicatorHasTimer'
<1>1. PICK u \in User : u = SocketUser[s]
  BY ConnectionsAssumption
<1>2. PICK r : r = connectedClients[receiver]
  OBVIOUS
<1>3. UNCHANGED <<phase, connectedClients, disputed>>
  BY DEF HandleTyping, connVars
<1>4. CASE UNCHANGED typingVars
  BY <1>3, <1>4 DEF typingVars, IndicatorHasTimer, Tended, Undisputed
<1>5. CASE r # NoSocket /\ Forward(r, u, isTyping)
  <2>1. r \in Socket
    BY <1>2, <1>5 DEF TypingTypeOK, ConnTypeOK
  <2> SUFFICES ASSUME NEW q \in Socket, Tended(q)'
               PROVE  \E i \in DOMAIN typingTimers' :
                        typingTimers'[i] = [sender |-> indicator'[q], socket |-> q]
    BY DEF IndicatorHasTimer
  <2>2. /\ phase[q] = "open"
        /\ q \notin disputed
        /\ indicator'[q] \in Focused
    BY <1>3 DEF Tended, Undisputed
  <2>3. CASE q = r
    <3>1. isTyping
      BY <1>5, <2>1, <2>2, <2>3, TypingAssumption DEF Forward, Emit, TypingTypeOK
    <3>2. indicator'[q] = u /\ InitTyping(u, r)
      BY <1>5, <2>1, <2>2, <2>3, <3>1 DEF Forward, Emit, TypingTypeOK
    <3> QED
      BY <2>1, <2>3, <3>2, InitTypingLeaves
  <2>4. CASE q # r
    <3>1. indicator'[q] = indicator[q]
      BY <1>5, <2>4 DEF Forward, Emit, TypingTypeOK
    <3>2. Tended(q)
      BY <2>2, <3>1 DEF Tended, Undisputed
    <3>3. PICK j \in DOMAIN typingTimers :
            typingTimers[j] = [sender |-> indicator[q], socket |-> q]
      BY <3>2 DEF IndicatorHasTimer
    <3>4. indicator[q] # u
      <4> SUFFICES ASSUME indicator[q] = u PROVE FALSE
        OBVIOUS
      <4>1. SocketUser[q] = receiver
        BY <1>1, <2>2, <3>1 DEF HandleTyping, MayType, Undisputed
      <4>2. connectedClients[receiver] = q
        BY <2>2, <4>1 DEF OpenIsRegistered
      <4> QED
        BY <1>2, <2>4, <4>2
    <3>5. typingTimers[j].sender # u
      BY <3>3, <3>4
    <3>6. CASE InitTyping(u, r)
      <4>1. PICK i \in DOMAIN typingTimers' : typingTimers'[i] = typingTimers[j]
        BY <2>1, <3>5, <3>6, InitTypingLeaves
      <4> QED
        BY <3>1, <3>3, <4>1
    <3>7. CASE RemoveTyping(u)
      <4>1. PICK i \in DOMAIN typingTimers' : typingTimers'[i] = typingTimers[j]
        BY <3>5, <3>7, ClearTimeoutLeaves DEF RemoveTyping
      <4> QED
        BY <3>1, <3>3, <4>1
    <3> QED
      BY <1>5, <3>6, <3>7 DEF Forward
  <2> QED
    BY <2>3, <2>4
<1> QED
  BY <1>1, <1>2, <1>4, <1>5 DEF HandleTyping, GetConnectedClient

(* The timer that fires puts the indicator of its own socket off.            *)
LEMMA TypingTimerKeepsTimers ==
  ASSUME TypingTypeOK, IndicatorHasTimer, TypingTimerFires
  PROVE  IndicatorHasTimer'
<1>1. /\ Head(typingTimers) = typingTimers[1]
      /\ Len(typingTimers) \in Nat \ {0}
      /\ DOMAIN typingTimers = 1..Len(typingTimers)
      /\ DOMAIN typingTimers' = 1..(Len(typingTimers) - 1)
      /\ \A i \in DOMAIN typingTimers' : typingTimers'[i] = typingTimers[i + 1]
  BY TailTimer DEF TypingTypeOK, TypingTimerFires
<1> SUFFICES ASSUME NEW q \in Socket, Tended(q)'
             PROVE  \E i \in DOMAIN typingTimers' :
                      typingTimers'[i] = [sender |-> indicator'[q], socket |-> q]
  BY DEF IndicatorHasTimer
<1>2. /\ phase[q] = "open"
      /\ q \notin disputed
      /\ indicator'[q] \in Focused
  BY DEF Tended, Undisputed, TypingTimerFires, connVars
<1>3. q # Head(typingTimers).socket
  BY <1>2, TypingAssumption DEF TypingTimerFires, Emit, TypingTypeOK
<1>4. indicator'[q] = indicator[q]
  BY <1>3 DEF TypingTimerFires, Emit, TypingTypeOK
<1>5. PICK j \in DOMAIN typingTimers :
        typingTimers[j] = [sender |-> indicator[q], socket |-> q]
  BY <1>2, <1>4 DEF IndicatorHasTimer, Tended, Undisputed
<1>6. j # 1
  BY <1>1, <1>3, <1>5
<1>7. j - 1 \in DOMAIN typingTimers' /\ typingTimers'[j - 1] = typingTimers[j]
  BY <1>1, <1>5, <1>6
<1> QED
  BY <1>4, <1>5, <1>7

LEMMA IndicatorStep ==
  /\ TypingTypeOK
  /\ NewIsDark
  /\ OpenIsRegistered
  /\ IndicatorHasTimer
  /\ [TypingNext]_vars
  => IndicatorHasTimer'
<1> SUFFICES ASSUME TypingTypeOK, NewIsDark, OpenIsRegistered, IndicatorHasTimer, [TypingNext]_vars
             PROVE  IndicatorHasTimer'
  OBVIOUS
<1>1. CASE ConnectionStep
  <2> SUFFICES ASSUME NEW q \in Socket, Tended(q)'
               PROVE  \E i \in DOMAIN typingTimers :
                        typingTimers[i] = [sender |-> indicator[q], socket |-> q]
    BY <1>1 DEF IndicatorHasTimer, ConnectionStep, typingVars
  <2>1. phase'[q] = "open" /\ q \notin disputed' /\ indicator[q] \in Focused
    BY <1>1 DEF Tended, Undisputed, ConnectionStep, typingVars
  <2>2. indicator[q] # Nobody
    BY <2>1, TypingAssumption
  <2>3. phase[q] = "open" /\ q \notin disputed
    BY <1>1, <2>1, <2>2, PhaseStep DEF ConnectionStep, NewIsDark, TypingTypeOK
  <2> QED
    BY <2>1, <2>3 DEF IndicatorHasTimer, Tended, Undisputed
<1>2. CASE Restart
  BY <1>2 DEF Restart, RestartServer, IndicatorHasTimer, Tended, Undisputed, TypingTypeOK
<1>3. CASE UNCHANGED vars
  BY <1>3 DEF vars, typingVars, connVars, IndicatorHasTimer, Tended, Undisputed
<1> QED
  BY <1>1, <1>2, <1>3, HandleTypingKeepsTimers, TypingTimerKeepsTimers DEF TypingNext

(* Whoever disconnects, reconnects or types: an indicator that is on at a    *)
(* connected socket, whose entry no other has disputed, has the timer that   *)
(* is to put it off.                                                         *)
THEOREM IndicatorHasTimerAlways == TypingSpec => []IndicatorHasTimer
<1>1. TypingInit => NewIsDark /\ IndicatorHasTimer
  BY TypingAssumption DEF TypingInit, ConnInit, NewIsDark, IndicatorHasTimer, Tended, Undisputed
<1>2. TypingSpec => []OpenIsRegistered
  BY TypingKeepsConnections, OpenIsRegisteredAlways
<1> QED
  BY <1>1, <1>2, NewIsDarkStep, IndicatorStep, TypingTypeCorrect, PTL DEF TypingSpec
=============================================================================
