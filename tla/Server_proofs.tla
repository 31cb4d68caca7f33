---------------------------- MODULE Server_proofs ----------------------------
(***************************************************************************)
(* Proofs about FriendRequests and Server.                                 *)
(*                                                                         *)
(* FriendRequests: type correctness; friends were asked; a request keeps   *)
(* its pair, so that who may message whom only grows; and, for users who   *)
(* act one after the other, one request per pair that is accepted exactly  *)
(* if they are friends.                                                    *)
(*                                                                         *)
(* Server: it runs FriendRequests, and it runs DirectMessaging with the    *)
(* rows of the requests for its environment; so what is proved of the two  *)
(* holds of the whole.                                                     *)
(***************************************************************************)
EXTENDS Server, TLAPS


(* What a handler knows at each point.                                       *)
LEMMA TaskKnows ==
  ASSUME NEW x \in TaskState
  PROVE  /\ x.pc # "idle" => x.sender \in User /\ x.recipient \in User
         /\ x.pc \in {"find", "create"} => x.request = NoRequest
         /\ x.pc \in {"revive", "accept", "befriend", "reject"} => x.request \in RequestId
         /\ x.pc \in {"idle", "find", "create", "revive", "accept", "befriend", "reject"}
  BY DEF TaskState, Idle

(* Every step keeps the types.                                               *)
LEMMA RequestsTypeStep ==
  RequestsTypeOK /\ [RequestsNext]_requestVars => RequestsTypeOK'
<1> SUFFICES ASSUME RequestsTypeOK, [RequestsNext]_requestVars
             PROVE  RequestsTypeOK'
  OBVIOUS
<1> USE FriendRequestsAssumption DEF RequestsTypeOK
<1>0. Idle \in TaskState
  BY DEF TaskState
<1>1. ASSUME NEW t \in Task, NEW u \in User, NEW v \in User, SendFriendRequest(t, u, v)
      PROVE  RequestsTypeOK'
  BY <1>1 DEF SendFriendRequest, TaskState, Idle
<1>2. ASSUME NEW t \in Task, NEW i \in RequestId, NEW pc \in {"accept", "reject"},
             ActOnRequest(t, i, pc)
      PROVE  RequestsTypeOK'
  <2>1. requests[i] \in Request
    BY <1>2 DEF ActOnRequest, Row
  <2>2. [pc |-> pc, sender |-> requests[i].sender,
         recipient |-> requests[i].recipient, request |-> i] \in TaskState
    BY <2>1 DEF TaskState, Request
  <2>3. QED
    BY <1>2, <2>2 DEF ActOnRequest
<1>3. ASSUME NEW t \in Task, FindNone(t)
      PROVE  RequestsTypeOK'
  BY <1>3 DEF FindNone, Step, TaskState, Idle
<1>4. ASSUME NEW t \in Task, FindRejected(t)
      PROVE  RequestsTypeOK'
  <2>1. PICK i \in RequestId :
          task' = [task EXCEPT ![t] = [task[t] EXCEPT !.pc = "revive", !.request = i]]
    BY <1>4 DEF FindRejected
  <2>2. task[t] \in [pc : {"find", "create"}, sender : User, recipient : User,
                     request : {NoRequest}]
    BY <1>4 DEF FindRejected, TaskState, Idle
  <2>3. [task[t] EXCEPT !.pc = "revive", !.request = i]
          \in [pc : {"revive", "accept", "befriend", "reject"},
               sender : User, recipient : User, request : RequestId]
    BY <2>2
  <2>4. QED
    BY <1>4, <2>1, <2>3 DEF FindRejected, TaskState
<1>5. ASSUME NEW t \in Task, FindSentBefore(t)
      PROVE  RequestsTypeOK'
  BY <1>0, <1>5 DEF FindSentBefore, Done
<1>6. ASSUME NEW t \in Task, CreateRequest(t)
      PROVE  RequestsTypeOK'
  <2>1. task[t].sender \in User /\ task[t].recipient \in User
    BY <1>6, TaskKnows DEF CreateRequest
  <2>2. nextRequest + 1 \in 1..(MaxRequest + 1)
    BY <1>6 DEF CreateRequest, Create, RequestId
  <2>3. QED
    BY <1>0, <1>6, <2>1, <2>2 DEF CreateRequest, Create, Done, Request, Status
<1>7. ASSUME NEW t \in Task, ReviveRequest(t)
      PROVE  RequestsTypeOK'
  <2>1. task[t].sender \in User /\ task[t].recipient \in User
    BY <1>7, TaskKnows DEF ReviveRequest
  <2>2. QED
    BY <1>0, <1>7, <2>1 DEF ReviveRequest, Update, Done, Request, Status
<1>8. ASSUME NEW i \in RequestId, NEW status \in {"ACCEPTED", "REJECTED"}, SetStatus(i, status)
      PROVE  /\ requests' \in [RequestId -> Request \union {NoRow}]
             /\ nextRequest' \in 1..(MaxRequest + 1)
  <2>1. requests[i] \in Request
    BY <1>8 DEF SetStatus, Row
  <2>2. [requests[i] EXCEPT !.status = status] \in Request
    BY <2>1 DEF Request, Status
  <2>3. requests' = [requests EXCEPT ![i] = [requests[i] EXCEPT !.status = status]]
    BY <1>8 DEF SetStatus, WriteStatus
  <2>4. nextRequest' = nextRequest
    BY <1>8 DEF SetStatus
  <2>5. QED
    BY <2>2, <2>3, <2>4
<1>9. ASSUME NEW t \in Task, AcceptRequest(t)
      PROVE  RequestsTypeOK'
  <2>1. task[t].request \in RequestId
    BY <1>9, TaskKnows DEF AcceptRequest
  <2>2. requests[task[t].request] \in Request
    BY <1>9, <2>1 DEF AcceptRequest, SetStatus, Row
  <2>3. task' \in [Task -> TaskState]
    BY <1>9, <2>1, <2>2 DEF AcceptRequest, TaskState, Request
  <2>4. QED
    BY <1>8, <1>9, <2>1, <2>3 DEF AcceptRequest
<1>10. ASSUME NEW t \in Task, MakeFriends(t)
       PROVE  RequestsTypeOK'
  <2>1. PairOf(task[t]) \in Pair
    BY <1>10, TaskKnows DEF MakeFriends, PairOf, Pair
  <2>2. friends[PairOf(task[t])] + 1 \in 0..MaxFriend
    BY <1>10, <2>1 DEF MakeFriends, CreateFriend
  <2>3. QED
    BY <1>0, <1>10, <2>1, <2>2 DEF MakeFriends, CreateFriend, Done
<1>11. ASSUME NEW t \in Task, RejectRequest(t)
       PROVE  RequestsTypeOK'
  <2>1. task[t].request \in RequestId
    BY <1>11, TaskKnows DEF RejectRequest
  <2>2. QED
    BY <1>0, <1>8, <1>11, <2>1 DEF RejectRequest, Done
<1>12. ASSUME NEW t \in Task, QueryFails(t) \/ AcceptAnswerLost(t)
       PROVE  RequestsTypeOK'
  <2>1. Busy(t)
    BY <1>12 DEF QueryFails, AcceptAnswerLost, Busy
  <2>2. PairOf(task[t]) \in Pair
    BY <2>1, TaskKnows DEF Busy, PairOf, Pair
  <2>3. AcceptAnswerLost(t) => task[t].request \in RequestId
    BY TaskKnows DEF AcceptAnswerLost
  <2>4. QED
    BY <1>0, <1>8, <1>12, <2>2, <2>3 DEF QueryFails, AcceptAnswerLost, Done
<1>13. CASE RestartServer
  <2>1. \A t \in Task : task[t].pc = "befriend" => PairOf(task[t]) \in Pair
    BY TaskKnows DEF PairOf, Pair
  <2>2. QED
    BY <1>0, <1>13, <2>1 DEF RestartServer
<1>14. CASE UNCHANGED requestVars
  BY <1>14 DEF requestVars
<1>15. QED
  BY <1>1, <1>2, <1>3, <1>4, <1>5, <1>6, <1>7, <1>9, <1>10, <1>11, <1>12, <1>13, <1>14
  DEF RequestsNext, TaskStep

(* The variables always have their types.                                    *)
THEOREM RequestsTypeCorrect == RequestsSpec => []RequestsTypeOK
<1>1. RequestsInit => RequestsTypeOK
  BY FriendRequestsAssumption
  DEF RequestsInit, RequestsTypeOK, TaskState, RequestId
<1>2. QED
  BY <1>1, RequestsTypeStep, PTL DEF RequestsSpec

----------------------------------------------------------------------------
(* Friends were asked                                                        *)

(* A handler at work on a request is about the pair of that request, and the *)
(* two users of a request are different.                                     *)
TaskMatches(x, rows) ==
  /\ x.pc \in {"find", "create", "revive"} => x.sender # x.recipient
  /\ x.pc \in {"revive", "accept", "befriend", "reject"} =>
       rows[x.request] # NoRow /\ PairOf(rows[x.request]) = PairOf(x)

FreshIds == \A i \in RequestId : i >= nextRequest => ~Row(i)

RowsOfTwo ==
  \A i \in RequestId : Row(i) => requests[i].sender # requests[i].recipient

TasksMatch == \A t \in Task : TaskMatches(task[t], requests)

(* FriendsWereAsked is not inductive: MakeFriends needs to know that the     *)
(* request of its handler is still there and still of the same pair.         *)
AskedInv == FreshIds /\ RowsOfTwo /\ TasksMatch /\ FriendsWereAsked

(* What every step does to the requests that are there.                      *)
KeepsPairs ==
  \A i \in RequestId : Row(i) => Row(i)' /\ PairOf(requests'[i]) = PairOf(requests[i])

(* What a handler knows stays true while the requests keep their pairs.      *)
LEMMA MatchStays ==
  ASSUME KeepsPairs, NEW x \in TaskState, TaskMatches(x, requests)
  PROVE  TaskMatches(x, requests')
<1>1. x.pc \in {"revive", "accept", "befriend", "reject"} => x.request \in RequestId
  BY TaskKnows
<1>2. QED
  BY <1>1 DEF TaskMatches, KeepsPairs, PairOf, Row

(* An idle handler matches any requests.                                     *)
LEMMA IdleMatches == \A rows : TaskMatches(Idle, rows)
  BY DEF TaskMatches, Idle

(* No friendship is left unasked while the requests keep their pairs.        *)
LEMMA AskedStays ==
  ASSUME KeepsPairs, FriendsWereAsked, friends' = friends
  PROVE  FriendsWereAsked'
  BY DEF KeepsPairs, FriendsWereAsked, IsFriend

(* A step that leaves the requests alone and gives one handler a state that  *)
(* matches them.                                                             *)
LEMMA TaskOnlyStep ==
  ASSUME RequestsTypeOK, AskedInv, NEW t \in Task, NEW x,
         task' = [task EXCEPT ![t] = x],
         TaskMatches(x, requests'),
         UNCHANGED <<requests, nextRequest, friends>>
  PROVE  AskedInv' /\ KeepsPairs
<1>1. KeepsPairs
  BY DEF KeepsPairs, Row
<1>2. FreshIds' /\ RowsOfTwo'
  BY DEF AskedInv, FreshIds, RowsOfTwo, Row
<1>3. TasksMatch'
  BY <1>1, MatchStays DEF AskedInv, TasksMatch, RequestsTypeOK
<1>4. FriendsWereAsked'
  BY <1>1, AskedStays DEF AskedInv
<1>5. QED
  BY <1>1, <1>2, <1>3, <1>4 DEF AskedInv

(* A handler that ends after writing one row of its own pair.                *)
LEMMA RowStep ==
  ASSUME RequestsTypeOK, AskedInv, NEW t \in Task, NEW i \in RequestId, NEW row,
         NEW x \in TaskState,
         requests' = [requests EXCEPT ![i] = row],
         row # NoRow, row.sender # row.recipient,
         Row(i) => PairOf(row) = PairOf(requests[i]),
         task' = [task EXCEPT ![t] = x],
         TaskMatches(x, requests'),
         \/ nextRequest' = nextRequest /\ Row(i)
         \/ nextRequest' = nextRequest + 1 /\ i = nextRequest,
         friends' = friends
  PROVE  AskedInv' /\ KeepsPairs
<1>1. \A j \in RequestId : requests'[j] = IF j = i THEN row ELSE requests[j]
  BY DEF RequestsTypeOK
<1>2. KeepsPairs
  BY <1>1 DEF KeepsPairs, Row
<1>3. FreshIds'
  BY <1>1 DEF AskedInv, FreshIds, Row, RequestId, RequestsTypeOK
<1>4. RowsOfTwo'
  BY <1>1 DEF AskedInv, RowsOfTwo, Row
<1>5. TasksMatch'
  BY <1>2, MatchStays DEF AskedInv, TasksMatch, RequestsTypeOK
<1>6. FriendsWereAsked'
  BY <1>2, AskedStays DEF AskedInv
<1>7. QED
  BY <1>2, <1>3, <1>4, <1>5, <1>6 DEF AskedInv

(* Two users who are both among u and v are u and v.                         *)
LEMMA BothAmong ==
  ASSUME NEW a, NEW b, NEW u, NEW v, a \in {u, v}, b \in {u, v}, a # b
  PROVE  {a, b} = {u, v}
  OBVIOUS

(* A status change leaves the users of the row alone.                        *)
LEMMA StatusKeepsUsers ==
  ASSUME RequestsTypeOK, NEW i \in RequestId, Row(i), NEW status
  PROVE  LET row == [requests[i] EXCEPT !.status = status] IN
         /\ row.sender = requests[i].sender
         /\ row.recipient = requests[i].recipient
         /\ row.status = status
  BY DEF RequestsTypeOK, Request, Row

(* Every step keeps the invariant and the pairs.                             *)
LEMMA AskedStep ==
  RequestsTypeOK /\ RequestsTypeOK' /\ AskedInv /\ [RequestsNext]_requestVars
    => AskedInv' /\ KeepsPairs
<1> SUFFICES ASSUME RequestsTypeOK, RequestsTypeOK', AskedInv, [RequestsNext]_requestVars
             PROVE  AskedInv' /\ KeepsPairs
  OBVIOUS
<1> USE FriendRequestsAssumption
<1>0. Idle \in TaskState
  BY DEF TaskState
<1>1. ASSUME NEW t \in Task, NEW u \in User, NEW v \in User, SendFriendRequest(t, u, v)
      PROVE  AskedInv' /\ KeepsPairs
  <2> DEFINE x == [Idle EXCEPT !.pc = "find", !.sender = u, !.recipient = v]
  <2>1. TaskMatches(x, requests')
    BY <1>1 DEF SendFriendRequest, TaskMatches, Idle
  <2>2. QED
    BY <1>1, <2>1, TaskOnlyStep DEF SendFriendRequest
<1>2. ASSUME NEW t \in Task, NEW i \in RequestId, NEW pc \in {"accept", "reject"},
             ActOnRequest(t, i, pc)
      PROVE  AskedInv' /\ KeepsPairs
  <2> DEFINE x == [pc |-> pc, sender |-> requests[i].sender,
                   recipient |-> requests[i].recipient, request |-> i]
  <2>1. TaskMatches(x, requests')
    BY <1>2 DEF ActOnRequest, TaskMatches, PairOf, Row
  <2>2. QED
    BY <1>2, <2>1, TaskOnlyStep DEF ActOnRequest
<1>3. ASSUME NEW t \in Task, FindNone(t)
      PROVE  AskedInv' /\ KeepsPairs
  <2> DEFINE x == [task[t] EXCEPT !.pc = "create"]
  <2>1. task[t].sender # task[t].recipient
    BY <1>3 DEF FindNone, AskedInv, TasksMatch, TaskMatches
  <2>2. task[t] \in [pc : {"find", "create"}, sender : User, recipient : User,
                     request : {NoRequest}]
    BY <1>3 DEF FindNone, TaskState, Idle, RequestsTypeOK
  <2>3. TaskMatches(x, requests')
    BY <2>1, <2>2 DEF TaskMatches
  <2>4. QED
    BY <1>3, <2>3, TaskOnlyStep DEF FindNone, Step
<1>4. ASSUME NEW t \in Task, FindRejected(t)
      PROVE  AskedInv' /\ KeepsPairs
  <2>1. PICK i \in RequestId :
          /\ SentFriendRequest(i, task[t].sender, task[t].recipient)
          /\ task' = [task EXCEPT ![t] = [task[t] EXCEPT !.pc = "revive", !.request = i]]
    BY <1>4 DEF FindRejected
  <2> DEFINE x == [task[t] EXCEPT !.pc = "revive", !.request = i]
  <2>2. task[t].sender # task[t].recipient
    BY <1>4 DEF FindRejected, AskedInv, TasksMatch, TaskMatches
  <2>3. Row(i) /\ PairOf(requests[i]) = PairOf(task[t])
    BY <2>1, BothAmong DEF SentFriendRequest, AskedInv, RowsOfTwo, PairOf
  <2>4. task[t] \in [pc : {"find", "create"}, sender : User, recipient : User,
                     request : {NoRequest}]
    BY <1>4 DEF FindRejected, TaskState, Idle, RequestsTypeOK
  <2>5. /\ x.sender = task[t].sender /\ x.recipient = task[t].recipient
        /\ x.pc = "revive" /\ x.request = i
    BY <2>4
  <2>6. requests' = requests
    BY <1>4 DEF FindRejected
  <2>7. TaskMatches(x, requests')
    BY <2>2, <2>3, <2>5, <2>6 DEF TaskMatches, PairOf, Row
  <2>8. QED
    BY <1>4, <2>1, <2>7, TaskOnlyStep DEF FindRejected
<1>5. ASSUME NEW t \in Task, FindSentBefore(t) \/ QueryFails(t)
      PROVE  AskedInv' /\ KeepsPairs
  BY <1>5, IdleMatches, TaskOnlyStep DEF FindSentBefore, QueryFails, Done
<1>6. ASSUME NEW t \in Task, CreateRequest(t)
      PROVE  AskedInv' /\ KeepsPairs
  <2> DEFINE row == [sender |-> task[t].sender, recipient |-> task[t].recipient,
                     status |-> "PENDING"]
  <2>1. /\ nextRequest \in RequestId
        /\ requests' = [requests EXCEPT ![nextRequest] = row]
        /\ nextRequest' = nextRequest + 1
        /\ task' = [task EXCEPT ![t] = Idle]
        /\ friends' = friends
    BY <1>6 DEF CreateRequest, Create, Done
  <2>2. ~Row(nextRequest)
    BY <2>1 DEF AskedInv, FreshIds, RequestId
  <2>3. row # NoRow
    BY <1>6, TaskKnows DEF CreateRequest, RequestsTypeOK
  <2>4. row.sender # row.recipient
    BY <1>6 DEF CreateRequest, AskedInv, TasksMatch, TaskMatches
  <2>5. QED
    BY <1>0, <2>1, <2>2, <2>3, <2>4, IdleMatches, RowStep
<1>7. ASSUME NEW t \in Task, ReviveRequest(t)
      PROVE  AskedInv' /\ KeepsPairs
  <2> DEFINE i == task[t].request
             row == [sender |-> task[t].sender, recipient |-> task[t].recipient,
                     status |-> "PENDING"]
  <2>1. i \in RequestId /\ task[t].sender \in User /\ task[t].recipient \in User
    BY <1>7, TaskKnows DEF ReviveRequest, RequestsTypeOK
  <2>2. /\ Row(i) /\ PairOf(requests[i]) = PairOf(task[t])
        /\ task[t].sender # task[t].recipient
    BY <1>7 DEF ReviveRequest, AskedInv, TasksMatch, TaskMatches, Row
  <2>3. /\ requests' = [requests EXCEPT ![i] = row]
        /\ nextRequest' = nextRequest
        /\ task' = [task EXCEPT ![t] = Idle]
        /\ friends' = friends
    BY <1>7 DEF ReviveRequest, Update, Done
  <2>4. row # NoRow /\ row.sender # row.recipient /\ PairOf(row) = PairOf(requests[i])
    BY <2>1, <2>2 DEF PairOf
  <2>5. QED
    BY <1>0, <2>1, <2>2, <2>3, <2>4, IdleMatches, RowStep
<1>8. ASSUME NEW t \in Task, NEW x \in TaskState, NEW status \in {"ACCEPTED", "REJECTED"},
             task[t].pc \in {"accept", "reject"},
             SetStatus(task[t].request, status),
             task' = [task EXCEPT ![t] = x],
             TaskMatches(x, requests'),
             friends' = friends
      PROVE  AskedInv' /\ KeepsPairs
  <2> DEFINE i == task[t].request
             row == [requests[i] EXCEPT !.status = status]
  <2>1. i \in RequestId
    BY <1>8, TaskKnows DEF RequestsTypeOK
  <2>2. Row(i) /\ requests' = [requests EXCEPT ![i] = row] /\ nextRequest' = nextRequest
    BY <1>8 DEF SetStatus, WriteStatus
  <2>3. row.sender = requests[i].sender /\ row.recipient = requests[i].recipient
    BY <2>1, <2>2, StatusKeepsUsers
  <2>4. row # NoRow
    <3>1. row = requests'[i] /\ row \in Request
      BY <2>1, <2>2 DEF RequestsTypeOK, Request, Status, Row
    <3>2. QED
      BY <3>1 DEF Request, Status
  <2>5. row.sender # row.recipient /\ PairOf(row) = PairOf(requests[i])
    BY <2>1, <2>2, <2>3 DEF AskedInv, RowsOfTwo, PairOf
  <2>6. QED
    BY <1>8, <2>1, <2>2, <2>4, <2>5, RowStep
<1>9. ASSUME NEW t \in Task, AcceptRequest(t)
      PROVE  AskedInv' /\ KeepsPairs
  <2> DEFINE i == task[t].request
             x == [pc |-> "befriend", sender |-> requests[i].sender,
                   recipient |-> requests[i].recipient, request |-> i]
  <2>1. i \in RequestId
    BY <1>9, TaskKnows DEF AcceptRequest, RequestsTypeOK
  <2>2. /\ Row(i)
        /\ requests' = [requests EXCEPT ![i] = [requests[i] EXCEPT !.status = "ACCEPTED"]]
        /\ task' = [task EXCEPT ![t] = x]
    BY <1>9 DEF AcceptRequest, SetStatus, WriteStatus
  <2>3. /\ requests'[i].sender = requests[i].sender
        /\ requests'[i].recipient = requests[i].recipient
        /\ requests'[i] \in Request
    BY <2>1, <2>2, StatusKeepsUsers DEF RequestsTypeOK, Request, Status, Row
  <2>4. x \in TaskState
    BY <2>1, <2>2 DEF TaskState, RequestsTypeOK, Request, Row
  <2>5. TaskMatches(x, requests')
    BY <2>3 DEF TaskMatches, PairOf, Row, Request, Status
  <2>6. QED
    BY <1>8, <1>9, <2>2, <2>4, <2>5 DEF AcceptRequest
<1>10. ASSUME NEW t \in Task, RejectRequest(t) \/ AcceptAnswerLost(t)
       PROVE  AskedInv' /\ KeepsPairs
  BY <1>0, <1>8, <1>10, IdleMatches DEF RejectRequest, AcceptAnswerLost, Done
<1>11. ASSUME NEW t \in Task, MakeFriends(t)
       PROVE  AskedInv' /\ KeepsPairs
  <2>1. /\ task[t].request \in RequestId
        /\ Row(task[t].request)
        /\ PairOf(requests[task[t].request]) = PairOf(task[t])
    BY <1>11, TaskKnows
    DEF MakeFriends, AskedInv, TasksMatch, TaskMatches, RequestsTypeOK, Row
  <2>2. KeepsPairs
    BY <1>11 DEF MakeFriends, KeepsPairs, Row
  <2>3. FreshIds' /\ RowsOfTwo'
    BY <1>11 DEF MakeFriends, AskedInv, FreshIds, RowsOfTwo, Row
  <2>4. TasksMatch'
    BY <1>11, <2>2, MatchStays, IdleMatches
    DEF MakeFriends, Done, AskedInv, TasksMatch, RequestsTypeOK
  <2>5. FriendsWereAsked'
    <3> SUFFICES ASSUME NEW u \in User, NEW v \in User, friends'[{u, v}] > 0
                 PROVE  IsFriend(u, v)'
      BY DEF FriendsWereAsked
    <3>1. requests' = requests
      BY <1>11 DEF MakeFriends
    <3>2. CASE {u, v} = PairOf(task[t])
      BY <2>1, <3>1, <3>2 DEF IsFriend, Row
    <3>3. CASE {u, v} # PairOf(task[t])
      <4>1. {u, v} \in Pair
        BY DEF Pair
      <4>2. friends'[{u, v}] = friends[{u, v}]
        BY <1>11, <3>3, <4>1 DEF MakeFriends, CreateFriend, RequestsTypeOK
      <4>3. QED
        BY <3>1, <4>2 DEF AskedInv, FriendsWereAsked, IsFriend, Row
    <3>4. QED
      BY <3>2, <3>3
  <2>6. QED
    BY <2>2, <2>3, <2>4, <2>5 DEF AskedInv
<1>12. CASE RestartServer
  <2>1. KeepsPairs
    BY <1>12 DEF RestartServer, KeepsPairs, Row
  <2>2. FreshIds' /\ RowsOfTwo'
    BY <1>12 DEF RestartServer, AskedInv, FreshIds, RowsOfTwo, Row
  <2>3. TasksMatch'
    BY <1>12, IdleMatches DEF RestartServer, TasksMatch
  <2>4. FriendsWereAsked'
    BY <1>12, <2>1, AskedStays DEF RestartServer, AskedInv
  <2>5. QED
    BY <2>1, <2>2, <2>3, <2>4 DEF AskedInv
<1>13. CASE UNCHANGED requestVars
  BY <1>13
  DEF requestVars, AskedInv, FreshIds, RowsOfTwo, TasksMatch, TaskMatches, FriendsWereAsked,
      IsFriend, KeepsPairs, Row
<1>14. QED
  BY <1>1, <1>2, <1>3, <1>4, <1>5, <1>6, <1>7, <1>9, <1>10, <1>11, <1>12, <1>13
  DEF RequestsNext, TaskStep

(* The invariant holds in every reachable state.                             *)
LEMMA AskedInvariant == RequestsSpec => []AskedInv
<1>1. ASSUME RequestsInit
      PROVE  AskedInv
  <2>1. FreshIds /\ RowsOfTwo
    BY <1>1 DEF RequestsInit, FreshIds, RowsOfTwo, Row
  <2>2. TasksMatch
    BY <1>1, IdleMatches DEF RequestsInit, TasksMatch
  <2>3. \A u, v \in User : friends[{u, v}] = 0
    BY <1>1 DEF RequestsInit, Pair
  <2>4. QED
    BY <2>1, <2>2, <2>3 DEF AskedInv, FriendsWereAsked
<1>2. QED
  BY <1>1, AskedStep, RequestsTypeCorrect, PTL DEF RequestsSpec

(* Nobody becomes a friend without a request between the two.                *)
THEOREM FriendsWereAskedAlways == RequestsSpec => []FriendsWereAsked
  BY AskedInvariant, PTL DEF AskedInv

(* Whatever the handlers do, a request stays a request of the same pair.     *)
THEOREM RequestKeepsPairAlways == RequestsSpec => RequestKeepsPair
<1>1. RequestsTypeOK /\ RequestsTypeOK' /\ AskedInv /\ [RequestsNext]_requestVars
        => [KeepsPairs]_requestVars
  BY AskedStep
<1>2. QED
  BY <1>1, AskedInvariant, RequestsTypeCorrect, PTL
  DEF RequestsSpec, RequestKeepsPair, KeepsPairs

----------------------------------------------------------------------------
(* Who may message whom                                                      *)

(* A step writes one row at most.                                            *)
LEMMA OneRowStep ==
  ASSUME RequestsTypeOK, [RequestsNext]_requestVars
  PROVE  \E i : \A j \in RequestId : j # i => requests'[j] = requests[j]
<1>1. ASSUME UNCHANGED requests
      PROVE  \E i : \A j \in RequestId : j # i => requests'[j] = requests[j]
  BY <1>1
<1>2. ASSUME NEW t \in Task, NEW i, NEW row, requests' = [requests EXCEPT ![i] = row]
      PROVE  \E k : \A j \in RequestId : j # k => requests'[j] = requests[j]
  <2>1. \A j \in RequestId : j # i => requests'[j] = requests[j]
    BY <1>2 DEF RequestsTypeOK
  <2> QED
    BY <2>1
<1>3. ASSUME NEW t \in Task, TaskStep(t)
      PROVE  \E i : \A j \in RequestId : j # i => requests'[j] = requests[j]
  <2>1. CASE CreateRequest(t)
    BY <1>2, <2>1 DEF CreateRequest, Create
  <2>2. CASE ReviveRequest(t)
    BY <1>2, <2>2 DEF ReviveRequest, Update
  <2>3. CASE AcceptRequest(t) \/ RejectRequest(t) \/ AcceptAnswerLost(t)
    BY <1>2, <2>3 DEF AcceptRequest, RejectRequest, AcceptAnswerLost, SetStatus, WriteStatus
  <2>4. CASE FindNone(t) \/ FindRejected(t) \/ FindSentBefore(t) \/ MakeFriends(t)
             \/ QueryFails(t)
    BY <1>1, <2>4 DEF FindNone, FindRejected, FindSentBefore, MakeFriends, QueryFails
  <2> QED
    BY <1>3, <2>1, <2>2, <2>3, <2>4 DEF TaskStep
<1>4. ASSUME NEW t \in Task, NEW u \in User, NEW v \in User, SendFriendRequest(t, u, v)
      PROVE  UNCHANGED requests
  BY <1>4 DEF SendFriendRequest
<1>5. ASSUME NEW t \in Task, NEW i \in RequestId, NEW pc \in {"accept", "reject"},
             ActOnRequest(t, i, pc)
      PROVE  UNCHANGED requests
  BY <1>5 DEF ActOnRequest
<1>6. CASE RestartServer
  BY <1>1, <1>6 DEF RestartServer
<1>7. CASE UNCHANGED requestVars
  BY <1>1, <1>7 DEF requestVars
<1> QED
  BY <1>1, <1>3, <1>4, <1>5, <1>6, <1>7 DEF RequestsNext

(* So it adds the pair of that row, or nothing.                              *)
LEMMA RelatedStep ==
  ASSUME RequestsTypeOK, RequestsTypeOK', AskedInv, AskedInv', KeepsPairs,
         [RequestsNext]_requestVars
  PROVE  [Rest!AcquaintancesNext]_Related
<1>1. PICK i : \A j \in RequestId : j # i => requests'[j] = requests[j]
  BY OneRowStep
<1>2. Related \subseteq Related'
  BY DEF Related, KeepsPairs
<1>3. ASSUME ~(i \in RequestId /\ Row(i)')
      PROVE  Related' = Related
  BY <1>1, <1>2, <1>3 DEF Related, Row
<1>4. ASSUME i \in RequestId, Row(i)'
      PROVE  Rest!AcquaintancesNext
  <2>1. PICK u \in User, v \in User : u = requests'[i].sender /\ v = requests'[i].recipient
    BY <1>4 DEF RequestsTypeOK, Request, Row
  <2>2. u # v /\ PairOf(requests'[i]) = {u, v}
    BY <1>4, <2>1 DEF AskedInv, RowsOfTwo, PairOf
  <2>3. {u, v} \in Related'
    BY <1>4, <2>2 DEF Related
  <2>4. Related' \subseteq Related \union {{u, v}}
    BY <1>1, <2>2 DEF Related, Row
  <2>5. Related' = Related \union {{u, v}}
    BY <1>2, <2>3, <2>4
  <2>6. Rest!Meet(u, v)
    BY <2>2, <2>5 DEF Rest!Meet
  <2> QED
    BY <2>6 DEF Rest!AcquaintancesNext
<1> QED
  BY <1>3, <1>4

(* The handlers, however they race and fail, are to the rest of the server a *)
(* relation that grows by one pair at a time: isFriend never takes back what *)
(* it has accepted.                                                          *)
THEOREM RequestsImplementAcquaintances == RequestsSpec => ImplementsAcquaintances
<1>1. RequestsInit => Rest!AcquaintancesInit
  BY DEF RequestsInit, Rest!AcquaintancesInit, Related, Row
<1>2. /\ RequestsTypeOK /\ RequestsTypeOK' /\ AskedInv /\ AskedInv' /\ [RequestsNext]_requestVars
        => [Rest!AcquaintancesNext]_Related
  BY AskedStep, RelatedStep
<1> QED
  BY <1>1, <1>2, AskedInvariant, RequestsTypeCorrect, PTL
  DEF RequestsSpec, ImplementsAcquaintances, Rest!AcquaintancesSpec

----------------------------------------------------------------------------
(* Pairs of users of whom one acts at a time                                 *)

At(t, p) == Busy(t) /\ PairOf(task[t]) = p
Of(i, p) == Row(i) /\ PairOf(requests[i]) = p

Accepted(p) == \E i \in RequestId : Of(i, p) /\ requests[i].status = "ACCEPTED"
Befriending(p) == \E t \in Task : At(t, p) /\ task[t].pc = "befriend"

(* What the handler of a pair found is still so when it writes.              *)
Current(t, p) ==
  /\ task[t].pc = "create" => \A i \in RequestId : ~Of(i, p)
  /\ task[t].pc = "revive" => requests[task[t].request].status = "REJECTED"
  /\ task[t].pc \in {"accept", "reject"} => requests[task[t].request].status = "PENDING"
  /\ task[t].pc = "befriend" => requests[task[t].request].status = "ACCEPTED"

(* One handler, one request, and the friendship is missing exactly while the *)
(* acceptance is between its two queries.                                    *)
CalmAt(p) ==
  /\ \A t, h \in Task : At(t, p) /\ At(h, p) => t = h
  /\ \A i, j \in RequestId : Of(i, p) /\ Of(j, p) => i = j
  /\ \A t \in Task : At(t, p) => Current(t, p)
  /\ p \notin broken => friends[p] = IF Accepted(p) /\ ~Befriending(p) THEN 1 ELSE 0

CalmInv == \A p \in Calm : CalmAt(p)

(* A step that leaves a pair alone.                                          *)
LEMMA CalmElsewhere ==
  ASSUME NEW p, RequestsTypeOK, AskedInv, CalmAt(p),
         \A i \in RequestId : Of(i, p)' => Of(i, p),
         \A i \in RequestId : Of(i, p) => requests'[i] = requests[i],
         \A t \in Task : At(t, p)' => At(t, p),
         \A t \in Task : At(t, p) => task'[t] = task[t],
         friends'[p] = friends[p],
         p \in broken => p \in broken'
  PROVE  CalmAt(p)'
<1>1. \A i \in RequestId : Of(i, p)' <=> Of(i, p)
  BY DEF Of, Row
<1>2. \A t \in Task : At(t, p)' <=> At(t, p)
  BY DEF At, Busy
<1>3. Accepted(p)' <=> Accepted(p)
  BY <1>1 DEF Accepted
<1>4. Befriending(p)' <=> Befriending(p)
  BY <1>2 DEF Befriending
<1>5. ASSUME NEW t \in Task, At(t, p)
      PROVE  Current(t, p)'
  <2>1. Current(t, p) /\ task'[t] = task[t]
    BY <1>5 DEF CalmAt
  <2>2. task[t].pc \in {"revive", "accept", "befriend", "reject"} =>
          task[t].request \in RequestId /\ Of(task[t].request, p)
    BY <1>5, TaskKnows DEF RequestsTypeOK, AskedInv, TasksMatch, TaskMatches, At, Of, Row
  <2> QED
    BY <1>1, <2>1, <2>2 DEF Current
<1> QED
  BY <1>1, <1>2, <1>3, <1>4, <1>5 DEF CalmAt

(* A step of the one handler of a pair.                                      *)
LEMMA CalmHandler ==
  ASSUME NEW p, NEW t \in Task,
         \A h \in Task \ {t} : ~At(h, p)',
         \A i, j \in RequestId : Of(i, p)' /\ Of(j, p)' => i = j,
         At(t, p)' => Current(t, p)',
         p \notin broken' =>
           friends'[p] = IF Accepted(p)' /\ ~(At(t, p)' /\ task'[t].pc = "befriend") THEN 1 ELSE 0
  PROVE  CalmAt(p)'
<1>1. Befriending(p)' <=> At(t, p)' /\ task'[t].pc = "befriend"
  BY DEF Befriending
<1> QED
  BY <1>1 DEF CalmAt

(* The handler of one pair keeps CalmAt of every other pair: it writes rows  *)
(* of its own pair only.                                                     *)
LEMMA OtherPairs ==
  ASSUME RequestsTypeOK, AskedInv, CalmInv,
         NEW t \in Task, NEW q, NEW x,
         task' = [task EXCEPT ![t] = x],
         At(t, q) \/ ~Busy(t),
         x.pc = "idle" \/ PairOf(x) = q,
         \A i \in RequestId : Of(i, q)' \/ requests'[i] = requests[i],
         KeepsPairs,
         \A p \in Calm : p # q => friends'[p] = friends[p],
         broken \subseteq broken'
  PROVE  \A p \in Calm : p # q => CalmAt(p)'
<1> SUFFICES ASSUME NEW p \in Calm, p # q PROVE CalmAt(p)'
  OBVIOUS
<1>1. \A i \in RequestId : Of(i, p)' => Of(i, p)
  BY DEF Of, Row
<1>2. \A i \in RequestId : Of(i, p) => requests'[i] = requests[i]
  BY DEF Of, KeepsPairs
<1>3. \A h \in Task : h # t => task'[h] = task[h]
  BY DEF RequestsTypeOK
<1>4. ~At(t, p) /\ ~At(t, p)'
  BY DEF At, Busy, RequestsTypeOK
<1>5. \A h \in Task : At(h, p)' => At(h, p)
  BY <1>3, <1>4 DEF At, Busy
<1>6. \A h \in Task : At(h, p) => task'[h] = task[h]
  BY <1>3, <1>4
<1> QED
  BY <1>1, <1>2, <1>5, <1>6, CalmElsewhere DEF CalmInv

(* No other handler is at work for the pair, before the step or after it.    *)
LEMMA Alone ==
  ASSUME RequestsTypeOK, CalmInv, NEW t \in Task, NEW q \in Calm, NEW x,
         task' = [task EXCEPT ![t] = x],
         At(t, q) \/ ~AtWork(q)
  PROVE  /\ \A h \in Task \ {t} : ~At(h, q) /\ ~At(h, q)'
         /\ task'[t] = x
<1>1. \A h \in Task \ {t} : task'[h] = task[h] /\ ~At(h, q)
  BY DEF RequestsTypeOK, CalmInv, CalmAt, AtWork, At
<1> QED
  BY <1>1 DEF At, Busy, RequestsTypeOK

(* A handler that begins, goes on or ends without having written anything.   *)
LEMMA CalmReading ==
  ASSUME RequestsTypeOK, AskedInv, CalmInv, NEW t \in Task, NEW q, NEW x,
         task' = [task EXCEPT ![t] = x],
         At(t, q) \/ (~Busy(t) /\ (q \in Calm => ~AtWork(q))),
         x.pc = "idle" \/ PairOf(x) = q,
         x.pc # "befriend",
         UNCHANGED <<requests, friends>>,
         broken \subseteq broken',
         q \in Calm /\ At(t, q) /\ task[t].pc = "befriend" => q \in broken',
         q \in Calm /\ At(t, q)' => Current(t, q)'
  PROVE  CalmInv'
<1>1. KeepsPairs
  BY DEF KeepsPairs, Row
<1>2. \A p \in Calm : p # q => CalmAt(p)'
  <2>1. /\ At(t, q) \/ ~Busy(t)
        /\ \A i \in RequestId : requests'[i] = requests[i]
        /\ \A p \in Calm : friends'[p] = friends[p]
    OBVIOUS
  <2> QED
    BY <1>1, <2>1, OtherPairs
<1>3. ASSUME q \in Calm PROVE CalmAt(q)'
  <2>1. /\ \A h \in Task \ {t} : ~At(h, q) /\ ~At(h, q)'
        /\ task'[t] = x
    BY <1>3, Alone
  <2>2. \A i \in RequestId : Of(i, q)' <=> Of(i, q)
    BY DEF Of, Row
  <2>3. Accepted(q)' <=> Accepted(q)
    BY <2>2 DEF Accepted
  <2>4. q \notin broken' => ~Befriending(q)
    BY <1>3, <2>1 DEF Befriending, At
  <2>5. CalmAt(q)
    BY <1>3 DEF CalmInv
  <2>6. q \notin broken' => friends'[q] = IF Accepted(q)' THEN 1 ELSE 0
    BY <2>3, <2>4, <2>5 DEF CalmAt
  <2> QED
    BY <1>3, <2>1, <2>2, <2>5, <2>6, CalmHandler DEF CalmAt
<1> QED
  BY <1>2, <1>3 DEF CalmInv

(* A handler that writes a row of its pair, the only one then.               *)
LEMMA CalmWriting ==
  ASSUME RequestsTypeOK, RequestsTypeOK', AskedInv, CalmInv, KeepsPairs,
         NEW t \in Task, NEW q, NEW x, NEW i \in RequestId,
         task' = [task EXCEPT ![t] = x],
         At(t, q),
         x.pc = "idle" \/ (x.pc = "befriend" /\ PairOf(x) = q /\ x.request = i),
         Of(i, q)',
         \A j \in RequestId \ {i} : requests'[j] = requests[j],
         \/ Of(i, q) /\ requests[i].status # "ACCEPTED"
         \/ q \in Calm => \A j \in RequestId : ~Of(j, q),
         task[t].pc # "befriend",
         friends' = friends,
         broken \subseteq broken',
         requests'[i].status = "ACCEPTED" => x.pc = "befriend" \/ q \in broken',
         x.pc = "befriend" => requests'[i].status = "ACCEPTED"
  PROVE  CalmInv'
<1>1. \A p \in Calm : p # q => CalmAt(p)'
  BY OtherPairs
<1>2. ASSUME q \in Calm PROVE CalmAt(q)'
  <2>1. /\ \A h \in Task \ {t} : ~At(h, q) /\ ~At(h, q)'
        /\ task'[t] = x
    BY <1>2, Alone
  <2>2. CalmAt(q)
    BY <1>2 DEF CalmInv
  <2>3. \A j \in RequestId : Of(j, q) => j = i
    BY <1>2, <2>2 DEF CalmAt
  <2>4. \A j \in RequestId : Of(j, q)' => j = i
    BY <2>3 DEF Of, Row
  <2>5. ~Accepted(q) /\ ~Befriending(q)
    BY <1>2, <2>1, <2>3 DEF Accepted, Befriending
  <2>6. q \notin broken' => friends'[q] = 0
    BY <2>2, <2>5 DEF CalmAt
  <2>7. Accepted(q)' <=> requests'[i].status = "ACCEPTED"
    BY <2>4 DEF Accepted
  <2>8. At(t, q)' <=> x.pc = "befriend"
    BY <2>1 DEF At, Busy
  <2>9. At(t, q)' => Current(t, q)'
    BY <2>1, <2>8 DEF Current
  <2>10. \A j, k \in RequestId : Of(j, q)' /\ Of(k, q)' => j = k
    BY <2>4
  <2>11. q \notin broken' =>
           friends'[q] = IF Accepted(q)' /\ ~(At(t, q)' /\ task'[t].pc = "befriend") THEN 1 ELSE 0
    BY <2>1, <2>6, <2>7, <2>8
  <2> QED
    BY <2>1, <2>9, <2>10, <2>11, CalmHandler
<1> QED
  BY <1>1, <1>2 DEF CalmInv

(* Every step keeps the invariant of the pairs in Calm.                      *)
LEMMA CalmStep ==
  /\ RequestsTypeOK /\ RequestsTypeOK' /\ AskedInv /\ AskedInv'
  /\ CalmInv /\ [RequestsNext]_requestVars
  => CalmInv'
<1> SUFFICES ASSUME RequestsTypeOK, RequestsTypeOK', AskedInv, AskedInv', CalmInv,
                    [RequestsNext]_requestVars
             PROVE  CalmInv'
  OBVIOUS
<1> USE FriendRequestsAssumption
<1>k. KeepsPairs
  BY AskedStep
<1>t. \A t \in Task : task[t] \in TaskState
  BY DEF RequestsTypeOK
<1>q. \A t \in Task : Busy(t) => At(t, PairOf(task[t]))
  BY DEF At
<1>m. \A t \in Task : TaskMatches(task[t], requests)
  BY DEF AskedInv, TasksMatch
<1>1. ASSUME NEW t \in Task, NEW u \in User, NEW v \in User, SendFriendRequest(t, u, v)
      PROVE  CalmInv'
  <2> DEFINE x == [Idle EXCEPT !.pc = "find", !.sender = u, !.recipient = v]
  <2>1. x.pc = "find" /\ PairOf(x) = {u, v}
    BY DEF Idle, PairOf
  <2>2. task' = [task EXCEPT ![t] = x] /\ ~Busy(t) /\ ({u, v} \in Calm => ~AtWork({u, v}))
    BY <1>1 DEF SendFriendRequest, MayStart
  <2>3. task'[t] = x /\ ~At(t, {u, v})
    BY <2>2 DEF RequestsTypeOK, At
  <2>4. Current(t, {u, v})'
    BY <2>1, <2>3 DEF Current
  <2>5. UNCHANGED <<requests, friends, broken>>
    BY <1>1 DEF SendFriendRequest
  <2> HIDE DEF x
  <2> QED
    BY <2>1, <2>2, <2>3, <2>4, <2>5, CalmReading
<1>2. ASSUME NEW t \in Task, NEW i \in RequestId, NEW pc \in {"accept", "reject"},
             ActOnRequest(t, i, pc)
      PROVE  CalmInv'
  <2> DEFINE x == [pc |-> pc, sender |-> requests[i].sender,
                   recipient |-> requests[i].recipient, request |-> i]
  <2>q. PICK q : q = PairOf(requests[i])
    OBVIOUS
  <2>1. x.pc \in {"accept", "reject"} /\ PairOf(x) = q /\ x.request = i
    BY <2>q DEF PairOf
  <2>2. task' = [task EXCEPT ![t] = x] /\ ~Busy(t) /\ (q \in Calm => ~AtWork(q))
    BY <1>2, <2>q DEF ActOnRequest, MayStart
  <2>3. task'[t] = x /\ ~At(t, q)
    BY <2>2 DEF RequestsTypeOK, At
  <2>4. q \in Calm => Current(t, q)'
    BY <1>2, <2>q, <2>1, <2>3 DEF Current, ActOnRequest
  <2>5. UNCHANGED <<requests, friends, broken>>
    BY <1>2 DEF ActOnRequest
  <2> HIDE DEF x
  <2> QED
    BY <2>1, <2>2, <2>3, <2>4, <2>5, CalmReading
<1>3. ASSUME NEW t \in Task, FindNone(t)
      PROVE  CalmInv'
  <2> DEFINE x == [task[t] EXCEPT !.pc = "create"]
  <2>q. PICK q : q = PairOf(task[t])
    OBVIOUS
  <2>1. /\ task[t].pc = "find"
        /\ task' = [task EXCEPT ![t] = x]
        /\ UNCHANGED <<requests, friends, broken>>
        /\ \A i \in RequestId : ~SentFriendRequest(i, task[t].sender, task[t].recipient)
    BY <1>3 DEF FindNone, Step
  <2>2. task[t] \in [pc : {"find", "create"}, sender : User, recipient : User,
                     request : {NoRequest}]
    BY <1>t, <2>1 DEF TaskState, Idle
  <2>3. x.pc = "create" /\ PairOf(x) = q
    BY <2>q, <2>2 DEF PairOf
  <2>4. At(t, q) /\ task'[t] = x
    BY <2>q, <1>q, <2>1 DEF Busy, RequestsTypeOK
  <2>5. \A i \in RequestId : ~Of(i, q)
    BY <2>q, <2>1 DEF SentFriendRequest, Of, PairOf, Row
  <2>6. Current(t, q)'
    BY <2>1, <2>3, <2>4, <2>5 DEF Current, Of, Row
  <2> HIDE DEF x
  <2> QED
    BY <2>1, <2>3, <2>4, <2>6, CalmReading
<1>4. ASSUME NEW t \in Task, FindRejected(t)
      PROVE  CalmInv'
  <2>q. PICK q : q = PairOf(task[t])
    OBVIOUS
  <2>1. /\ task[t].pc = "find"
        /\ UNCHANGED <<requests, friends, broken>>
    BY <1>4 DEF FindRejected
  <2>2. PICK i \in RequestId :
          /\ requests[i].status = "REJECTED"
          /\ task' = [task EXCEPT ![t] = [task[t] EXCEPT !.pc = "revive", !.request = i]]
    BY <1>4 DEF FindRejected
  <2> DEFINE x == [task[t] EXCEPT !.pc = "revive", !.request = i]
  <2>3. task[t] \in [pc : {"find", "create"}, sender : User, recipient : User,
                     request : {NoRequest}]
    BY <1>t, <2>1 DEF TaskState, Idle
  <2>4. x.pc = "revive" /\ PairOf(x) = q /\ x.request = i
    BY <2>q, <2>3 DEF PairOf
  <2>5. At(t, q) /\ task'[t] = x
    BY <2>q, <1>q, <2>1, <2>2 DEF Busy, RequestsTypeOK
  <2>6. Current(t, q)'
    BY <2>1, <2>2, <2>4, <2>5 DEF Current
  <2>7. task' = [task EXCEPT ![t] = x]
    BY <2>2
  <2> HIDE DEF x
  <2> QED
    BY <2>1, <2>4, <2>5, <2>6, <2>7, CalmReading
<1>5. ASSUME NEW t \in Task, FindSentBefore(t) \/ QueryFails(t)
      PROVE  CalmInv'
  <2>q. PICK q : q = PairOf(task[t])
    OBVIOUS
  <2>1. /\ Busy(t)
        /\ task' = [task EXCEPT ![t] = Idle]
        /\ UNCHANGED <<requests, friends>>
        /\ broken \subseteq broken'
        /\ task[t].pc = "befriend" => q \in broken'
    BY <2>q, <1>5 DEF FindSentBefore, QueryFails, Busy, Done
  <2>2. At(t, q) /\ ~At(t, q)' /\ Idle.pc = "idle"
    BY <2>q, <1>q, <2>1 DEF At, Busy, Idle, RequestsTypeOK
  <2> QED
    BY <2>1, <2>2, CalmReading
<1>6. ASSUME NEW t \in Task, CreateRequest(t)
      PROVE  CalmInv'
  <2> DEFINE row == [sender |-> task[t].sender, recipient |-> task[t].recipient,
                     status |-> "PENDING"]
  <2>q. PICK q : q = PairOf(task[t])
    OBVIOUS
  <2>i. PICK i : i = nextRequest
    OBVIOUS
  <2>1. /\ task[t].pc = "create"
        /\ i \in RequestId
        /\ requests' = [requests EXCEPT ![i] = row]
        /\ task' = [task EXCEPT ![t] = Idle]
        /\ UNCHANGED <<friends, broken>>
    BY <2>i, <1>6 DEF CreateRequest, Create, Done
  <2>2. At(t, q) /\ Idle.pc = "idle"
    BY <2>q, <1>q, <2>1 DEF Busy, Idle
  <2>3. requests'[i] = row /\ \A j \in RequestId \ {i} : requests'[j] = requests[j]
    BY <2>1 DEF RequestsTypeOK
  <2>4. row # NoRow
    BY <1>t, <2>1, TaskKnows
  <2>5. Of(i, q)' /\ requests'[i].status = "PENDING"
    BY <2>q, <2>3, <2>4 DEF Of, Row, PairOf
  <2>6. q \in Calm => \A j \in RequestId : ~Of(j, q)
    BY <2>1, <2>2 DEF CalmInv, CalmAt, Current
  <2> QED
    BY <1>k, <2>1, <2>2, <2>3, <2>5, <2>6, CalmWriting
<1>7. ASSUME NEW t \in Task, ReviveRequest(t)
      PROVE  CalmInv'
  <2> DEFINE row == [sender |-> task[t].sender, recipient |-> task[t].recipient,
                     status |-> "PENDING"]
  <2>q. PICK q : q = PairOf(task[t])
    OBVIOUS
  <2>i. PICK i : i = task[t].request
    OBVIOUS
  <2>1. /\ task[t].pc = "revive"
        /\ i \in RequestId
        /\ requests' = [requests EXCEPT ![i] = row]
        /\ task' = [task EXCEPT ![t] = Idle]
        /\ UNCHANGED <<friends, broken>>
    BY <2>i, <1>7, <1>t, TaskKnows DEF ReviveRequest, Update, Done
  <2>2. At(t, q) /\ Idle.pc = "idle"
    BY <2>q, <1>q, <2>1 DEF Busy, Idle
  <2>3. requests'[i] = row /\ \A j \in RequestId \ {i} : requests'[j] = requests[j]
    BY <2>1 DEF RequestsTypeOK
  <2>4. row # NoRow
    BY <1>t, <2>1, TaskKnows
  <2>5. Of(i, q)' /\ requests'[i].status = "PENDING"
    BY <2>q, <2>3, <2>4 DEF Of, Row, PairOf
  <2>6. Of(i, q)
    BY <2>q, <2>i, <1>m, <2>1 DEF TaskMatches, Of, Row
  <2>7. q \in Calm => requests[i].status # "ACCEPTED"
    BY <2>i, <2>1, <2>2 DEF CalmInv, CalmAt, Current
  <2>8. CASE q \in Calm
    <3> QED
      BY <1>k, <2>1, <2>2, <2>3, <2>5, <2>6, <2>7, <2>8, CalmWriting
  <2>9. CASE q \notin Calm
    <3> QED
      BY <1>k, <2>1, <2>2, <2>3, <2>5, <2>9, CalmWriting
  <2> QED
    BY <2>8, <2>9
<1>8. ASSUME NEW t \in Task, NEW x \in TaskState, NEW status \in {"ACCEPTED", "REJECTED"},
             task[t].pc \in {"accept", "reject"},
             SetStatus(task[t].request, status),
             task' = [task EXCEPT ![t] = x],
             x.pc = "idle" \/ (x.pc = "befriend" /\ PairOf(x) = PairOf(task[t])
                               /\ x.request = task[t].request),
             x.pc = "befriend" => status = "ACCEPTED",
             status = "ACCEPTED" => x.pc = "befriend" \/ PairOf(task[t]) \in broken',
             broken \subseteq broken',
             friends' = friends
      PROVE  CalmInv'
  <2>q. PICK q : q = PairOf(task[t])
    OBVIOUS
  <2>i. PICK i : i = task[t].request
    OBVIOUS
  <2>1. i \in RequestId
    BY <2>i, <1>8, <1>t, TaskKnows
  <2>2. Row(i) /\ requests' = [requests EXCEPT ![i] = [requests[i] EXCEPT !.status = status]]
    BY <2>i, <1>8 DEF SetStatus, WriteStatus
  <2>3. /\ requests'[i] = [requests[i] EXCEPT !.status = status]
        /\ \A j \in RequestId \ {i} : requests'[j] = requests[j]
    BY <2>1, <2>2 DEF RequestsTypeOK
  <2>4. requests'[i].status = status
    BY <2>1, <2>2, <2>3 DEF RequestsTypeOK, Request, Row
  <2>5. At(t, q)
    BY <2>q, <1>q, <1>8 DEF Busy
  <2>6. Of(i, q)
    BY <2>q, <2>i, <1>m, <1>8, <2>2 DEF TaskMatches, Of, Row
  <2>7. Of(i, q)'
    BY <1>k, <2>1, <2>6 DEF KeepsPairs, Of
  <2>8. q \in Calm => requests[i].status # "ACCEPTED"
    BY <2>i, <1>8, <2>5 DEF CalmInv, CalmAt, Current
  <2>9. task[t].pc # "befriend"
    BY <1>8
  <2>10. /\ task' = [task EXCEPT ![t] = x]
         /\ x.pc = "idle" \/ (x.pc = "befriend" /\ PairOf(x) = q /\ x.request = i)
         /\ requests'[i].status = "ACCEPTED" => x.pc = "befriend" \/ q \in broken'
         /\ x.pc = "befriend" => requests'[i].status = "ACCEPTED"
         /\ broken \subseteq broken' /\ friends' = friends
    BY <2>q, <2>i, <1>8, <2>4
  <2>11. CASE q \in Calm
    BY <1>k, <2>1, <2>3, <2>5, <2>6, <2>7, <2>8, <2>9, <2>10, <2>11, CalmWriting
  <2>12. CASE q \notin Calm
    BY <1>k, <2>1, <2>3, <2>5, <2>7, <2>9, <2>10, <2>12, CalmWriting
  <2> QED
    BY <2>11, <2>12
<1>9. ASSUME NEW t \in Task, AcceptRequest(t)
      PROVE  CalmInv'
  <2> DEFINE i == task[t].request
             x == [pc |-> "befriend", sender |-> requests[i].sender,
                   recipient |-> requests[i].recipient, request |-> i]
  <2>1. /\ task[t].pc = "accept"
        /\ SetStatus(i, "ACCEPTED")
        /\ task' = [task EXCEPT ![t] = x]
        /\ UNCHANGED <<friends, broken>>
    BY <1>9 DEF AcceptRequest
  <2>2. i \in RequestId
    BY <1>t, <2>1, TaskKnows
  <2>3. PairOf(requests[i]) = PairOf(task[t])
    BY <1>m, <2>1 DEF TaskMatches
  <2>4. x.pc = "befriend" /\ x.request = i /\ PairOf(x) = PairOf(task[t])
    BY <2>3 DEF PairOf
  <2>5. x \in TaskState
    BY <2>1, <2>2 DEF TaskState, RequestsTypeOK, Request, Row, SetStatus
  <2> HIDE DEF x
  <2> QED
    BY <1>8, <2>1, <2>4, <2>5
<1>10. ASSUME NEW t \in Task, RejectRequest(t) \/ AcceptAnswerLost(t)
       PROVE  CalmInv'
  <2>1. Idle \in TaskState /\ Idle.pc = "idle"
    BY DEF TaskState, Idle
  <2>2. CASE RejectRequest(t)
    BY <1>8, <2>1, <2>2 DEF RejectRequest, Done
  <2>3. CASE AcceptAnswerLost(t)
    BY <1>8, <2>1, <2>3 DEF AcceptAnswerLost, Done
  <2> QED
    BY <1>10, <2>2, <2>3
<1>11. ASSUME NEW t \in Task, MakeFriends(t)
       PROVE  CalmInv'
  <2>q. PICK q : q = PairOf(task[t])
    OBVIOUS
  <2>1. /\ task[t].pc = "befriend"
        /\ friends' = [friends EXCEPT ![q] = friends[q] + 1]
        /\ task' = [task EXCEPT ![t] = Idle]
        /\ UNCHANGED <<requests, broken>>
    BY <2>q, <1>11 DEF MakeFriends, CreateFriend, Done
  <2>2. At(t, q) /\ Idle.pc = "idle"
    BY <2>q, <1>q, <2>1 DEF Busy, Idle
  <2>3. q \in Pair
    BY <2>q, <1>t, <2>1, TaskKnows DEF PairOf, Pair
  <2>4. friends'[q] = friends[q] + 1 /\ \A p \in Pair : p # q => friends'[p] = friends[p]
    BY <2>1, <2>3 DEF RequestsTypeOK
  <2>5. task[t].request \in RequestId /\ Of(task[t].request, q)
    BY <2>q, <1>m, <1>t, <2>1, TaskKnows DEF TaskMatches, Of, Row
  <2>6. \A p \in Calm : p # q => CalmAt(p)'
    <3>1. \A i \in RequestId : requests'[i] = requests[i]
      BY <2>1
    <3>2. \A p \in Calm : p # q => friends'[p] = friends[p]
      BY <2>4
    <3> QED
      BY <1>k, <2>1, <2>2, <3>1, <3>2, OtherPairs
  <2>7. ASSUME q \in Calm PROVE CalmAt(q)'
    <3>1. /\ \A h \in Task \ {t} : ~At(h, q) /\ ~At(h, q)'
          /\ task'[t] = Idle
      BY <2>1, <2>2, <2>7, Alone
    <3>2. CalmAt(q) /\ Current(t, q)
      BY <2>2, <2>7 DEF CalmInv, CalmAt
    <3>3. Accepted(q) /\ Befriending(q)
      BY <2>1, <2>2, <2>5, <3>2 DEF Accepted, Befriending, Current
    <3>4. \A i \in RequestId : Of(i, q)' <=> Of(i, q)
      BY <2>1 DEF Of, Row
    <3>5. Accepted(q)'
      BY <2>1, <3>3, <3>4 DEF Accepted
    <3>6. ~At(t, q)'
      BY <2>2, <3>1 DEF At, Busy
    <3>7. q \notin broken' => friends'[q] = 1
      BY <2>1, <2>4, <3>2, <3>3 DEF CalmAt
    <3> QED
      BY <3>1, <3>2, <3>4, <3>5, <3>6, <3>7, CalmHandler DEF CalmAt
  <2> QED
    BY <2>6, <2>7 DEF CalmInv
<1>12. CASE RestartServer
  <2> SUFFICES ASSUME NEW p \in Calm PROVE CalmAt(p)'
    BY DEF CalmInv
  <2>1. UNCHANGED <<requests, friends>> /\ \A t \in Task : task'[t] = Idle
    BY <1>12 DEF RestartServer
  <2>2. \A t \in Task : ~At(t, p)'
    BY <2>1 DEF At, Busy, Idle
  <2>3. \A i \in RequestId : Of(i, p)' <=> Of(i, p)
    BY <2>1 DEF Of, Row
  <2>4. Accepted(p)' <=> Accepted(p)
    BY <2>1, <2>3 DEF Accepted
  <2>5. p \notin broken' => p \notin broken /\ ~Befriending(p)
    BY <1>12 DEF RestartServer, Befriending, At
  <2>6. ~Befriending(p)'
    BY <2>2 DEF Befriending
  <2>7. CalmAt(p)
    BY DEF CalmInv
  <2> QED
    BY <2>1, <2>2, <2>3, <2>4, <2>5, <2>6, <2>7 DEF CalmAt
<1>13. CASE UNCHANGED requestVars
  BY <1>13
  DEF requestVars, CalmInv, CalmAt, At, Of, Busy, Row, Accepted, Befriending, Current
<1> QED
  BY <1>1, <1>2, <1>3, <1>4, <1>5, <1>6, <1>7, <1>9, <1>10, <1>11, <1>12, <1>13
  DEF RequestsNext, TaskStep

(* The invariant holds in every reachable state.                             *)
LEMMA CalmInvariant == RequestsSpec => []CalmInv
<1>1. ASSUME RequestsInit
      PROVE  CalmInv
  <2>1. \A t \in Task, p \in Calm : ~At(t, p)
    BY <1>1 DEF RequestsInit, At, Busy, Idle
  <2>2. \A i \in RequestId, p \in Calm : ~Of(i, p)
    BY <1>1 DEF RequestsInit, Of, Row
  <2>3. \A p \in Calm : friends[p] = 0
    BY <1>1, FriendRequestsAssumption DEF RequestsInit
  <2> QED
    BY <2>1, <2>2, <2>3 DEF CalmInv, CalmAt, Accepted
<1> QED
  BY <1>1, CalmStep, AskedInvariant, RequestsTypeCorrect, PTL DEF RequestsSpec

(* Users who act one after the other never have two requests between them.   *)
THEOREM OneRequestPerPairAlways == RequestsSpec => []OneRequestPerPair
<1>1. CalmInv => OneRequestPerPair
  BY DEF CalmInv, CalmAt, OneRequestPerPair, Of
<1> QED
  BY <1>1, CalmInvariant, PTL

(* And they are friends, once, exactly if their request is accepted, unless  *)
(* an acceptance broke off half way.                                         *)
THEOREM AcceptedAreFriendsAlways == RequestsSpec => []AcceptedAreFriends
<1>1. CalmInv => AcceptedAreFriends
  <2> SUFFICES ASSUME CalmInv, NEW p \in Calm, p \notin broken, ~AtWork(p)
               PROVE  friends[p] =
                        IF \E i \in RequestId :
                             Row(i) /\ PairOf(requests[i]) = p /\ requests[i].status = "ACCEPTED"
                        THEN 1 ELSE 0
    BY DEF AcceptedAreFriends
  <2>1. ~Befriending(p)
    BY DEF Befriending, At, AtWork
  <2> QED
    BY <2>1 DEF CalmInv, CalmAt, Accepted, Of
<1> QED
  BY <1>1, CalmInvariant, PTL

----------------------------------------------------------------------------
(* The server                                                                *)

(* The whole leaves the handlers of friend requests to themselves.           *)
THEOREM ServerRunsRequests == ServerSpec => RequestsSpec
<1>1. ServerInit => RequestsInit
  BY DEF ServerInit
<1>2. [ServerNext]_serverVars => [RequestsNext]_requestVars
  BY DEF ServerNext, RequestStep, GatewayStep, Restart, RequestsNext, serverVars
<1> QED
  BY <1>1, <1>2, PTL DEF ServerSpec, RequestsSpec

(* To the gateway a step of friend requests is a new acquaintance, or        *)
(* nothing.                                                                  *)
LEMMA RequestStepBefriends ==
  ASSUME [Rest!AcquaintancesNext]_Related, UNCHANGED messagingVars
  PROVE  Msg!MsgNext \/ UNCHANGED Msg!vars
<1> USE DEF messagingVars, Msg!vars, Msg!connVars, Msg!tokensVars, Msg!msgVars, Msg!dbVars,
            Msg!historyVars
<1>1. CASE MayMessage' = MayMessage
  BY <1>1
<1>2. CASE MayMessage' # MayMessage
  <2>1. PICK u \in User, v \in User : Rest!Meet(u, v)
    BY <1>2 DEF Rest!AcquaintancesNext, MayMessage
  <2>2. Related' = Related \union {{u, v}} /\ u # v
    BY <2>1 DEF Rest!Meet
  <2>3. PICK d \in Draft : {u, v} = {d.author, d.receiver}
    BY <1>2, <2>2 DEF MayMessage
  <2>4. MayMessage' = MayMessage \union {{d.author, d.receiver}} /\ d.author # d.receiver
    BY <2>2, <2>3 DEF MayMessage
  <2>5. Msg!Befriend(d.author, d.receiver)
    BY <2>4 DEF Msg!Befriend
  <2> QED
    BY <2>5 DEF Msg!MsgNext
<1> QED
  BY <1>1, <1>2

(* The gateway of the whole is that of DirectMessaging: what this assumes of *)
(* friend requests is what their handlers do, however they race and fail.    *)
THEOREM ServerImplementsMessaging == ServerSpec => Msg!MsgSpec
<1>1. ServerInit => Msg!MsgInit
  BY DEF ServerInit
<1>2. ASSUME RequestsTypeOK, RequestsTypeOK', AskedInv, AskedInv', [ServerNext]_serverVars
      PROVE  Msg!MsgNext \/ UNCHANGED Msg!vars
  <2>1. CASE RequestStep
    <3>1. [RequestsNext]_requestVars
      BY <2>1 DEF RequestStep, RequestsNext
    <3>2. [Rest!AcquaintancesNext]_Related
      BY <1>2, <3>1, AskedStep, RelatedStep
    <3> QED
      BY <2>1, <3>2, RequestStepBefriends DEF RequestStep
  <2>2. CASE GatewayStep
    BY <2>2 DEF GatewayStep, Msg!MsgNext
  <2>3. CASE Restart
    BY <2>3 DEF Restart, Msg!MsgNext
  <2>4. CASE UNCHANGED serverVars
    <3>1. MayMessage' = MayMessage
      BY <2>4 DEF serverVars, requestVars, MayMessage, Related, Row
    <3> QED
      BY <2>4, <3>1 DEF serverVars, messagingVars, Msg!vars, Msg!connVars, Msg!tokensVars,
                        Msg!msgVars, Msg!dbVars, Msg!historyVars
  <2> QED
    BY <1>2, <2>1, <2>2, <2>3, <2>4 DEF ServerNext
<1>3. /\ RequestsTypeOK /\ RequestsTypeOK' /\ AskedInv /\ AskedInv'
      /\ [ServerNext]_serverVars
      => [Msg!MsgNext]_(Msg!vars)
  BY <1>2
<1> QED
  BY <1>1, <1>3, ServerRunsRequests, AskedInvariant, RequestsTypeCorrect, PTL
  DEF ServerSpec, Msg!MsgSpec

(* What is proved of the gateway.                                            *)
Gateway == INSTANCE DirectMessaging_proofs WITH
             related <- MayMessage,
             task <- handler,
             Task <- Handler

(* Its module names the definitions of DirectMessaging anew.                 *)
LEMMA SameGateway == Msg!MsgSpec => Gateway!MsgSpec
<1> USE DEF Msg!connVars, Gateway!connVars, Msg!tokensVars, Gateway!tokensVars,
            Msg!msgVars, Gateway!msgVars, Msg!dbVars, Gateway!dbVars, Msg!historyVars,
            Gateway!historyVars
<1>1. Msg!MsgInit => Gateway!MsgInit
  BY DEF Msg!MsgInit, Gateway!MsgInit, Msg!ConnInit, Gateway!ConnInit, Msg!TokensInit,
         Gateway!TokensInit, Msg!MsgId, Gateway!MsgId, Msg!NoMsg, Gateway!NoMsg, Msg!Idle,
         Gateway!Idle
<1>2. ASSUME NEW s \in Socket, NEW d \in Draft
      PROVE  /\ \A t \in Handler : Msg!SubmitMessage(s, t, d) => Gateway!SubmitMessage(s, t, d)
             /\ Msg!OverlapMessage(s, d) => Gateway!OverlapMessage(s, d)
  BY DEF Msg!SubmitMessage, Gateway!SubmitMessage, Msg!OverlapMessage,
         Gateway!OverlapMessage, Msg!MaySend, Gateway!MaySend, Msg!Busy, Gateway!Busy,
         Msg!NoMsg, Gateway!NoMsg,
         Msg!IsUniqueToken, Gateway!IsUniqueToken, Msg!CleanTokenAutomatically,
         Gateway!CleanTokenAutomatically, Msg!OverlappingToken, Gateway!OverlappingToken
<1>3. ASSUME NEW t \in Handler, Msg!TaskStep(t)
      PROVE  Gateway!TaskStep(t)
  BY <1>3
  DEF Msg!TaskStep, Gateway!TaskStep, Msg!CheckFriendship, Gateway!CheckFriendship,
      Msg!FriendshipRefused, Gateway!FriendshipRefused, Msg!CreateNewMessage,
      Gateway!CreateNewMessage, Msg!CreateFails, Gateway!CreateFails,
      Msg!AddLastSentMessage, Gateway!AddLastSentMessage, Msg!UpdateFails,
      Gateway!UpdateFails, Msg!DeliverMessage, Gateway!DeliverMessage, Msg!AnswerError,
      Gateway!AnswerError, Msg!IsFriend, Gateway!IsFriend, Msg!InsertMessage,
      Gateway!InsertMessage, Msg!SlotFree, Gateway!SlotFree, Msg!SameSlot,
      Gateway!SameSlot, Msg!Stored, Gateway!Stored, Msg!MsgId, Gateway!MsgId,
      Msg!UpdateDirectChat, Gateway!UpdateDirectChat, Msg!Recipients, Gateway!Recipients,
      Msg!GetConnectedClient, Gateway!GetConnectedClient, Msg!Idle, Gateway!Idle,
      Msg!NoMsg, Gateway!NoMsg
<1>4. Msg!ConnectionStep => Gateway!ConnectionStep
  BY DEF Msg!ConnectionStep, Gateway!ConnectionStep, Msg!HandleConnection,
         Gateway!HandleConnection, Msg!RefuseConnection, Gateway!RefuseConnection,
         Msg!HandleDisconnect, Gateway!HandleDisconnect, Msg!RefusedByMiddleware,
         Gateway!RefusedByMiddleware, Msg!Close, Gateway!Close,
         Msg!DisputedBy, Gateway!DisputedBy,
         Msg!AddConnectedClient, Gateway!AddConnectedClient, Msg!ForgetClient,
         Gateway!ForgetClient, Msg!RemoveConnectedClient, Gateway!RemoveConnectedClient,
         Msg!RemoveAllTokens, Gateway!RemoveAllTokens, Msg!ConnTimerFires,
         Gateway!ConnTimerFires, Msg!TokenTimerFires, Gateway!TokenTimerFires,
         Msg!RemoveSingleToken, Gateway!RemoveSingleToken
<1>5. Msg!Restart => Gateway!Restart
  BY DEF Msg!Restart, Gateway!Restart, Msg!RestartServer, Gateway!RestartServer, Msg!Idle,
         Gateway!Idle, Msg!NoMsg, Gateway!NoMsg
<1>6. UNCHANGED Msg!vars => UNCHANGED Gateway!vars
  BY DEF Msg!vars, Gateway!vars
<1>7. ASSUME NEW d \in Draft, Msg!Befriend(d.author, d.receiver)
      PROVE  Gateway!Befriend(d.author, d.receiver)
  BY <1>7 DEF Msg!Befriend, Gateway!Befriend
<1>8. [Msg!MsgNext]_(Msg!vars) => [Gateway!MsgNext]_(Gateway!vars)
  BY <1>2, <1>3, <1>4, <1>5, <1>6, <1>7 DEF Msg!MsgNext, Gateway!MsgNext
<1> QED
  BY <1>1, <1>8, PTL DEF Msg!MsgSpec, Gateway!MsgSpec

(* What ReachedWereAsked rests on.                                           *)
LEMMA GatewayInvariant ==
  ASSUME GatewayConstants
  PROVE  Gateway!MsgSpec => [](Gateway!DeliveredToParticipants /\ Gateway!StoredAreRelated
                               /\ Gateway!MsgTypeOK)
<1>1. Gateway!MsgSpec => []Gateway!DeliveredToParticipants
  BY Gateway!DeliveredToParticipantsAlways DEF GatewayConstants
<1>2. Gateway!MsgSpec => []Gateway!StoredAreRelated
  BY Gateway!StoredAreRelatedAlways DEF GatewayConstants
<1>3. Gateway!MsgSpec => []Gateway!MsgTypeOK
  BY Gateway!MsgTypeCorrect DEF GatewayConstants
<1> QED
  BY <1>1, <1>2, <1>3, PTL

(* A message only ever reaches its author and its receiver, two users one of *)
(* whom has sent the other a friend request.                                 *)
THEOREM ReachedWereAskedAlways ==
  ASSUME GatewayConstants
  PROVE  ServerSpec => []ReachedWereAsked
<1>1. /\ Gateway!DeliveredToParticipants
      /\ Gateway!StoredAreRelated
      /\ Gateway!MsgTypeOK
      => ReachedWereAsked
  <2> SUFFICES ASSUME Gateway!DeliveredToParticipants, Gateway!StoredAreRelated,
                      Gateway!MsgTypeOK,
                      NEW u \in User, NEW m \in delivered[u]
               PROVE  /\ u \in {messages[m].author, messages[m].receiver}
                      /\ messages[m].author # messages[m].receiver
                      /\ IsFriend(messages[m].author, messages[m].receiver)
    BY DEF ReachedWereAsked
  <2>1. m \in Gateway!MsgId /\ Gateway!Stored(m)
        /\ u \in {messages[m].author, messages[m].receiver}
    BY DEF Gateway!DeliveredToParticipants, Gateway!MsgTypeOK
  <2>2. messages[m].author # messages[m].receiver
        /\ {messages[m].author, messages[m].receiver} \in MayMessage
    BY <2>1 DEF Gateway!StoredAreRelated, Gateway!IsFriend
  <2>3. IsFriend(messages[m].author, messages[m].receiver)
    BY <2>2 DEF MayMessage, Related, IsFriend
  <2> QED
    BY <2>1, <2>2, <2>3
<1> QED
  BY <1>1, ServerImplementsMessaging, SameGateway, GatewayInvariant, PTL
=============================================================================
