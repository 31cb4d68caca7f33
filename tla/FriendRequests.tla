--------------------------- MODULE FriendRequests ---------------------------
(***************************************************************************)
(* Friend requests and friendships: FriendRequestService                   *)
(* (src/src/friend-request/friend-request.service.ts) and isFriend         *)
(* (src/src/friend/friend.service.ts) over the tables friend_requests and  *)
(* friends.                                                                *)
(*                                                                         *)
(* A handler is a chain of queries; between two of them other handlers run *)
(* and the process may end.  A query may fail, with or without having been *)
(* carried out.  Accepting a request is two queries on their own: the      *)
(* transaction opened around them is used by neither.  The notices to      *)
(* connected clients at the end of a handler change no state of this       *)
(* module; the look-up they rest on is GetConnectedClient of Connections.  *)
(***************************************************************************)
EXTENDS Naturals

CONSTANTS
  User,        \* user ids
  NoUser,
  NoRow,
  Calm,        \* the pairs of users of whom one acts at a time (see MayStart)
  Task,        \* bound of the model: handlers that run at a time
  MaxRequest,  \* bound of the model: ids of friend_requests
  MaxFriend    \* bound of the model: rows of friends for one pair

RequestId == 1..MaxRequest
NoRequest == 0

Pair == {{u, v} : u, v \in User}

ASSUME FriendRequestsAssumption ==
  /\ MaxRequest \in Nat
  /\ MaxFriend \in Nat
  /\ NoUser \notin User
  /\ Calm \subseteq Pair
  /\ NoRow \notin [sender : User, recipient : User,
                   status : {"PENDING", "ACCEPTED", "REJECTED"}]

VARIABLES
  requests,     \* request id -> its row
  nextRequest,  \* the sequence of friend_requests.id
  friends,      \* pair -> its number of rows in friends
  task,         \* handler -> how far it has come
  broken        \* history: pairs with an acceptance that failed half way

requestVars == <<requests, nextRequest, friends, task, broken>>

Status == {"PENDING", "ACCEPTED", "REJECTED"}
Request == [sender : User, recipient : User, status : Status]

Idle == [pc |-> "idle", sender |-> NoUser, recipient |-> NoUser, request |-> NoRequest]

(* A handler knows the two users from its start, and the request once it has *)
(* found one.                                                                *)
TaskState ==
  {Idle}
    \union
  [pc : {"find", "create"}, sender : User, recipient : User, request : {NoRequest}]
    \union
  [pc : {"revive", "accept", "befriend", "reject"},
   sender : User, recipient : User, request : RequestId]

RequestsTypeOK ==
  /\ requests \in [RequestId -> Request \union {NoRow}]
  /\ nextRequest \in 1..(MaxRequest + 1)
  /\ friends \in [Pair -> 0..MaxFriend]
  /\ task \in [Task -> TaskState]
  /\ broken \subseteq Pair

RequestsInit ==
  /\ requests = [i \in RequestId |-> NoRow]
  /\ nextRequest = 1
  /\ friends = [p \in Pair |-> 0]
  /\ task = [t \in Task |-> Idle]
  /\ broken = {}

Row(i) == requests[i] # NoRow
PairOf(r) == {r.sender, r.recipient}
Busy(t) == task[t].pc # "idle"
AtWork(p) == \E t \in Task : Busy(t) /\ PairOf(task[t]) = p

Step(t, pc) == task' = [task EXCEPT ![t].pc = pc]
Done(t) == task' = [task EXCEPT ![t] = Idle]

----------------------------------------------------------------------------
(* Mutants: see the note in MessageTokens.                                   *)

(* "or" for "and": a request of either user, with whomever, is found. *)
SentEither(i, u, v) == Row(i) /\ ({u, v} \intersect PairOf(requests[i])) # {}

(* Only the requests of the sender are looked for. *)
SentByMe(i, u, v) == Row(i) /\ requests[i].sender = u /\ requests[i].recipient = v

(* The friendship is created before the request is stored. *)
CreateWithFriend(t) ==
  /\ task[t].pc = "create"
  /\ friends' = [friends EXCEPT ![PairOf(task[t])] = 1]
  /\ Done(t)
  /\ UNCHANGED <<requests, nextRequest, broken>>

(* The acceptance ends after the status is written. *)
AcceptOnly(t) ==
  /\ task[t].pc = "accept"
  /\ Row(task[t].request)
  /\ requests' = [requests EXCEPT ![task[t].request].status = "ACCEPTED"]
  /\ Done(t)
  /\ UNCHANGED <<nextRequest, friends, broken>>

(* A rejected request is deleted. *)
RejectAndDelete(t) ==
  /\ task[t].pc = "reject"
  /\ requests' = [requests EXCEPT ![task[t].request] = NoRow]
  /\ Done(t)
  /\ UNCHANGED <<nextRequest, friends, broken>>

----------------------------------------------------------------------------
(* The queries                                                               *)

(* findSentFriendRequest: sender and recipient are both among the two. *)
SentFriendRequest(i, u, v) ==
  Row(i) /\ requests[i].sender \in {u, v} /\ requests[i].recipient \in {u, v}

(* The unique index over sender, recipient and status. *)
IndexFree(i, row) == \A j \in RequestId \ {i} : requests[j] # row

Create(u, v) ==
  LET row == [sender |-> u, recipient |-> v, status |-> "PENDING"] IN
  /\ nextRequest \in RequestId
  /\ IndexFree(nextRequest, row)
  /\ requests' = [requests EXCEPT ![nextRequest] = row]
  /\ nextRequest' = nextRequest + 1

(* update: the request found is turned into a pending one of this sender. *)
Update(i, u, v) ==
  LET row == [sender |-> u, recipient |-> v, status |-> "PENDING"] IN
  /\ IndexFree(i, row)
  /\ requests' = [requests EXCEPT ![i] = row]
  /\ UNCHANGED nextRequest

WriteStatus(i, status) ==
  requests' = [requests EXCEPT ![i].status = status]

SetStatus(i, status) ==
  /\ Row(i)
  /\ IndexFree(i, [requests[i] EXCEPT !.status = status])
  /\ WriteStatus(i, status)
  /\ UNCHANGED nextRequest

CreateFriend(p) ==
  /\ friends[p] < MaxFriend
  /\ friends' = [friends EXCEPT ![p] = @ + 1]

(* isFriend, which the gateway asks before it stores a message: is there a   *)
(* request between the two, whatever has become of it?                       *)
IsFriend(u, v) == \E i \in RequestId : Row(i) /\ PairOf(requests[i]) = {u, v}

----------------------------------------------------------------------------
(* sendFriendRequest                                                         *)

(* The users of a pair in Calm act on it one after the other. *)
MayStart(p) == p \in Calm => ~AtWork(p)

SendFriendRequest(t, u, v) ==
  /\ ~Busy(t)
  /\ u # v
  /\ MayStart({u, v})
  /\ task' = [task EXCEPT ![t] = [Idle EXCEPT !.pc = "find", !.sender = u, !.recipient = v]]
  /\ UNCHANGED <<requests, nextRequest, friends, broken>>

(* The answer of findSentFriendRequest, any request that matches: there is   *)
(* none; there is a rejected one; or one that ends the handler with          *)
(* INVITATION_SENT_BEFORE.                                                   *)
FindNone(t) ==
  /\ task[t].pc = "find"
  /\ \A i \in RequestId : ~SentFriendRequest(i, task[t].sender, task[t].recipient)
  /\ Step(t, "create")
  /\ UNCHANGED <<requests, nextRequest, friends, broken>>

FindRejected(t) ==
  /\ task[t].pc = "find"
  /\ \E i \in RequestId :
       /\ SentFriendRequest(i, task[t].sender, task[t].recipient)
       /\ requests[i].status = "REJECTED"
       /\ task' = [task EXCEPT ![t].pc = "revive", ![t].request = i]
  /\ UNCHANGED <<requests, nextRequest, friends, broken>>

FindSentBefore(t) ==
  /\ task[t].pc = "find"
  /\ \E i \in RequestId :
       /\ SentFriendRequest(i, task[t].sender, task[t].recipient)
       /\ requests[i].status \in {"PENDING", "ACCEPTED"}
  /\ Done(t)
  /\ UNCHANGED <<requests, nextRequest, friends, broken>>

CreateRequest(t) ==
  /\ task[t].pc = "create"
  /\ Create(task[t].sender, task[t].recipient)
  /\ Done(t)
  /\ UNCHANGED <<friends, broken>>

ReviveRequest(t) ==
  /\ task[t].pc = "revive"
  /\ Update(task[t].request, task[t].sender, task[t].recipient)
  /\ Done(t)
  /\ UNCHANGED <<friends, broken>>

----------------------------------------------------------------------------
(* friendRequestAction                                                       *)

(* A client acts on a request.  It may be shown an old list, so the status   *)
(* may be any, except that the users of a pair in Calm see the current one.  *)
ActOnRequest(t, i, pc) ==
  /\ ~Busy(t)
  /\ Row(i)
  /\ MayStart(PairOf(requests[i]))
  /\ PairOf(requests[i]) \in Calm => requests[i].status = "PENDING"
  /\ task' = [task EXCEPT ![t] = [pc |-> pc, sender |-> requests[i].sender,
                                  recipient |-> requests[i].recipient, request |-> i]]
  /\ UNCHANGED <<requests, nextRequest, friends, broken>>

(* The friendship is created from the row that the update returned. *)
AcceptRequest(t) ==
  LET i == task[t].request IN
  /\ task[t].pc = "accept"
  /\ SetStatus(i, "ACCEPTED")
  /\ task' = [task EXCEPT ![t] = [pc |-> "befriend", sender |-> requests[i].sender,
                                  recipient |-> requests[i].recipient, request |-> i]]
  /\ UNCHANGED <<friends, broken>>

MakeFriends(t) ==
  /\ task[t].pc = "befriend"
  /\ CreateFriend(PairOf(task[t]))
  /\ Done(t)
  /\ UNCHANGED <<requests, nextRequest, broken>>

RejectRequest(t) ==
  /\ task[t].pc = "reject"
  /\ SetStatus(task[t].request, "REJECTED")
  /\ Done(t)
  /\ UNCHANGED <<friends, broken>>

----------------------------------------------------------------------------
(* Failures                                                                  *)

(* The query at hand is not carried out and its handler ends with an error:  *)
(* the index refuses the row, the row is missing, or the database fails.     *)
(* After the first half of an acceptance the pair stays broken.  (A query    *)
(* that is carried out and whose answer is lost ends, for all but the first  *)
(* half of an acceptance, in the state that a success ends in.)              *)
QueryFails(t) ==
  /\ Busy(t)
  /\ broken' = IF task[t].pc = "befriend" THEN broken \union {PairOf(task[t])} ELSE broken
  /\ Done(t)
  /\ UNCHANGED <<requests, nextRequest, friends>>

(* The status is written, but the answer gets lost. *)
AcceptAnswerLost(t) ==
  /\ task[t].pc = "accept"
  /\ SetStatus(task[t].request, "ACCEPTED")
  /\ broken' = broken \union {PairOf(task[t])}
  /\ Done(t)
  /\ UNCHANGED friends

(* The end of the process ends all handlers where they are. *)
RestartServer ==
  /\ task' = [t \in Task |-> Idle]
  /\ broken' = broken \union {PairOf(task[t]) : t \in {h \in Task : task[h].pc = "befriend"}}
  /\ UNCHANGED <<requests, nextRequest, friends>>

TaskStep(t) ==
  \/ FindNone(t)
  \/ FindRejected(t)
  \/ FindSentBefore(t)
  \/ CreateRequest(t)
  \/ ReviveRequest(t)
  \/ AcceptRequest(t)
  \/ MakeFriends(t)
  \/ RejectRequest(t)
  \/ QueryFails(t)
  \/ AcceptAnswerLost(t)

RequestsNext ==
  \/ \E t \in Task, u, v \in User : SendFriendRequest(t, u, v)
  \/ \E t \in Task, i \in RequestId, pc \in {"accept", "reject"} : ActOnRequest(t, i, pc)
  \/ \E t \in Task : TaskStep(t)
  \/ RestartServer

RequestsSpec == RequestsInit /\ [][RequestsNext]_requestVars

----------------------------------------------------------------------------

(* Friends were asked: no friendship without a request between the two, in   *)
(* whatever direction its last sender turned it.                             *)
FriendsWereAsked ==
  \A u, v \in User : friends[{u, v}] > 0 => IsFriend(u, v)

(* A request stays a request between the same two users: reviving it may     *)
(* swap their roles, and no handler moves it to another pair or deletes it.  *)
(* So who may message whom, isFriend, never shrinks.                         *)
RequestKeepsPair ==
  [][\A i \in RequestId :
       Row(i) => Row(i)' /\ PairOf(requests'[i]) = PairOf(requests[i])]_requestVars

(* The rest of the server may take it that isFriend comes to accept one pair *)
(* of different users at a time, and accepts it ever after, whichever rows   *)
(* the handlers write, turn round and reject, and wherever they fail.        *)
Related == {PairOf(requests[i]) : i \in {j \in RequestId : Row(j)}}

Rest == INSTANCE Acquaintances WITH related <- Related

ImplementsAcquaintances == Rest!AcquaintancesSpec

(* Two users who act one after the other have one request between them,      *)
(* however often it is rejected, sent again in either direction or failed.   *)
OneRequestPerPair ==
  \A i, j \in RequestId :
    /\ Row(i) /\ Row(j)
    /\ PairOf(requests[i]) = PairOf(requests[j])
    /\ PairOf(requests[i]) \in Calm
    => i = j

(* For such users, and unless an acceptance broke off half way, being        *)
(* friends is the same as having an accepted request, and it is recorded     *)
(* once.                                                                     *)
AcceptedAreFriends ==
  \A p \in Calm :
    p \notin broken /\ ~AtWork(p) =>
      friends[p] =
        IF \E i \in RequestId :
             Row(i) /\ PairOf(requests[i]) = p /\ requests[i].status = "ACCEPTED"
        THEN 1 ELSE 0
=============================================================================
