----------------------------- MODULE SearchSync -----------------------------
(***************************************************************************)
(* Accounts and the search index: registration                             *)
(* (src/src/user/user.service.ts), login and logout (src/src/auth),        *)
(* marking messages as seen, SyncDataToESService with its workers          *)
(* (src/src/configs/elasticsearch/sync-data-to-ES), the import of all      *)
(* users (src/src/temp/temp.controller.ts) and the search for users        *)
(* (src/src/search/search.service.ts).                                     *)
(*                                                                         *)
(* A row is written first; then a worker thread is started that brings its *)
(* document in the index up to date.  That needs the encryptor of the user *)
(* in the memory of the service, and throws without it, whatever the row   *)
(* is.  An encryptor is made from the user's row in message_mappings.  No  *)
(* code under src calls the two operations that make mappings and          *)
(* encryptors (the call in the connection hook is commented out), and none *)
(* changes a profile: these are the actions of the environment, and only   *)
(* they lead to a worker.                                                  *)
(*                                                                         *)
(* The version of a user counts the states that its row and profile have   *)
(* been in; the index holds the version it was given last.  (A document    *)
(* that is written is found from the next refresh of the index on: the     *)
(* delay is left out.)                                                     *)
(***************************************************************************)
EXTENDS Naturals

CONSTANTS
  User,        \* the users, by e-mail address
  NoUser,
  Task,        \* bound of the model: registrations that run at a time
  Worker,      \* bound of the model: workers that have work at a time
  Import,      \* bound of the model: imports that run at a time
  MaxVersion,  \* bound of the model: states of a row and its profile
  Serial,      \* the users whose rows change only when no work for them is left
  Author,      \* bound of the model: the users whose messages are marked
  Changing     \* bound of the model: the users whose rows are changed

ASSUME SearchSyncAssumption ==
  /\ MaxVersion \in Nat \ {0}
  /\ NoUser \notin User
  /\ Serial \subseteq User
  /\ Author \subseteq User
  /\ Changing \subseteq User

VARIABLES
  version,     \* user -> the state its row is in, 0 if there is no row
  mapping,     \* user -> its row in message_mappings
  encryptors,  \* the users that ESMsgEncryptors has an entry of
  task,        \* registration -> how far it has come
  worker,      \* worker -> what it is doing
  import,      \* import -> user -> the version it has read and not written, or 0
  index,       \* user -> the version that its document shows, 0 if there is none
  promised,    \* history: user -> the newest version reported as synchronised
  cookie,      \* user -> where the token that its browser keeps comes from
  seen,        \* the authors whose message has the status SEEN
  told         \* history: the authors that were told so

syncVars ==
  <<version, mapping, encryptors, task, worker, import, index, promised, cookie, seen, told>>

Version == 0..MaxVersion
Idle == [pc |-> "idle", user |-> NoUser]
NothingRead == [u \in User |-> 0]
Unused == [pc |-> "unused", type |-> "user", user |-> NoUser, version |-> 0]

SyncTypeOK ==
  /\ version \in [User -> Version]
  /\ mapping \in [User -> {"none", "empty", "chars"}]
  /\ encryptors \subseteq {u \in User : mapping[u] = "empty"}
  /\ \A u \in User : mapping[u] # "none" => version[u] > 0
  /\ task \in [Task -> {Idle} \union [pc : {"find", "create"}, user : User]]
  /\ worker \in [Worker -> {Unused} \union [pc : {"check", "find", "index"},
                                            type : {"message", "user", "profile"},
                                            user : User, version : Version]]
  /\ import \in [Import -> [User -> Version]]
  /\ index \in [User -> Version]
  /\ \A u \in User : index[u] <= version[u] /\ promised[u] <= version[u]
  /\ \A i \in Import, u \in User : import[i][u] <= version[u]
  /\ promised \in [User -> Version]
  /\ cookie \in [User -> {"none", "register", "login"}]
  /\ \A u \in User : cookie[u] # "none" => version[u] > 0
  /\ seen \subseteq Author
  /\ told \subseteq seen

SyncInit ==
  /\ version = [u \in User |-> 0]
  /\ mapping = [u \in User |-> "none"]
  /\ encryptors = {}
  /\ task = [t \in Task |-> Idle]
  /\ worker = [w \in Worker |-> Unused]
  /\ import = [i \in Import |-> NothingRead]
  /\ index = [u \in User |-> 0]
  /\ promised = [u \in User |-> 0]
  /\ cookie = [u \in User |-> "none"]
  /\ seen = {}
  /\ told = {}

----------------------------------------------------------------------------
(* Mutants (see MessageTokens).                                              *)

(* The mapping is not looked for. *)
InitWithoutMapping(u) ==
  /\ encryptors' = encryptors \union {u}
  /\ UNCHANGED <<version, mapping, task, worker, import, index, promised, cookie, seen, told>>

(* The notice goes out before the status is written. *)
TellFirst(u, w) ==
  /\ version[u] > 0
  /\ told' = told \union {u}
  /\ UNCHANGED <<version, mapping, encryptors, task, worker, import, index, promised, cookie, seen>>

(* The worker does not wait for the answer of the index. *)
ReportAtOnce(w) ==
  /\ worker[w].pc = "index"
  /\ promised' = [promised EXCEPT ![worker[w].user] = worker[w].version]
  /\ worker' = [worker EXCEPT ![w] = Unused]
  /\ UNCHANGED <<version, mapping, encryptors, task, import, index, cookie, seen, told>>

----------------------------------------------------------------------------
(* The service                                                               *)

(* createMessageMapping encrypts the key and not the characters: there is    *)
(* nothing to decrypt, or decrypting throws.                                 *)
Decryptable(m) == m = "empty"

(* The row must be there; it refers to the user's row. *)
InitESMessageEncryptor(u) ==
  /\ mapping[u] # "none"
  /\ Decryptable(mapping[u])
  /\ encryptors' = encryptors \union {u}
  /\ UNCHANGED <<version, mapping, task, worker, import, index, promised, cookie, seen, told>>

CreateMessageMapping(u, m) ==
  /\ version[u] > 0
  /\ mapping[u] = "none"
  /\ mapping' = [mapping EXCEPT ![u] = m]
  /\ UNCHANGED <<version, encryptors, task, worker, import, index, promised, cookie, seen, told>>

(* A worker is started and given the row, or MESSAGE_ENCRYPTOR_NOT_SET is    *)
(* thrown to the caller.                                                     *)
SyncDataToES(w, u, type, v) ==
  /\ worker[w] = Unused
  /\ worker' = IF u \in encryptors
               THEN [worker EXCEPT ![w] = [pc |-> "check", type |-> type, user |-> u, version |-> v]]
               ELSE worker

----------------------------------------------------------------------------
(* Registration                                                              *)

Done(t) == task' = [task EXCEPT ![t] = Idle]

Register(t, u) ==
  /\ task[t] = Idle
  /\ task' = [task EXCEPT ![t] = [pc |-> "find", user |-> u]]
  /\ UNCHANGED <<version, mapping, encryptors, worker, import, index, promised, cookie, seen, told>>

FindNobody(t) ==
  /\ task[t].pc = "find"
  /\ version[task[t].user] = 0
  /\ task' = [task EXCEPT ![t].pc = "create"]
  /\ UNCHANGED <<version, mapping, encryptors, worker, import, index, promised, cookie, seen, told>>

(* The insert, which the unique index over e-mail addresses may refuse. *)
InsertUser(u) ==
  /\ version[u] = 0
  /\ version' = [version EXCEPT ![u] = 1]

SendClientJWT(u, origin) == cookie' = [cookie EXCEPT ![u] = origin]

(* The row is created; the answer depends on the synchronisation. *)
CreateUser(t, w) ==
  LET u == task[t].user IN
  /\ task[t].pc = "create"
  /\ InsertUser(u)
  /\ SyncDataToES(w, u, "user", 1)
  /\ IF u \in encryptors THEN SendClientJWT(u, "register") ELSE UNCHANGED cookie
  /\ Done(t)
  /\ UNCHANGED <<mapping, encryptors, import, index, promised, seen, told>>

(* USER_EXISTED, or a query fails; an insert may have been carried out. *)
RegisterFails(t) ==
  /\ task[t] # Idle
  /\ UNCHANGED version \/ (task[t].pc = "create" /\ InsertUser(task[t].user))
  /\ Done(t)
  /\ UNCHANGED <<mapping, encryptors, worker, import, index, promised, cookie, seen, told>>

GetUserByEmail(u) == version[u] > 0

(* The account is there and the password is right. *)
Login(u) ==
  /\ GetUserByEmail(u)
  /\ SendClientJWT(u, "login")
  /\ UNCHANGED <<version, mapping, encryptors, task, worker, import, index, promised, seen, told>>

(* The guard finds a token and takes its user from it. *)
Authenticated(u) == cookie[u] # "none"

RemoveJWT(u) == cookie' = [cookie EXCEPT ![u] = "none"]

(* A cookie whose time is over disappears in the same way. *)
Logout(u) ==
  /\ Authenticated(u)
  /\ RemoveJWT(u)
  /\ UNCHANGED <<version, mapping, encryptors, task, worker, import, index, promised, seen, told>>

----------------------------------------------------------------------------
(* Other callers                                                             *)

WriteStatus(u) == seen' = seen \union {u}

(* The status of a message of u is written and synchronised, and u is told   *)
(* if connected, unless the synchronisation throws.  (The client names the   *)
(* user to tell; it is taken to name the author.)                            *)
MarkAsSeen(u, w) ==
  /\ u \in Author
  /\ version[u] > 0
  /\ WriteStatus(u)
  /\ SyncDataToES(w, u, "message", version[u])
  /\ told' \in {told, IF u \in encryptors THEN told \union {u} ELSE told}
  /\ UNCHANGED <<version, mapping, encryptors, task, import, index, promised, cookie>>

(* The update fails, carried out or not. *)
MarkFails(u) ==
  /\ u \in Author
  /\ version[u] > 0
  /\ UNCHANGED seen \/ WriteStatus(u)
  /\ UNCHANGED <<version, mapping, encryptors, task, worker, import, index, promised, cookie, told>>

(* Neither a worker nor an import is at work for u. *)
Settled(u) ==
  /\ \A x \in Worker : worker[x].user # u
  /\ \A i \in Import : import[i][u] = 0

(* A change of a row or its profile, and its synchronisation: as createUser  *)
(* and updateMsg do it for their rows.                                       *)
ChangeUser(u, w, type) ==
  /\ u \in Changing
  /\ version[u] \in 1..(MaxVersion - 1)
  /\ u \in Serial => Settled(u)
  /\ version' = [version EXCEPT ![u] = @ + 1]
  /\ SyncDataToES(w, u, type, version[u] + 1)
  /\ UNCHANGED <<mapping, encryptors, task, import, index, promised, cookie, seen, told>>

----------------------------------------------------------------------------
(* The workers                                                               *)

(* The message is valid, the index answers, the database is connected.       *)
CheckInputData(w) ==
  /\ worker[w].pc = "check"
  /\ worker[w].type # "message"
  /\ worker' = [worker EXCEPT ![w].pc = "find"]
  /\ UNCHANGED <<version, mapping, encryptors, task, import, index, promised, cookie, seen, told>>

(* A user's document is made from the row and the profile as they are now, a *)
(* profile's from the row that was posted.                                   *)
FoundVersion(w) ==
  IF worker[w].type = "user" THEN version[worker[w].user] ELSE worker[w].version

FindUser(w) ==
  /\ worker[w].pc = "find"
  /\ worker' = [worker EXCEPT ![w].pc = "index", ![w].version = FoundVersion(w)]
  /\ UNCHANGED <<version, mapping, encryptors, task, import, index, promised, cookie, seen, told>>

WriteDocument(w) == index' = [index EXCEPT ![worker[w].user] = worker[w].version]

(* The document is written and success reported. *)
IndexUser(w) ==
  LET u == worker[w].user IN
  /\ worker[w].pc = "index"
  /\ WriteDocument(w)
  /\ promised' = [promised EXCEPT ![u] = IF @ < worker[w].version THEN worker[w].version ELSE @]
  /\ worker' = [worker EXCEPT ![w] = Unused]
  /\ UNCHANGED <<version, mapping, encryptors, task, import, cookie, seen, told>>

(* retryRequest does not repeat a request that fails: it catches what the    *)
(* request throws, and these reject.                                         *)
GiveUp(w) == worker' = [worker EXCEPT ![w] = Unused]

(* A call fails.  The document may have been written by then (one that is    *)
(* written after its worker has given up is left out).  A worker that is     *)
(* given a message always fails: the copy of the encryptor that it has been  *)
(* posted has no methods.                                                    *)
WorkerFails(w) ==
  /\ worker[w] # Unused
  /\ UNCHANGED index \/ (worker[w].pc = "index" /\ WriteDocument(w))
  /\ GiveUp(w)
  /\ UNCHANGED <<version, mapping, encryptors, task, import, promised, cookie, seen, told>>

WorkerStep(w) ==
  \/ CheckInputData(w)
  \/ FindUser(w)
  \/ IndexUser(w)
  \/ WorkerFails(w)

----------------------------------------------------------------------------
(* The import                                                                *)

(* The rows that are read are the ones that will be written.                 *)
InitData(i) ==
  /\ import[i] = NothingRead
  /\ import' = [import EXCEPT ![i] = version]
  /\ UNCHANGED <<version, mapping, encryptors, task, worker, index, promised, cookie, seen, told>>

(* createUser of the index, one after the other, in any order.  No encryptor *)
(* is needed.                                                                *)
ImportUser(i, u) ==
  LET v == import[i][u] IN
  /\ v > 0
  /\ index' = [index EXCEPT ![u] = v]
  /\ promised' = [promised EXCEPT ![u] = IF @ < v THEN v ELSE @]
  /\ import' = [import EXCEPT ![i][u] = 0]
  /\ UNCHANGED <<version, mapping, encryptors, task, worker, cookie, seen, told>>

(* One document fails, written or not, and the others are not tried.         *)
ImportFails(i, u) ==
  LET v == import[i][u] IN
  /\ v > 0
  /\ index' \in {index, [index EXCEPT ![u] = v]}
  /\ import' = [import EXCEPT ![i] = NothingRead]
  /\ UNCHANGED <<version, mapping, encryptors, task, worker, promised, cookie, seen, told>>

----------------------------------------------------------------------------

RestartServer ==
  /\ encryptors' = {}
  /\ task' = [t \in Task |-> Idle]
  /\ worker' = [w \in Worker |-> Unused]
  /\ import' = [i \in Import |-> NothingRead]
  /\ UNCHANGED <<version, mapping, index, promised, cookie, seen, told>>

SyncNext ==
  \/ \E t \in Task :
       \/ \E u \in User : Register(t, u)
       \/ FindNobody(t)
       \/ \E w \in Worker : CreateUser(t, w)
       \/ RegisterFails(t)
  \/ \E u \in User :
       \/ \E m \in {"empty", "chars"} : CreateMessageMapping(u, m)
       \/ InitESMessageEncryptor(u)
       \/ Login(u)
       \/ Logout(u)
       \/ MarkFails(u)
       \/ \E i \in Import : ImportUser(i, u) \/ ImportFails(i, u)
       \/ \E w \in Worker :
            \/ MarkAsSeen(u, w)
            \/ \E type \in {"user", "profile"} : ChangeUser(u, w, type)
  \/ \E w \in Worker : WorkerStep(w)
  \/ \E i \in Import : InitData(i)
  \/ RestartServer

SyncSpec == SyncInit /\ [][SyncNext]_syncVars

----------------------------------------------------------------------------

(* No registration is ever answered with success and a token: the encryptor  *)
(* that the synchronisation needs is made from a row that refers to the      *)
(* user's, so it cannot be there when that row is created, whatever the      *)
(* environment does and however registrations of one address race.  The      *)
(* account itself stays: its user can log in, and not register again.        *)
NobodyIsWelcomed == \A u \in User : cookie[u] # "register"

(* What a search shows: users by their e-mail addresses, each as its document *)
(* has it, at most SEARCH_LIMIT of them.  (A keyword that matches few enough  *)
(* shows all of them.)  The registry of clients that is asked whether they    *)
(* are online is one of the search's own, which nobody is in.                 *)
SearchUsers(matching) ==
  {[user |-> u, version |-> index[u], isOnline |-> FALSE] : u \in {x \in matching : index[x] > 0}}

(* A user that has been reported as synchronised is found by a search, with  *)
(* that state or a newer one, over failures, restarts and imports that       *)
(* overlap: for a user whose row is changed only when no work for it is left. *)
(* (Otherwise two workers, or a worker and an import, overtake each other.)  *)
SuccessIsFresh ==
  \A u \in Serial : promised[u] > 0 =>
    \E hit \in SearchUsers({u}) : hit.version >= promised[u]

(* For such a user a document in the index is never replaced by an older one, *)
(* also by a worker or an import that fails and reports nothing.             *)
IndexAdvances == [][\A u \in Serial : index'[u] >= index[u]]_syncVars

(* Only an author with a row in message_mappings whose characters can be     *)
(* read is ever told that a message was seen: for all others the status is   *)
(* written and the synchronisation then throws.                              *)
OnlyMappedAreTold == \A u \in told : mapping[u] = "empty"
=============================================================================
