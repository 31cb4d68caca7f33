------------------------------ MODULE ChatLog ------------------------------
(***************************************************************************)
(* What sending a direct message promises, without sockets, tokens,        *)
(* handlers or queries: a message of a client enters the log of its chat   *)
(* at most once, at most one message of a chat has a given timestamp,      *)
(* nobody but the author and the receiver of a logged message is handed    *)
(* it, and only logged messages are confirmed to their author.             *)
(***************************************************************************)
CONSTANTS
  Draft,  \* messages as the clients send them: author, receiver, chat, ...
  User

VARIABLES
  log,    \* the drafts that are stored
  inbox,  \* user -> the drafts some client of the user was handed
  acked   \* the drafts confirmed to their author

logVars == <<log, inbox, acked>>

LogInit ==
  /\ log = {}
  /\ inbox = [u \in User |-> {}]
  /\ acked = {}

(* Two drafts that cannot both be stored. *)
SameSlot(d, e) == d.chat = e.chat /\ d.timestamp = e.timestamp

Post(d) ==
  /\ \A e \in log : ~SameSlot(d, e)
  /\ log' = log \union {d}
  /\ UNCHANGED <<inbox, acked>>

(* The draft is handed to some of its participants and confirmed. *)
Deliver(d, who) ==
  /\ d \in log
  /\ inbox' = [u \in User |-> IF u \in who THEN inbox[u] \union {d} ELSE inbox[u]]
  /\ acked' = acked \union {d}
  /\ UNCHANGED log

LogNext ==
  \E d \in Draft :
    \/ Post(d)
    \/ \E who \in SUBSET {d.author, d.receiver} : Deliver(d, who)

LogSpec == LogInit /\ [][LogNext]_logVars

----------------------------------------------------------------------------

(* No two messages of a chat have one timestamp, only what is logged is      *)
(* confirmed, and it is handed to its author and its receiver only.          *)
LogPromise ==
  /\ \A d, e \in log : SameSlot(d, e) => d = e
  /\ acked \subseteq log
  /\ \A u \in User : \A d \in inbox[u] : d \in log /\ u \in {d.author, d.receiver}

(* Nothing that was logged, handed over or confirmed is taken back. *)
LogOnlyGrows ==
  [][/\ log \subseteq log'
     /\ acked \subseteq acked'
     /\ \A u \in User : inbox[u] \subseteq inbox'[u]]_logVars
=============================================================================
