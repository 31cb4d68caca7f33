--------------------------- MODULE MessageTokens ---------------------------
(***************************************************************************)
(* Duplicate suppression of client messages: MessageTokensManager          *)
(* (src/src/gateway/helpers/message-tokens.helper.ts).                     *)
(*                                                                         *)
(* Every message carries a token chosen by its client.  The server records *)
(* the tokens it accepted, per user, and refuses a token that is recorded. *)
(* A recorded token is dropped by a timer one hour later, or together with *)
(* all tokens of its user when that user disconnects.  The timers are      *)
(* never cancelled; they all run for the same time, so they fire in the    *)
(* order in which they were started.                                       *)
(***************************************************************************)
EXTENDS Naturals, Sequences

CONSTANTS
  User,       \* user ids
  Token,      \* tokens the clients choose
  MaxTimers,  \* bound of the model: pending timers
  Leaver      \* the users whose tokens a disconnect may drop

ASSUME TokensAssumption == MaxTimers \in Nat /\ Leaver \subseteq User

VARIABLES
  uniqueMsgTokens,  \* user -> the recorded tokens
  tokenTimers       \* the pending timers, the next one to fire first

tokensVars == <<uniqueMsgTokens, tokenTimers>>

TokenTimer == [user : User, token : Token]

TokensTypeOK ==
  /\ uniqueMsgTokens \in [User -> SUBSET Token]
  /\ tokenTimers \in Seq(TokenTimer)

TokensInit ==
  /\ uniqueMsgTokens = [u \in User |-> {}]
  /\ tokenTimers = <<>>

----------------------------------------------------------------------------
(* Mutants: forms of the operators below that a plausible bug would give     *)
(* them.  No specification uses them; each one shows that a property of the  *)
(* runs depends on the code it replaces.                                     *)

(* One cleaning timer per user instead of one per token. *)
CleanOneTimerPerUser(u, t) ==
  IF \E i \in DOMAIN tokenTimers : tokenTimers[i].user = u
  THEN UNCHANGED tokenTimers
  ELSE tokenTimers' = Append(tokenTimers, [user |-> u, token |-> t])

(* A refused duplicate starts a timer too. *)
OverlapStartsTimer(u, t) ==
  /\ t \in uniqueMsgTokens[u]
  /\ Len(tokenTimers) < MaxTimers
  /\ tokenTimers' = Append(tokenTimers, [user |-> u, token |-> t])
  /\ UNCHANGED uniqueMsgTokens

(* filter(tk === token) instead of filter(tk !== token). *)
KeepSingleToken(u, t) ==
  uniqueMsgTokens' = [uniqueMsgTokens EXCEPT ![u] = @ \intersect {t}]

----------------------------------------------------------------------------

(* setTimeout with the fixed delay: the new timer fires after all others. *)
CleanTokenAutomatically(u, t) ==
  tokenTimers' = Append(tokenTimers, [user |-> u, token |-> t])

(* isUniqueToken returning true: record the token and start its timer. *)
IsUniqueToken(u, t) ==
  /\ t \notin uniqueMsgTokens[u]
  /\ Len(tokenTimers) < MaxTimers
  /\ uniqueMsgTokens' = [uniqueMsgTokens EXCEPT ![u] = @ \union {t}]
  /\ CleanTokenAutomatically(u, t)

(* isUniqueToken returning false: the token is recorded, nothing changes. *)
OverlappingToken(u, t) ==
  /\ t \in uniqueMsgTokens[u]
  /\ UNCHANGED tokensVars

(* The timers started for the tokens stay pending. *)
RemoveAllTokens(u) ==
  /\ uniqueMsgTokens' = [uniqueMsgTokens EXCEPT ![u] = {}]
  /\ UNCHANGED tokenTimers

RemoveSingleToken(u, t) ==
  uniqueMsgTokens' = [uniqueMsgTokens EXCEPT ![u] = @ \ {t}]

TokenTimerFires ==
  /\ tokenTimers # <<>>
  /\ RemoveSingleToken(Head(tokenTimers).user, Head(tokenTimers).token)
  /\ tokenTimers' = Tail(tokenTimers)

(* What changes the records while the server runs. *)
TokensNext ==
  \/ \E u \in User, t \in Token : IsUniqueToken(u, t) \/ OverlappingToken(u, t)
  \/ \E u \in Leaver : RemoveAllTokens(u)
  \/ TokenTimerFires

----------------------------------------------------------------------------

HasTimer(u, t) ==
  \E i \in DOMAIN tokenTimers : tokenTimers[i] = [user |-> u, token |-> t]

(* A recorded token always has a pending timer, whatever disconnects and     *)
(* stale timers of earlier records of the same token did in between: no      *)
(* token of isUniqueToken is remembered forever.                             *)
RecordedHasTimer ==
  \A u \in User : \A t \in uniqueMsgTokens[u] : HasTimer(u, t)

(* For a user whose tokens are not dropped by a disconnect, the window in    *)
(* which a duplicate is refused lasts one full delay from the acceptance of  *)
(* the token, no more and no less: a pending timer means that the token is   *)
(* still recorded, and no second timer runs for it.  (removeAllTokens leaves *)
(* the timers pending, so for any other user an old timer can drop a newly   *)
(* recorded token early.)                                                    *)
FullWindow ==
  \A i \in DOMAIN tokenTimers :
    tokenTimers[i].user \notin Leaver =>
      /\ tokenTimers[i].token \in uniqueMsgTokens[tokenTimers[i].user]
      /\ \A j \in DOMAIN tokenTimers : tokenTimers[i] = tokenTimers[j] => i = j

(* Every recorded token is eventually forgotten, so that its client may use  *)
(* it again.                                                                 *)
RecordedExpires ==
  \A u \in User, t \in Token :
    t \in uniqueMsgTokens[u] ~> t \notin uniqueMsgTokens[u]
=============================================================================
