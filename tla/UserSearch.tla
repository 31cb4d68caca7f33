----------------------------- MODULE UserSearch -----------------------------
(***************************************************************************)
(* The search for users in the database: searchUsers and mergeSimilarUsers *)
(* (src/src/user/user.service.ts), asked by a client page after page while *)
(* users register.                                                         *)
(*                                                                         *)
(* A page is made by two queries, one after the other: the profiles whose  *)
(* name matches, and the users whose e-mail address matches but for those  *)
(* of these profiles.  Both start at the row whose id is lastUserId, the   *)
(* id of a user, and skip one row.  An address or a name either matches    *)
(* the keyword of the search or does not.  Rows appear in any order of     *)
(* their ids; no code under src makes profiles or deletes users.           *)
(***************************************************************************)
EXTENDS Naturals, FiniteSets, FiniteSetsExt

CONSTANTS
  MaxUser,     \* bound of the model: ids of users
  MaxProfile,  \* bound of the model: ids of profiles
  Limit,       \* rows that each query takes
  NoCursor     \* "undefined" for lastUserId

UserId == 1..MaxUser
ProfileId == 1..MaxProfile

ASSUME UserSearchAssumption ==
  /\ MaxUser \in Nat
  /\ MaxProfile \in Nat
  /\ Limit \in Nat \ {0}
  /\ NoCursor \notin UserId

VARIABLES
  users,       \* the users
  emails,      \* those whose e-mail address matches
  profileUser, \* profile -> its user
  names,       \* the profiles whose name matches
  reading,     \* "closed", "profiles" or "users" (the query that is next), or "done"
  lastUserId,  \* where the next page starts
  found,       \* the profiles that the first query of the page has found
  known,       \* history: the users that matched when the search began
  shown,       \* the users that the client has received
  kinds,       \* history: by what they were found, "email" or "name"
  repeated,    \* history: has a page brought a user that an earlier one had?
  doubled      \* history: has a page listed a user twice?

tableVars == <<users, emails, profileUser, names>>
readerVars == <<reading, lastUserId, found, known, shown, kinds, repeated, doubled>>
searchVars == <<tableVars, readerVars>>

Profiles == DOMAIN profileUser

UsersOf(profiles) == {profileUser[p] : p \in profiles}

SearchInit ==
  /\ users = {}
  /\ emails = {}
  /\ profileUser = <<>>
  /\ names = {}
  /\ reading = "closed"
  /\ lastUserId = NoCursor
  /\ found = {}
  /\ known = {}
  /\ shown = {}
  /\ kinds = {}
  /\ repeated = FALSE
  /\ doubled = FALSE

----------------------------------------------------------------------------
(* Mutants (see MessageTokens).                                              *)

(* The condition leaves the cursor out, and one row is skipped as well. *)
SkipBehind(ids, rows) ==
  IF lastUserId = NoCursor
  THEN ids
  ELSE {i \in ids : lastUserId \in rows /\ \E j \in ids : lastUserId < j /\ j < i}

(* Nobody is filtered. *)
NoFilter(profiles) == {}

----------------------------------------------------------------------------
(* The queries                                                               *)

(* cursor and skip: the rows from the cursor on, but for the first of them   *)
(* (the cursor, if it matches); none if there is no such row.                *)
Behind(ids, rows) ==
  IF lastUserId = NoCursor
  THEN ids
  ELSE {i \in ids : lastUserId \in rows /\ \E j \in ids : lastUserId <= j /\ j < i}

(* The order is that of the ids. *)
Take(ids) == {i \in ids : Cardinality({j \in ids : j < i}) < Limit}

UserFilter(profiles) == UsersOf(profiles)

----------------------------------------------------------------------------
(* The tables                                                                *)

Register(u, match) ==
  /\ u \notin users
  /\ users' = users \union {u}
  /\ emails' = IF match THEN emails \union {u} ELSE emails
  /\ UNCHANGED <<profileUser, names, readerVars>>

CreateProfile(p, u, match) ==
  /\ p \notin Profiles
  /\ u \in users \ UsersOf(Profiles)
  /\ profileUser' = [q \in Profiles \union {p} |-> IF q = p THEN u ELSE profileUser[q]]
  /\ names' = IF match THEN names \union {p} ELSE names
  /\ UNCHANGED <<users, emails, readerVars>>

----------------------------------------------------------------------------
(* The client and its requests                                               *)

OpenSearch ==
  /\ reading = "closed"
  /\ reading' = "profiles"
  /\ known' = emails \union UsersOf(names)
  /\ UNCHANGED <<lastUserId, found, shown, kinds, repeated, doubled, tableVars>>

FindProfiles ==
  /\ reading = "profiles"
  /\ reading' = "users"
  /\ found' = Take(Behind(names, Profiles))
  /\ UNCHANGED <<lastUserId, known, shown, kinds, repeated, doubled, tableVars>>

(* The users come first in the answer, then the users of the profiles.  The  *)
(* client goes on from the last one, until nobody comes.                     *)
FindUsers ==
  LET page == Take(Behind(emails \ UserFilter(found), users))
      searchResult == page \union UsersOf(found) IN
  /\ reading = "users"
  /\ reading' = IF searchResult = {} THEN "done" ELSE "profiles"
  /\ lastUserId' = IF found # {} THEN profileUser[Max(found)]
                   ELSE IF page # {} THEN Max(page) ELSE lastUserId
  /\ found' = {}
  /\ shown' = shown \union searchResult
  /\ kinds' = kinds \union (IF page = {} THEN {} ELSE {"email"})
                    \union (IF found = {} THEN {} ELSE {"name"})
  /\ repeated' = (repeated \/ shown \intersect searchResult # {})
  /\ doubled' = (doubled \/ page \intersect UsersOf(found) # {})
  /\ UNCHANGED <<known, tableVars>>

CloseSearch ==
  /\ reading # "closed"
  /\ reading' = "closed"
  /\ lastUserId' = NoCursor
  /\ found' = {}
  /\ known' = {}
  /\ shown' = {}
  /\ kinds' = {}
  /\ repeated' = FALSE
  /\ doubled' = FALSE
  /\ UNCHANGED tableVars

SearchNext ==
  \/ \E u \in UserId, match \in BOOLEAN :
       \/ Register(u, match)
       \/ \E p \in ProfileId : CreateProfile(p, u, match)
  \/ OpenSearch
  \/ FindProfiles
  \/ FindUsers
  \/ CloseSearch

SearchSpec == SearchInit /\ [][SearchNext]_searchVars

----------------------------------------------------------------------------

(* The cursor fits both queries: everybody so far was found by e-mail        *)
(* address; or everybody by name, and each profile has the id of its user.   *)
CursorFits ==
  \/ kinds \subseteq {"email"}
  \/ kinds \subseteq {"name"} /\ \A p \in Profiles : profileUser[p] = p

(* While the cursor fits, no page leaves a user behind who matched when the  *)
(* search began, whoever registers or gets a profile between two pages or    *)
(* two queries.                                                              *)
NobodySkipped ==
  CursorFits =>
    \A u \in known \ shown :
      /\ reading # "done"
      /\ lastUserId # NoCursor => u > lastUserId

(* A page never lists a user both by e-mail address and by name; and while   *)
(* the cursor fits, no user comes on two pages.                              *)
NobodyTwice == ~doubled /\ (repeated => ~CursorFits)

(* While the cursor fits, a page moves it to a user with a greater id, or    *)
(* nobody comes: so a client that goes on until nobody comes is not led in a *)
(* circle.                                                                   *)
SearchMovesOn ==
  [][FindUsers /\ CursorFits' /\ lastUserId # NoCursor
       => reading' = "done" \/ lastUserId' > lastUserId]_searchVars
=============================================================================
