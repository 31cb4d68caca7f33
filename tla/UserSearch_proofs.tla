-------------------------- MODULE UserSearch_proofs --------------------------
(***************************************************************************)
(* Proofs about UserSearch, for any number of users and profiles and every *)
(* number of rows that a query takes: type correctness, while the cursor   *)
(* fits no page leaves a user behind and none brings a user again, and no  *)
(* page lists a user twice.                                                *)
(***************************************************************************)
EXTENDS UserSearch, FiniteSetTheorems, WellFoundedInduction, TLAPS

SearchTypeOK ==
  /\ users \subseteq UserId
  /\ emails \subseteq users
  /\ Profiles \subseteq ProfileId
  /\ profileUser \in [Profiles -> users]
  /\ names \subseteq Profiles
  /\ reading \in {"closed", "profiles", "users", "done"}
  /\ lastUserId \in users \union {NoCursor}
  /\ found \subseteq names
  /\ known \subseteq emails \union UsersOf(names)
  /\ shown \subseteq emails \union UsersOf(names)
  /\ kinds \subseteq {"email", "name"}
  /\ repeated \in BOOLEAN
  /\ doubled \in BOOLEAN

(* Each profile has the id of its user.  It can only cease to be so.         *)
SameIds == \A p \in Profiles : profileUser[p] = p

(* Profiles wait for the second query only, and there is a cursor once       *)
(* somebody has been shown.                                                  *)
Begun ==
  /\ reading # "users" => found = {}
  /\ reading = "closed" => known = {} /\ kinds = {}
  /\ kinds = {} <=> lastUserId = NoCursor

(* Before anybody has been shown: if the first query has found no profile    *)
(* then everybody known has an address that matches; if it has found some,   *)
(* then the profiles it left come after them.                                *)
FirstPage ==
  kinds = {} =>
    /\ shown = {}
    /\ ~repeated
    /\ reading = "done" => known = {}
    /\ reading = "users" =>
         /\ found = {} => known \subseteq emails
         /\ SameIds =>
              \A u \in known \ found :
                u \in emails \/ (u \in names /\ \A p \in found : p < u)

(* The pages have gone through these ids up to the cursor, which is one of   *)
(* them; what is left of those known lies behind it.                         *)
Reached(ids) ==
  /\ lastUserId \in ids
  /\ known \ shown \subseteq ids
  /\ ~repeated
  /\ \A u \in shown : u <= lastUserId
  /\ \A u \in known \ shown : reading # "done" /\ lastUserId < u

ByEmail == kinds = {"email"} => Reached(emails)

(* Between the two queries, what the first one left comes after what it      *)
(* found, and it left nothing if it found nothing.                           *)
ByName ==
  kinds = {"name"} /\ SameIds =>
    /\ Reached(names)
    /\ \A p \in found : lastUserId < p
    /\ reading = "users" =>
         \A u \in (known \ shown) \ found : found # {} /\ \A p \in found : p < u

(* The inductive invariant.                                                  *)
SearchInv ==
  /\ SearchTypeOK
  /\ Begun
  /\ FirstPage
  /\ ByEmail
  /\ ByName
  /\ ~doubled

----------------------------------------------------------------------------
(* The queries                                                               *)

(* A non-empty set of natural numbers has a least element, and a bounded one *)
(* a greatest.                                                               *)
LEMMA LeastId ==
  ASSUME NEW T \in SUBSET Nat, T # {}
  PROVE  \E x \in T : \A y \in T : x <= y
<1> DEFINE R == {p \in Nat \X Nat : p[1] < p[2]}
<1>1. IsWellFoundedOn(R, Nat)
  BY NatLessThanWellFounded DEF OpToRel
<1>2. PICK x \in T : \A y \in T : ~(<<y, x>> \in R)
  <2> HIDE DEF R
  <2> QED
    BY <1>1, WFMin
<1>3. \A y \in T : ~(y < x)
  BY <1>2
<1> QED
  BY <1>3

LEMMA GreatestId ==
  ASSUME NEW N \in Nat, NEW T \in SUBSET (1..N), T # {}
  PROVE  Max(T) \in T /\ \A y \in T : y <= Max(T)
<1> DEFINE above == {k \in 1..N : \A y \in T : y <= k}
<1>1. above \in SUBSET Nat /\ N \in above
  <2>1. N >= 1
    <3>1. PICK y \in T : TRUE
      OBVIOUS
    <3> QED
      BY <3>1
  <2> QED
    BY <2>1
<1>2. PICK x \in above : \A k \in above : x <= k
  <2> HIDE DEF above
  <2> QED
    BY <1>1, LeastId
<1>3. x \in T
  <2> SUFFICES ASSUME x \notin T
               PROVE  FALSE
    OBVIOUS
  <2>1. \A y \in T : y <= x - 1
    BY <1>2
  <2>2. x - 1 \in above
    <3>1. PICK y \in T : TRUE
      OBVIOUS
    <3>2. y <= x - 1 /\ y >= 1
      BY <2>1, <3>1
    <3> QED
      BY <1>2, <2>1, <3>2
  <2> QED
    BY <1>2, <2>2
<1>4. \A y \in T : y <= x
  BY <1>2
<1> QED
  BY <1>3, <1>4 DEF Max

(* A query takes the least ids: those it leaves come after those it takes,   *)
(* and it takes something if there is something to take.                     *)
LEMMA TakeFirst ==
  ASSUME NEW N \in Nat, NEW ids \in SUBSET (1..N)
  PROVE  /\ Take(ids) \subseteq ids
         /\ \A i \in ids \ Take(ids), j \in Take(ids) : j < i
         /\ ids # {} => Take(ids) # {}
<1> DEFINE before(i) == {j \in ids : j < i}
<1>1. \A S \in SUBSET ids : IsFiniteSet(S) /\ Cardinality(S) \in Nat
  <2>1. IsFiniteSet(1..N)
    BY FS_Interval
  <2> QED
    BY <2>1, FS_Subset, FS_CardinalityType
<1>2. Take(ids) = {i \in ids : Cardinality(before(i)) < Limit} /\ ids \subseteq Nat
  BY DEF Take
<1>3. ASSUME NEW i \in ids \ Take(ids), NEW j \in Take(ids), ~(j < i)
      PROVE  FALSE
  <2>0. i \in Nat /\ j \in Nat /\ i <= j
    <3>1. i \in ids /\ j \in ids
      BY <1>2
    <3> QED
      BY <1>2, <1>3, <3>1
  <2>1. before(j) \in SUBSET ids /\ before(i) \in SUBSET ids
    OBVIOUS
  <2>2. before(i) \in SUBSET before(j)
    <3>1. ASSUME NEW k \in ids, k < i
          PROVE  k < j
      <4>1. k \in Nat
        BY <1>2
      <4> QED
        BY <2>0, <3>1, <4>1
    <3> QED
      BY <3>1
  <2>3. Cardinality(before(i)) <= Cardinality(before(j))
    BY <1>1, <2>1, <2>2, FS_Subset
  <2>4. Cardinality(before(j)) < Limit /\ ~(Cardinality(before(i)) < Limit)
    BY <1>2
  <2> HIDE DEF before
  <2> QED
    BY <1>1, <2>1, <2>3, <2>4, UserSearchAssumption
<1>4. ASSUME ids # {}
      PROVE  Take(ids) # {}
  <2>1. PICK x \in ids : \A y \in ids : x <= y
    BY <1>4, LeastId
  <2>2. before(x) = {}
    <3>1. ASSUME NEW y \in ids
          PROVE  ~(y < x)
      <4>1. x \in Nat /\ y \in Nat /\ x <= y
        BY <1>2, <2>1
      <4> QED
        BY <4>1
    <3> QED
      BY <3>1
  <2>3. Cardinality(before(x)) = 0
    BY <2>2, FS_EmptySet
  <2>4. 0 < Limit
    BY UserSearchAssumption
  <2> HIDE DEF before
  <2> QED
    BY <1>2, <2>1, <2>3, <2>4
<1> QED
  BY <1>2, <1>3, <1>4

(* The cursor is the first row from the cursor on, if it matches itself: so  *)
(* the page starts right behind it.                                          *)
LEMMA BehindCursor ==
  ASSUME NEW ids \in SUBSET Nat, NEW rows, ids \subseteq rows, lastUserId \in ids,
         lastUserId # NoCursor
  PROVE  Behind(ids, rows) = {i \in ids : lastUserId < i}
<1>1. \A i \in ids : (\E j \in ids : lastUserId <= j /\ j < i) <=> lastUserId < i
  OBVIOUS
<1> QED
  BY <1>1 DEF Behind

----------------------------------------------------------------------------
(* The steps                                                                 *)

LEMMA RegisterKeeps ==
  ASSUME SearchInv, NEW u \in UserId, NEW match \in BOOLEAN, Register(u, match)
  PROVE  SearchInv'
<1>1. SearchTypeOK'
  BY DEF SearchInv, SearchTypeOK, Register, readerVars, Profiles, UsersOf
<1>2. emails \subseteq emails'
  BY DEF Register
<1>3. (Begun /\ FirstPage /\ ByEmail /\ ByName /\ ~doubled)'
  BY <1>2 DEF SearchInv, Register, readerVars, Begun, FirstPage, ByEmail, ByName, Reached,
             SameIds, Profiles
<1> QED
  BY <1>1, <1>3 DEF SearchInv

LEMMA CreateProfileKeeps ==
  ASSUME SearchInv, NEW p \in ProfileId, NEW u \in UserId, NEW match \in BOOLEAN,
         CreateProfile(p, u, match)
  PROVE  SearchInv'
<1>1. /\ Profiles' = Profiles \union {p}
      /\ profileUser' \in [Profiles' -> users]
      /\ \A q \in Profiles : profileUser'[q] = profileUser[q]
      /\ names \subseteq names'
      /\ names' \subseteq names \union {p}
  BY DEF SearchInv, SearchTypeOK, CreateProfile, Profiles
<1>2. UsersOf(names) \subseteq UsersOf(names)'
  BY <1>1 DEF SearchInv, SearchTypeOK, UsersOf
<1>3. SearchTypeOK'
  <2>1. /\ users' = users /\ emails' = emails /\ UNCHANGED readerVars
    BY DEF CreateProfile
  <2> QED
    BY <1>1, <1>2, <2>1 DEF SearchInv, SearchTypeOK, readerVars
<1>4. SameIds' => SameIds
  BY <1>1 DEF SameIds
<1>5. (Begun /\ FirstPage /\ ByEmail /\ ByName /\ ~doubled)'
  BY <1>1, <1>4 DEF SearchInv, CreateProfile, readerVars, Begun, FirstPage, ByEmail, ByName,
                    Reached
<1> QED
  BY <1>3, <1>5 DEF SearchInv

LEMMA OpenSearchKeeps ==
  ASSUME SearchInv, OpenSearch
  PROVE  SearchInv'
  BY DEF SearchInv, SearchTypeOK, OpenSearch, tableVars, Begun, FirstPage, ByEmail, ByName,
         Reached, SameIds, Profiles, UsersOf

LEMMA CloseSearchKeeps ==
  ASSUME SearchInv, CloseSearch
  PROVE  SearchInv'
  BY DEF SearchInv, SearchTypeOK, CloseSearch, tableVars, Begun, FirstPage, ByEmail, ByName,
         Reached, SameIds, Profiles, UsersOf

(* The first query.  Without a cursor it finds the first profiles; behind a  *)
(* cursor that fits, the first ones behind it.                               *)
LEMMA FindProfilesKeeps ==
  ASSUME SearchInv, FindProfiles
  PROVE  SearchInv'
<1> DEFINE ids == Behind(names, Profiles)
<1>0. names \in SUBSET (1..MaxProfile) /\ MaxProfile \in Nat /\ names \subseteq Nat
  BY UserSearchAssumption DEF SearchInv, SearchTypeOK, ProfileId
<1>1. ids \in SUBSET names
  BY DEF Behind
<1>2. /\ found' \subseteq ids
      /\ \A i \in ids \ found', j \in found' : j < i
      /\ ids # {} => found' # {}
  <2>1. found' = Take(ids)
    BY DEF FindProfiles
  <2>2. ids \in SUBSET (1..MaxProfile)
    BY <1>0, <1>1
  <2> HIDE DEF ids
  <2> QED
    BY <1>0, <2>1, <2>2, TakeFirst
<1> HIDE DEF ids
<1>3. UNCHANGED <<lastUserId, known, shown, kinds, repeated, doubled, tableVars>>
      /\ reading = "profiles" /\ reading' = "users"
  BY DEF FindProfiles
<1>4. SearchTypeOK'
  BY <1>1, <1>2, <1>3 DEF SearchInv, SearchTypeOK, tableVars, Profiles, UsersOf
<1>5. Begun' /\ ByEmail' /\ ~doubled'
  BY <1>3 DEF SearchInv, tableVars, Begun, ByEmail, Reached
<1>6. FirstPage'
  <2> SUFFICES ASSUME kinds = {}
               PROVE  FirstPage'
    BY <1>3 DEF FirstPage
  <2>1. ids = names
    BY DEF SearchInv, Begun, Behind, ids
  <2>2. known \subseteq emails \union UsersOf(names)
    BY DEF SearchInv, SearchTypeOK
  <2>3. found' = {} => known \subseteq emails
    BY <1>2, <2>1, <2>2 DEF UsersOf
  <2>4. ASSUME SameIds, NEW u \in known \ found'
        PROVE  u \in emails \/ (u \in names /\ \A p \in found' : p < u)
    <3>1. UsersOf(names) \subseteq names
      BY <2>4 DEF SearchInv, SearchTypeOK, SameIds, UsersOf
    <3> QED
      BY <1>2, <2>1, <2>2, <3>1
  <2>5. SameIds' => SameIds
    BY <1>3 DEF SameIds, Profiles, tableVars
  <2> QED
    BY <1>3, <2>3, <2>4, <2>5 DEF SearchInv, FirstPage, tableVars
<1>7. ByName'
  <2> SUFFICES ASSUME kinds = {"name"}, SameIds
               PROVE  ByName'
    BY <1>3 DEF ByName, SameIds, Profiles, tableVars
  <2>1. Reached(names)
    BY DEF SearchInv, ByName
  <2>2. lastUserId \in names /\ lastUserId # NoCursor /\ names \subseteq Profiles
    BY <2>1 DEF SearchInv, SearchTypeOK, Begun, Reached
  <2>3. ids = {i \in names : lastUserId < i}
    BY <1>0, <2>2, BehindCursor DEF ids
  <2>4. Reached(names)'
    BY <1>3, <2>1 DEF Reached, tableVars
  <2>5. \A u \in known \ shown : u \in ids
    BY <2>1, <2>3 DEF Reached
  <2> QED
    BY <1>2, <1>3, <2>3, <2>4, <2>5 DEF ByName
<1> QED
  BY <1>4, <1>5, <1>6, <1>7 DEF SearchInv

(* The second query, and the cursor of the next page.                        *)
LEMMA FindUsersKeeps ==
  ASSUME SearchInv, FindUsers
  PROVE  SearchInv'
<1> DEFINE ids == Behind(emails \ UserFilter(found), users)
           page == Take(ids)
           searchResult == page \union UsersOf(found)
<1>0. /\ users \in SUBSET (1..MaxUser) /\ MaxUser \in Nat
      /\ found \in SUBSET (1..MaxProfile) /\ MaxProfile \in Nat
      /\ emails \subseteq users /\ users \subseteq Nat
      /\ found \subseteq names /\ names \subseteq Profiles /\ names \subseteq Nat
      /\ profileUser \in [Profiles -> users]
      /\ NoCursor \notin users
  <2>1. SearchTypeOK
    BY DEF SearchInv
  <2>2. users \in SUBSET (1..MaxUser) /\ MaxUser \in Nat /\ NoCursor \notin users
    BY <2>1, UserSearchAssumption DEF SearchTypeOK, UserId
  <2>3. Profiles \in SUBSET (1..MaxProfile) /\ MaxProfile \in Nat
    BY <2>1, UserSearchAssumption DEF SearchTypeOK, ProfileId
  <2>4. users \subseteq Nat /\ Profiles \subseteq Nat
    BY <2>2, <2>3
  <2> QED
    BY <2>1, <2>2, <2>3, <2>4 DEF SearchTypeOK
<1>1. ids \subseteq emails \ UsersOf(found)
  BY DEF Behind, UserFilter
<1>2. /\ page \subseteq ids
      /\ \A i \in ids \ page, j \in page : j < i
      /\ ids # {} => page # {}
  <2>1. ids \in SUBSET (1..MaxUser)
    BY <1>0, <1>1
  <2> HIDE DEF ids
  <2> QED
    BY <1>0, <2>1, TakeFirst
<1>3. page # {} => Max(page) \in page /\ \A u \in page : u <= Max(page)
  <2>1. page \in SUBSET (1..MaxUser)
    BY <1>0, <1>1, <1>2
  <2> HIDE DEF page
  <2> QED
    BY <1>0, <2>1, GreatestId
<1>4. found # {} => Max(found) \in found /\ \A p \in found : p <= Max(found)
  BY <1>0, GreatestId
<1>5. /\ reading = "users"
      /\ reading' = IF searchResult = {} THEN "done" ELSE "profiles"
      /\ lastUserId' = IF found # {} THEN profileUser[Max(found)]
                       ELSE IF page # {} THEN Max(page) ELSE lastUserId
      /\ found' = {}
      /\ shown' = shown \union searchResult
      /\ kinds' = kinds \union (IF page = {} THEN {} ELSE {"email"})
                       \union (IF found = {} THEN {} ELSE {"name"})
      /\ repeated' = (repeated \/ shown \intersect searchResult # {})
      /\ doubled' = (doubled \/ page \intersect UsersOf(found) # {})
      /\ UNCHANGED <<known, tableVars>>
  BY DEF FindUsers
<1>6. UsersOf(found) \subseteq UsersOf(names) /\ UsersOf(found) \subseteq users
      /\ (found = {} <=> UsersOf(found) = {})
  BY <1>0 DEF UsersOf
<1>7. UNCHANGED <<users, emails, profileUser, names, Profiles, UsersOf(names)>>
  BY <1>5 DEF tableVars, Profiles, UsersOf
<1> HIDE DEF ids, page
<1>8. searchResult = {} <=> page = {} /\ found = {}
  BY <1>6
<1>9. lastUserId' \in users \union {NoCursor}
  BY <1>0, <1>1, <1>2, <1>3, <1>4, <1>5 DEF SearchInv, SearchTypeOK
<1>10. SearchTypeOK'
  <2>1. searchResult \subseteq emails \union UsersOf(names)
    BY <1>1, <1>2, <1>6
  <2>2. kinds' \subseteq {"email", "name"}
    BY <1>5 DEF SearchInv, SearchTypeOK
  <2>3. repeated' \in BOOLEAN /\ doubled' \in BOOLEAN
    BY <1>5
  <2>4. shown' \subseteq emails \union UsersOf(names)
    BY <1>5, <2>1 DEF SearchInv, SearchTypeOK
  <2>5. reading' \in {"closed", "profiles", "users", "done"}
    BY <1>5
  <2> QED
    BY <1>5, <1>7, <1>9, <2>2, <2>3, <2>4, <2>5 DEF SearchInv, SearchTypeOK
<1>11. ~doubled'
  BY <1>1, <1>2, <1>5 DEF SearchInv
<1>12. Begun'
  <2>1. (page # {} \/ found # {}) => lastUserId' # NoCursor /\ kinds' # {}
    BY <1>0, <1>1, <1>2, <1>3, <1>4, <1>5
  <2>2. page = {} /\ found = {} => lastUserId' = lastUserId /\ kinds' = kinds
    BY <1>5
  <2> QED
    BY <1>5, <2>1, <2>2 DEF SearchInv, Begun
<1>13. FirstPage'
  <2> SUFFICES ASSUME kinds' = {}
               PROVE  FirstPage'
    BY DEF FirstPage
  <2>1. kinds = {} /\ page = {} /\ found = {} /\ searchResult = {}
    BY <1>5, <1>8
  <2>2. ids = emails
    BY <2>1, <1>6 DEF SearchInv, Begun, Behind, ids, UserFilter
  <2>3. known \subseteq emails /\ shown = {} /\ ~repeated
    BY <1>5, <2>1 DEF SearchInv, FirstPage
  <2>4. known = {}
    BY <1>2, <2>1, <2>2, <2>3
  <2> QED
    BY <1>5, <2>1, <2>3, <2>4 DEF FirstPage
<1>14. ByEmail'
  <2> SUFFICES ASSUME kinds' = {"email"}
               PROVE  Reached(emails)'
    BY DEF ByEmail
  <2>1. found = {} /\ searchResult = page /\ kinds \subseteq {"email"}
    BY <1>5, <1>6
  <2>2. CASE kinds = {}
    <3>1. ids = emails
      BY <2>1, <2>2, <1>6 DEF SearchInv, Begun, Behind, ids, UserFilter
    <3>2. known \subseteq emails /\ shown = {} /\ ~repeated
      BY <1>5, <2>1, <2>2 DEF SearchInv, FirstPage
    <3>3. page # {} /\ lastUserId' = Max(page) /\ shown' = page /\ ~repeated'
      BY <1>5, <2>1, <2>2, <3>2
    <3>4. Max(page) \in emails /\ \A u \in known \ page : Max(page) < u
      BY <1>2, <1>3, <3>1, <3>2, <3>3
    <3>5. reading' # "done"
      BY <1>5, <2>1, <3>3
    <3> QED
      BY <1>3, <1>5, <1>7, <3>2, <3>3, <3>4, <3>5 DEF Reached
  <2>3. CASE kinds = {"email"}
    <3>1. Reached(emails)
      BY <2>3 DEF SearchInv, ByEmail
    <3>2. ids = {i \in emails : lastUserId < i} /\ lastUserId \in emails
      <4>1. emails \ UserFilter(found) = emails
        BY <1>6, <2>1 DEF UserFilter
      <4>2. lastUserId \in emails /\ lastUserId # NoCursor
        BY <1>0, <3>1 DEF Reached
      <4>3. emails \in SUBSET Nat
        BY <1>0
      <4>4. Behind(emails, users) = {i \in emails : lastUserId < i}
        BY <1>0, <4>2, <4>3, BehindCursor
      <4> QED
        BY <4>1, <4>2, <4>4 DEF ids
    <3>3. known \ shown \subseteq ids
      BY <3>1, <3>2 DEF Reached
    <3>4. CASE page = {}
      <4>1. known \ shown = {} /\ shown' = shown /\ lastUserId' = lastUserId /\ ~repeated'
        BY <1>2, <1>5, <2>1, <3>1, <3>3, <3>4 DEF Reached
      <4> QED
        BY <1>5, <1>7, <3>1, <4>1 DEF Reached
    <3>5. CASE page # {}
      <4>1. lastUserId' = Max(page) /\ shown' = shown \union page /\ reading' # "done"
        BY <1>5, <2>1, <3>5
      <4>2. Max(page) \in emails /\ lastUserId < Max(page)
        BY <1>2, <1>3, <3>2, <3>5
      <4>3. shown \intersect page = {}
        <5>1. ASSUME NEW u \in shown, u \in page
              PROVE  FALSE
          <6>1. u \in Nat /\ lastUserId \in Nat /\ u <= lastUserId /\ lastUserId < u
            BY <1>0, <1>2, <3>1, <3>2, <5>1 DEF Reached
          <6> QED
            BY <6>1
        <5> QED
          BY <5>1
      <4>4. ~repeated'
        BY <1>5, <2>1, <3>1, <4>3 DEF Reached
      <4>5. \A u \in shown' : u <= lastUserId'
        <5>1. ASSUME NEW u \in shown
              PROVE  u <= Max(page)
          <6>1. u \in emails \union UsersOf(names)
            BY DEF SearchInv, SearchTypeOK
          <6>2. u \in Nat
            BY <1>0, <6>1 DEF UsersOf
          <6>3. u <= lastUserId /\ lastUserId \in Nat /\ Max(page) \in Nat
            BY <1>0, <3>1, <3>2, <4>2 DEF Reached
          <6> QED
            BY <4>2, <6>2, <6>3
        <5> QED
          BY <1>3, <3>5, <4>1, <5>1
      <4>6. \A u \in known \ shown' : lastUserId' < u
        BY <1>2, <1>3, <3>3, <3>5, <4>1
      <4> QED
        BY <1>5, <1>7, <3>1, <4>1, <4>2, <4>4, <4>5, <4>6 DEF Reached
    <3> QED
      BY <3>4, <3>5
  <2>4. kinds = {} \/ kinds = {"email"}
    BY <2>1
  <2> QED
    BY <2>2, <2>3, <2>4
<1>15. ByName'
  <2> SUFFICES ASSUME kinds' = {"name"}, SameIds
               PROVE  Reached(names)'
    BY <1>5, <1>7 DEF ByName, SameIds
  <2>1. page = {} /\ searchResult = UsersOf(found) /\ kinds \subseteq {"name"}
    BY <1>5
  <2>2. UsersOf(found) = found /\ UsersOf(names) = names
    BY <1>0 DEF SameIds, UsersOf
  <2>3. found # {} => lastUserId' = Max(found)
    BY <1>0, <1>4, <1>5 DEF SameIds
  <2>4. CASE kinds = {}
    <3>1. found # {}
      BY <1>5, <2>1, <2>4
    <3>2. ids = emails \ found
      BY <2>2, <2>4 DEF SearchInv, Begun, Behind, ids, UserFilter
    <3>3. emails \subseteq found
      BY <1>2, <2>1, <3>2
    <3>4. shown = {} /\ ~repeated
          /\ \A u \in known \ found : u \in names /\ \A p \in found : p < u
      BY <1>5, <2>4, <3>3 DEF SearchInv, FirstPage
    <3>5. shown' = found /\ ~repeated' /\ reading' # "done"
      BY <1>5, <2>1, <2>2, <3>1, <3>4
    <3> QED
      BY <1>0, <1>4, <1>5, <1>7, <2>3, <3>1, <3>4, <3>5 DEF Reached
  <2>5. CASE kinds = {"name"}
    <3>1. /\ Reached(names)
          /\ \A p \in found : lastUserId < p
          /\ \A u \in (known \ shown) \ found : found # {} /\ \A p \in found : p < u
      BY <1>5, <2>5 DEF SearchInv, ByName
    <3>2. CASE found = {}
      <4>1. known \ shown = {} /\ shown' = shown /\ lastUserId' = lastUserId /\ ~repeated'
        BY <1>5, <2>1, <2>2, <3>1, <3>2 DEF Reached
      <4> QED
        BY <1>5, <1>7, <3>1, <4>1 DEF Reached
    <3>3. CASE found # {}
      <4>1. shown' = shown \union found /\ reading' # "done" /\ lastUserId' = Max(found)
        BY <1>5, <2>1, <2>2, <2>3, <3>3
      <4>2. lastUserId < Max(found) /\ Max(found) \in names
        BY <1>0, <1>4, <3>1, <3>3
      <4>3. \A u \in shown : u \in Nat /\ u <= lastUserId /\ lastUserId \in Nat
        <5>1. shown \subseteq emails \union UsersOf(names)
          BY DEF SearchInv, SearchTypeOK
        <5> QED
          BY <1>0, <2>2, <3>1, <5>1 DEF Reached
      <4>4. shown \intersect found = {}
        <5>1. ASSUME NEW u \in shown, u \in found
              PROVE  FALSE
          <6>1. u \in Nat /\ lastUserId \in Nat /\ u <= lastUserId /\ lastUserId < u
            BY <3>1, <4>3, <5>1
          <6> QED
            BY <6>1
        <5> QED
          BY <5>1
      <4>5. ~repeated'
        BY <1>5, <2>1, <2>2, <3>1, <4>4 DEF Reached
      <4>6. \A u \in shown' : u <= lastUserId'
        <5>1. ASSUME NEW u \in shown
              PROVE  u <= Max(found)
          <6>1. u \in Nat /\ lastUserId \in Nat /\ u <= lastUserId /\ Max(found) \in Nat
            BY <1>0, <4>2, <4>3
          <6> QED
            BY <4>2, <6>1
        <5> QED
          BY <1>4, <3>3, <4>1, <5>1
      <4>7. \A u \in known \ shown' : u \in names /\ lastUserId' < u
        BY <1>4, <3>1, <3>3, <4>1 DEF Reached
      <4> QED
        BY <1>5, <1>7, <4>1, <4>2, <4>5, <4>6, <4>7 DEF Reached
    <3> QED
      BY <3>2, <3>3
  <2>6. kinds = {} \/ kinds = {"name"}
    BY <2>1
  <2> QED
    BY <2>4, <2>5, <2>6
<1> QED
  BY <1>10, <1>11, <1>12, <1>13, <1>14, <1>15 DEF SearchInv

----------------------------------------------------------------------------
(* The theorems                                                              *)

LEMMA SearchInvariant == SearchSpec => []SearchInv
<1>1. SearchInit => SearchInv
  <2> SUFFICES ASSUME SearchInit
               PROVE  SearchInv
    OBVIOUS
  <2>1. profileUser = [p \in {} |-> 0] /\ Profiles = {}
    BY DEF SearchInit, Profiles
  <2> QED
    BY <2>1 DEF SearchInit, SearchInv, SearchTypeOK, Begun, FirstPage, ByEmail, ByName,
                UsersOf
<1>2. SearchInv /\ [SearchNext]_searchVars => SearchInv'
  <2> SUFFICES ASSUME SearchInv, [SearchNext]_searchVars
               PROVE  SearchInv'
    OBVIOUS
  <2>1. ASSUME NEW u \in UserId, NEW match \in BOOLEAN, Register(u, match)
        PROVE  SearchInv'
    BY <2>1, RegisterKeeps
  <2>2. ASSUME NEW p \in ProfileId, NEW u \in UserId, NEW match \in BOOLEAN,
               CreateProfile(p, u, match)
        PROVE  SearchInv'
    BY <2>2, CreateProfileKeeps
  <2>3. CASE OpenSearch
    BY <2>3, OpenSearchKeeps
  <2>4. CASE FindProfiles
    BY <2>4, FindProfilesKeeps
  <2>5. CASE FindUsers
    BY <2>5, FindUsersKeeps
  <2>6. CASE CloseSearch
    BY <2>6, CloseSearchKeeps
  <2>7. CASE UNCHANGED searchVars
    BY <2>7 DEF searchVars, tableVars, readerVars, SearchInv, SearchTypeOK, Begun, FirstPage,
                ByEmail, ByName, Reached, SameIds, Profiles, UsersOf
  <2> QED
    BY <2>1, <2>2, <2>3, <2>4, <2>5, <2>6, <2>7 DEF SearchNext
<1> QED
  BY <1>1, <1>2, PTL DEF SearchSpec

(* Users, profiles, cursors and pages have their types: a profile belongs to *)
(* a user, a cursor is the id of one, and a client has only received users   *)
(* who match.                                                                *)
THEOREM SearchTypeCorrect == SearchSpec => []SearchTypeOK
<1>1. SearchInv => SearchTypeOK
  BY DEF SearchInv
<1> QED
  BY <1>1, SearchInvariant, PTL

(* While the cursor fits (searchUsers of user.service.ts), no page leaves a  *)
(* user behind who matched when the search began.                            *)
THEOREM NobodySkippedAlways == SearchSpec => []NobodySkipped
<1>1. SearchInv => NobodySkipped
  <2> SUFFICES ASSUME SearchInv, CursorFits, NEW u \in known \ shown
               PROVE  reading # "done" /\ (lastUserId # NoCursor => u > lastUserId)
    BY DEF NobodySkipped
  <2>1. CASE kinds = {}
    BY <2>1 DEF SearchInv, FirstPage, Begun
  <2>2. ASSUME NEW ids \in SUBSET Nat, Reached(ids)
        PROVE  reading # "done" /\ u > lastUserId
    BY <2>2 DEF Reached
  <2>3. emails \in SUBSET Nat /\ names \in SUBSET Nat
    BY UserSearchAssumption DEF SearchInv, SearchTypeOK, UserId, ProfileId
  <2>4. kinds = {} \/ Reached(emails) \/ Reached(names)
    <3>1. kinds \subseteq {"email"} => kinds = {} \/ kinds = {"email"}
      OBVIOUS
    <3>2. kinds \subseteq {"name"} => kinds = {} \/ kinds = {"name"}
      OBVIOUS
    <3> QED
      BY <3>1, <3>2 DEF SearchInv, ByEmail, ByName, CursorFits, SameIds
  <2> QED
    BY <2>1, <2>2, <2>3, <2>4
<1> QED
  BY <1>1, SearchInvariant, PTL

(* A page never lists a user by address and by name (mergeSimilarUsers and   *)
(* the filter of searchUsers), and while the cursor fits, no page brings a   *)
(* user that an earlier one had.                                             *)
THEOREM NobodyTwiceAlways == SearchSpec => []NobodyTwice
<1>1. SearchInv => NobodyTwice
  <2> SUFFICES ASSUME SearchInv, CursorFits
               PROVE  ~repeated
    BY DEF NobodyTwice, SearchInv
  <2>1. kinds \subseteq {"email"} => kinds = {} \/ kinds = {"email"}
    OBVIOUS
  <2>2. kinds \subseteq {"name"} => kinds = {} \/ kinds = {"name"}
    OBVIOUS
  <2> QED
    BY <2>1, <2>2 DEF SearchInv, FirstPage, ByEmail, ByName, Reached, CursorFits, SameIds
<1> QED
  BY <1>1, SearchInvariant, PTL

(* While the cursor fits every page that brings somebody moves it forward.   *)
THEOREM SearchMovesOnAlways == SearchSpec => SearchMovesOn
<1>1. ASSUME SearchInv, FindUsers, CursorFits', lastUserId # NoCursor
      PROVE  reading' = "done" \/ lastUserId' > lastUserId
  <2> DEFINE ids == Behind(emails \ UserFilter(found), users)
             page == Take(ids)
  <2>1. /\ reading' = IF page \union UsersOf(found) = {} THEN "done" ELSE "profiles"
        /\ lastUserId' = IF found # {} THEN profileUser[Max(found)]
                         ELSE IF page # {} THEN Max(page) ELSE lastUserId
        /\ kinds' = kinds \union (IF page = {} THEN {} ELSE {"email"})
                         \union (IF found = {} THEN {} ELSE {"name"})
        /\ UNCHANGED <<profileUser, Profiles>>
    BY <1>1 DEF FindUsers, tableVars, Profiles
  <2>2. /\ users \in SUBSET (1..MaxUser) /\ MaxUser \in Nat /\ emails \subseteq users
        /\ found \in SUBSET (1..MaxProfile) /\ MaxProfile \in Nat
        /\ found \subseteq Profiles /\ profileUser \in [Profiles -> users]
        /\ kinds # {} /\ kinds \subseteq {"email", "name"}
    BY <1>1, UserSearchAssumption
    DEF SearchInv, SearchTypeOK, Begun, UserId, ProfileId
  <2>3. ids \in SUBSET emails
    BY DEF Behind
  <2>4. page \in SUBSET (1..MaxUser) /\ page \subseteq ids
    <3> HIDE DEF ids
    <3> QED
      BY <2>2, <2>3, TakeFirst
  <2>5. found = {} <=> UsersOf(found) = {}
    BY DEF UsersOf
  <2>6. CASE kinds' \subseteq {"email"}
    <3>1. found = {} /\ kinds = {"email"}
      BY <2>1, <2>2, <2>6
    <3>2. lastUserId \in emails
      BY <1>1, <3>1 DEF SearchInv, ByEmail, Reached
    <3>3. ids = {i \in emails : lastUserId < i}
      <4>1. emails \ UserFilter(found) = emails
        BY <2>5, <3>1 DEF UserFilter
      <4>2. emails \in SUBSET Nat
        BY <2>2
      <4> QED
        BY <1>1, <2>2, <3>2, <4>1, <4>2, BehindCursor
    <3>4. page # {} => Max(page) \in page
      <4> HIDE DEF page
      <4> QED
        BY <2>2, <2>4, GreatestId
    <3>5. page # {} => lastUserId' = Max(page) /\ lastUserId < Max(page)
      <4> HIDE DEF ids
      <4> QED
        BY <2>1, <2>4, <3>1, <3>3, <3>4
    <3>6. page = {} => reading' = "done"
      BY <2>1, <2>5, <3>1
    <3> HIDE DEF ids, page
    <3>7. lastUserId \in Nat
      BY <2>2, <3>2
    <3>8. page # {} => lastUserId' \in Nat
      <4>1. \A u \in page : u \in Nat
        BY <2>2, <2>4
      <4> QED
        BY <3>4, <3>5, <4>1
    <3> QED
      BY <3>5, <3>6, <3>7, <3>8
  <2>7. CASE kinds' \subseteq {"name"} /\ \A p \in Profiles : profileUser[p] = p
    <3>1. page = {} /\ kinds = {"name"}
      BY <2>1, <2>2, <2>7
    <3>2. (\A p \in found : lastUserId < p) /\ lastUserId \in users
      BY <1>1, <2>7, <3>1 DEF SearchInv, SearchTypeOK, ByName, SameIds
    <3>3. found # {} => Max(found) \in found
      BY <2>2, GreatestId
    <3>4. found # {} => lastUserId' = Max(found) /\ lastUserId < Max(found)
      BY <2>1, <2>2, <2>7, <3>2, <3>3
    <3>5. found = {} => reading' = "done"
      BY <2>1, <2>5, <3>1
    <3>6. lastUserId \in Nat
      BY <2>2, <3>2
    <3>7. found # {} => lastUserId' \in Nat
      <4>1. \A p \in found : p \in Nat
        BY <2>2
      <4> QED
        BY <3>3, <3>4, <4>1
    <3> QED
      BY <3>4, <3>5, <3>6, <3>7
  <2> QED
    BY <1>1, <2>1, <2>6, <2>7 DEF CursorFits
<1>2. SearchInv /\ [SearchNext]_searchVars
        => [FindUsers /\ CursorFits' /\ lastUserId # NoCursor
              => reading' = "done" \/ lastUserId' > lastUserId]_searchVars
  BY <1>1
<1> QED
  BY <1>2, SearchInvariant, PTL DEF SearchSpec, SearchMovesOn
=============================================================================
