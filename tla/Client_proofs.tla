----------------------------- MODULE Client_proofs -----------------------------
(***************************************************************************)
(* Theorems about Client, for every number of accounts that sign in and    *)
(* every table of pages, queries and changes that fits TablesAssumption.   *)
(***************************************************************************)
EXTENDS Client, TLAPS

Changed == [at : {"sent", "written", "done", "lost", "refused"},
            page : DOMAIN Screens, what : DOMAIN Mutations,
            served : BOOLEAN]

\* A button of page p offers a role the change c; served says whether its guard
\* admits the role.
Offers(p, c, served) ==
  \E r \in Seeded : c \in Screens[p].offers[r] /\ (served <=> r \in Mutations[c].by)

\* The change is one a button of its page offered to the role that made it, and
\* tells in the query that is followed; the server refuses it for the role only.
ChangeOK ==
  \/ change = NoChange
  \/ /\ change \in Changed
     /\ Offers(change.page, change.what, change.served)
     /\ Seen(change.what, watched)
     /\ change.at = "refused" => ~change.served

\* The guards refuse the query to a role of this name, as a seed leaves it.
Unserved(name) == \E r \in Seeded : Called[r] = name /\ r \notin Cached[watched].by

\* No request is of a later account; one of this account is refused only as its
\* role may be, and a page shows a refusal only of that.
AccountsOK ==
  /\ fetch.of <= who
  /\ fetch.at # "none" /\ fetch.of = who /\ ~fetch.served => Unserved(Called[role])
  /\ denied => Mounted /\ Unserved(Called[role])

\* A session that began in a fresh application has only its own answers.
SessionOK ==
  left = "expired" =>
    /\ data # "none" => owner = who
    /\ fetch.at # "none" => fetch.of = who
    /\ page = "login" => data = "none" /\ fetch.at = "none"

\* What was invalidated is asked for again, or marked until a page shows it.
RefreshOK ==
  change.at = "done" /\ Invalidated(change.what) /\ data = "old" /\ ~blind =>
    stale /\ (Mounted /\ fetch.at = "none" => denied)

\* The inductive invariant.
CInv == TypeOK /\ ChangeOK /\ AccountsOK /\ SessionOK /\ RefreshOK

-----------------------------------------------------------------------------
LEMMA NumbersOfAccounts ==
  ASSUME TypeOK
  PROVE  Accounts \in Nat /\ who \in Nat /\ owner \in Nat /\ fetch.of \in Nat
<1>1. Accounts \in Nat
  BY ClientAssumption
<1> QED BY <1>1 DEF TypeOK

\* The change, while a step sets nothing but its state.
LEMMA ChangeAt ==
  ASSUME ChangeOK, NEW label \in {"written", "done", "lost", "refused"},
         change.at # "none", change' = [change EXCEPT !.at = label],
         watched' = watched,
         label = "refused" => ~change.served
  PROVE  /\ ChangeOK' /\ change'.at = label /\ change'.what = change.what
         /\ change'.page = change.page /\ change'.served = change.served
<1>1. change \in Changed
  BY DEF ChangeOK, NoChange
<1>2. /\ change' \in Changed /\ change'.at = label /\ change'.what = change.what
      /\ change'.page = change.page /\ change'.served = change.served
  BY <1>1 DEF Changed
<1>3. Offers(change.page, change.what, change.served) /\ Seen(change.what, watched)
  BY DEF ChangeOK, NoChange
<1> QED BY <1>1, <1>2, <1>3 DEF ChangeOK, Seen, Offers

LEMMA ChangeKept ==
  ASSUME ChangeOK, UNCHANGED <<change, watched>>
  PROVE  ChangeOK'
BY DEF ChangeOK, Seen, Offers

LEMMA ChangeStates ==
  ASSUME ChangeOK
  PROVE  change.at \in {"none", "sent", "written", "done", "lost", "refused"}
BY DEF ChangeOK, NoChange, Changed

\* What a role may be refused depends on its name only.
LEMMA UnservedKept ==
  ASSUME UNCHANGED watched, Called[role'] = Called[role]
  PROVE  Unserved(Called[role])' <=> Unserved(Called[role])
BY DEF Unserved

\* What is refused to a role may be refused to its name.
LEMMA UnservedRole ==
  ASSUME NEW r \in Seeded, r \notin Cached[watched].by
  PROVE  Unserved(Called[r])
BY DEF Unserved

LEMMA RequestType ==
  ASSUME NEW a \in 0..Accounts, NEW r
  PROVE  /\ Request(a, r) \in [at : {"none", "current", "old"}, of : 0..Accounts,
                              served : BOOLEAN]
         /\ Request(a, r).at = "current" /\ Request(a, r).of = a
         /\ Request(a, r).served <=> r \in Cached[watched].by
<1>1. /\ Request(a, r) \in [at : {"none", "current", "old"}, of : 0..Accounts,
                             served : BOOLEAN]
      /\ Request(a, r).at = "current" /\ Request(a, r).of = a
      /\ Request(a, r).served = (r \in Cached[watched].by)
  BY DEF Request
<1>2. Request(a, r).served <=> r \in Cached[watched].by
  BY <1>1, Zenon
<1> QED BY <1>1, <1>2

LEMMA NoFetchType ==
  /\ NoFetch \in [at : {"none", "current", "old"}, of : 0..Accounts,
                  served : BOOLEAN]
  /\ NoFetch.at = "none" /\ NoFetch.of = 0
<1>1. 0 \in 0..Accounts
  BY ClientAssumption
<1> QED BY <1>1 DEF NoFetch

-----------------------------------------------------------------------------
(* Pages that open *)

\* A page opens for account a in role r: the one that is signed in, or the next.
LEMMA OpenKeeps ==
  ASSUME CInv, NEW p \in DOMAIN Screens, NEW a \in 0..Accounts, NEW r \in Seeded,
         Open(p, a, r), who' = a, role' = r,
         \/ a = who /\ r = role /\ page # "login"
         \/ a = who + 1 /\ page = "login",
         UNCHANGED <<watched, data, owner, stale, change, blind, left>>
  PROVE  CInv'
<1> USE NumbersOfAccounts DEF CInv
<1>1. page' = p /\ p # "login" /\ denied' = FALSE
  BY ClientAssumption DEF Open
<1>2. TypeOK'
  BY <1>1, RequestType DEF TypeOK, Open
<1>3. ChangeOK'
  BY ChangeKept
<1>4. CASE fetch' = Request(a, r)
  <2>1. /\ fetch'.at = "current" /\ fetch'.of = a
        /\ fetch'.served <=> r \in Cached[watched].by
    BY <1>4, RequestType
  <2>2. AccountsOK'
    <3>1. /\ fetch'.of <= who' /\ ~denied'
          /\ role' = r /\ (~fetch'.served => r \notin Cached[watched].by)
      BY <1>1, <2>1
    <3>2. ~fetch'.served => Unserved(Called[role])'
      BY <3>1, UnservedRole DEF Unserved
    <3> QED  BY <3>1, <3>2 DEF AccountsOK
  <2>3. SessionOK'
    BY <1>1, <2>1 DEF SessionOK
  <2>4. RefreshOK'
    BY <2>1 DEF RefreshOK, Invalidated
  <2> QED BY <1>2, <1>3, <2>2, <2>3, <2>4
<1>5. CASE /\ fetch' = fetch
           /\ ~(watched \in Screens[p].shows /\ fetch.at = "none" /\ (data = "none" \/ stale))
  <2>1. AccountsOK'
    BY <1>1, <1>5, UnservedKept DEF AccountsOK
  <2>2. SessionOK'
    BY <1>1, <1>5 DEF SessionOK
  <2>3. RefreshOK'
    BY <1>1, <1>5 DEF RefreshOK, Invalidated, Mounted
  <2> QED BY <1>2, <1>3, <2>1, <2>2, <2>3
<1> QED BY <1>4, <1>5 DEF Open

LEMMA OpenPageKeeps ==
  ASSUME CInv, NEW p \in Near[watched], OpenPage(p)
  PROVE  CInv'
<1>1. p \in DOMAIN Screens /\ watched \in DOMAIN Cached
  BY ClientAssumption DEF Near, CInv, TypeOK
<1>2. who \in 0..Accounts /\ role \in Seeded
  BY DEF CInv, TypeOK
<1> QED BY <1>1, <1>2, OpenKeeps DEF OpenPage

LEMMA SignInKeeps ==
  ASSUME CInv, NEW r \in Seeded, SignIn(r)
  PROVE  CInv'
<1>1. who + 1 \in 0..Accounts
  BY NumbersOfAccounts DEF CInv, SignIn
<1> QED BY <1>1, OpenKeeps, ClientAssumption DEF SignIn

LEMMA LeavingKeeps ==
  ASSUME CInv, SignOut \/ Expire
  PROVE  CInv'
<1> USE NumbersOfAccounts, ClientAssumption DEF CInv
<1>1. CASE SignOut
  <2>1. /\ page' = "login" /\ denied' = FALSE /\ left' = "button"
        /\ UNCHANGED <<watched, who, role, data, owner, stale, fetch, change, blind>>
    BY <1>1 DEF SignOut, entry
  <2>2. TypeOK' /\ ChangeOK'
    BY <2>1, ChangeKept DEF TypeOK
  <2>3. AccountsOK' /\ SessionOK' /\ RefreshOK'
    BY <2>1, UnservedKept DEF AccountsOK, SessionOK, RefreshOK, Mounted, Invalidated
  <2> QED BY <2>2, <2>3
<1>2. CASE Expire
  <2>1. /\ page' = "login" /\ denied' = FALSE /\ left' = "expired" /\ blind' = FALSE
        /\ data' = "none" /\ owner' = 0 /\ stale' = FALSE /\ fetch' = NoFetch
        /\ UNCHANGED <<watched, who, role>>
    BY <1>2 DEF Expire
  <2>2. ChangeOK'
    <3>1. CASE change.at \in {"sent", "written"}
      BY <1>2, <2>1, <3>1, ChangeAt DEF Expire
    <3>2. CASE change.at \notin {"sent", "written"}
      BY <1>2, <2>1, <3>2, ChangeKept DEF Expire
    <3> QED BY <3>1, <3>2
  <2>3. change'.at \in {"none", "sent", "written", "done", "lost", "refused"}
    BY <2>2 DEF ChangeOK, NoChange, Changed
  <2>4. TypeOK'
    BY <2>1, <2>3, NoFetchType DEF TypeOK
  <2>5. AccountsOK' /\ SessionOK' /\ RefreshOK'
    BY <2>1, NoFetchType, UnservedKept DEF AccountsOK, SessionOK, RefreshOK
  <2> QED BY <2>2, <2>4, <2>5
<1> QED BY <1>1, <1>2

\* The role gets other grants: what it was refused it may have been before.
LEMMA ReseedKeeps ==
  ASSUME CInv, NEW r \in Seeded, Reseed(r)
  PROVE  CInv'
<1>1. /\ role' = r /\ Called[role'] = Called[role] /\ page # "login"
      /\ UNCHANGED <<watched, page, who, data, owner, stale, fetch, change, denied, blind, left>>
  BY DEF Reseed, entry
<1>2. TypeOK' /\ ChangeOK'
  BY <1>1, ChangeKept DEF CInv, TypeOK
<1>3. AccountsOK'
  BY <1>1, UnservedKept DEF CInv, AccountsOK, Mounted
<1>4. SessionOK' /\ RefreshOK'
  BY <1>1 DEF CInv, SessionOK, RefreshOK, Invalidated, Mounted
<1> QED BY <1>2, <1>3, <1>4 DEF CInv

-----------------------------------------------------------------------------
(* The cache *)

LEMMA CacheKeeps ==
  ASSUME CInv, Age \/ Collect \/ Arrive \/ Refuse \/ FetchFails
  PROVE  CInv'
<1> USE NumbersOfAccounts, ClientAssumption DEF CInv
<1>1. UNCHANGED <<watched, page, who, role, change, left>>
  BY DEF Age, Collect, Arrive, Refuse, FetchFails, account
<1>2. ChangeOK'
  BY <1>1, ChangeKept
<1>3. TypeOK'
  BY <1>1, NoFetchType DEF TypeOK, Age, Collect, Arrive, Refuse, FetchFails
<1>4. CASE Age \/ Collect
  <2>1. /\ UNCHANGED <<fetch, denied>>
        /\ \/ UNCHANGED <<data, owner, blind>> /\ stale' = TRUE
           \/ data' = "none"
    BY <1>4 DEF Age, Collect
  <2>2. AccountsOK' /\ SessionOK' /\ RefreshOK'
    BY <1>1, <2>1, <1>4, UnservedKept
       DEF AccountsOK, SessionOK, RefreshOK, Mounted, Invalidated
  <2> QED BY <1>2, <1>3, <2>2
<1>5. CASE Arrive
  <2>1. /\ data' = fetch.at /\ owner' = fetch.of /\ fetch' = NoFetch
        /\ fetch.at # "none" /\ denied' = FALSE
        /\ blind' = (fetch.at = "old" /\ change.at = "done")
    BY <1>5 DEF Arrive
  <2>2. AccountsOK'
    BY <1>1, <2>1, NoFetchType, UnservedKept DEF AccountsOK
  <2>3. SessionOK'
    BY <1>1, <2>1, NoFetchType DEF SessionOK
  <2>4. RefreshOK'
    BY <1>1, <2>1 DEF RefreshOK
  <2> QED BY <1>2, <1>3, <2>2, <2>3, <2>4
<1>6. CASE Refuse
  <2>1. /\ fetch' = NoFetch /\ fetch.at # "none" /\ ~fetch.served
        /\ denied' = (Mounted /\ fetch.of = who)
        /\ blind' = (blind \/ (Mounted /\ fetch.of # who /\ change.at = "done"))
        /\ UNCHANGED <<data, owner, stale>>
    BY <1>6 DEF Refuse
  <2>2. AccountsOK'
    <3>1. fetch'.of <= who' /\ fetch'.at = "none"
      BY <1>1, <2>1, NoFetchType
    <3>2. denied' => Mounted' /\ Unserved(Called[role])'
      BY <1>1, <2>1, UnservedKept DEF AccountsOK, Mounted
    <3> QED BY <3>1, <3>2, UnservedKept DEF AccountsOK
  <2>3. SessionOK'
    BY <1>1, <2>1, NoFetchType DEF SessionOK
  <2>4. RefreshOK'
    BY <1>1, <2>1, NoFetchType DEF RefreshOK, Mounted, Invalidated
  <2> QED BY <1>2, <1>3, <2>2, <2>3, <2>4
<1>7. CASE FetchFails
  <2>1. /\ fetch' = NoFetch
        /\ blind' = (blind \/ change.at \in {"written", "done"})
        /\ UNCHANGED <<data, owner, stale, denied>>
    BY <1>7 DEF FetchFails
  <2>2. AccountsOK' /\ SessionOK'
    BY <1>1, <2>1, NoFetchType, UnservedKept DEF AccountsOK, SessionOK, Mounted
  <2>3. RefreshOK'
    BY <1>1, <2>1 DEF RefreshOK
  <2> QED BY <1>2, <1>3, <2>2, <2>3
<1> QED BY <1>4, <1>5, <1>6, <1>7

-----------------------------------------------------------------------------
(* The change *)

LEMMA PressKeeps ==
  ASSUME CInv, NEW c \in DOMAIN Mutations, Press(c)
  PROVE  CInv'
<1> USE NumbersOfAccounts, ClientAssumption DEF CInv
<1>0. PICK ok \in BOOLEAN : ok = (role \in Mutations[c].by)
  <2>1. CASE role \in Mutations[c].by
    <3>1. (role \in Mutations[c].by) = TRUE
      BY <2>1
    <3> QED  BY <3>1
  <2>2. CASE role \notin Mutations[c].by
    <3>1. (role \in Mutations[c].by) = FALSE
      BY <2>2
    <3> QED  BY <3>1
  <2> QED  BY <2>1, <2>2
<1> DEFINE new == [at |-> "sent", page |-> page, what |-> c, served |-> ok]
<1>1. /\ UNCHANGED <<watched, page, who, role, data, owner, stale, fetch, denied, blind, left>>
      /\ c \in Screens[page].offers[role] /\ Seen(c, watched)
      /\ page # "login" /\ change' = new
  BY <1>0 DEF Press, account, entry
<1>2. new \in Changed /\ new.at = "sent" /\ new.what = c /\ new.page = page /\ new.served = ok
  BY <1>1 DEF TypeOK, Changed
<1> HIDE DEF new
<1>a. ok <=> role \in Mutations[c].by
  BY <1>0, Zenon
<1>b. Offers(page, c, ok)
  BY <1>1, <1>a DEF Offers, TypeOK
<1>c. /\ change' \in Changed /\ change'.at = "sent"
      /\ Offers(change'.page, change'.what, change'.served)
  BY <1>1, <1>2, <1>b
<1>d. Seen(change.what, watched)'
  BY <1>1, <1>2 DEF Seen
<1>3. ChangeOK'
  BY <1>c, <1>d DEF ChangeOK
<1>4. TypeOK'
  BY <1>1, <1>2 DEF TypeOK
<1>5. AccountsOK' /\ SessionOK' /\ RefreshOK'
  BY <1>1, <1>2, UnservedKept DEF AccountsOK, SessionOK, RefreshOK, Mounted
<1> QED BY <1>3, <1>4, <1>5

LEMMA WriteKeeps ==
  ASSUME CInv, Write
  PROVE  CInv'
<1> USE NumbersOfAccounts, ClientAssumption DEF CInv
<1>1. /\ UNCHANGED <<watched, page, who, role, owner, stale, denied, blind, left>>
      /\ change.at = "sent" /\ change' = [change EXCEPT !.at = "written"]
      /\ data' = IF data = "none" THEN "none" ELSE "old"
  BY DEF Write, account
<1>2. PICK f \in {fetch.at, IF fetch.at = "none" THEN "none" ELSE "old"} :
        fetch' = [fetch EXCEPT !.at = f]
  BY DEF Write
<1>3. ChangeOK' /\ change'.at = "written"
  BY <1>1, ChangeAt
<1>4. /\ fetch' \in [at : {"none", "current", "old"}, of : 0..Accounts, served : BOOLEAN]
      /\ fetch'.of = fetch.of /\ fetch'.served = fetch.served
      /\ fetch'.at = "none" <=> fetch.at = "none"
  BY <1>2 DEF TypeOK
<1>5. TypeOK'
  BY <1>1, <1>3, <1>4 DEF TypeOK
<1>6. AccountsOK' /\ SessionOK' /\ RefreshOK'
  BY <1>1, <1>3, <1>4, UnservedKept DEF AccountsOK, SessionOK, RefreshOK, Mounted
<1> QED BY <1>3, <1>5, <1>6

LEMMA OutcomeKeeps ==
  ASSUME CInv, Forbid \/ LoseAnswer
  PROVE  CInv'
<1> USE NumbersOfAccounts, ClientAssumption DEF CInv
<1>1. /\ UNCHANGED <<watched, page, who, role, data, owner, stale, fetch, denied, blind, left>>
      /\ change.at # "none"
  BY DEF Forbid, LoseAnswer, account, entry
<1>2. PICK label \in {"refused", "lost"} :
        /\ change' = [change EXCEPT !.at = label]
        /\ label = "refused" => ~change.served
  BY DEF Forbid, LoseAnswer
<1>3. ChangeOK' /\ change'.at = label
  BY <1>1, <1>2, ChangeAt
<1>4. TypeOK'
  BY <1>1, <1>3 DEF TypeOK
<1>5. AccountsOK' /\ SessionOK' /\ RefreshOK'
  BY <1>1, <1>3, UnservedKept DEF AccountsOK, SessionOK, RefreshOK, Mounted
<1> QED BY <1>3, <1>4, <1>5

\* onSuccess: a page that shows the query asks for it again, another finds it
\* marked.
LEMMA SucceedKeeps ==
  ASSUME CInv, Succeed
  PROVE  CInv'
<1> USE NumbersOfAccounts, ClientAssumption DEF CInv
<1> DEFINE again == /\ Invalidated(change.what) /\ Mounted
                    /\ fetch.at = "none" \/ data # "none"
<1>1. /\ UNCHANGED <<watched, page, who, role, data, owner, denied, blind, left>>
      /\ change.at = "written" /\ change' = [change EXCEPT !.at = "done"]
      /\ stale' = (stale \/ (data # "none" /\ Invalidated(change.what)))
      /\ fetch' = IF again THEN Request(who, role) ELSE fetch
  BY DEF Succeed, account
<1>2. ChangeOK' /\ change'.at = "done" /\ change'.what = change.what
  BY <1>1, ChangeAt
<1>3. who \in 0..Accounts /\ role \in Seeded
  BY DEF TypeOK
<1>4. TypeOK'
  BY <1>1, <1>2, <1>3, RequestType DEF TypeOK
<1>5. CASE again
  <2>1. /\ fetch'.at = "current" /\ fetch'.of = who
        /\ fetch'.served <=> role \in Cached[watched].by
    BY <1>1, <1>3, <1>5, RequestType
  <2>2. page # "login"
    BY <1>5 DEF Mounted
  <2>3. SessionOK'
    BY <1>1, <2>1, <2>2 DEF SessionOK
  <2>5. AccountsOK'
    <3>1. fetch'.of <= who' /\ (~fetch'.served => role \notin Cached[watched].by)
      BY <1>1, <2>1
    <3>2. (~fetch'.served \/ denied') => Unserved(Called[role])'
      BY <1>1, <1>3, <3>1, UnservedRole, UnservedKept DEF AccountsOK
    <3>3. denied' => Mounted'
      BY <1>1 DEF AccountsOK, Mounted
    <3> QED  BY <3>1, <3>2, <3>3 DEF AccountsOK
  <2>4. RefreshOK'
    BY <1>1, <1>2, <1>5, <2>1 DEF RefreshOK
  <2> QED BY <1>2, <1>4, <2>3, <2>4, <2>5
<1>6. CASE ~again
  <2>1. fetch' = fetch
    BY <1>1, <1>6
  <2>2. AccountsOK' /\ SessionOK'
    BY <1>1, <2>1, UnservedKept DEF AccountsOK, SessionOK, Mounted
  <2>3. RefreshOK'
    BY <1>1, <1>2, <1>6, <2>1 DEF RefreshOK, Invalidated, Mounted
  <2> QED BY <1>2, <1>4, <2>2, <2>3
<1> QED BY <1>5, <1>6

-----------------------------------------------------------------------------
LEMMA InitCInv == Init => CInv
<1> SUFFICES ASSUME Init PROVE CInv
  OBVIOUS
<1>1. NoChange.at = "none"
  BY DEF NoChange
<1>2. TypeOK
  BY <1>1, NoFetchType, ClientAssumption DEF Init, TypeOK
<1>3. AccountsOK /\ SessionOK /\ RefreshOK /\ ChangeOK
  BY <1>1, NoFetchType, UnservedKept DEF Init, AccountsOK, SessionOK, RefreshOK, ChangeOK
<1> QED BY <1>2, <1>3 DEF CInv

LEMMA NextCInv == CInv /\ [Next]_vars => CInv'
<1> SUFFICES ASSUME CInv, [Next]_vars PROVE CInv'
  OBVIOUS
<1>1. CASE UNCHANGED vars
  <2>1. UNCHANGED <<watched, page, who, role, data, owner, stale, fetch, change, denied,
                    blind, left>>
    BY <1>1 DEF vars, account, entry
  <2>2. TypeOK' /\ ChangeOK'
    BY <2>1, ChangeKept DEF CInv, TypeOK
  <2>3. AccountsOK' /\ SessionOK' /\ RefreshOK'
    BY <2>1, UnservedKept DEF CInv, AccountsOK, SessionOK, RefreshOK, Mounted, Invalidated
  <2> QED BY <2>2, <2>3 DEF CInv
<1> QED BY <1>1, OpenPageKeeps, SignInKeeps, ReseedKeeps, LeavingKeeps, CacheKeeps, PressKeeps,
   WriteKeeps, OutcomeKeeps, SucceedKeeps DEF Next

\* The invariant holds: who asked for what, and what was invalidated is asked
\* for again or marked.
THEOREM ClientInductive == Spec => []CInv
BY InitCInv, NextCInv, PTL DEF Spec

\* The cache, the session and the change keep their types.
THEOREM ClientTypeCorrect == Spec => []TypeOK
<1>1. CInv => TypeOK
  BY DEF CInv
<1> QED BY <1>1, ClientInductive, PTL

\* With any number of accounts in a tab, only the cache that outlives the
\* button of signing out shows a page what another account was answered.
THEOREM ExpiredSessionsShowOwn == Spec => []ForeignOnlyAfterLogout
<1>1. CInv => ForeignOnlyAfterLogout
  BY DEF CInv, TypeOK, SessionOK, ForeignOnlyAfterLogout
<1> QED BY <1>1, ClientInductive, PTL

\* What a page shows of its own change is asked for again by the mutation,
\* however sign-ins, answers and pages follow each other.
THEOREM OwnWritesAreShown == Spec => []PageShowsOwnWrite
<1>1. ASSUME CInv, change.at = "done", change.page = page, Mounted, fetch.at = "none",
             ~blind, ~denied, ~Forgotten(change.what, watched)
      PROVE  data # "old"
  <2>1. /\ page \in DOMAIN Screens /\ Offers(page, change.what, change.served)
        /\ Seen(change.what, watched) /\ watched \in Screens[page].shows
    BY <1>1 DEF CInv, ChangeOK, NoChange, Changed, Mounted
  <2>2. Invalidated(change.what)
    BY <1>1, <2>1, TablesAssumption DEF Invalidated, Offers
  <2> QED BY <1>1, <2>2 DEF CInv, RefreshOK
<1>2. CInv => PageShowsOwnWrite
  BY <1>1 DEF PageShowsOwnWrite
<1> QED BY <1>2, ClientInductive, PTL

\* A refusal on a page is one of the signed-in role, on that page, as one of the
\* seeds left it; so the menu leads it to those of the tables only.
THEOREM MenuLeadsToServed == Spec => []MenuServed
<1>1. ASSUME CInv, denied, page \in MenuOf[role]
      PROVE  RefusedInMenu(Called[role], watched)
  <2>1. /\ page \in DOMAIN Screens /\ watched \in Screens[page].shows
        /\ watched \in DOMAIN Cached /\ role \in Seeded /\ Unserved(Called[role])
    BY <1>1, UnservedKept DEF CInv, AccountsOK, Mounted, TypeOK
  <2>2. PICK r \in Seeded : Called[r] = Called[role] /\ r \notin Cached[watched].by
    BY <2>1 DEF Unserved
  <2>3. page \in MenuOf[r]
    BY <1>1, <2>1, <2>2, ClientAssumption
  <2> QED BY <2>1, <2>2, <2>3, TablesAssumption
<1>2. CInv => MenuServed
  BY <1>1 DEF MenuServed
<1> QED BY <1>2, ClientInductive, PTL

\* A change that is refused was offered to every role, whoever signed in since
\* the button was drawn.
THEOREM GuardedButtonsWork == Spec => []GuardedButtonsServed
<1>1. ASSUME CInv, change.at = "refused"
      PROVE  change.what \in Screens[change.page].common
  <2>1. /\ change.page \in DOMAIN Screens /\ ~change.served
        /\ Offers(change.page, change.what, change.served)
    BY <1>1 DEF CInv, ChangeOK, NoChange, Changed
  <2> QED BY <2>1, TablesAssumption DEF Offers
<1>2. CInv => GuardedButtonsServed
  BY <1>1 DEF GuardedButtonsServed
<1> QED BY <1>2, ClientInductive, PTL
=============================================================================
