------------------------------- MODULE Client --------------------------------
(***************************************************************************)
(* The single-page application of one browser tab: the cache of React      *)
(* Query, the buttons and the accounts that sign in one after another. The *)
(* entries of the cache do not influence each other, so a behaviour        *)
(* follows one of them and one change made by a button.  The pages, their  *)
(* queries and their buttons are parameters; module Pages has the values.  *)
(***************************************************************************)
EXTENDS Naturals, SequencesExt

CONSTANTS
  Accounts,  \* bound on the accounts that sign in
  Seeded,    \* the roles accounts have, each as one of the seeds leaves it
  Called,    \* the name of each
  Cached,    \* key of each query -> what it reads and the roles it is served to
  Mutations, \* name of each change -> what it writes, whom it is served to and the keys
             \* it invalidates
  Screens,   \* page -> keys it shows, changes it offers each role and offers all
  MenuOf     \* role -> pages the menu leads to

ASSUME ClientAssumption ==
  /\ Accounts \in Nat \ {0}
  /\ "employee" \in Seeded
  /\ \A p \in DOMAIN Screens :
       /\ Screens[p].shows \subseteq DOMAIN Cached
       /\ \A r \in Seeded : Screens[p].offers[r] \subseteq DOMAIN Mutations
  /\ "dashboard" \in DOMAIN Screens /\ "login" \notin DOMAIN Screens
  \* The permissions remembered since the sign-in draw what the new ones would.
  /\ \A r, s \in Seeded : Called[r] = Called[s] =>
       MenuOf[r] = MenuOf[s] /\ \A p \in DOMAIN Screens : Screens[p].offers[r] = Screens[p].offers[s]

VARIABLES
  watched,  \* the key of the query that is followed
  page,     \* the page on screen; "login" when nobody is signed in
  who,      \* number of the account that signed in last
  role,     \* its role, as the guards find it
  data,     \* answer in the cache: "none", or whether it knows of the change
  owner,    \* the account whose request it answered
  stale,    \* whether it was invalidated or is older than five minutes
  fetch,    \* the request in flight
  change,   \* the change
  denied,   \* whether the account was refused the query on this page
  blind,    \* history: the last request since the change failed or was overtaken by it
  left      \* history: how the account before this one left

entry == <<data, owner, stale, fetch>>
account == <<page, who, role>>
vars == <<watched, account, entry, change, denied, blind, left>>

\* The changes of which the answer of a query may tell.
Seen(c, k) == Mutations[c].writes \intersect Cached[k].reads # {}

\* The pages that show a query or change its tables; others differ from these
\* in nothing that concerns it.
Near == [k \in DOMAIN Cached |-> {"dashboard"} \union
  {p \in DOMAIN Screens : \/ k \in Screens[p].shows
                 \/ \E r \in Seeded : \E c \in Screens[p].offers[r] : Seen(c, k)}]

Mounted == page \in DOMAIN Screens /\ watched \in Screens[page].shows
NoFetch == [at |-> "none", of |-> 0, served |-> FALSE]
NoChange == [at |-> "none", page |-> "login"]

TypeOK ==
  /\ watched \in DOMAIN Cached
  /\ page \in DOMAIN Screens \union {"login"} /\ who \in 0..Accounts /\ role \in Seeded
  /\ data \in {"none", "current", "old"} /\ owner \in 0..Accounts /\ stale \in BOOLEAN
  /\ fetch \in [at : {"none", "current", "old"}, of : 0..Accounts, served : BOOLEAN]
  /\ change.at \in {"none", "sent", "written", "done", "lost", "refused"}
  /\ denied \in BOOLEAN /\ blind \in BOOLEAN /\ left \in {"button", "expired"}

Init ==
  /\ watched \in DOMAIN Cached
  /\ page = "login" /\ who = 0 /\ role = "employee"
  /\ data = "none" /\ owner = 0 /\ stale = FALSE /\ fetch = NoFetch
  /\ change = NoChange
  /\ denied = FALSE /\ blind = FALSE /\ left = "expired"

-----------------------------------------------------------------------------
Request(a, r) == [at |-> "current", of |-> a, served |-> r \in Cached[watched].by]

\* Mutation: the error of the page before stays.
OpenKeepingError(p, a, r) ==
  /\ page' = p
  /\ fetch' = IF watched \in Screens[p].shows /\ fetch.at = "none" /\ (data = "none" \/ stale)
              THEN Request(a, r) ELSE fetch
  /\ denied' = denied

\* A component that mounts asks unless the cache holds a fresh answer or a
\* request for it is in flight.
Open(p, a, r) ==
  /\ page' = p
  /\ fetch' = IF watched \in Screens[p].shows /\ fetch.at = "none" /\ (data = "none" \/ stale)
              THEN Request(a, r) ELSE fetch
  /\ denied' = FALSE

\* By the menu or by a link within the application.
OpenPage(p) ==
  /\ page # "login" /\ page # p
  /\ Open(p, who, role)
  /\ UNCHANGED <<watched, who, role, data, owner, stale, change, blind, left>>

\* Signing in leads to the dashboard.
SignIn(r) ==
  /\ page = "login" /\ who < Accounts
  /\ who' = who + 1 /\ role' = r
  /\ Open("dashboard", who + 1, r)
  /\ UNCHANGED <<watched, data, owner, stale, change, blind, left>>

\* One of the seeds is run, here or elsewhere, and gives the role other grants.
Reseed(r) ==
  /\ page # "login" /\ r # role /\ Called[r] = Called[role]
  /\ role' = r
  /\ UNCHANGED <<watched, page, who, entry, change, denied, blind, left>>

\* The button forgets the tokens and moves to the login page within the
\* application: the cache and the requests in flight stay.
SignOut ==
  /\ page # "login"
  /\ page' = "login" /\ denied' = FALSE /\ left' = "button"
  /\ UNCHANGED <<watched, who, role, entry, change, blind>>

\* Mutation: the session ends as by the button.
ExpireInside ==
  /\ page # "login"
  /\ page' = "login" /\ denied' = FALSE /\ left' = "expired"
  /\ UNCHANGED <<watched, who, role, entry, change, blind>>

\* When no refresh helps a 401, window.location loads the application anew.
Expire ==
  /\ page # "login"
  /\ page' = "login" /\ denied' = FALSE /\ left' = "expired"
  /\ data' = "none" /\ owner' = 0 /\ stale' = FALSE /\ fetch' = NoFetch
  /\ change' = IF change.at \in {"sent", "written"} THEN [change EXCEPT !.at = "lost"] ELSE change
  /\ blind' = FALSE
  /\ UNCHANGED <<watched, who, role>>

\* Five minutes after the answer.
Age ==
  /\ data # "none" /\ ~stale
  /\ stale' = TRUE
  /\ UNCHANGED <<watched, account, data, owner, fetch, change, denied, blind, left>>

\* Five minutes after the last page that shows it was left.
Collect ==
  /\ data # "none" /\ ~Mounted /\ fetch.at = "none"
  /\ data' = "none" /\ owner' = 0 /\ stale' = FALSE
  /\ blind' = FALSE
  /\ UNCHANGED <<watched, account, fetch, change, denied, left>>

-----------------------------------------------------------------------------
\* An answer is fresh whatever was invalidated while it was under way.
Arrive ==
  /\ fetch.at # "none" /\ fetch.served
  /\ data' = fetch.at /\ owner' = fetch.of /\ stale' = FALSE /\ fetch' = NoFetch
  /\ denied' = FALSE
  /\ blind' = (fetch.at = "old" /\ change.at = "done")
  /\ UNCHANGED <<watched, account, change, left>>

\* A guard answers 403, to the retry too; the page shows it, whichever account
\* had asked.
Refuse ==
  /\ fetch.at # "none" /\ ~fetch.served
  /\ fetch' = NoFetch
  /\ denied' = (Mounted /\ fetch.of = who)
  /\ blind' = (blind \/ (Mounted /\ fetch.of # who /\ change.at = "done"))
  /\ UNCHANGED <<watched, account, data, owner, stale, change, left>>

\* Neither the request nor its one retry is answered.
FetchFails ==
  /\ fetch.at # "none"
  /\ fetch' = NoFetch
  /\ blind' = (blind \/ change.at \in {"written", "done"})
  /\ UNCHANGED <<watched, account, data, owner, stale, change, denied, left>>

\* Mutation: the button is drawn for every role.
PressHidden(c) ==
  /\ page # "login" /\ change.at = "none"
  /\ \E r \in Seeded : c \in Screens[page].offers[r]
  /\ Seen(c, watched)
  /\ change' = [at |-> "sent", page |-> page, what |-> c, served |-> role \in Mutations[c].by]
  /\ UNCHANGED <<watched, account, entry, denied, blind, left>>

\* A button is drawn for the roles that hasPermission names when it is pressed.
Press(c) ==
  /\ page # "login" /\ change.at = "none"
  /\ c \in Screens[page].offers[role] /\ Seen(c, watched)
  /\ change' = [at |-> "sent", page |-> page, what |-> c, served |-> role \in Mutations[c].by]
  /\ UNCHANGED <<watched, account, entry, denied, blind, left>>

\* A request in flight may have been answered before the change.
Write ==
  /\ change.at = "sent" /\ change.served
  /\ change' = [change EXCEPT !.at = "written"]
  /\ data' = IF data = "none" THEN "none" ELSE "old"
  /\ \E f \in {fetch.at, IF fetch.at = "none" THEN "none" ELSE "old"} :
       fetch' = [fetch EXCEPT !.at = f]
  /\ UNCHANGED <<watched, account, owner, stale, denied, blind, left>>

Forbid ==
  /\ change.at = "sent" /\ ~change.served
  /\ change' = [change EXCEPT !.at = "refused"]
  /\ UNCHANGED <<watched, account, entry, denied, blind, left>>

Invalidates(c, k) == \E i \in Mutations[c].refreshes : IsPrefix(i, k)
Invalidated(c) == Invalidates(c, watched)

\* Mutation: what is on screen is marked and not asked for again.
SucceedMarking ==
  /\ change.at = "written"
  /\ change' = [change EXCEPT !.at = "done"]
  /\ stale' = (stale \/ (data # "none" /\ Invalidated(change.what)))
  /\ UNCHANGED <<watched, account, data, owner, fetch, denied, blind, left>>

\* onSuccess invalidates; what is on screen is asked for again. A request in
\* flight is given up for that only when the cache holds an older answer.
Succeed ==
  /\ change.at = "written"
  /\ change' = [change EXCEPT !.at = "done"]
  /\ stale' = (stale \/ (data # "none" /\ Invalidated(change.what)))
  /\ fetch' = IF Invalidated(change.what) /\ Mounted /\ (fetch.at = "none" \/ data # "none")
              THEN Request(who, role) ELSE fetch
  /\ UNCHANGED <<watched, account, data, owner, denied, blind, left>>

LoseAnswer ==
  /\ change.at = "written"
  /\ change' = [change EXCEPT !.at = "lost"]
  /\ UNCHANGED <<watched, account, entry, denied, blind, left>>

Next ==
  \/ \E p \in Near[watched] : OpenPage(p)
  \/ \E r \in Seeded : SignIn(r) \/ Reseed(r)
  \/ SignOut \/ Expire \/ Age \/ Collect
  \/ Arrive \/ Refuse \/ FetchFails
  \/ \E c \in DOMAIN Mutations : Press(c)
  \/ Write \/ Forbid \/ Succeed \/ LoseAnswer

Spec == Init /\ [][Next]_vars

-----------------------------------------------------------------------------
\* The changes after which a page goes on showing an answer that may be
\* wrong: the mutation does not know the key.
Forgotten(c, k) ==
  \/ /\ c \in {"createRole", "updateRole", "deleteRole", "assignPermissions"}
     /\ k = <<"settings", "permissions">>
  \/ c \in {"createUser", "updateUser", "deleteUser"} /\ k = <<"rbac", "roles">>
  \/ /\ c \in {"updateCandidateStage", "convertToEmployee", "deleteCandidate"}
     /\ k = <<"recruitment", "jobs", "undefined">>
  \/ c \in {"approvePayroll", "processPayroll"} /\ k = <<"payroll", "summary", "id">>
  \/ c = "createSalaryStructure" /\ k = <<"salary-structures">>
  \/ c \in {"approveStep", "rejectStep"} /\ k # <<"workflow", "pending-approvals">>

\* A page on which a button made a change that succeeded does not go on
\* showing what it showed before, unless the mutation forgets the query, it is
\* refused, a request failed or was under way when the change succeeded.
PageShowsOwnWrite ==
  (change.at = "done" /\ change.page = page /\ Mounted /\ fetch.at = "none" /\ ~blind /\ ~denied)
    => data # "old" \/ Forgotten(change.what, watched)

\* What the menu leads a role of that name to is refused only so: the landing
\* page to hr and employees, the departments to employees (once POST /rbac/seed
\* has run), the roles to all but admins, the users to all but admins and HR
\* managers, and shifts and holidays to everybody.
RefusedInMenu(name, k) ==
  \/ k = <<"executive", "summary">> /\ name \in {"hr", "employee"}
  \/ k = <<"departments", "list">> /\ name = "employee"
  \/ /\ k \in {<<"settings", "roles">>, <<"settings", "permissions">>, <<"rbac", "roles">>}
     /\ name # "admin"
  \/ k = <<"users", "list", "undefined">> /\ name \in {"hr", "manager", "employee"}
  \/ k \in {<<"shifts">>, <<"holidays", "year">>}

\* Whichever seed ran last, also while the account is signed in, a page the menu
\* leads to (Sidebar, navigation) shows a refusal of the guards only there.
MenuServed == denied /\ page \in MenuOf[role] => RefusedInMenu(Called[role], watched)

\* A button that is drawn only for some roles is not refused to them
\* (hasPermission of the pages, the guards of the controllers).
GuardedButtonsServed ==
  change.at = "refused" =>
    change.what \in Screens[change.page].common

\* A page shows what another account was answered only when that account
\* left by the button (the cache outlives it).
ForeignOnlyAfterLogout == (Mounted /\ data # "none" /\ owner # who) => left = "button"

\* What the tables of the pages have to be like: the menu leads to what is
\* served, a guarded button to a change its roles may make, and a mutation
\* invalidates the queries beside its button or is one of those that forget.
ASSUME TablesAssumption ==
  /\ \A p \in DOMAIN Screens, k \in DOMAIN Cached, r \in Seeded :
       p \in MenuOf[r] /\ k \in Screens[p].shows /\ r \notin Cached[k].by => RefusedInMenu(Called[r], k)
  /\ \A p \in DOMAIN Screens, r \in Seeded : \A c \in Screens[p].offers[r] :
       /\ r \notin Mutations[c].by => c \in Screens[p].common
       /\ \A k \in Screens[p].shows :
            Seen(c, k) => Forgotten(c, k) \/ Invalidates(c, k)

=============================================================================
