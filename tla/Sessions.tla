------------------------------ MODULE Sessions ------------------------------
(***************************************************************************)
(* The sessions of one account: auth/auth.service.ts and the guard on the  *)
(* server, core/api/axios.ts and core/auth on the browser's side.          *)
(*                                                                         *)
(* A refresh token is a JWT of the account and of the second it is signed  *)
(* in, stored in a row of refresh_tokens.  Its access token is signed with *)
(* it, so one name stands for the pair, and localStorage always holds the  *)
(* two of one pair.  What a name stood for is forgotten once no browser,   *)
(* request or handler holds it: nobody can present it any more.            *)
(*                                                                         *)
(* A request is followed from the browser through the guard and the        *)
(* handler back to the browser; pc says where it is.  Accounts share no    *)
(* row, so one account is enough.                                          *)
(***************************************************************************)
EXTENDS Naturals, FiniteSets

CONSTANTS
  Requests,     \* the requests that may be under way at once
  Browsers,     \* each with one localStorage, whatever the number of its tabs
  BrowserOf,    \* the browser a request is sent from
  Tokens,       \* names of pairs of access and refresh token
  Kinds,        \* the kinds of requests sent
  None

AllKinds == {"data", "logout", "logoutAll", "password", "login", "reset"}

ASSUME SessionsAssumption ==
  /\ BrowserOf \in [Requests -> Browsers]
  /\ Kinds \subseteq AllKinds
  /\ None \notin Tokens

VARIABLES
  refreshToken, \* rows of refresh_tokens: token -> none, live, rotated (revoked by a
                \* refresh), lost (so revoked, and the page left before the answer)
                \* or ended (revoked by a logout or a new password, or too old)
  access,       \* access tokens that have not expired
  signed,       \* whether a token has been signed in the current second
  active,       \* users.is_active
  resetToken,   \* the row of password_reset_tokens made last: none, unused or used
  storage,      \* localStorage of each browser: a token or None
  pc, loc,      \* where a request is and what it carries
  before        \* history: tokens of the sessions begun before sessions were last revoked

server == <<signed, active, resetToken>>
vars == <<refreshToken, access, server, storage, pc, loc, before>>

Token == Tokens \union {None}

Labels == {"idle", "sent", "loggedOut", "denied", "refresh", "revoke", "mint",
           "renewed", "refused", "hash", "used", "revokeAll"}

\* What a request carries: the access token it was sent with or, once denied,
\* the refresh token it exchanges; the refresh token in its body; the pair it
\* was given; whether its password or reset token is (still) right; whether it
\* was past its checks when the sessions were revoked.
Locals == [kind: AllKinds, token: Token, body: Token, new: Token, right: BOOLEAN, late: BOOLEAN]

NoLocals == [kind |-> "data", token |-> None, body |-> None, new |-> None,
             right |-> FALSE, late |-> FALSE]

RowStatus == {"none", "live", "rotated", "lost", "ended"}

TypeOK ==
  /\ refreshToken \in [Tokens -> RowStatus]
  /\ access \subseteq Tokens
  /\ signed \in BOOLEAN /\ active \in BOOLEAN
  /\ resetToken \in {"none", "unused", "used"}
  /\ storage \in [Browsers -> Token]
  /\ pc \in [Requests -> Labels]
  /\ loc \in [Requests -> Locals]
  /\ before \subseteq Tokens

\* The browsers that hold a session, each of its own.
SomeSignedIn ==
  {st \in [Browsers -> Token] : \A a, b \in Browsers : a # b /\ st[a] = st[b] => st[a] = None}

Init ==
  /\ signed = FALSE /\ active = TRUE /\ resetToken = "none"
  /\ storage \in SomeSignedIn
  /\ LET held == {storage[b] : b \in Browsers} \ {None} IN
     /\ refreshToken = [t \in Tokens |-> IF t \in held THEN "live" ELSE "none"]
     /\ access = held
  /\ pc = [r \in Requests |-> "idle"]
  /\ loc = [r \in Requests |-> NoLocals]
  /\ before = {}

-----------------------------------------------------------------------------
\* Requests the guard lets pass without an access token.
Public(k) == k \in {"login", "reset"}

\* A request between the reading of the stored refresh token and the end of
\* its refresh.
Refreshing(r) == /\ pc[r] \in {"refresh", "revoke", "mint", "renewed", "refused"}
                 /\ loc[r].token # None

\* The tokens whose access half, or whose refresh half, may still be presented.
Shown(st, p, l) ==
  {st[b] : b \in Browsers} \union {l[r].new : r \in Requests}
  \union {l[r].token : r \in {q \in Requests : p[q] = "sent"}}
Exchanged(st, p, l) ==
  {st[b] : b \in Browsers} \union {l[r].new : r \in Requests} \union {l[r].body : r \in Requests}
  \union {l[r].token : r \in {q \in Requests : p[q] # "sent"}}
Held == Shown(storage, pc, loc) \union Exchanged(storage, pc, loc)

\* The rows and the access tokens that are still good after a step, but for
\* what nobody can present then.
Keep(row, good, old) ==
  LET exchanged == Exchanged(storage', pc', loc') IN
  /\ refreshToken' = [t \in Tokens |-> IF t \in exchanged THEN row[t] ELSE "none"]
  /\ access' = good \intersect Shown(storage', pc', loc')
  /\ before' = old \intersect exchanged

KeepAll == Keep(refreshToken, access, before)

\* A token revoked by `why', if it is not revoked already.
Revoked(t, why) == [refreshToken EXCEPT ![t] = IF @ = "ended" THEN @ ELSE why]
AllRevoked == [t \in Tokens |-> IF refreshToken[t] = "live" THEN "ended" ELSE refreshToken[t]]

Stored(r) == storage[BrowserOf[r]]
Let(r) == loc[r].token \in access
At(r, label, k) == pc[r] = label /\ loc[r].kind \in k

To(r, label) == pc' = [pc EXCEPT ![r] = label] /\ UNCHANGED <<storage, loc>>
Become(r, label, l) == /\ pc' = [pc EXCEPT ![r] = label]
                       /\ loc' = [loc EXCEPT ![r] = l]
SetStorage(r, t) == storage' = [storage EXCEPT ![BrowserOf[r]] = t]
End(r) == Become(r, "idle", NoLocals)

-----------------------------------------------------------------------------
\* The browser's side of a request.

\* A request leaves with the access token in storage; a logout carries the
\* refresh token too.  A login or a new password is typed right or wrong.
Send(r) ==
  /\ pc[r] = "idle"
  /\ \E k \in Kinds, right \in BOOLEAN :
       /\ k = "reset" => resetToken # "none" /\ right = (resetToken = "unused")
       /\ k \in {"data", "logout", "logoutAll"} => ~right
       /\ Become(r, "sent", [NoLocals EXCEPT
            !.kind = k, !.right = right,
            !.token = IF Public(k) THEN None ELSE Stored(r),
            !.body = IF k = "logout" THEN Stored(r) ELSE None])
  /\ UNCHANGED <<refreshToken, access, server, storage, before>>

\* A 401 of any request: refresh with whatever token is in storage now, or
\* give up when there is none.
Intercept(r) ==
  /\ pc[r] = "denied"
  /\ IF Stored(r) = None
     THEN End(r)
     ELSE Become(r, "refresh", [loc[r] EXCEPT !.token = Stored(r)])
  /\ UNCHANGED <<server, storage>>
  /\ KeepAll

\* Mutation: the pair is not stored before the request is sent again.
StoreNothing(r) ==
  /\ pc[r] = "renewed" /\ loc[r].token # None
  /\ Become(r, "sent", [loc[r] EXCEPT !.token = loc[r].new, !.late = FALSE])
  /\ UNCHANGED <<server, storage>>
  /\ KeepAll

\* Mutation: the request is sent again with the header it had.
StoreOnly(r) ==
  /\ pc[r] = "renewed"
  /\ SetStorage(r, loc[r].new)
  /\ Become(r, "sent", [loc[r] EXCEPT !.late = FALSE])
  /\ UNCHANGED server
  /\ KeepAll

\* The new pair arrives: it is stored, and a refreshed request is sent again
\* with it.
Store(r) ==
  /\ pc[r] = "renewed"
  /\ SetStorage(r, loc[r].new)
  /\ IF loc[r].token = None
     THEN End(r)
     ELSE Become(r, "sent", [loc[r] EXCEPT
            !.token = IF Public(loc[r].kind) THEN None ELSE loc[r].new, !.late = FALSE])
  /\ UNCHANGED server
  /\ KeepAll

\* The refresh failed, or the logout was answered: both tokens are removed
\* and the tab goes to /login.
Clear(r) ==
  /\ pc[r] \in {"refused", "loggedOut"}
  /\ SetStorage(r, None)
  /\ End(r)
  /\ UNCHANGED server
  /\ KeepAll

\* The page of a request is closed or reloaded.  The server goes on with what it
\* has begun; its answer finds nobody, and a pair in it is not stored.
Unload(r) ==
  LET t == loc[r].token IN
  /\ pc[r] \in {"denied", "renewed", "refused", "loggedOut"}
  /\ End(r)
  /\ UNCHANGED <<server, storage>>
  /\ Keep(IF Refreshing(r) /\ refreshToken[t] = "rotated"
          THEN [refreshToken EXCEPT ![t] = "lost"] ELSE refreshToken, access, before)

-----------------------------------------------------------------------------
\* The guard, and the requests it answers or refuses at once.

Deny(r) ==
  /\ pc[r] = "sent" /\ ~Public(loc[r].kind) /\ ~Let(r)
  /\ Become(r, "denied", [loc[r] EXCEPT !.token = None, !.new = None])
  /\ UNCHANGED <<server, storage>>
  /\ KeepAll

Answer(r) ==
  /\ At(r, "sent", {"data"}) /\ Let(r)
  /\ End(r)
  /\ UNCHANGED <<server, storage>>
  /\ KeepAll

\* updateMany of the token in the body, if it is not revoked yet.
Logout(r) ==
  LET t == loc[r].body IN
  /\ At(r, "sent", {"logout"}) /\ Let(r)
  /\ Become(r, "loggedOut", [NoLocals EXCEPT !.kind = "logout"])
  /\ UNCHANGED <<server, storage>>
  /\ Keep(IF t # None /\ refreshToken[t] = "live" THEN Revoked(t, "ended") ELSE refreshToken,
          access, before)

LogoutAll(r) ==
  /\ At(r, "sent", {"logoutAll"}) /\ Let(r)
  /\ Become(r, "revokeAll", [NoLocals EXCEPT !.kind = "logoutAll"])
  /\ UNCHANGED <<server, storage>>
  /\ KeepAll

\* One updateMany ends every session; a refresh already let in goes on.
RevokeAll(r) ==
  /\ pc[r] = "revokeAll"
  /\ pc' = [pc EXCEPT ![r] = "idle"]
  /\ loc' = [q \in Requests |-> IF q = r THEN NoLocals
                                ELSE [loc[q] EXCEPT !.late = pc[q] \in {"revoke", "mint"}]]
  /\ UNCHANGED <<server, storage>>
  /\ Keep(AllRevoked, access, Tokens)

-----------------------------------------------------------------------------
\* Signing in, refreshing, and the rotation of the token.

\* The user is read, found active, and the password compared.
Login(r) ==
  /\ At(r, "sent", {"login"})
  /\ IF active /\ loc[r].right
     THEN To(r, "mint")
     ELSE Become(r, "denied", [loc[r] EXCEPT !.new = None]) /\ UNCHANGED storage
  /\ UNCHANGED server
  /\ KeepAll

\* Mutation: the row is found whatever revokedAt says.
FindAnyToken(r) ==
  /\ pc[r] = "refresh"
  /\ To(r, IF active THEN "revoke" ELSE "refused")
  /\ UNCHANGED <<refreshToken, access, server, before>>

\* The row and the user are read, with no statement between that writes.
FindToken(r) ==
  /\ pc[r] = "refresh"
  /\ To(r, IF refreshToken[loc[r].token] = "live" /\ active THEN "revoke" ELSE "refused")
  /\ UNCHANGED <<refreshToken, access, server, before>>

\* The row is revoked whatever has become of it.
Revoke(r) ==
  /\ pc[r] = "revoke"
  /\ To(r, "mint")
  /\ UNCHANGED server
  /\ Keep(Revoked(loc[r].token, "rotated"), access, before)

\* A new pair is signed and its row inserted.
Mint(r) ==
  LET t == CHOOSE u \in Tokens \ Held : TRUE
      old == loc[r].token
  IN
  /\ pc[r] = "mint" /\ ~signed /\ Tokens \ Held # {}
  /\ signed' = TRUE
  /\ Become(r, "renewed", [loc[r] EXCEPT !.new = t])
  /\ UNCHANGED <<active, resetToken, storage>>
  /\ Keep([refreshToken EXCEPT ![t] = "live"], access \union {t},
          before \union (IF old \in before /\ ~loc[r].late THEN {t} ELSE {}))

\* The second pair signed in a second is the same string as the first: its
\* insert meets the unique key.
Collide(r) ==
  /\ pc[r] = "mint" /\ signed
  /\ IF loc[r].token = None THEN End(r) /\ UNCHANGED storage ELSE To(r, "refused")
  /\ UNCHANGED server
  /\ KeepAll

-----------------------------------------------------------------------------
\* Passwords.

\* The current password or the reset token is looked at.
CheckWrite(r) ==
  /\ At(r, "sent", {"password", "reset"})
  /\ Public(loc[r].kind) \/ Let(r)
  /\ IF loc[r].right THEN Become(r, "hash", [NoLocals EXCEPT !.kind = loc[r].kind]) ELSE End(r)
  /\ UNCHANGED <<server, storage>>
  /\ KeepAll

\* With a new password, whatever was typed and not looked at yet is wrong.
Mistyped(r) == [q \in Requests |->
  IF q # r /\ loc[q].kind \in {"login", "password"} THEN [loc[q] EXCEPT !.right = FALSE] ELSE loc[q]]

WriteHash(r) ==
  /\ pc[r] = "hash"
  /\ pc' = [pc EXCEPT ![r] = IF loc[r].kind = "reset" THEN "used" ELSE "revokeAll"]
  /\ loc' = Mistyped(r)
  /\ UNCHANGED <<refreshToken, access, server, storage, before>>

MarkUsed(r) ==
  /\ pc[r] = "used"
  /\ resetToken' = "used"
  /\ pc' = [pc EXCEPT ![r] = "revokeAll"]
  /\ loc' = [q \in Requests |->
       IF q # r /\ At(q, "sent", {"reset"}) THEN [loc[q] EXCEPT !.right = FALSE] ELSE loc[q]]
  /\ UNCHANGED <<refreshToken, access, signed, active, storage, before>>

\* A reset token is made and mailed.
ForgotPassword ==
  /\ resetToken = "none"
  /\ resetToken' = "unused"
  /\ UNCHANGED <<refreshToken, access, signed, active, storage, pc, loc, before>>

\* An administrator sets the password (users.service); no session ends.
AdminReset ==
  /\ loc' = Mistyped(None)
  /\ UNCHANGED <<refreshToken, access, server, storage, pc, before>>

\* An administrator deactivates the account (users.service).
Deactivate ==
  /\ active' = FALSE
  /\ UNCHANGED <<refreshToken, access, signed, resetToken, storage, pc, loc, before>>

-----------------------------------------------------------------------------
\* Time and failure.

NextSecond ==
  /\ signed
  /\ signed' = FALSE
  /\ UNCHANGED <<refreshToken, access, active, resetToken, storage, pc, loc, before>>

\* The 15 minutes of an access token do not end while the request it was
\* minted for is sent again.
ExpireAccess(t) ==
  /\ t \in access
  /\ \A r \in Requests : loc[r].new # t
  /\ access' = access \ {t}
  /\ UNCHANGED <<refreshToken, server, storage, pc, loc, before>>

ExpireRefresh(t) ==
  /\ refreshToken[t] = "live" /\ t \notin access
  /\ refreshToken' = [refreshToken EXCEPT ![t] = "ended"]
  /\ UNCHANGED <<access, server, storage, pc, loc, before>>

\* A handler ends before its next statement.  The browser takes it for a
\* failed refresh, or for a failed request; a logout removes the tokens anyway.
Fail(r) ==
  /\ \/ Refreshing(r) /\ pc[r] # "renewed" /\ To(r, "refused")
     \/ /\ ~Refreshing(r) /\ pc[r] \in {"sent", "mint", "hash", "used", "revokeAll"}
        /\ End(r)
        /\ IF loc[r].kind = "logout" THEN SetStorage(r, None) ELSE UNCHANGED storage
  /\ UNCHANGED server
  /\ KeepAll

-----------------------------------------------------------------------------
Step(r) ==
  \/ Intercept(r) \/ Store(r) \/ Clear(r)
  \/ Deny(r) \/ Answer(r) \/ Logout(r) \/ LogoutAll(r) \/ RevokeAll(r)
  \/ Login(r) \/ FindToken(r) \/ Revoke(r) \/ Mint(r) \/ Collide(r)
  \/ CheckWrite(r) \/ WriteHash(r) \/ MarkUsed(r)

Next ==
  \/ \E r \in Requests : Send(r) \/ Step(r) \/ Fail(r) \/ Unload(r)
  \/ \E t \in Tokens : ExpireAccess(t) \/ ExpireRefresh(t)
  \/ ForgotPassword \/ AdminReset \/ Deactivate \/ NextSecond

\* What is under way goes on: the event loop runs every handler whose
\* statement has come back, and the browser every answer that arrives.
\* Nobody has to send, to leave the page, to expire or to fail.
Spec == Init /\ [][Next]_vars /\ \A r \in Requests : WF_vars(Step(r))

-----------------------------------------------------------------------------
\* A session begun before the sessions were revoked is over, but for a refresh
\* of it that was past its checks by then (logoutAll, changePassword and
\* resetPassword against refreshTokens).
RevokedSessionsEnd ==
  \A t \in before : refreshToken[t] # "live"

\* The token a browser holds is one the server accepts, unless its session was
\* ended, a request of this browser is exchanging it, or the page was left before
\* the answer of a refresh that had spent it: rotation leaves a browser with a
\* spent token in no other way, however its requests refresh beside each other
\* and wherever a handler fails.
HoldsUsableToken ==
  \A b \in Browsers :
    LET t == storage[b] IN
    t # None => \/ refreshToken[t] \in {"live", "lost", "ended"}
                \/ \E r \in Requests : BrowserOf[r] = b /\ Refreshing(r) /\ loc[r].token = t

\* Every request ends: it is answered, or given up, or its tab goes to the login
\* page, also when the token stored is one that a page since left has spent.  (A
\* login with a wrong password is another matter: while the browser holds another
\* tab's session it is refreshed and sent again.)
EveryRequestEnds ==
  \A r \in Requests : (pc[r] = "sent" /\ loc[r].kind # "login") ~> pc[r] = "idle"

=============================================================================
