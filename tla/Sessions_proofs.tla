--------------------------- MODULE Sessions_proofs ---------------------------
(***************************************************************************)
(* Sessions that were revoked stay ended, and rotation leaves a browser    *)
(* with a spent token only when its page is left meanwhile, whatever the   *)
(* number of browsers, requests and tokens and however their statements    *)
(* interleave.                                                             *)
(***************************************************************************)
EXTENDS Sessions, TLAPS

-----------------------------------------------------------------------------
\* The tokens a request carries.
Carries(l) == {l.token, l.body, l.new}

\* Where a request is says what it carries.
Fits(label, l) ==
  /\ label = "idle" => Carries(l) = {None}
  /\ label = "sent" /\ Public(l.kind) => l.token = None
  /\ label \in {"refresh", "revoke"} => l.token \in Tokens

AllFit == \A r \in Requests : Fits(pc[r], loc[r])

\* A request that becomes l at `label', in terms of rigid values.
LEMMA Becomes ==
  ASSUME TypeOK, NEW r \in Requests, NEW label, NEW l, Become(r, label, l)
  PROVE  /\ pc'[r] = label /\ loc'[r] = l
         /\ \A q \in Requests \ {r} : pc'[q] = pc[q] /\ loc'[q] = loc[q]
         /\ label \in Labels /\ l \in Locals => pc' \in [Requests -> Labels] /\ loc' \in [Requests -> Locals]
  BY DEF TypeOK, Become

\* The updates of what a request carries.
LEMMA NoneCarried ==
  ASSUME NEW k \in AllKinds
  PROVE  LET l == [NoLocals EXCEPT !.kind = k] IN
         l \in Locals /\ l.kind = k /\ Carries(l) = {None} /\ NoLocals \in Locals /\ Carries(NoLocals) = {None}
  BY DEF NoLocals, Locals, Carries, Token, AllKinds

\* What Keep leaves of the rows.
LEMMA Keeps ==
  ASSUME NEW row \in [Tokens -> RowStatus], NEW good \in SUBSET Tokens,
         NEW old \in SUBSET Tokens, Keep(row, good, old)
  PROVE  /\ refreshToken' \in [Tokens -> RowStatus]
         /\ access' \subseteq Tokens /\ before' \subseteq old
         /\ before' \subseteq Exchanged(storage', pc', loc')
         /\ \A t \in Tokens : /\ t \in Exchanged(storage', pc', loc') => refreshToken'[t] = row[t]
                              /\ refreshToken'[t] \in {row[t], "none"}
  BY DEF Keep, RowStatus

\* The rows after one token, or all, are revoked.
LEMMA RevokedRow ==
  ASSUME TypeOK, NEW t \in Token, NEW why \in {"rotated", "ended"}
  PROVE  /\ Revoked(t, why) \in [Tokens -> RowStatus]
         /\ \A u \in Tokens : /\ u # t => Revoked(t, why)[u] = refreshToken[u]
                              /\ Revoked(t, why)[u] \in {refreshToken[u], "ended", why}
         /\ AllRevoked \in [Tokens -> RowStatus]
         /\ \A u \in Tokens : AllRevoked[u] \in {refreshToken[u], "ended"} /\ AllRevoked[u] # "live"
  BY DEF TypeOK, Revoked, AllRevoked, RowStatus

-----------------------------------------------------------------------------
RefreshLabels == {"refresh", "revoke", "mint", "renewed", "refused"}

\* The tokens revoked before are still held by somebody.
Before == before \subseteq Exchanged(storage, pc, loc)

\* Another request is where it was; what was past its checks when the sessions
\* were revoked, stays so.
Same(q) ==
  /\ pc'[q] = pc[q]
  /\ loc'[q].kind = loc[q].kind /\ loc'[q].token = loc[q].token
  /\ loc'[q].body = loc[q].body /\ loc'[q].new = loc[q].new
  /\ pc[q] \in {"revoke", "mint"} /\ loc[q].late => loc'[q].late

\* A step of r, other than the minting of a pair: r carries nothing but what
\* it or its browser had, gives up a refresh only by writing the storage or
\* marking the spent token lost, and passes the check of a refresh only with a
\* live token.
Move(r) ==
  /\ pc' \in [Requests -> Labels] /\ loc' \in [Requests -> Locals]
  /\ \A q \in Requests \ {r} : Same(q)
  /\ storage' \in [Browsers -> Token]
  /\ \A b \in Browsers \ {BrowserOf[r]} : storage'[b] = storage[b]
  /\ \/ storage'[BrowserOf[r]] \in {storage[BrowserOf[r]], None}
     \/ pc[r] = "renewed" /\ storage'[BrowserOf[r]] = loc[r].new
  /\ pc'[r] # "renewed"
  /\ Carries(loc'[r]) \subseteq Carries(loc[r]) \union {None, Stored(r)}
  /\ Fits(pc'[r], loc'[r])
  /\ Refreshing(r) => \/ pc'[r] \in RefreshLabels /\ loc'[r].token = loc[r].token
                      \/ storage'[BrowserOf[r]] = None
                      \/ pc[r] = "renewed" /\ storage'[BrowserOf[r]] = loc[r].new
                      \/ refreshToken'[loc[r].token] # "rotated"
  /\ pc'[r] \in {"revoke", "mint"} =>
       \/ loc'[r].token = None
       \/ /\ loc'[r].token = loc[r].token
          /\ \/ pc[r] = "revoke" /\ loc'[r].late = loc[r].late
             \/ pc[r] = "refresh" /\ refreshToken[loc[r].token] = "live"

\* The rows after such a step.
Rows(r) ==
  /\ refreshToken' \in [Tokens -> RowStatus]
  /\ access' \subseteq Tokens
  /\ signed' \in BOOLEAN /\ active' \in BOOLEAN /\ resetToken' \in {"none", "unused", "used"}
  /\ before' \subseteq Tokens /\ before' \subseteq Exchanged(storage', pc', loc')
  /\ \A t \in Tokens :
       /\ refreshToken'[t] = "live" => refreshToken[t] = "live"
       /\ t \in Exchanged(storage', pc', loc') =>
            \/ refreshToken'[t] \in {refreshToken[t], "lost", "ended"}
            \/ pc[r] = "revoke" /\ t = loc[r].token /\ refreshToken'[t] = "rotated"
  /\ \/ before' \subseteq before
     \/ /\ \A t \in Tokens : refreshToken'[t] # "live"
        /\ \A q \in Requests : pc'[q] \in {"revoke", "mint"} => loc'[q].late

\* How r writes the storage of its browser.
Writes(r, t) ==
  \/ UNCHANGED storage /\ t = Stored(r)
  \/ SetStorage(r, t) /\ t = None
  \/ SetStorage(r, t) /\ t = loc[r].new /\ pc[r] = "renewed"

\* A step that only moves r, and perhaps writes its storage, is a move.
LEMMA MoveBy ==
  ASSUME TypeOK, NEW r \in Requests, NEW label \in Labels, NEW l \in Locals, Become(r, label, l),
         NEW t \in Token, Writes(r, t),
         label # "renewed", Carries(l) \subseteq Carries(loc[r]) \union {None, Stored(r)},
         Fits(label, l),
         Refreshing(r) => \/ label \in RefreshLabels /\ l.token = loc[r].token
                          \/ t = None
                          \/ pc[r] = "renewed" /\ t = loc[r].new
                          \/ refreshToken'[loc[r].token] # "rotated",
         label \in {"revoke", "mint"} =>
           \/ l.token = None
           \/ /\ l.token = loc[r].token
              /\ \/ pc[r] = "revoke" /\ l.late = loc[r].late
                 \/ pc[r] = "refresh" /\ refreshToken[loc[r].token] = "live"
  PROVE  Move(r)
<1>1. /\ pc'[r] = label /\ loc'[r] = l
      /\ \A q \in Requests \ {r} : pc'[q] = pc[q] /\ loc'[q] = loc[q]
      /\ pc' \in [Requests -> Labels] /\ loc' \in [Requests -> Locals]
  BY Becomes
<1>2. BrowserOf[r] \in Browsers
  BY SessionsAssumption
<1>3. /\ storage' \in [Browsers -> Token]
      /\ \A b \in Browsers \ {BrowserOf[r]} : storage'[b] = storage[b]
      /\ storage'[BrowserOf[r]] = t
      /\ t \in {storage[BrowserOf[r]], None} \/ (pc[r] = "renewed" /\ t = loc[r].new)
  BY <1>2 DEF TypeOK, Writes, SetStorage, Stored
<1>4. \A q \in Requests \ {r} : Same(q)
  BY <1>1 DEF Same
<1>5. /\ pc'[r] # "renewed"
      /\ Carries(loc'[r]) \subseteq Carries(loc[r]) \union {None, Stored(r)}
      /\ Fits(pc'[r], loc'[r])
  BY <1>1
<1>6. Refreshing(r) => \/ pc'[r] \in RefreshLabels /\ loc'[r].token = loc[r].token
                       \/ storage'[BrowserOf[r]] = None
                       \/ pc[r] = "renewed" /\ storage'[BrowserOf[r]] = loc[r].new
                       \/ refreshToken'[loc[r].token] # "rotated"
  BY <1>1, <1>3
<1>7. pc'[r] \in {"revoke", "mint"} =>
       \/ loc'[r].token = None
       \/ /\ loc'[r].token = loc[r].token
          /\ \/ pc[r] = "revoke" /\ loc'[r].late = loc[r].late
             \/ pc[r] = "refresh" /\ refreshToken[loc[r].token] = "live"
  BY <1>1
<1> QED  BY <1>1, <1>3, <1>4, <1>5, <1>6, <1>7 DEF Move

\* A request that changes nothing but where it is.
LEMMA Stays ==
  ASSUME TypeOK, NEW r \in Requests, NEW label, To(r, label)
  PROVE  Become(r, label, loc[r]) /\ Writes(r, Stored(r)) /\ loc[r] \in Locals /\ Stored(r) \in Token
  BY SessionsAssumption DEF TypeOK, To, Become, Writes, Stored

\* The rows when the tokens nobody holds are forgotten.
LEMMA RowsBy ==
  ASSUME TypeOK, NEW r \in Requests, NEW row, Keep(row, access, before),
         row = refreshToken
           \/ (\E t \in Token : row = Revoked(t, "ended") \/ row = [refreshToken EXCEPT ![t] = "lost"])
           \/ (pc[r] = "revoke" /\ loc[r].token \in Tokens /\ row = Revoked(loc[r].token, "rotated")),
         UNCHANGED server
  PROVE  Rows(r)
<1>1. /\ row \in [Tokens -> RowStatus]
      /\ \A u \in Tokens : /\ row[u] \in {refreshToken[u], "lost", "ended", "rotated"}
                           /\ \/ row[u] \in {refreshToken[u], "lost", "ended"}
                              \/ pc[r] = "revoke" /\ u = loc[r].token /\ row[u] = "rotated"
  <2>1. CASE \E t \in Token : row = Revoked(t, "ended")
    BY <2>1, RevokedRow
  <2>2. CASE \E t \in Token : row = [refreshToken EXCEPT ![t] = "lost"]
    BY <2>2 DEF TypeOK, RowStatus
  <2>3. CASE pc[r] = "revoke" /\ loc[r].token \in Tokens /\ row = Revoked(loc[r].token, "rotated")
    BY <2>3, RevokedRow DEF Token
  <2>4. CASE row = refreshToken
    BY <2>4 DEF TypeOK
  <2> QED  BY <2>1, <2>2, <2>3, <2>4
<1>2. access \in SUBSET Tokens /\ before \in SUBSET Tokens
  BY DEF TypeOK
<1>3. /\ refreshToken' \in [Tokens -> RowStatus]
      /\ access' \subseteq Tokens /\ before' \subseteq before
      /\ before' \subseteq Exchanged(storage', pc', loc')
      /\ \A t \in Tokens : /\ t \in Exchanged(storage', pc', loc') => refreshToken'[t] = row[t]
                           /\ refreshToken'[t] \in {row[t], "none"}
  BY <1>1, <1>2, Keeps
<1>4. signed' \in BOOLEAN /\ active' \in BOOLEAN /\ resetToken' \in {"none", "unused", "used"}
  BY DEF TypeOK, server
<1>5. ASSUME NEW t \in Tokens
      PROVE  /\ refreshToken'[t] = "live" => refreshToken[t] = "live"
             /\ t \in Exchanged(storage', pc', loc') =>
                  \/ refreshToken'[t] \in {refreshToken[t], "lost", "ended"}
                  \/ pc[r] = "revoke" /\ t = loc[r].token /\ refreshToken'[t] = "rotated"
  <2>1. row[t] \in {refreshToken[t], "lost", "ended", "rotated"}
    BY <1>1, <1>5
  <2>4. refreshToken'[t] \in {row[t], "none"}
    BY <1>3, <1>5
  <2>2. t \in Exchanged(storage', pc', loc') => refreshToken'[t] = row[t]
    BY <1>3, <1>5
  <2>3. \/ row[t] \in {refreshToken[t], "lost", "ended"}
        \/ pc[r] = "revoke" /\ t = loc[r].token /\ row[t] = "rotated"
    BY <1>1, <1>5
  <2> QED  BY <2>1, <2>2, <2>3, <2>4
<1> QED  BY <1>2, <1>3, <1>4, <1>5 DEF Rows

\* The rows of a step that changes none and gives up nothing a browser exchanges.
LEMMA RowsStay ==
  ASSUME TypeOK, Before, NEW r \in Requests, UNCHANGED <<refreshToken, access, signed, active, before>>,
         resetToken' \in {"none", "unused", "used"},
         Exchanged(storage, pc, loc) \ {None} \subseteq Exchanged(storage', pc', loc')
  PROVE  Rows(r)
<1>1. before \subseteq Tokens /\ None \notin Tokens
  BY SessionsAssumption DEF TypeOK
<1> QED  BY <1>1 DEF Rows, Before, TypeOK

\* What is known of a request before its step.
LEMMA Here ==
  ASSUME TypeOK, AllFit, NEW r \in Requests
  PROVE  /\ loc[r] \in Locals /\ pc[r] \in Labels /\ Fits(pc[r], loc[r])
         /\ loc[r].token \in Token /\ loc[r].body \in Token /\ loc[r].new \in Token
         /\ loc[r].kind \in AllKinds /\ loc[r].late \in BOOLEAN
         /\ Stored(r) \in Token /\ None \in Token
         /\ BrowserOf[r] \in Browsers
  BY SessionsAssumption DEF TypeOK, AllFit, Locals, Stored, Token

\* Requests that leave as much to exchange as there was.
LEMMA SameHeld ==
  ASSUME \A q \in Requests : /\ pc'[q] = "sent" <=> pc[q] = "sent"
                             /\ loc'[q].token = loc[q].token /\ loc'[q].body = loc[q].body
                             /\ loc'[q].new = loc[q].new,
         UNCHANGED storage
  PROVE  /\ Exchanged(storage', pc', loc') = Exchanged(storage, pc, loc)
         /\ Shown(storage', pc', loc') = Shown(storage, pc, loc)
  BY DEF Exchanged, Shown

-----------------------------------------------------------------------------
\* Every step of a request but the minting is such a move.

\* A request that ends.
LEMMA EndMoves ==
  ASSUME TypeOK, AllFit, NEW r \in Requests, End(r), NEW t \in Token, Writes(r, t),
         Refreshing(r) => \/ t = None
                          \/ pc[r] = "renewed" /\ t = loc[r].new
                          \/ refreshToken'[loc[r].token] # "rotated"
  PROVE  Move(r)
<1>1. Become(r, "idle", NoLocals)
  BY DEF End
<1>2. NoLocals \in Locals /\ Carries(NoLocals) = {None} /\ Fits("idle", NoLocals) /\ "idle" \in Labels
  BY NoneCarried DEF Fits, Labels, AllKinds
<1> QED  BY <1>1, <1>2, MoveBy

\* A request leaves with what its browser stores (Send).
LEMMA SendMoves ==
  ASSUME TypeOK, AllFit, Before, NEW r \in Requests, Send(r)
  PROVE  Move(r) /\ Rows(r)
<1>1. PICK k \in Kinds, right \in BOOLEAN :
        Become(r, "sent", [NoLocals EXCEPT
            !.kind = k, !.right = right,
            !.token = IF Public(k) THEN None ELSE Stored(r),
            !.body = IF k = "logout" THEN Stored(r) ELSE None])
  BY DEF Send
<1>a. PICK t \in Token : t = IF Public(k) THEN None ELSE Stored(r)
  BY Here
<1>b. PICK b \in Token : b = IF k = "logout" THEN Stored(r) ELSE None
  BY Here
<1> DEFINE l == [NoLocals EXCEPT !.kind = k, !.right = right, !.token = t, !.body = b]
<1>2. k \in AllKinds
  BY SessionsAssumption
<1>3. l \in Locals /\ l.kind = k /\ l.token = t /\ l.body = b /\ l.new = None
  BY <1>2 DEF NoLocals, Locals, Token, AllKinds
<1>4. Become(r, "sent", l)
  BY <1>1, <1>a, <1>b
<1>5. Carries(l) \subseteq {None, Stored(r)}
  BY <1>3, <1>a, <1>b DEF Carries
<1>6. Fits("sent", l)
  BY <1>3, <1>a DEF Fits
<1>7. pc[r] = "idle" /\ Carries(loc[r]) = {None}
  BY Here DEF Send, Fits
<1>8. Writes(r, Stored(r)) /\ UNCHANGED <<refreshToken, access, server, storage, before>>
  BY DEF Send, Writes
<1>9. Move(r)
  <2> HIDE DEF l
  <2>1. "sent" \in Labels /\ ~Refreshing(r)
    BY <1>7 DEF Labels, Refreshing
  <2> QED  BY <1>3, <1>4, <1>5, <1>6, <1>8, <2>1, Here, MoveBy
<1>10. Exchanged(storage, pc, loc) \ {None} \subseteq Exchanged(storage', pc', loc')
  <2>1. /\ pc'[r] = "sent"
        /\ \A q \in Requests \ {r} : pc'[q] = pc[q] /\ loc'[q] = loc[q]
    BY <1>4, Becomes
  <2>2. loc[r].token = None /\ loc[r].body = None /\ loc[r].new = None
    BY <1>7 DEF Carries
  <2> QED  BY <1>8, <2>1, <2>2 DEF Exchanged
<1> QED  BY <1>8, <1>9, <1>10, RowsStay DEF server, TypeOK

\* A denied request takes the stored token, or is given up (Intercept).
LEMMA InterceptMoves ==
  ASSUME TypeOK, AllFit, Before, NEW r \in Requests, Intercept(r)
  PROVE  Move(r) /\ Rows(r)
<1>1. pc[r] = "denied" /\ ~Refreshing(r) /\ Writes(r, Stored(r))
  BY DEF Intercept, Refreshing, Writes
<1>2. Rows(r)
  BY RowsBy DEF Intercept, KeepAll
<1>3. CASE Stored(r) = None
  BY <1>1, <1>2, <1>3, Here, EndMoves DEF Intercept
<1>4. CASE Stored(r) # None
  <2>a. PICK o \in Locals, t \in Token : o = loc[r] /\ t = Stored(r)
    BY Here
  <2> DEFINE l == [o EXCEPT !.token = t]
  <2>1. Become(r, "refresh", l)
    BY <1>4, <2>a DEF Intercept
  <2>b. l \in Locals /\ l.token = t /\ l.body = o.body /\ l.new = o.new
    BY DEF Locals, Token
  <2>2. l \in Locals /\ l.token = Stored(r) /\ l.body = loc[r].body /\ l.new = loc[r].new
    BY <2>a, <2>b
  <2>3. Carries(l) \subseteq Carries(loc[r]) \union {None, Stored(r)}
    BY <2>2 DEF Carries
  <2>4. Fits("refresh", l) /\ "refresh" \in Labels
    BY <1>4, <2>2, Here DEF Fits, Token, Labels
  <2> HIDE DEF l
  <2> QED  BY <1>1, <1>2, <2>1, <2>2, <2>3, <2>4, Here, MoveBy
<1> QED  BY <1>3, <1>4

\* The pair received is what the storage gets and what is sent (Store).
LEMMA StoreMoves ==
  ASSUME TypeOK, AllFit, Before, NEW r \in Requests, Store(r)
  PROVE  Move(r) /\ Rows(r)
<1>1. PICK o \in Locals, t \in Token : o = loc[r] /\ t = loc[r].new
  BY Here
<1>2. pc[r] = "renewed" /\ Writes(r, t)
  BY <1>1 DEF Store, Writes
<1>3. Rows(r)
  BY RowsBy DEF Store, KeepAll
<1>4. CASE loc[r].token = None
  BY <1>1, <1>2, <1>3, <1>4, EndMoves DEF Store
<1>5. CASE loc[r].token # None
  <2>1. PICK u \in Token : u = IF Public(loc[r].kind) THEN None ELSE loc[r].new
    BY Here
  <2> DEFINE l == [o EXCEPT !.token = u, !.late = FALSE]
  <2>2. Become(r, "sent", l)
    BY <1>1, <1>5, <2>1 DEF Store
  <2>3. l \in Locals /\ l.kind = o.kind /\ l.token = u /\ l.body = o.body /\ l.new = o.new
    BY DEF Locals, Token
  <2>4. Carries(l) \subseteq Carries(loc[r]) \union {None, Stored(r)}
    BY <1>1, <2>1, <2>3 DEF Carries
  <2>5. Fits("sent", l) /\ "sent" \in Labels
    BY <1>1, <2>1, <2>3 DEF Fits, Labels
  <2> HIDE DEF l
  <2> QED  BY <1>1, <1>2, <1>3, <2>2, <2>3, <2>4, <2>5, MoveBy
<1> QED  BY <1>4, <1>5

\* A failed refresh and an answered logout leave nothing behind (Clear).
LEMMA ClearMoves ==
  ASSUME TypeOK, AllFit, Before, NEW r \in Requests, Clear(r)
  PROVE  Move(r) /\ Rows(r)
<1>1. Writes(r, None)
  BY DEF Clear, Writes
<1>2. Rows(r)
  BY RowsBy DEF Clear, KeepAll
<1> QED  BY <1>1, <1>2, Here, EndMoves DEF Clear

\* A page that is left takes its request with it, and a token spent for it is
\* marked lost (Unload).
LEMMA UnloadMoves ==
  ASSUME TypeOK, AllFit, Before, NEW r \in Requests, Unload(r)
  PROVE  Move(r) /\ Rows(r)
<1>1. PICK t \in Token : t = loc[r].token
  BY Here
<1>2. PICK row : row = IF Refreshing(r) /\ refreshToken[t] = "rotated"
                       THEN [refreshToken EXCEPT ![t] = "lost"] ELSE refreshToken
  OBVIOUS
<1>3. /\ row = refreshToken \/ row = [refreshToken EXCEPT ![t] = "lost"]
      /\ Refreshing(r) => t \in Tokens /\ row[t] # "rotated"
  BY <1>1, <1>2 DEF Refreshing, Token, TypeOK
<1>4. End(r) /\ UNCHANGED server /\ UNCHANGED storage /\ Keep(row, access, before)
  BY <1>1, <1>2 DEF Unload
<1>5. Rows(r)
  BY <1>3, <1>4, RowsBy
<1>6. Refreshing(r) => refreshToken'[t] # "rotated"
  <2>1. Refreshing(r) => refreshToken'[t] \in {row[t], "none"}
    BY <1>3, <1>4 DEF Keep
  <2> QED  BY <1>3, <2>1
<1>7. Writes(r, Stored(r))
  BY <1>4 DEF Writes
<1> QED  BY <1>1, <1>4, <1>5, <1>6, <1>7, Here, EndMoves

\* A denied request drops its access token (Deny).
LEMMA DenyMoves ==
  ASSUME TypeOK, AllFit, Before, NEW r \in Requests, Deny(r)
  PROVE  Move(r) /\ Rows(r)
<1>1. PICK o \in Locals : o = loc[r]
  BY Here
<1> DEFINE l == [o EXCEPT !.token = None, !.new = None]
<1>2. Become(r, "denied", l) /\ Writes(r, Stored(r)) /\ ~Refreshing(r)
  BY <1>1 DEF Deny, Writes, Refreshing
<1>3. l \in Locals /\ l.token = None /\ l.body = o.body /\ l.new = None
  BY DEF Locals, Token
<1>4. Carries(l) \subseteq Carries(loc[r]) \union {None, Stored(r)}
  BY <1>1, <1>3 DEF Carries
<1>5. Fits("denied", l) /\ "denied" \in Labels
  BY DEF Fits, Labels
<1>6. Rows(r)
  BY RowsBy DEF Deny, KeepAll
<1> HIDE DEF l
<1> QED  BY <1>2, <1>3, <1>4, <1>5, <1>6, Here, MoveBy

\* An answered request carries nothing any more (Answer).
LEMMA AnswerMoves ==
  ASSUME TypeOK, AllFit, Before, NEW r \in Requests, Answer(r)
  PROVE  Move(r) /\ Rows(r)
<1>1. Writes(r, Stored(r)) /\ ~Refreshing(r)
  BY DEF Answer, At, Writes, Refreshing
<1>2. Rows(r)
  BY RowsBy DEF Answer, KeepAll
<1> QED  BY <1>1, <1>2, Here, EndMoves DEF Answer

\* A logout ends the row of its body only (Logout).
LEMMA LogoutMoves ==
  ASSUME TypeOK, AllFit, Before, NEW r \in Requests, Logout(r)
  PROVE  Move(r) /\ Rows(r)
<1> DEFINE l == [NoLocals EXCEPT !.kind = "logout"]
<1>1. Become(r, "loggedOut", l) /\ Writes(r, Stored(r)) /\ ~Refreshing(r)
  BY DEF Logout, At, Writes, Refreshing
<1>2. l \in Locals /\ Carries(l) = {None} /\ Fits("loggedOut", l) /\ "loggedOut" \in Labels
  BY NoneCarried DEF Fits, Labels, AllKinds
<1>3. PICK t \in Token : t = loc[r].body
  BY Here
<1>4. Rows(r)
  BY <1>3, RowsBy DEF Logout
<1> HIDE DEF l
<1> QED  BY <1>1, <1>2, <1>4, Here, MoveBy

\* The request to log out everywhere touches no row yet (LogoutAll).
LEMMA LogoutAllMoves ==
  ASSUME TypeOK, AllFit, Before, NEW r \in Requests, LogoutAll(r)
  PROVE  Move(r) /\ Rows(r)
<1> DEFINE l == [NoLocals EXCEPT !.kind = "logoutAll"]
<1>1. Become(r, "revokeAll", l) /\ Writes(r, Stored(r)) /\ ~Refreshing(r)
  BY DEF LogoutAll, At, Writes, Refreshing
<1>2. l \in Locals /\ Carries(l) = {None} /\ Fits("revokeAll", l) /\ "revokeAll" \in Labels
  BY NoneCarried DEF Fits, Labels, AllKinds
<1>3. Rows(r)
  BY RowsBy DEF LogoutAll, KeepAll
<1> HIDE DEF l
<1> QED  BY <1>1, <1>2, <1>3, Here, MoveBy

\* No row is live when all were revoked, and the refreshes under way are late (RevokeAll).
LEMMA RevokeAllMoves ==
  ASSUME TypeOK, AllFit, Before, NEW r \in Requests, RevokeAll(r)
  PROVE  Move(r) /\ Rows(r)
<1>1. /\ pc' \in [Requests -> Labels] /\ pc'[r] = "idle"
      /\ \A q \in Requests \ {r} : pc'[q] = pc[q]
  BY DEF RevokeAll, TypeOK, Labels
<1>2. NoLocals \in Locals /\ Carries(NoLocals) = {None} /\ Fits("idle", NoLocals)
  BY NoneCarried DEF Fits, AllKinds
<1>3. ASSUME NEW q \in Requests
      PROVE  LET l == [loc[q] EXCEPT !.late = pc[q] \in {"revoke", "mint"}] IN
             /\ l \in Locals /\ l.kind = loc[q].kind /\ l.token = loc[q].token
             /\ l.body = loc[q].body /\ l.new = loc[q].new
             /\ l.late = (pc[q] \in {"revoke", "mint"})
  <2>1. PICK o \in Locals : o = loc[q]
    BY Here
  <2>2. ASSUME NEW x \in BOOLEAN
        PROVE  LET l == [o EXCEPT !.late = x] IN
               /\ l \in Locals /\ l.kind = o.kind /\ l.token = o.token
               /\ l.body = o.body /\ l.new = o.new /\ l.late = x
    BY DEF Locals
  <2>3. CASE pc[q] \in {"revoke", "mint"}
    <3>1. (pc[q] \in {"revoke", "mint"}) = TRUE
      BY <2>3
    <3> QED  BY <2>1, <2>2, <3>1
  <2>4. CASE pc[q] \notin {"revoke", "mint"}
    <3>1. (pc[q] \in {"revoke", "mint"}) = FALSE
      BY <2>4
    <3> QED  BY <2>1, <2>2, <3>1
  <2> QED  BY <2>3, <2>4
<1>4. /\ loc' \in [Requests -> Locals] /\ loc'[r] = NoLocals
      /\ \A q \in Requests \ {r} : Same(q) /\ (pc[q] \in {"revoke", "mint"} => loc'[q].late)
  BY <1>1, <1>2, <1>3 DEF RevokeAll, Same
<1>5. storage' \in [Browsers -> Token] /\ UNCHANGED storage /\ ~Refreshing(r)
  BY DEF RevokeAll, TypeOK, Refreshing
<1>6. Move(r)
  BY <1>1, <1>2, <1>4, <1>5, Here DEF Move, Stored
<1>7. /\ AllRevoked \in [Tokens -> RowStatus]
      /\ \A u \in Tokens : AllRevoked[u] \in {refreshToken[u], "ended"} /\ AllRevoked[u] # "live"
  BY DEF AllRevoked, TypeOK, RowStatus
<1>8. access \in SUBSET Tokens /\ Tokens \in SUBSET Tokens
  BY DEF TypeOK
<1>9. /\ refreshToken' \in [Tokens -> RowStatus]
      /\ access' \subseteq Tokens /\ before' \subseteq Tokens
      /\ before' \subseteq Exchanged(storage', pc', loc')
      /\ \A t \in Tokens : /\ t \in Exchanged(storage', pc', loc') => refreshToken'[t] = AllRevoked[t]
                           /\ refreshToken'[t] \in {AllRevoked[t], "none"}
  BY <1>7, <1>8, Keeps DEF RevokeAll
<1>10. signed' \in BOOLEAN /\ active' \in BOOLEAN /\ resetToken' \in {"none", "unused", "used"}
  BY DEF RevokeAll, TypeOK, server
<1>11. \A t \in Tokens : /\ refreshToken'[t] # "live"
                         /\ t \in Exchanged(storage', pc', loc') => refreshToken'[t] \in {refreshToken[t], "ended"}
  BY <1>7, <1>9
<1>12. \A q \in Requests : pc'[q] \in {"revoke", "mint"} => loc'[q].late
  BY <1>1, <1>4
<1> QED  BY <1>6, <1>9, <1>10, <1>11, <1>12 DEF Rows

\* A login mints with no token to exchange (Login).
LEMMA LoginMoves ==
  ASSUME TypeOK, AllFit, Before, NEW r \in Requests, Login(r)
  PROVE  Move(r) /\ Rows(r)
<1>1. pc[r] = "sent" /\ loc[r].token = None /\ ~Refreshing(r)
  BY Here DEF Login, At, Fits, Public, Refreshing
<1>2. Rows(r)
  BY RowsBy DEF Login, KeepAll
<1>3. CASE To(r, "mint")
  <2>1. Become(r, "mint", loc[r]) /\ Writes(r, Stored(r))
    BY <1>3, Stays
  <2>2. "mint" \in Labels /\ Fits("mint", loc[r])
    BY DEF Labels, Fits
  <2> QED  BY <1>1, <1>2, <2>1, <2>2, Here, MoveBy
<1>4. CASE Become(r, "denied", [loc[r] EXCEPT !.new = None]) /\ UNCHANGED storage
  <2>1. PICK o \in Locals : o = loc[r]
    BY Here
  <2> DEFINE l == [o EXCEPT !.new = None]
  <2>2. Become(r, "denied", l) /\ Writes(r, Stored(r))
    BY <1>4, <2>1 DEF Writes
  <2>3. l \in Locals /\ l.token = o.token /\ l.body = o.body /\ l.new = None
    BY DEF Locals, Token
  <2>4. Carries(l) \subseteq Carries(loc[r]) \union {None, Stored(r)}
    BY <2>1, <2>3 DEF Carries
  <2>5. Fits("denied", l) /\ "denied" \in Labels
    BY DEF Fits, Labels
  <2> HIDE DEF l
  <2> QED  BY <1>1, <1>2, <2>2, <2>3, <2>4, <2>5, Here, MoveBy
<1> QED  BY <1>3, <1>4 DEF Login

\* A refresh goes on only with a live token (FindToken).
LEMMA FindTokenMoves ==
  ASSUME TypeOK, AllFit, Before, NEW r \in Requests, FindToken(r)
  PROVE  Move(r) /\ Rows(r)
<1>1. PICK label \in {"revoke", "refused"} :
        /\ To(r, label)
        /\ label = "revoke" => refreshToken[loc[r].token] = "live"
  BY DEF FindToken
<1>2. pc[r] = "refresh" /\ loc[r].token \in Tokens
  BY Here DEF FindToken, Fits
<1>3. Become(r, label, loc[r]) /\ Writes(r, Stored(r))
  BY <1>1, Stays
<1>4. label \in Labels /\ label \in RefreshLabels /\ Fits(label, loc[r])
  BY <1>2 DEF Labels, Fits, RefreshLabels
<1>5. Move(r)
  BY <1>1, <1>2, <1>3, <1>4, Here, MoveBy
<1>6. Exchanged(storage', pc', loc') = Exchanged(storage, pc, loc)
  <2>1. \A q \in Requests : (pc'[q] = "sent" <=> pc[q] = "sent") /\ loc'[q] = loc[q]
    BY <1>2, <1>3, Becomes
  <2> QED  BY <1>1, <2>1, SameHeld DEF To
<1> QED  BY <1>5, <1>6, RowsStay DEF FindToken, server, TypeOK

\* The refresh revokes the token it found, and no other (Revoke).
LEMMA RevokeMoves ==
  ASSUME TypeOK, AllFit, Before, NEW r \in Requests, Revoke(r)
  PROVE  Move(r) /\ Rows(r)
<1>1. pc[r] = "revoke" /\ loc[r].token \in Tokens
  BY Here DEF Revoke, Fits
<1>2. Become(r, "mint", loc[r]) /\ Writes(r, Stored(r))
  BY Stays DEF Revoke
<1>3. "mint" \in Labels /\ "mint" \in RefreshLabels /\ Fits("mint", loc[r])
  BY DEF Labels, Fits, RefreshLabels
<1>4. Move(r)
  BY <1>1, <1>2, <1>3, Here, MoveBy
<1>5. Rows(r)
  BY <1>1, RowsBy DEF Revoke
<1> QED  BY <1>4, <1>5

\* A pair that meets the unique key leaves the rows alone (Collide).
LEMMA CollideMoves ==
  ASSUME TypeOK, AllFit, Before, NEW r \in Requests, Collide(r)
  PROVE  Move(r) /\ Rows(r)
<1>1. Rows(r)
  BY RowsBy DEF Collide, KeepAll
<1>2. CASE loc[r].token = None
  <2>1. End(r) /\ Writes(r, Stored(r)) /\ ~Refreshing(r)
    BY <1>2 DEF Collide, Writes, Refreshing
  <2> QED  BY <1>1, <2>1, Here, EndMoves
<1>3. CASE loc[r].token # None
  <2>1. Become(r, "refused", loc[r]) /\ Writes(r, Stored(r))
    BY <1>3, Stays DEF Collide
  <2>2. "refused" \in Labels /\ "refused" \in RefreshLabels /\ Fits("refused", loc[r])
    BY DEF Labels, Fits, RefreshLabels
  <2> QED  BY <1>1, <2>1, <2>2, Here, MoveBy
<1> QED  BY <1>2, <1>3

\* A password change drops its token once let through (CheckWrite).
LEMMA CheckWriteMoves ==
  ASSUME TypeOK, AllFit, Before, NEW r \in Requests, CheckWrite(r)
  PROVE  Move(r) /\ Rows(r)
<1>1. Writes(r, Stored(r)) /\ ~Refreshing(r)
  BY DEF CheckWrite, At, Writes, Refreshing
<1>2. Rows(r)
  BY RowsBy DEF CheckWrite, KeepAll
<1>3. CASE End(r)
  BY <1>1, <1>2, <1>3, Here, EndMoves
<1>4. CASE Become(r, "hash", [NoLocals EXCEPT !.kind = loc[r].kind])
  <2>1. PICK k \in AllKinds : k = loc[r].kind
    BY Here
  <2> DEFINE l == [NoLocals EXCEPT !.kind = k]
  <2>2. Become(r, "hash", l)
    BY <1>4, <2>1
  <2>3. l \in Locals /\ Carries(l) = {None} /\ Fits("hash", l) /\ "hash" \in Labels
    BY NoneCarried DEF Fits, Labels
  <2> HIDE DEF l
  <2> QED  BY <1>1, <1>2, <2>2, <2>3, Here, MoveBy
<1> QED  BY <1>3, <1>4 DEF CheckWrite

\* A password or reset token that is no longer right changes nothing else.
LEMMA Wronged ==
  ASSUME TypeOK, AllFit, NEW q \in Requests
  PROVE  LET l == [loc[q] EXCEPT !.right = FALSE] IN
         /\ l \in Locals /\ l.kind = loc[q].kind /\ l.token = loc[q].token
         /\ l.body = loc[q].body /\ l.new = loc[q].new /\ l.late = loc[q].late
<1>1. PICK o \in Locals : o = loc[q]
  BY Here
<1>2. LET l == [o EXCEPT !.right = FALSE] IN
      /\ l \in Locals /\ l.kind = o.kind /\ l.token = o.token
      /\ l.body = o.body /\ l.new = o.new /\ l.late = o.late
  BY DEF Locals
<1> QED  BY <1>1, <1>2

\* Whoever writes the password, requests carry what they did.
LEMMA MistypedSame ==
  ASSUME TypeOK, AllFit, NEW r
  PROVE  /\ Mistyped(r) \in [Requests -> Locals]
         /\ \A q \in Requests : LET l == Mistyped(r)[q] IN
              /\ l.kind = loc[q].kind /\ l.token = loc[q].token
              /\ l.body = loc[q].body /\ l.new = loc[q].new /\ l.late = loc[q].late
<1>1. ASSUME NEW q \in Requests
      PROVE  LET l == Mistyped(r)[q] IN
              /\ l \in Locals /\ l.kind = loc[q].kind /\ l.token = loc[q].token
              /\ l.body = loc[q].body /\ l.new = loc[q].new /\ l.late = loc[q].late
  BY <1>1, Here, Wronged DEF Mistyped
<1> QED  BY <1>1 DEF Mistyped

\* A write of the password or of its reset token, of which r goes on.
LEMMA WriteMoves ==
  ASSUME TypeOK, AllFit, Before, NEW r \in Requests, NEW label \in {"used", "revokeAll"},
         pc[r] \in {"hash", "used"}, pc' = [pc EXCEPT ![r] = label],
         loc' \in [Requests -> Locals],
         \A q \in Requests : /\ loc'[q].kind = loc[q].kind /\ loc'[q].token = loc[q].token
                             /\ loc'[q].body = loc[q].body /\ loc'[q].new = loc[q].new
                             /\ loc'[q].late = loc[q].late,
         UNCHANGED <<refreshToken, access, signed, active, storage, before>>,
         resetToken' \in {"none", "unused", "used"}
  PROVE  Move(r) /\ Rows(r)
<1>1. /\ pc' \in [Requests -> Labels] /\ pc'[r] = label
      /\ \A q \in Requests \ {r} : pc'[q] = pc[q]
  BY DEF TypeOK, Labels
<1>2. \A q \in Requests \ {r} : Same(q)
  BY <1>1 DEF Same
<1>3. storage' \in [Browsers -> Token] /\ ~Refreshing(r)
  BY DEF TypeOK, Refreshing
<1>4. Carries(loc'[r]) = Carries(loc[r]) /\ Fits(label, loc'[r])
  BY DEF Carries, Fits
<1>5. Move(r)
  BY <1>1, <1>2, <1>3, <1>4, Here DEF Move
<1>6. Exchanged(storage', pc', loc') = Exchanged(storage, pc, loc)
  <2>1. \A q \in Requests : pc'[q] = "sent" <=> pc[q] = "sent"
    BY <1>1
  <2> QED  BY <2>1, SameHeld
<1> QED  BY <1>5, <1>6, RowsStay

\* The new hash moves no token (WriteHash).
LEMMA WriteHashMoves ==
  ASSUME TypeOK, AllFit, Before, NEW r \in Requests, WriteHash(r)
  PROVE  Move(r) /\ Rows(r)
<1>1. PICK label \in {"used", "revokeAll"} : pc' = [pc EXCEPT ![r] = label]
  BY DEF WriteHash
<1>2. /\ loc' \in [Requests -> Locals]
      /\ \A q \in Requests : /\ loc'[q].kind = loc[q].kind /\ loc'[q].token = loc[q].token
                             /\ loc'[q].body = loc[q].body /\ loc'[q].new = loc[q].new
                             /\ loc'[q].late = loc[q].late
  BY MistypedSame DEF WriteHash
<1>3. /\ UNCHANGED <<refreshToken, access, signed, active, storage, before>>
      /\ resetToken' \in {"none", "unused", "used"} /\ pc[r] \in {"hash", "used"}
  BY DEF WriteHash, server, TypeOK
<1> QED  BY <1>1, <1>2, <1>3, WriteMoves

\* Marking the reset token used moves no token (MarkUsed).
LEMMA MarkUsedMoves ==
  ASSUME TypeOK, AllFit, Before, NEW r \in Requests, MarkUsed(r)
  PROVE  Move(r) /\ Rows(r)
<1>1. pc' = [pc EXCEPT ![r] = "revokeAll"] /\ pc[r] \in {"hash", "used"}
  BY DEF MarkUsed
<1>2. ASSUME NEW q \in Requests
      PROVE  /\ loc'[q] \in Locals
             /\ loc'[q].kind = loc[q].kind /\ loc'[q].token = loc[q].token
             /\ loc'[q].body = loc[q].body /\ loc'[q].new = loc[q].new
             /\ loc'[q].late = loc[q].late
  BY <1>2, Here, Wronged DEF MarkUsed
<1>3. loc' \in [Requests -> Locals]
  BY <1>2 DEF MarkUsed
<1>4. /\ UNCHANGED <<refreshToken, access, signed, active, storage, before>>
      /\ resetToken' \in {"none", "unused", "used"}
  BY DEF MarkUsed
<1> QED  BY <1>1, <1>2, <1>3, <1>4, WriteMoves

\* A handler that fails ends its request, or its refresh (Fail).
LEMMA FailMoves ==
  ASSUME TypeOK, AllFit, Before, NEW r \in Requests, Fail(r)
  PROVE  Move(r) /\ Rows(r)
<1>1. Rows(r)
  BY RowsBy DEF Fail, KeepAll
<1>2. CASE Refreshing(r) /\ pc[r] # "renewed" /\ To(r, "refused")
  <2>1. Become(r, "refused", loc[r]) /\ Writes(r, Stored(r))
    BY <1>2, Stays
  <2>2. "refused" \in Labels /\ "refused" \in RefreshLabels /\ Fits("refused", loc[r])
    BY DEF Labels, Fits, RefreshLabels
  <2> QED  BY <1>1, <2>1, <2>2, Here, MoveBy
<1>3. CASE ~Refreshing(r) /\ End(r) /\ SetStorage(r, None)
  <2>1. Writes(r, None)
    BY <1>3 DEF Writes
  <2> QED  BY <1>1, <1>3, <2>1, Here, EndMoves
<1>4. CASE ~Refreshing(r) /\ End(r) /\ UNCHANGED storage
  <2>1. Writes(r, Stored(r))
    BY <1>4 DEF Writes
  <2> QED  BY <1>1, <1>4, <2>1, Here, EndMoves
<1> QED  BY <1>2, <1>3, <1>4 DEF Fail

\* What a request does is one of its moves, or the minting of a pair.
LEMMA StepMoves ==
  ASSUME TypeOK, AllFit, Before, NEW r \in Requests, Send(r) \/ Step(r) \/ Fail(r) \/ Unload(r)
  PROVE  (Move(r) /\ Rows(r)) \/ Mint(r)
BY SendMoves, InterceptMoves, StoreMoves, ClearMoves, DenyMoves, AnswerMoves, LogoutMoves, LogoutAllMoves,
   RevokeAllMoves, LoginMoves, FindTokenMoves, RevokeMoves, CollideMoves, CheckWriteMoves, WriteHashMoves,
   MarkUsedMoves, FailMoves, UnloadMoves DEF Step

-----------------------------------------------------------------------------
\* What the minting of a pair does: its name is one nobody holds.
Mints(r, t) ==
  /\ pc[r] = "mint" /\ t \in Tokens /\ t \notin Held
  /\ pc' \in [Requests -> Labels] /\ loc' \in [Requests -> Locals]
  /\ \A q \in Requests \ {r} : Same(q)
  /\ pc'[r] = "renewed" /\ loc'[r].new = t
  /\ loc'[r].token = loc[r].token /\ loc'[r].body = loc[r].body
  /\ UNCHANGED storage
  /\ refreshToken' \in [Tokens -> RowStatus]
  /\ access' \subseteq Tokens
  /\ signed' \in BOOLEAN /\ active' \in BOOLEAN /\ resetToken' \in {"none", "unused", "used"}
  /\ before' \subseteq Tokens /\ before' \subseteq Exchanged(storage', pc', loc')
  /\ before' \subseteq before \union (IF loc[r].token \in before /\ ~loc[r].late THEN {t} ELSE {})
  /\ \A u \in Tokens \ {t} :
       /\ refreshToken'[u] = "live" => refreshToken[u] = "live"
       /\ u \in Exchanged(storage', pc', loc') => refreshToken'[u] = refreshToken[u]
  /\ refreshToken'[t] = "live"

\* The new pair has a name nobody holds, and its row is live (Mint).
LEMMA MintMints ==
  ASSUME TypeOK, AllFit, Before, NEW r \in Requests, Mint(r)
  PROVE  \E t \in Tokens : Mints(r, t)
<1> DEFINE u0 == CHOOSE u \in Tokens \ Held : TRUE
<1>1. u0 \in Tokens \ Held
  BY DEF Mint
<1>2. PICK t \in Tokens : t = u0 /\ t \notin Held
  BY <1>1
<1>3. PICK o \in Locals : o = loc[r]
  BY Here
<1> DEFINE l == [o EXCEPT !.new = t]
           old == before \union (IF loc[r].token \in before /\ ~loc[r].late THEN {t} ELSE {})
           row == [refreshToken EXCEPT ![t] = "live"]
<1>4. /\ pc[r] = "mint" /\ signed' = TRUE
      /\ Become(r, "renewed", l)
      /\ UNCHANGED <<active, resetToken, storage>>
      /\ Keep(row, access \union {t}, old)
  BY <1>2, <1>3 DEF Mint
<1>5. l \in Locals /\ l.token = o.token /\ l.body = o.body /\ l.new = t
  BY DEF Locals, Token
<1> HIDE DEF l
<1>6. /\ pc' \in [Requests -> Labels] /\ loc' \in [Requests -> Locals]
      /\ pc'[r] = "renewed" /\ loc'[r] = l
      /\ \A q \in Requests \ {r} : pc'[q] = pc[q] /\ loc'[q] = loc[q]
  BY <1>4, <1>5, Becomes DEF Labels
<1>7. \A q \in Requests \ {r} : Same(q)
  BY <1>6 DEF Same
<1>8. /\ row \in [Tokens -> RowStatus] /\ row[t] = "live"
      /\ \A u \in Tokens \ {t} : row[u] = refreshToken[u]
  BY DEF TypeOK, RowStatus
<1>9. access \union {t} \in SUBSET Tokens /\ old \in SUBSET Tokens
  BY DEF TypeOK
<1> HIDE DEF row, old
<1>10. /\ refreshToken' \in [Tokens -> RowStatus]
       /\ access' \subseteq Tokens /\ before' \subseteq old
       /\ before' \subseteq Exchanged(storage', pc', loc')
       /\ \A u \in Tokens : /\ u \in Exchanged(storage', pc', loc') => refreshToken'[u] = row[u]
                            /\ refreshToken'[u] \in {row[u], "none"}
  BY <1>4, <1>8, <1>9, Keeps
<1>11. t \in Exchanged(storage', pc', loc')
  <2>1. loc'[r].new = t
    BY <1>5, <1>6
  <2> QED  BY <2>1 DEF Exchanged
<1>12. \A u \in Tokens \ {t} :
         /\ refreshToken'[u] = "live" => refreshToken[u] = "live"
         /\ u \in Exchanged(storage', pc', loc') => refreshToken'[u] = refreshToken[u]
  BY <1>8, <1>10
<1>13. refreshToken'[t] = "live"
  BY <1>8, <1>10, <1>11
<1>14. signed' \in BOOLEAN /\ active' \in BOOLEAN /\ resetToken' \in {"none", "unused", "used"}
  BY <1>4 DEF TypeOK
<1>15. before' \subseteq Tokens
  BY <1>9, <1>10
<1>16. before' \subseteq before \union (IF loc[r].token \in before /\ ~loc[r].late THEN {t} ELSE {})
  BY <1>10 DEF old
<1>17. loc'[r].new = t /\ loc'[r].token = loc[r].token /\ loc'[r].body = loc[r].body
  BY <1>3, <1>5, <1>6
<1> QED  BY <1>2, <1>4, <1>6, <1>7, <1>10, <1>12, <1>13, <1>14, <1>15, <1>16, <1>17 DEF Mints

\* A step that moves no token.
Still ==
  /\ pc' = pc /\ storage' = storage /\ loc' \in [Requests -> Locals]
  /\ \A q \in Requests : Same(q) /\ loc'[q].late = loc[q].late
  /\ refreshToken' \in [Tokens -> RowStatus]
  /\ \A t \in Tokens : refreshToken'[t] = refreshToken[t] \/ (refreshToken[t] = "live" /\ refreshToken'[t] = "ended")
  /\ access' \subseteq Tokens
  /\ signed' \in BOOLEAN /\ active' \in BOOLEAN /\ resetToken' \in {"none", "unused", "used"}
  /\ before' = before

\* Expiry, an administrator, the mail and the clock move no token.
LEMMA OthersStill ==
  ASSUME TypeOK, AllFit,
         \/ \E t \in Tokens : ExpireAccess(t) \/ ExpireRefresh(t)
         \/ ForgotPassword \/ AdminReset \/ Deactivate \/ NextSecond \/ UNCHANGED vars
  PROVE  Still
<1>1. CASE \E t \in Tokens : ExpireAccess(t)
  BY <1>1 DEF ExpireAccess, Still, Same, TypeOK, server
<1>2. CASE \E t \in Tokens : ExpireRefresh(t)
  BY <1>2 DEF ExpireRefresh, Still, Same, TypeOK, RowStatus, server
<1>3. CASE ForgotPassword
  BY <1>3 DEF ForgotPassword, Still, Same, TypeOK
<1>4. CASE AdminReset
  <2>1. /\ loc' \in [Requests -> Locals]
        /\ \A q \in Requests : /\ loc'[q].kind = loc[q].kind /\ loc'[q].token = loc[q].token
                               /\ loc'[q].body = loc[q].body /\ loc'[q].new = loc[q].new
                               /\ loc'[q].late = loc[q].late
    BY <1>4, MistypedSame DEF AdminReset
  <2>2. \A q \in Requests : Same(q)
    BY <1>4, <2>1 DEF Same, AdminReset
  <2> QED  BY <1>4, <2>1, <2>2 DEF AdminReset, Still, TypeOK, server
<1>5. CASE Deactivate
  BY <1>5 DEF Deactivate, Still, Same, TypeOK
<1>6. CASE NextSecond
  BY <1>6 DEF NextSecond, Still, Same, TypeOK
<1>7. CASE UNCHANGED vars
  BY <1>7 DEF vars, Still, Same, TypeOK, server
<1> QED  BY <1>1, <1>2, <1>3, <1>4, <1>5, <1>6, <1>7

\* The three kinds of step.
LEMMA NextMoves ==
  ASSUME TypeOK, AllFit, Before, [Next]_vars
  PROVE  \/ Still
         \/ \E r \in Requests : Move(r) /\ Rows(r)
         \/ \E r \in Requests, t \in Tokens : Mints(r, t)
<1>1. CASE \E r \in Requests : Send(r) \/ Step(r) \/ Fail(r) \/ Unload(r)
  BY <1>1, StepMoves, MintMints
<1>2. CASE ~ \E r \in Requests : Send(r) \/ Step(r) \/ Fail(r) \/ Unload(r)
  BY <1>2, OthersStill DEF Next
<1> QED  BY <1>1, <1>2

-----------------------------------------------------------------------------
\* A refresh of a session that was revoked was past its checks by then.
Late == \A q \in Requests : pc[q] \in {"revoke", "mint"} /\ loc[q].token \in before => loc[q].late

EndInv == TypeOK /\ AllFit /\ Before /\ RevokedSessionsEnd /\ Late

\* At first nothing was revoked.
LEMMA InitEnd == Init => EndInv
<1> SUFFICES ASSUME Init PROVE EndInv
  OBVIOUS
<1>1. NoLocals \in Locals /\ Carries(NoLocals) = {None}
  BY NoneCarried DEF AllKinds
<1>2. storage \in [Browsers -> Token] /\ {storage[b] : b \in Browsers} \ {None} \subseteq Tokens
  BY DEF Init, SomeSignedIn, Token
<1>3. TypeOK
  BY <1>1, <1>2 DEF Init, TypeOK, RowStatus, Labels
<1>4. AllFit
  BY <1>1 DEF Init, AllFit, Fits
<1> QED  BY <1>3, <1>4 DEF Init, EndInv, Before, RevokedSessionsEnd, Late

\* The parts of the invariant that say where requests and rows are.
LEMMA MoveFits ==
  ASSUME TypeOK, AllFit, NEW r \in Requests, Move(r), Rows(r)
  PROVE  TypeOK' /\ AllFit' /\ Before'
<1>1. TypeOK'
  BY DEF Move, Rows, TypeOK
<1>2. Before'
  BY DEF Rows, Before
<1>3. ASSUME NEW q \in Requests
      PROVE  Fits(pc'[q], loc'[q])
  <2>1. CASE q = r
    BY <2>1 DEF Move
  <2>2. CASE q # r
    <3>1. Fits(pc[q], loc[q]) /\ Same(q)
      BY <1>3, <2>2, Here DEF Move
    <3> QED  BY <3>1 DEF Same, Fits, Carries
  <2> QED  BY <2>1, <2>2
<1> QED  BY <1>1, <1>2, <1>3 DEF AllFit

\* The minting keeps requests and rows where they belong.
LEMMA MintFits ==
  ASSUME TypeOK, AllFit, NEW r \in Requests, NEW t \in Tokens, Mints(r, t)
  PROVE  TypeOK' /\ AllFit' /\ Before'
<1>1. TypeOK'
  BY DEF Mints, TypeOK
<1>2. Before'
  BY DEF Mints, Before
<1>3. ASSUME NEW q \in Requests
      PROVE  Fits(pc'[q], loc'[q])
  <2>1. CASE q = r
    BY <2>1 DEF Mints, Fits
  <2>2. CASE q # r
    <3>1. Fits(pc[q], loc[q]) /\ Same(q)
      BY <1>3, <2>2, Here DEF Mints
    <3> QED  BY <3>1 DEF Same, Fits, Carries
  <2> QED  BY <2>1, <2>2
<1> QED  BY <1>1, <1>2, <1>3 DEF AllFit

\* And so does a step that moves no token.
LEMMA StillFits ==
  ASSUME TypeOK, AllFit, Before, Still
  PROVE  TypeOK' /\ AllFit' /\ Before'
<1>1. TypeOK'
  BY DEF Still, TypeOK
<1>2. Exchanged(storage', pc', loc') = Exchanged(storage, pc, loc)
  <2>1. \A q \in Requests : /\ pc'[q] = "sent" <=> pc[q] = "sent"
                            /\ loc'[q].token = loc[q].token /\ loc'[q].body = loc[q].body
                            /\ loc'[q].new = loc[q].new
    BY DEF Still, Same
  <2> QED  BY <2>1, SameHeld DEF Still
<1>3. Before'
  BY <1>2 DEF Before, Still
<1>4. ASSUME NEW q \in Requests
      PROVE  Fits(pc'[q], loc'[q])
  <2>1. Fits(pc[q], loc[q]) /\ Same(q)
    BY <1>4, Here DEF Still
  <2> QED  BY <2>1 DEF Same, Fits, Carries
<1> QED  BY <1>1, <1>3, <1>4 DEF AllFit

\* A move revives no session that was revoked.
LEMMA MoveEnd ==
  ASSUME EndInv, NEW r \in Requests, Move(r), Rows(r)
  PROVE  EndInv'
<1>1. TypeOK' /\ AllFit' /\ Before'
  BY MoveFits DEF EndInv
<1>2. CASE /\ \A t \in Tokens : refreshToken'[t] # "live"
           /\ \A q \in Requests : pc'[q] \in {"revoke", "mint"} => loc'[q].late
  BY <1>1, <1>2 DEF EndInv, RevokedSessionsEnd, Late, TypeOK
<1>3. CASE before' \subseteq before
  <2>1. RevokedSessionsEnd'
    BY <1>3 DEF EndInv, RevokedSessionsEnd, Rows, TypeOK
  <2>2. ASSUME NEW q \in Requests, pc'[q] \in {"revoke", "mint"}, loc'[q].token \in before'
        PROVE  loc'[q].late
    <3>1. CASE q # r
      <4>1. Same(q) /\ pc[q] \in {"revoke", "mint"} /\ loc[q].token \in before
        BY <1>3, <2>2, <3>1 DEF Move, Same
      <4> QED  BY <4>1 DEF EndInv, Late, Same
    <3>2. CASE q = r
      <4>1. loc'[r].token \in before /\ before \subseteq Tokens
        BY <1>3, <2>2, <3>2 DEF EndInv, TypeOK
      <4>2. loc'[r].token # None
        BY <4>1, SessionsAssumption
      <4>3. /\ loc'[r].token = loc[r].token
            /\ \/ pc[r] = "revoke" /\ loc'[r].late = loc[r].late
               \/ pc[r] = "refresh" /\ refreshToken[loc[r].token] = "live"
        BY <2>2, <3>2, <4>2 DEF Move
      <4>4. refreshToken[loc[r].token] # "live"
        BY <4>1, <4>3 DEF EndInv, RevokedSessionsEnd
      <4> QED  BY <3>2, <4>1, <4>3, <4>4 DEF EndInv, Late
    <3> QED  BY <3>1, <3>2
  <2> QED  BY <1>1, <2>1, <2>2 DEF EndInv, Late
<1> QED  BY <1>2, <1>3 DEF Rows

\* A new pair does not continue a revoked session, unless it was late.
LEMMA MintEnd ==
  ASSUME EndInv, NEW r \in Requests, NEW t \in Tokens, Mints(r, t)
  PROVE  EndInv'
<1>1. TypeOK' /\ AllFit' /\ Before'
  BY MintFits DEF EndInv
<1>2. before' \subseteq before
  BY DEF EndInv, Late, Mints
<1>3. t \notin before
  BY DEF EndInv, Before, Mints, Held
<1>4. RevokedSessionsEnd'
  BY <1>2, <1>3 DEF EndInv, RevokedSessionsEnd, Mints, TypeOK
<1>5. ASSUME NEW q \in Requests, pc'[q] \in {"revoke", "mint"}, loc'[q].token \in before'
      PROVE  loc'[q].late
  <2>1. q # r /\ Same(q)
    BY <1>5 DEF Mints
  <2> QED  BY <1>2, <1>5, <2>1 DEF EndInv, Late, Same
<1> QED  BY <1>1, <1>4, <1>5 DEF EndInv, Late

\* Nor does any step that moves no token.
LEMMA StillEnd ==
  ASSUME EndInv, Still
  PROVE  EndInv'
<1>1. TypeOK' /\ AllFit' /\ Before'
  BY StillFits DEF EndInv
<1>2. RevokedSessionsEnd'
  BY DEF EndInv, RevokedSessionsEnd, Still, TypeOK
<1>3. Late'
  BY DEF EndInv, Late, Still, Same
<1> QED  BY <1>1, <1>2, <1>3 DEF EndInv

\* A session begun before the sessions were revoked is over, and so is what
\* it is exchanged for: no token of it is accepted again.
THEOREM EndedSessionsStayEnded == Spec => []RevokedSessionsEnd
<1>1. Init => EndInv
  BY InitEnd
<1>2. EndInv /\ [Next]_vars => EndInv'
  <2> SUFFICES ASSUME EndInv, [Next]_vars PROVE EndInv'
    OBVIOUS
  <2> QED  BY NextMoves, MoveEnd, MintEnd, StillEnd DEF EndInv
<1>3. EndInv => RevokedSessionsEnd
  BY DEF EndInv
<1> QED  BY <1>1, <1>2, <1>3, PTL DEF Spec

-----------------------------------------------------------------------------
\* A browser, or a request of it, has the token t.
Has(b, t) ==
  \/ storage[b] = t
  \/ \E q \in Requests : BrowserOf[q] = b /\ t \in Carries(loc[q])

\* No token is in two browsers.
Apart == \A t \in Tokens : \A a, b \in Browsers : Has(a, t) /\ Has(b, t) => a = b

\* The rows of a browser that is not left with a spent token.
Good == {"live", "lost", "ended"}

\* What a browser stores has a row.
Kept == \A b \in Browsers : storage[b] # None => refreshToken[storage[b]] # "none"

\* A pair on its way to the browser is good, and nobody else has it.
Fresh ==
  \A q \in Requests : pc[q] = "renewed" =>
    /\ loc[q].new \in Tokens /\ refreshToken[loc[q].new] \in Good
    /\ \A b \in Browsers : storage[b] # loc[q].new
    /\ \A p \in Requests \ {q} : loc[q].new \notin Carries(loc[p])

UsableInv == TypeOK /\ AllFit /\ Before /\ Apart /\ Fresh /\ Kept /\ HoldsUsableToken

\* At first every browser has a live session of its own.
LEMMA InitUsable == Init => UsableInv
<1> SUFFICES ASSUME Init PROVE UsableInv
  OBVIOUS
<1>1. TypeOK /\ AllFit /\ Before
  BY InitEnd DEF EndInv
<1>2. \A q \in Requests : loc[q] = NoLocals /\ Carries(loc[q]) = {None} /\ pc[q] = "idle"
  BY NoneCarried DEF Init, AllKinds
<1>3. \A t \in Tokens, b \in Browsers : Has(b, t) => storage[b] = t
  BY <1>2, SessionsAssumption DEF Has
<1>4. storage \in [Browsers -> Token]
      /\ \A a, b \in Browsers : a # b /\ storage[a] = storage[b] => storage[a] = None
  BY DEF Init, SomeSignedIn
<1>5. Apart
  BY <1>3, <1>4, SessionsAssumption DEF Apart
<1>6. Fresh
  BY <1>2 DEF Fresh
<1>7. Kept /\ HoldsUsableToken
  BY <1>4 DEF HoldsUsableToken, Kept, Init, Token
<1> QED  BY <1>1, <1>5, <1>6, <1>7 DEF UsableInv

\* A move hands no token to another browser.
LEMMA MoveHas ==
  ASSUME TypeOK, NEW r \in Requests, Move(r), NEW t \in Tokens, NEW b \in Browsers, Has(b, t)'
  PROVE  Has(b, t)
<1>1. t # None
  BY SessionsAssumption
<1>2. CASE storage'[b] = t
  <2>1. CASE b = BrowserOf[r]
    <3>1. storage[b] = t \/ (pc[r] = "renewed" /\ loc[r].new = t)
      BY <1>1, <1>2, <2>1 DEF Move
    <3> QED  BY <2>1, <3>1 DEF Has, Carries
  <2>2. CASE b # BrowserOf[r]
    BY <1>2, <2>2 DEF Move, Has
  <2> QED  BY <2>1, <2>2
<1>3. ASSUME NEW q \in Requests, BrowserOf[q] = b, t \in Carries(loc'[q])
      PROVE  Has(b, t)
  <2>1. CASE q = r
    <3>1. t \in Carries(loc[r]) \/ t = Stored(r)
      BY <1>1, <1>3, <2>1 DEF Move
    <3> QED  BY <1>3, <2>1, <3>1 DEF Has, Stored
  <2>2. CASE q # r
    <3>1. Carries(loc'[q]) = Carries(loc[q])
      BY <2>2 DEF Move, Same, Carries
    <3> QED  BY <1>3, <3>1 DEF Has
  <2> QED  BY <2>1, <2>2
<1> QED  BY <1>2, <1>3 DEF Has

\* A pair on its way stays good and unknown to others.
LEMMA MoveFresh ==
  ASSUME UsableInv, NEW r \in Requests, Move(r), Rows(r)
  PROVE  Fresh'
<1> SUFFICES ASSUME NEW q \in Requests, pc'[q] = "renewed"
             PROVE  /\ loc'[q].new \in Tokens /\ refreshToken'[loc'[q].new] \in Good
                    /\ \A b \in Browsers : storage'[b] # loc'[q].new
                    /\ \A p \in Requests \ {q} : loc'[q].new \notin Carries(loc'[p])
  BY DEF Fresh
<1>1. q # r /\ Same(q) /\ pc[q] = "renewed"
  BY DEF Move, Same
<1>2. PICK t \in Tokens : t = loc[q].new /\ t = loc'[q].new
  BY <1>1 DEF UsableInv, Fresh, Same
<1>3. /\ refreshToken[t] \in Good
      /\ \A b \in Browsers : storage[b] # t
      /\ \A p \in Requests \ {q} : t \notin Carries(loc[p])
  BY <1>1, <1>2 DEF UsableInv, Fresh
<1>4. t # None /\ BrowserOf[r] \in Browsers /\ Stored(r) # t
  BY <1>3, SessionsAssumption DEF Stored
<1>5. t \notin Carries(loc[r]) /\ t # loc[r].new /\ t # loc[r].token
  BY <1>1, <1>3 DEF Carries
<1>6. \A b \in Browsers : storage'[b] # t
  BY <1>3, <1>4, <1>5 DEF Move
<1>7. ASSUME NEW p \in Requests \ {q} PROVE t \notin Carries(loc'[p])
  <2>1. CASE p = r
    BY <1>4, <1>5, <2>1 DEF Move
  <2>2. CASE p # r
    <3>1. Carries(loc'[p]) = Carries(loc[p])
      BY <2>2 DEF Move, Same, Carries
    <3> QED  BY <1>3, <3>1
  <2> QED  BY <2>1, <2>2
<1>8. t \in Exchanged(storage', pc', loc')
  BY <1>2 DEF Exchanged
<1>9. refreshToken'[t] \in Good
  BY <1>3, <1>5, <1>8 DEF Rows, Good
<1> QED  BY <1>2, <1>6, <1>7, <1>9

\* A move leaves the stored tokens usable: only the browser that has a token revokes it.
LEMMA MoveUsable ==
  ASSUME UsableInv, NEW r \in Requests, Move(r), Rows(r)
  PROVE  Kept' /\ HoldsUsableToken'
<1> SUFFICES ASSUME NEW b \in Browsers, storage'[b] # None
             PROVE  /\ refreshToken'[storage'[b]] # "none"
                    /\ \/ refreshToken'[storage'[b]] \in Good
                       \/ \E q \in Requests : BrowserOf[q] = b /\ Refreshing(q)' /\ loc'[q].token = storage'[b]
  BY DEF Kept, HoldsUsableToken, Good
<1>1. PICK t \in Tokens : t = storage'[b]
  BY DEF Move, Token
<1>2. t \in Exchanged(storage', pc', loc') /\ t # None
  BY <1>1, SessionsAssumption DEF Exchanged
<1>3. \/ refreshToken'[t] \in {refreshToken[t], "lost", "ended"}
      \/ pc[r] = "revoke" /\ t = loc[r].token /\ refreshToken'[t] = "rotated"
  BY <1>2 DEF Rows
<1>4. CASE b = BrowserOf[r] /\ pc[r] = "renewed" /\ t = loc[r].new
  BY <1>1, <1>3, <1>4 DEF UsableInv, Fresh, Good
<1>5. CASE storage[b] = t /\ ~(b = BrowserOf[r] /\ pc[r] = "renewed" /\ t = loc[r].new)
  <2>0. refreshToken'[t] \in RowStatus /\ refreshToken'[t] # "none"
    BY <1>2, <1>3, <1>5 DEF UsableInv, Kept, Rows
  <2>1. \/ refreshToken[t] \in Good
        \/ \E q \in Requests : BrowserOf[q] = b /\ Refreshing(q) /\ loc[q].token = t
    BY <1>2, <1>5 DEF UsableInv, HoldsUsableToken, Good
  <2>2. ASSUME NEW q \in Requests, BrowserOf[q] = b, Refreshing(q), loc[q].token = t
        PROVE  (Refreshing(q)' /\ loc'[q].token = t) \/ refreshToken'[t] \in Good
    <3>1. CASE q = r
      <4>1. (pc'[r] \in RefreshLabels /\ loc'[r].token = t) \/ refreshToken'[t] # "rotated"
        BY <1>1, <1>2, <1>5, <2>2, <3>1 DEF Move
      <4> QED  BY <1>2, <2>0, <3>1, <4>1 DEF Refreshing, RefreshLabels, RowStatus, Good
    <3>2. CASE q # r
      BY <2>2, <3>2 DEF Move, Same, Refreshing
    <3> QED  BY <3>1, <3>2
  <2>3. CASE pc[r] = "revoke" /\ t = loc[r].token
    <3>1. Has(b, t) /\ Has(BrowserOf[r], t) /\ BrowserOf[r] \in Browsers
      BY <1>5, <2>3, SessionsAssumption DEF Has, Carries
    <3>2. b = BrowserOf[r]
      BY <3>1 DEF UsableInv, Apart
    <3>3. Refreshing(r)
      BY <1>2, <2>3 DEF Refreshing
    <3> QED  BY <1>1, <2>0, <2>2, <2>3, <3>2, <3>3
  <2>4. CASE refreshToken'[t] \in {refreshToken[t], "lost", "ended"}
    <3>1. CASE refreshToken[t] \in Good
      BY <1>1, <2>0, <2>4, <3>1 DEF Good
    <3>2. CASE \E q \in Requests : BrowserOf[q] = b /\ Refreshing(q) /\ loc[q].token = t
      BY <1>1, <2>0, <2>2, <3>2
    <3> QED  BY <2>1, <3>1, <3>2
  <2> QED  BY <1>3, <2>3, <2>4
<1> QED  BY <1>1, <1>2, <1>4, <1>5 DEF Move

\* The new pair is nobody's but r's, and no other row changes.
LEMMA MintKeepsUsable ==
  ASSUME UsableInv, NEW r \in Requests, NEW t \in Tokens, Mints(r, t)
  PROVE  Apart' /\ Fresh' /\ Kept' /\ HoldsUsableToken'
<1>1. /\ \A b \in Browsers : storage[b] # t /\ ~Has(b, t)
      /\ \A q \in Requests : t \notin Carries(loc[q])
  <2>1. \A q \in Requests : t \notin Carries(loc[q])
    BY DEF Mints, Held, Shown, Exchanged, Carries
  <2>2. \A b \in Browsers : storage[b] # t
    BY DEF Mints, Held, Shown
  <2> QED  BY <2>1, <2>2 DEF Has
<1>2. /\ Carries(loc'[r]) \subseteq Carries(loc[r]) \union {t}
      /\ \A q \in Requests \ {r} : Carries(loc'[q]) = Carries(loc[q])
  BY DEF Mints, Same, Carries
<1>3. ASSUME NEW u \in Tokens, NEW b \in Browsers, Has(b, u)'
      PROVE  Has(b, u) \/ (u = t /\ b = BrowserOf[r])
  BY <1>2, <1>3 DEF Has, Mints
<1>4. Apart'
  <2> SUFFICES ASSUME NEW u \in Tokens, NEW a \in Browsers, NEW b \in Browsers, Has(a, u)', Has(b, u)'
               PROVE  a = b
    BY DEF Apart
  <2>1. Has(a, u) \/ (u = t /\ a = BrowserOf[r])
    BY <1>3
  <2>2. Has(b, u) \/ (u = t /\ b = BrowserOf[r])
    BY <1>3
  <2> QED  BY <1>1, <2>1, <2>2 DEF UsableInv, Apart
<1>5. ASSUME NEW q \in Requests, pc'[q] = "renewed"
      PROVE  /\ loc'[q].new \in Tokens /\ refreshToken'[loc'[q].new] \in Good
             /\ \A b \in Browsers : storage'[b] # loc'[q].new
             /\ \A p \in Requests \ {q} : loc'[q].new \notin Carries(loc'[p])
  <2>1. CASE q = r
    BY <1>1, <1>2, <2>1 DEF Mints, Good
  <2>2. CASE q # r
    <3>1. pc[q] = "renewed" /\ loc'[q].new = loc[q].new
      BY <1>5, <2>2 DEF Mints, Same
    <3>2. PICK u \in Tokens : u = loc[q].new
      BY <3>1 DEF UsableInv, Fresh
    <3>3. /\ refreshToken[u] \in Good
          /\ \A b \in Browsers : storage[b] # u
          /\ \A p \in Requests \ {q} : u \notin Carries(loc[p])
      BY <3>1, <3>2 DEF UsableInv, Fresh
    <3>4. u # t /\ u \in Exchanged(storage', pc', loc')
      BY <1>1, <3>1, <3>2 DEF Carries, Exchanged
    <3>5. refreshToken'[u] = refreshToken[u]
      BY <3>4 DEF Mints
    <3>6. \A p \in Requests \ {q} : u \notin Carries(loc'[p])
      BY <1>2, <3>3, <3>4
    <3> QED  BY <3>1, <3>2, <3>3, <3>5, <3>6 DEF Mints
  <2> QED  BY <2>1, <2>2
<1>6. ASSUME NEW b \in Browsers, storage'[b] # None
      PROVE  /\ refreshToken'[storage'[b]] # "none"
             /\ \/ refreshToken'[storage'[b]] \in Good
                \/ \E q \in Requests : BrowserOf[q] = b /\ Refreshing(q)' /\ loc'[q].token = storage'[b]
  <2>1. PICK u \in Tokens : u = storage[b] /\ storage'[b] = u
    BY <1>6 DEF UsableInv, TypeOK, Mints, Token
  <2>2. u # t /\ u \in Exchanged(storage', pc', loc') /\ u # None
    BY <1>1, <2>1, SessionsAssumption DEF Exchanged
  <2>3. refreshToken'[u] = refreshToken[u]
    BY <2>2 DEF Mints
  <2>4. /\ refreshToken[u] # "none"
        /\ \/ refreshToken[u] \in Good
           \/ \E q \in Requests : BrowserOf[q] = b /\ Refreshing(q) /\ loc[q].token = u
    BY <2>1, <2>2 DEF UsableInv, Kept, HoldsUsableToken, Good
  <2>5. ASSUME NEW q \in Requests, Refreshing(q), loc[q].token = u
        PROVE  Refreshing(q)' /\ loc'[q].token = u
    <3>1. CASE q = r
      BY <2>2, <2>5, <3>1 DEF Mints, Refreshing
    <3>2. CASE q # r
      BY <2>5, <3>2 DEF Mints, Same, Refreshing
    <3> QED  BY <3>1, <3>2
  <2> QED  BY <2>1, <2>3, <2>4, <2>5
<1> QED  BY <1>4, <1>5, <1>6 DEF Fresh, Kept, HoldsUsableToken, Good

\* A step that moves no token ends sessions at most.
LEMMA StillKeepsUsable ==
  ASSUME UsableInv, Still
  PROVE  Apart' /\ Fresh' /\ Kept' /\ HoldsUsableToken'
<1>1. \A q \in Requests : Carries(loc'[q]) = Carries(loc[q]) /\ loc'[q].new = loc[q].new
  BY DEF Still, Same, Carries
<1>2. \A t \in Tokens, b \in Browsers : Has(b, t)' <=> Has(b, t)
  BY <1>1 DEF Has, Still
<1>3. Apart'
  BY <1>2 DEF UsableInv, Apart
<1>4. \A t \in Tokens : /\ refreshToken[t] \in Good => refreshToken'[t] \in Good
                        /\ refreshToken[t] # "none" => refreshToken'[t] # "none"
  BY DEF Still, Good
<1>5. Fresh'
  BY <1>1, <1>4 DEF UsableInv, Fresh, Still
<1>6. \A q \in Requests : (Refreshing(q)' <=> Refreshing(q)) /\ loc'[q].token = loc[q].token
  BY DEF Still, Same, Refreshing
<1>7. \A b \in Browsers : storage'[b] = storage[b] /\ storage[b] \in Token
  BY DEF UsableInv, TypeOK, Still
<1>8. Kept' /\ HoldsUsableToken'
  BY <1>4, <1>6, <1>7 DEF UsableInv, Kept, HoldsUsableToken, Token, Good
<1> QED  BY <1>3, <1>5, <1>8

\* A move keeps the browsers' tokens apart.
LEMMA MoveApart ==
  ASSUME UsableInv, NEW r \in Requests, Move(r)
  PROVE  Apart'
BY MoveHas DEF UsableInv, Apart

\* Rotation leaves a browser with a spent token only when the page that spent it
\* is left before the answer: else what it holds is good, or its session was
\* ended, or a request of its own is exchanging it.
THEOREM BrowsersKeepUsableTokens == Spec => []HoldsUsableToken
<1>1. Init => UsableInv
  BY InitUsable
<1>2. UsableInv /\ [Next]_vars => UsableInv'
  <2> SUFFICES ASSUME UsableInv, [Next]_vars PROVE UsableInv'
    OBVIOUS
  <2>1. \/ Still
        \/ \E r \in Requests : Move(r) /\ Rows(r)
        \/ \E r \in Requests, t \in Tokens : Mints(r, t)
    BY NextMoves DEF UsableInv
  <2>2. CASE Still
    BY <2>2, StillFits, StillKeepsUsable DEF UsableInv
  <2>3. ASSUME NEW r \in Requests, Move(r), Rows(r) PROVE UsableInv'
    BY <2>3, MoveFits, MoveApart, MoveFresh, MoveUsable DEF UsableInv
  <2>4. ASSUME NEW r \in Requests, NEW t \in Tokens, Mints(r, t) PROVE UsableInv'
    BY <2>4, MintFits, MintKeepsUsable DEF UsableInv
  <2> QED  BY <2>1, <2>2, <2>3, <2>4
<1>3. UsableInv => HoldsUsableToken
  BY DEF UsableInv
<1> QED  BY <1>1, <1>2, <1>3, PTL DEF Spec
=============================================================================
