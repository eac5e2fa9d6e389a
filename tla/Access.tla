------------------------------- MODULE Access --------------------------------
(***************************************************************************)
(* Roles, their permissions and what a signed-in user may do:              *)
(* rbac.service.ts, assignRole of users.service.ts, jwt-auth.guard.ts.     *)
(***************************************************************************)
EXTENDS Staff

CONSTANTS
  Roles,        \* names of roles
  SystemRoles,  \* those prisma/seed.ts creates
  SeedRoles,    \* those POST /rbac/seed looks for and creates: hr is no other's
  Permissions,  \* rows of permissions
  Initial,      \* the permissions prisma/seed.ts gives each of its roles
  Default,      \* the permissions POST /rbac/seed gives each of its own
  Admin,        \* the role that has all
  Reseed,       \* the permission to run the seed (roles:create)
  Chosen        \* the sets of permissions that are given by hand

ASSUME AccessAssumption ==
  /\ SystemRoles \union SeedRoles \subseteq Roles
  /\ None \notin Roles /\ IsFiniteSet(SeedRoles) /\ SeedRoles # {}
  /\ Initial \in [SystemRoles -> SUBSET Permissions]
  /\ Default \in [SeedRoles -> SUBSET Permissions]
  /\ Admin \in SystemRoles /\ Initial[Admin] = Permissions
  /\ Admin \in SeedRoles => Default[Admin] = Permissions
  /\ Reseed \in Permissions
  /\ Chosen \subseteq SUBSET Permissions

VARIABLES
  roles,        \* the roles with a row
  system,       \* those of them with isSystem
  grants,       \* the permissions of each
  roleOf,       \* role of the user linked to each person
  token,        \* permissions in the access token of each, or None
  seeded,       \* history: roles POST /rbac/seed has given their permissions
  touched,      \* history: roles given other permissions by hand since
  broken        \* history: roles without permissions when a seed ended early

rbac == <<roles, system, grants, roleOf, token, seeded, touched, broken>>

\* A seed: the role in hand, those not done, and those whose row it still holds.
AccessTasks ==
  [op: {"deleteRole"}, role: Roles]
  \union [op: {"empty", "fill"}, role: SeedRoles, left: SUBSET SeedRoles, held: SUBSET SeedRoles]

AccessTypeOK ==
  /\ roles \subseteq Roles /\ system \subseteq Roles
  /\ grants \in [Roles -> SUBSET Permissions]
  /\ roleOf \in [People -> Roles \union {None}]
  /\ token \in [People -> (SUBSET Permissions) \union {None}]
  /\ seeded \subseteq SeedRoles /\ touched \subseteq Roles /\ broken \subseteq SeedRoles

\* After prisma/seed.ts.
AccessInit ==
  /\ roles = SystemRoles /\ system = SystemRoles
  /\ grants = [r \in Roles |-> IF r \in SystemRoles THEN Initial[r] ELSE {}]
  /\ roleOf = [p \in People |-> None]
  /\ token = [p \in People |-> None]
  /\ seeded = {} /\ touched = {} /\ broken = {}

-----------------------------------------------------------------------------
\* createRole, with isSystem or without.
CreateRole(r, G, s) ==
  /\ r \in Roles \ roles
  /\ roles' = roles \union {r}
  /\ system' = IF s THEN system \union {r} ELSE system
  /\ grants' = [grants EXCEPT ![r] = G]
  /\ touched' = touched \union {r}
  /\ UNCHANGED <<roleOf, token, seeded, broken, task>>

\* Mutation: system roles may be modified.
MayModifyAny(r) == r \in roles

\* updateRole and deleteRole refuse system roles.
MayModify(r) == r \in roles \ system

SetGrants(r, G) ==
  /\ grants' = [grants EXCEPT ![r] = G]
  /\ touched' = touched \union {r}
  /\ UNCHANGED <<roles, system, roleOf, token, seeded, broken, task>>

\* updateRole, of the permissions; assignPermissions replaces those of any role.
UpdateRole(r, G) == MayModify(r) /\ SetGrants(r, G)
AssignPermissions(r, G) == r \in roles /\ SetGrants(r, G)

\* deleteRole counts the users of the role ...
CountUsers(h, r) ==
  /\ MayModify(r) /\ \A p \in People : roleOf[p] # r
  /\ Start(h, [op |-> "deleteRole", role |-> r])
  /\ UNCHANGED rbac

\* ... and deletes it; who was given it in between has none then, another
\* deletion of the row fails, and a seed that has looked it up holds it no more.
DeleteRole(h) ==
  LET r == task[h].role IN
  /\ task[h].op = "deleteRole"
  /\ roles' = roles \ {r} /\ system' = system \ {r}
  /\ grants' = [grants EXCEPT ![r] = {}]
  /\ roleOf' = [p \in People |-> IF roleOf[p] = r THEN None ELSE roleOf[p]]
  /\ task' = [x \in Handlers |->
                CASE task[x] = task[h] -> Idle
                  [] task[x].op \in {"empty", "fill"} -> [task[x] EXCEPT !.held = @ \ {r}]
                  [] OTHER -> task[x]]
  /\ UNCHANGED <<token, seeded, touched, broken>>

AssignRole(p, r) ==
  /\ account[p] # "none" /\ r \in roles \union {None}
  /\ roleOf' = [roleOf EXCEPT ![p] = r]
  /\ UNCHANGED <<roles, system, grants, token, seeded, touched, broken, task>>

-----------------------------------------------------------------------------
Order(S) == CHOOSE r \in S : TRUE

\* seedDefaultRolesAndPermissions looks its roles up, and creates those that are
\* not there; one that is stays as it is, also when it was made by hand.  (At
\* most one of them is missing, so one step stands for the upserts.)
StartSeed(h) ==
  LET new == SeedRoles \ roles IN
  /\ Start(h, [op |-> "empty", role |-> Order(SeedRoles), left |-> SeedRoles, held |-> SeedRoles])
  /\ roles' = roles \union new /\ system' = system \union new
  /\ touched' = touched \ new
  /\ UNCHANGED <<grants, roleOf, token, seeded, broken>>

Holds(h) == task[h].role \in task[h].held

\* Role by role its permissions are deleted by one statement ...
EmptyRole(h) ==
  /\ task[h].op = "empty"
  /\ grants' = IF Holds(h) THEN [grants EXCEPT ![task[h].role] = {}] ELSE grants
  /\ Go(h, [task[h] EXCEPT !.op = "fill"])
  /\ UNCHANGED <<roles, system, roleOf, token, seeded, touched, broken>>

\* The seed ends with roles undone.
EndEarly(h) ==
  /\ broken' = broken \union {r \in task[h].left : grants[r] = {}}
  /\ Done(h)
  /\ UNCHANGED <<roles, system, grants, roleOf, token, seeded, touched>>

\* ... and created by the next, unless one of them, or no row of the role, is
\* there, which ends the seed.
FillRole(h) ==
  LET r == task[h].role  rest == task[h].left \ {r} IN
  /\ task[h].op = "fill"
  /\ IF ~Holds(h) \/ grants[r] \intersect Default[r] # {} THEN EndEarly(h)
     ELSE /\ grants' = [grants EXCEPT ![r] = @ \union Default[r]]
          /\ seeded' = seeded \union {r}
          /\ touched' = IF grants[r] = {} THEN touched \ {r} ELSE touched
          /\ broken' = broken \ {r}
          /\ IF rest = {} THEN Done(h)
             ELSE Go(h, [task[h] EXCEPT !.op = "empty", !.role = Order(rest), !.left = rest])
          /\ UNCHANGED <<roles, system, roleOf, token>>

\* The process ends during the seed.
FailSeed(h) == task[h].op \in {"empty", "fill"} /\ EndEarly(h)

-----------------------------------------------------------------------------
RoleGrants(p) == IF roleOf[p] = None THEN {} ELSE grants[roleOf[p]]

\* generateTokens puts the permissions of the role into the access token.
SignIn(p) ==
  /\ account[p] = "active"
  /\ token' = [token EXCEPT ![p] = RoleGrants(p)]
  /\ UNCHANGED <<roles, system, grants, roleOf, seeded, touched, broken, task>>

\* The access token ends.
TokenEnds(p) ==
  /\ token[p] # None
  /\ token' = [token EXCEPT ![p] = None]
  /\ UNCHANGED <<roles, system, grants, roleOf, seeded, touched, broken, task>>

\* Mutation: there is no fallback.
AllowedByRole(p) == IF token[p] = None THEN {} ELSE RoleGrants(p)

\* What the guards let a user with a token do: the permissions his role has by
\* now, or, when there are none, those in the token.
Allowed(p) ==
  IF token[p] = None THEN {} ELSE IF RoleGrants(p) # {} THEN RoleGrants(p) ELSE token[p]

AccessNext(P) ==
  /\ UNCHANGED <<staff, edited>>
  /\ \/ \E r \in Roles, G \in Chosen :
          \/ \E s \in BOOLEAN : CreateRole(r, G, s)
          \/ UpdateRole(r, G) \/ AssignPermissions(r, G)
     \/ \E p \in P : \/ \E r \in Roles \union {None} : AssignRole(p, r)
                     \/ SignIn(p) \/ TokenEnds(p)
     \/ \E h \in Handlers :
          \/ \E r \in Roles : CountUsers(h, r)
          \/ DeleteRole(h)
          \/ StartSeed(h) \/ EmptyRole(h) \/ FillRole(h) \/ FailSeed(h)

-----------------------------------------------------------------------------
\* Roles a seed has looked up and not yet given their permissions.
BeingSeeded(r) ==
  \E h \in Handlers : task[h].op \in {"empty", "fill"} /\ r \in task[h].left \intersect task[h].held

\* What the last seed gives a role.
Expected(r) ==
  IF r \in seeded THEN Default[r] ELSE IF r \in SystemRoles THEN Initial[r] ELSE {}

\* The roles of prisma/seed.ts stay, and stay system roles.  Every role has
\* exactly what the last seed gives it, whatever seeds, deletions and failures
\* overlapped, unless it was given permissions by hand since; or none, while a
\* seed is at it and after one that ended early, until the next.
SystemRolesIntact ==
  /\ SystemRoles \subseteq roles \intersect system
  /\ \A r \in roles \ touched :
       \/ grants[r] = Expected(r)
       \/ grants[r] = {} /\ (r \in broken \/ BeingSeeded(r))

\* Whoever signed in as an administrator can run the seed again after one that
\* failed, until the access token ends, unless the role was given other
\* permissions by hand: the guard falls back to those of the token.
AdminMayReseed ==
  \A p \in People :
    roleOf[p] = Admin /\ Admin \notin touched /\ token[p] # None =>
      (Reseed \in token[p] => Reseed \in Allowed(p))

=============================================================================
