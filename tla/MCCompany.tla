----------------------------- MODULE MCCompany -----------------------------
(* Small instances of Company. *)
EXTENDS Company, TLC

CONSTANT Pair  \* two people

AllDesks == {"reporting", "departments", "accounts", "hiring", "goals", "reviews", "filings", "policies", "roles"}
CrewOf == [d \in Desks |-> CASE d = "reporting" -> People
                                [] d = "roles" -> People \ Pair
                                [] OTHER -> Pair]
\* As prisma/seed.ts and as POST /rbac/seed leave them.
RoleInitial == [admin |-> {"roles:create", "leave:create", "departments:read"},
                employee |-> {"leave:create", "departments:read"}]
RoleDefault == [admin |-> {"roles:create", "leave:create", "departments:read"},
                hr |-> {"leave:create", "departments:read"}, employee |-> {"leave:create"}]
Alike == Permutations(Pair) \union Permutations(Candidates) \union Permutations(Handlers)

=============================================================================
