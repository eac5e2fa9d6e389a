SPECIFICATION Spec
CONSTANTS
  People = {ann, bob, cyd}
  Departments = {it, hr}
  Handlers = {h1, h2}
  Jobs = {dev}
  Candidates = {c1, c2}
  MovedTo = {"offer", "hired", "rejected"}
  Goals = {g1}
  Target = 2
  Periods = {q1}
  Filings = {f1}
  Policies = {n1}
  Roles = {"admin", "hr", "employee"}
  SystemRoles = {"admin", "employee"}
  SeedRoles = {"admin", "hr", "employee"}
  Permissions = {"roles:create", "leave:create", "departments:read"}
  Initial <- RoleInitial
  Default <- RoleDefault
  Admin = "admin"
  Reseed = "roles:create"
  Pair = {ann, bob}
  Chosen = {{}}
  Crew <- CrewOf
  Desks <- AllDesks
  None = None
  Gone = Gone
SYMMETRY Alike
CHECK_DEADLOCK FALSE
INVARIANTS
  HierarchyMissesCyclesOnly
  ManagersEmployed
  TerminatedSignedOut
  HiredIsEmployed
  GoalStatusFits
  DocumentsComplete
  ReportCountsAgree
  SystemRolesIntact
  AdminMayReseed
