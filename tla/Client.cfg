SPECIFICATION Spec
CONSTANTS
  Accounts = 3
  Seeded <- AllRoles
  Called <- RoleNames
  Cached <- AllQueries
  Mutations <- AllChanges
  Screens <- AllScreens
  MenuOf <- WholeMenu
INVARIANTS
  PageShowsOwnWrite
  MenuServed
  GuardedButtonsServed
  ForeignOnlyAfterLogout
CHECK_DEADLOCK FALSE
