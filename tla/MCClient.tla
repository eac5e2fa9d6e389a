------------------------------ MODULE MCClient -------------------------------
(* The instance of Client for TLC: its tables are those of Pages, each taken *)
(* by LET so that TLC counts it as one value.                               *)
EXTENDS Pages, Client

AllRoles == LET table == Roles IN table
RoleNames == LET table == NameOf IN table
AllQueries == LET table == QueryTable IN table
AllChanges == LET table == ChangeTable IN table
AllScreens == LET table == ScreenTable IN table
WholeMenu == LET table == MenuTable IN table
=============================================================================
