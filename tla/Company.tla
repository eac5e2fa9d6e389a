------------------------------- MODULE Company -------------------------------
(***************************************************************************)
(* The services that keep employees, candidates, records and roles, over   *)
(* the same database.  Each of them is at work in the behaviours whose     *)
(* desk is its own; employees come and go at most of them.                 *)
(***************************************************************************)
EXTENDS Recruitment, Records, Access

CONSTANTS
  Desks,        \* the parts of the system that may be at work
  Crew          \* the people each of them is about

ASSUME CompanyAssumption == Crew \in [Desks -> SUBSET People]

VARIABLE
  desk          \* the part that is at work

companyVars == <<staff, edited, task, hiring, records, moved, rbac, desk>>

CompanyTypeOK ==
  /\ StaffTypeOK /\ HiringTypeOK /\ RecordsTypeOK /\ AccessTypeOK
  /\ task \in [Handlers -> StaffTasks \union HiringTasks \union RecordTasks \union AccessTasks]
  /\ moved \in [Handlers -> SUBSET People] /\ desk \in Desks

Init == StaffInit /\ HiringInit /\ RecordsInit /\ AccessInit /\ desk \in Desks

\* Employees come, and where their status matters go and come back, by
\* whichever request.
StaffChanges(S) == EmployeesNext(Crew[desk], {None}, {None}, S)

ServeStaff ==
  /\ \/ desk = "reporting" /\ EmployeesNext(Crew[desk], {None}, Person, {"active", "terminated"})
     \/ desk = "departments" /\ (EmployeesNext(Crew[desk], Department, {None}, {"active", "terminated"}) \/ DepartmentsNext)
     \/ desk = "accounts" /\ (StaffChanges(Status) \/ AccountsNext(Crew[desk]))
     \/ desk = "roles" /\ \E p \in Crew[desk] : CreateEmployee(p, None, None, "active") \/ LinkUser(p)
     \/ desk = "policies" /\ StaffChanges(Status)
     \/ desk \in {"hiring", "goals", "reviews"} /\ StaffChanges({"active"})
  /\ UNCHANGED <<hiring, records, rbac>>

ServeRecords ==
  /\ \/ desk = "goals" /\ GoalsNext
     \/ desk = "reviews" /\ ReviewsNext
     \/ desk = "filings" /\ FilingsNext
     \/ desk = "policies" /\ PoliciesNext
  /\ UNCHANGED <<staff, edited, hiring, rbac>>

Next ==
  /\ \/ ServeStaff
     \/ ServeRecords
     \/ desk = "hiring" /\ HiringNext(Crew[desk]) /\ UNCHANGED <<records, rbac>>
     \/ desk = "roles" /\ AccessNext(Crew[desk]) /\ UNCHANGED <<hiring, records>>
  /\ NoteMoved
  /\ UNCHANGED desk

Spec == Init /\ [][Next]_companyVars

=============================================================================
