-------------------------------- MODULE Staff --------------------------------
(***************************************************************************)
(* Employees, their managers, departments and user accounts:               *)
(* employees.service.ts, departments.service.ts, users.service.ts.         *)
(*                                                                         *)
(* A person is named by the e-mail address, which employees and users have *)
(* once each; employees are never deleted.  A handler that checks and then *)
(* writes one row is one action when a unique or foreign key refuses at    *)
(* the write whatever made its check out of date.  The two others go       *)
(* through `task': the removal of an employee and that of a department.    *)
(***************************************************************************)
EXTENDS Integers, FiniteSets

CONSTANTS
  People,       \* e-mail addresses
  Departments,  \* names of departments
  Handlers,     \* requests served at a time
  None,         \* nobody, no department, no row yet
  Gone          \* a row that was deleted

ASSUME StaffAssumption ==
  /\ IsFiniteSet(People)
  /\ None \notin People \union Departments
  /\ None # Gone

VARIABLES
  employee,     \* employment_status of the row of each person, or none
  manager,      \* manager_id
  department,   \* department_id
  departments,  \* the departments with a row
  head,         \* head_id
  account,      \* is_active of the user linked to each person, or none
  task,         \* what each handler is doing
  edited        \* history: people whose status or account was set otherwise since
                \* their removal began

staff == <<employee, manager, department, departments, head, account>>

Person == People \union {None}
Department == Departments \union {None}
Idle == [op |-> "idle"]

\* Any text; those the code tells apart.
Status == {"active", "terminated", "other"}

StaffTasks ==
  {Idle}
  \union [op: {"remove", "deactivate"}, person: People, linked: BOOLEAN]
  \union [op: {"removeDepartment"}, dept: Departments]

StaffTypeOK ==
  /\ employee \in [People -> {"none"} \union Status]
  /\ manager \in [People -> Person]
  /\ department \in [People -> Department]
  /\ departments \subseteq Departments
  /\ head \in [Departments -> Person]
  /\ account \in [People -> {"none", "active", "inactive"}]
  /\ edited \subseteq People

StaffInit ==
  /\ employee = [p \in People |-> "none"]
  /\ manager = [p \in People |-> None]
  /\ department = [p \in People |-> None]
  /\ departments = {}
  /\ head = [d \in Departments |-> None]
  /\ account = [p \in People |-> "none"]
  /\ task = [h \in Handlers |-> Idle]
  /\ edited = {}

-----------------------------------------------------------------------------
Employed == {p \in People : employee[p] # "none"}

Start(h, t) == task[h] = Idle /\ task' = [task EXCEPT ![h] = t]
Go(h, t) == task' = [task EXCEPT ![h] = t]
Done(h) == task' = [task EXCEPT ![h] = Idle]

\* The department and the manager given exist.
Valid(d, m) == d \in departments \union {None} /\ m \in Employed \union {None}

\* employees.create
CreateEmployee(p, d, m, s) ==
  /\ employee[p] = "none" /\ Valid(d, m)
  /\ employee' = [employee EXCEPT ![p] = s]
  /\ department' = [department EXCEPT ![p] = d]
  /\ manager' = [manager EXCEPT ![p] = m]
  /\ UNCHANGED <<departments, head, account, task, edited>>

\* Mutation: the employee may be given as manager.
MayUpdateAny(p, d, m) == p \in Employed /\ Valid(d, m)

\* Whether an update is accepted: nobody is given as manager of himself.
MayUpdate(p, d, m) == p \in Employed /\ m # p /\ Valid(d, m)

\* employees.update and assignManager: of the department, the manager and the
\* status, those that are given; the form may empty the first two.  (A change of
\* the e-mail address is left out: the address names the person.)
UpdateEmployee(p, d, m, s) ==
  /\ MayUpdate(p, d, m)
  /\ department' = [department EXCEPT ![p] = d]
  /\ manager' = [manager EXCEPT ![p] = m]
  /\ employee' = [employee EXCEPT ![p] = s]
  /\ edited' = IF s # employee[p] THEN edited \union {p} ELSE edited
  /\ UNCHANGED <<departments, head, account, task>>

\* employees.remove: the employee is read, with the user linked to it ...
ReadForRemoval(h, p) ==
  /\ p \in Employed
  /\ Start(h, [op |-> "remove", person |-> p, linked |-> account[p] # "none"])
  /\ edited' = edited \ {p}
  /\ UNCHANGED staff

\* Mutation: the user is left alone.
TerminateOnly(h) ==
  LET t == task[h] IN
  /\ t.op = "remove"
  /\ employee' = [employee EXCEPT ![t.person] = "terminated"]
  /\ Done(h)
  /\ UNCHANGED <<manager, department, departments, head, account, edited>>

\* ... made terminated ...
Terminate(h) ==
  LET t == task[h] IN
  /\ t.op = "remove"
  /\ employee' = [employee EXCEPT ![t.person] = "terminated"]
  /\ IF t.linked THEN Go(h, [t EXCEPT !.op = "deactivate"]) ELSE Done(h)
  /\ UNCHANGED <<manager, department, departments, head, account, edited>>

\* ... and the user, if one was read, deactivated.
DeactivateUser(h) ==
  LET t == task[h] IN
  /\ t.op = "deactivate"
  /\ account' = [account EXCEPT ![t.person] = IF @ = "none" THEN @ ELSE "inactive"]
  /\ Done(h)
  /\ UNCHANGED <<employee, manager, department, departments, head, edited>>

\* The removal ends between its two writes.
FailRemoval(h) ==
  /\ task[h].op = "deactivate"
  /\ edited' = edited \union {task[h].person}
  /\ Done(h)
  /\ UNCHANGED staff

-----------------------------------------------------------------------------
\* assignHead looks for another department of the head; create and update rely
\* on the unique key of head_id.
HeadsNoOther(p, d) == /\ p \in Employed \union {None}
                      /\ p = None \/ \A x \in Departments \ {d} : head[x] # p

\* departments.create, update and assignHead
SetDepartment(d, p) ==
  /\ HeadsNoOther(p, d)
  /\ departments' = departments \union {d}
  /\ head' = [head EXCEPT ![d] = p]
  /\ UNCHANGED <<employee, manager, department, account, task, edited>>

\* departments.remove: the employees of the department are counted ...
CountMembers(h, d) ==
  /\ d \in departments /\ \A p \in People : department[p] # d
  /\ Start(h, [op |-> "removeDepartment", dept |-> d])
  /\ UNCHANGED <<staff, edited>>

\* ... and its row deleted, whose members, come in meanwhile, are in none then;
\* another deletion of the same row fails.
DeleteDepartment(h) ==
  LET d == task[h].dept IN
  /\ task[h].op = "removeDepartment"
  /\ departments' = departments \ {d}
  /\ head' = [head EXCEPT ![d] = None]
  /\ department' = [p \in People |-> IF department[p] = d THEN None ELSE department[p]]
  /\ task' = [x \in Handlers |-> IF task[x] = task[h] THEN Idle ELSE task[x]]
  /\ UNCHANGED <<employee, manager, account, edited>>

-----------------------------------------------------------------------------
\* users.create and update: a user is linked to an employee who has none.
LinkUser(p) ==
  /\ p \in Employed /\ account[p] = "none"
  /\ \E a \in {"active", "inactive"} : account' = [account EXCEPT ![p] = a]
  /\ edited' = edited \union {p}
  /\ UNCHANGED <<employee, manager, department, departments, head, task>>

\* users.update and remove: the user of p is activated, deactivated or unlinked.
SetUser(p, a) ==
  /\ account[p] # "none"
  /\ account' = [account EXCEPT ![p] = a]
  /\ edited' = IF a = "active" THEN edited \union {p} ELSE edited
  /\ UNCHANGED <<employee, manager, department, departments, head, task>>

\* Status, reporting lines and membership, of the employees P.
EmployeesNext(P, D, M, S) ==
  \E p \in P, d \in D, m \in M, s \in S :
    CreateEmployee(p, d, m, s) \/ UpdateEmployee(p, d, m, s)

AccountsNext(P) ==
  \/ \E p \in P : LinkUser(p)
  \/ \E p \in P, a \in {"none", "active", "inactive"} : SetUser(p, a)
  \/ \E h \in Handlers : \/ \E p \in P : ReadForRemoval(h, p)
                         \/ Terminate(h) \/ DeactivateUser(h) \/ FailRemoval(h)

DepartmentsNext ==
  \/ \E d \in Departments, p \in Person : SetDepartment(d, p)
  \/ \E h \in Handlers : \/ \E d \in Departments : CountMembers(h, d)
                         \/ DeleteDepartment(h)

StaffNext == EmployeesNext(People, Department, Person, Status) \/ AccountsNext(People) \/ DepartmentsNext

-----------------------------------------------------------------------------
\* The people getCompanyHierarchy returns: those without a manager and three
\* nested levels of subordinates.
Under(S) == {p \in Employed : manager[p] \in S}
Roots == {p \in Employed : manager[p] = None}

\* Mutation: one level less is included.
ShallowHierarchy == Roots \union Under(Roots)

CompanyHierarchy ==
  LET one == Under(Roots)  two == Under(one)  three == Under(two)
  IN  Roots \union one \union two \union three

\* The managers of p at any distance: those in every set of people that has
\* the manager of p and with each of its members the manager.
Upwards(S, p) == manager[p] \in S \union {None}
Above(p) ==
  {q \in People : \A S \in SUBSET People :
     Upwards(S, p) /\ (\A r \in S : Upwards(S, r)) => q \in S}

\* The hierarchy of a company of at most four misses nobody but those who are,
\* with others, above themselves, and those under them.  (assignManager and
\* update refuse only the employee himself.)
HierarchyMissesCyclesOnly ==
  Cardinality(Employed) <= 4 =>
    \A p \in Employed : p \in CompanyHierarchy <=> \A q \in Above(p) \union {p} : q \notin Above(q)

\* Nobody is his own manager, and every manager is an employee.
ManagersEmployed ==
  \A p \in People : manager[p] \in (Employed \ {p}) \union {None}

\* The user of an employee who was removed cannot sign in, unless somebody has
\* set the status or the account since, the removal failed half way, or it is
\* still under way.
TerminatedSignedOut ==
  \A p \in People :
    employee[p] = "terminated" /\ account[p] = "active" =>
      \/ p \in edited
      \/ \E h \in Handlers : /\ task[h].op \in {"remove", "deactivate"}
                             /\ task[h].person = p /\ task[h].linked

=============================================================================
