--------------------------- MODULE Company_proofs ---------------------------
(***************************************************************************)
(* Theorems about the organisation modules: that they are well typed and   *)
(* each of their services changes tasks of its own only, and after that    *)
(* employees and reporting lines, records, roles and permissions.          *)
(***************************************************************************)
EXTENDS Company, FiniteSetTheorems, TLAPS

Tasks == StaffTasks \union HiringTasks \union RecordTasks \union AccessTasks
TaskOK == task \in [Handlers -> Tasks]

\* A removal under way has the fields of one.
LEMMA RemovalTask ==
  ASSUME TaskOK, NEW h \in Handlers, task[h].op \in {"remove", "deactivate"}
  PROVE  task[h] \in [op: {"remove", "deactivate"}, person: People, linked: BOOLEAN]
  BY DEF TaskOK, Tasks, StaffTasks, HiringTasks, RecordTasks, AccessTasks, Idle, Reporting

\* A conversion under way has the fields of one.
LEMMA ConversionTask ==
  ASSUME TaskOK, NEW h \in Handlers, task[h].op \in {"count", "insert", "hire"}
  PROVE  task[h] \in [op: {"count", "insert", "hire"}, candidate: Candidates,
                      person: People, number: Nat]
  BY DEF TaskOK, Tasks, StaffTasks, HiringTasks, RecordTasks, AccessTasks, Idle, Reporting

\* A seed under way has the fields of one.
LEMMA SeedTask ==
  ASSUME TaskOK, NEW h \in Handlers, task[h].op \in {"empty", "fill"}
  PROVE  task[h] \in [op: {"empty", "fill"}, role: SeedRoles, left: SUBSET SeedRoles,
                      held: SUBSET SeedRoles]
  BY DEF TaskOK, Tasks, StaffTasks, HiringTasks, RecordTasks, AccessTasks, Idle, Reporting

\* A deletion under way has the fields of one.
LEMMA DeletionTask ==
  ASSUME TaskOK, NEW h \in Handlers, task[h].op = "deleteRole"
  PROVE  task[h] \in [op: {"deleteRole"}, role: Roles]
  BY DEF TaskOK, Tasks, StaffTasks, HiringTasks, RecordTasks, AccessTasks, Idle, Reporting

\* The tasks of goals, reviews, filings and reports have their fields.
LEMMA RecordTask ==
  ASSUME TaskOK, NEW h \in Handlers
  PROVE  /\ task[h].op = "progress" =>
              task[h] \in [op: {"progress"}, goal: Goals, status: GoalStatus, value: Input]
         /\ task[h].op \in {"submit", "acceptReview"} =>
              task[h] \in [op: {"submit", "acceptReview"}, person: People, period: Periods]
         /\ task[h].op = "file" => task[h] \in [op: {"file"}, filing: Filings, receipt: BOOLEAN]
         /\ task[h].op = "acceptFiling" => task[h] \in [op: {"acceptFiling"}, filing: Filings]
         /\ task[h].op \in Reporting =>
              task[h] \in [op: Reporting, policy: Policies, active: Nat, acked: Nat, pending: Nat]
  BY DEF TaskOK, Tasks, StaffTasks, HiringTasks, RecordTasks, AccessTasks, Idle, Reporting

\* Creating and updating an employee keeps the types.
LEMMA EmployeesTyped ==
  ASSUME StaffTypeOK, NEW p \in People, NEW d \in Department, NEW m \in Person,
         NEW s \in Status,
         CreateEmployee(p, d, m, s) \/ UpdateEmployee(p, d, m, s)
  PROVE  StaffTypeOK'
  BY DEF StaffTypeOK, CreateEmployee, UpdateEmployee, MayUpdate, Employed, Status

\* Every step of the employees' services keeps the types.
LEMMA StaffTyped ==
  ASSUME TaskOK, StaffTypeOK, StaffNext
  PROVE  StaffTypeOK' /\ TaskOK'
<1>1. CASE EmployeesNext(People, Department, Person, Status)
  <2>1. StaffTypeOK'
    BY <1>1, EmployeesTyped DEF EmployeesNext
  <2>2. UNCHANGED task
    BY <1>1 DEF EmployeesNext, CreateEmployee, UpdateEmployee
  <2> QED  BY <2>1, <2>2 DEF TaskOK
<1>2. ASSUME NEW p \in People, LinkUser(p)  PROVE StaffTypeOK' /\ TaskOK'
  BY <1>2 DEF LinkUser, StaffTypeOK, TaskOK, Employed
<1>3. ASSUME NEW p \in People, NEW a \in {"none", "active", "inactive"}, SetUser(p, a)
      PROVE StaffTypeOK' /\ TaskOK'
  BY <1>3 DEF SetUser, StaffTypeOK, TaskOK
<1>4. ASSUME NEW h \in Handlers, NEW p \in People, ReadForRemoval(h, p)
      PROVE StaffTypeOK' /\ TaskOK'
  BY <1>4 DEF ReadForRemoval, Start, StaffTypeOK, TaskOK, Tasks, StaffTasks, Employed, staff
<1>5. ASSUME NEW h \in Handlers, Terminate(h) \/ DeactivateUser(h) \/ FailRemoval(h)
      PROVE StaffTypeOK' /\ TaskOK'
  <2>1. task[h] \in [op: {"remove", "deactivate"}, person: People, linked: BOOLEAN]
    BY <1>5, RemovalTask DEF Terminate, DeactivateUser, FailRemoval
  <2>2. TaskOK'
    BY <1>5, <2>1 DEF Terminate, DeactivateUser, FailRemoval, Go, Done, TaskOK, Tasks, StaffTasks, Idle
  <2>3. StaffTypeOK'
    BY <1>5, <2>1 DEF Terminate, DeactivateUser, FailRemoval, StaffTypeOK, Status, staff
  <2> QED  BY <2>2, <2>3
<1>6. ASSUME NEW d \in Departments, NEW p \in Person, SetDepartment(d, p)
      PROVE StaffTypeOK' /\ TaskOK'
  BY <1>6 DEF SetDepartment, HeadsNoOther, StaffTypeOK, TaskOK
<1>7. ASSUME NEW h \in Handlers, NEW d \in Departments, CountMembers(h, d)
      PROVE StaffTypeOK' /\ TaskOK'
  BY <1>7 DEF CountMembers, Start, StaffTypeOK, TaskOK, Tasks, StaffTasks, staff
<1>8. ASSUME NEW h \in Handlers, DeleteDepartment(h)  PROVE StaffTypeOK' /\ TaskOK'
  BY <1>8 DEF DeleteDepartment, StaffTypeOK, TaskOK, Tasks, StaffTasks, Idle, Person, Department
<1> QED
  BY <1>1, <1>2, <1>3, <1>4, <1>5, <1>6, <1>7, <1>8 DEF StaffNext, AccountsNext, DepartmentsNext

\* What moving a candidate does to the row.
LEMMA MovedTyped ==
  ASSUME NEW row \in CandidateRow, NEW s \in Stages, NEW hand \in BOOLEAN
  PROVE  /\ Moved(row, s, hand) \in CandidateRow
         /\ Moved(row, s, hand).stage = s /\ Moved(row, s, hand).byHand = hand
         /\ Moved(row, s, hand).person = row.person
  BY DEF Moved, CandidateRow

\* Every step of recruitment keeps the types.
LEMMA HiringTyped ==
  ASSUME TaskOK, StaffTypeOK, HiringTypeOK, HiringNext(People)
  PROVE  StaffTypeOK' /\ HiringTypeOK' /\ TaskOK'
<1> USE RecruitmentAssumption DEF HiringTypeOK, hiring
<1>1. ASSUME NEW j \in Jobs, CreateJob(j)  PROVE HiringTypeOK' /\ TaskOK'
  BY <1>1 DEF CreateJob, SetJob, TaskOK
<1>2. ASSUME NEW c \in Candidates, NEW s \in MovedTo, MoveStage(c, s)
      PROVE HiringTypeOK' /\ TaskOK'
  <2>1. candidate[c] \in CandidateRow
    BY <1>2 DEF MoveStage, Row
  <2>2. Moved(candidate[c], s, TRUE) \in CandidateRow
    BY <2>1, MovedTyped
  <2> QED  BY <1>2, <2>2 DEF MoveStage, TaskOK
<1>3. ASSUME NEW c \in Candidates, DeleteCandidate(c)  PROVE HiringTypeOK' /\ TaskOK'
  BY <1>3 DEF DeleteCandidate, TaskOK
<1>4. ASSUME NEW h \in Handlers, NEW j \in Jobs, ReadJob(h, j) \/ CountCandidates(h, j)
      PROVE HiringTypeOK' /\ TaskOK'
  BY <1>4 DEF ReadJob, CountCandidates, Start, TaskOK, Tasks, HiringTasks
<1>5. ASSUME NEW h \in Handlers, NEW c \in Candidates, NEW j \in Jobs, NEW p \in People,
             ReadForApply(h, c, j, p)
      PROVE HiringTypeOK' /\ TaskOK'
  BY <1>5 DEF ReadForApply, Start, TaskOK, Tasks, HiringTasks
<1>6. ASSUME NEW h \in Handlers, NEW c \in Candidates, ScheduleInterview(h, c)
      PROVE HiringTypeOK' /\ TaskOK'
  BY <1>6 DEF ScheduleInterview, Start, TaskOK, Tasks, HiringTasks
<1>7. ASSUME NEW h \in Handlers, WriteJob(h)  PROVE HiringTypeOK' /\ TaskOK'
  BY <1>7 DEF WriteJob, SetJob, Done, TaskOK, Tasks, StaffTasks
<1>8. ASSUME NEW h \in Handlers, DeleteJob(h)  PROVE HiringTypeOK' /\ TaskOK'
  BY <1>8 DEF DeleteJob, SetJob, Done, TaskOK, Tasks, StaffTasks
<1>9. ASSUME NEW h \in Handlers, Apply(h)  PROVE HiringTypeOK' /\ TaskOK'
  <2>1. task[h] \in [op: {"apply"}, candidate: Candidates, job: Jobs, person: People]
    BY <1>9 DEF Apply, TaskOK, Tasks, StaffTasks, HiringTasks, RecordTasks, AccessTasks, Idle, Reporting
  <2> QED  BY <1>9, <2>1 DEF Apply, Done, TaskOK, Tasks, StaffTasks, CandidateRow, Stages
<1>10. ASSUME NEW h \in Handlers, MoveToInterview(h)  PROVE HiringTypeOK' /\ TaskOK'
  <2>1. Row(task[h].candidate) /\ task[h].candidate \in Candidates =>
          Moved(candidate[task[h].candidate], "interview", FALSE) \in CandidateRow
    BY MovedTyped DEF Row, Stages
  <2> QED  BY <1>10, <2>1 DEF MoveToInterview, Done, TaskOK, Tasks, StaffTasks
<1>11. ASSUME NEW h \in Handlers, NEW c \in Candidates, ReadOffer(h, c)
       PROVE StaffTypeOK' /\ HiringTypeOK' /\ TaskOK'
  BY <1>11 DEF ReadOffer, Row, Start, TaskOK, Tasks, HiringTasks, CandidateRow, StaffTypeOK, staff
<1>12. ASSUME NEW h \in Handlers, CountEmployees(h) \/ InsertEmployee(h) \/ Hire(h)
       PROVE StaffTypeOK' /\ HiringTypeOK' /\ TaskOK'
  <2>1. task[h] \in [op: {"count", "insert", "hire"}, candidate: Candidates,
                     person: People, number: Nat]
    BY <1>12, ConversionTask DEF CountEmployees, InsertEmployee, Hire
  <2>2. Cardinality(Employed) + 1 \in Nat
    <3>1. IsFiniteSet(Employed) BY StaffAssumption, FS_Subset DEF Employed
    <3> QED  BY <3>1, FS_CardinalityType
  <2>3. StaffTypeOK'
    BY <1>12, <2>1 DEF CountEmployees, InsertEmployee, Hire, StaffTypeOK, Status, staff
  <2>4. HiringTypeOK'
    <3>1. Row(task[h].candidate) =>
            Moved(candidate[task[h].candidate], "hired", FALSE) \in CandidateRow
      BY <2>1, MovedTyped DEF Row, Stages
    <3> QED  BY <1>12, <2>1, <3>1 DEF CountEmployees, InsertEmployee, Hire
  <2>5. TaskOK'
    <3>1. [task[h] EXCEPT !.op = "insert", !.number = Cardinality(Employed) + 1] \in Tasks
      BY <2>1, <2>2 DEF Tasks, HiringTasks
    <3>2. [task[h] EXCEPT !.op = "hire"] \in Tasks
      BY <2>1 DEF Tasks, HiringTasks
    <3>3. Idle \in Tasks
      BY DEF Tasks, StaffTasks
    <3> QED
      BY <1>12, <3>1, <3>2, <3>3 DEF CountEmployees, InsertEmployee, Hire, Go, Done, TaskOK
  <2> QED  BY <2>3, <2>4, <2>5
<1>13. UNCHANGED <<staff, edited>> => StaffTypeOK'
  BY DEF StaffTypeOK, staff
<1> QED
  BY <1>1, <1>2, <1>3, <1>4, <1>5, <1>6, <1>7, <1>8, <1>9, <1>10, <1>11, <1>12, <1>13
  DEF HiringNext

\* The column keeps a value within the target, and the target only of what
\* rounds to it.
LEMMA StoredTyped ==
  ASSUME NEW v \in Input
  PROVE  Stored(v) \in 0..Target /\ (v >= 3 * Target => Stored(v) = Target)
  BY RecordsAssumption DEF Input, Stored

\* What a progress does to the row of a goal.
LEMMA ProgressedTyped ==
  ASSUME NEW row \in GoalRow, NEW status \in GoalStatus, NEW v \in Input
  PROVE  /\ Progressed(row, status, v) \in GoalRow
         /\ Progressed(row, status, v).value = Stored(v)
         /\ Progressed(row, status, v).status = ProgressStatus(status, v)
         /\ Progressed(row, status, v).byHand = row.byHand
         /\ Progressed(row, status, v).reached <=> row.reached \/ v >= 3 * Target
         /\ Progressed(row, status, v).rounded <=> Stored(v) = Target /\ v < 3 * Target
<1>1. ProgressStatus(status, v) \in GoalStatus
  BY DEF ProgressStatus, GoalStatus
<1>2. Stored(v) \in 0..Target
  BY StoredTyped
<1>3. (v >= 3 * Target) \in BOOLEAN /\ (Stored(v) = Target /\ v < 3 * Target) \in BOOLEAN
  OBVIOUS
<1> HIDE DEF Stored, ProgressStatus, Input
<1> QED  BY <1>1, <1>2, <1>3 DEF Progressed, GoalRow

\* Every step of the records keeps the types.
LEMMA RecordsTyped ==
  ASSUME TaskOK, StaffTypeOK, RecordsTypeOK,
         GoalsNext \/ ReviewsNext \/ FilingsNext \/ PoliciesNext
  PROVE  RecordsTypeOK' /\ TaskOK'
<1> USE DEF RecordsTypeOK, records
<1>1. CASE GoalsNext
  <2>1. ASSUME NEW g \in Goals, NEW p \in People, NEW v \in Input, CreateGoal(g, p, v)
        PROVE RecordsTypeOK' /\ TaskOK'
    <3>1. Stored(v) \in 0..Target
      BY StoredTyped
    <3> QED  BY <2>1, <3>1 DEF CreateGoal, SetGoal, GoalRow, GoalStatus, TaskOK
  <2>2. ASSUME NEW g \in Goals, NEW s \in GoalStatus, SetGoalStatus(g, s)
        PROVE RecordsTypeOK' /\ TaskOK'
    <3>1. goal[g] \in GoalRow
      BY <2>2 DEF SetGoalStatus, HasGoal
    <3>2. [goal[g] EXCEPT !.status = s, !.byHand = TRUE] \in GoalRow
      BY <3>1 DEF GoalRow
    <3> QED  BY <2>2, <3>2 DEF SetGoalStatus, TaskOK
  <2>3. ASSUME NEW g \in Goals, DeleteGoal(g)  PROVE RecordsTypeOK' /\ TaskOK'
    BY <2>3 DEF DeleteGoal, SetGoal, TaskOK
  <2>4. ASSUME NEW h \in Handlers, WriteGoal(h)  PROVE RecordsTypeOK' /\ TaskOK'
    <3> DEFINE t == task[h]
    <3>1. t \in [op: {"progress"}, goal: Goals, status: GoalStatus, value: Input]
      BY <2>4, RecordTask DEF WriteGoal
    <3>2. HasGoal(t.goal) => Progressed(goal[t.goal], t.status, t.value) \in GoalRow
      BY <3>1, ProgressedTyped DEF HasGoal
    <3> QED  BY <2>4, <3>1, <3>2 DEF WriteGoal, Done, TaskOK, Tasks, StaffTasks
  <2>5. ASSUME NEW h \in Handlers, NEW g \in Goals, NEW v \in Input, ReadGoal(h, g, v)
        PROVE RecordsTypeOK' /\ TaskOK'
    BY <2>5 DEF ReadGoal, HasGoal, GoalRow, Start, TaskOK, Tasks, RecordTasks
  <2> QED  BY <1>1, <2>1, <2>2, <2>3, <2>4, <2>5 DEF GoalsNext
<1>2. CASE ReviewsNext
  <2>1. ASSUME NEW p \in People, NEW r \in People, NEW q \in Periods, CreateReview(p, r, q)
        PROVE RecordsTypeOK' /\ TaskOK'
    BY <2>1 DEF CreateReview, ReviewRow, TaskOK
  <2>2. ASSUME NEW h \in Handlers, WriteReview(h)  PROVE RecordsTypeOK' /\ TaskOK'
    <3> DEFINE t == task[h]
    <3>1. t \in [op: {"submit", "acceptReview"}, person: People, period: Periods]
      BY <2>2, RecordTask DEF WriteReview
    <3>2. [status |-> "submitted", dated |-> TRUE] \in ReviewRow
      BY DEF ReviewRow
    <3>3. [review[t.person][t.period] EXCEPT !.status = "acknowledged"] \in ReviewRow
      BY <3>1 DEF ReviewRow
    <3>4. review' \in [People -> [Periods -> ReviewRow]]
      BY <2>2, <3>1, <3>2, <3>3 DEF WriteReview
    <3> QED  BY <2>2, <3>4 DEF WriteReview, Done, TaskOK, Tasks, StaffTasks
  <2>3. ASSUME NEW h \in Handlers, NEW p \in People, NEW q \in Periods, ReadReview(h, p, q)
        PROVE RecordsTypeOK' /\ TaskOK'
    BY <2>3 DEF ReadReview, Start, TaskOK, Tasks, RecordTasks
  <2> QED  BY <1>2, <2>1, <2>2, <2>3 DEF ReviewsNext
<1>3. CASE FilingsNext
  <2>1. ASSUME NEW f \in Filings, NEW r \in BOOLEAN, CreateFiling(f, r)
        PROVE RecordsTypeOK' /\ TaskOK'
    BY <2>1 DEF CreateFiling, FilingRow, TaskOK
  <2>2. ASSUME NEW h \in Handlers, WriteFiling(h)  PROVE RecordsTypeOK' /\ TaskOK'
    <3> DEFINE t == task[h]
    <3>1. t.op = "file" => t \in [op: {"file"}, filing: Filings, receipt: BOOLEAN]
      BY RecordTask
    <3>2. t.op = "acceptFiling" => t \in [op: {"acceptFiling"}, filing: Filings]
      BY RecordTask
    <3>3. ASSUME NEW row \in FilingRow, NEW r \in BOOLEAN
          PROVE  /\ [row EXCEPT !.status = "filed", !.dated = TRUE, !.receipt = r] \in FilingRow
                 /\ [row EXCEPT !.status = "acknowledged"] \in FilingRow
      BY DEF FilingRow
    <3>4. filing' \in [Filings -> FilingRow]
      BY <2>2, <3>1, <3>2, <3>3 DEF WriteFiling
    <3> QED  BY <2>2, <3>4 DEF WriteFiling, Done, TaskOK, Tasks, StaffTasks
  <2>3. ASSUME NEW h \in Handlers, NEW f \in Filings, ReadFiled(h, f)
        PROVE RecordsTypeOK' /\ TaskOK'
    BY <2>3 DEF ReadFiled, Start, TaskOK, Tasks, RecordTasks
  <2>4. ASSUME NEW h \in Handlers, NEW f \in Filings, NEW r \in BOOLEAN, ReadFiling(h, f, r)
        PROVE RecordsTypeOK' /\ TaskOK'
    <3>1. (r \/ filing[f].receipt) \in BOOLEAN
      BY DEF FilingRow
    <3> QED  BY <2>4, <3>1 DEF ReadFiling, Start, TaskOK, Tasks, RecordTasks
  <2> QED  BY <1>3, <2>1, <2>2, <2>3, <2>4 DEF FilingsNext
<1>4. CASE PoliciesNext
  <2>1. ASSUME NEW p \in People, NEW n \in Policies, AcknowledgePolicy(p, n)
        PROVE RecordsTypeOK' /\ TaskOK'
    BY <2>1 DEF AcknowledgePolicy, TaskOK
  <2>2. ASSUME NEW S \in SUBSET People  PROVE Cardinality(S) \in Nat
    BY StaffAssumption, FS_Subset, FS_CardinalityType
  <2> DEFINE Report == [op: Reporting, policy: Policies, active: Nat, acked: Nat, pending: Nat]
  <2>3. Report \subseteq Tasks /\ Idle \in Tasks
    BY DEF Tasks, RecordTasks, StaffTasks
  <2>4. ASSUME NEW h \in Handlers, NEW n \in Policies, StartReport(h, n)
        PROVE RecordsTypeOK' /\ TaskOK'
    <3>1. Cardinality(Active) \in Nat
      BY <2>2 DEF Active
    <3>2. [op |-> "countAcknowledged", policy |-> n, active |-> Cardinality(Active),
           acked |-> 0, pending |-> 0] \in Report
      BY <3>1 DEF Reporting
    <3> QED  BY <2>4, <2>3, <3>2 DEF StartReport, Start, TaskOK
  <2>5. ASSUME NEW h \in Handlers, CountAcknowledged(h) \/ ListPending(h)
        PROVE RecordsTypeOK' /\ TaskOK'
    <3> DEFINE t == task[h]
    <3>1. t \in Report
      BY <2>5, RecordTask DEF CountAcknowledged, ListPending, Reporting
    <3>2. /\ Cardinality(Acknowledging(t.policy)) \in Nat
          /\ Cardinality(Active \ Acknowledging(t.policy)) \in Nat
      BY <2>2 DEF Acknowledging, Active
    <3>3. /\ [t EXCEPT !.op = "listPending", !.acked = Cardinality(Acknowledging(t.policy))] \in Report
          /\ [t EXCEPT !.op = "reported",
                       !.pending = Cardinality(Active \ Acknowledging(t.policy))] \in Report
      BY <3>1, <3>2 DEF Reporting
    <3> QED  BY <2>5, <2>3, <3>3 DEF CountAcknowledged, ListPending, Go, TaskOK
  <2>6. ASSUME NEW h \in Handlers, AnswerReport(h)  PROVE RecordsTypeOK' /\ TaskOK'
    BY <2>6, <2>3 DEF AnswerReport, Done, TaskOK
  <2> QED  BY <1>4, <2>1, <2>4, <2>5, <2>6 DEF PoliciesNext
<1> QED  BY <1>1, <1>2, <1>3, <1>4

\* Every step of roles and permissions keeps the types.
LEMMA AccessTyped ==
  ASSUME TaskOK, StaffTypeOK, AccessTypeOK, AccessNext(People)
  PROVE  AccessTypeOK' /\ TaskOK'
<1> USE AccessAssumption DEF AccessTypeOK, rbac
<1>1. ASSUME NEW r \in Roles, NEW G \in Chosen,
             \/ \E s \in BOOLEAN : CreateRole(r, G, s)
             \/ UpdateRole(r, G) \/ AssignPermissions(r, G)
      PROVE AccessTypeOK' /\ TaskOK'
  BY <1>1 DEF CreateRole, UpdateRole, AssignPermissions, SetGrants, TaskOK
<1>2. ASSUME NEW p \in People, NEW r \in Roles \union {None}, AssignRole(p, r)
      PROVE AccessTypeOK' /\ TaskOK'
  BY <1>2 DEF AssignRole, TaskOK
<1>3. ASSUME NEW p \in People, SignIn(p) \/ TokenEnds(p)  PROVE AccessTypeOK' /\ TaskOK'
  BY <1>3 DEF SignIn, TokenEnds, RoleGrants, TaskOK
<1>4. ASSUME NEW h \in Handlers, NEW r \in Roles, CountUsers(h, r)
      PROVE AccessTypeOK' /\ TaskOK'
  BY <1>4 DEF CountUsers, Start, TaskOK, Tasks, AccessTasks
<1> DEFINE Seed == [op: {"empty", "fill"}, role: SeedRoles, left: SUBSET SeedRoles,
                    held: SUBSET SeedRoles]
<1>5. Seed \subseteq Tasks /\ Idle \in Tasks
  BY DEF Tasks, AccessTasks, StaffTasks
<1>6. ASSUME NEW h \in Handlers, DeleteRole(h)  PROVE AccessTypeOK' /\ TaskOK'
  <2>1. task[h].role \in Roles
    BY <1>6, DeletionTask DEF DeleteRole
  <2>2. AccessTypeOK'
    BY <1>6, <2>1 DEF DeleteRole
  <2>3. ASSUME NEW x \in Handlers, task[x].op \in {"empty", "fill"}
        PROVE  [task[x] EXCEPT !.held = @ \ {task[h].role}] \in Tasks
    <3>1. task[x] \in Seed
      BY <2>3, SeedTask
    <3> QED  BY <1>5, <3>1
  <2>4. \A x \in Handlers : task'[x] \in Tasks
    BY <1>6, <1>5, <2>3 DEF DeleteRole, TaskOK
  <2> QED  BY <1>6, <2>2, <2>4 DEF DeleteRole, TaskOK
<1>7. ASSUME NEW rest \in SUBSET SeedRoles, rest # {}  PROVE Order(rest) \in rest
  BY <1>7 DEF Order
<1>8. ASSUME NEW h \in Handlers, StartSeed(h)  PROVE AccessTypeOK' /\ TaskOK'
  <2>1. [op |-> "empty", role |-> Order(SeedRoles), left |-> SeedRoles, held |-> SeedRoles] \in Seed
    BY <1>7
  <2> QED  BY <1>8, <1>5, <2>1 DEF StartSeed, Start, TaskOK
<1>9. ASSUME NEW h \in Handlers, EmptyRole(h) \/ FillRole(h) \/ FailSeed(h)
      PROVE AccessTypeOK' /\ TaskOK'
  <2>1. task[h] \in Seed
    BY <1>9, SeedTask DEF EmptyRole, FillRole, FailSeed
  <2>2. AccessTypeOK'
    BY <1>9, <2>1 DEF EmptyRole, FillRole, FailSeed, EndEarly
  <2>3. [task[h] EXCEPT !.op = "fill"] \in Seed
    BY <2>1
  <2>4. ASSUME NEW rest \in SUBSET SeedRoles, rest # {}
        PROVE  [task[h] EXCEPT !.op = "empty", !.role = Order(rest), !.left = rest] \in Seed
    BY <2>1, <2>4, <1>7
  <2>5. task[h].left \ {task[h].role} \in SUBSET SeedRoles
    BY <2>1
  <2>6. TaskOK'
    <3>1. CASE EmptyRole(h)
      BY <3>1, <1>5, <2>3 DEF EmptyRole, Go, TaskOK
    <3>2. CASE EndEarly(h)
      BY <3>2, <1>5 DEF EndEarly, Done, TaskOK
    <3>3. CASE FillRole(h) /\ ~EndEarly(h)
      <4> DEFINE rest == task[h].left \ {task[h].role}
                 u == [task[h] EXCEPT !.op = "empty", !.role = Order(rest), !.left = rest]
      <4>1. task' = [task EXCEPT ![h] = Idle] \/ (rest # {} /\ task' = [task EXCEPT ![h] = u])
        BY <3>3 DEF FillRole, Go, Done
      <4>2. rest # {} => u \in Tasks
        BY <1>5, <2>4, <2>5
      <4> HIDE DEF u
      <4> QED  BY <1>5, <4>1, <4>2 DEF TaskOK
    <3> QED  BY <1>9, <3>1, <3>2, <3>3 DEF FailSeed
  <2> QED  BY <2>2, <2>6
<1> HIDE DEF AccessTypeOK
<1> QED
  BY <1>1, <1>2, <1>3, <1>4, <1>6, <1>8, <1>9 DEF AccessNext

-----------------------------------------------------------------------------
\* What Next does, service by service.
LEMMA Services ==
  ASSUME CompanyTypeOK, Next
  PROVE  /\ desk' = desk
         /\ \/ StaffNext /\ UNCHANGED <<hiring, records, rbac>>
            \/ /\ GoalsNext \/ ReviewsNext \/ FilingsNext \/ PoliciesNext
               /\ UNCHANGED <<staff, edited, hiring, rbac>>
            \/ HiringNext(People) /\ UNCHANGED <<records, rbac>>
            \/ AccessNext(People) /\ UNCHANGED <<staff, edited, hiring, records>>
<1>1. Crew[desk] \subseteq People
  BY CompanyAssumption DEF CompanyTypeOK
<1>2. ASSUME ServeStaff  PROVE StaffNext /\ UNCHANGED <<hiring, records, rbac>>
  <2> USE <1>1 DEF Person, Department, Status
  <2>1. ASSUME NEW D \in SUBSET Department, NEW M \in SUBSET Person, NEW S \in SUBSET Status,
               EmployeesNext(Crew[desk], D, M, S)
        PROVE  StaffNext
    BY <2>1 DEF StaffNext, EmployeesNext
  <2>2. ASSUME NEW p \in Crew[desk], CreateEmployee(p, None, None, "active")  PROVE StaffNext
    BY <2>2 DEF StaffNext, EmployeesNext
  <2>3. ASSUME NEW S \in SUBSET Status, StaffChanges(S)  PROVE StaffNext
    BY <2>1, <2>3 DEF StaffChanges
  <2>4. ASSUME AccountsNext(Crew[desk])  PROVE StaffNext
    BY <2>4 DEF AccountsNext, StaffNext
  <2>5. ASSUME NEW p \in Crew[desk], LinkUser(p)  PROVE StaffNext
    BY <2>5 DEF AccountsNext, StaffNext
  <2>6. /\ {None} \in SUBSET Department /\ {None} \in SUBSET Person
        /\ {"active", "terminated"} \in SUBSET Status /\ {"active"} \in SUBSET Status
    OBVIOUS
  <2> QED
    BY <1>2, <2>1, <2>2, <2>3, <2>4, <2>5, <2>6 DEF ServeStaff, StaffNext
<1>3. HiringNext(Crew[desk]) => HiringNext(People)
  BY <1>1 DEF HiringNext
<1>4. AccessNext(Crew[desk]) => AccessNext(People)
  BY <1>1 DEF AccessNext
<1>5. CASE ServeStaff
  BY <1>2, <1>5 DEF Next
<1>6. CASE ServeRecords
  BY <1>6 DEF Next, ServeRecords
<1>7. CASE HiringNext(Crew[desk]) /\ UNCHANGED <<records, rbac>>
  BY <1>3, <1>7 DEF Next
<1>8. CASE AccessNext(Crew[desk]) /\ UNCHANGED <<hiring, records>>
  BY <1>4, <1>8 DEF Next, AccessNext
<1> QED
  BY <1>5, <1>6, <1>7, <1>8 DEF Next

\* The types hold of an empty database after the seed.
LEMMA TypesInit ==
  ASSUME Init
  PROVE  CompanyTypeOK
<1> USE StaffAssumption, AccessAssumption, RecordsAssumption
    DEF Init, StaffInit, HiringInit, RecordsInit, AccessInit
<1>1. StaffTypeOK BY DEF StaffTypeOK, Person, Department
<1>2. HiringTypeOK BY DEF HiringTypeOK
<1>3. RecordsTypeOK BY DEF RecordsTypeOK, ReviewRow, FilingRow
<1>4. AccessTypeOK BY DEF AccessTypeOK
<1>5. TaskOK BY DEF TaskOK, Tasks, StaffTasks
<1> QED  BY <1>1, <1>2, <1>3, <1>4, <1>5 DEF CompanyTypeOK, TaskOK, Tasks

\* Every step of the composition keeps the types.
LEMMA TypesNext ==
  ASSUME CompanyTypeOK, [Next]_companyVars
  PROVE  CompanyTypeOK'
<1>1. /\ StaffTypeOK /\ HiringTypeOK /\ RecordsTypeOK /\ AccessTypeOK /\ TaskOK
      /\ moved \in [Handlers -> SUBSET People] /\ desk \in Desks
  BY DEF CompanyTypeOK, TaskOK, Tasks
<1> DEFINE Typed == /\ StaffTypeOK /\ HiringTypeOK /\ RecordsTypeOK /\ AccessTypeOK
                    /\ TaskOK /\ desk \in Desks
<1>2. /\ UNCHANGED <<staff, edited>> => StaffTypeOK'
      /\ UNCHANGED hiring => HiringTypeOK'
      /\ UNCHANGED records => RecordsTypeOK'
      /\ UNCHANGED rbac => AccessTypeOK'
  BY <1>1 DEF staff, hiring, records, rbac, StaffTypeOK, HiringTypeOK, RecordsTypeOK, AccessTypeOK
<1>3. CASE Next
  <2>1. moved' \in [Handlers -> SUBSET People]
    BY <1>1, <1>3 DEF Next, NoteMoved
  <2> QED
    BY <1>1, <1>2, <1>3, <2>1, Services, StaffTyped, HiringTyped, RecordsTyped, AccessTyped
    DEF CompanyTypeOK, TaskOK, Tasks
<1>4. CASE UNCHANGED companyVars
  BY <1>1, <1>2, <1>4 DEF companyVars, CompanyTypeOK
<1> QED  BY <1>3, <1>4

\* The composition of the services is well typed: for any people, handlers,
\* roles and desks, every variable keeps its type and every task is one of the
\* handlers' own.
THEOREM CompanyTypes == Spec => []CompanyTypeOK
<1> QED  BY TypesInit, TypesNext, PTL DEF Spec

-----------------------------------------------------------------------------
\* Each service changes its own tasks only.
OnlyTasks(ops) ==
  \A h \in Handlers :
    task'[h] = task[h] \/ (task[h].op \in ops \union {"idle"} /\ task'[h].op \in ops \union {"idle"})

StaffOps == {"remove", "deactivate", "removeDepartment"}
HiringOps == {"publish", "close", "deleteJob", "apply", "count", "insert", "hire", "interview"}
ReviewOps == {"submit", "acceptReview"}
FilingOps == {"file", "acceptFiling"}
RecordOps == {"progress"} \union ReviewOps \union FilingOps \union Reporting
AccessOps == {"deleteRole", "empty", "fill"}

\* The services of employees, departments and users.
LEMMA StaffTasksOnly ==
  ASSUME TaskOK, StaffNext
  PROVE  OnlyTasks(StaffOps)
<1> USE DEF OnlyTasks, StaffOps, Idle, Start, Go, Done, TaskOK
<1>1. ASSUME NEW h \in Handlers, Terminate(h) \/ DeactivateUser(h) \/ FailRemoval(h)
      PROVE OnlyTasks(StaffOps)
  <2>1. [task[h] EXCEPT !.op = "deactivate"].op \in {task[h].op, "deactivate"}
    BY <1>1, RemovalTask DEF Terminate, DeactivateUser, FailRemoval
  <2>2. task[h].op \in StaffOps
    BY <1>1 DEF Terminate, DeactivateUser, FailRemoval
  <2>3. CASE task' = [task EXCEPT ![h] = Idle]
    BY <2>2, <2>3
  <2>4. CASE task' = [task EXCEPT ![h] = [task[h] EXCEPT !.op = "deactivate"]]
    BY <2>1, <2>2, <2>4
  <2> QED  BY <1>1, <2>3, <2>4 DEF Terminate, DeactivateUser, FailRemoval
<1>2. ASSUME NEW h \in Handlers, NEW p \in People, ReadForRemoval(h, p)
      PROVE OnlyTasks(StaffOps)
  BY <1>2 DEF ReadForRemoval
<1>3. ASSUME NEW h \in Handlers, NEW d \in Departments, CountMembers(h, d)
      PROVE OnlyTasks(StaffOps)
  BY <1>3 DEF CountMembers
<1>4. ASSUME NEW h \in Handlers, DeleteDepartment(h)  PROVE OnlyTasks(StaffOps)
  BY <1>4 DEF DeleteDepartment
<1> QED
  BY <1>1, <1>2, <1>3, <1>4
  DEF StaffNext, EmployeesNext, AccountsNext, DepartmentsNext, CreateEmployee, UpdateEmployee,
      LinkUser, SetUser, SetDepartment

\* Recruitment.
LEMMA HiringTasksOnly ==
  ASSUME TaskOK, HiringNext(People)
  PROVE  OnlyTasks(HiringOps)
<1> USE DEF OnlyTasks, HiringOps, Idle, Start, Go, Done, TaskOK
<1>1. ASSUME NEW h \in Handlers, CountEmployees(h) \/ InsertEmployee(h) \/ Hire(h)
      PROVE OnlyTasks(HiringOps)
  <2>1. task[h] \in [op: {"count", "insert", "hire"}, candidate: Candidates,
                     person: People, number: Nat]
    BY <1>1, ConversionTask DEF CountEmployees, InsertEmployee, Hire
  <2>2. /\ [task[h] EXCEPT !.op = "insert", !.number = Cardinality(Employed) + 1].op = "insert"
        /\ [task[h] EXCEPT !.op = "hire"].op = "hire"
    BY <2>1
  <2>3. CASE task' = [task EXCEPT ![h] = Idle]
    BY <2>1, <2>3
  <2>4. CASE task' = [task EXCEPT ![h] = [task[h] EXCEPT !.op = "hire"]]
    BY <2>1, <2>2, <2>4
  <2>5. CASE CountEmployees(h)
    BY <2>1, <2>2, <2>5 DEF CountEmployees
  <2> QED  BY <1>1, <2>3, <2>4, <2>5 DEF InsertEmployee, Hire
<1>2. ASSUME NEW h \in Handlers, WriteJob(h) \/ DeleteJob(h) \/ Apply(h) \/ MoveToInterview(h)
      PROVE OnlyTasks(HiringOps)
  <2>1. task[h].op \in HiringOps /\ task' = [task EXCEPT ![h] = Idle]
    BY <1>2 DEF WriteJob, DeleteJob, Apply, MoveToInterview
  <2> QED  BY <2>1
<1>3. ASSUME NEW h \in Handlers, NEW j \in Jobs, ReadJob(h, j) \/ CountCandidates(h, j)
      PROVE OnlyTasks(HiringOps)
  BY <1>3 DEF ReadJob, CountCandidates
<1>4. ASSUME NEW h \in Handlers, NEW c \in Candidates, NEW j \in Jobs, NEW p \in People,
             ReadForApply(h, c, j, p) \/ ScheduleInterview(h, c) \/ ReadOffer(h, c)
      PROVE OnlyTasks(HiringOps)
  BY <1>4 DEF ReadForApply, ScheduleInterview, ReadOffer
<1>5. ASSUME NEW h \in Handlers, NEW c \in Candidates, ScheduleInterview(h, c) \/ ReadOffer(h, c)
      PROVE OnlyTasks(HiringOps)
  BY <1>5 DEF ScheduleInterview, ReadOffer
<1> QED
  BY <1>1, <1>2, <1>3, <1>4, <1>5 DEF HiringNext, CreateJob, MoveStage, DeleteCandidate

\* Goals.
LEMMA GoalTasksOnly ==
  ASSUME TaskOK, GoalsNext
  PROVE  OnlyTasks({"progress"}) /\ UNCHANGED <<review, filing, acknowledged>>
<1> USE DEF OnlyTasks, Idle, Start, Done, TaskOK
<1>1. ASSUME NEW h \in Handlers, WriteGoal(h)
      PROVE  OnlyTasks({"progress"}) /\ UNCHANGED <<review, filing, acknowledged>>
  BY <1>1 DEF WriteGoal
<1>2. ASSUME NEW h \in Handlers, NEW g \in Goals, NEW v \in Input, ReadGoal(h, g, v)
      PROVE  OnlyTasks({"progress"}) /\ UNCHANGED <<review, filing, acknowledged>>
  BY <1>2 DEF ReadGoal, records
<1> QED
  BY <1>1, <1>2 DEF GoalsNext, CreateGoal, SetGoalStatus, DeleteGoal

\* Reviews.
LEMMA ReviewTasksOnly ==
  ASSUME TaskOK, ReviewsNext
  PROVE  OnlyTasks(ReviewOps) /\ UNCHANGED <<goal, filing, acknowledged>>
<1> USE DEF OnlyTasks, ReviewOps, Idle, Start, Done, TaskOK
<1>1. ASSUME NEW h \in Handlers, WriteReview(h)
      PROVE  OnlyTasks(ReviewOps) /\ UNCHANGED <<goal, filing, acknowledged>>
  BY <1>1 DEF WriteReview
<1>2. ASSUME NEW h \in Handlers, NEW p \in People, NEW q \in Periods, ReadReview(h, p, q)
      PROVE  OnlyTasks(ReviewOps) /\ UNCHANGED <<goal, filing, acknowledged>>
  BY <1>2 DEF ReadReview, records
<1> QED
  BY <1>1, <1>2 DEF ReviewsNext, CreateReview

\* Filings.
LEMMA FilingTasksOnly ==
  ASSUME TaskOK, FilingsNext
  PROVE  OnlyTasks(FilingOps) /\ UNCHANGED <<goal, review, acknowledged>>
<1> USE DEF OnlyTasks, FilingOps, Idle, Start, Done, TaskOK
<1>1. ASSUME NEW h \in Handlers, WriteFiling(h)
      PROVE  OnlyTasks(FilingOps) /\ UNCHANGED <<goal, review, acknowledged>>
  BY <1>1 DEF WriteFiling
<1>2. ASSUME NEW h \in Handlers, NEW f \in Filings, ReadFiled(h, f)
      PROVE  OnlyTasks(FilingOps) /\ UNCHANGED <<goal, review, acknowledged>>
  BY <1>2 DEF ReadFiled, records
<1>3. ASSUME NEW h \in Handlers, NEW f \in Filings, NEW r \in BOOLEAN, ReadFiling(h, f, r)
      PROVE  OnlyTasks(FilingOps) /\ UNCHANGED <<goal, review, acknowledged>>
  BY <1>3 DEF ReadFiling, records
<1> QED
  BY <1>1, <1>2, <1>3 DEF FilingsNext, CreateFiling

\* Policies and their report.
LEMMA PolicyTasksOnly ==
  ASSUME TaskOK, PoliciesNext
  PROVE  OnlyTasks(Reporting) /\ UNCHANGED <<goal, review, filing>>
<1> USE DEF OnlyTasks, Reporting, Idle, Start, Go, Done, TaskOK
<1>1. ASSUME NEW h \in Handlers, CountAcknowledged(h) \/ ListPending(h)
      PROVE  OnlyTasks(Reporting) /\ UNCHANGED <<goal, review, filing>>
  <2> DEFINE t == task[h]
  <2>1. t \in [op: Reporting, policy: Policies, active: Nat, acked: Nat, pending: Nat]
    BY <1>1, RecordTask DEF CountAcknowledged, ListPending
  <2>2. /\ [t EXCEPT !.op = "listPending",
                     !.acked = Cardinality(Acknowledging(t.policy))].op = "listPending"
        /\ [t EXCEPT !.op = "reported",
                     !.pending = Cardinality(Active \ Acknowledging(t.policy))].op = "reported"
    BY <2>1
  <2> QED  BY <1>1, <2>1, <2>2 DEF CountAcknowledged, ListPending, records
<1>2. ASSUME NEW h \in Handlers, NEW n \in Policies, StartReport(h, n)
      PROVE  OnlyTasks(Reporting) /\ UNCHANGED <<goal, review, filing>>
  BY <1>2 DEF StartReport, records
<1>3. ASSUME NEW h \in Handlers, AnswerReport(h)
      PROVE  OnlyTasks(Reporting) /\ UNCHANGED <<goal, review, filing>>
  BY <1>3 DEF AnswerReport, records
<1> QED  BY <1>1, <1>2, <1>3 DEF PoliciesNext, AcknowledgePolicy

\* All the records.
LEMMA RecordTasksOnly ==
  ASSUME TaskOK, GoalsNext \/ ReviewsNext \/ FilingsNext \/ PoliciesNext
  PROVE  OnlyTasks(RecordOps)
  BY GoalTasksOnly, ReviewTasksOnly, FilingTasksOnly, PolicyTasksOnly DEF OnlyTasks, RecordOps

\* Roles and permissions.
LEMMA AccessTasksOnly ==
  ASSUME TaskOK, AccessNext(People)
  PROVE  OnlyTasks(AccessOps)
<1> USE DEF OnlyTasks, AccessOps, Idle, Start, Go, Done, TaskOK
<1>1. ASSUME NEW h \in Handlers, EmptyRole(h) \/ FillRole(h) \/ FailSeed(h)
      PROVE OnlyTasks(AccessOps)
  <2>1. [task[h] EXCEPT !.op = "fill"].op = "fill"
    BY <1>1, SeedTask DEF EmptyRole, FillRole, FailSeed
  <2>2. task[h].op \in AccessOps
    BY <1>1 DEF EmptyRole, FillRole, FailSeed
  <2>3. CASE task' = [task EXCEPT ![h] = Idle]
    BY <2>2, <2>3
  <2>4. CASE EmptyRole(h)
    BY <2>1, <2>2, <2>4 DEF EmptyRole
  <2>5. CASE EndEarly(h)
    BY <2>3, <2>5 DEF EndEarly
  <2>6. CASE FillRole(h) /\ ~EndEarly(h)
    <3> DEFINE rest == task[h].left \ {task[h].role}
               t == [task[h] EXCEPT !.op = "empty", !.role = Order(rest), !.left = rest]
    <3>1. t.op = "empty"
      BY <1>1, SeedTask DEF EmptyRole, FillRole, FailSeed
    <3>2. task' \in {[task EXCEPT ![h] = t], [task EXCEPT ![h] = Idle]}
      BY <2>6 DEF FillRole
    <3> HIDE DEF t
    <3> QED  BY <2>2, <2>3, <3>1, <3>2
  <2> QED  BY <1>1, <2>4, <2>5, <2>6 DEF FailSeed
<1>2. ASSUME NEW h \in Handlers, DeleteRole(h)  PROVE OnlyTasks(AccessOps)
  <2>1. ASSUME NEW x \in Handlers, task[x].op \in {"empty", "fill"}
        PROVE  [task[x] EXCEPT !.held = @ \ {task[h].role}].op = task[x].op
    BY <2>1, SeedTask
  <2> QED  BY <1>2, <2>1 DEF DeleteRole
<1>4. ASSUME NEW h \in Handlers, StartSeed(h)  PROVE OnlyTasks(AccessOps)
  BY <1>4 DEF StartSeed
<1>3. ASSUME NEW h \in Handlers, NEW r \in Roles, CountUsers(h, r)  PROVE OnlyTasks(AccessOps)
  BY <1>3 DEF CountUsers
<1> QED
  BY <1>1, <1>2, <1>3, <1>4
  DEF AccessNext, CreateRole, UpdateRole, AssignPermissions, SetGrants, AssignRole, SignIn, TokenEnds

-----------------------------------------------------------------------------
(***************************************************************************)
(* Removed employees are signed out, managers are employees and hired      *)
(* candidates have a row of employees.                                     *)
(***************************************************************************)

\* Nobody stops being an employee.
LEMMA EmployedGrows ==
  ASSUME CompanyTypeOK, Next
  PROVE  Employed \subseteq Employed' /\ Employed' \subseteq People
<1>1. TaskOK /\ StaffTypeOK
  BY DEF CompanyTypeOK, TaskOK, Tasks
<1>2. CASE UNCHANGED employee
  BY <1>2 DEF Employed
<1>3. CASE StaffNext /\ employee' # employee
  BY <1>1, <1>3
  DEF StaffNext, EmployeesNext, AccountsNext, DepartmentsNext, CreateEmployee, UpdateEmployee,
      ReadForRemoval, Terminate, DeactivateUser, FailRemoval, CountMembers, DeleteDepartment,
      LinkUser, SetUser, SetDepartment, Employed, StaffTypeOK, Status, staff
<1>4. CASE HiringNext(People) /\ employee' # employee
  <2>1. PICK h \in Handlers : InsertEmployee(h)
    BY <1>4 DEF HiringNext, ReadOffer, CountEmployees, Hire, staff
  <2> QED  BY <1>1, <2>1 DEF InsertEmployee, Employed, StaffTypeOK, Status
<1> QED  BY Services, <1>2, <1>3, <1>4 DEF staff

\* A step that gives a manager checks that it is an employee and another one.
LEMMA ManagersStep ==
  ASSUME CompanyTypeOK, ManagersEmployed, Next
  PROVE  ManagersEmployed'
<1>1. TaskOK /\ StaffTypeOK
  BY DEF CompanyTypeOK, TaskOK, Tasks
<1>2. CASE UNCHANGED manager
  BY <1>2, EmployedGrows DEF ManagersEmployed
<1>3. CASE manager' # manager
  <2>1. StaffNext
    BY Services, <1>3
    DEF staff, HiringNext, ReadOffer, CountEmployees, InsertEmployee, Hire
  <2>2. PICK p \in People, d \in Department, m \in Person :
           \E s \in Status : CreateEmployee(p, d, m, s) \/ UpdateEmployee(p, d, m, s)
    BY <1>3, <2>1
    DEF StaffNext, EmployeesNext, AccountsNext, DepartmentsNext, ReadForRemoval, Terminate,
        DeactivateUser, FailRemoval, CountMembers, DeleteDepartment, LinkUser, SetUser,
        SetDepartment, staff
  <2>3. m \in (Employed \ {p}) \union {None} /\ manager' = [manager EXCEPT ![p] = m]
    BY <2>2 DEF CreateEmployee, UpdateEmployee, MayUpdate, Valid, Employed
  <2> QED  BY <1>1, <2>3, EmployedGrows DEF ManagersEmployed, StaffTypeOK
<1> QED  BY <1>2, <1>3

-----------------------------------------------------------------------------
\* An active user whose removal is not under way belongs to an employee who is
\* not terminated, and whom no removal that has not seen the user will
\* terminate; or the removal failed or the user was set since.
Removing(p) ==
  \E h \in Handlers : /\ task[h].op \in {"remove", "deactivate"}
                      /\ task[h].person = p /\ task[h].linked

SignedOut ==
  \A p \in People : account[p] = "active" =>
    \/ p \in edited
    \/ Removing(p)
    \/ /\ employee[p] # "terminated"
       /\ \A h \in Handlers : task[h].op = "remove" => task[h].person # p

\* Only employees have a user.
AccountsEmployed == \A p \in People : account[p] # "none" => p \in Employed

LEMMA AccountsStep ==
  ASSUME CompanyTypeOK, AccountsEmployed, Next
  PROVE  AccountsEmployed'
<1>1. CASE UNCHANGED account
  BY <1>1, EmployedGrows DEF AccountsEmployed
<1>2. CASE account' # account
  <2>1. StaffNext
    BY Services, <1>2 DEF staff, HiringNext, ReadOffer, CountEmployees, InsertEmployee, Hire
  <2>2. \A p \in People : account'[p] # "none" => account[p] # "none" \/ p \in Employed
    BY <1>2, <2>1
    DEF StaffNext, EmployeesNext, AccountsNext, DepartmentsNext, CreateEmployee, UpdateEmployee,
        ReadForRemoval, Terminate, DeactivateUser, FailRemoval, CountMembers, DeleteDepartment,
        LinkUser, SetUser, SetDepartment, CompanyTypeOK, StaffTypeOK, staff
  <2> QED  BY <2>2, EmployedGrows DEF AccountsEmployed
<1> QED  BY <1>1, <1>2

\* A step that touches neither accounts nor removals, and terminates nobody who
\* has a user.
LEMMA SignedOutElsewhere ==
  ASSUME SignedOut, UNCHANGED <<account, edited>>,
         \A p \in People :
           employee'[p] = "terminated" => employee[p] = "terminated" \/ account[p] = "none",
         \A h \in Handlers :
           \/ task'[h] = task[h]
           \/ task[h].op \notin {"remove", "deactivate"} /\ task'[h].op \notin {"remove", "deactivate"}
  PROVE  SignedOut'
<1>1. \A p \in People : Removing(p) => Removing(p)'
  BY DEF Removing
<1>2. ASSUME NEW p \in People, \A h \in Handlers : task[h].op = "remove" => task[h].person # p
      PROVE  \A h \in Handlers : task'[h].op = "remove" => task'[h].person # p
  BY <1>2
<1> QED  BY <1>1, <1>2 DEF SignedOut

\* Every step leaves it so: a removal that read the user goes on to deactivate
\* it, and one that did not began before the user was linked.
LEMMA SignedOutStep ==
  ASSUME CompanyTypeOK, AccountsEmployed, SignedOut, Next
  PROVE  SignedOut'
<1>1. TaskOK /\ StaffTypeOK
  BY DEF CompanyTypeOK, TaskOK, Tasks
<1>2. CASE UNCHANGED <<account, edited, employee>> /\ (OnlyTasks(RecordOps) \/ OnlyTasks(AccessOps))
  BY <1>2, SignedOutElsewhere DEF OnlyTasks, RecordOps, ReviewOps, FilingOps, Reporting, AccessOps
<1>3. CASE HiringNext(People)
  <2>1. OnlyTasks(HiringOps)
    BY <1>1, <1>3, HiringTasksOnly
  <2>2. UNCHANGED <<account, edited>> /\ (UNCHANGED employee \/ \E h \in Handlers : InsertEmployee(h))
    BY <1>3 DEF HiringNext, staff, ReadOffer, CountEmployees, Hire, InsertEmployee
  <2>3. \A p \in People : employee'[p] = "terminated" => employee[p] = "terminated"
    BY <1>1, <2>2 DEF InsertEmployee, StaffTypeOK
  <2> QED  BY <2>1, <2>2, <2>3, SignedOutElsewhere DEF OnlyTasks, HiringOps
<1>4. CASE StaffNext
  <2> USE <1>1 DEF StaffTypeOK
  <2>1. ASSUME NEW p \in People, NEW d \in Department, NEW m \in Person, NEW s \in Status,
               CreateEmployee(p, d, m, s)
        PROVE  SignedOut'
    <3>1. account[p] = "none"
      BY <2>1 DEF CreateEmployee, AccountsEmployed, Employed
    <3> QED  BY <2>1, <3>1, SignedOutElsewhere DEF CreateEmployee
  <2>2. ASSUME NEW p \in People, NEW d \in Department, NEW m \in Person,
               NEW s \in Status, UpdateEmployee(p, d, m, s)
        PROVE  SignedOut'
    BY <2>2 DEF UpdateEmployee, SignedOut, Removing
  <2>3. ASSUME NEW p \in People, LinkUser(p)  PROVE SignedOut'
    BY <2>3 DEF LinkUser, SignedOut, Removing
  <2>4. ASSUME NEW p \in People, NEW a \in {"none", "active", "inactive"}, SetUser(p, a)
        PROVE  SignedOut'
    BY <2>4 DEF SetUser, SignedOut, Removing
  <2>5. ASSUME NEW h \in Handlers, NEW p \in People, ReadForRemoval(h, p)  PROVE SignedOut'
    <3>1. /\ task[h].op = "idle" /\ task' = [task EXCEPT ![h] =
               [op |-> "remove", person |-> p, linked |-> account[p] # "none"]]
          /\ UNCHANGED <<employee, account>> /\ edited' = edited \ {p}
      BY <2>5 DEF ReadForRemoval, Start, Idle, staff
    <3>2. /\ task'[h].op = "remove" /\ task'[h].person = p
          /\ account[p] = "active" => task'[h].linked
          /\ \A x \in Handlers \ {h} : task'[x] = task[x]
      BY <3>1 DEF TaskOK
    <3> QED  BY <3>1, <3>2 DEF SignedOut, Removing
  <2>6. ASSUME NEW h \in Handlers, Terminate(h)  PROVE SignedOut'
    <3> DEFINE t == task[h]
    <3>1. t \in [op: {"remove", "deactivate"}, person: People, linked: BOOLEAN] /\ t.op = "remove"
      BY <2>6, RemovalTask DEF Terminate
    <3>2. /\ employee' = [employee EXCEPT ![t.person] = "terminated"]
          /\ UNCHANGED <<account, edited>>
          /\ \A x \in Handlers \ {h} : task'[x] = task[x]
      BY <2>6 DEF Terminate, Go, Done, TaskOK
    <3>3. t.linked => task'[h].op = "deactivate" /\ task'[h].person = t.person /\ task'[h].linked
      BY <2>6, <3>1 DEF Terminate, Go, TaskOK
    <3>4. ~t.linked => task'[h].op = "idle"
      BY <2>6 DEF Terminate, Done, Idle, TaskOK
    <3>5. \A p \in People : Removing(p) => Removing(p)'
      BY <3>1, <3>2, <3>3 DEF Removing
    <3>6. \A p \in People \ {t.person} :
            /\ employee'[p] = employee[p]
            /\ \A x \in Handlers : task'[x].op = "remove" => task[x].op = "remove" /\ task[x] = task'[x]
      BY <3>2, <3>3, <3>4
    <3>7. account[t.person] = "active" => t.person \in edited \/ Removing(t.person)
      BY <3>1 DEF SignedOut
    <3> QED  BY <3>2, <3>5, <3>6, <3>7 DEF SignedOut
  <2>7. ASSUME NEW h \in Handlers, DeactivateUser(h) \/ FailRemoval(h)  PROVE SignedOut'
    <3> DEFINE t == task[h]
    <3>1. t \in [op: {"remove", "deactivate"}, person: People, linked: BOOLEAN]
      BY <2>7, RemovalTask DEF DeactivateUser, FailRemoval
    <3>2. /\ employee' = employee /\ edited \subseteq edited' /\ edited' \subseteq People
          /\ t.person \in edited' \/ account'[t.person] # "active"
          /\ \A p \in People \ {t.person} : account'[p] = account[p]
          /\ task' = [task EXCEPT ![h] = Idle]
      BY <2>7, <3>1 DEF DeactivateUser, FailRemoval, Done, staff
    <3>3. task'[h].op = "idle" /\ \A x \in Handlers \ {h} : task'[x] = task[x]
      BY <3>2 DEF Idle, TaskOK
    <3> QED  BY <3>2, <3>3 DEF SignedOut, Removing
  <2>8. ASSUME NEW d \in Departments, NEW p \in Person, SetDepartment(d, p)  PROVE SignedOut'
    BY <2>8, SignedOutElsewhere DEF SetDepartment
  <2>9. ASSUME NEW h \in Handlers, NEW d \in Departments, CountMembers(h, d)  PROVE SignedOut'
    BY <2>9, SignedOutElsewhere DEF CountMembers, Start, Idle, TaskOK, staff
  <2>10. ASSUME NEW h \in Handlers, DeleteDepartment(h)  PROVE SignedOut'
    BY <2>10, SignedOutElsewhere DEF DeleteDepartment, Idle, TaskOK
  <2> QED
    BY <1>4, <2>1, <2>2, <2>3, <2>4, <2>5, <2>6, <2>7, <2>8, <2>9, <2>10
    DEF StaffNext, EmployeesNext, AccountsNext, DepartmentsNext
<1> QED
  BY <1>1, <1>2, <1>3, <1>4, Services, RecordTasksOnly, AccessTasksOnly DEF staff

\* The user of a removed employee cannot sign in (employees.remove), whatever
\* other requests did between the three statements of the removal.
THEOREM EverySignedOut == Spec => []TerminatedSignedOut
<1>1. Init => AccountsEmployed /\ SignedOut
  BY DEF Init, StaffInit, SignedOut, AccountsEmployed
<1>2. CompanyTypeOK /\ AccountsEmployed /\ SignedOut /\ [Next]_companyVars
        => AccountsEmployed' /\ SignedOut'
  <2>1. UNCHANGED companyVars => (AccountsEmployed /\ SignedOut => AccountsEmployed' /\ SignedOut')
    BY DEF companyVars, staff, SignedOut, Removing, AccountsEmployed, Employed
  <2> QED  BY <2>1, SignedOutStep, AccountsStep
<1>3. SignedOut => TerminatedSignedOut
  BY DEF SignedOut, TerminatedSignedOut, Removing
<1> QED  BY <1>1, <1>2, <1>3, CompanyTypes, PTL DEF Spec

\* Nobody is his own manager and every manager has a row of employees
\* (employees.update, assignManager), however the requests interleave.
THEOREM EveryManagerEmployed == Spec => []ManagersEmployed
<1>1. Init => ManagersEmployed
  BY StaffAssumption DEF Init, StaffInit, ManagersEmployed
<1>2. CompanyTypeOK /\ ManagersEmployed /\ [Next]_companyVars => ManagersEmployed'
  <2>1. UNCHANGED companyVars => (ManagersEmployed => ManagersEmployed')
    BY DEF companyVars, staff, ManagersEmployed, Employed
  <2> QED  BY <2>1, ManagersStep
<1> QED  BY <1>1, <1>2, CompanyTypes, PTL DEF Spec

-----------------------------------------------------------------------------
(* Whom the hierarchy of a small company misses. *)

\* Whoever is above somebody is in every set that goes upwards from there.
LEMMA AboveWithin ==
  ASSUME NEW p, NEW S, S \in SUBSET People, Upwards(S, p), \A r \in S : Upwards(S, r)
  PROVE  Above(p) \subseteq S
<1> SUFFICES ASSUME NEW q \in Above(p)  PROVE q \in S
  OBVIOUS
<1> QED  BY DEF Above

\* The manager is above, and so are the managers of those above.
LEMMA AboveGoesUp ==
  ASSUME StaffTypeOK, NEW p \in People
  PROVE  /\ manager[p] # None => manager[p] \in Above(p)
         /\ \A q \in Above(p) : manager[q] # None => manager[q] \in Above(p)
<1>1. \A q \in People : manager[q] # None => manager[q] \in People
  BY DEF StaffTypeOK, Person
<1>2. ASSUME manager[p] # None  PROVE manager[p] \in Above(p)
  BY <1>1, <1>2 DEF Above, Upwards
<1>3. ASSUME NEW q \in Above(p), manager[q] # None  PROVE manager[q] \in Above(p)
  <2>1. q \in People /\ manager[q] \in People
    BY <1>1, <1>3 DEF Above
  <2>2. ASSUME NEW S \in SUBSET People, Upwards(S, p), \A r \in S : Upwards(S, r)
        PROVE  manager[q] \in S
    <3>1. q \in S
      BY <1>3, <2>2 DEF Above
    <3> QED  BY <1>3, <2>2, <3>1 DEF Upwards
  <2> QED  BY <2>1, <2>2 DEF Above
<1> QED  BY <1>2, <1>3

\* Above are the manager and those above the manager.
LEMMA AboveOne ==
  ASSUME StaffTypeOK, NEW p \in People
  PROVE  /\ manager[p] = None => Above(p) = {}
         /\ manager[p] # None => /\ manager[p] \in People
                               /\ Above(p) \subseteq {manager[p]} \union Above(manager[p])
<1>1. CASE manager[p] = None
  <2>1. PICK S : S = {}
    OBVIOUS
  <2>2. Above(p) \subseteq S
    <3>1. S \in SUBSET People /\ Upwards(S, p) /\ \A r \in S : Upwards(S, r)
      BY <1>1, <2>1 DEF Upwards
    <3> QED  BY <3>1, AboveWithin
  <2> QED  BY <1>1, <2>1, <2>2
<1>2. CASE manager[p] # None
  <2>1. PICK a : a = manager[p]
    OBVIOUS
  <2>2. PICK S : S = {a} \union Above(a)
    OBVIOUS
  <2>3. a \in People /\ a # None
    BY <1>2, <2>1 DEF StaffTypeOK, Person
  <2>4. /\ S \in SUBSET People /\ Upwards(S, p)
        /\ \A r \in S : Upwards(S, r)
    BY <2>1, <2>2, <2>3, AboveGoesUp DEF Upwards, Above
  <2>5. Above(p) \subseteq S
    BY <2>4, AboveWithin
  <2> QED  BY <1>2, <2>1, <2>2, <2>3, <2>5
<1> QED  BY <1>1, <1>2

\* On a line that ends nobody is above himself.
LEMMA LinesEnd ==
  ASSUME StaffTypeOK, NEW p \in CompanyHierarchy, NEW q \in Above(p) \union {p}
  PROVE  q \notin Above(q)
<1>1. p \in People
  BY DEF CompanyHierarchy, Roots, Under, Employed
<1>2. PICK a, b, c : a = manager[p] /\ b = manager[a] /\ c = manager[b]
  OBVIOUS
<1>3. \/ a = None
      \/ a # None /\ b = None
      \/ a # None /\ b # None /\ c = None
      \/ a # None /\ b # None /\ c # None /\ manager[c] = None
  BY <1>1, <1>2, AboveOne, StaffAssumption DEF CompanyHierarchy, Roots, Under, Employed
<1>4. CASE a = None
  <2>1. Above(p) = {}
    BY <1>1, <1>2, <1>4, AboveOne
  <2> QED  BY <2>1
<1>5. CASE a # None /\ b = None
  <2>1. a \in People /\ Above(p) \subseteq {a} \union Above(a)
    BY <1>1, <1>2, <1>5, AboveOne
  <2>2. Above(a) = {}
    BY <1>2, <1>5, <2>1, AboveOne
  <2> QED  BY <1>2, <1>5, <2>1, <2>2
<1>6. CASE a # None /\ b # None /\ c = None
  <2>1. a \in People /\ Above(p) \subseteq {a} \union Above(a)
    BY <1>1, <1>2, <1>6, AboveOne
  <2>2. b \in People /\ Above(a) \subseteq {b} \union Above(b)
    BY <1>2, <1>6, <2>1, AboveOne
  <2>3. Above(b) = {}
    BY <1>2, <1>6, <2>2, AboveOne
  <2>4. a # b /\ p \notin {a, b}
    BY <1>2, <1>6
  <2> QED  BY <2>1, <2>2, <2>3, <2>4
<1>7. CASE a # None /\ b # None /\ c # None /\ manager[c] = None
  <2>1. a \in People /\ Above(p) \subseteq {a} \union Above(a)
    BY <1>1, <1>2, <1>7, AboveOne
  <2>2. b \in People /\ Above(a) \subseteq {b} \union Above(b)
    BY <1>2, <1>7, <2>1, AboveOne
  <2>3. c \in People /\ Above(b) \subseteq {c} \union Above(c)
    BY <1>2, <1>7, <2>2, AboveOne
  <2>4. Above(c) = {}
    BY <1>7, <2>3, AboveOne
  <2>5. a \notin {b, c} /\ b # c /\ p \notin {a, b, c}
    BY <1>2, <1>7
  <2> QED  BY <2>1, <2>2, <2>3, <2>4, <2>5
<1> QED  BY <1>3, <1>4, <1>5, <1>6, <1>7

LEMMA OneMore ==
  ASSUME NEW T, IsFiniteSet(T), NEW n \in Nat, Cardinality(T) = n, NEW x, x \notin T,
         NEW U, U = T \union {x}
  PROVE  IsFiniteSet(U) /\ Cardinality(U) = n + 1
<1>1. /\ IsFiniteSet(T \union {x})
      /\ Cardinality(T \union {x}) = Cardinality(T) + 1
  BY FS_AddElement
<1> QED  BY <1>1

\* Among five of at most four two are the same.
LEMMA FiveOfFour ==
  ASSUME NEW S, IsFiniteSet(S), Cardinality(S) <= 4,
         NEW a \in S, NEW b \in S, NEW c \in S, NEW d \in S, NEW e \in S
  PROVE  \/ a \in {b, c, d, e} \/ b \in {c, d, e} \/ c \in {d, e} \/ d = e
<1> SUFFICES ASSUME a \notin {b, c, d, e}, b \notin {c, d, e}, c \notin {d, e}, d # e
             PROVE  FALSE
  OBVIOUS
<1>1. PICK T1, T2, T3, T4 : /\ T1 = {e} \union {d} /\ T2 = T1 \union {c}
                           /\ T3 = T2 \union {b} /\ T4 = T3 \union {a}
  OBVIOUS
<1>2. d \notin {e} /\ c \notin T1 /\ b \notin T2 /\ a \notin T3 /\ T4 \subseteq S
  BY <1>1
<1>3. IsFiniteSet({e}) /\ Cardinality({e}) = 1
  BY FS_Singleton
<1>4. IsFiniteSet(T1) /\ Cardinality(T1) = 2
  BY <1>1, <1>2, <1>3, OneMore
<1>5. IsFiniteSet(T2) /\ Cardinality(T2) = 3
  BY <1>1, <1>2, <1>4, OneMore
<1>6. IsFiniteSet(T3) /\ Cardinality(T3) = 4
  BY <1>1, <1>2, <1>5, OneMore
<1>7. IsFiniteSet(T4) /\ Cardinality(T4) = 5
  BY <1>1, <1>2, <1>6, OneMore
<1>8. Cardinality(T4) <= Cardinality(S) /\ Cardinality(S) \in Nat
  BY <1>2, FS_Subset, FS_CardinalityType
<1> QED  BY <1>7, <1>8

\* Of at most four, who is missed is under somebody who is above himself.
LEMMA MissedTurn ==
  ASSUME StaffTypeOK, ManagersEmployed, Cardinality(Employed) <= 4,
         NEW p \in Employed, p \notin CompanyHierarchy
  PROVE  \E q \in Above(p) \union {p} : q \in Above(q)
<1> DEFINE a == manager[p]
           b == manager[a]
           c == manager[b]
           d == manager[c]
<1>1. IsFiniteSet(Employed)
  <2>1. Employed \subseteq People
    BY DEF Employed
  <2> QED  BY <2>1, StaffAssumption, FS_Subset
<1>2. /\ None \notin People /\ Employed \subseteq People
      /\ \A x \in Employed : manager[x] # None => manager[x] \in Employed
  BY StaffAssumption DEF ManagersEmployed, Employed
<1>3. a # None /\ b # None /\ c # None /\ d # None
  BY <1>2 DEF CompanyHierarchy, Roots, Under
<1>4. a \in Employed /\ b \in Employed /\ c \in Employed /\ d \in Employed
  BY <1>2, <1>3
<1>5. p \in People /\ a \in People /\ b \in People /\ c \in People
  BY <1>2, <1>4
<1>6. \/ p \in {a, b, c, d} \/ a \in {b, c, d} \/ b \in {c, d} \/ c = d
  <2> HIDE DEF a, b, c, d
  <2> QED  BY <1>1, <1>4, FiveOfFour
<1>7. a \in Above(p) /\ b \in Above(p) /\ c \in Above(p) /\ d \in Above(p)
  BY <1>3, <1>5, AboveGoesUp
<1>8. b \in Above(a) /\ c \in Above(a) /\ d \in Above(a)
  BY <1>3, <1>5, AboveGoesUp
<1>9. c \in Above(b) /\ d \in Above(b)
  BY <1>3, <1>5, AboveGoesUp
<1>10. d \in Above(c)
  BY <1>3, <1>5, AboveGoesUp
<1> HIDE DEF a, b, c, d
<1> QED  BY <1>6, <1>7, <1>8, <1>9, <1>10

\* The hierarchy of at most four employees (getCompanyHierarchy nests three
\* levels) has everyone but those on a circle of managers and those under them.
THEOREM HierarchyComplete == Spec => []HierarchyMissesCyclesOnly
<1>1. ASSUME CompanyTypeOK, ManagersEmployed  PROVE HierarchyMissesCyclesOnly
  BY <1>1, LinesEnd, MissedTurn DEF HierarchyMissesCyclesOnly, CompanyTypeOK
<1> QED  BY <1>1, CompanyTypes, EveryManagerEmployed, PTL

-----------------------------------------------------------------------------
\* A conversion that has got as far as its candidate's row goes on about the
\* person of that row, whose row of employees exists before the row is marked.
Converting ==
  \A h \in Handlers : task[h].op \in {"count", "insert", "hire"} =>
    /\ candidate[task[h].candidate] # None
    /\ Row(task[h].candidate) => candidate[task[h].candidate].person = task[h].person
    /\ task[h].op = "hire" => task[h].person \in Employed

HiringInv == HiredIsEmployed /\ Converting

\* What becomes of the rows of candidates in a step: none comes back, none
\* changes its person, and a row is marked by hand or stays as it is but for
\* what the conversion of it does.
RowStays ==
  \A c \in Candidates :
    candidate[c] # None =>
      /\ candidate'[c] # None
      /\ candidate'[c] # Gone => candidate[c] # Gone /\ candidate'[c].person = candidate[c].person

NoneHired ==
  \A c \in Candidates :
    \/ candidate'[c] = candidate[c]
    \/ candidate'[c] \in {None, Gone}
    \/ candidate'[c].stage # "hired"
    \/ candidate'[c].byHand = TRUE

\* A step that starts and advances no conversion.
LEMMA ConvertingFrame ==
  ASSUME CompanyTypeOK, Next, Converting, RowStays,
         \A h \in Handlers :
           \/ task'[h] = task[h]
           \/ task'[h].op \notin {"count", "insert", "hire"}
  PROVE  Converting'
<1>1. TaskOK
  BY DEF CompanyTypeOK, TaskOK, Tasks
<1>2. ASSUME NEW h \in Handlers, task'[h].op \in {"count", "insert", "hire"}
      PROVE  /\ candidate'[task'[h].candidate] # None
             /\ candidate'[task'[h].candidate] # Gone =>
                  candidate'[task'[h].candidate].person = task'[h].person
             /\ task'[h].op = "hire" => task'[h].person \in Employed'
  <2>1. task'[h] = task[h]
    BY <1>2
  <2>2. task[h].candidate \in Candidates
    BY <1>1, <1>2, <2>1, ConversionTask
  <2> QED  BY <1>2, <2>1, <2>2, EmployedGrows DEF Converting, RowStays, Row
<1> QED  BY <1>2 DEF Converting, Row

\* A step that marks nobody as hired but by hand.
LEMMA HiredFrame ==
  ASSUME CompanyTypeOK, Next, HiredIsEmployed, NoneHired
  PROVE  HiredIsEmployed'
<1>1. ASSUME NEW c \in Candidates, Row(c)', candidate'[c].stage = "hired", ~candidate'[c].byHand
      PROVE  candidate'[c].person \in Employed'
  <2>1. candidate'[c] = candidate[c]
    BY <1>1 DEF NoneHired, Row
  <2> QED  BY <1>1, <2>1, EmployedGrows DEF HiredIsEmployed, Row
<1> QED  BY <1>1 DEF HiredIsEmployed

\* Every step of recruitment keeps the invariant.
LEMMA HiringStep ==
  ASSUME CompanyTypeOK, Next, HiringInv, HiringNext(People)
  PROVE  HiringInv'
<1>1. TaskOK /\ HiringTypeOK /\ StaffTypeOK
  BY DEF CompanyTypeOK, TaskOK, Tasks
<1> USE <1>1
<1>2. ASSUME RowStays, NoneHired,
             \A h \in Handlers :
               task'[h] = task[h] \/ task'[h].op \notin {"count", "insert", "hire"}
      PROVE  HiringInv'
  BY <1>2, ConvertingFrame, HiredFrame DEF HiringInv
<1>3. ASSUME NEW c \in Candidates, NEW s \in Stages, NEW hand \in BOOLEAN, Row(c),
             candidate' = [candidate EXCEPT ![c] = Moved(candidate[c], s, hand)]
      PROVE  /\ RowStays
             /\ s # "hired" \/ hand = TRUE => NoneHired
             /\ candidate'[c].person = candidate[c].person /\ candidate'[c] # None
  <2>1. candidate[c] \in CandidateRow
    BY <1>3 DEF HiringTypeOK, Row
  <2>2. /\ candidate'[c] \in CandidateRow
        /\ candidate'[c].stage = s /\ candidate'[c].byHand = hand
        /\ candidate'[c].person = candidate[c].person
        /\ \A x \in Candidates \ {c} : candidate'[x] = candidate[x]
    BY <1>3, <2>1, MovedTyped DEF HiringTypeOK
  <2> QED  BY <1>3, <2>1, <2>2, RecruitmentAssumption DEF RowStays, NoneHired, Row
<1>4. UNCHANGED candidate => RowStays /\ NoneHired
  BY DEF RowStays, NoneHired
<1>5. ASSUME NEW j \in Jobs, CreateJob(j)  PROVE HiringInv'
  BY <1>2, <1>4, <1>5 DEF CreateJob
<1>6. ASSUME NEW c \in Candidates, NEW s \in MovedTo, MoveStage(c, s)  PROVE HiringInv'
  BY <1>2, <1>3, <1>6, RecruitmentAssumption DEF MoveStage
<1>7. ASSUME NEW c \in Candidates, DeleteCandidate(c)  PROVE HiringInv'
  <2>1. RowStays /\ NoneHired
    BY <1>7, StaffAssumption DEF DeleteCandidate, HiringTypeOK, RowStays, NoneHired
  <2> QED  BY <1>2, <1>7, <2>1 DEF DeleteCandidate
<1>8. ASSUME NEW h \in Handlers, NEW j \in Jobs, ReadJob(h, j) \/ CountCandidates(h, j)
      PROVE  HiringInv'
  BY <1>2, <1>4, <1>8 DEF ReadJob, CountCandidates, Start, TaskOK, hiring
<1>9. ASSUME NEW h \in Handlers, NEW c \in Candidates, NEW j \in Jobs, NEW p \in People,
             ReadForApply(h, c, j, p)
      PROVE  HiringInv'
  BY <1>2, <1>4, <1>9 DEF ReadForApply, Start, TaskOK, hiring
<1>10. ASSUME NEW h \in Handlers, NEW c \in Candidates, ScheduleInterview(h, c)
       PROVE  HiringInv'
  BY <1>2, <1>4, <1>10 DEF ScheduleInterview, Start, TaskOK, hiring
<1>11. ASSUME NEW h \in Handlers, WriteJob(h)  PROVE HiringInv'
  BY <1>2, <1>4, <1>11 DEF WriteJob, Done, Idle, TaskOK
<1>12. ASSUME NEW h \in Handlers, DeleteJob(h)  PROVE HiringInv'
  <2>1. RowStays /\ NoneHired
    BY <1>12, StaffAssumption DEF DeleteJob, RowStays, NoneHired
  <2> QED  BY <1>2, <1>12, <2>1 DEF DeleteJob, Done, Idle, TaskOK
<1>13. ASSUME NEW h \in Handlers, Apply(h)  PROVE HiringInv'
  <2>1. CASE UNCHANGED candidate
    BY <1>2, <1>4, <1>13, <2>1 DEF Apply, Done, Idle, TaskOK
  <2>2. CASE candidate' # candidate
    <3> DEFINE t == task[h]
               row == [job |-> t.job, person |-> t.person, stage |-> "applied", byHand |-> FALSE]
    <3>1. candidate[t.candidate] = None /\ candidate' = [candidate EXCEPT ![t.candidate] = row]
      BY <1>13, <2>2 DEF Apply
    <3>2. row.stage # "hired"
      OBVIOUS
    <3>3. RowStays /\ NoneHired
      BY <3>1, <3>2 DEF RowStays, NoneHired, HiringTypeOK
    <3> QED  BY <1>2, <1>13, <3>3 DEF Apply, Done, Idle, TaskOK
  <2> QED  BY <2>1, <2>2
<1>14. ASSUME NEW h \in Handlers, MoveToInterview(h)  PROVE HiringInv'
  <2>1. task[h].candidate \in Candidates
    BY <1>14 DEF MoveToInterview, TaskOK, Tasks, StaffTasks, HiringTasks, RecordTasks, AccessTasks,
                 Idle, Reporting
  <2>2. RowStays /\ NoneHired
    BY <1>3, <1>4, <1>14, <2>1 DEF MoveToInterview, Stages
  <2> QED  BY <1>2, <1>14, <2>2 DEF MoveToInterview, Done, Idle, TaskOK
<1>15. ASSUME NEW h \in Handlers, NEW c \in Candidates, ReadOffer(h, c)  PROVE HiringInv'
  <2> DEFINE t == [op |-> "count", candidate |-> c, person |-> candidate[c].person, number |-> 0]
  <2>1. /\ task' = [task EXCEPT ![h] = t] /\ UNCHANGED candidate /\ Row(c)
        /\ Employed' = Employed
    BY <1>15 DEF ReadOffer, Start, hiring, staff, Employed
  <2>2. /\ t.op = "count" /\ t.candidate = c /\ t.person = candidate[c].person
        /\ task'[h] = t /\ \A x \in Handlers \ {h} : task'[x] = task[x]
    BY <2>1 DEF TaskOK
  <2> HIDE DEF t
  <2>3. Converting'
    BY <2>1, <2>2 DEF Converting, Row, HiringInv
  <2>4. HiredIsEmployed'
    BY <1>4, <2>1, HiredFrame DEF HiringInv
  <2> QED  BY <2>3, <2>4 DEF HiringInv
<1>16. ASSUME NEW h \in Handlers, CountEmployees(h) \/ InsertEmployee(h) \/ Hire(h)
       PROVE  HiringInv'
  <2> DEFINE t == task[h]
  <2>1. t \in [op: {"count", "insert", "hire"}, candidate: Candidates, person: People, number: Nat]
    BY <1>16, ConversionTask DEF CountEmployees, InsertEmployee, Hire
  <2>2. /\ candidate[t.candidate] # None
        /\ Row(t.candidate) => candidate[t.candidate].person = t.person
        /\ t.op = "hire" => t.person \in Employed
    BY <2>1 DEF HiringInv, Converting
  <2>3. CASE CountEmployees(h)
    <3> DEFINE u == [t EXCEPT !.op = "insert", !.number = Cardinality(Employed) + 1]
    <3>1. task' = [task EXCEPT ![h] = u]
      BY <2>3 DEF CountEmployees, Go
    <3>2. u.op = "insert" /\ u.candidate = t.candidate /\ u.person = t.person
      BY <2>1
    <3> HIDE DEF u
    <3>3. UNCHANGED candidate /\ Employed' = Employed
      BY <2>3 DEF CountEmployees, hiring, staff, Employed
    <3>4. Converting'
      BY <2>2, <3>1, <3>2, <3>3 DEF Converting, HiringInv, Row, TaskOK
    <3> QED  BY <1>4, <3>3, <3>4, HiredFrame DEF HiringInv
  <2>4. CASE InsertEmployee(h)
    <3>1. UNCHANGED candidate
      BY <2>4 DEF InsertEmployee
    <3>2. CASE t.person \in Employed \/ Taken(t.number)
      BY <1>2, <1>4, <2>4, <3>1, <3>2 DEF InsertEmployee, Done, Idle, TaskOK
    <3>3. CASE ~(t.person \in Employed \/ Taken(t.number))
      <4> DEFINE u == [t EXCEPT !.op = "hire"]
      <4>1. task' = [task EXCEPT ![h] = u]
        BY <2>4, <3>3 DEF InsertEmployee, Go
      <4>2. u.op = "hire" /\ u.candidate = t.candidate /\ u.person = t.person
        BY <2>1
      <4> HIDE DEF u
      <4>3. t.person \in Employed' /\ Employed \subseteq Employed'
        BY <2>1, <2>4, <3>3, EmployedGrows DEF InsertEmployee, Employed, StaffTypeOK
      <4>4. Converting'
        BY <2>2, <3>1, <4>1, <4>2, <4>3 DEF Converting, HiringInv, Row, TaskOK
      <4> QED  BY <1>4, <3>1, <4>4, HiredFrame DEF HiringInv
    <3> QED  BY <3>2, <3>3
  <2>5. CASE Hire(h)
    <3>1. CASE UNCHANGED candidate
      BY <1>2, <1>4, <2>5, <3>1 DEF Hire, Done, Idle, TaskOK
    <3>2. CASE candidate' # candidate
      <4>1. /\ Row(t.candidate) /\ t.person \in Employed
            /\ candidate' = [candidate EXCEPT ![t.candidate] = Moved(candidate[t.candidate], "hired", FALSE)]
        BY <2>2, <2>5, <3>2 DEF Hire
      <4>2. RowStays /\ candidate'[t.candidate].person = t.person
        BY <1>3, <2>1, <2>2, <4>1 DEF Stages
      <4>3. Converting'
        BY <2>5, <4>2, ConvertingFrame DEF HiringInv, Hire, Done, Idle, TaskOK
      <4>4. \A c \in Candidates \ {t.candidate} : candidate'[c] = candidate[c]
        BY <4>1 DEF HiringTypeOK
      <4>5. HiredIsEmployed'
        BY <4>1, <4>2, <4>4, EmployedGrows DEF HiringInv, HiredIsEmployed, Row
      <4> QED  BY <4>3, <4>5 DEF HiringInv
    <3> QED  BY <3>1, <3>2
  <2> QED  BY <1>16, <2>3, <2>4, <2>5
<1> QED
  BY <1>5, <1>6, <1>7, <1>8, <1>9, <1>10, <1>11, <1>12, <1>13, <1>14, <1>15, <1>16 DEF HiringNext

\* So does every step of another service.
LEMMA HiringElsewhere ==
  ASSUME CompanyTypeOK, Next, HiringInv, UNCHANGED hiring,
         OnlyTasks(StaffOps) \/ OnlyTasks(RecordOps) \/ OnlyTasks(AccessOps)
  PROVE  HiringInv'
<1>1. \A h \in Handlers : task'[h] = task[h] \/ task'[h].op \notin {"count", "insert", "hire"}
  BY DEF OnlyTasks, StaffOps, RecordOps, ReviewOps, FilingOps, Reporting, AccessOps
<1>2. RowStays /\ NoneHired
  BY DEF hiring, RowStays, NoneHired
<1> QED  BY <1>1, <1>2, ConvertingFrame, HiredFrame DEF HiringInv

\* A candidate hired by convertToEmployee has a row of employees, whatever
\* failed or was written between the four statements of the conversion.
THEOREM EveryHiredEmployed == Spec => []HiredIsEmployed
<1>1. Init => HiringInv
  BY DEF Init, StaffInit, HiringInit, HiringInv, HiredIsEmployed, Converting, Row, Idle
<1>2. CompanyTypeOK /\ HiringInv /\ [Next]_companyVars => HiringInv'
  <2>1. CASE UNCHANGED companyVars
    BY <2>1 DEF companyVars, staff, hiring, HiringInv, HiredIsEmployed, Converting, Row, Employed
  <2>2. CASE Next
    BY <2>2, Services, HiringStep, HiringElsewhere, StaffTasksOnly, RecordTasksOnly, AccessTasksOnly
    DEF CompanyTypeOK, TaskOK, Tasks
  <2> QED  BY <2>1, <2>2
<1>3. HiringInv => HiredIsEmployed
  BY DEF HiringInv
<1> QED  BY <1>1, <1>2, <1>3, CompanyTypes, PTL DEF Spec

-----------------------------------------------------------------------------
(***************************************************************************)
(* Goals, reviews, filings and the compliance report.                      *)
(***************************************************************************)

\* A progress under way is about a goal that was created, and writes
\* "completed" again only for one that was at its target.
ProgressTasks ==
  \A h \in Handlers : task[h].op = "progress" =>
    /\ goal[task[h].goal] # None
    /\ HasGoal(task[h].goal) /\ ~goal[task[h].goal].byHand /\ task[h].status = "completed" =>
         goal[task[h].goal].reached

GoalInv == GoalStatusFits /\ ProgressTasks

\* What a step does to one goal: one that was created stays so, at its target
\* once it was, and set by hand once it was.
GoalsStay ==
  \A g \in Goals : goal[g] # None =>
    /\ goal'[g] # None
    /\ HasGoal(g)' =>
         /\ HasGoal(g)
         /\ goal[g].byHand => goal'[g].byHand
         /\ goal[g].reached => goal'[g].reached

GoalFits(g) ==
  HasGoal(g) /\ ~goal[g].byHand =>
    /\ goal[g].status = "completed" => goal[g].reached
    /\ goal[g].status # "pending" /\ goal[g].value = Target =>
         goal[g].status = "completed" \/ goal[g].rounded

\* A step that starts no progress and takes nothing from a goal.
LEMMA ProgressFrame ==
  ASSUME CompanyTypeOK, ProgressTasks, GoalsStay,
         \A h \in Handlers : task'[h] = task[h] \/ task'[h].op # "progress"
  PROVE  ProgressTasks'
<1>1. TaskOK
  BY DEF CompanyTypeOK, TaskOK, Tasks
<1>2. ASSUME NEW h \in Handlers, task'[h].op = "progress"
      PROVE  /\ goal'[task'[h].goal] # None
             /\ goal'[task'[h].goal] # Gone /\ ~goal'[task'[h].goal].byHand
                  /\ task'[h].status = "completed" => goal'[task'[h].goal].reached
  <2>1. task'[h] = task[h]
    BY <1>2
  <2>2. task[h].goal \in Goals
    BY <1>1, <1>2, <2>1, RecordTask
  <2> QED  BY <1>2, <2>1, <2>2 DEF ProgressTasks, GoalsStay, HasGoal
<1> QED  BY <1>2 DEF ProgressTasks, HasGoal

\* Every step on goals keeps the invariant.
LEMMA GoalStep ==
  ASSUME CompanyTypeOK, GoalInv, GoalsNext
  PROVE  GoalInv'
<1>1. TaskOK /\ RecordsTypeOK
  BY DEF CompanyTypeOK, TaskOK, Tasks
<1> USE <1>1
<1>2. ASSUME GoalsStay, \A g \in Goals : goal'[g] = goal[g] \/ GoalFits(g)',
             \A h \in Handlers : task'[h] = task[h] \/ task'[h].op # "progress"
      PROVE  GoalInv'
  <2>1. GoalStatusFits'
    BY <1>2 DEF GoalInv, GoalStatusFits, GoalFits, HasGoal
  <2> QED  BY <1>2, <2>1, ProgressFrame DEF GoalInv
<1>3. ASSUME NEW g \in Goals, NEW row \in GoalRow, goal' = [goal EXCEPT ![g] = row],
             HasGoal(g) \/ goal[g] = None,
             HasGoal(g) => /\ goal[g].byHand => row.byHand
                           /\ goal[g].reached => row.reached,
             ~row.byHand => /\ row.status = "completed" => row.reached
                            /\ row.status # "pending" /\ row.value = Target =>
                                 row.status = "completed" \/ row.rounded,
             \A h \in Handlers : task'[h] = task[h] \/ task'[h].op # "progress"
      PROVE  GoalInv'
  <2>1. /\ goal'[g] = row /\ row \notin {None, Gone}
        /\ \A x \in Goals \ {g} : goal'[x] = goal[x]
    BY <1>3, RecordsAssumption DEF RecordsTypeOK
  <2>2. GoalsStay
    BY <1>3, <2>1 DEF GoalsStay, HasGoal
  <2>3. \A x \in Goals : goal'[x] = goal[x] \/ GoalFits(x)'
    BY <1>3, <2>1 DEF GoalFits, HasGoal
  <2> QED  BY <1>2, <1>3, <2>2, <2>3
<1>4. ASSUME NEW g \in Goals, NEW p \in People, NEW v \in Input, CreateGoal(g, p, v)
      PROVE  GoalInv'
  <2> DEFINE row == [of |-> p, value |-> Stored(v), status |-> "pending",
                     reached |-> v >= 3 * Target, rounded |-> FALSE, byHand |-> FALSE]
  <2>1. row \in GoalRow /\ row.status = "pending"
    BY StoredTyped DEF GoalRow, GoalStatus
  <2>2. goal' = [goal EXCEPT ![g] = row] /\ goal[g] = None /\ task' = task
    BY <1>4 DEF CreateGoal, SetGoal
  <2> QED  BY <1>3, <2>1, <2>2 DEF HasGoal
<1>5. ASSUME NEW g \in Goals, NEW s \in GoalStatus, SetGoalStatus(g, s)  PROVE GoalInv'
  <2> DEFINE row == [goal[g] EXCEPT !.status = s, !.byHand = TRUE]
  <2>1. goal[g] \in GoalRow /\ HasGoal(g)
    BY <1>5 DEF SetGoalStatus, HasGoal, RecordsTypeOK
  <2>2. row \in GoalRow /\ row.byHand = TRUE /\ row.reached = goal[g].reached
    BY <2>1 DEF GoalRow
  <2>3. goal' = [goal EXCEPT ![g] = row] /\ task' = task
    BY <1>5 DEF SetGoalStatus
  <2> QED  BY <1>3, <2>1, <2>2, <2>3
<1>6. ASSUME NEW g \in Goals, DeleteGoal(g)  PROVE GoalInv'
  <2>1. /\ goal'[g] = Gone /\ goal[g] # None
        /\ \A x \in Goals \ {g} : goal'[x] = goal[x]
        /\ task' = task
    BY <1>6 DEF DeleteGoal, SetGoal, HasGoal, RecordsTypeOK
  <2> QED  BY <1>2, <2>1, StaffAssumption DEF GoalsStay, GoalFits, HasGoal
<1>7. ASSUME NEW h \in Handlers, WriteGoal(h)  PROVE GoalInv'
  <2> DEFINE t == task[h]  g == t.goal  old == goal[g]
             row == Progressed(old, t.status, t.value)
  <2>1. t \in [op: {"progress"}, goal: Goals, status: GoalStatus, value: Input]
    BY <1>7, RecordTask DEF WriteGoal
  <2>2. \A x \in Handlers : task'[x] = task[x] \/ task'[x].op # "progress"
    BY <1>7 DEF WriteGoal, Done, Idle, TaskOK
  <2>3. CASE ~HasGoal(g)
    <3>1. goal' = goal
      BY <1>7, <2>3 DEF WriteGoal
    <3> QED  BY <1>2, <2>2, <3>1 DEF GoalsStay, HasGoal
  <2>4. CASE HasGoal(g)
    <3>1. old \in GoalRow
      BY <2>1, <2>4 DEF HasGoal, RecordsTypeOK
    <3>2. goal' = [goal EXCEPT ![g] = row]
      BY <1>7, <2>4 DEF WriteGoal
    <3>3. /\ row \in GoalRow /\ row.byHand = old.byHand /\ row.value = Stored(t.value)
          /\ row.status = ProgressStatus(t.status, t.value)
          /\ row.reached <=> old.reached \/ t.value >= 3 * Target
          /\ row.rounded <=> Stored(t.value) = Target /\ t.value < 3 * Target
      BY <2>1, <3>1, ProgressedTyped
    <3>4. ~old.byHand /\ t.status = "completed" => old.reached
      BY <1>7, <2>4 DEF GoalInv, ProgressTasks, WriteGoal
    <3>5. /\ t.value >= 3 * Target => row.status = "completed"
          /\ row.status = "completed" => t.value >= 3 * Target \/ t.status = "completed"
          /\ t.value >= 3 * Target \/ t.value < 3 * Target
      BY <2>1, <3>3, RecordsAssumption DEF ProgressStatus, Input
    <3> HIDE DEF row
    <3>6. /\ row.status = "completed" => old.byHand \/ row.reached
          /\ row.value = Target => row.status = "completed" \/ row.rounded
      BY <3>3, <3>4, <3>5
    <3> QED  BY <1>3, <2>1, <2>2, <2>4, <3>2, <3>3, <3>6
  <2> QED  BY <2>3, <2>4
<1>8. ASSUME NEW h \in Handlers, NEW g \in Goals, NEW v \in Input, ReadGoal(h, g, v)
      PROVE  GoalInv'
  <2> DEFINE t == [op |-> "progress", goal |-> g, status |-> goal[g].status, value |-> v]
  <2>1. UNCHANGED goal /\ HasGoal(g) /\ task' = [task EXCEPT ![h] = t]
    BY <1>8 DEF ReadGoal, Start, records
  <2>2. t.goal = g /\ t.status = goal[g].status
    OBVIOUS
  <2> HIDE DEF t
  <2>3. GoalStatusFits'
    BY <2>1 DEF GoalInv, GoalStatusFits, HasGoal
  <2>4. ProgressTasks'
    BY <2>1, <2>2 DEF GoalInv, GoalStatusFits, ProgressTasks, HasGoal, TaskOK
  <2> QED  BY <2>3, <2>4 DEF GoalInv
<1> QED  BY <1>4, <1>5, <1>6, <1>7, <1>8 DEF GoalsNext

\* So does every step of another service.
LEMMA GoalElsewhere ==
  ASSUME CompanyTypeOK, GoalInv, UNCHANGED goal,
         \A h \in Handlers : task'[h] = task[h] \/ task'[h].op # "progress"
  PROVE  GoalInv'
<1>1. GoalsStay
  BY DEF GoalsStay, HasGoal
<1> QED  BY <1>1, ProgressFrame DEF GoalInv, GoalStatusFits, HasGoal

\* The status of a goal that was never set by hand fits its value
\* (updateGoalProgress), whatever progress is written between its read and its
\* write.
THEOREM EveryGoalFits == Spec => []GoalStatusFits
<1>1. Init => GoalInv
  BY DEF Init, StaffInit, RecordsInit, GoalInv, GoalStatusFits, ProgressTasks, HasGoal, Idle
<1>2. CompanyTypeOK /\ GoalInv /\ [Next]_companyVars => GoalInv'
  <2> SUFFICES ASSUME CompanyTypeOK, GoalInv, [Next]_companyVars  PROVE GoalInv'
    OBVIOUS
  <2>1. TaskOK
    BY DEF CompanyTypeOK, TaskOK, Tasks
  <2>2. CASE UNCHANGED companyVars
    BY <2>2, GoalElsewhere DEF companyVars, records
  <2>3. CASE StaffNext /\ UNCHANGED records
    BY <2>1, <2>3, GoalElsewhere, StaffTasksOnly DEF OnlyTasks, StaffOps, records
  <2>4. CASE HiringNext(People) /\ UNCHANGED records
    BY <2>1, <2>4, GoalElsewhere, HiringTasksOnly DEF OnlyTasks, HiringOps, records
  <2>5. CASE AccessNext(People) /\ UNCHANGED records
    BY <2>1, <2>5, GoalElsewhere, AccessTasksOnly DEF OnlyTasks, AccessOps, records
  <2>6. CASE ReviewsNext \/ FilingsNext \/ PoliciesNext
    <3>1. UNCHANGED goal /\ \A h \in Handlers : task'[h] = task[h] \/ task'[h].op # "progress"
      BY <2>1, <2>6, ReviewTasksOnly, FilingTasksOnly, PolicyTasksOnly
      DEF OnlyTasks, ReviewOps, FilingOps, Reporting
    <3> QED  BY <3>1, GoalElsewhere
  <2> QED  BY <2>2, <2>3, <2>4, <2>5, <2>6, GoalStep, Services
<1>3. GoalInv => GoalStatusFits
  BY DEF GoalInv
<1> QED  BY <1>1, <1>2, <1>3, CompanyTypes, PTL DEF Spec

-----------------------------------------------------------------------------
\* An acknowledgement under way is of a review that was dated when it was
\* read; no step takes a date away.
ReviewInv ==
  /\ \A p \in People, q \in Periods :
       review[p][q].status \in {"submitted", "acknowledged"} => review[p][q].dated
  /\ \A h \in Handlers : task[h].op = "acceptReview" =>
       review[task[h].person][task[h].period].dated

\* Every step on reviews keeps it.
LEMMA ReviewStep ==
  ASSUME CompanyTypeOK, ReviewInv, ReviewsNext
  PROVE  ReviewInv'
<1>1. TaskOK /\ RecordsTypeOK
  BY DEF CompanyTypeOK, TaskOK, Tasks
<1>2. ASSUME NEW p \in People, NEW q \in Periods, NEW row,
             review' = [review EXCEPT ![p] = [review[p] EXCEPT ![q] = row]],
             row.status \in {"submitted", "acknowledged"} => row.dated,
             review[p][q].dated => row.dated,
             \A h \in Handlers : task'[h] = task[h] \/ task'[h].op # "acceptReview"
      PROVE  ReviewInv'
  <2>1. /\ review'[p][q] = row
        /\ \A x \in People, y \in Periods :
             <<x, y>> # <<p, q>> => review'[x][y] = review[x][y]
    BY <1>1, <1>2 DEF RecordsTypeOK
  <2>2. \A x \in People, y \in Periods : review[x][y].dated => review'[x][y].dated
    BY <1>2, <2>1
  <2>3. \A h \in Handlers : task[h].op = "acceptReview" =>
          task[h].person \in People /\ task[h].period \in Periods
    BY <1>1, RecordTask
  <2> QED  BY <1>2, <2>1, <2>2, <2>3 DEF ReviewInv
<1>3. ASSUME NEW p \in People, NEW r \in People, NEW q \in Periods, CreateReview(p, r, q)
      PROVE  ReviewInv'
  <2> DEFINE row == [review[p][q] EXCEPT !.status = "draft"]
  <2>1. review[p][q] \in ReviewRow
    BY <1>1 DEF RecordsTypeOK
  <2>2. row.status = "draft" /\ row.dated = review[p][q].dated
    BY <2>1 DEF ReviewRow
  <2>3. /\ review' = [review EXCEPT ![p] = [review[p] EXCEPT ![q] = row]]
        /\ task' = task
    BY <1>3, <1>1 DEF CreateReview, RecordsTypeOK
  <2> QED  BY <1>2, <2>2, <2>3
<1>4. ASSUME NEW h \in Handlers, WriteReview(h)  PROVE ReviewInv'
  <2> DEFINE t == task[h]
             old == review[t.person][t.period]
  <2>1. t \in [op: {"submit", "acceptReview"}, person: People, period: Periods]
    BY <1>1, <1>4, RecordTask DEF WriteReview
  <2>2. old \in ReviewRow
    BY <1>1, <2>1 DEF RecordsTypeOK
  <2>3. \A x \in Handlers : task'[x] = task[x] \/ task'[x].op # "acceptReview"
    BY <1>1, <1>4 DEF WriteReview, Done, Idle, TaskOK
  <2>4. CASE t.op = "submit"
    <3> DEFINE row == [status |-> "submitted", dated |-> TRUE]
    <3>1. row.dated
      OBVIOUS
    <3>2. review' = [review EXCEPT ![t.person] = [review[t.person] EXCEPT ![t.period] = row]]
      BY <1>1, <1>4, <2>1, <2>4 DEF WriteReview, RecordsTypeOK
    <3> QED  BY <1>2, <2>1, <2>3, <3>1, <3>2
  <2>5. CASE t.op = "acceptReview"
    <3> DEFINE row == [old EXCEPT !.status = "acknowledged"]
    <3>1. row.dated = old.dated
      BY <2>2 DEF ReviewRow
    <3>2. review' = [review EXCEPT ![t.person] = [review[t.person] EXCEPT ![t.period] = row]]
      BY <1>1, <1>4, <2>1, <2>5 DEF WriteReview, RecordsTypeOK
    <3>3. old.dated
      BY <2>5 DEF ReviewInv
    <3> HIDE DEF row
    <3> QED  BY <1>2, <2>1, <2>3, <3>1, <3>2, <3>3
  <2> QED  BY <2>1, <2>4, <2>5
<1>5. ASSUME NEW h \in Handlers, NEW p \in People, NEW q \in Periods, ReadReview(h, p, q)
      PROVE  ReviewInv'
  <2>1. UNCHANGED review /\ \A x \in Handlers \ {h} : task'[x] = task[x]
    BY <1>1, <1>5 DEF ReadReview, Start, TaskOK, records
  <2>2. task'[h].op = "acceptReview" =>
          /\ task'[h].person = p /\ task'[h].period = q
          /\ review[p][q].status = "submitted"
    BY <1>1, <1>5 DEF ReadReview, Start, TaskOK
  <2> QED  BY <2>1, <2>2 DEF ReviewInv
<1> QED  BY <1>3, <1>4, <1>5 DEF ReviewsNext

-----------------------------------------------------------------------------
\* A filing under way writes a receipt back if the row was created with one; an
\* acknowledgement under way is of a filing that was dated.
FilingInv ==
  /\ \A f \in Filings :
       /\ filing[f].status \in {"filed", "acknowledged"} => filing[f].dated
       /\ filing[f].given => filing[f].receipt
  /\ \A h \in Handlers :
       /\ task[h].op = "file" =>
            /\ filing[task[h].filing].status # "none"
            /\ filing[task[h].filing].given => task[h].receipt
       /\ task[h].op = "acceptFiling" =>
            /\ filing[task[h].filing].status # "none"
            /\ filing[task[h].filing].dated

\* Every step on filings keeps it.
LEMMA FilingStep ==
  ASSUME CompanyTypeOK, FilingInv, FilingsNext
  PROVE  FilingInv'
<1>1. TaskOK /\ RecordsTypeOK
  BY DEF CompanyTypeOK, TaskOK, Tasks
<1>2. ASSUME NEW f \in Filings, NEW row, filing' = [filing EXCEPT ![f] = row],
             row.status \in {"filed", "acknowledged"} => row.dated,
             row.given => row.receipt,
             row.status # "none",
             filing[f].status # "none" =>
               /\ filing[f].dated => row.dated
               /\ row.given => filing[f].given,
             \A h \in Handlers : task'[h] = task[h] \/ task'[h].op \notin FilingOps
      PROVE  FilingInv'
  <2>1. filing'[f] = row /\ \A x \in Filings \ {f} : filing'[x] = filing[x]
    BY <1>1, <1>2 DEF RecordsTypeOK
  <2>2. \A h \in Handlers : task[h].op \in FilingOps => task[h].filing \in Filings
    BY <1>1, RecordTask DEF FilingOps
  <2> QED  BY <1>2, <2>1, <2>2 DEF FilingInv, FilingOps
<1>3. ASSUME NEW f \in Filings, NEW r \in BOOLEAN, CreateFiling(f, r)  PROVE FilingInv'
  <2> DEFINE row == [status |-> "pending", dated |-> FALSE, receipt |-> r, given |-> r]
  <2>1. row.status = "pending" /\ row.given = r /\ row.receipt = r
    OBVIOUS
  <2>2. /\ filing' = [filing EXCEPT ![f] = row] /\ filing[f].status = "none"
        /\ task' = task
    BY <1>3 DEF CreateFiling
  <2> HIDE DEF row
  <2> QED  BY <1>2, <2>1, <2>2
<1>4. ASSUME NEW h \in Handlers, WriteFiling(h)  PROVE FilingInv'
  <2> DEFINE t == task[h]
             old == filing[t.filing]
  <2>1. t.op \in FilingOps /\ t.filing \in Filings
    BY <1>1, <1>4, RecordTask DEF WriteFiling, FilingOps
  <2>2. old \in FilingRow
    BY <1>1, <2>1 DEF RecordsTypeOK
  <2>3. \A x \in Handlers : task'[x] = task[x] \/ task'[x].op \notin FilingOps
    BY <1>1, <1>4 DEF WriteFiling, Done, Idle, TaskOK, FilingOps
  <2>4. CASE t.op = "file"
    <3> DEFINE row == [old EXCEPT !.status = "filed", !.dated = TRUE, !.receipt = t.receipt]
    <3>1. /\ row.status = "filed" /\ row.dated /\ row.given = old.given
          /\ row.receipt = t.receipt
      BY <2>2 DEF FilingRow
    <3>2. filing' = [filing EXCEPT ![t.filing] = row]
      BY <1>4, <2>4 DEF WriteFiling
    <3>3. old.given => t.receipt
      BY <2>4 DEF FilingInv
    <3> HIDE DEF row
    <3> QED  BY <1>2, <2>1, <2>3, <3>1, <3>2, <3>3
  <2>5. CASE t.op = "acceptFiling"
    <3> DEFINE row == [old EXCEPT !.status = "acknowledged"]
    <3>1. /\ row.status = "acknowledged" /\ row.dated = old.dated /\ row.given = old.given
          /\ row.receipt = old.receipt
      BY <2>2 DEF FilingRow
    <3>2. filing' = [filing EXCEPT ![t.filing] = row]
      BY <1>4, <2>5 DEF WriteFiling
    <3>3. old.dated /\ (old.given => old.receipt)
      BY <2>1, <2>5 DEF FilingInv
    <3> HIDE DEF row
    <3> QED  BY <1>2, <2>1, <2>3, <3>1, <3>2, <3>3
  <2> QED  BY <2>1, <2>4, <2>5 DEF FilingOps
<1>5. ASSUME NEW h \in Handlers, NEW f \in Filings, ReadFiled(h, f)  PROVE FilingInv'
  <2>1. /\ UNCHANGED filing /\ \A x \in Handlers \ {h} : task'[x] = task[x]
        /\ task'[h].op = "acceptFiling" /\ task'[h].filing = f /\ filing[f].status = "filed"
    BY <1>1, <1>5 DEF ReadFiled, Start, TaskOK, records
  <2> QED  BY <2>1 DEF FilingInv
<1>6. ASSUME NEW h \in Handlers, NEW f \in Filings, NEW r \in BOOLEAN, ReadFiling(h, f, r)
      PROVE  FilingInv'
  <2>1. /\ UNCHANGED filing /\ \A x \in Handlers \ {h} : task'[x] = task[x]
        /\ task'[h].op = "file" /\ task'[h].filing = f /\ filing[f].status = "pending"
        /\ task'[h].receipt = (r \/ filing[f].receipt)
    BY <1>1, <1>6 DEF ReadFiling, Start, TaskOK, records
  <2> QED  BY <2>1 DEF FilingInv
<1> QED  BY <1>3, <1>4, <1>5, <1>6 DEF FilingsNext

\* So does every step of another service.
LEMMA DocumentsElsewhere ==
  ASSUME CompanyTypeOK, ReviewInv, FilingInv, UNCHANGED <<review, filing>>,
         \A h \in Handlers :
           task'[h] = task[h] \/ task'[h].op \notin {"acceptReview", "file", "acceptFiling"}
  PROVE  ReviewInv' /\ FilingInv'
  BY DEF ReviewInv, FilingInv

\* Submitted and acknowledged reviews, filed and acknowledged filings are dated
\* and keep their receipt (submitPerformanceReview, fileFilingRecord), whoever
\* else works on the same row.
THEOREM EveryDocumentComplete == Spec => []DocumentsComplete
<1> DEFINE DocInv == ReviewInv /\ FilingInv
<1>1. Init => DocInv
  BY DEF Init, StaffInit, RecordsInit, ReviewInv, FilingInv, Idle
<1>2. CompanyTypeOK /\ DocInv /\ [Next]_companyVars => DocInv'
  <2> SUFFICES ASSUME CompanyTypeOK, DocInv, [Next]_companyVars  PROVE DocInv'
    OBVIOUS
  <2>1. TaskOK
    BY DEF CompanyTypeOK, TaskOK, Tasks
  <2>2. CASE UNCHANGED companyVars
    BY <2>2, DocumentsElsewhere DEF companyVars, records
  <2>3. CASE StaffNext /\ UNCHANGED records
    BY <2>1, <2>3, DocumentsElsewhere, StaffTasksOnly DEF OnlyTasks, StaffOps, records
  <2>4. CASE HiringNext(People) /\ UNCHANGED records
    BY <2>1, <2>4, DocumentsElsewhere, HiringTasksOnly DEF OnlyTasks, HiringOps, records
  <2>5. CASE AccessNext(People) /\ UNCHANGED records
    BY <2>1, <2>5, DocumentsElsewhere, AccessTasksOnly DEF OnlyTasks, AccessOps, records
  <2>6. CASE GoalsNext \/ PoliciesNext
    BY <2>1, <2>6, DocumentsElsewhere, GoalTasksOnly, PolicyTasksOnly DEF OnlyTasks, Reporting
  <2>7. CASE ReviewsNext
    <3>1. FilingInv'
      BY <2>1, <2>7, ReviewTasksOnly DEF FilingInv, OnlyTasks, ReviewOps
    <3> QED  BY <2>7, <3>1, ReviewStep
  <2>8. CASE FilingsNext
    <3>1. ReviewInv'
      BY <2>1, <2>8, FilingTasksOnly DEF ReviewInv, OnlyTasks, FilingOps
    <3> QED  BY <2>8, <3>1, FilingStep
  <2> QED  BY <2>2, <2>3, <2>4, <2>5, <2>6, <2>7, <2>8, Services
<1>3. DocInv => DocumentsComplete
  BY DEF ReviewInv, FilingInv, DocumentsComplete
<1> QED  BY <1>1, <1>2, <1>3, CompanyTypes, PTL DEF Spec

-----------------------------------------------------------------------------
\* What a report under way has counted: the active employees and those who
\* acknowledged, as they are now but for the people in `moved'; those listed are
\* none of those counted as having acknowledged.
CountedActive(h) ==
  \E A \in SUBSET People :
    task[h].active = Cardinality(A) /\ A \ moved[h] = Active \ moved[h]

CountedAcknowledged(h) ==
  \E K \in SUBSET People :
    /\ task[h].acked = Cardinality(K) /\ K \subseteq Acknowledging(task[h].policy)
    /\ K \ moved[h] = Acknowledging(task[h].policy) \ moved[h]

ListedPending(h) ==
  \E K, P \in SUBSET People :
    /\ task[h].acked = Cardinality(K) /\ task[h].pending = Cardinality(P)
    /\ K \intersect P = {}
    /\ K \ moved[h] = Acknowledging(task[h].policy) \ moved[h]
    /\ P \ moved[h] = (Active \ Acknowledging(task[h].policy)) \ moved[h]

ReportInv ==
  \A h \in Handlers :
    /\ task[h].op \in Reporting => CountedActive(h)
    /\ task[h].op = "listPending" => CountedAcknowledged(h)
    /\ task[h].op = "reported" => ListedPending(h)

\* Two numbers of at most m differ by at most m.
LEMMA DifferenceWithin ==
  ASSUME NEW x \in Nat, NEW y \in Nat, NEW z \in Nat, NEW a \in Nat, NEW k \in Nat, NEW p \in Nat,
         NEW m \in Nat, a <= m, k + p <= m
  PROVE  (x + a) - (y + k) - ((x - z + p) - (y - z)) \in -m..m
  OBVIOUS

\* The arithmetic of the report: outside M the two counts and the list are of
\* the same people, and in M each person counts once at most on either side.
LEMMA ReportSum ==
  ASSUME NEW A \in SUBSET People, NEW K \in SUBSET People, NEW P \in SUBSET People,
         NEW C \in SUBSET People, NEW N \in SUBSET People, NEW M \in SUBSET People,
         A \ M = C \ M, K \ M = N \ M, P \ M = (C \ N) \ M, K \intersect P = {}
  PROVE  Cardinality(A) - Cardinality(K) - (Cardinality(P) - Cardinality((N \ C) \ M))
           \in -Cardinality(M)..Cardinality(M)
<1> DEFINE X == C \ M  Y == N \ M
<1>1. ASSUME NEW S \in SUBSET People
      PROVE  IsFiniteSet(S) /\ Cardinality(S) \in Nat
  BY StaffAssumption, FS_Subset, FS_CardinalityType
<1>2. ASSUME NEW S \in SUBSET People
      PROVE  Cardinality(S) = Cardinality(S \ M) + Cardinality(S \intersect M)
  <2>1. Cardinality(S \ M) = Cardinality(S) - Cardinality(S \intersect M)
    BY <1>1, FS_Difference
  <2>2. Cardinality(S) \in Nat /\ Cardinality(S \intersect M) \in Nat
    BY <1>1
  <2> QED  BY <2>1, <2>2
<1>3. Cardinality(A \intersect M) <= Cardinality(M)
  BY <1>1, FS_Subset
<1>4. Cardinality(K \intersect M) + Cardinality(P \intersect M) <= Cardinality(M)
  <2> DEFINE KM == K \intersect M  PM == P \intersect M
  <2>1. KM \intersect PM = {} /\ IsFiniteSet(KM) /\ IsFiniteSet(PM) /\ IsFiniteSet(M)
    BY <1>1
  <2>2. Cardinality(KM \union PM) = Cardinality(KM) + Cardinality(PM) - 0
    <3>1. Cardinality(KM \union PM)
            = Cardinality(KM) + Cardinality(PM) - Cardinality(KM \intersect PM)
      BY <2>1, FS_Union
    <3> QED  BY <2>1, <3>1, FS_EmptySet
  <2>3. Cardinality(KM \union PM) <= Cardinality(M)
    BY <2>1, FS_Subset
  <2>4. Cardinality(KM) \in Nat /\ Cardinality(PM) \in Nat /\ Cardinality(M) \in Nat
    BY <1>1
  <2> QED  BY <2>2, <2>3, <2>4
<1>5. Cardinality(X \ Y) = Cardinality(X) - Cardinality(X \intersect Y)
  BY <1>1, FS_Difference
<1>6. Cardinality(Y \ X) = Cardinality(Y) - Cardinality(X \intersect Y)
  <2>1. Y \intersect X = X \intersect Y /\ IsFiniteSet(Y)
    BY <1>1
  <2>2. Cardinality(Y \ X) = Cardinality(Y) - Cardinality(Y \intersect X)
    BY <2>1, FS_Difference
  <2> QED  BY <2>1, <2>2
<1>7. P \ M = X \ Y /\ (N \ C) \ M = Y \ X
  OBVIOUS
<1>8. /\ Cardinality(A) = Cardinality(X) + Cardinality(A \intersect M)
      /\ Cardinality(K) = Cardinality(Y) + Cardinality(K \intersect M)
      /\ Cardinality(P) = Cardinality(X \ Y) + Cardinality(P \intersect M)
  BY <1>2, <1>7
<1>9. /\ Cardinality(A \intersect M) \in Nat /\ Cardinality(K \intersect M) \in Nat
      /\ Cardinality(P \intersect M) \in Nat /\ Cardinality(M) \in Nat
      /\ Cardinality(X) \in Nat /\ Cardinality(Y) \in Nat /\ Cardinality(X \intersect Y) \in Nat
  BY <1>1
<1>10. Cardinality((N \ C) \ M) = Cardinality(Y) - Cardinality(X \intersect Y)
  BY <1>6, <1>7
<1>11. Cardinality(P) = Cardinality(X) - Cardinality(X \intersect Y) + Cardinality(P \intersect M)
  BY <1>5, <1>8
<1> HIDE DEF X, Y
<1> QED  BY <1>3, <1>4, <1>8, <1>9, <1>10, <1>11, DifferenceWithin

\* An answer agrees with itself.
LEMMA ReportAgrees ==
  ASSUME CompanyTypeOK, ReportInv
  PROVE  ReportCountsAgree
<1> SUFFICES ASSUME NEW h \in Handlers, task[h].op = "reported"
             PROVE  PendingCount(task[h])
                      - (task[h].pending - Cardinality(Lapsed(task[h].policy) \ moved[h]))
                      \in -Cardinality(moved[h])..Cardinality(moved[h])
  BY DEF ReportCountsAgree
<1> DEFINE N == Acknowledging(task[h].policy)
<1>1. CountedActive(h) /\ ListedPending(h)
  BY DEF ReportInv, Reporting
<1>2. PICK A \in SUBSET People : task[h].active = Cardinality(A) /\ A \ moved[h] = Active \ moved[h]
  BY <1>1 DEF CountedActive
<1>3. PICK K \in SUBSET People, P \in SUBSET People :
        /\ task[h].acked = Cardinality(K) /\ task[h].pending = Cardinality(P)
        /\ K \intersect P = {} /\ K \ moved[h] = N \ moved[h]
        /\ P \ moved[h] = (Active \ N) \ moved[h]
  BY <1>1 DEF ListedPending
<1>4. N \in SUBSET People /\ Active \in SUBSET People /\ moved[h] \in SUBSET People
  BY DEF Acknowledging, Active, CompanyTypeOK
<1> HIDE DEF N
<1>5. Cardinality(A) - Cardinality(K) - (Cardinality(P) - Cardinality((N \ Active) \ moved[h]))
        \in -Cardinality(moved[h])..Cardinality(moved[h])
  BY <1>2, <1>3, <1>4, ReportSum
<1> QED  BY <1>2, <1>3, <1>5 DEF PendingCount, Lapsed, N

\* Acknowledgements are never taken back.
LEMMA AcknowledgedGrows ==
  ASSUME CompanyTypeOK, Next
  PROVE  acknowledged \subseteq acknowledged'
<1>1. TaskOK
  BY DEF CompanyTypeOK, TaskOK, Tasks
<1>2. CASE PoliciesNext
  BY <1>2 DEF PoliciesNext, AcknowledgePolicy, StartReport, CountAcknowledged, ListPending,
              AnswerReport, records
<1> QED  BY <1>1, <1>2, Services, GoalTasksOnly, ReviewTasksOnly, FilingTasksOnly DEF records

\* What a step does to what a report has counted: whoever it changes is in
\* `moved' after it.
LEMMA ReportFrame ==
  ASSUME CompanyTypeOK, Next, NEW h \in Handlers, task[h].op \in Reporting,
         task'[h].op \in Reporting, task'[h].policy = task[h].policy
  PROVE  /\ Active' \ moved'[h] = Active \ moved'[h]
         /\ Acknowledging(task[h].policy)' \ moved'[h] = Acknowledging(task[h].policy) \ moved'[h]
         /\ Acknowledging(task[h].policy) \subseteq Acknowledging(task[h].policy)'
         /\ moved[h] \subseteq moved'[h]
<1>1. task'[h] # Idle
  BY DEF Reporting, Idle
<1>2. task[h].policy \in Policies
  BY RecordTask DEF CompanyTypeOK, TaskOK, Tasks
<1>3. moved'[h] = moved[h] \union {p \in People :
                    \/ employee'[p] # employee[p]
                    \/ \E n \in Policies : <<p, n>> \in acknowledged' \ acknowledged}
  BY <1>1 DEF Next, NoteMoved
<1>4. Active' \ moved'[h] = Active \ moved'[h]
  BY <1>3 DEF Active
<1>5. Acknowledging(task[h].policy) \subseteq Acknowledging(task[h].policy)'
  BY AcknowledgedGrows DEF Acknowledging
<1>6. Acknowledging(task[h].policy)' \ moved'[h] = Acknowledging(task[h].policy) \ moved'[h]
  BY <1>2, <1>3, AcknowledgedGrows DEF Acknowledging
<1> QED  BY <1>3, <1>4, <1>5, <1>6

\* A report goes on with what it has counted.
LEMMA ReportGoesOn ==
  ASSUME CompanyTypeOK, ReportInv, Next, NEW h \in Handlers, task[h].op \in Reporting,
         task'[h].op \in Reporting, task'[h].policy = task[h].policy
  PROVE  /\ task'[h].active = task[h].active => CountedActive(h)'
         /\ task[h].op = "listPending" /\ task'[h].acked = task[h].acked => CountedAcknowledged(h)'
         /\ task[h].op = "reported" /\ task'[h].acked = task[h].acked
              /\ task'[h].pending = task[h].pending => ListedPending(h)'
<1> DEFINE N == Acknowledging(task[h].policy)  NN == Acknowledging(task[h].policy)'
           M == moved[h]  MM == moved'[h]  AA == Active'
<1>1. AA \ MM = Active \ MM /\ NN \ MM = N \ MM /\ N \subseteq NN /\ M \subseteq MM
  BY ReportFrame
<1>2. ASSUME task'[h].active = task[h].active  PROVE CountedActive(h)'
  <2>1. PICK A \in SUBSET People : task[h].active = Cardinality(A) /\ A \ M = Active \ M
    BY DEF ReportInv, CountedActive
  <2>2. A \ MM = AA \ MM
    BY <1>1, <2>1
  <2> QED  BY <1>2, <2>1, <2>2 DEF CountedActive
<1>3. ASSUME task[h].op = "listPending", task'[h].acked = task[h].acked
      PROVE  CountedAcknowledged(h)'
  <2>1. PICK K \in SUBSET People :
          task[h].acked = Cardinality(K) /\ K \subseteq N /\ K \ M = N \ M
    BY <1>3 DEF ReportInv, CountedAcknowledged
  <2>2. K \subseteq NN /\ K \ MM = NN \ MM
    BY <1>1, <2>1
  <2> QED  BY <1>3, <2>1, <2>2 DEF CountedAcknowledged
<1>4. ASSUME task[h].op = "reported", task'[h].acked = task[h].acked,
             task'[h].pending = task[h].pending
      PROVE  ListedPending(h)'
  <2>1. PICK K \in SUBSET People, P \in SUBSET People :
          /\ task[h].acked = Cardinality(K) /\ task[h].pending = Cardinality(P)
          /\ K \intersect P = {} /\ K \ M = N \ M /\ P \ M = (Active \ N) \ M
    BY <1>4 DEF ReportInv, ListedPending
  <2>2. K \ MM = NN \ MM /\ P \ MM = (AA \ NN) \ MM
    BY <1>1, <2>1
  <2> QED  BY <1>4, <2>1, <2>2 DEF ListedPending
<1> QED  BY <1>2, <1>3, <1>4

\* Every step of policies and their report keeps the invariant.
LEMMA ReportStep ==
  ASSUME CompanyTypeOK, ReportInv, Next, PoliciesNext, UNCHANGED employee
  PROVE  ReportInv'
<1>1. TaskOK
  BY DEF CompanyTypeOK, TaskOK, Tasks
<1>2. ASSUME NEW x \in Handlers, task'[x] = task[x]
      PROVE  /\ task'[x].op \in Reporting => CountedActive(x)'
             /\ task'[x].op = "listPending" => CountedAcknowledged(x)'
             /\ task'[x].op = "reported" => ListedPending(x)'
  BY <1>2, ReportGoesOn DEF Reporting
<1>3. ASSUME NEW h \in Handlers, \A x \in Handlers \ {h} : task'[x] = task[x],
             /\ task'[h].op \in Reporting => CountedActive(h)'
             /\ task'[h].op = "listPending" => CountedAcknowledged(h)'
             /\ task'[h].op = "reported" => ListedPending(h)'
      PROVE  ReportInv'
  BY <1>2, <1>3 DEF ReportInv
<1>4. ASSUME NEW p \in People, NEW n \in Policies, AcknowledgePolicy(p, n)  PROVE ReportInv'
  BY <1>2, <1>4 DEF AcknowledgePolicy, ReportInv
<1>5. ASSUME NEW h \in Handlers, NEW n \in Policies, StartReport(h, n)  PROVE ReportInv'
  <2> DEFINE t == [op |-> "countAcknowledged", policy |-> n, active |-> Cardinality(Active),
                   acked |-> 0, pending |-> 0]
  <2>1. task[h] = Idle /\ task' = [task EXCEPT ![h] = t]
    BY <1>5 DEF StartReport, Start
  <2>2. t.op = "countAcknowledged" /\ t.active = Cardinality(Active)
    OBVIOUS
  <2> HIDE DEF t
  <2>3. task'[h] = t /\ \A x \in Handlers \ {h} : task'[x] = task[x]
    BY <1>1, <2>1 DEF TaskOK
  <2>4. moved'[h] = {}
    BY <2>1 DEF Next, NoteMoved, Idle, Reporting
  <2>5. Active \in SUBSET People /\ t.active = Cardinality(Active) /\ UNCHANGED employee
    BY <2>2 DEF Active
  <2>6. CountedActive(h)'
    BY <2>3, <2>4, <2>5 DEF CountedActive, Active
  <2> QED  BY <1>3, <2>2, <2>3, <2>6
<1>6. ASSUME NEW h \in Handlers, CountAcknowledged(h)  PROVE ReportInv'
  <2> DEFINE n == task[h].policy  N == Acknowledging(n)
             t == [task[h] EXCEPT !.op = "listPending", !.acked = Cardinality(N)]
  <2>1. /\ task[h].op = "countAcknowledged" /\ task' = [task EXCEPT ![h] = t]
        /\ UNCHANGED acknowledged
    BY <1>6 DEF CountAcknowledged, Go, records
  <2>2. t.op = "listPending" /\ t.active = task[h].active /\ t.policy = n /\ t.acked = Cardinality(N)
    BY <1>1, <2>1, RecordTask DEF Reporting
  <2> HIDE DEF t
  <2>3. task'[h] = t /\ \A x \in Handlers \ {h} : task'[x] = task[x]
    BY <1>1, <2>1 DEF TaskOK
  <2>4. CountedActive(h)'
    BY <2>1, <2>2, <2>3, ReportGoesOn DEF Reporting
  <2>5. N \in SUBSET People /\ Acknowledging(task[h].policy)' = N
    BY <2>1, <2>2, <2>3 DEF Acknowledging
  <2>6. CountedAcknowledged(h)'
    BY <2>2, <2>3, <2>5 DEF CountedAcknowledged
  <2> QED  BY <1>3, <2>2, <2>3, <2>4, <2>6
<1>7. ASSUME NEW h \in Handlers, ListPending(h)  PROVE ReportInv'
  <2> DEFINE n == task[h].policy  N == Acknowledging(n)  P == Active \ N
             t == [task[h] EXCEPT !.op = "reported", !.pending = Cardinality(P)]
  <2>1. /\ task[h].op = "listPending" /\ task' = [task EXCEPT ![h] = t]
        /\ UNCHANGED <<acknowledged, employee>>
    BY <1>7 DEF ListPending, Go, records
  <2>2. /\ t.op = "reported" /\ t.active = task[h].active /\ t.policy = n
        /\ t.acked = task[h].acked /\ t.pending = Cardinality(P)
    BY <1>1, <2>1, RecordTask DEF Reporting
  <2> HIDE DEF t
  <2>3. task'[h] = t /\ \A x \in Handlers \ {h} : task'[x] = task[x]
    BY <1>1, <2>1 DEF TaskOK
  <2>4. CountedActive(h)' /\ moved[h] \subseteq moved'[h]
    BY <2>1, <2>2, <2>3, ReportGoesOn, ReportFrame DEF Reporting
  <2>5. P \in SUBSET People /\ Acknowledging(task[h].policy)' = N /\ Active' = Active
    BY <2>1, <2>2, <2>3 DEF Acknowledging, Active
  <2>6. PICK K \in SUBSET People :
          task[h].acked = Cardinality(K) /\ K \subseteq N /\ K \ moved[h] = N \ moved[h]
    BY <2>1 DEF ReportInv, CountedAcknowledged
  <2>7. K \intersect P = {} /\ K \ moved'[h] = N \ moved'[h]
    BY <2>4, <2>6
  <2>8. ListedPending(h)'
    BY <2>2, <2>3, <2>5, <2>6, <2>7 DEF ListedPending
  <2> QED  BY <1>3, <2>2, <2>3, <2>4, <2>8
<1>8. ASSUME NEW h \in Handlers, AnswerReport(h)  PROVE ReportInv'
  <2>1. task' = [task EXCEPT ![h] = Idle]
    BY <1>8 DEF AnswerReport, Done
  <2>2. task'[h].op = "idle" /\ \A x \in Handlers \ {h} : task'[x] = task[x]
    BY <1>1, <2>1 DEF TaskOK, Idle
  <2> QED  BY <1>3, <2>2 DEF Reporting
<1> QED  BY <1>4, <1>5, <1>6, <1>7, <1>8 DEF PoliciesNext

\* The pending count of a compliance report is the length of its list less
\* those who acknowledged and have left, up to one for everybody whose status or
\* acknowledgement was set between its statements (getPolicyComplianceReport).
THEOREM EveryReportAgrees == Spec => []ReportCountsAgree
<1>1. Init => ReportInv
  BY DEF Init, StaffInit, RecordsInit, ReportInv, Reporting, Idle
<1>2. CompanyTypeOK /\ ReportInv /\ [Next]_companyVars => ReportInv'
  <2> SUFFICES ASSUME CompanyTypeOK, ReportInv, [Next]_companyVars  PROVE ReportInv'
    OBVIOUS
  <2>1. TaskOK
    BY DEF CompanyTypeOK, TaskOK, Tasks
  <2>2. CASE UNCHANGED companyVars
    BY <2>2 DEF companyVars, staff, records, ReportInv, CountedActive, CountedAcknowledged,
                ListedPending, Active, Acknowledging
  <2>3. CASE Next /\ \A h \in Handlers : task'[h] = task[h] \/ task'[h].op \notin Reporting
    BY <2>3, ReportGoesOn DEF ReportInv, Reporting
  <2>4. CASE /\ Next
             /\ StaffNext \/ HiringNext(People) \/ AccessNext(People)
                  \/ GoalsNext \/ ReviewsNext \/ FilingsNext
    <3>1. OnlyTasks(StaffOps) \/ OnlyTasks(HiringOps) \/ OnlyTasks(AccessOps)
            \/ OnlyTasks({"progress"}) \/ OnlyTasks(ReviewOps) \/ OnlyTasks(FilingOps)
      BY <2>1, <2>4, StaffTasksOnly, HiringTasksOnly, AccessTasksOnly, GoalTasksOnly,
         ReviewTasksOnly, FilingTasksOnly
    <3>2. \A h \in Handlers : task'[h] = task[h] \/ task'[h].op \notin Reporting
      BY <3>1 DEF OnlyTasks, StaffOps, HiringOps, AccessOps, ReviewOps, FilingOps, Reporting
    <3> QED  BY <2>3, <2>4, <3>2
  <2>5. CASE Next /\ PoliciesNext /\ UNCHANGED staff
    BY <2>5, ReportStep DEF staff
  <2> QED  BY <2>2, <2>4, <2>5, Services
<1>3. CompanyTypeOK /\ ReportInv => ReportCountsAgree
  BY ReportAgrees
<1> QED  BY <1>1, <1>2, <1>3, CompanyTypes, PTL DEF Spec

-----------------------------------------------------------------------------
(***************************************************************************)
(* Every role has the permissions of its last seed, or is to get them.     *)
(***************************************************************************)

\* A deletion under way is of a role that is there and no system role.
DeletionsOpen ==
  \A h \in Handlers : task[h].op = "deleteRole" => task[h].role \in roles \ system

\* A seed has its role still to do, holds roles that are there, and a role it has emptied has nothing or
\* all another seed has given it since.
Seeds ==
  \A h \in Handlers : task[h].op \in {"empty", "fill"} =>
    /\ task[h].role \in task[h].left /\ task[h].held \subseteq roles
    /\ task[h].op = "fill" /\ Holds(h) =>
         task[h].role \in touched \/ grants[task[h].role] \in {{}, Default[task[h].role]}

NoGrantsWithoutRow == \A r \in Roles \ roles : grants[r] = {}

AsSeeded(r) ==
  r \in touched \/ grants[r] = Expected(r) \/ (grants[r] = {} /\ (r \in broken \/ BeingSeeded(r)))

SystemStays == SystemRoles \subseteq roles \intersect system

AccessInv ==
  SystemStays /\ DeletionsOpen /\ Seeds /\ NoGrantsWithoutRow /\ \A r \in roles : AsSeeded(r)

\* A step that keeps the roles and the seeds, and begins a deletion at most.
LEMMA AccessElsewhere ==
  ASSUME AccessInv, UNCHANGED <<roles, system, grants, seeded, touched, broken>>,
         \A h \in Handlers :
           \/ task'[h] = task[h]
           \/ /\ task[h].op \notin {"empty", "fill"} /\ task'[h].op \notin {"empty", "fill"}
              /\ task'[h].op = "deleteRole" => task'[h].role \in roles \ system
  PROVE  AccessInv'
<1>1. DeletionsOpen'
  BY DEF AccessInv, DeletionsOpen
<1>2. Seeds'
  BY DEF AccessInv, Seeds, Holds
<1>3. ASSUME NEW r \in roles  PROVE AsSeeded(r)'
  <2>1. BeingSeeded(r) => BeingSeeded(r)'
    BY DEF BeingSeeded
  <2> QED  BY <2>1 DEF AccessInv, AsSeeded, Expected
<1> QED  BY <1>1, <1>2, <1>3 DEF AccessInv, SystemStays, NoGrantsWithoutRow

\* A step of a seed, on the role in hand.
LEMMA SeedStep ==
  ASSUME CompanyTypeOK, AccessInv, NEW h \in Handlers,
         EmptyRole(h) \/ FillRole(h) \/ FailSeed(h)
  PROVE  AccessInv'
<1>1. TaskOK /\ AccessTypeOK
  BY DEF CompanyTypeOK, TaskOK, Tasks
<1> USE <1>1
<1> DEFINE t == task[h]
<1>2. /\ t.op \in {"empty", "fill"} /\ t.role \in SeedRoles
      /\ t.left \in SUBSET SeedRoles /\ t.held \in SUBSET SeedRoles
      /\ t \in [op: {"empty", "fill"}, role: SeedRoles, left: SUBSET SeedRoles, held: SUBSET SeedRoles]
  BY SeedTask DEF EmptyRole, FillRole, FailSeed
<1>3. t.role \in t.left /\ t.held \subseteq roles
  BY <1>2 DEF AccessInv, Seeds
<1> PICK r \in SeedRoles : r = t.role
  BY <1>2
<1>4. r \in Roles
  BY AccessAssumption
<1>5. CASE EndEarly(h)
  <2>1. /\ task' = [task EXCEPT ![h] = Idle] /\ broken' = broken \union {x \in t.left : grants[x] = {}}
        /\ UNCHANGED <<roles, system, grants, seeded, touched>>
    BY <1>5 DEF EndEarly, Done
  <2>2. task'[h].op = "idle" /\ \A x \in Handlers \ {h} : task'[x] = task[x]
    BY <2>1 DEF TaskOK, Idle
  <2>3. DeletionsOpen' /\ Seeds' /\ NoGrantsWithoutRow' /\ SystemStays'
    BY <2>1, <2>2 DEF AccessInv, DeletionsOpen, Seeds, Holds, NoGrantsWithoutRow, SystemStays
  <2>4. ASSUME NEW q \in roles, grants[q] = {}, BeingSeeded(q)  PROVE q \in broken' \/ BeingSeeded(q)'
    BY <2>1, <2>2, <2>4 DEF BeingSeeded
  <2>5. ASSUME NEW q \in roles  PROVE AsSeeded(q)'
    BY <2>1, <2>4 DEF AccessInv, AsSeeded, Expected
  <2> QED  BY <2>1, <2>3, <2>5 DEF AccessInv
<1>6. CASE EmptyRole(h)
  <2> DEFINE u == [t EXCEPT !.op = "fill"]
  <2>1. /\ u.op = "fill" /\ u.role = r /\ u.left = t.left /\ u.held = t.held
    BY <1>2
  <2>2. /\ task' = [task EXCEPT ![h] = u] /\ UNCHANGED <<roles, system, seeded, touched, broken>>
        /\ grants' = IF Holds(h) THEN [grants EXCEPT ![r] = {}] ELSE grants
    BY <1>6 DEF EmptyRole, Go
  <2> HIDE DEF u
  <2>3. task'[h] = u /\ \A x \in Handlers \ {h} : task'[x] = task[x]
    BY <2>2 DEF TaskOK
  <2>4. \A q \in Roles \ {r} : grants'[q] = grants[q]
    BY <2>2 DEF AccessTypeOK
  <2>5. IF Holds(h) THEN grants'[r] = {} ELSE grants'[r] = grants[r]
    BY <1>4, <2>2 DEF AccessTypeOK
  <2>6. DeletionsOpen' /\ SystemStays'
    BY <2>1, <2>2, <2>3 DEF AccessInv, DeletionsOpen, SystemStays
  <2>7. NoGrantsWithoutRow'
    BY <2>2, <2>4, <2>5 DEF AccessInv, NoGrantsWithoutRow
  <2>8. Seeds'
    <3> SUFFICES ASSUME NEW x \in Handlers, task'[x].op \in {"empty", "fill"}
                 PROVE  /\ task'[x].role \in task'[x].left /\ task'[x].held \subseteq roles'
                        /\ task'[x].op = "fill" /\ Holds(x)' =>
                             \/ task'[x].role \in touched'
                             \/ grants'[task'[x].role] \in {{}, Default[task'[x].role]}
      BY DEF Seeds
    <3>1. CASE x = h
      BY <1>3, <2>1, <2>2, <2>3, <2>5, <3>1 DEF Holds
    <3>2. CASE x # h
      <4>1. task'[x] = task[x]
        BY <2>3, <3>2
      <4>2. task[x].role \in Roles
        BY <4>1, SeedTask, AccessAssumption
      <4>3. grants'[task[x].role] = {} \/ grants'[task[x].role] = grants[task[x].role]
        BY <2>4, <2>5, <4>2
      <4> QED  BY <2>2, <4>1, <4>3 DEF AccessInv, Seeds, Holds
    <3> QED  BY <3>1, <3>2
  <2>9. \A q \in roles : BeingSeeded(q) => BeingSeeded(q)'
    BY <2>1, <2>3 DEF BeingSeeded
  <2>10. ASSUME NEW q \in roles  PROVE AsSeeded(q)'
    <3>1. CASE grants'[q] = grants[q]
      BY <2>2, <2>9, <3>1 DEF AccessInv, AsSeeded, Expected
    <3>2. CASE grants'[q] # grants[q]
      <4>1. q = r
        <5>1. q \in Roles
          BY DEF AccessTypeOK
        <5> QED  BY <2>4, <3>2, <5>1
      <4>2. Holds(h) /\ grants'[q] = {}
        BY <2>5, <3>2, <4>1
      <4>3. BeingSeeded(q)'
        BY <1>3, <2>1, <2>3, <4>1, <4>2 DEF BeingSeeded, Holds
      <4> QED  BY <4>2, <4>3 DEF AsSeeded
    <3> QED  BY <3>1, <3>2
  <2> QED  BY <2>2, <2>6, <2>7, <2>8, <2>10 DEF AccessInv
<1>7. CASE FillRole(h) /\ ~EndEarly(h)
  <2> DEFINE rest == t.left \ {r}
             u == [t EXCEPT !.op = "empty", !.role = Order(rest), !.left = rest]
  <2>1. /\ t.op = "fill" /\ Holds(h) /\ grants[r] \intersect Default[r] = {}
        /\ grants' = [grants EXCEPT ![r] = @ \union Default[r]]
        /\ seeded' = seeded \union {r} /\ broken' = broken \ {r}
        /\ touched' = IF grants[r] = {} THEN touched \ {r} ELSE touched
        /\ UNCHANGED <<roles, system>>
    BY <1>7 DEF FillRole
  <2>2. task' = [task EXCEPT ![h] = IF rest = {} THEN Idle ELSE u]
    BY <1>7 DEF FillRole, Go, Done
  <2>3. u.op = "empty" /\ u.role = Order(rest) /\ u.left = rest /\ u.held = t.held
    BY <1>2
  <2>4. rest # {} => Order(rest) \in rest
    BY DEF Order
  <2> HIDE DEF u
  <2>5. /\ task'[h] = IF rest = {} THEN Idle ELSE u
        /\ \A x \in Handlers \ {h} : task'[x] = task[x]
    BY <2>2 DEF TaskOK
  <2>6. r \in roles /\ r \in t.held
    BY <1>3, <2>1 DEF Holds
  <2>7. /\ grants'[r] = grants[r] \union Default[r]
        /\ \A q \in Roles \ {r} : grants'[q] = grants[q]
    BY <1>4, <2>1 DEF AccessTypeOK
  <2>8. r \in touched \/ grants[r] = {}
    BY <1>2, <2>1 DEF AccessInv, Seeds
  <2>9. DeletionsOpen' /\ SystemStays'
    BY <2>1, <2>3, <2>5 DEF AccessInv, DeletionsOpen, SystemStays, Idle
  <2>10. NoGrantsWithoutRow'
    BY <2>1, <2>6, <2>7 DEF AccessInv, NoGrantsWithoutRow
  <2>11. r \in touched' \/ grants'[r] = Default[r]
    BY <2>1, <2>7, <2>8
  <2>12. Seeds'
    <3> SUFFICES ASSUME NEW x \in Handlers, task'[x].op \in {"empty", "fill"}
                 PROVE  /\ task'[x].role \in task'[x].left /\ task'[x].held \subseteq roles'
                        /\ task'[x].op = "fill" /\ Holds(x)' =>
                             \/ task'[x].role \in touched'
                             \/ grants'[task'[x].role] \in {{}, Default[task'[x].role]}
      BY DEF Seeds
    <3>1. CASE x = h
      BY <1>3, <2>1, <2>3, <2>4, <2>5, <3>1 DEF Idle
    <3>2. CASE x # h
      <4>1. task'[x] = task[x]
        BY <2>5, <3>2
      <4>2. task[x].role \in Roles
        BY <4>1, SeedTask, AccessAssumption
      <4>3. CASE task[x].role = r
        BY <2>1, <2>11, <4>1, <4>3 DEF AccessInv, Seeds
      <4>4. CASE task[x].role # r
        BY <2>1, <2>7, <4>1, <4>2, <4>4 DEF AccessInv, Seeds, Holds
      <4> QED  BY <4>3, <4>4
    <3> QED  BY <3>1, <3>2
  <2>13. ASSUME NEW q \in roles, q # r, BeingSeeded(q)  PROVE BeingSeeded(q)'
    <3>1. PICK x \in Handlers :
            task[x].op \in {"empty", "fill"} /\ q \in task[x].left \intersect task[x].held
      BY <2>13 DEF BeingSeeded
    <3>2. CASE x = h
      BY <2>3, <2>5, <2>13, <3>1, <3>2 DEF BeingSeeded
    <3>3. CASE x # h
      BY <2>5, <3>1, <3>3 DEF BeingSeeded
    <3> QED  BY <3>2, <3>3
  <2>14. ASSUME NEW q \in roles  PROVE AsSeeded(q)'
    <3>1. CASE q = r
      BY <2>1, <2>11, <3>1 DEF AsSeeded, Expected
    <3>2. CASE q # r
      <4>1. /\ grants'[q] = grants[q] /\ (q \in touched' <=> q \in touched)
            /\ (q \in seeded' <=> q \in seeded) /\ (q \in broken' <=> q \in broken)
        BY <2>1, <2>7, <3>2 DEF AccessTypeOK
      <4> QED  BY <2>13, <3>2, <4>1 DEF AccessInv, AsSeeded, Expected
    <3> QED  BY <3>1, <3>2
  <2> QED  BY <2>1, <2>9, <2>10, <2>12, <2>14 DEF AccessInv
<1> QED  BY <1>5, <1>6, <1>7 DEF FailSeed

\* Giving a role permissions by hand, one that is there or a new one.
LEMMA HandStep ==
  ASSUME CompanyTypeOK, AccessInv, NEW r \in Roles, NEW G \in SUBSET Permissions,
         grants' = [grants EXCEPT ![r] = G], touched' = touched \union {r},
         roles' = roles \union {r}, UNCHANGED <<seeded, broken, task>>,
         system' = system \/ (r \notin roles /\ system' = system \union {r})
  PROVE  AccessInv'
<1>1. TaskOK /\ AccessTypeOK
  BY DEF CompanyTypeOK, TaskOK, Tasks
<1> USE <1>1
<1>2. \A q \in Roles \ {r} : grants'[q] = grants[q]
  BY DEF AccessTypeOK
<1>3. DeletionsOpen' /\ SystemStays'
  BY DEF AccessInv, DeletionsOpen, SystemStays
<1>4. NoGrantsWithoutRow'
  BY <1>2 DEF AccessInv, NoGrantsWithoutRow
<1>5. Seeds'
  <2> SUFFICES ASSUME NEW x \in Handlers, task[x].op \in {"empty", "fill"}
               PROVE  /\ task[x].role \in task[x].left /\ task[x].held \subseteq roles'
                      /\ task[x].op = "fill" /\ Holds(x) =>
                           \/ task[x].role \in touched'
                           \/ grants'[task[x].role] \in {{}, Default[task[x].role]}
    BY DEF Seeds, Holds
  <2>1. task[x].role \in Roles
    BY SeedTask, AccessAssumption
  <2> QED  BY <1>2, <2>1 DEF AccessInv, Seeds, Holds
<1>6. ASSUME NEW q \in roles'  PROVE AsSeeded(q)'
  <2>1. CASE q = r
    BY <2>1 DEF AsSeeded
  <2>2. CASE q # r
    <3>1. grants'[q] = grants[q] /\ q \in roles
      BY <1>2, <2>2 DEF AccessTypeOK
    <3>2. BeingSeeded(q) => BeingSeeded(q)'
      BY DEF BeingSeeded
    <3> QED  BY <3>1, <3>2 DEF AccessInv, AsSeeded, Expected
  <2> QED  BY <2>1, <2>2
<1> QED  BY <1>3, <1>4, <1>5, <1>6 DEF AccessInv

\* A deletion, of a role the seeds hold no more.
LEMMA DeletionStep ==
  ASSUME CompanyTypeOK, AccessInv, NEW h \in Handlers, DeleteRole(h)
  PROVE  AccessInv'
<1>1. TaskOK /\ AccessTypeOK
  BY DEF CompanyTypeOK, TaskOK, Tasks
<1> USE <1>1
<1> DEFINE r == task[h].role
<1>2. /\ task[h].op = "deleteRole" /\ r \in Roles /\ r \in roles \ system
      /\ roles' = roles \ {r} /\ system' = system \ {r}
      /\ grants' = [grants EXCEPT ![r] = {}] /\ UNCHANGED <<seeded, touched, broken>>
  BY DeletionTask DEF DeleteRole, AccessInv, DeletionsOpen
<1>3. \A q \in Roles \ {r} : grants'[q] = grants[q]
  BY <1>2 DEF AccessTypeOK
<1>4. ASSUME NEW x \in Handlers, task[x].op = "deleteRole"
      PROVE  task'[x] = IF task[x].role = r THEN Idle ELSE task[x]
  <2>1. task[x] \in [op: {"deleteRole"}, role: Roles] /\ task[h] \in [op: {"deleteRole"}, role: Roles]
    BY <1>2, <1>4, DeletionTask
  <2>2. task[x] = task[h] <=> task[x].role = r
    BY <2>1
  <2> QED  BY <1>4, <2>2 DEF DeleteRole
<1>5. ASSUME NEW x \in Handlers, task[x].op \in {"empty", "fill"}
      PROVE  /\ task'[x].op = task[x].op /\ task'[x].role = task[x].role
             /\ task'[x].left = task[x].left /\ task'[x].held = task[x].held \ {r}
  <2>1. task[x] \in [op: {"empty", "fill"}, role: SeedRoles, left: SUBSET SeedRoles,
                     held: SUBSET SeedRoles]
    BY <1>5, SeedTask
  <2>2. task'[x] = [task[x] EXCEPT !.held = @ \ {r}]
    BY <1>2, <1>5 DEF DeleteRole
  <2> QED  BY <2>1, <2>2
<1>6. ASSUME NEW x \in Handlers, task[x].op \notin {"empty", "fill", "deleteRole"}
      PROVE  task'[x] \in {task[x], Idle}
  BY <1>6 DEF DeleteRole
<1> HIDE DEF r
<1>7. DeletionsOpen'
  BY <1>2, <1>4, <1>5, <1>6 DEF AccessInv, DeletionsOpen, Idle
<1>8. SystemStays'
  BY <1>2 DEF AccessInv, SystemStays
<1>9. NoGrantsWithoutRow'
  BY <1>2, <1>3 DEF AccessInv, NoGrantsWithoutRow, AccessTypeOK
<1>10. \A x \in Handlers : task'[x].op \in {"empty", "fill"} => task[x].op \in {"empty", "fill"}
  BY <1>4, <1>6 DEF Idle
<1>11. Seeds'
  <2> SUFFICES ASSUME NEW x \in Handlers, task'[x].op \in {"empty", "fill"}
               PROVE  /\ task'[x].role \in task'[x].left /\ task'[x].held \subseteq roles'
                      /\ task'[x].op = "fill" /\ Holds(x)' =>
                           \/ task'[x].role \in touched'
                           \/ grants'[task'[x].role] \in {{}, Default[task'[x].role]}
    BY DEF Seeds
  <2>1. task[x].op \in {"empty", "fill"} /\ task[x].role \in Roles
    BY <1>10, SeedTask, AccessAssumption
  <2>2. Holds(x)' => Holds(x) /\ task[x].role # r
    BY <1>5, <2>1 DEF Holds
  <2> QED  BY <1>2, <1>3, <1>5, <2>1, <2>2 DEF AccessInv, Seeds
<1>12. ASSUME NEW q \in roles'  PROVE AsSeeded(q)'
  <2>1. q # r /\ q \in roles /\ grants'[q] = grants[q]
    BY <1>2, <1>3 DEF AccessTypeOK
  <2>2. BeingSeeded(q) => BeingSeeded(q)'
    BY <1>5, <2>1 DEF BeingSeeded
  <2> QED  BY <1>2, <2>1, <2>2 DEF AccessInv, AsSeeded, Expected
<1> QED  BY <1>7, <1>8, <1>9, <1>11, <1>12 DEF AccessInv

\* The roles a seed looks up, and creates.
LEMMA LookUpStep ==
  ASSUME CompanyTypeOK, AccessInv, NEW h \in Handlers, StartSeed(h)
  PROVE  AccessInv'
<1>1. TaskOK /\ AccessTypeOK
  BY DEF CompanyTypeOK, TaskOK, Tasks
<1> USE <1>1
<1> DEFINE new == SeedRoles \ roles
           t == [op |-> "empty", role |-> Order(SeedRoles), left |-> SeedRoles, held |-> SeedRoles]
<1>2. /\ task[h] = Idle /\ task' = [task EXCEPT ![h] = t]
      /\ roles' = roles \union new /\ system' = system \union new /\ touched' = touched \ new
      /\ UNCHANGED <<grants, seeded, broken>>
  BY DEF StartSeed, Start
<1>3. t.op = "empty" /\ t.role \in SeedRoles /\ t.left = SeedRoles /\ t.held = SeedRoles
  BY AccessAssumption DEF Order
<1> HIDE DEF t
<1>4. task'[h] = t /\ \A x \in Handlers \ {h} : task'[x] = task[x]
  BY <1>2 DEF TaskOK
<1>5. DeletionsOpen' /\ SystemStays' /\ NoGrantsWithoutRow'
  BY <1>2, <1>3, <1>4 DEF AccessInv, DeletionsOpen, SystemStays, NoGrantsWithoutRow
<1>6. Seeds'
  <2>1. \A x \in Handlers \ {h} : task[x].op = "fill" /\ Holds(x) /\ task[x].op \in {"empty", "fill"}
          => task[x].role \notin new
    BY DEF AccessInv, Seeds, Holds
  <2> QED  BY <1>2, <1>3, <1>4, <2>1 DEF AccessInv, Seeds, Holds
<1>7. ASSUME NEW q \in roles'  PROVE AsSeeded(q)'
  <2>1. CASE q \in new
    <3>1. BeingSeeded(q)'
      BY <1>3, <1>4, <2>1 DEF BeingSeeded
    <3>2. grants'[q] = {}
      BY <1>2, <2>1, AccessAssumption DEF AccessInv, NoGrantsWithoutRow
    <3> QED  BY <3>1, <3>2 DEF AsSeeded
  <2>2. CASE q \in roles
    <3>1. BeingSeeded(q) => BeingSeeded(q)'
      BY <1>2, <1>4 DEF BeingSeeded, Idle
    <3> QED  BY <1>2, <2>2, <3>1 DEF AccessInv, AsSeeded, Expected
  <2> QED  BY <1>2, <2>1, <2>2
<1> QED  BY <1>5, <1>6, <1>7 DEF AccessInv

\* Every step of roles and permissions keeps the invariant.
LEMMA AccessStep ==
  ASSUME CompanyTypeOK, AccessInv, AccessNext(People)
  PROVE  AccessInv'
<1>1. TaskOK /\ AccessTypeOK
  BY DEF CompanyTypeOK, TaskOK, Tasks
<1> USE <1>1
<1>2. ASSUME NEW r \in Roles, NEW G \in Chosen, NEW s \in BOOLEAN, CreateRole(r, G, s)
      PROVE  AccessInv'
  BY <1>2, HandStep, AccessAssumption DEF CreateRole
<1>3. ASSUME NEW r \in Roles, NEW G \in Chosen, UpdateRole(r, G) \/ AssignPermissions(r, G)
      PROVE  AccessInv'
  <2>1. r \in roles /\ SetGrants(r, G)
    BY <1>3 DEF UpdateRole, MayModify, AssignPermissions
  <2>2. roles' = roles \union {r}
    BY <2>1 DEF SetGrants
  <2> QED  BY <2>1, <2>2, HandStep, AccessAssumption DEF SetGrants
<1>4. ASSUME NEW p \in People, NEW r \in Roles \union {None}, AssignRole(p, r)  PROVE AccessInv'
  BY <1>4, AccessElsewhere DEF AssignRole
<1>5. ASSUME NEW p \in People, SignIn(p) \/ TokenEnds(p)  PROVE AccessInv'
  BY <1>5, AccessElsewhere DEF SignIn, TokenEnds
<1>6. ASSUME NEW h \in Handlers, NEW r \in Roles, CountUsers(h, r)  PROVE AccessInv'
  <2>1. /\ task[h] = Idle /\ task' = [task EXCEPT ![h] = [op |-> "deleteRole", role |-> r]]
        /\ r \in roles \ system /\ UNCHANGED <<roles, system, grants, seeded, touched, broken>>
    BY <1>6 DEF CountUsers, MayModify, Start, rbac
  <2>2. \A x \in Handlers :
           \/ task'[x] = task[x]
           \/ /\ task[x].op \notin {"empty", "fill"} /\ task'[x].op \notin {"empty", "fill"}
              /\ task'[x].op = "deleteRole" => task'[x].role \in roles \ system
    BY <2>1 DEF Idle, TaskOK
  <2> QED  BY <2>1, <2>2, AccessElsewhere
<1> QED
  BY <1>2, <1>3, <1>4, <1>5, <1>6, SeedStep, DeletionStep, LookUpStep DEF AccessNext

\* The invariant of the roles.
LEMMA AccessAlways == Spec => []AccessInv
<1>1. Init => AccessInv
  BY AccessAssumption
  DEF Init, StaffInit, AccessInit, AccessInv, SystemStays, DeletionsOpen, Seeds, NoGrantsWithoutRow,
      AsSeeded, Expected, Idle
<1>2. CompanyTypeOK /\ AccessInv /\ [Next]_companyVars => AccessInv'
  <2> SUFFICES ASSUME CompanyTypeOK, AccessInv, [Next]_companyVars  PROVE AccessInv'
    OBVIOUS
  <2>1. TaskOK
    BY DEF CompanyTypeOK, TaskOK, Tasks
  <2>2. CASE UNCHANGED companyVars
    BY <2>1, <2>2, AccessElsewhere DEF companyVars, rbac
  <2>3. CASE StaffNext /\ UNCHANGED rbac
    BY <2>1, <2>3, AccessElsewhere, StaffTasksOnly DEF OnlyTasks, StaffOps, rbac
  <2>4. CASE HiringNext(People) /\ UNCHANGED rbac
    BY <2>1, <2>4, AccessElsewhere, HiringTasksOnly DEF OnlyTasks, HiringOps, rbac
  <2>5. CASE (GoalsNext \/ ReviewsNext \/ FilingsNext \/ PoliciesNext) /\ UNCHANGED rbac
    BY <2>1, <2>5, AccessElsewhere, RecordTasksOnly
    DEF OnlyTasks, RecordOps, ReviewOps, FilingOps, Reporting, rbac
  <2> QED  BY <2>2, <2>3, <2>4, <2>5, AccessStep, Services
<1> QED  BY <1>1, <1>2, CompanyTypes, PTL DEF Spec

\* The roles of prisma/seed.ts stay system roles, and every role has exactly the
\* permissions of its last seed or is to get them (seedDefaultRolesAndPermissions),
\* however many seeds and deletions overlap and wherever one of them fails, but
\* for those given permissions by hand since.
THEOREM SystemRolesStayIntact == Spec => []SystemRolesIntact
<1>1. AccessInv => SystemRolesIntact
  BY DEF AccessInv, SystemRolesIntact, SystemStays, AsSeeded
<1> QED  BY <1>1, AccessAlways, PTL

\* An administrator who is signed in may run the seed again after one that
\* failed (jwt-auth.guard.ts), unless the role was given other permissions.
THEOREM AdminMayAlwaysReseed == Spec => []AdminMayReseed
<1>1. CompanyTypeOK /\ AccessInv => AdminMayReseed
  <2> SUFFICES ASSUME CompanyTypeOK, AccessInv, NEW p \in People, roleOf[p] = Admin,
                      Admin \notin touched, token[p] # None, Reseed \in token[p]
               PROVE  Reseed \in Allowed(p)
    BY DEF AdminMayReseed
  <2>1. Admin # None /\ Admin \in roles /\ seeded \subseteq SeedRoles
    BY AccessAssumption DEF AccessInv, SystemStays, CompanyTypeOK, AccessTypeOK
  <2>2. Expected(Admin) = Permissions
    BY <2>1, AccessAssumption DEF Expected
  <2>3. RoleGrants(p) \in {{}, Permissions}
    BY <2>1, <2>2 DEF RoleGrants, AccessInv, AsSeeded
  <2> QED  BY <2>3, AccessAssumption DEF Allowed
<1> QED  BY <1>1, AccessAlways, CompanyTypes, PTL
=============================================================================
