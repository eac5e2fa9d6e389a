-------------------------------- MODULE Routes --------------------------------
(***************************************************************************)
(* The HTTP interface of the backend: which of the seeded roles a route    *)
(* admits, after prisma/seed.ts and after POST /rbac/seed, the tables an   *)
(* answer is computed from and the tables a write changes. A table joined  *)
(* only for the names it adds is left out.                                 *)
(***************************************************************************)

\* The roles of prisma/seed.ts, and two of POST /rbac/seed: hr, which only it
\* makes, and basic, which is the role employee as it leaves it.
Roles == {"admin", "hr_manager", "manager", "employee", "hr", "basic"}

NameOf == [r \in Roles |-> IF r = "basic" THEN "employee" ELSE r]

CRUD == {"read", "create", "update", "delete"}

\* The permissions prisma/seed.ts creates, by resource.
Actions == [
  users |-> CRUD, roles |-> CRUD, employees |-> CRUD, departments |-> CRUD,
  attendance |-> CRUD, leave |-> {"read", "create", "approve", "manage"},
  analytics |-> {"read"}, payroll |-> CRUD \union {"manage"}]

Whole(resources) == UNION {{r} \X Actions[r] : r \in resources}

\* The permissions the seeds give each role; both give an admin all there are.
Granted == [
  admin |-> Whole(DOMAIN Actions),
  hr_manager |->
    Whole({"employees", "attendance", "leave", "departments", "users", "analytics"}),
  manager |->
    ({"attendance"} \X {"read", "create", "update"})
    \union ({"leave"} \X {"read", "create", "approve"})
    \union ({"employees", "departments", "analytics"} \X {"read"}),
  employee |->
    ({"attendance", "leave"} \X {"read", "create"})
    \union ({"employees", "departments"} \X {"read"}),
  hr |-> Whole({"employees", "attendance", "leave", "departments"}),
  basic |-> ({"employees", "attendance", "leave"} \X {"read"}) \union {<<"leave", "create">>}]

\* @Permissions: the permission is in the token.
May(resource, action) == {r \in Roles : <<resource, action>> \in Granted[r]}

\* @Roles: the role has one of these names.
Named(names) == {r \in Roles : NameOf[r] \in names}

SignedIn == Roles
Office == Named({"admin", "hr"})
Leads == Named({"admin", "hr", "manager"})

Get(by, tables) == [by |-> by, reads |-> tables, writes |-> {}]
Put(by, tables) == [by |-> by, reads |-> {}, writes |-> tables]

-----------------------------------------------------------------------------
EmployeeList == {"employee"}
EmployeeRow == {"employee"}
EmployeeTree == {"employee", "department"}

EmployeesController == [
  create |-> Put(May("employees", "create"), {"employee"}),
  findAll |-> Get(May("employees", "read"), EmployeeList),
  getStatistics |-> Get(May("employees", "read"), EmployeeTree),
  getCompanyHierarchy |-> Get(May("employees", "read"), EmployeeTree),
  findOne |-> Get(May("employees", "read"), EmployeeRow),
  getTeamMembers |-> Get(May("employees", "read"), EmployeeTree),
  update |-> Put(May("employees", "update"), {"employee"}),
  remove |-> Put(May("employees", "delete"), {"employee", "user"})]

\* With the number of members, or the members.
DepartmentRows == {"department", "employee"}

DepartmentsController == [
  create |-> Put(May("departments", "create"), {"department"}),
  findAll |-> Get(May("departments", "read"), DepartmentRows),
  findOne |-> Get(May("departments", "read"), DepartmentRows),
  update |-> Put(May("departments", "update"), {"department"}),
  remove |-> Put(May("departments", "delete"), {"department"}),
  assignHead |-> Put(May("departments", "update"), {"department"})]

UserList == {"user"}

UsersController == [
  findAll |-> Get(May("users", "read"), UserList),
  getCurrentUser |-> Get(SignedIn, {}),
  findOne |-> Get(May("users", "read"), UserList),
  create |-> Put(May("users", "create"), {"user"}),
  update |-> Put(May("users", "update"), {"user"}),
  remove |-> Put(May("users", "delete"), {"user"}),
  resetPassword |-> Put(May("users", "update"), {}),
  assignRole |-> Put(May("users", "update"), {"user"})]

RoleRows == {"role", "grant", "user"}
PermissionRows == {"permission", "grant"}

RbacController == [
  findAllRoles |-> Get(May("roles", "read"), RoleRows),
  findRoleById |-> Get(May("roles", "read"), RoleRows),
  createRole |-> Put(May("roles", "create"), {"role", "grant"}),
  updateRole |-> Put(May("roles", "update"), {"role", "grant"}),
  deleteRole |-> Put(May("roles", "delete"), {"role", "grant"}),
  assignPermissions |-> Put(May("roles", "update"), {"grant"}),
  findAllPermissions |-> Get(May("roles", "read"), PermissionRows),
  createPermission |-> Put(May("roles", "create"), {"permission"}),
  seed |-> Put(May("roles", "create"), {"role", "grant", "permission"})]

-----------------------------------------------------------------------------
AttendanceRows == {"attendance"}
AttendanceSummary == {"attendance"}
TodayStats == {"attendance", "leaveRequest"}

AttendanceController == [
  checkIn |-> Put(May("attendance", "create"), {"attendance"}),
  checkOut |-> Put(May("attendance", "create"), {"attendance"}),
  findAll |-> Get(May("attendance", "read"), AttendanceRows),
  getTodayStats |-> Get(May("attendance", "read"), TodayStats),
  getMyAttendance |-> Get(May("attendance", "read"), AttendanceRows),
  getSummary |-> Get(May("attendance", "read"), AttendanceSummary),
  findOne |-> Get(May("attendance", "read"), AttendanceRows),
  update |-> Put(May("attendance", "update"), {"attendance"}),
  remove |-> Put(May("attendance", "delete"), {"attendance"})]

LeaveTypeRows == {"leaveType"}
LeaveRequestList == {"leaveRequest"}
LeaveBalanceRows == {"leaveBalance", "leaveType"}
LeaveSummary == {"leaveRequest"}

LeaveTypesController == [
  create |-> Put(May("leave", "manage"), {"leaveType"}),
  findAll |-> Get(May("leave", "read"), LeaveTypeRows),
  update |-> Put(May("leave", "manage"), {"leaveType"}),
  remove |-> Put(May("leave", "manage"), {"leaveType"})]

LeaveRequestsController == [
  create |-> Put(May("leave", "create"), {"leaveRequest", "leaveBalance", "approval"}),
  findAll |-> Get(May("leave", "read"), LeaveRequestList),
  getMyRequests |-> Get(May("leave", "read"), LeaveRequestList),
  getBalance |-> Get(May("leave", "read"), LeaveBalanceRows),
  getSummary |-> Get(May("leave", "read"), LeaveSummary),
  findOne |-> Get(May("leave", "read"), LeaveRequestList),
  approve |-> Put(May("leave", "approve"), {"leaveRequest", "leaveBalance"}),
  reject |-> Put(May("leave", "approve"), {"leaveRequest", "leaveBalance"}),
  cancel |-> Put(May("leave", "create"), {"leaveRequest", "leaveBalance"})]

ApprovalList == {"approval"}
ApprovalStats == {"approval"}

WorkflowController == [
  findAll |-> Get(SignedIn, ApprovalList),
  pending |-> Get(SignedIn, ApprovalList),
  stats |-> Get(SignedIn, ApprovalStats),
  approve |-> Put(SignedIn, {"approval"}),
  reject |-> Put(SignedIn, {"approval"})]

-----------------------------------------------------------------------------
SalaryStructureRows == {"salaryStructure"}
PayrollRunList == {"payrollRun", "payrollEntry"}
PayrollRunRow == {"payrollRun", "payrollEntry"}
PayrollSummary == {"payrollRun", "payrollEntry"}
Payslips == {"payrollEntry", "payrollRun"}

PayrollController == [
  createSalaryStructure |-> Put(Office, {"salaryStructure"}),
  findAllSalaryStructures |-> Get(SignedIn, SalaryStructureRows),
  findSalaryStructureById |-> Get(SignedIn, SalaryStructureRows),
  updateSalaryStructure |-> Put(Office, {"salaryStructure"}),
  deleteSalaryStructure |-> Put(Named({"admin"}), {"salaryStructure"}),
  createPayrollRun |-> Put(Office, {"payrollRun"}),
  findAllPayrollRuns |-> Get(SignedIn, PayrollRunList),
  findPayrollRunById |-> Get(SignedIn, PayrollRunRow),
  calculate |-> Put(Office, {"payrollEntry"}),
  approve |-> Put(Office, {"payrollRun"}),
  process |-> Put(Named({"admin"}), {"payrollRun"}),
  deletePayrollRun |-> Put(Named({"admin"}), {"payrollRun", "payrollEntry"}),
  updatePayrollEntry |-> Put(Office, {"payrollEntry"}),
  getPayrollSummary |-> Get(SignedIn, PayrollSummary),
  getMyPayslips |-> Get(SignedIn, Payslips)]

JobList == {"job", "candidate"}
CandidateList == {"candidate"}
RecruitmentSummary == {"job", "candidate"}

RecruitmentController == [
  createJob |-> Put(Office, {"job"}),
  findAllJobs |-> Get(SignedIn, JobList),
  publishJob |-> Put(Office, {"job"}),
  closeJob |-> Put(Office, {"job"}),
  createCandidate |-> Put(SignedIn, {"candidate"}),
  findAllCandidates |-> Get(SignedIn, CandidateList),
  moveCandidateStage |-> Put(Office, {"candidate"}),
  convertToEmployee |-> Put(Office, {"candidate", "employee"}),
  deleteCandidate |-> Put(Office, {"candidate"}),
  getRecruitmentSummary |-> Get(SignedIn, RecruitmentSummary),
  scheduleInterview |-> Put(Leads, {"interview", "candidate"}),
  updateInterview |-> Put(Leads, {"interview"})]

GoalList == {"goal"}
ReviewList == {"review"}

PerformanceController == [
  createGoal |-> Put(Leads, {"goal"}),
  findAllGoals |-> Get(SignedIn, GoalList),
  updateGoalProgress |-> Put(Leads, {"goal"}),
  deleteGoal |-> Put(Office, {"goal"}),
  createPerformanceReview |-> Put(Leads, {"review"}),
  findAllPerformanceReviews |-> Get(SignedIn, ReviewList),
  submitPerformanceReview |-> Put(Leads, {"review"}),
  acknowledgePerformanceReview |-> Put(SignedIn, {"review"})]

FilingList == {"filing"}
UpcomingFilings == {"filing"}
AcknowledgementList == {"acknowledgement"}
ComplianceTotals == {"filing", "acknowledgement"}

ComplianceController == [
  createFilingRecord |-> Put(Office, {"filing"}),
  findAllFilingRecords |-> Get(SignedIn, FilingList),
  getUpcomingFilings |-> Get(SignedIn, UpcomingFilings),
  fileFilingRecord |-> Put(Office, {"filing"}),
  acknowledgeFilingRecord |-> Put(Named({"admin"}), {"filing"}),
  createPolicyAcknowledgement |-> Put(SignedIn, {"acknowledgement"}),
  findAllPolicyAcknowledgements |-> Get(SignedIn, AcknowledgementList),
  getComplianceDashboard |-> Get(SignedIn, ComplianceTotals)]

-----------------------------------------------------------------------------
TicketList == {"ticket", "comment"}
TicketRow == {"ticket", "comment"}
TicketStats == {"ticket"}

HelpdeskController == [
  create |-> Put(SignedIn, {"ticket"}),
  findAll |-> Get(SignedIn, TicketList),
  findOne |-> Get(SignedIn, TicketRow),
  updateStatus |-> Put(SignedIn, {"ticket"}),
  addComment |-> Put(SignedIn, {"comment"}),
  getStats |-> Get(Office, TicketStats)]

NotificationsController == [
  findAll |-> Get(SignedIn, {"notification"}),
  getUnreadCount |-> Get(SignedIn, {"notification"}),
  markAsRead |-> Put(SignedIn, {"notification"}),
  markAllAsRead |-> Put(SignedIn, {"notification"}),
  remove |-> Put(SignedIn, {"notification"})]

\* No permission of shifts or holidays is seeded.
ShiftsController == [
  create |-> Put({}, {"shift"}),
  findAll |-> Get({}, {"shift"}),
  update |-> Put({}, {"shift"}),
  remove |-> Put({}, {"shift"})]

HolidaysController == [
  create |-> Put({}, {"holiday"}),
  findAll |-> Get({}, {"holiday"}),
  update |-> Put({}, {"holiday"}),
  remove |-> Put({}, {"holiday"})]

ExecutiveCounts ==
  {"employee", "department", "leaveRequest", "attendance", "job", "payrollRun"}
TodayAttendance == {"employee", "attendance"}
AttendanceMetrics == {"employee", "attendance"}
LeaveMetrics == {"leaveRequest", "leaveType", "employee"}
PayrollMetrics == {"payrollRun", "payrollEntry"}
AttritionRate == {"employee"}
DepartmentMetrics == {"department", "employee"}

AnalyticsController == [
  getExecutiveSummary |-> Get(May("analytics", "read"), ExecutiveCounts),
  getTodayAttendance |-> Get(May("attendance", "read"), TodayAttendance),
  getAttendanceMetrics |-> Get(May("analytics", "read"), AttendanceMetrics),
  getLeaveMetrics |-> Get(May("analytics", "read"), LeaveMetrics),
  getPayrollMetrics |-> Get(May("analytics", "read"), PayrollMetrics),
  getAttritionRate |-> Get(May("analytics", "read"), AttritionRate),
  getDepartmentMetrics |-> Get(May("analytics", "read"), DepartmentMetrics)]

=============================================================================
