-------------------------------- MODULE Hooks --------------------------------
(***************************************************************************)
(* The hooks of the frontend (modules/*/hooks/use*.ts): each query with    *)
(* its key in the cache, each mutation with the keys it invalidates when   *)
(* it succeeds. The parameters of a query are the last element of its key. *)
(* A key is invalidated with every key it is a prefix of.                  *)
(***************************************************************************)
EXTENDS Services

Query(key, route) == [key |-> key, route |-> route]
Change(name, route, refreshes) == [name |-> name, route |-> route, refreshes |-> refreshes]

useLeave == [
  types |-> Query(<<"leave", "types">>, leaveApi.getLeaveTypes),
  requests |-> Query(<<"leave", "requests", "params">>, leaveApi.getLeaveRequests),
  myRequests |-> Query(<<"leave", "my-requests">>, leaveApi.getMyLeaveRequests),
  balance |-> Query(<<"leave", "balances", "year">>, leaveApi.getLeaveBalance),
  summary |-> Query(<<"leave", "summary", "year">>, leaveApi.getLeaveSummary),
  create |-> Change("createLeaveRequest", leaveApi.createLeaveRequest,
    {<<"leave", "requests">>, <<"leave", "my-requests">>,
     <<"leave", "balances", "year">>, <<"leave", "summary", "year">>}),
  approve |-> Change("approveLeaveRequest", leaveApi.approveLeaveRequest,
    {<<"leave", "requests">>, <<"leave", "pending-approvals">>}),
  reject |-> Change("rejectLeaveRequest", leaveApi.rejectLeaveRequest,
    {<<"leave", "requests">>, <<"leave", "pending-approvals">>}),
  cancel |-> Change("cancelLeaveRequest", leaveApi.cancelLeaveRequest,
    {<<"leave", "requests">>, <<"leave", "my-requests">>})]

useAttendance == [
  recent |-> Query(<<"attendance", "list", "recent">>, attendanceApi.list),
  list |-> Query(<<"attendance", "list", "params">>, attendanceApi.list),
  todayStats |-> Query(<<"attendance", "today-stats">>, attendanceApi.getTodayStats),
  checkIn |-> Change("checkIn", attendanceApi.checkIn,
    {<<"attendance", "list">>, <<"attendance", "today-stats">>, <<"attendance", "stats">>}),
  checkOut |-> Change("checkOut", attendanceApi.checkOut,
    {<<"attendance", "list">>, <<"attendance", "today-stats">>, <<"attendance", "stats">>}),
  delete |-> Change("deleteAttendance", attendanceApi.delete,
    {<<"attendance", "list">>, <<"attendance", "stats">>}),
  update |-> Change("updateAttendance", attendanceApi.update,
    {<<"attendance", "list">>, <<"attendance", "today-stats">>, <<"attendance", "stats">>})]

\* No key of a list of approvals ends as the one the mutations invalidate.
useWorkflow == [
  mine |-> Query(<<"workflow", "approvals", "requester">>, workflowApi.getApprovals),
  all |-> Query(<<"workflow", "approvals", "none">>, workflowApi.getApprovals),
  pending |-> Query(<<"workflow", "pending-approvals">>, workflowApi.getPendingApprovals),
  stats |-> Query(<<"workflow", "stats">>, workflowApi.getApprovalStats),
  approve |-> Change("approveStep", workflowApi.approveStep,
    {<<"workflow", "approvals", "undefined">>, <<"workflow", "pending-approvals">>}),
  reject |-> Change("rejectStep", workflowApi.rejectStep,
    {<<"workflow", "approvals", "undefined">>, <<"workflow", "pending-approvals">>})]

usePayroll == [
  runs |-> Query(<<"payroll", "runs">>, payrollApi.getPayrollRuns),
  run |-> Query(<<"payroll", "runs", "id">>, payrollApi.getPayrollRun),
  summary |-> Query(<<"payroll", "summary", "id">>, payrollApi.getPayrollSummary),
  create |-> Change("createPayrollRun", payrollApi.createPayrollRun, {<<"payroll", "runs">>}),
  calculate |-> Change("calculatePayroll", payrollApi.calculatePayroll,
    {<<"payroll", "runs", "id">>, <<"payroll", "entries", "id">>, <<"payroll", "summary", "id">>}),
  approve |-> Change("approvePayroll", payrollApi.approvePayroll, {<<"payroll", "runs", "id">>}),
  process |-> Change("processPayroll", payrollApi.processPayroll, {<<"payroll", "runs", "id">>}),
  createStructure |-> Change("createSalaryStructure", payrollApi.createSalaryStructure,
    {<<"payroll", "structures">>}),
  delete |-> Change("deletePayrollRun", payrollApi.deletePayrollRun, {<<"payroll", "runs">>})]

-----------------------------------------------------------------------------
useEmployee == [
  list |-> Query(<<"employees", "list", "params">>, employeeApi.list),
  hundred |-> Query(<<"employees", "list", "limit 100">>, employeeApi.list),
  detail |-> Query(<<"employees", "detail", "id">>, employeeApi.get),
  subordinates |-> Query(<<"employees", "subordinates", "id">>, employeeApi.getSubordinates),
  create |-> Change("createEmployee", employeeApi.create,
    {<<"employees", "list">>, <<"employees", "stats">>}),
  delete |-> Change("deleteEmployee", employeeApi.delete,
    {<<"employees", "list">>, <<"employees", "stats">>})]

useDepartment == [
  list |-> Query(<<"departments", "list">>, departmentApi.list),
  detail |-> Query(<<"departments", "detail", "id">>, departmentApi.get),
  delete |-> Change("deleteDepartment", departmentApi.delete, {<<"departments", "list">>})]

useUsers == [
  list |-> Query(<<"users", "list", "undefined">>, usersApi.getUsers),
  create |-> Change("createUser", usersApi.createUser, {<<"users", "list">>}),
  update |-> Change("updateUser", usersApi.updateUser,
    {<<"users", "detail", "id">>, <<"users", "list">>}),
  delete |-> Change("deleteUser", usersApi.deleteUser, {<<"users", "list">>})]

\* The users page lists the roles under a key of its own ...
useRbac == [roles |-> Query(<<"rbac", "roles">>, rbacApi.getRoles)]

\* ... which none of these invalidates.
useSettings == [
  roles |-> Query(<<"settings", "roles">>, settingsApi.getRoles),
  permissions |-> Query(<<"settings", "permissions">>, settingsApi.getPermissions),
  createRole |-> Change("createRole", settingsApi.createRole, {<<"settings", "roles">>}),
  updateRole |-> Change("updateRole", settingsApi.updateRole, {<<"settings", "roles">>}),
  deleteRole |-> Change("deleteRole", settingsApi.deleteRole, {<<"settings", "roles">>}),
  assignPermissions |->
    Change("assignPermissions", settingsApi.assignPermissions, {<<"settings", "roles">>}),
  createPermission |->
    Change("createPermission", settingsApi.createPermission, {<<"settings", "permissions">>}),
  seed |-> Change("seedDefaultRoles", settingsApi.seedDefaultRoles,
    {<<"settings", "roles">>, <<"settings", "permissions">>})]

-----------------------------------------------------------------------------
useRecruitment == [
  openJobs |-> Query(<<"recruitment", "jobs", "open">>, recruitmentApi.getJobs),
  jobs |-> Query(<<"recruitment", "jobs", "undefined">>, recruitmentApi.getJobs),
  candidates |-> Query(<<"recruitment", "candidates", "undefined">>, recruitmentApi.getCandidates),
  chosen |-> Query(<<"recruitment", "candidates", "params">>, recruitmentApi.getCandidates),
  stats |-> Query(<<"recruitment", "stats">>, recruitmentApi.getSummary),
  summary |-> Query(<<"recruitment", "summary">>, recruitmentApi.getSummary),
  createJob |-> Change("createJob", recruitmentApi.createJob, {<<"recruitment", "jobs">>}),
  moveStage |-> Change("updateCandidateStage", recruitmentApi.updateCandidateStage,
    {<<"recruitment", "candidates">>}),
  convert |-> Change("convertToEmployee", recruitmentApi.convertToEmployee,
    {<<"recruitment", "candidates">>}),
  delete |-> Change("deleteCandidate", recruitmentApi.deleteCandidate,
    {<<"recruitment", "candidates">>})]

usePerformance == [
  goals |-> Query(<<"performance", "goals">>, performanceApi.getGoals),
  reviews |-> Query(<<"performance", "reviews">>, performanceApi.getReviews),
  createGoal |-> Change("createGoal", performanceApi.createGoal, {<<"performance", "goals">>}),
  updateProgress |-> Change("updateGoalProgress", performanceApi.updateGoalProgress,
    {<<"performance", "goals">>}),
  deleteGoal |-> Change("deleteGoal", performanceApi.deleteGoal, {<<"performance", "goals">>}),
  createReview |-> Change("createReview", performanceApi.createReview, {<<"performance", "reviews">>}),
  submitReview |-> Change("submitReview", performanceApi.submitReview, {<<"performance", "reviews">>}),
  acknowledge |-> Change("acknowledgeReview", performanceApi.acknowledgeReview,
    {<<"performance", "reviews">>})]

useCompliance == [
  filings |-> Query(<<"compliance", "filings">>, complianceApi.getFilings),
  upcoming |-> Query(<<"compliance", "upcoming">>, complianceApi.getUpcomingFilings),
  dashboard |-> Query(<<"compliance", "dashboard">>, complianceApi.getDashboard),
  createFiling |-> Change("createFiling", complianceApi.createFiling,
    {<<"compliance", "filings">>, <<"compliance", "dashboard">>}),
  fileFiling |-> Change("fileFiling", complianceApi.fileFiling,
    {<<"compliance", "filings">>, <<"compliance", "dashboard">>})]

useHelpdesk == [
  latest |-> Query(<<"tickets", "take 5">>, helpdeskApi.getTickets),
  tickets |-> Query(<<"tickets", "params">>, helpdeskApi.getTickets),
  ticket |-> Query(<<"ticket", "id">>, helpdeskApi.getTicket),
  stats |-> Query(<<"helpdesk-stats">>, helpdeskApi.getStats),
  create |-> Change("createTicket", helpdeskApi.createTicket,
    {<<"tickets">>, <<"helpdesk-stats">>}),
  updateStatus |-> Change("updateStatus", helpdeskApi.updateStatus,
    {<<"ticket", "id">>, <<"tickets">>, <<"helpdesk-stats">>}),
  addComment |-> Change("addComment", helpdeskApi.addComment, {<<"ticket", "id">>})]

useNotifications == [
  list |-> Query(<<"notifications", "list">>, notificationsApi.getNotifications),
  unread |-> Query(<<"notifications", "unread-count">>, notificationsApi.getUnreadCount),
  markAsRead |-> Change("markAsRead", notificationsApi.markAsRead,
    {<<"notifications", "list">>, <<"notifications", "unread-count">>}),
  markAllAsRead |-> Change("markAllAsRead", notificationsApi.markAllAsRead,
    {<<"notifications", "list">>, <<"notifications", "unread-count">>}),
  delete |-> Change("deleteNotification", notificationsApi.deleteNotification,
    {<<"notifications", "list">>, <<"notifications", "unread-count">>})]

useShifts == [
  list |-> Query(<<"shifts">>, shiftsApi.getShifts),
  delete |-> Change("deleteShift", shiftsApi.deleteShift, {<<"shifts">>})]

useHolidays == [
  list |-> Query(<<"holidays", "year">>, holidaysApi.getHolidays),
  delete |-> Change("deleteHoliday", holidaysApi.deleteHoliday, {<<"holidays">>})]

useAnalytics == [
  attrition |-> Query(<<"analytics", "attrition", "year">>, analyticsApi.getAttritionAnalysis),
  departments |-> Query(<<"analytics", "departments">>, analyticsApi.getDepartmentAnalytics),
  today |-> Query(<<"analytics", "today-attendance">>, analyticsApi.getTodayAttendance)]

useExecutive == [summary |-> Query(<<"executive", "summary">>, executiveApi.getExecutiveSummary)]

=============================================================================
