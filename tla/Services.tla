------------------------------- MODULE Services -------------------------------
(***************************************************************************)
(* The calls of the frontend (modules/*/services/*.api.ts): the handler of *)
(* the backend each of them reaches.                                       *)
(***************************************************************************)
EXTENDS Routes

leaveApi == [
  getLeaveTypes |-> LeaveTypesController.findAll,
  createLeaveType |-> LeaveTypesController.create,
  updateLeaveType |-> LeaveTypesController.update,
  deleteLeaveType |-> LeaveTypesController.remove,
  getLeaveRequests |-> LeaveRequestsController.findAll,
  getLeaveRequest |-> LeaveRequestsController.findOne,
  createLeaveRequest |-> LeaveRequestsController.create,
  approveLeaveRequest |-> LeaveRequestsController.approve,
  rejectLeaveRequest |-> LeaveRequestsController.reject,
  cancelLeaveRequest |-> LeaveRequestsController.cancel,
  getMyLeaveRequests |-> LeaveRequestsController.getMyRequests,
  getPendingApprovals |-> LeaveRequestsController.findAll,
  getLeaveBalance |-> LeaveRequestsController.getBalance,
  getLeaveSummary |-> LeaveRequestsController.getSummary]

\* getStats asks the analytics.
attendanceApi == [
  list |-> AttendanceController.findAll,
  checkIn |-> AttendanceController.checkIn,
  checkOut |-> AttendanceController.checkOut,
  getStats |-> AnalyticsController.getAttendanceMetrics,
  getTodayStats |-> AttendanceController.getTodayStats,
  getEmployeeAttendance |-> AttendanceController.findAll,
  getEmployeeSummary |-> AttendanceController.getSummary,
  delete |-> AttendanceController.remove,
  getMyAttendance |-> AttendanceController.getMyAttendance,
  get |-> AttendanceController.findOne,
  update |-> AttendanceController.update]

workflowApi == [
  getApprovals |-> WorkflowController.findAll,
  getPendingApprovals |-> WorkflowController.pending,
  getApprovalStats |-> WorkflowController.stats,
  approveStep |-> WorkflowController.approve,
  rejectStep |-> WorkflowController.reject]

\* The entries are taken from the run.
payrollApi == [
  getPayrollRuns |-> PayrollController.findAllPayrollRuns,
  getPayrollRun |-> PayrollController.findPayrollRunById,
  createPayrollRun |-> PayrollController.createPayrollRun,
  calculatePayroll |-> PayrollController.calculate,
  approvePayroll |-> PayrollController.approve,
  processPayroll |-> PayrollController.process,
  getPayrollEntries |-> PayrollController.findPayrollRunById,
  getMyPayslips |-> PayrollController.getMyPayslips,
  getSalaryStructures |-> PayrollController.findAllSalaryStructures,
  getSalaryStructure |-> PayrollController.findSalaryStructureById,
  createSalaryStructure |-> PayrollController.createSalaryStructure,
  updateSalaryStructure |-> PayrollController.updateSalaryStructure,
  deleteSalaryStructure |-> PayrollController.deleteSalaryStructure,
  deletePayrollRun |-> PayrollController.deletePayrollRun,
  updatePayrollEntry |-> PayrollController.updatePayrollEntry,
  getPayrollSummary |-> PayrollController.getPayrollSummary]

-----------------------------------------------------------------------------
employeeApi == [
  list |-> EmployeesController.findAll,
  get |-> EmployeesController.findOne,
  create |-> EmployeesController.create,
  update |-> EmployeesController.update,
  delete |-> EmployeesController.remove,
  getStats |-> EmployeesController.getStatistics,
  getByDepartment |-> EmployeesController.findAll,
  getSubordinates |-> EmployeesController.getTeamMembers,
  getHierarchy |-> EmployeesController.getCompanyHierarchy]

departmentApi == [
  list |-> DepartmentsController.findAll,
  get |-> DepartmentsController.findOne,
  create |-> DepartmentsController.create,
  update |-> DepartmentsController.update,
  delete |-> DepartmentsController.remove,
  assignHead |-> DepartmentsController.assignHead]

usersApi == [
  getUsers |-> UsersController.findAll,
  getCurrentUser |-> UsersController.getCurrentUser,
  getUser |-> UsersController.findOne,
  createUser |-> UsersController.create,
  updateUser |-> UsersController.update,
  deleteUser |-> UsersController.remove,
  resetPassword |-> UsersController.resetPassword,
  assignRole |-> UsersController.assignRole]

rbacApi == [
  getRoles |-> RbacController.findAllRoles,
  getRole |-> RbacController.findRoleById,
  createRole |-> RbacController.createRole,
  updateRole |-> RbacController.updateRole,
  deleteRole |-> RbacController.deleteRole,
  assignPermissions |-> RbacController.assignPermissions,
  getPermissions |-> RbacController.findAllPermissions,
  createPermission |-> RbacController.createPermission,
  seedRolesAndPermissions |-> RbacController.seed]

\* The same routes; the system settings are kept in the page.
settingsApi == [
  getRoles |-> RbacController.findAllRoles,
  getRole |-> RbacController.findRoleById,
  createRole |-> RbacController.createRole,
  updateRole |-> RbacController.updateRole,
  deleteRole |-> RbacController.deleteRole,
  assignPermissions |-> RbacController.assignPermissions,
  getPermissions |-> RbacController.findAllPermissions,
  createPermission |-> RbacController.createPermission,
  seedDefaultRoles |-> RbacController.seed]

-----------------------------------------------------------------------------
recruitmentApi == [
  getJobs |-> RecruitmentController.findAllJobs,
  createJob |-> RecruitmentController.createJob,
  closeJob |-> RecruitmentController.closeJob,
  publishJob |-> RecruitmentController.publishJob,
  getCandidates |-> RecruitmentController.findAllCandidates,
  createCandidate |-> RecruitmentController.createCandidate,
  updateCandidateStage |-> RecruitmentController.moveCandidateStage,
  convertToEmployee |-> RecruitmentController.convertToEmployee,
  deleteCandidate |-> RecruitmentController.deleteCandidate,
  getSummary |-> RecruitmentController.getRecruitmentSummary,
  scheduleInterview |-> RecruitmentController.scheduleInterview,
  updateInterview |-> RecruitmentController.updateInterview]

performanceApi == [
  getGoals |-> PerformanceController.findAllGoals,
  createGoal |-> PerformanceController.createGoal,
  updateGoalProgress |-> PerformanceController.updateGoalProgress,
  getReviews |-> PerformanceController.findAllPerformanceReviews,
  createReview |-> PerformanceController.createPerformanceReview,
  getPendingReviews |-> PerformanceController.findAllPerformanceReviews,
  submitReview |-> PerformanceController.submitPerformanceReview,
  acknowledgeReview |-> PerformanceController.acknowledgePerformanceReview,
  deleteGoal |-> PerformanceController.deleteGoal]

complianceApi == [
  getFilings |-> ComplianceController.findAllFilingRecords,
  createFiling |-> ComplianceController.createFilingRecord,
  fileFiling |-> ComplianceController.fileFilingRecord,
  acknowledgeFiling |-> ComplianceController.acknowledgeFilingRecord,
  getDashboard |-> ComplianceController.getComplianceDashboard,
  getAcknowledgements |-> ComplianceController.findAllPolicyAcknowledgements,
  getUpcomingFilings |-> ComplianceController.getUpcomingFilings,
  createAcknowledgement |-> ComplianceController.createPolicyAcknowledgement]

helpdeskApi == [
  getTickets |-> HelpdeskController.findAll,
  getTicket |-> HelpdeskController.findOne,
  createTicket |-> HelpdeskController.create,
  updateStatus |-> HelpdeskController.updateStatus,
  addComment |-> HelpdeskController.addComment,
  getStats |-> HelpdeskController.getStats]

notificationsApi == [
  getNotifications |-> NotificationsController.findAll,
  getUnreadCount |-> NotificationsController.getUnreadCount,
  markAsRead |-> NotificationsController.markAsRead,
  markAllAsRead |-> NotificationsController.markAllAsRead,
  deleteNotification |-> NotificationsController.remove]

shiftsApi == [
  getShifts |-> ShiftsController.findAll,
  createShift |-> ShiftsController.create,
  updateShift |-> ShiftsController.update,
  deleteShift |-> ShiftsController.remove]

holidaysApi == [
  getHolidays |-> HolidaysController.findAll,
  createHoliday |-> HolidaysController.create,
  updateHoliday |-> HolidaysController.update,
  deleteHoliday |-> HolidaysController.remove]

analyticsApi == [
  getAttendanceMetrics |-> AnalyticsController.getAttendanceMetrics,
  getLeaveMetrics |-> AnalyticsController.getLeaveMetrics,
  getPayrollMetrics |-> AnalyticsController.getPayrollMetrics,
  getAttritionAnalysis |-> AnalyticsController.getAttritionRate,
  getDepartmentAnalytics |-> AnalyticsController.getDepartmentMetrics,
  getTodayAttendance |-> AnalyticsController.getTodayAttendance]

executiveApi == [getExecutiveSummary |-> AnalyticsController.getExecutiveSummary]

=============================================================================
