-------------------------------- MODULE Pages --------------------------------
(***************************************************************************)
(* The pages of the frontend: the queries a page shows and the changes its *)
(* buttons offer, with the roles each button is drawn for; the router and  *)
(* the menu; at the end, the tables Client takes as parameters.            *)
(***************************************************************************)
EXTENDS Hooks

Page(queries, buttons) == [shows |-> queries, offers |-> buttons]
For(roles, changes) == {[change |-> c, to |-> roles] : c \in changes}
Anyone(changes) == For(Roles, changes)

\* Only the checks of hasPermission and of the name of the role hide a button.
LeaveDashboard ==
  Page({useLeave.balance, useLeave.summary, useLeave.myRequests, useLeave.types},
       Anyone({useLeave.create}))

LeaveRequests ==
  Page({useLeave.requests},
       For(May("leave", "approve"), {useLeave.approve, useLeave.reject})
         \union Anyone({useLeave.cancel}))

AttendanceDashboard ==
  Page({useAttendance.todayStats, useAttendance.recent},
       Anyone({useAttendance.checkIn, useAttendance.checkOut}))
AttendanceList ==
  Page({useAttendance.list}, Anyone({useAttendance.delete, useAttendance.update}))
ApprovalsPage ==
  Page({useWorkflow.pending, useWorkflow.mine, useWorkflow.all, useWorkflow.stats},
       Anyone({useWorkflow.approve, useWorkflow.reject}))

PayrollDashboard ==
  Page({usePayroll.runs}, For(May("payroll", "manage"), {usePayroll.create}))
PayrollRuns ==
  Page({usePayroll.runs}, For(May("payroll", "manage"), {usePayroll.create, usePayroll.delete}))
PayrollRunDetails ==
  Page({usePayroll.run, usePayroll.summary},
       For(May("payroll", "manage"), {usePayroll.calculate, usePayroll.approve, usePayroll.process}))
\* Has its own key for what usePayroll calls the structures.
SalaryStructuresPage ==
  Page({Query(<<"salary-structures">>, payrollApi.getSalaryStructures)},
       Anyone({usePayroll.createStructure}))
MyPayslipsPage == Page({Query(<<"my-payslips">>, payrollApi.getMyPayslips)}, {})

EmployeeListPage == Page({useEmployee.list}, Anyone({useEmployee.delete}))
NewEmployeePage == Page({}, Anyone({useEmployee.create}))
EmployeeDetailPage == Page({useEmployee.detail, useEmployee.subordinates}, {})
OrgChartPage == Page({Query(<<"org-chart">>, employeeApi.getHierarchy)}, {})
DepartmentListPage == Page({useDepartment.list}, Anyone({useDepartment.delete}))
DepartmentDetailPage == Page({useDepartment.detail}, {})

GoalsPage ==
  Page({usePerformance.goals, useEmployee.hundred},
       Anyone({usePerformance.createGoal, usePerformance.updateProgress, usePerformance.deleteGoal}))
ReviewsPage ==
  Page({usePerformance.reviews, useEmployee.hundred},
       Anyone({usePerformance.createReview, usePerformance.submitReview, usePerformance.acknowledge}))
PerformanceDashboard == Page({usePerformance.goals, usePerformance.reviews}, {})

RecruitmentDashboard ==
  Page({useRecruitment.openJobs, useRecruitment.candidates,
        useRecruitment.stats, useRecruitment.summary}, {})
\* The button that closes a job is drawn for a status no job has.
JobsPage == Page({useRecruitment.jobs, useDepartment.list}, Anyone({useRecruitment.createJob}))
CandidatesPage ==
  Page({useRecruitment.chosen, useRecruitment.jobs},
       Anyone({useRecruitment.moveStage, useRecruitment.convert, useRecruitment.delete}))

ComplianceDashboard == Page({useCompliance.dashboard, useCompliance.upcoming}, {})
FilingsPage ==
  Page({useCompliance.filings},
       For(May("compliance", "manage"), {useCompliance.createFiling, useCompliance.fileFiling}))

HelpdeskDashboard ==
  Page({useHelpdesk.stats, useHelpdesk.latest}, Anyone({useHelpdesk.create}))
TicketListPage == Page({useHelpdesk.tickets}, Anyone({useHelpdesk.create}))
TicketDetailPage ==
  Page({useHelpdesk.ticket},
       Anyone({useHelpdesk.addComment}) \union For(Office, {useHelpdesk.updateStatus}))

ExecutiveDashboard == Page({useExecutive.summary}, {})
AnalyticsDashboard == Page({useAnalytics.departments, useAnalytics.today}, {})
AttritionAnalytics == Page({useAnalytics.attrition}, {})
DepartmentAnalytics == Page({useAnalytics.departments, useAnalytics.today}, {})
NotificationsPage ==
  Page({useNotifications.list, useNotifications.unread},
       Anyone({useNotifications.markAsRead, useNotifications.markAllAsRead, useNotifications.delete}))

ProfilePage == Page({}, Anyone({useUsers.update}))
RolesPage ==
  Page({useSettings.roles, useSettings.permissions},
       Anyone({useSettings.createRole, useSettings.updateRole, useSettings.deleteRole,
               useSettings.assignPermissions, useSettings.seed}))
PermissionsPage ==
  Page({useSettings.permissions}, Anyone({useSettings.createPermission}))
UsersPage ==
  Page({useUsers.list, useRbac.roles},
       Anyone({useUsers.create, useUsers.update, useUsers.delete}))
ShiftsPage == Page({useShifts.list}, Anyone({useShifts.delete}))
HolidaysPage == Page({useHolidays.list}, Anyone({useHolidays.delete}))

-----------------------------------------------------------------------------
\* No route asks for a permission: each page is a page of every account.
router == [
  dashboard |-> ExecutiveDashboard,
  employees |-> EmployeeListPage, employeesNew |-> NewEmployeePage,
  employee |-> EmployeeDetailPage, orgChart |-> OrgChartPage,
  departments |-> DepartmentListPage, department |-> DepartmentDetailPage,
  attendance |-> AttendanceDashboard, attendanceList |-> AttendanceList,
  leave |-> LeaveDashboard, leaveRequests |-> LeaveRequests,
  payroll |-> PayrollDashboard, payrollRuns |-> PayrollRuns, payrollRun |-> PayrollRunDetails,
  structures |-> SalaryStructuresPage, myPayslips |-> MyPayslipsPage,
  performance |-> PerformanceDashboard, goals |-> GoalsPage, reviews |-> ReviewsPage,
  recruitment |-> RecruitmentDashboard, jobs |-> JobsPage, candidates |-> CandidatesPage,
  compliance |-> ComplianceDashboard, filings |-> FilingsPage,
  analytics |-> AnalyticsDashboard, attrition |-> AttritionAnalytics,
  departmentAnalytics |-> DepartmentAnalytics,
  notifications |-> NotificationsPage, approvals |-> ApprovalsPage,
  helpdesk |-> HelpdeskDashboard, tickets |-> TicketListPage, ticket |-> TicketDetailPage,
  roles |-> RolesPage, permissions |-> PermissionsPage, profile |-> ProfilePage,
  users |-> UsersPage, shifts |-> ShiftsPage, holidays |-> HolidaysPage]

\* The sections of the menu, with the roles each is drawn for: the
\* permissions asked for the entries of a section are never looked at.
navigation == {
  [to |-> SignedIn, pages |-> {"dashboard"}],
  [to |-> May("employees", "read"), pages |-> {"employees", "employeesNew", "departments"}],
  [to |-> May("attendance", "read"), pages |-> {"attendance", "attendanceList"}],
  [to |-> May("leave", "read"), pages |-> {"leave", "leaveRequests"}],
  [to |-> May("payroll", "read"), pages |-> {"payroll", "myPayslips", "payrollRuns", "structures"}],
  [to |-> SignedIn, pages |-> {"performance", "goals", "reviews"}],
  [to |-> May("recruitment", "read"), pages |-> {"recruitment", "jobs", "candidates"}],
  [to |-> May("compliance", "read"), pages |-> {"compliance", "filings"}],
  [to |-> SignedIn, pages |-> {"approvals"}],
  [to |-> May("analytics", "read"), pages |-> {"analytics", "attrition", "departmentAnalytics"}],
  [to |-> SignedIn,
   pages |-> {"profile", "roles", "permissions", "users", "shifts", "holidays"}]}

Menu(role) == UNION {s.pages : s \in {s \in navigation : role \in s.to}}

Offered(shown, r) == {o.change.name : o \in {o \in shown.offers : r \in o.to}}

-----------------------------------------------------------------------------
\* The queries by key, the changes by name, the pages and the menu.
QueryTable ==
  LET all == UNION {router[p].shows : p \in DOMAIN router}
  IN  [k \in {q.key : q \in all} |->
         LET q == CHOOSE q \in all : q.key = k
         IN  [reads |-> q.route.reads, by |-> q.route.by]]

ChangeTable ==
  LET all == UNION {{o.change : o \in router[p].offers} : p \in DOMAIN router}
  IN  [n \in {c.name : c \in all} |->
         LET c == CHOOSE c \in all : c.name = n
         IN  [writes |-> c.route.writes, by |-> c.route.by, refreshes |-> c.refreshes]]

Screen(shown) ==
  [shows |-> {q.key : q \in shown.shows},
   offers |-> [r \in Roles |-> Offered(shown, r)],
   common |-> {o.change.name : o \in {o \in shown.offers : o.to = Roles}}]

ScreenTable == LET pages == router IN [p \in DOMAIN pages |-> Screen(pages[p])]

MenuTable == [r \in Roles |-> Menu(r)]

=============================================================================
