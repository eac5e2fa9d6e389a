# Verification of HR Enterprise

TLA+ specifications of the HR Enterprise backend (NestJS, Prisma, PostgreSQL),
TLC configurations that check them on small instances, and theorems checked by
the TLA+ proof system. The reference is the source; every definition that
stands for code is listed with its lines in `PROJECT.json` under `map`.

## How the program runs, and how that is modelled

The backend is one Node process. HTTP handlers, cron jobs and socket callbacks
run on one event loop: between two `await`s a handler runs alone, at every
`await` any other may run. Each `await this.prisma...` is one SQL statement
that commits by itself. Only four operations use a `$transaction` around
several statements (leave approval, leave cancellation, payroll calculation,
permission assignment), and none of them re-reads, inside the transaction, the
status its guard tested before. What is persisted survives a crash; what a
handler had read, and the rest of its work, does not. Nothing is retried.

An action is therefore one database statement (or one `$transaction`) with the
code that runs from it to the next one. A handler `h` has a label `pc[h]` (the
statement it executes next) and locals `loc[h]` (what it has read or been
given). A check that is separated from its write by an `await` is separated in
the model. A refusal before a handler's first write changes nothing and is not
an action; reads of rows that are never changed or deleted are merged with the
next read. `Fail(h)` ends a handler between two statements: a thrown statement,
a lost connection or a lost process. A foreign key or unique key that PostgreSQL
would enforce appears as the guard or the failing branch of the insert.

## Inventory

| Component | State it keeps | Operations that change it | Correct when | Hard because |
|---|---|---|---|---|
| Leave service (`leave/`) | leave types, yearly balances, requests | create / approve / reject / cancel a request; create, update, delete a type | balances equal the requests they stand for, no overlap, decisions final | guards and writes are separate statements; pending days are counted by a second statement |
| Leave jobs (`scheduler/`) | balances | monthly accrual, annual carry-forward | every grant made once, nobody missed, nothing spent twice | row by row beside the handlers; first error ends the job; a missed minute is never made up |
| Approval workflow (`workflow/`) | approvals and their steps | create, approve step, reject | steps decided in order, outcome agrees with the steps | two statements per decision, no transaction |
| Payroll (`payroll/`) | salary structures, runs, entries | create, calculate, edit, approve, process, delete a run | amounts frozen once approved, one run per month | status checked before, not in, the writes |
| Attendance (`attendance/`, `scheduler/`) | one row per employee and day | check in, check out, manual edit, two absentee jobs | one row a day, status follows times and leave | two jobs four minutes apart write the same rows, reads trigger writes |
| Sessions (`auth/`, frontend `core/api`, `core/auth`) | refresh and reset tokens; the tokens in localStorage | login, refresh with rotation, logout, logout everywhere, new password | what was revoked stays so, rotation loses nobody, every request ends | read, revoke and insert are three statements; every 401 of every tab refreshes for itself |
| Roles and permissions (`rbac/`, `common/guards`, `prisma/seed.ts`) | roles, their permissions, the role of a user, permissions in a token | create, update, delete, assign, seed | every role has what the last of two seeds gave it, an administrator can repair it | the seed empties a role and fills it by two statements, role by role; the two seeds disagree |
| Employees, departments, users | employees, managers, department heads, accounts | create, update, remove, assign, link, deactivate | the hierarchy shows everybody, managers exist, the removed are signed out | a cycle takes several legal updates; removal is three statements over two tables |
| Recruitment | jobs, candidates, interviews | publish, close, apply, move, convert, delete | who is hired is an employee | conversion is four statements, deletions cascade |
| Performance, compliance | goals, reviews, filings, acknowledgements | progress, submit, acknowledge, file, report | status fits the value, documents are complete, reports add up | every write relies on a read of its own statement before; a report is three statements |
| Frontend cache, menu, pages | answers by query key, the page on screen | load, invalidate, expire, sign in and out, every button | a page shows its own change, the menu leads to what is served, nothing of another account is shown | hooks with keys written by hand, guards on two sides |
| Helpdesk, notifications, shifts, holidays, analytics | independent rows | create, update, delete | who is admitted sees and changes them | seen through the frontend: their routes, tables and pages |
| Uploads, audit, e-mail, HTTP pipeline | files, log rows, none | | | not modelled, see the end |

How they interact: a leave request creates an approval in the workflow engine,
but deciding either leaves the other as it is; the leave jobs write the
balances the handlers write; the scheduler's absentee job reads approved leave
and writes attendance; payroll reads attendance and approved leave; recruitment
creates employees; removing an employee deactivates the user; the guard reads
the role of the user and falls back to the permissions in the token; every page
goes through one query cache and one interceptor that refreshes sessions.

The hazards (what a test would hardly reach) are listed line by line in
`PROJECT.json` under `hazards`, each with the properties that cover it.

## Modules

| Module | Models | Checked by |
|---|---|---|
| `Leave` | `leave/leave.service.ts` | `MCLeave`: leave_serial, leave_concurrent, leave_overdraft |
| `LeaveScheduler` (extends `Leave`) | accrual and carry-forward of `scheduler/scheduler.service.ts` | `MCLeaveScheduler`: leave_year |
| `Workflow` | `workflow/workflow.service.ts` | `MCWorkflow`: workflow |
| `ApprovalPromise` | what an approval promises: the abstract specification `Workflow` implements | property `KeepsPromise` of run workflow |
| `PayrollAmounts` | the arithmetic of a payslip | through `Payroll` |
| `Payroll` (extends `PayrollAmounts`) | `payroll/payroll.service.ts` | `MCPayroll`: payroll |
| `Attendance` | `attendance/attendance.service.ts` and both absentee jobs | `MCAttendance`: attendance, attendance_jobs |
| `Sessions` | `auth/auth.service.ts`, the guard, `core/api/axios.ts`, `core/auth` | `MCSessions`: sessions, sessions_end |
| `Staff` | `employees/`, `departments/`, `users/` | through `Company` |
| `Recruitment`, `Records`, `Access` (each extends `Staff`) | `recruitment/`; `performance/` and `compliance/`; `rbac/` | through `Company` |
| `Company` | the composition of these four over one database | `MCCompany`: company |
| `Routes` | every route a page calls: whom its guard admits, what it reads and writes | through `Pages` |
| `Services`, `Hooks` | `modules/*/services/*.api.ts`, `modules/*/hooks/use*.ts`: calls, query keys, invalidations | through `Pages` |
| `Pages` | every page with its queries and buttons, the router, the menu | through `MCClient` |
| `Client` | React Query's cache in one tab, over pages, queries and changes given as constants | `MCClient`: client |
| `Leave_proofs`, `Workflow_proofs`, `Payroll_proofs`, `Attendance_proofs`, `Sessions_proofs`, `Company_proofs`, `Client_proofs` | theorems about the module of that name | tlapm |
| `LeaveYear_proofs` (extends `Leave_proofs`) | theorems about `LeaveScheduler` | tlapm |

Definitions whose comment begins with "Mutation" are small errors a maintainer
could make in the definition that follows them; each breaks a property and
shows that the property looks at the code.

### Leave

`leaveType`, `leaveBalance`, `leaveRequest` and `approvals` are the tables; a
balance is found by its unique key (employee, type, year). `today` is the date.
Creating a request walks through the labels `overlap`, `balance`, `limit`,
`mkBalance`, `insert`, `pending`, `approval`: the overlap query,
getOrCreateBalance in up to three statements, the insert, the increment of
`pendingDays` and the call of the workflow engine. Approving or rejecting is a
read (`ReadForDecision`) and a transaction (`CommitDecision`); so is cancelling.
A rejection without a reason is an approval in the code
(`isApproval = !rejectionReason`), so `ReadForDecision` takes any outcome.

A leave type once deleted keeps the mark `Gone`: ids are never used again.
Reasons and comments are left out; `rejectedReason` is kept as whether there is
one.

Checked with one handler and no failure (`leave_serial`), where the ledger is
exact: `PendingExact`, `UsedExact`, `NoOverlap`, `DecisionFinal`. Checked with two
handlers and a failure (`leave_concurrent`), where those four do not hold (a
double approval books twice), the weaker facts that do: `BalanceConservation`,
`BalanceBehindRequest`, `PendingNeverOverstated`, `UsedCoversApproved`,
`NoReturnToPending`.

### LeaveScheduler

Adds the two jobs as records with the step they are at, the rows they read at
the start and the turns left. Each row takes a find, a create or an update, and
handlers run in between. `Restart` loses handlers and jobs where they stand, and
jobs due that day may be missed. `ServerBehind` is whether the server's clock
still shows the old date at 00:05 IST (the jobs use the server's year).
`GrantLedger` says where every day of `totalDays` came from; `AccrualReachesAll`
that a job that reports completion missed nobody.

### Workflow and ApprovalPromise

`approval` and `steps` are the tables; a decision is a read, an update of the
step and an update of the approval. The history variable `overlapped` records
the entities two handlers worked on at once, so that properties can say what
holds without overlap and what holds with it. `ApprovalPromise` is the abstract
specification; the refinement mapping counts the leading decided steps.

### PayrollAmounts and Payroll

`PayrollAmounts` is what `calculatePayrollEntries`, `calculateDeductions` and
`updatePayrollEntry` compute. Columns hold paise; what is computed from them is
in units, `Scale` of which make a paisa, so that overtime may come to a fraction
of one. A calculation takes taxes and insurance from the gross as computed and
rounds it only when it is stored; an edit starts from the stored gross; every
column is rounded by itself. `Scale` is any multiple of 30. A division drops
what is less than a unit, and nothing at all if `Scale` is a multiple of
384000000 (theorem `NothingDropped`); the theorems hold for every `Scale`, the
run takes 30. Floating point is not modelled. Annual amounts are kept as their
twelfths. The brackets of the tax are filled one after another (`Fill`); the
days of approved leave are counted as pairs of a leave and a day, so that two
leaves on one day count twice, as they do in the code.

In `Payroll` creating, calculating, approving, processing, deleting a run and
editing an entry are each a read with a check of the status, and a write that
does not check it again; calculation has a second read, of employees,
structures, attendance and leave (`Compute`), and one transaction that replaces
all entries (`Replace`). The month is over when payroll runs, so `record`, its
attendance and leave, is chosen at the start. `version` stands for the ids of
the entries: an edit that read an entry of an older version finds it gone. Each
operation writes once, so an operation that fails is a handler that never goes
on. `approvedBy` is left out because the controller passes `req.user.id`, which
the guard never sets. No endpoint gives an employee a structure, so `assigned`
is a constant. The history `overlapped` collects the runs two handlers worked
on at once: `FrozenOnceApproved` and `StatusWorkflow` say what holds without,
`PayslipAddsUp` and `TaxFollowsBrackets` hold in any case. The latter allows for
the rounding of the stored gross: the tax is that of the stored gross or of the
next paisa (at the end of the rebate a paisa decides over the whole tax), to
within a paisa.

### Attendance

`rows` is the attendance table by its unique key (employee, date), `now` the
clock in minutes of Indian time. A check-in is three statements (the read, the
upsert's own look-up, its insert or update), a check-out or a manual entry two.
The upsert loads the employee beside the row, for which Prisma does not use
`ON CONFLICT`: an insert that meets the unique key fails. `id` tells a row from
one that was deleted and made again. `MarkAbsentees` stands for the 23:55 job
and for every look at today's statistics; the 23:59 job reads leave as well and
inserts without skipDuplicates. `Crash` loses handlers and jobs, and a job that
was lost is not started again for that day. The history `stale` collects the
rows that were written from times that had changed since they were read; what
is derived from two times holds outside it, the late minutes, which come with
their check-in, hold everywhere. `isManualEntry: false` is not among the manual
entries (the frontend never sends it), nor are shifts that pass midnight. The
employee's shift does not change. Employees leave (`Terminate`) and are made
active, or created (`Activate`: any row of `employees` may get any status at any
time); the history `joined` has the rows of those who became active after the
23:55 job had begun, whom it has not read.

### Sessions

One account, its rows of `refresh_tokens` and `password_reset_tokens`, and the
browsers that hold its tokens. An access token is signed with its refresh token,
so one name stands for the pair; a name is forgotten, and may be used again,
once no browser, request or handler holds it, which keeps rotation without end
within four names. A request is followed from the browser (`Send`) through the
guard (`Deny`, `Answer`) and the handler's statements back to the interceptor
(`Intercept`, `Store`, `Clear`). A 401 of any request refreshes with whatever
token localStorage holds then; the retried request goes through the same
interceptor. `Unload` closes or reloads the page with a request under way: the
server goes on with it, nobody stores the answer. Two tokens signed in one
second are the same string, so the second insert fails on the unique key
(`signed`, `Collide`).

`before` is a history: the tokens of the sessions begun before sessions were
last revoked. `RevokedSessionsEnd` says none of them is live, but for a refresh
that had passed its check (`late`): that one the code lets through. The status
`lost` of a token (a history) marks one that a refresh has spent whose page went
away before it stored the new pair: the storage keeps it until the next 401, and
`HoldsUsableToken` says that there is no other way to a spent token.

### Staff, Recruitment, Records, Access and Company

A person is named by the e-mail address, the unique key employees, users and
candidates share. `task[h]` is what handler `h` has read and will write; a
handler whose single write is protected by a unique or foreign key is one
action. `edited`, `byHand`, `reached`, `rounded`, `given`, `moved`, `seeded`,
`touched` and `broken` are histories that name the exceptions the properties
have. The employment status is free text in the code: `active`, `terminated` and
any other. The value of a goal is sent in finer units than the column keeps and
rounded when it is stored, while its status follows from what was sent. A
compliance report is its three statements, with whatever comes between them.
There are two seeds: `prisma/seed.ts`, after which the model begins (`Initial`),
and `POST /rbac/seed`, a button of the roles page (`Default`), which creates
another role and gives other permissions. Left out: a change of somebody's
e-mail address (it names the person), renaming a role, and the department a
conversion copies from the job. `Above` is whoever is in every set of people that
is closed under taking the manager.

`Company` composes the four over one database. `desk` says which part of the
system is at work besides employees coming and going: the parts share no rows
but employees and users, so a behaviour in which three of them interleave shows
nothing that one in which each meets the staff does not. `Crew` is whom a part
is about.

### Routes, Services, Hooks, Pages and Client

The first four are tables, translated route by route, call by call, hook by hook
and page by page: the permissions of the controllers and the roles as either
seed leaves them (`basic` is the role `employee` after `POST /rbac/seed`), the
tables a route reads and writes (a table joined only for a name is left out),
query keys and the keys a mutation invalidates, the queries a page shows, its
buttons and the roles they are drawn for.

`Client` is the cache of one tab over such tables, its constants. The entries
of the cache do not influence each other, so a behaviour follows one query
(`watched`) and one change made by a button; the run starts with every query and
presses every button of every page near it. A request in flight when the change
is written may answer from before it; success invalidates what the hook names;
pages open, answers age and are collected; accounts sign in one after another,
and a seed may change what the role of the account is granted (`Reseed`).
A request of an account that has left may be answered, or refused, on a page of
a later one: what a refusal of it leaves on the page stands until the next
answer (`blind`).
`PageShowsOwnWrite` names the pairs of change and query the hooks forget
(`Forgotten`, 19 pairs on one page); everything else must be refreshed. The
tables enter the proofs by `TablesAssumption` alone: a page of the menu asks
only for what its roles are served, but for what `RefusedInMenu` lists; roles of
one name, which only the seed tells apart, are drawn the same menu and buttons; a
guarded button changes only what its roles may; and a mutation invalidates what
it is not listed as forgetting. TLC evaluates it for the code's tables.

## Runs and bounds

| Run | Instance | Why it is enough |
|---|---|---|
| leave_serial | 2 employees, 1 type with 2 days, 3 requests, 3 days over 2 years | three requests are what overlap, reuse of a freed day and a full balance need |
| leave_concurrent | 2 handlers, 2 requests, 2 days in 2 years, 1 failure, a type that may be deactivated, edited or deleted | every race of the service is between two handlers |
| leave_year | 1 handler, 1 request, accrual twice and carry-forward once, 1 restart | the jobs run one after the other and meet a handler at any row |
| leave_overdraft | the instance in which the disagreement shows | |
| workflow | 3 handlers, chains of 0, 1 and 3 approvers with one approver twice, 1 failure | a third handler meets the advance of the first between two of the second |
| payroll | 1 employee, 2 structures (below every threshold; in the highest bracket, both with half a paisa to round), `Scale` 30, 2 runs of one month, 2 handlers, 2 calculations a run | entries of different employees never meet; two runs are what the unique month needs, two calculations what an old version needs |
| attendance | 1 employee, 2 handlers, the 23:55 job, the clock's time and one sent by a client, one manual entry | rows never meet; a race on a row takes two writers, a third is the job |
| attendance_jobs | 2 employees (one with a shift, who leaves and is made active again), both jobs, 1 handler, one leave decided meanwhile | the second employee is whom a failed insert for the first would leave out |
| sessions | 1 browser, 2 requests under way, 4 pairs of tokens, logins, both logouts and resets; every 401 adds a refresh, every page may go away | a race over a token takes two requests; four names are what two requests and the storage can hold |
| sessions_end | the same with data requests, no symmetry | what could go on for ever is two requests refreshing each other's tokens away |
| company | 3 people, 2 handlers, one row (two candidates) of everything else, the roles of both seeds, which differ in one role and one permission; permissions taken by hand, none given (`Chosen`) | a cycle of managers takes two, one beside it three; every race is between two handlers; an empty set is what makes the guard fall back |
| client | all queries, changes and pages of the code, the roles of both seeds; 3 accounts | what outlives a sign-out needs the next account, and a request may arrive past the account in between: a proof attempt failed there, and with two accounts TLC could not have shown why |

Handlers, people of a pair, candidates, tokens, the requests of a browser and run
ids are symmetric where a run says so: no formula names one of them.

Bounds are the constants: `RequestIds` bounds the requests ever made,
`MaxFailures` the failures, `Dates` the calendar, `Tokens` the pairs held at
once, `Accounts` the accounts of a tab, `Kinds` the requests a run sends.
Deadlock is not checked where the bounded calendar ends, the requests run out or
the last account has signed out.

Fairness: `Sessions` has weak fairness of `Step(r)` for every request under way:
the event loop runs every handler whose statement has come back, the browser
every answer that arrives. Nobody is assumed to send, expire or fail.
`EveryRequestEnds` holds under it. Elsewhere no liveness is claimed: nothing in
the code retries, so an operation a failure cut short stays so.

## What is proved

Every safety invariant and every safety action property of the passing runs is
a theorem, for all values of the constants that satisfy the assumptions named
in the modules. TLC evaluates those assumptions on every run. They say:

- constants have the right kind, a null value or a mark is no row
  (`LeaveAssumption`, `NoItem`, `AttendanceAssumption`, `NullAssumption`,
  `WorkflowAssumption`, `SessionsAssumption`, `StaffAssumption`,
  `RecruitmentAssumption`, `RecordsAssumption`, `AccessAssumption`,
  `CompanyAssumption`, `ClientAssumption`);
- what is counted or added up is finite (`RequestsFinite`, and parts of the
  others), as any table is;
- years begin on their first day and do not go back (`CalendarAssumption`);
- columns of money hold whole, non-negative amounts (`PayrollAssumption`), as the
  DTOs have it, and half a paisa, a twelfth of a rupee and a thirtieth of a paisa
  are whole units (`ScaleAssumption`);
- what the tables of pages, calls and routes fulfil (`TablesAssumption`, which
  TLC evaluates over the whole tables).

Where a theorem has a hypothesis of its own, it names an instance the property
is about: `OneHandler` (requests served one at a time) and `NoFailure` for the
exact ledger, `~ServerBehind` (the jobs' server shows the Indian date) and
`LimitsKept` (nobody edits an annual limit) for the days granted. Without them
the ledgers are false of the code, not only unproved: two approvals at once
book twice, a failure leaves days uncounted, a server one day behind carries
into the wrong year, and an edited limit is no longer what old balances were
granted. The runs leave_serial and leave_year are such instances.

### Leave

- `LInvInductive`: the inductive invariant of the tables.
  `BalanceBehindRequest` alone is not inductive: that an insert finds its
  balance depends on the handler having found or made it (`HandlerOK`), that a
  request keeps its type depends on every balance keeping its type
  (`TypeBehindBalance`), and that an insert does not overwrite a request depends
  on handlers holding different ids. `TypeCorrect` and
  `BalanceBehindRequestHolds` are consequences.
- `BalanceConserved` (the split of the granted days) and `NeverPendingAgain`.
- `LedgerInductive`: the ledger with any number of handlers and failures, and
  from it `PendingDaysBacked` and `ApprovedLeaveIsUsed`.
  `PendingNeverOverstated` is not inductive: a request is stored one statement
  before its days are counted, so the invariant leaves room for those
  (`PendingLedger`, with `Uncounted`).
- The exact ledger of requests served one at a time: `SerialInductive` (what a
  handler read of its request, and the overlap it ruled out, is still so when
  it writes), then `SerialNoOverlap`, `SerialDecisionFinal`, `SerialUsedExact`
  and `SerialPendingExact`. The first three hold through failures.
- The sums over the requests of a balance come from a fold of the community
  modules. What they do when a request is added, taken out or grows is proved
  first (`SumTakeOut`, `SumAgree`, `SumMonotone`, `SumChangeOne`), each by
  a smallest set for which it would fail (`MinimalSubset`), since the library's
  induction over finite sets cannot be instantiated.

### Leave jobs

`LeaveYear_proofs` carries these invariants over to the service beside both
jobs and restarts (`YearInductive`, `YearBalanceBehindRequest`, `YearLedger`),
with `JobsTypeCorrect` for the jobs themselves. `GrantsInductive` is about the
days granted. It adds to `GrantLedger` what is still outstanding: a balance has
had an accrual less while its turn is to come (`Granted`, `Accruals`), it
carries days only after its turn (`CarriedOnce`), no job has two turns for a
balance (`OneTurnEach`), what handlers and jobs read of a limit is still so
(`HandlersKnowLimits`, `ItemsKnowLimits`), and the jobs run on their days
(`AccrualDay`, `CarryDay`). `GrantedOnce` and `AccrualComplete` follow.

### Workflow

All from the invariant `WInv` (`NextKeeps`):

- `StepsAlwaysInOrder`, `ApprovedIsDecided`, `AlwaysWaitsAtFirstOpenStep`. The
  invariant adds what the properties do not say: the steps before the current
  one are passed and those after it open (`RowOK`), what a deciding handler read
  of its step still holds when it writes (`HandlerOK`), two handlers on one
  approval have been noticed (`AloneOK`), and the current step is open but
  between the two writes of its decision (`Open`).
- `EngineKeepsPromise`: initial states map to initial states, and each statement
  of the engine maps to a step of `ApprovalPromise` or a stutter (`NextRefines`).

### Payroll

`PayrollInductive`, by `PInv`: every stored payslip, and every one a handler is
about to store, was made by `calculatePayrollEntries` or `updatePayrollEntry`
(`Payslip`); an approved run is never a draft again and the id of a run being
created is free (`LastsFor`); a handler alone on its run finds the status its
guard saw (`AloneOn`). `PayslipsAddUp` and `TaxWithheld` rest on the arithmetic
of one payslip (`CalculatedFits`, `EditedFits`, `TdsIsBrackets`), for any
salaries and attendance; `RunsGoForward` and `ApprovedIsFrozen` on what a step
does to a run and to its entries (`RunStep`, `EntriesStep`).
`PayrollTypeCorrect` is a consequence. `NothingDropped` ties the units of
`PayrollAmounts` to the formulas of the code: with a `Scale` that is a multiple
of 384000000 no division leaves a remainder.

### Attendance

- `AInvHolds`: the inductive invariant of the types. `LateMatchesCheckIn` alone
  is not inductive: a manual edit writes back the late minutes it read, so what
  it holds must have them right as well (`LateOK` in `HoldsRequest`).
  `AttendanceTypes` and `LateMinutesBelong` follow. That a new row finds an
  unused id is a counting argument (`NewIdType`).
- `RowsFitTogether`: what is derived from two times fits them outside `stale`,
  and what a handler read still has the missing time its guard saw (`ReadFits`),
  together with what any step may do to a row (`RowsMove`). `WorkBelongs`,
  `StatusBelongs` and `TimesAreKept` follow.
- `CronCoversAll`: while the 23:55 job is under way, whoever is active is on its
  list, has a row, or became active since it began (`CronCovers`);
  `NobodyMissed` follows.

### Sessions

First, every step of a request but the minting of a pair is a `Move` with its
`Rows`: the request carries nothing but what it or its browser had, and revokes
no token but the one it exchanges (`StepMoves`).

- `EndedSessionsStayEnded`, from `EndInv`: a refresh about to revoke or mint for
  a session that was revoked was past its check by then (`Late`), so the pair it
  mints is not counted among the sessions that must be over.
- `BrowsersKeepUsableTokens`, from `UsableInv`: no token is in two browsers
  (`Apart`), a pair on its way to its browser is good and known to nobody else
  (`Fresh`), and what a page leaves behind when it goes away (`UnloadMoves`) is
  marked as lost (`Good`, `Kept`).

### Company

`CompanyTypes` is that the composition is well typed; the frames beside it say
that a service changes its own tasks and its own tables only.

- `EverySignedOut` by `SignedOut` (an active account is linked to somebody who
  is not terminated and whom no removal that missed the account will terminate);
  `EveryManagerEmployed`, because nobody stops being an employee.
- `HierarchyComplete`: the query unfolds four levels. Whoever it leaves out has
  four managers in a row, and five of at most four people repeat
  (`FiveOfFour`, `MissedTurn`); whoever it shows has a line that ends
  (`LinesEnd`). The number of people is not bounded, only that of the
  employees, by the property itself.
- `EveryHiredEmployed` by `Converting` (a conversion about to hire has inserted
  its employee, and no other candidate has the row).
- `EveryGoalFits` by what a pending progress may still write (`ProgressTasks`);
  `EveryDocumentComplete` by `ReviewInv` and `FilingInv` (whoever will
  acknowledge has seen a dated row, whoever will file holds the receipt of the
  row); `EveryReportAgrees` by what each of the three statements still knows of
  the people who did not move since (`ReportInv`:
  `CountedAcknowledged`, `ListedPending`).
- `SystemRolesStayIntact` and `AdminMayAlwaysReseed` by `AccessInv`, whose core
  is that a role not touched by hand has all the permissions the last seed gave
  it, or none (`AsSeeded`).

### Client

For any number of accounts in a tab and any tables that fulfil
`TablesAssumption`: `ClientInductive` by `CInv` (a change was offered by its
page to the role that made it: `ChangeOK`; no request is of a later account, and
one of this account is served as its role is: `AccountsOK`; a tab that was
loaded afresh holds its own answers only: `SessionOK`; what was invalidated is
asked for again, or marked until a page shows it: `RefreshOK`). From it
`ClientTypeCorrect`, `ExpiredSessionsShowOwn`, `OwnWritesAreShown`,
`MenuLeadsToServed` and `GuardedButtonsWork`. That a seed changes a role under a
page which is open is `ReseedKeeps`. The proof of `RefreshOK` failed at
first where a request of an earlier account is refused on the page of a later
one, which TLC confirmed with three accounts; the run has had three since, and
the page shows the error until the next answer (`blind`).

### Only model-checked

Liveness (`EveryRequestEnds`) is out of the prover's reach.

## Disagreements and limits of the code

One run expects a violation: leave_overdraft. The balance check looks at
`remainingDays` only; two pending requests may overdraw a balance.

Found while modelling and reachable in the models, without a run of their own:

- Carrying forward does not debit the old year, so its days can be spent twice
  (`scheduler.service.ts:178`; `backend.md:624` speaks of remaining leaves).
- An approval and a rejection of one step may leave an approved approval with a
  rejected step (`workflow.service.ts:249`); `FullyApproved` therefore asks only
  for decided steps where requests overlapped. A failure between the two writes
  of a decision leaves an approval nobody can approve again.
- Leave days are subtracted from absent days by number, so leave on days that
  are not marked absent pays for absences on others (`payroll.service.ts:412`);
  31 absences make the net salary negative (`:426`).
- The 23:55 job marks employees on approved leave absent; the 23:59 job, which
  would mark them on leave, skips whoever has a row (`attendance.service.ts:670`).
  Whoever is made active while the 23:55 job runs has no row that day (`:650`).
  A check-out after midnight looks for the row of the new day (`:182`).
- The jobs at 00:05 and 00:10 take the year from the server's own clock
  (`scheduler.service.ts:169`).
- A logout whose request fails or is refused leaves the refresh token live on
  the server while the browser forgets it (`auth-service.ts:178`, against
  `backend.md:192`). A refresh that passed its check before a logout from
  everywhere survives it.
- A page that is closed or reloaded between the revocation of its refresh token
  (`auth.service.ts:211`) and the store of the new one (`axios.ts:55`) leaves the
  browser with a spent token: the user has to sign in again.
- The tab that loses a rotation clears the tokens the winner has just stored.
  A login with a wrong password, in a browser where another tab is signed in,
  is refreshed and sent again for ever (`axios.ts:46`, whose comment says the
  login is skipped); `EveryRequestEnds` excepts it.
- Two resets that overlap may both use one token (`auth.service.ts:458`). The
  lockout functions (`auth.service.ts:547-592`) are called by nobody.
- A few legal assignments make a cycle of managers, and the hierarchy shows none
  of its members (`employees.service.ts:411`).
- `filedBy` and the run's `approvedBy` stay empty because the controllers pass
  `req.user.id`, which the guard never sets. `helpdesk.controller.ts:55` asks
  for `req.user.role.name`, which is never set either. `assignTicket` has no
  route.
- A deletion of a role may race an assignment of it (`rbac.service.ts:202`);
  emptying a role leaves its users the permissions in their tokens, because an
  empty list makes the guard fall back to them (`jwt-auth.guard.ts:86`).
- Reviews and filings can step back from acknowledged to submitted or filed.
  Deleting a department or a job takes along what came in after the count. The
  generated employee code is taken once two conversions count at a time, or when
  codes were given by hand (`recruitment.service.ts:361`). A goal with target 0
  has no progress (a division by zero). The compliance rate of a policy counts
  former employees, and its count and list may disagree
  (`compliance.service.ts:260`).
  A progress that rounds up to the target shows it, the goal in progress
  (`performance.service.ts:147`).
- No seed creates the permissions of recruitment, compliance, shifts and
  holidays: their menus show for nobody, the routes of shifts and holidays
  refuse even administrators (`RBAC-DOCUMENTATION.md` says they can access all),
  and the buttons of the filings page are drawn for nobody. `@Roles('hr')`
  admits nobody after `prisma/seed.ts`, whose role is `hr_manager`.
- The two seeds disagree. The "Seed Defaults" button of the roles page takes
  `attendance:create` and `departments:read` from `employee`
  (`rbac.service.ts:454`), while the menu goes on leading to Departments, and
  creates the role `hr`, which `@Roles('hr')` admits but which has no analytics,
  so that its landing page is refused.
- A day with less than four hours of work is a half-day only if it began late:
  `determineStatus` (`attendance.service.ts:91`) looks at the hours only of those
  who came late, where `backend.md:304` says "Worked less than 4 hours".
- The landing page after each sign-in shows the executive summary, which refuses
  employees. The sidebar looks at the permissions of top-level entries only.
- Signing out keeps the query cache and joins the next account to requests in
  flight (`auth-context.tsx:85`, against `architect.md:317`).
- For 122 pairs of a mutation and a query whose tables meet, the mutation does
  not invalidate the key (`architect.md:296` promises it on mutations); the
  answer may be five minutes old. `useApprovals` ignores its parameters, and the
  key the decisions invalidate ends in `undefined` and matches no list that has
  some.

## Not modelled

Uploads (files), audit (append only), e-mail (an external service), the HTTP
pipeline, configuration and health checks (no state), migrations and the sample
data of the seed (offline). Reminder jobs and the compliance job only read and
log. Of authentication: registration, e-mail verification and the lockout. Of
helpdesk, notifications, shifts, holidays and analytics: the rows themselves,
which no rule relates to each other; nothing in the source creates a
notification. Of the frontend: layout, forms and local state, a second tab,
refetching on focus or reconnect, polling, the shorter stale times of three
queries, the notification center in the header, the settings page, whose data is
built in, other years on the leave dashboard, and roles whose permissions were
edited by hand.
