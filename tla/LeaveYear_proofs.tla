-------------------------- MODULE LeaveYear_proofs --------------------------
(***************************************************************************)
(* Theorems about LeaveScheduler: the leave service with the jobs that     *)
(* grant leave and the restarts that cut them short.                       *)
(***************************************************************************)
EXTENDS LeaveScheduler, Leave_proofs

(* The inductive invariant of the tables and the jobs. *)

\* A job works for a year of the calendar, has turns left only while it runs,
\* and credits a balance that is there.
JobReady(job, balances) ==
    /\ job.step # "idle" => job.year \in Years
    /\ ~Running(job) => job.todo = {}
    /\ job.step = "credit" => balances[ItemKey(job, job.cur)] # NULL

JobTyped(job, steps) ==
    /\ job \in Job(steps)
    /\ job.cur # NULL <=> job.step \in {"create", "credit"}
    /\ job.cur # NULL => job.cur \in job.todo
    /\ job.step # "types" => job.todo \subseteq job.items

YearInv ==
    /\ LInv
    /\ due \subseteq {"accrual", "carry"}
    /\ due # {} => today - 1 \in Dates
    /\ JobTyped(accrual, AccrualSteps) /\ JobReady(accrual, leaveBalance)
    /\ JobTyped(carry, CarrySteps) /\ JobReady(carry, leaveBalance)

LEMMA YearInvTypes == ASSUME YearInv PROVE JobTypeOK
BY DEF YearInv, JobTyped, JobTypeOK

\* The balances that a job finds, makes and credits.
LEMMA ItemKeyType ==
    ASSUME NEW job, NEW item \in Item, job.year \in Years
    PROVE  /\ ItemKey(job, item) \in Keys
           /\ ItemKey(job, item)[2] = item.leaveTypeId
           /\ ItemKey(job, item)[3] = job.year
BY DEF ItemKey, Keys, Item

LEMMA NextTurnFields ==
    ASSUME NEW steps, "find" \in steps, "done" \in steps, NEW job \in Job(steps)
    PROVE  /\ NextTurn(job).step \in {"find", "done"}
           /\ NextTurn(job).step = "done" <=> job.todo \ {job.cur} = {}
           /\ NextTurn(job).year = job.year /\ NextTurn(job).items = job.items
           /\ NextTurn(job).todo = job.todo \ {job.cur}
           /\ NextTurn(job).cur = NULL
           /\ NextTurn(job) \in Job(steps)
BY DEF NextTurn, Job

LEMMA AbortFields ==
    ASSUME NEW steps, "aborted" \in steps, NEW job \in Job(steps)
    PROVE  /\ Abort(job).step = "aborted"
           /\ Abort(job).year = job.year /\ Abort(job).items = job.items
           /\ Abort(job).todo = {} /\ Abort(job).cur = NULL
           /\ Abort(job) \in Job(steps)
BY DEF Abort, Job

LEMMA BeginFields ==
    ASSUME NEW steps, "find" \in steps, "done" \in steps,
           NEW year \in Int, NEW items \in SUBSET Item
    PROVE  /\ Begin(year, items).step \in {"find", "done"}
           /\ Begin(year, items).step = "done" <=> items = {}
           /\ Begin(year, items).year = year /\ Begin(year, items).items = items
           /\ Begin(year, items).todo = items /\ Begin(year, items).cur = NULL
           /\ Begin(year, items) \in Job(steps)
BY DEF Begin, Job

\* The job after a turn, after an error and at its start.
LEMMA NextTurnOK ==
    ASSUME NEW steps, "find" \in steps, "done" \in steps, NEW job \in Job(steps),
           job.todo \subseteq job.items, job.year \in Years, NEW balances
    PROVE  JobTyped(NextTurn(job), steps) /\ JobReady(NextTurn(job), balances)
<1>1. JobTyped(NextTurn(job), steps)
  BY NextTurnFields DEF JobTyped
<1>2. JobReady(NextTurn(job), balances)
  BY NextTurnFields DEF JobReady, Running
<1> QED BY <1>1, <1>2

LEMMA AbortOK ==
    ASSUME NEW steps, "aborted" \in steps, NEW job \in Job(steps),
           job.year \in Years, NEW balances
    PROVE  JobTyped(Abort(job), steps) /\ JobReady(Abort(job), balances)
<1>1. JobTyped(Abort(job), steps)
  BY AbortFields DEF JobTyped
<1>2. JobReady(Abort(job), balances)
  BY AbortFields DEF JobReady, Running
<1> QED BY <1>1, <1>2

LEMMA BeginOK ==
    ASSUME NEW steps, "find" \in steps, "done" \in steps,
           NEW year \in Years, NEW items \in SUBSET Item, NEW balances
    PROVE  /\ JobTyped(Begin(year, items), steps)
           /\ JobReady(Begin(year, items), balances)
<1>1. year \in Int
  BY SchedulerAssumption
<1>2. JobTyped(Begin(year, items), steps)
  BY <1>1, BeginFields DEF JobTyped
<1>3. JobReady(Begin(year, items), balances)
  BY <1>1, BeginFields DEF JobReady, Running
<1> QED BY <1>2, <1>3

\* A turn is taken up: its balance is to be made, or is there.
LEMMA TakeUpOK ==
    ASSUME NEW steps, NEW job, JobTyped(job, steps), job.step = "find",
           job.year \in Years, NEW item \in job.todo, NEW balances,
           NEW s \in {"create", "credit"}, s \in steps,
           s = "credit" => balances[ItemKey(job, item)] # NULL
    PROVE  /\ JobTyped([job EXCEPT !.cur = item, !.step = s], steps)
           /\ JobReady([job EXCEPT !.cur = item, !.step = s], balances)
<1> DEFINE new == [job EXCEPT !.cur = item, !.step = s]
<1>1. job \in Job(steps) /\ item \in Item /\ item \in job.items /\ item # NULL
  BY NoItem DEF JobTyped, Job
<1>2. /\ new.step = s /\ new.year = job.year /\ new.items = job.items
      /\ new.todo = job.todo /\ new.cur = item /\ new \in Job(steps)
  BY <1>1 DEF Job
<1>3. JobTyped(new, steps)
  BY <1>1, <1>2 DEF JobTyped
<1>4. ItemKey(new, item) = ItemKey(job, item)
  BY <1>2 DEF ItemKey
<1>5. JobReady(new, balances)
  BY <1>2, <1>4 DEF JobReady, Running
<1> QED BY <1>3, <1>5

\* No balance disappears.
BalancesStay ==
    \A k \in Keys : leaveBalance[k] # NULL => leaveBalance'[k] # NULL

\* A job that does not move stays ready.
LEMMA StaysReady ==
    ASSUME NEW steps, NEW job, JobTyped(job, steps), JobReady(job, leaveBalance),
           BalancesStay
    PROVE  JobReady(job, leaveBalance')
<1>1. job.step = "credit" => leaveBalance'[ItemKey(job, job.cur)] # NULL
  <2> SUFFICES ASSUME job.step = "credit"
               PROVE  leaveBalance'[ItemKey(job, job.cur)] # NULL
    OBVIOUS
  <2>1. job.cur \in Item /\ job.year \in Years
    BY DEF JobTyped, JobReady, Job
  <2>2. ItemKey(job, job.cur) \in Keys
    BY <2>1, ItemKeyType
  <2> QED BY <2>2 DEF JobReady, BalancesStay
<1> QED BY <1>1 DEF JobReady

\* A job rewrites one balance and nothing else in the tables.
LEMMA JobWriteLInv ==
    ASSUME LInv, NEW key \in Keys, NEW b \in Balance, IsType(key[2]),
           leaveBalance' = [leaveBalance EXCEPT ![key] = b],
           UNCHANGED <<today, leaveType, leaveRequest, approvals, pc, loc, failures>>
    PROVE  /\ LInv' /\ BalancesStay /\ leaveBalance'[key] = b
           /\ \A k \in Keys : k # key => leaveBalance'[k] = leaveBalance[k]
<1>1. b # NULL
  BY LeaveAssumption
<1>2. /\ leaveBalance'[key] = b
      /\ \A k \in Keys : k # key => leaveBalance'[k] = leaveBalance[k]
  BY DEF LInv, TypeOK
<1>3. BalancesStay
  BY <1>1, <1>2 DEF BalancesStay
<1>4. TypeOK'
  BY DEF LInv, TypeOK
<1>5. BalanceBehindRequest'
  <2>1. \A r \in RequestIds :
           leaveRequest[r] # NULL => KeyOf(leaveRequest[r]) \in Keys
    BY KeyOfType DEF LInv, TypeOK
  <2> QED BY <1>3, <2>1 DEF LInv, BalanceBehindRequest, BalancesStay, IsType
<1>6. TypeBehindBalance'
  BY <1>2 DEF LInv, TypeBehindBalance, IsType
<1>7. ASSUME NEW h \in Handlers PROVE HandlerOK(h)'
  <2>1. pc[h] \in CreateSteps => KeyOf(loc[h].form) \in Keys
    BY KeyOfType DEF LInv, TypeOK, CreateLoc
  <2> QED BY <1>3, <2>1 DEF LInv, HandlerOK, BalancesStay, KeyOf, CreateSteps
<1> QED BY <1>2, <1>3, <1>4, <1>5, <1>6, <1>7 DEF LInv

\* What one statement of the service writes to the balances: nothing, a
\* booking that keeps the days granted, or a new row with the limit its
\* handler read.
Books(key, b) ==
    /\ leaveBalance[key] # NULL
    /\ b.totalDays = leaveBalance[key].totalDays
    /\ b.carriedForward = leaveBalance[key].carriedForward

MadeBy(h, key, b) ==
    /\ pc[h] = "mkBalance" /\ leaveBalance[key] = NULL
    /\ loc[h] \in CreateLoc /\ key = KeyOf(loc[h].form)
    /\ IsType(loc[h].form.leaveTypeId)
    /\ b = NewBalance(loc[h].limit, 0)

LEMMA BalanceWrites ==
    ASSUME LInv, ServiceStep
    PROVE  \/ leaveBalance' = leaveBalance
           \/ \E key \in Keys, b \in Balance :
                 /\ leaveBalance' = [leaveBalance EXCEPT ![key] = b]
                 /\ Books(key, b) \/ \E h \in Handlers : MadeBy(h, key, b)
<1> DEFINE Goal == \E key \in Keys, b \in Balance :
                      /\ leaveBalance' = [leaveBalance EXCEPT ![key] = b]
                      /\ Books(key, b) \/ \E h \in Handlers : MadeBy(h, key, b)
<1>1. ASSUME NEW h \in Handlers, CreateBalance(h), ~UNCHANGED leaveBalance
      PROVE  Goal
  <2> DEFINE key == KeyOf(loc[h].form)
             b == NewBalance(loc[h].limit, 0)
  <2>1. /\ pc[h] = "mkBalance" /\ leaveBalance[key] = NULL
        /\ IsType(loc[h].form.leaveTypeId)
        /\ leaveBalance' = [leaveBalance EXCEPT ![key] = b]
    BY <1>1 DEF CreateBalance
  <2>2. loc[h] \in CreateLoc /\ loc[h].form \in Form /\ loc[h].limit \in Int
    BY <2>1 DEF LInv, TypeOK, CreateSteps, CreateLoc
  <2>3. key \in Keys /\ b \in Balance
    BY <2>2, KeyOfType DEF NewBalance, Balance
  <2>4. MadeBy(h, key, b)
    BY <2>1, <2>2 DEF MadeBy
  <2> QED BY <2>1, <2>3, <2>4
<1>2. ASSUME NEW h \in Handlers, AddPending(h)
      PROVE  Goal
  <2>1. PICK f \in Form : f = loc[h].form
    BY <1>2 DEF LInv, TypeOK, AddPending, CreateSteps, CreateLoc
  <2>2. PICK key \in Keys, d \in Int : key = KeyOf(f) /\ d = LeaveDays(f)
    BY KeyOfType, NewRequestType
  <2>3. PICK old \in Balance : old = leaveBalance[key] /\ old # NULL
    BY <1>2, <2>1, <2>2, LeaveAssumption DEF LInv, TypeOK, HandlerOK, AddPending
  <2> DEFINE b == [old EXCEPT !.pendingDays = @ + d]
  <2>4. leaveBalance' = [leaveBalance EXCEPT ![key] = b]
    BY <1>2, <2>1, <2>2, <2>3 DEF AddPending, LInv, TypeOK
  <2>5. b \in Balance /\ Books(key, b)
    BY <2>3 DEF Balance, Books
  <2> QED BY <2>4, <2>5
<1>3. ASSUME NEW h \in Handlers, CommitDecision(h) \/ CommitCancel(h),
             ~UNCHANGED leaveBalance
      PROVE  Goal
  <2>1. PICK id \in RequestIds : id = loc[h].id
    BY <1>3, WrittenRow
  <2>2. leaveRequest[id] # NULL
    BY <1>3, <2>1, WrittenRow, LeaveAssumption
  <2>3. PICK row \in Request, key \in Keys, old \in Balance, d \in Int :
           /\ row = leaveRequest[id] /\ row.days = d
           /\ key = KeyOf(row) /\ old = leaveBalance[key] /\ old # NULL
    BY <2>2, ChargedBalance
  <2>4. \/ leaveBalance' = [leaveBalance EXCEPT ![key] = Booked(old, d)]
        \/ leaveBalance' = [leaveBalance EXCEPT ![key] = Released(old, d)]
    <3>1. CASE CommitDecision(h)
      <4>1. leaveBalance' = IF leaveBalance[KeyOf(leaveRequest[loc[h].id])] = NULL
              THEN leaveBalance
              ELSE [leaveBalance EXCEPT ![KeyOf(leaveRequest[loc[h].id])] =
                      IF loc[h].approve
                      THEN Booked(leaveBalance[KeyOf(leaveRequest[loc[h].id])],
                                  leaveRequest[loc[h].id].days)
                      ELSE Released(leaveBalance[KeyOf(leaveRequest[loc[h].id])],
                                    leaveRequest[loc[h].id].days)]
        BY <3>1 DEF CommitDecision, UpdateBalance
      <4> QED BY <2>1, <2>3, <4>1
    <3>2. CASE CommitCancel(h)
      <4>1. leaveBalance' = IF leaveBalance[KeyOf(leaveRequest[loc[h].id])] = NULL
              THEN leaveBalance
              ELSE [leaveBalance EXCEPT ![KeyOf(leaveRequest[loc[h].id])] =
                      Released(leaveBalance[KeyOf(leaveRequest[loc[h].id])],
                               leaveRequest[loc[h].id].days)]
        BY <1>3, <3>2 DEF CommitCancel, UpdateBalance
      <4> QED BY <2>1, <2>3, <4>1
    <3> QED BY <1>3, <3>1, <3>2
  <2>5. /\ Booked(old, d) \in Balance /\ Books(key, Booked(old, d))
        /\ Released(old, d) \in Balance /\ Books(key, Released(old, d))
    <3>1. Booked(old, d) \in Balance /\ Released(old, d) \in Balance
      BY BalanceTypes
    <3>2. Books(key, Booked(old, d))
      BY <2>3 DEF Books, Booked, Balance
    <3>3. Books(key, Released(old, d))
      BY <2>3 DEF Books, Released, Balance
    <3> QED BY <3>1, <3>2, <3>3
  <2> QED BY <2>4, <2>5
<1>4. ASSUME ~UNCHANGED leaveBalance
      PROVE  \E h \in Handlers : \/ CreateBalance(h) \/ AddPending(h)
                                \/ CommitDecision(h) \/ CommitCancel(h)
  BY <1>4 DEF ServiceStep, CreateStep, DecideStep, CancelStep, TypeStep, Fail,
     Submit, CheckOverlap, ReadBalance, ReadLimit, InsertRequest,
     CreateApproval, ReadForDecision, ReadForCancel, CreateLeaveType,
     UpdateLeaveType, DeleteLeaveType, tables
<1> QED BY <1>1, <1>2, <1>3, <1>4

LEMMA ServiceBalancesStay == ASSUME LInv, ServiceStep PROVE BalancesStay
<1>1. CASE leaveBalance' = leaveBalance
  BY <1>1 DEF BalancesStay
<1>2. ASSUME NEW key \in Keys, NEW b \in Balance,
             leaveBalance' = [leaveBalance EXCEPT ![key] = b]
      PROVE  BalancesStay
  <2>1. \A k \in Keys : leaveBalance'[k] = IF k = key THEN b ELSE leaveBalance[k]
    BY <1>2 DEF LInv, TypeOK
  <2> QED BY <2>1, LeaveAssumption DEF BalancesStay
<1> QED BY <1>1, <1>2, BalanceWrites

-----------------------------------------------------------------------------
(* The steps of the jobs keep the invariant. *)

\* The year of a job that starts today.
LEMMA ServerYearType ==
    ASSUME YearInv, due # {}
    PROVE  ServerYear \in Years /\ (~ServerBehind => ServerYear = YearOf[today])
<1>1. today \in Dates /\ today - 1 \in Dates
  BY DEF YearInv, LInv, TypeOK
<1> QED BY <1>1, LeaveAssumption DEF ServerYear

\* What the accrual sets out to do.
AccrualItems ==
    {[employeeId |-> e, leaveTypeId |-> t,
      limit |-> leaveType[t].annualLimit, cap |-> 0,
      days |-> MonthlyAccrual(leaveType[t].annualLimit)] :
         e \in Employees, t \in ActiveTypes}

CarryItems ==
    {[employeeId |-> e, leaveTypeId |-> t,
      limit |-> leaveType[t].annualLimit,
      cap |-> leaveType[t].maxCarryForward, days |-> 0] :
         e \in Employees,
         t \in {a \in ActiveTypes : leaveType[a].carryForwardAllowed}}

LEMMA ActiveTypeRows ==
    ASSUME LInv, NEW t \in ActiveTypes
    PROVE  /\ t \in LeaveTypes /\ IsType(t)
           /\ leaveType[t].annualLimit \in Int
           /\ leaveType[t].maxCarryForward \in Int
<1>1. t \in LeaveTypes /\ IsType(t) /\ leaveType[t] \in TypeRows
  BY DEF LInv, TypeOK, ActiveTypes, IsType
<1> QED BY <1>1, LeaveAssumption DEF LeaveTypeRow

LEMMA ItemTypes ==
    ASSUME LInv
    PROVE  AccrualItems \in SUBSET Item /\ CarryItems \in SUBSET Item
<1>1. ASSUME NEW e \in Employees, NEW t \in ActiveTypes
      PROVE  /\ [employeeId |-> e, leaveTypeId |-> t,
                 limit |-> leaveType[t].annualLimit, cap |-> 0,
                 days |-> MonthlyAccrual(leaveType[t].annualLimit)] \in Item
             /\ [employeeId |-> e, leaveTypeId |-> t,
                 limit |-> leaveType[t].annualLimit,
                 cap |-> leaveType[t].maxCarryForward, days |-> 0] \in Item
  <2>1. PICK limit \in Int, cap \in Int :
           limit = leaveType[t].annualLimit /\ cap = leaveType[t].maxCarryForward
    BY ActiveTypeRows
  <2>2. MonthlyAccrual(limit) \in Int
    BY DEF MonthlyAccrual
  <2> QED BY <2>1, <2>2, ActiveTypeRows DEF Item
<1>2. ASSUME NEW i \in AccrualItems PROVE i \in Item
  <2>1. PICK e \in Employees, t \in ActiveTypes :
           i = [employeeId |-> e, leaveTypeId |-> t,
                limit |-> leaveType[t].annualLimit, cap |-> 0,
                days |-> MonthlyAccrual(leaveType[t].annualLimit)]
    BY <1>2 DEF AccrualItems
  <2> QED BY <1>1, <2>1
<1>3. ASSUME NEW i \in CarryItems PROVE i \in Item
  <2>1. PICK e \in Employees, t \in ActiveTypes :
           i = [employeeId |-> e, leaveTypeId |-> t,
                limit |-> leaveType[t].annualLimit,
                cap |-> leaveType[t].maxCarryForward, days |-> 0]
    BY <1>3 DEF CarryItems
  <2> QED BY <1>1, <2>1
<1> QED BY <1>2, <1>3

\* The frame of the invariant: a step that leaves the tables and one of the
\* jobs alone.
LEMMA JobStepFrame ==
    ASSUME YearInv, LInv', BalancesStay, today' = today, due' \subseteq due,
           \/ /\ carry' = carry
              /\ JobTyped(accrual', AccrualSteps)
              /\ JobReady(accrual', leaveBalance')
           \/ /\ accrual' = accrual
              /\ JobTyped(carry', CarrySteps)
              /\ JobReady(carry', leaveBalance')
    PROVE  YearInv'
<1>1. JobReady(accrual, leaveBalance') /\ JobReady(carry, leaveBalance')
  BY StaysReady DEF YearInv
<1>2. /\ JobTyped(accrual', AccrualSteps) /\ JobReady(accrual', leaveBalance')
      /\ JobTyped(carry', CarrySteps) /\ JobReady(carry', leaveBalance')
  BY <1>1 DEF YearInv
<1>3. due' \subseteq {"accrual", "carry"} /\ (due' # {} => today' - 1 \in Dates)
  BY DEF YearInv
<1> QED BY <1>2, <1>3 DEF YearInv, JobTyped, JobReady

\* A step that writes no table.
LEMMA QuietTables ==
    ASSUME LInv, UNCHANGED leaveVars
    PROVE  LInv' /\ BalancesStay /\ today' = today /\ leaveBalance' = leaveBalance
<1>1. LInv'
  BY LInvNext
<1> QED BY <1>1 DEF leaveVars, tables, BalancesStay

LEMMA AccrualStartInv == ASSUME YearInv, AccrualStart PROVE YearInv'
<1>1. /\ due' \subseteq due /\ carry' = carry /\ UNCHANGED leaveVars
      /\ accrual' = Begin(ServerYear, AccrualItems)
  BY DEF AccrualStart, AccrualItems
<1>2. PICK y \in Years, items \in SUBSET Item :
         y = ServerYear /\ items = AccrualItems
  BY ServerYearType, ItemTypes DEF AccrualStart, YearInv
<1>3. /\ JobTyped(Begin(y, items), AccrualSteps)
      /\ JobReady(Begin(y, items), leaveBalance')
  BY BeginOK DEF AccrualSteps
<1> QED BY <1>1, <1>2, <1>3, QuietTables, JobStepFrame DEF YearInv

\* What a job under way looks like.
LEMMA JobUnderWay ==
    ASSUME NEW steps, NEW job, JobTyped(job, steps), NEW balances,
           JobReady(job, balances), job.step \in {"find", "create", "credit"}
    PROVE  /\ job \in Job(steps) /\ job.year \in Years
           /\ job.todo \subseteq job.items /\ job.todo \subseteq Item
           /\ job.step # "find" =>
                 /\ job.cur \in job.todo /\ job.cur \in Item
                 /\ ItemKey(job, job.cur) \in Keys
                 /\ ItemKey(job, job.cur)[2] = job.cur.leaveTypeId
           /\ job.step = "credit" => balances[ItemKey(job, job.cur)] # NULL
<1>1. job \in Job(steps) /\ job.year \in Years /\ job.todo \subseteq Item
  BY DEF JobTyped, JobReady, Job
<1>2. job.todo \subseteq job.items
  BY DEF JobTyped
<1>3. job.step # "find" => job.cur \in job.todo /\ job.cur \in Item
  BY <1>1 DEF JobTyped
<1>4. job.step # "find" => /\ ItemKey(job, job.cur) \in Keys
                           /\ ItemKey(job, job.cur)[2] = job.cur.leaveTypeId
  BY <1>1, <1>3, ItemKeyType
<1> QED BY <1>1, <1>2, <1>3, <1>4 DEF JobReady

LEMMA AccrualFindInv ==
    ASSUME YearInv, NEW item \in accrual.todo, AccrualFind(item)
    PROVE  YearInv'
<1> DEFINE turn == [accrual EXCEPT !.cur = item]
<1>1. /\ accrual.step = "find" /\ due' = due /\ carry' = carry
      /\ UNCHANGED leaveVars /\ leaveBalance' = leaveBalance
  BY DEF AccrualFind, leaveVars, tables
<1>2. /\ accrual \in Job(AccrualSteps) /\ accrual.year \in Years
      /\ accrual.todo \subseteq accrual.items /\ item \in Item
      /\ JobTyped(accrual, AccrualSteps)
  BY <1>1, JobUnderWay DEF YearInv
<1>3. /\ turn \in Job(AccrualSteps) /\ turn.todo \subseteq turn.items
      /\ turn.year \in Years
  BY <1>2 DEF Job
<1>4. CASE accrual' = NextTurn(turn)
  <2>1. JobTyped(NextTurn(turn), AccrualSteps) /\ JobReady(NextTurn(turn), leaveBalance)
    BY <1>3, NextTurnOK DEF AccrualSteps
  <2> QED BY <1>1, <1>4, <2>1, QuietTables, JobStepFrame DEF YearInv
<1>5. ASSUME NEW s \in {"create", "credit"}, accrual' = [turn EXCEPT !.step = s],
             s = "credit" => leaveBalance[ItemKey(accrual, item)] # NULL
      PROVE  YearInv'
  <2>1. accrual' = [accrual EXCEPT !.cur = item, !.step = s]
    BY <1>2, <1>5
  <2>2. JobTyped(accrual', AccrualSteps) /\ JobReady(accrual', leaveBalance)
    <3>1. s \in AccrualSteps
      BY DEF AccrualSteps
    <3>2. /\ JobTyped([accrual EXCEPT !.cur = item, !.step = s], AccrualSteps)
          /\ JobReady([accrual EXCEPT !.cur = item, !.step = s], leaveBalance)
      BY <1>1, <1>2, <1>5, <3>1, TakeUpOK
    <3> QED BY <2>1, <3>2
  <2> QED BY <1>1, <2>2, QuietTables, JobStepFrame DEF YearInv
<1>6. \/ accrual' = NextTurn(turn)
      \/ accrual' = [turn EXCEPT !.step = "create"]
      \/ /\ accrual' = [turn EXCEPT !.step = "credit"]
         /\ leaveBalance[ItemKey(accrual, item)] # NULL
  BY DEF AccrualFind
<1> QED BY <1>4, <1>5, <1>6

LEMMA NewBalanceType ==
    ASSUME NEW limit \in Int, NEW c \in Int
    PROVE  /\ NewBalance(limit, c) \in Balance
           /\ NewBalance(limit, c).totalDays = limit + c
           /\ NewBalance(limit, c).usedDays = 0
           /\ NewBalance(limit, c).remainingDays = limit + c
           /\ NewBalance(limit, c).pendingDays = 0
           /\ NewBalance(limit, c).carriedForward = c
<1>1. PICK t \in Int : t = limit + c
  OBVIOUS
<1> QED BY <1>1 DEF NewBalance, Balance

\* The credit that a job books.
LEMMA GrantTypes ==
    ASSUME NEW b \in Balance, NEW d \in Int
    PROVE  /\ Credited(b, d) \in Balance
           /\ Credited(b, d).totalDays = b.totalDays + d
           /\ Credited(b, d).usedDays = b.usedDays
           /\ Credited(b, d).remainingDays = b.remainingDays + d
           /\ Credited(b, d).pendingDays = b.pendingDays
           /\ Credited(b, d).carriedForward = b.carriedForward
           /\ Carried(b, d) \in Balance
           /\ Carried(b, d).totalDays = b.totalDays + d
           /\ Carried(b, d).usedDays = b.usedDays
           /\ Carried(b, d).remainingDays = b.remainingDays + d
           /\ Carried(b, d).pendingDays = b.pendingDays
           /\ Carried(b, d).carriedForward = d
<1>1. /\ Credited(b, d) \in Balance
      /\ Credited(b, d).totalDays = b.totalDays + d
      /\ Credited(b, d).usedDays = b.usedDays
      /\ Credited(b, d).remainingDays = b.remainingDays + d
      /\ Credited(b, d).pendingDays = b.pendingDays
      /\ Credited(b, d).carriedForward = b.carriedForward
  <2>1. b.totalDays + d \in Int /\ b.remainingDays + d \in Int
    BY DEF Balance
  <2>2. PICK t \in Int, m \in Int : t = b.totalDays + d /\ m = b.remainingDays + d
    BY <2>1
  <2>3. Credited(b, d) = [b EXCEPT !.totalDays = t, !.remainingDays = m]
    BY <2>2 DEF Credited
  <2> QED BY <2>2, <2>3 DEF Balance
<1>2. PICK c \in Balance : c = Credited(b, d)
  BY <1>1
<1>3. Carried(b, d) = [c EXCEPT !.carriedForward = d]
  BY <1>2 DEF Carried
<1>4. /\ Carried(b, d) \in Balance
      /\ Carried(b, d).totalDays = c.totalDays
      /\ Carried(b, d).usedDays = c.usedDays
      /\ Carried(b, d).remainingDays = c.remainingDays
      /\ Carried(b, d).pendingDays = c.pendingDays
      /\ Carried(b, d).carriedForward = d
  BY <1>3 DEF Balance
<1> QED BY <1>1, <1>2, <1>4

LEMMA AccrualCreateInv == ASSUME YearInv, AccrualCreate PROVE YearInv'
<1>1. /\ accrual.step = "create" /\ due' = due /\ carry' = carry
      /\ UNCHANGED <<today, leaveType, leaveRequest, approvals, pc, loc, failures>>
  BY DEF AccrualCreate
<1>2. /\ accrual \in Job(AccrualSteps) /\ accrual.year \in Years
      /\ accrual.todo \subseteq accrual.items /\ accrual.cur \in accrual.todo
      /\ accrual.cur \in Item /\ JobTyped(accrual, AccrualSteps)
  BY <1>1, JobUnderWay DEF YearInv
<1>3. PICK item \in Item, key \in Keys :
         /\ item = accrual.cur /\ key = ItemKey(accrual, item)
         /\ key[2] = item.leaveTypeId
  BY <1>2, ItemKeyType
<1>4. CASE accrual' = Abort(accrual) /\ UNCHANGED leaveBalance
  <2>1. UNCHANGED leaveVars
    BY <1>1, <1>4 DEF leaveVars, tables
  <2>2. JobTyped(Abort(accrual), AccrualSteps) /\ JobReady(Abort(accrual), leaveBalance')
    BY <1>2, AbortOK DEF AccrualSteps
  <2> QED BY <1>1, <1>4, <2>1, <2>2, QuietTables, JobStepFrame DEF YearInv
<1>5. CASE ~(accrual' = Abort(accrual) /\ UNCHANGED leaveBalance)
  <2>1. PICK b \in Balance : b = NewBalance(item.limit, 0)
    <3>1. PICK limit \in Int, c \in Int : limit = item.limit /\ c = 0
      BY DEF Item
    <3> QED BY <3>1, NewBalanceType
  <2>2. /\ IsType(key[2])
        /\ leaveBalance' = [leaveBalance EXCEPT ![key] = b]
        /\ accrual' = IF item.days > 0
                      THEN [accrual EXCEPT !.step = "credit"]
                      ELSE NextTurn(accrual)
    BY <1>3, <1>5, <2>1 DEF AccrualCreate
  <2>3. LInv' /\ BalancesStay /\ leaveBalance'[key] = b
    BY <1>1, <2>2, JobWriteLInv DEF YearInv
  <2>4. CASE accrual' = NextTurn(accrual)
    <3>1. JobTyped(NextTurn(accrual), AccrualSteps)
             /\ JobReady(NextTurn(accrual), leaveBalance')
      BY <1>2, NextTurnOK DEF AccrualSteps
    <3> QED BY <1>1, <2>3, <2>4, <3>1, JobStepFrame
  <2>5. CASE accrual' = [accrual EXCEPT !.step = "credit"]
    <3>1. /\ accrual'.step = "credit" /\ accrual'.year = accrual.year
          /\ accrual'.todo = accrual.todo /\ accrual'.items = accrual.items
          /\ accrual'.cur = accrual.cur /\ accrual' \in Job(AccrualSteps)
      BY <1>2, <2>5 DEF Job, AccrualSteps
    <3>2. JobTyped(accrual', AccrualSteps)
      BY <1>1, <1>2, <3>1 DEF JobTyped
    <3>3. ItemKey(accrual', accrual'.cur) = key
      BY <1>3, <3>1 DEF ItemKey
    <3>4. JobReady(accrual', leaveBalance')
      BY <1>2, <2>1, <2>3, <3>1, <3>3, LeaveAssumption DEF JobReady, Running
    <3> QED BY <1>1, <2>3, <3>2, <3>4, JobStepFrame
  <2> QED BY <2>2, <2>4, <2>5
<1> QED BY <1>4, <1>5

LEMMA AccrualCreditInv == ASSUME YearInv, AccrualCredit PROVE YearInv'
<1>1. /\ accrual.step = "credit" /\ due' = due /\ carry' = carry
      /\ UNCHANGED <<today, leaveType, leaveRequest, approvals, pc, loc, failures>>
      /\ accrual' = NextTurn(accrual)
  BY DEF AccrualCredit
<1>2. /\ accrual \in Job(AccrualSteps) /\ accrual.year \in Years
      /\ accrual.todo \subseteq accrual.items /\ accrual.cur \in Item
      /\ leaveBalance[ItemKey(accrual, accrual.cur)] # NULL
  BY <1>1, JobUnderWay DEF YearInv
<1>3. PICK item \in Item, key \in Keys :
         /\ item = accrual.cur /\ key = ItemKey(accrual, item)
  BY <1>2, ItemKeyType
<1>4. PICK old \in Balance, d \in Int : old = leaveBalance[key] /\ d = item.days
  BY <1>2, <1>3 DEF YearInv, LInv, TypeOK, Item
<1>5. PICK b \in Balance : b = Credited(old, d)
  BY GrantTypes
<1>6. leaveBalance' = [leaveBalance EXCEPT ![key] = b]
  BY <1>3, <1>4, <1>5 DEF AccrualCredit, YearInv, LInv, TypeOK
<1>7. IsType(key[2])
  BY <1>2, <1>3 DEF YearInv, LInv, TypeBehindBalance
<1>8. LInv' /\ BalancesStay
  BY <1>1, <1>6, <1>7, JobWriteLInv DEF YearInv
<1>9. JobTyped(NextTurn(accrual), AccrualSteps)
         /\ JobReady(NextTurn(accrual), leaveBalance')
  BY <1>2, NextTurnOK DEF AccrualSteps
<1> QED BY <1>1, <1>8, <1>9, JobStepFrame

LEMMA CarryStartInv == ASSUME YearInv, CarryStart PROVE YearInv'
<1>1. /\ due' \subseteq due /\ accrual' = accrual /\ UNCHANGED leaveVars
      /\ carry' = [NoJob EXCEPT !.step = "types", !.year = ServerYear,
                                !.items = CarryItems]
  BY DEF CarryStart, CarryItems
<1>2. PICK y \in Years, items \in SUBSET Item : y = ServerYear /\ items = CarryItems
  BY ServerYearType, ItemTypes DEF CarryStart, YearInv
<1>3. y \in Int
  BY SchedulerAssumption
<1>4. /\ carry'.step = "types" /\ carry'.year = y /\ carry'.items = items
      /\ carry'.todo = {} /\ carry'.cur = NULL /\ carry' \in Job(CarrySteps)
  BY <1>1, <1>2, <1>3 DEF NoJob, Job, CarrySteps
<1>5. JobTyped(carry', CarrySteps) /\ JobReady(carry', leaveBalance')
  BY <1>4 DEF JobTyped, JobReady
<1> QED BY <1>1, <1>5, QuietTables, JobStepFrame DEF YearInv

\* The turns of the carry-forward: the balances of the year before that have
\* days left, and how many of them go with.
CarryTurns ==
    LET Previous(item) ==
            leaveBalance[<<item.employeeId, item.leaveTypeId, carry.year - 1>>]
        Amount(item) == CarryForwardDays(item.cap, Previous(item).remainingDays)
        counted == {item \in carry.items :
                       /\ carry.year - 1 \in Years
                       /\ Previous(item) # NULL
                       /\ Previous(item).remainingDays > 0}
    IN  {i \in {[item EXCEPT !.days = Amount(item)] :
                    item \in counted} : i.days > 0}

LEMMA CarryTurnsTypes ==
    ASSUME LInv, JobTyped(carry, CarrySteps)
    PROVE  /\ CarryTurns \in SUBSET Item
           /\ \A i \in CarryTurns :
                 /\ i.days > 0
                 /\ \E item \in carry.items :
                       /\ i.employeeId = item.employeeId
                       /\ i.leaveTypeId = item.leaveTypeId
                       /\ i.limit = item.limit
                       /\ \E d \in Int : i = [item EXCEPT !.days = d]
<1> SUFFICES ASSUME NEW i \in CarryTurns
             PROVE  /\ i \in Item /\ i.days > 0
                    /\ \E item \in carry.items :
                          /\ i.employeeId = item.employeeId
                          /\ i.leaveTypeId = item.leaveTypeId
                          /\ i.limit = item.limit
                          /\ \E d \in Int : i = [item EXCEPT !.days = d]
  OBVIOUS
<1> DEFINE Previous(item) ==
               leaveBalance[<<item.employeeId, item.leaveTypeId, carry.year - 1>>]
           Amount(item) == CarryForwardDays(item.cap, Previous(item).remainingDays)
<1>1. PICK item \in carry.items :
         /\ carry.year - 1 \in Years /\ Previous(item) # NULL
         /\ i = [item EXCEPT !.days = Amount(item)] /\ i.days > 0
  BY DEF CarryTurns
<1>2. item \in Item /\ item.cap \in Int
  BY DEF JobTyped, Job, Item
<1>3. <<item.employeeId, item.leaveTypeId, carry.year - 1>> \in Keys
  BY <1>1, <1>2 DEF Item, Keys
<1>4. Previous(item) \in Balance /\ Previous(item).remainingDays \in Int
  BY <1>1, <1>3 DEF LInv, TypeOK, Balance
<1>5. PICK d \in Int : d = Amount(item)
  BY <1>2, <1>4 DEF CarryForwardDays
<1>6. i = [item EXCEPT !.days = d]
  BY <1>1, <1>5
<1>7. /\ i \in Item /\ i.employeeId = item.employeeId
      /\ i.leaveTypeId = item.leaveTypeId /\ i.limit = item.limit
  BY <1>2, <1>6 DEF Item
<1> QED BY <1>1, <1>6, <1>7

LEMMA CarryReadInv == ASSUME YearInv, CarryRead PROVE YearInv'
<1>1. /\ carry.step = "types" /\ due' = due /\ accrual' = accrual
      /\ UNCHANGED leaveVars /\ carry' = Begin(carry.year, CarryTurns)
  BY DEF CarryRead, CarryTurns
<1>2. PICK y \in Years, items \in SUBSET Item : y = carry.year /\ items = CarryTurns
  BY <1>1, CarryTurnsTypes DEF YearInv, JobReady
<1>3. JobTyped(Begin(y, items), CarrySteps) /\ JobReady(Begin(y, items), leaveBalance')
  BY BeginOK DEF CarrySteps
<1> QED BY <1>1, <1>2, <1>3, QuietTables, JobStepFrame DEF YearInv

LEMMA CarryFindInv ==
    ASSUME YearInv, NEW item \in carry.todo, CarryFind(item)
    PROVE  YearInv'
<1>1. /\ carry.step = "find" /\ due' = due /\ accrual' = accrual
      /\ UNCHANGED leaveVars /\ leaveBalance' = leaveBalance
  BY DEF CarryFind, leaveVars, tables
<1>2. JobTyped(carry, CarrySteps) /\ carry.year \in Years
  BY <1>1, JobUnderWay DEF YearInv
<1>3. PICK s \in {"create", "credit"} :
         /\ s = IF leaveBalance[ItemKey(carry, item)] = NULL
                THEN "create" ELSE "credit"
         /\ carry' = [carry EXCEPT !.cur = item, !.step = s]
  BY DEF CarryFind
<1>4. s \in CarrySteps /\ (s = "credit" => leaveBalance[ItemKey(carry, item)] # NULL)
  BY <1>3 DEF CarrySteps
<1>5. /\ JobTyped([carry EXCEPT !.cur = item, !.step = s], CarrySteps)
      /\ JobReady([carry EXCEPT !.cur = item, !.step = s], leaveBalance)
  BY <1>1, <1>2, <1>4, TakeUpOK
<1> QED BY <1>1, <1>3, <1>5, QuietTables, JobStepFrame DEF YearInv

LEMMA CarryCreateInv == ASSUME YearInv, CarryCreate PROVE YearInv'
<1>1. /\ carry.step = "create" /\ due' = due /\ accrual' = accrual
      /\ UNCHANGED <<today, leaveType, leaveRequest, approvals, pc, loc, failures>>
  BY DEF CarryCreate
<1>2. /\ carry \in Job(CarrySteps) /\ carry.year \in Years
      /\ carry.todo \subseteq carry.items /\ carry.cur \in Item
  BY <1>1, JobUnderWay DEF YearInv
<1>3. PICK item \in Item, key \in Keys :
         /\ item = carry.cur /\ key = ItemKey(carry, item)
         /\ key[2] = item.leaveTypeId
  BY <1>2, ItemKeyType
<1>4. CASE carry' = Abort(carry) /\ UNCHANGED leaveBalance
  <2>1. UNCHANGED leaveVars
    BY <1>1, <1>4 DEF leaveVars, tables
  <2>2. JobTyped(Abort(carry), CarrySteps) /\ JobReady(Abort(carry), leaveBalance')
    BY <1>2, AbortOK DEF CarrySteps
  <2> QED BY <1>1, <1>4, <2>1, <2>2, QuietTables, JobStepFrame DEF YearInv
<1>5. CASE ~(carry' = Abort(carry) /\ UNCHANGED leaveBalance)
  <2>1. PICK limit \in Int, c \in Int : limit = item.limit /\ c = item.days
    BY DEF Item
  <2>2. PICK b \in Balance : b = NewBalance(limit, c)
    BY NewBalanceType
  <2>3. /\ IsType(key[2])
        /\ leaveBalance' = [leaveBalance EXCEPT ![key] = b]
        /\ carry' = NextTurn(carry)
    BY <1>3, <1>5, <2>1, <2>2 DEF CarryCreate
  <2>4. LInv' /\ BalancesStay
    BY <1>1, <2>3, JobWriteLInv DEF YearInv
  <2>5. JobTyped(NextTurn(carry), CarrySteps) /\ JobReady(NextTurn(carry), leaveBalance')
    BY <1>2, NextTurnOK DEF CarrySteps
  <2> QED BY <1>1, <2>3, <2>4, <2>5, JobStepFrame
<1> QED BY <1>4, <1>5

LEMMA CarryCreditInv == ASSUME YearInv, CarryCredit PROVE YearInv'
<1>1. /\ carry.step = "credit" /\ due' = due /\ accrual' = accrual
      /\ UNCHANGED <<today, leaveType, leaveRequest, approvals, pc, loc, failures>>
      /\ carry' = NextTurn(carry)
  BY DEF CarryCredit
<1>2. /\ carry \in Job(CarrySteps) /\ carry.year \in Years
      /\ carry.todo \subseteq carry.items /\ carry.cur \in Item
      /\ leaveBalance[ItemKey(carry, carry.cur)] # NULL
  BY <1>1, JobUnderWay DEF YearInv
<1>3. PICK item \in Item, key \in Keys :
         /\ item = carry.cur /\ key = ItemKey(carry, item)
  BY <1>2, ItemKeyType
<1>4. PICK old \in Balance, d \in Int : old = leaveBalance[key] /\ d = item.days
  BY <1>2, <1>3 DEF YearInv, LInv, TypeOK, Item
<1>5. PICK b \in Balance : b = Carried(old, d)
  BY GrantTypes
<1>6. leaveBalance' = [leaveBalance EXCEPT ![key] = b]
  BY <1>3, <1>4, <1>5 DEF CarryCredit, YearInv, LInv, TypeOK
<1>7. IsType(key[2])
  BY <1>2, <1>3 DEF YearInv, LInv, TypeBehindBalance
<1>8. LInv' /\ BalancesStay
  BY <1>1, <1>6, <1>7, JobWriteLInv DEF YearInv
<1>9. JobTyped(NextTurn(carry), CarrySteps) /\ JobReady(NextTurn(carry), leaveBalance')
  BY <1>2, NextTurnOK DEF CarrySteps
<1> QED BY <1>1, <1>8, <1>9, JobStepFrame

\* A restart ends what runs, and keeps the tables.
LEMMA RestartInv == ASSUME YearInv, Restart PROVE YearInv'
<1>1. /\ today' = today /\ leaveType' = leaveType /\ leaveBalance' = leaveBalance
      /\ leaveRequest' = leaveRequest /\ approvals' = approvals
      /\ pc' = [h \in Handlers |-> "idle"] /\ loc' = [h \in Handlers |-> NULL]
      /\ failures' \in 0..MaxFailures
  BY LeaveAssumption DEF Restart, tables, YearInv, LInv, TypeOK
<1>2. LInv'
  <2>1. TypeOK'
    BY <1>1 DEF YearInv, LInv, TypeOK, Steps, CreateSteps
  <2>2. BalanceBehindRequest' /\ TypeBehindBalance'
    BY <1>1 DEF YearInv, LInv, BalanceBehindRequest, TypeBehindBalance, IsType
  <2>3. \A h \in Handlers : HandlerOK(h)'
    BY <1>1 DEF HandlerOK, BeforeInsert, CreateSteps
  <2> QED BY <2>1, <2>2, <2>3 DEF LInv
<1>3. JobTyped(accrual', AccrualSteps) /\ JobReady(accrual', leaveBalance')
  <2>1. CASE Running(accrual)
    <3>1. accrual' = Abort(accrual) /\ accrual \in Job(AccrualSteps)
             /\ accrual.year \in Years
      BY <2>1 DEF Restart, YearInv, JobTyped, JobReady, Running
    <3>2. /\ JobTyped(Abort(accrual), AccrualSteps)
          /\ JobReady(Abort(accrual), leaveBalance')
      BY <3>1, AbortOK DEF AccrualSteps
    <3> QED BY <3>1, <3>2
  <2>2. CASE ~Running(accrual)
    BY <1>1, <2>2 DEF Restart, YearInv
  <2> QED BY <2>1, <2>2
<1>4. JobTyped(carry', CarrySteps) /\ JobReady(carry', leaveBalance')
  <2>1. CASE Running(carry)
    <3>1. carry' = Abort(carry) /\ carry \in Job(CarrySteps) /\ carry.year \in Years
      BY <2>1 DEF Restart, YearInv, JobTyped, JobReady, Running
    <3>2. JobTyped(Abort(carry), CarrySteps) /\ JobReady(Abort(carry), leaveBalance')
      BY <3>1, AbortOK DEF CarrySteps
    <3> QED BY <3>1, <3>2
  <2>2. CASE ~Running(carry)
    BY <1>1, <2>2 DEF Restart, YearInv
  <2> QED BY <2>1, <2>2
<1>5. due' \subseteq {"accrual", "carry"} /\ (due' # {} => today' - 1 \in Dates)
  BY <1>1 DEF Restart, YearInv
<1> QED BY <1>2, <1>3, <1>4, <1>5 DEF YearInv, JobTyped, JobReady

LEMMA NewDayInv == ASSUME YearInv, NewDay PROVE YearInv'
<1>1. LInv'
  BY NextDayLInv DEF NewDay, YearInv
<1>2. accrual' = accrual /\ carry' = carry /\ leaveBalance' = leaveBalance
  BY DEF NewDay, NextDay, tables
<1>3. due' \subseteq {"accrual", "carry"}
  BY DEF NewDay
<1>4. today' - 1 \in Dates
  BY LeaveAssumption DEF NewDay, NextDay, YearInv, LInv, TypeOK
<1> QED BY <1>1, <1>2, <1>3, <1>4 DEF YearInv, JobTyped, JobReady

LEMMA ServiceYearInv ==
    ASSUME YearInv, ServiceStep, UNCHANGED jobVars PROVE YearInv'
<1>1. LInv' /\ BalancesStay
  BY ServiceStepLInv, ServiceBalancesStay DEF YearInv
<1>2. accrual' = accrual /\ carry' = carry /\ due' = due
  BY DEF jobVars
<1>3. today' = today
  BY DEF ServiceStep, CreateStep, DecideStep, CancelStep, TypeStep, Fail,
     Submit, CheckOverlap, ReadBalance, ReadLimit, CreateBalance, InsertRequest,
     AddPending, CreateApproval, ReadForDecision, CommitDecision, ReadForCancel,
     CommitCancel, CreateLeaveType, UpdateLeaveType, DeleteLeaveType
<1>4. JobReady(accrual, leaveBalance')
  BY <1>1, StaysReady DEF YearInv
<1> QED BY <1>1, <1>2, <1>3, <1>4, JobStepFrame DEF YearInv

LEMMA YearStuttering == ASSUME YearInv, UNCHANGED vars PROVE YearInv'
<1>1. UNCHANGED leaveVars /\ UNCHANGED jobVars
  BY DEF vars
<1>2. accrual' = accrual /\ carry' = carry /\ due' = due
  BY <1>1 DEF jobVars
<1> QED BY <1>1, <1>2, QuietTables, JobStepFrame DEF YearInv

\* The inductive invariant holds with the jobs and restarts: whatever they
\* interleave with, a job credits only balances that are there.
THEOREM YearInductive == YearSpec => []YearInv
<1>1. YearInit => YearInv
  <2> SUFFICES ASSUME YearInit PROVE YearInv
    OBVIOUS
  <2>1. LInv
    BY InitLInv DEF YearInit
  <2>2. /\ NoJob \in Job(AccrualSteps) /\ NoJob \in Job(CarrySteps)
        /\ NoJob.step = "idle" /\ NoJob.todo = {} /\ NoJob.cur = NULL
    BY DEF NoJob, Job, AccrualSteps, CarrySteps
  <2> QED BY <2>1, <2>2 DEF YearInit, YearInv, JobTyped, JobReady
<1>2. YearInv /\ [YearNext]_vars => YearInv'
  <2> SUFFICES ASSUME YearInv, [YearNext]_vars PROVE YearInv'
    OBVIOUS
  <2>1. CASE JobStep
    BY <2>1, AccrualStartInv, AccrualFindInv, AccrualCreateInv, AccrualCreditInv,
       CarryStartInv, CarryReadInv, CarryFindInv, CarryCreateInv, CarryCreditInv
       DEF JobStep
  <2> QED BY <2>1, ServiceYearInv, RestartInv, NewDayInv, YearStuttering DEF YearNext
<1> QED BY <1>1, <1>2, PTL DEF YearSpec
\* The jobs keep their records well formed.
THEOREM JobsTypeCorrect == YearSpec => []JobTypeOK
BY YearInductive, YearInvTypes, PTL

\* Every stored request has its balance and its leave type beside the jobs as
\* well: approveLeaveRequest and cancelLeaveRequest never skip the charge.
THEOREM YearBalanceBehindRequest == YearSpec => [](TypeOK /\ BalanceBehindRequest)
<1>1. YearInv => TypeOK /\ BalanceBehindRequest
  BY DEF YearInv, LInv
<1> QED BY <1>1, YearInductive, PTL

-----------------------------------------------------------------------------
(* What the jobs write. *)

\* One statement of a job writes the balance of its turn: a new row with the
\* days of Grant for a balance that is not there, or the row that was there
\* with days granted.
AccrualWrites(item, key, b) ==
    \/ /\ AccrualCreate /\ leaveBalance[key] = NULL /\ IsType(key[2])
       /\ b = NewBalance(item.limit, 0)
    \/ /\ AccrualCredit /\ leaveBalance[key] \in Balance
       /\ b = Credited(leaveBalance[key], item.days)

CarryWrites(item, key, b) ==
    \/ /\ CarryCreate /\ leaveBalance[key] = NULL /\ IsType(key[2])
       /\ b = NewBalance(item.limit, item.days)
    \/ /\ CarryCredit /\ leaveBalance[key] \in Balance
       /\ b = Carried(leaveBalance[key], item.days)

LEMMA AccrualTurn ==
    ASSUME YearInv, AccrualCreate \/ AccrualCredit, ~UNCHANGED leaveBalance
    PROVE  \E item \in accrual.todo, key \in Keys, b \in Balance :
              /\ item = accrual.cur /\ item \in Item
              /\ key = ItemKey(accrual, item) /\ key[2] = item.leaveTypeId
              /\ leaveBalance' = [leaveBalance EXCEPT ![key] = b]
              /\ AccrualWrites(item, key, b)
<1>1. accrual.step \in {"create", "credit"}
  BY DEF AccrualCreate, AccrualCredit
<1>2. PICK item \in accrual.todo, key \in Keys :
         /\ item = accrual.cur /\ item \in Item
         /\ key = ItemKey(accrual, item) /\ key[2] = item.leaveTypeId
  BY <1>1, JobUnderWay DEF YearInv
<1>3. CASE AccrualCreate
  <2>1. PICK limit \in Int, c \in Int : limit = item.limit /\ c = 0
    BY <1>2 DEF Item
  <2>2. PICK b \in Balance : b = NewBalance(limit, c)
    BY <2>1, NewBalanceType
  <2>3. /\ leaveBalance[key] = NULL /\ IsType(key[2])
        /\ leaveBalance' = [leaveBalance EXCEPT ![key] = b]
    BY <1>2, <1>3, <2>1, <2>2 DEF AccrualCreate
  <2> QED BY <1>2, <1>3, <2>1, <2>2, <2>3 DEF AccrualWrites
<1>4. CASE AccrualCredit
  <2>1. leaveBalance[key] # NULL
    BY <1>2, <1>4 DEF AccrualCredit, YearInv, JobReady
  <2>2. PICK old \in Balance, d \in Int : old = leaveBalance[key] /\ d = item.days
    BY <1>2, <2>1 DEF YearInv, LInv, TypeOK, Item
  <2>3. PICK b \in Balance : b = Credited(old, d)
    BY GrantTypes
  <2>4. leaveBalance' = [leaveBalance EXCEPT ![key] = b]
    BY <1>2, <1>4, <2>2, <2>3 DEF AccrualCredit, YearInv, LInv, TypeOK
  <2> QED BY <1>2, <1>4, <2>2, <2>3, <2>4 DEF AccrualWrites
<1> QED BY <1>3, <1>4

LEMMA CarryTurn ==
    ASSUME YearInv, CarryCreate \/ CarryCredit, ~UNCHANGED leaveBalance
    PROVE  \E item \in carry.todo, key \in Keys, b \in Balance :
              /\ item = carry.cur /\ item \in Item
              /\ key = ItemKey(carry, item) /\ key[2] = item.leaveTypeId
              /\ leaveBalance' = [leaveBalance EXCEPT ![key] = b]
              /\ CarryWrites(item, key, b)
<1>1. carry.step \in {"create", "credit"}
  BY DEF CarryCreate, CarryCredit
<1>2. PICK item \in carry.todo, key \in Keys :
         /\ item = carry.cur /\ item \in Item
         /\ key = ItemKey(carry, item) /\ key[2] = item.leaveTypeId
  BY <1>1, JobUnderWay DEF YearInv
<1>3. CASE CarryCreate
  <2>1. PICK limit \in Int, c \in Int : limit = item.limit /\ c = item.days
    BY <1>2 DEF Item
  <2>2. PICK b \in Balance : b = NewBalance(limit, c)
    BY <2>1, NewBalanceType
  <2>3. /\ leaveBalance[key] = NULL /\ IsType(key[2])
        /\ leaveBalance' = [leaveBalance EXCEPT ![key] = b]
    BY <1>2, <1>3, <2>1, <2>2 DEF CarryCreate
  <2> QED BY <1>2, <1>3, <2>1, <2>2, <2>3 DEF CarryWrites
<1>4. CASE CarryCredit
  <2>1. leaveBalance[key] # NULL
    BY <1>2, <1>4 DEF CarryCredit, YearInv, JobReady
  <2>2. PICK old \in Balance, d \in Int : old = leaveBalance[key] /\ d = item.days
    BY <1>2, <2>1 DEF YearInv, LInv, TypeOK, Item
  <2>3. PICK b \in Balance : b = Carried(old, d)
    BY GrantTypes
  <2>4. leaveBalance' = [leaveBalance EXCEPT ![key] = b]
    BY <1>2, <1>4, <2>2, <2>3 DEF CarryCredit, YearInv, LInv, TypeOK
  <2> QED BY <1>2, <1>4, <2>2, <2>3, <2>4 DEF CarryWrites
<1> QED BY <1>3, <1>4

\* The other steps of the jobs write no table.
LEMMA JobTables ==
    ASSUME JobStep
    PROVE  /\ UNCHANGED <<today, leaveType, leaveRequest, approvals, pc, loc, failures>>
           /\ \/ leaveBalance' = leaveBalance
              \/ AccrualCreate \/ AccrualCredit
              \/ CarryCreate \/ CarryCredit
<1>1. CASE AccrualStart \/ CarryStart \/ CarryRead
  BY <1>1 DEF AccrualStart, CarryStart, CarryRead, leaveVars, tables
<1>2. CASE AccrualCreate \/ AccrualCredit
  BY <1>2 DEF AccrualCreate, AccrualCredit
<1>3. CASE CarryCreate \/ CarryCredit
  BY <1>3 DEF CarryCreate, CarryCredit
<1>4. ASSUME NEW item, AccrualFind(item) \/ CarryFind(item)
      PROVE  UNCHANGED leaveVars
  BY <1>4 DEF AccrualFind, CarryFind
<1> QED BY <1>1, <1>2, <1>3, <1>4 DEF JobStep, leaveVars, tables

\* A grant in the ledger: it counts no day as used or pending.
Grants(key, b) ==
    \/ /\ leaveBalance[key] = NULL
       /\ \E limit \in Int, c \in Int : b = NewBalance(limit, c)
    \/ /\ leaveBalance[key] \in Balance
       /\ \E d \in Int : \/ b = Credited(leaveBalance[key], d)
                         \/ b = Carried(leaveBalance[key], d)

LEMMA JobGrants ==
    ASSUME YearInv, JobStep
    PROVE  \/ leaveBalance' = leaveBalance
           \/ \E key \in Keys, b \in Balance :
                 /\ leaveBalance' = [leaveBalance EXCEPT ![key] = b]
                 /\ Grants(key, b)
<1>1. CASE leaveBalance' = leaveBalance
  BY <1>1
<1>2. CASE (AccrualCreate \/ AccrualCredit) /\ leaveBalance' # leaveBalance
  <2>1. PICK item \in accrual.todo, key \in Keys, b \in Balance :
           /\ item \in Item
           /\ leaveBalance' = [leaveBalance EXCEPT ![key] = b]
           /\ AccrualWrites(item, key, b)
    BY <1>2, AccrualTurn
  <2>2. item.limit \in Int /\ item.days \in Int /\ 0 \in Int
    BY <2>1 DEF Item
  <2>3. Grants(key, b)
    BY <2>1, <2>2 DEF Grants, AccrualWrites
  <2> QED BY <2>1, <2>3
<1>3. CASE (CarryCreate \/ CarryCredit) /\ leaveBalance' # leaveBalance
  <2>1. PICK item \in carry.todo, key \in Keys, b \in Balance :
           /\ item \in Item
           /\ leaveBalance' = [leaveBalance EXCEPT ![key] = b]
           /\ CarryWrites(item, key, b)
    BY <1>3, CarryTurn
  <2>2. item.limit \in Int /\ item.days \in Int
    BY <2>1 DEF Item
  <2>3. Grants(key, b)
    BY <2>1, <2>2 DEF Grants, CarryWrites
  <2> QED BY <2>1, <2>3
<1> QED BY <1>1, <1>2, <1>3, JobTables

LEMMA GrantFields ==
    ASSUME NEW key \in Keys, NEW b \in Balance, Grants(key, b)
    PROVE  \/ /\ leaveBalance[key] = NULL
              /\ b.pendingDays = 0 /\ b.usedDays = 0 /\ Conserved(b)
           \/ /\ leaveBalance[key] # NULL
              /\ b.pendingDays = leaveBalance[key].pendingDays
              /\ b.usedDays = leaveBalance[key].usedDays
              /\ Conserved(leaveBalance[key]) => Conserved(b)
<1>1. ASSUME NEW limit \in Int, NEW c \in Int, b = NewBalance(limit, c)
      PROVE  b.pendingDays = 0 /\ b.usedDays = 0 /\ Conserved(b)
  BY <1>1, NewBalanceType, NewBalanceConserved
<1>2. ASSUME NEW old \in Balance, NEW d \in Int,
             b = Credited(old, d) \/ b = Carried(old, d)
      PROVE  /\ b.pendingDays = old.pendingDays /\ b.usedDays = old.usedDays
             /\ Conserved(old) => Conserved(b)
  <2>1. /\ b.pendingDays = old.pendingDays /\ b.usedDays = old.usedDays
        /\ b.totalDays = old.totalDays + d
        /\ b.remainingDays = old.remainingDays + d
    BY <1>2, GrantTypes
  <2>2. old.usedDays \in Int /\ old.remainingDays \in Int /\ old.totalDays \in Int
    BY DEF Balance
  <2> QED BY <2>1, <2>2 DEF Conserved
<1> QED BY <1>1, <1>2, LeaveAssumption DEF Grants

LEMMA JobLedger ==
    ASSUME YearInv, LedgerInv, LInv', JobStep
    PROVE  LedgerInv'
<1>1. UNCHANGED <<leaveRequest, pc, loc>>
  BY JobTables
<1>2. RowsKnown' /\ Uncounted' = Uncounted
  BY <1>1, SameRowsKnown DEF Uncounted, Stored, LedgerInv
<1>3. KeepsCounters
  <2>1. CASE leaveBalance' = leaveBalance
    BY <2>1, SameCounters DEF YearInv
  <2>2. ASSUME NEW key \in Keys, NEW b \in Balance, Grants(key, b),
               leaveBalance' = [leaveBalance EXCEPT ![key] = b]
        PROVE  KeepsCounters
    <3>1. \A k \in Keys : leaveBalance'[k] = IF k = key THEN b ELSE leaveBalance[k]
      BY <2>2 DEF YearInv, LInv, TypeOK
    <3> QED BY <2>2, <3>1, GrantFields DEF KeepsCounters
  <2> QED BY <2>1, <2>2, JobGrants
<1> QED BY <1>1, <1>2, <1>3, KeptLedger

LEMMA JobConserves ==
    ASSUME YearInv, BalanceConservation, JobStep
    PROVE  BalanceConservation'
<1>1. CASE leaveBalance' = leaveBalance
  BY <1>1 DEF BalanceConservation
<1>2. ASSUME NEW key \in Keys, NEW b \in Balance, Grants(key, b),
             leaveBalance' = [leaveBalance EXCEPT ![key] = b]
      PROVE  BalanceConservation'
  <2>1. leaveBalance[key] # NULL => Conserved(leaveBalance[key])
    BY DEF BalanceConservation, Conserved
  <2>2. Conserved(b)
    BY <1>2, <2>1, GrantFields
  <2> QED BY <1>2, <2>2, OneBalance DEF YearInv
<1> QED BY <1>1, <1>2, JobGrants

\* A restart leaves no request to be counted.
LEMMA RestartLedger ==
    ASSUME LedgerInv, LInv', Restart
    PROVE  LedgerInv'
<1>1. /\ leaveBalance' = leaveBalance /\ leaveRequest' = leaveRequest
      /\ pc' = [h \in Handlers |-> "idle"]
  BY DEF Restart, tables
<1>2. Uncounted' \subseteq Uncounted
  BY <1>1 DEF Uncounted
<1>3. RowsKnown'
  BY <1>1 DEF LedgerInv, RowsKnown, HandlerKnows, DatedRow, CreateSteps, LeaveDays
<1> QED BY <1>1, <1>2, <1>3, SameCounters, KeptLedger DEF LedgerInv

\* The ledger of Leave holds beside the jobs and through restarts as well.
THEOREM YearLedgerInductive == YearSpec => [](LedgerInv /\ BalanceConservation)
<1>1. YearInit => LedgerInv /\ BalanceConservation
  BY InitLedger DEF YearInit, Init, BalanceConservation
<1>2. /\ YearInv /\ YearInv' /\ LedgerInv /\ BalanceConservation
      /\ [YearNext]_vars
      => LedgerInv' /\ BalanceConservation'
  <2> SUFFICES ASSUME YearInv, YearInv', LedgerInv, BalanceConservation,
                      [YearNext]_vars
               PROVE  LedgerInv' /\ BalanceConservation'
    OBVIOUS
  <2>0. LInv'
    BY DEF YearInv
  <2>1. CASE ServiceStep
    BY <2>1, ServiceLedger, ServiceStepConserves DEF LedgerInv
  <2>2. CASE JobStep
    BY <2>0, <2>2, JobLedger, JobConserves
  <2>3. CASE Restart
    BY <2>0, <2>3, RestartLedger DEF Restart, tables, BalanceConservation
  <2>4. CASE NewDay \/ UNCHANGED vars
    <3>1. UNCHANGED <<leaveBalance, leaveRequest, pc, loc>>
      BY <2>4 DEF NewDay, NextDay, vars, leaveVars, tables
    <3>2. RowsKnown' /\ KeepsCounters
      BY <3>1, SameRowsKnown, SameCounters DEF LedgerInv
    <3>3. Uncounted' = Uncounted
      BY <3>1 DEF Uncounted, Stored
    <3>4. LedgerInv'
      BY <2>0, <3>1, <3>2, <3>3, KeptLedger
    <3> QED BY <3>1, <3>4 DEF BalanceConservation
  <2> QED BY <2>1, <2>2, <2>3, <2>4 DEF YearNext
<1> QED BY <1>1, <1>2, YearInductive, PTL DEF YearSpec

\* With the monthly accrual, the carry-forward and restarts in between, every
\* balance stays split between used and remaining days, pendingDays counts no
\* day twice and no approved leave is free.
THEOREM YearLedger ==
    YearSpec => [](/\ BalanceConservation
                   /\ PendingNeverOverstated
                   /\ UsedCoversApproved)
<1>1. LedgerInv => PendingNeverOverstated /\ UsedCoversApproved
  BY LedgerOverstatesNothing DEF LedgerInv
<1> QED BY <1>1, YearLedgerInductive, PTL
-----------------------------------------------------------------------------
(* Where the days of a balance come from.                                  *)
(*                                                                         *)
(* The server's clock is in step with the day, and a leave type keeps its  *)
(* annual limit while it is there (UpdateLeaveType may change the rest).   *)

LimitsKept ==
    \A t \in LeaveTypes : IsType(t) /\ IsType(t)' =>
        leaveType'[t].annualLimit = leaveType[t].annualLimit

\* The leave type was there and, unless it is gone, still has this limit.
HasLimit(t, limit) ==
    /\ leaveType[t] # NULL
    /\ IsType(t) => leaveType[t].annualLimit = limit

\* The limits that handlers and jobs hold are those of the leave types.
HandlersKnowLimits ==
    \A h \in Handlers : pc[h] = "mkBalance" =>
        HasLimit(loc[h].form.leaveTypeId, loc[h].limit)

ItemsKnowLimits(job) ==
    \A item \in job.items : HasLimit(item.leaveTypeId, item.limit)

\* No job has two turns for one balance.
OneTurnEach(job) ==
    \A i, j \in job.items : ItemKey(job, i) = ItemKey(job, j) => i = j

\* The accrual credits the twelfth part of the limit, the carry-forward what
\* there is to carry.
DaysKnown ==
    /\ \A item \in accrual.items : item.days = MonthlyAccrual(item.limit)
    /\ accrual.step = "credit" => accrual.cur.days > 0

\* The accrual runs on the first of a month, for the year of that day.
AccrualDay ==
    /\ "accrual" \in due => today \in MonthStarts /\ ~Running(accrual)
    /\ Running(accrual) => today \in MonthStarts /\ accrual.year = YearOf[today]

\* The carry-forward ran last on the first of January of its year.
CarryDay ==
    /\ "carry" \in due => today \in YearStarts
    /\ carry.step # "idle" =>
          \E d \in YearStarts : /\ carry.year = YearOf[d] /\ d <= today
                                /\ "carry" \in due => d < today

\* The jobs, apart from the balances.
JobsOnTime ==
    /\ \E first \in Dates : \A d \in Dates : first <= d
    /\ HandlersKnowLimits
    /\ ItemsKnowLimits(accrual) /\ OneTurnEach(accrual)
    /\ ItemsKnowLimits(carry) /\ OneTurnEach(carry)
    /\ DaysKnown /\ AccrualDay /\ CarryDay

ToDo(job, k) == \E item \in job.todo : ItemKey(job, item) = k

\* A balance carries days forward only from the run of its year on, and only
\* after its turn.
CarriedOnce ==
    \A k \in Keys : leaveBalance[k] # NULL /\ leaveBalance[k].carriedForward # 0 =>
        /\ carry.step # "idle"
        /\ \/ k[3] < carry.year
           \/ k[3] = carry.year /\ carry.step # "types" /\ ~ToDo(carry, k)

\* The accrual of this month has still to reach this balance.
Outstanding(k) ==
    \/ "accrual" \in due /\ k[3] = YearOf[today]
    \/ ToDo(accrual, k)

\* The accruals that can have reached this balance.
Accruals(k) == MonthsBegun(k[3]) - (IF Outstanding(k) THEN 1 ELSE 0)

LimitOf(k) == leaveType[k[2]].annualLimit

\* The days of a row: the limit, what was carried forward and at most so many
\* accruals.
GrantedRow(b, limit, most) ==
    \E n \in 0..most :
        b.totalDays = limit + b.carriedForward + n * MonthlyAccrual(limit)

\* GrantLedger, with the accrual under way taken into account.
Granted ==
    \A k \in Keys : leaveBalance[k] # NULL =>
        GrantedRow(leaveBalance[k], LimitOf(k), Accruals(k))

GrantedDays(b) == b.totalDays - b.carriedForward

\* AccrualReachesAll, while the accrual is under way.
FullLimit ==
    \A k \in Keys : leaveBalance[k] # NULL =>
        GrantedDays(leaveBalance[k]) >= LimitOf(k)

Reached ==
    accrual.step \notin {"idle", "aborted"} =>
        \A item \in accrual.items \ accrual.todo :
            LET b == leaveBalance[ItemKey(accrual, item)]
            IN  b # NULL /\ GrantedDays(b) >= item.limit + item.days

GrantInv ==
    /\ YearInv /\ JobsOnTime
    /\ CarriedOnce /\ Granted /\ FullLimit /\ Reached

-----------------------------------------------------------------------------
(* Leave types and limits. *)

\* No leave type vanishes without trace, and none gets another limit.
TypesStand ==
    \A t \in LeaveTypes : leaveType[t] # NULL =>
        /\ leaveType'[t] # NULL
        /\ IsType(t)' => /\ IsType(t)
                         /\ leaveType'[t].annualLimit = leaveType[t].annualLimit

LEMMA SameTypesStand == ASSUME leaveType' = leaveType PROVE TypesStand
BY DEF TypesStand, IsType

LEMMA ServiceTypesStand ==
    ASSUME LInv, ServiceStep, [LimitsKept]_leaveType
    PROVE  TypesStand
<1>1. CASE leaveType' = leaveType
  BY <1>1, SameTypesStand
<1>2. CASE leaveType' # leaveType
  <2>1. LimitsKept
    BY <1>2
  <2>2. PICK t \in LeaveTypes : TypeStep(t)
    BY <1>2 DEF ServiceStep, CreateStep, DecideStep, CancelStep, Fail, Submit,
       CheckOverlap, ReadBalance, ReadLimit, CreateBalance, InsertRequest,
       AddPending, CreateApproval, ReadForDecision, CommitDecision,
       ReadForCancel, CommitCancel, tables
  <2>3. \A s \in LeaveTypes \ {t} : leaveType'[s] = leaveType[s]
    BY <2>2 DEF TypeStep, CreateLeaveType, UpdateLeaveType, DeleteLeaveType,
       LInv, TypeOK
  <2>4. leaveType[t] # NULL => /\ leaveType'[t] # NULL
                               /\ IsType(t)' => IsType(t)
    BY <2>2, LeaveAssumption DEF TypeStep, CreateLeaveType, UpdateLeaveType,
       DeleteLeaveType, LInv, TypeOK, IsType
  <2>5. \A s \in LeaveTypes \ {t} : IsType(s)' => IsType(s)
    BY <2>3 DEF IsType
  <2> QED BY <2>1, <2>3, <2>4, <2>5 DEF TypesStand, LimitsKept
<1> QED BY <1>1, <1>2

LEMMA LimitStands ==
    ASSUME TypesStand, NEW t \in LeaveTypes, NEW limit, HasLimit(t, limit)
    PROVE  HasLimit(t, limit)'
BY DEF TypesStand, HasLimit

\* A handler that is about to make a balance has read its limit.
LEMMA BeforeMaking ==
    ASSUME LInv, ServiceStep, NEW g \in Handlers, pc'[g] = "mkBalance"
    PROVE  \/ pc[g] = "mkBalance" /\ loc'[g] = loc[g]
           \/ /\ leaveType' = leaveType
              /\ loc'[g].form.leaveTypeId \in LeaveTypes
              /\ HasLimit(loc'[g].form.leaveTypeId, loc'[g].limit)
<1> DEFINE Same == pc[g] = "mkBalance" /\ loc'[g] = loc[g]
<1>1. ASSUME NEW h \in Handlers, h # g,
             CreateStep(h) \/ DecideStep(h) \/ CancelStep(h) \/ Fail(h)
      PROVE  pc'[g] = pc[g] /\ loc'[g] = loc[g]
  <2>1. CASE Quiet(h)
    BY <1>1, <2>1, QuietStep DEF QuietMove, OthersStay
  <2>2. CASE InsertRequest(h) \/ CommitDecision(h) \/ CommitCancel(h)
    BY <1>1, <2>2 DEF InsertRequest, CommitDecision, CommitCancel, Goto, Finish,
       LInv, TypeOK
  <2> QED BY <1>1, <2>1, <2>2 DEF CreateStep, DecideStep, CancelStep, Quiet
<1>2. ASSUME NEW t \in LeaveTypes, TypeStep(t)
      PROVE  pc' = pc /\ loc' = loc
  BY <1>2 DEF TypeStep, CreateLeaveType, UpdateLeaveType, DeleteLeaveType
<1>3. ASSUME CreateStep(g) \/ DecideStep(g) \/ CancelStep(g) \/ Fail(g)
      PROVE  ReadLimit(g) /\ Goto(g, "mkBalance")
  <2>1. \A s : Goto(g, s) => s = "mkBalance"
    BY DEF Goto, LInv, TypeOK
  <2>2. ~Finish(g)
    BY <2>1 DEF Finish
  <2> QED BY <1>3, <2>1, <2>2 DEF CreateStep, DecideStep, CancelStep, Fail, Submit,
          CheckOverlap, ReadBalance, ReadLimit, CreateBalance, InsertRequest,
          AddPending, CreateApproval, ReadForDecision, CommitDecision,
          ReadForCancel, CommitCancel
<1>4. ASSUME ReadLimit(g), Goto(g, "mkBalance")
      PROVE  /\ leaveType' = leaveType
             /\ loc'[g].form.leaveTypeId \in LeaveTypes
             /\ HasLimit(loc'[g].form.leaveTypeId, loc'[g].limit)
  <2>1. PICK f \in Form, old \in CreateLoc : old = loc[g] /\ f = loc[g].form
    BY <1>4 DEF ReadLimit, LInv, TypeOK, CreateSteps, CreateLoc
  <2>2. PICK t \in LeaveTypes : t = f.leaveTypeId
    BY DEF Form
  <2>3. ~Finish(g)
    BY <1>4 DEF Finish, Goto, LInv, TypeOK
  <2>4. /\ IsType(t) /\ leaveType' = leaveType
        /\ loc' = [loc EXCEPT ![g].limit = leaveType[t].annualLimit]
    BY <1>4, <2>1, <2>2, <2>3 DEF ReadLimit, tables
  <2>5. loc'[g].form = f /\ loc'[g].limit = leaveType[t].annualLimit
    BY <2>1, <2>4 DEF LInv, TypeOK, CreateLoc
  <2> QED BY <2>2, <2>4, <2>5 DEF HasLimit, IsType
<1> QED BY <1>1, <1>2, <1>3, <1>4 DEF ServiceStep

LEMMA ServiceHandlersKnow ==
    ASSUME LInv, LInv', HandlersKnowLimits, ServiceStep, TypesStand
    PROVE  HandlersKnowLimits'
<1> SUFFICES ASSUME NEW g \in Handlers, pc'[g] = "mkBalance"
             PROVE  HasLimit(loc[g].form.leaveTypeId, loc[g].limit)'
  BY DEF HandlersKnowLimits
<1>1. PICK t \in LeaveTypes, limit \in Int :
         t = loc'[g].form.leaveTypeId /\ limit = loc'[g].limit
  BY DEF LInv, TypeOK, CreateSteps, CreateLoc, Form
<1>2. HasLimit(t, limit)
  <2>1. CASE pc[g] = "mkBalance" /\ loc'[g] = loc[g]
    BY <1>1, <2>1 DEF HandlersKnowLimits
  <2>2. CASE HasLimit(loc'[g].form.leaveTypeId, loc'[g].limit)
    BY <1>1, <2>2
  <2> QED BY <2>1, <2>2, BeforeMaking
<1>3. HasLimit(t, limit)'
  BY <1>2, LimitStands
<1> QED BY <1>1, <1>3

-----------------------------------------------------------------------------
(* The jobs run on time. *)

\* A job with the turns and the year it had.
LEMMA SameItems ==
    ASSUME TypesStand, NEW steps, NEW job, JobTyped(job, steps),
           ItemsKnowLimits(job), OneTurnEach(job),
           NEW new, new.items = job.items, new.year = job.year
    PROVE  ItemsKnowLimits(new)' /\ OneTurnEach(new)
<1>1. \A item \in job.items : item.leaveTypeId \in LeaveTypes
  BY DEF JobTyped, Job, Item
<1> QED BY <1>1, LimitStands DEF ItemsKnowLimits, OneTurnEach, ItemKey

LEMMA JobsStayOnTime ==
    ASSUME YearInv, JobsOnTime, TypesStand, HandlersKnowLimits',
           today' = today, due' \subseteq due,
           accrual'.items = accrual.items, accrual'.year = accrual.year,
           accrual'.step = "credit" => accrual'.cur.days > 0,
           Running(accrual') => Running(accrual),
           carry'.items = carry.items, carry'.year = carry.year,
           carry'.step # "idle" => carry.step # "idle"
    PROVE  JobsOnTime'
<1>1. /\ ItemsKnowLimits(accrual)' /\ OneTurnEach(accrual)'
      /\ ItemsKnowLimits(carry)' /\ OneTurnEach(carry)'
  BY SameItems DEF YearInv, JobsOnTime
<1>2. DaysKnown'
  BY DEF JobsOnTime, DaysKnown
<1>3. AccrualDay' /\ CarryDay'
  BY DEF JobsOnTime, AccrualDay, CarryDay
<1> QED BY <1>1, <1>2, <1>3 DEF JobsOnTime

LEMMA ServiceOnTime ==
    ASSUME YearInv, JobsOnTime, ServiceStep, UNCHANGED jobVars,
           [LimitsKept]_leaveType, YearInv'
    PROVE  JobsOnTime'
<1>1. TypesStand /\ HandlersKnowLimits'
  BY ServiceTypesStand, ServiceHandlersKnow DEF YearInv, JobsOnTime
<1>2. accrual' = accrual /\ carry' = carry /\ due' = due
  BY DEF jobVars
<1>3. today' = today
  BY DEF ServiceStep, CreateStep, DecideStep, CancelStep, TypeStep, Fail,
     Submit, CheckOverlap, ReadBalance, ReadLimit, CreateBalance, InsertRequest,
     AddPending, CreateApproval, ReadForDecision, CommitDecision, ReadForCancel,
     CommitCancel, CreateLeaveType, UpdateLeaveType, DeleteLeaveType
<1> QED BY <1>1, <1>2, <1>3, JobsStayOnTime DEF JobsOnTime, DaysKnown

\* A turn of the accrual is over when its balance is credited, or is there
\* and nothing accrues.
Served(item) ==
    \/ AccrualCredit /\ item = accrual.cur
    \/ item.days <= 0 /\ leaveBalance'[ItemKey(accrual, item)] # NULL

\* One statement of the accrual leaves the turns alone, ends one, or gives up.
AccrualMove ==
    /\ due' = due /\ carry' = carry /\ UNCHANGED <<today, leaveType, pc, loc>>
    /\ accrual'.items = accrual.items /\ accrual'.year = accrual.year
    /\ Running(accrual) /\ accrual'.step # "idle"
    /\ accrual'.step = "credit" => accrual'.cur.days > 0
    /\ \/ accrual'.todo = accrual.todo
       \/ accrual'.todo = {} /\ accrual'.step = "aborted"
       \/ \E item \in accrual.todo :
             accrual'.todo = accrual.todo \ {item} /\ Served(item)

AccrualTurns ==
    \/ \E item \in accrual.todo : AccrualFind(item)
    \/ AccrualCreate \/ AccrualCredit

LEMMA AccrualMoves == ASSUME YearInv, AccrualTurns PROVE AccrualMove
<1>1. /\ due' = due /\ carry' = carry /\ UNCHANGED <<today, leaveType, pc, loc>>
      /\ accrual.step \in {"find", "create", "credit"}
  BY DEF AccrualTurns, AccrualFind, AccrualCreate, AccrualCredit, leaveVars, tables
<1>2. accrual \in Job(AccrualSteps) /\ accrual.year \in Years
  BY <1>1, JobUnderWay DEF YearInv
<1>3. Running(accrual)
  BY <1>1 DEF Running
<1>4. ASSUME NEW item \in accrual.todo, AccrualFind(item)
      PROVE  AccrualMove
  <2> DEFINE turn == [accrual EXCEPT !.cur = item]
  <2>1. item \in Item /\ item.days \in Int /\ ItemKey(accrual, item) \in Keys
    BY <1>2, ItemKeyType DEF Job, Item
  <2>2. /\ turn \in Job(AccrualSteps) /\ turn.items = accrual.items
        /\ turn.year = accrual.year /\ turn.todo = accrual.todo /\ turn.cur = item
    BY <1>2, <2>1 DEF Job
  <2>3. CASE accrual' = [turn EXCEPT !.step = "create"]
    BY <1>1, <1>3, <2>2, <2>3 DEF AccrualMove, Job
  <2>4. CASE accrual' = [turn EXCEPT !.step = "credit"] /\ item.days > 0
    BY <1>1, <1>3, <2>2, <2>4 DEF AccrualMove, Job
  <2>5. CASE /\ accrual' = NextTurn(turn) /\ ~(item.days > 0)
             /\ leaveBalance[ItemKey(accrual, item)] # NULL
    <3>1. /\ accrual'.items = accrual.items /\ accrual'.year = accrual.year
          /\ accrual'.step \in {"find", "done"}
          /\ accrual'.todo = accrual.todo \ {item}
      BY <2>2, <2>5, NextTurnFields DEF AccrualSteps
    <3>2. Served(item)
      BY <1>4, <2>1, <2>5 DEF Served, AccrualFind, leaveVars, tables
    <3> QED BY <1>1, <1>3, <3>1, <3>2 DEF AccrualMove
  <2> QED BY <1>4, <2>3, <2>4, <2>5 DEF AccrualFind
<1>5. CASE AccrualCreate
  <2>1. PICK item \in accrual.todo, key \in Keys :
           /\ item = accrual.cur /\ item \in Item /\ key = ItemKey(accrual, item)
    BY <1>5, JobUnderWay DEF AccrualCreate, YearInv
  <2>2. item.days \in Int /\ item.limit \in Int
    BY <2>1 DEF Item
  <2>3. CASE accrual' = Abort(accrual)
    <3>1. /\ accrual'.items = accrual.items /\ accrual'.year = accrual.year
          /\ accrual'.step = "aborted" /\ accrual'.todo = {}
      BY <1>2, <2>3, AbortFields DEF AccrualSteps
    <3> QED BY <1>1, <1>3, <3>1 DEF AccrualMove
  <2>4. CASE accrual' = [accrual EXCEPT !.step = "credit"] /\ item.days > 0
    BY <1>1, <1>2, <1>3, <2>1, <2>4 DEF AccrualMove, Job
  <2>5. CASE /\ accrual' = NextTurn(accrual) /\ ~(item.days > 0)
             /\ leaveBalance' = [leaveBalance EXCEPT ![key] =
                                     NewBalance(item.limit, 0)]
    <3>1. /\ accrual'.items = accrual.items /\ accrual'.year = accrual.year
          /\ accrual'.step \in {"find", "done"}
          /\ accrual'.todo = accrual.todo \ {item}
      BY <1>2, <2>1, <2>5, NextTurnFields DEF AccrualSteps
    <3>2. PICK limit \in Int, c \in Int : limit = item.limit /\ c = 0
      BY <2>2
    <3>3. NewBalance(limit, c) # NULL
      BY NewBalanceType, LeaveAssumption
    <3>4. Served(item)
      BY <2>1, <2>2, <2>5, <3>2, <3>3 DEF Served, YearInv, LInv, TypeOK
    <3> QED BY <1>1, <1>3, <2>1, <3>1, <3>4 DEF AccrualMove
  <2> QED BY <1>5, <2>1, <2>3, <2>4, <2>5 DEF AccrualCreate
<1>6. CASE AccrualCredit
  <2>1. accrual.cur \in accrual.todo
    BY <1>6, JobUnderWay DEF AccrualCredit, YearInv
  <2>2. accrual' = NextTurn(accrual)
    BY <1>6 DEF AccrualCredit
  <2>3. /\ accrual'.items = accrual.items /\ accrual'.year = accrual.year
        /\ accrual'.step \in {"find", "done"}
        /\ accrual'.todo = accrual.todo \ {accrual.cur}
    BY <1>2, <2>2, NextTurnFields DEF AccrualSteps
  <2> QED BY <1>1, <1>3, <1>6, <2>1, <2>3 DEF AccrualMove, Served
<1> QED BY <1>4, <1>5, <1>6 DEF AccrualTurns

\* One statement of the carry-forward; a balance it writes is done with.
CarryMove ==
    /\ due' = due /\ accrual' = accrual /\ UNCHANGED <<today, leaveType, pc, loc>>
    /\ carry'.items = carry.items /\ carry'.year = carry.year
    /\ Running(carry) /\ carry'.step \notin {"idle", "types"}
    /\ carry.step # "types" /\ carry'.todo \subseteq carry.todo
    /\ leaveBalance' # leaveBalance => carry'.todo = carry.todo \ {carry.cur}

CarryTurnStep ==
    \/ \E item \in carry.todo : CarryFind(item)
    \/ CarryCreate \/ CarryCredit

LEMMA CarryMoves == ASSUME YearInv, CarryTurnStep PROVE CarryMove
<1>1. /\ due' = due /\ accrual' = accrual /\ UNCHANGED <<today, leaveType, pc, loc>>
      /\ carry.step \in {"find", "create", "credit"}
  BY DEF CarryTurnStep, CarryFind, CarryCreate, CarryCredit, leaveVars, tables
<1>2. carry \in Job(CarrySteps) /\ carry.year \in Years
  BY <1>1, JobUnderWay DEF YearInv
<1>3. Running(carry)
  BY <1>1 DEF Running
<1>4. ASSUME NEW item \in carry.todo, CarryFind(item) PROVE CarryMove
  <2>1. PICK s \in {"create", "credit"} :
           carry' = [carry EXCEPT !.cur = item, !.step = s]
    BY <1>4 DEF CarryFind
  <2>2. leaveBalance' = leaveBalance
    BY <1>4 DEF CarryFind, leaveVars, tables
  <2>3. /\ carry'.items = carry.items /\ carry'.year = carry.year
        /\ carry'.todo = carry.todo /\ carry'.step = s
    BY <1>2, <2>1 DEF Job
  <2> QED BY <1>1, <1>3, <2>2, <2>3 DEF CarryMove
<1>5. CASE carry' = NextTurn(carry)
  <2>1. /\ carry'.items = carry.items /\ carry'.year = carry.year
        /\ carry'.step \in {"find", "done"}
        /\ carry'.todo = carry.todo \ {carry.cur}
    BY <1>2, <1>5, NextTurnFields DEF CarrySteps
  <2> QED BY <1>1, <1>3, <2>1 DEF CarryMove
<1>6. CASE carry' = Abort(carry) /\ UNCHANGED leaveBalance
  <2>1. /\ carry'.items = carry.items /\ carry'.year = carry.year
        /\ carry'.step = "aborted" /\ carry'.todo = {}
    BY <1>2, <1>6, AbortFields DEF CarrySteps
  <2> QED BY <1>1, <1>3, <1>6, <2>1 DEF CarryMove
<1> QED BY <1>4, <1>5, <1>6 DEF CarryTurnStep, CarryCreate, CarryCredit

LEMMA TurnsOnTime ==
    ASSUME YearInv, JobsOnTime, AccrualTurns \/ CarryTurnStep
    PROVE  JobsOnTime'
<1>1. leaveType' = leaveType /\ pc' = pc /\ loc' = loc
  BY AccrualMoves, CarryMoves DEF AccrualMove, CarryMove
<1>2. TypesStand /\ HandlersKnowLimits'
  BY <1>1, SameTypesStand DEF JobsOnTime, HandlersKnowLimits, HasLimit, IsType
<1>3. CASE AccrualTurns
  BY <1>2, <1>3, AccrualMoves, JobsStayOnTime DEF AccrualMove
<1>4. CASE CarryTurnStep
  BY <1>2, <1>4, CarryMoves, JobsStayOnTime
     DEF CarryMove, Running, JobsOnTime, DaysKnown
<1> QED BY <1>3, <1>4

\* The turns that a job sets out to make are for different balances.
LEMMA AccrualStartItems ==
    ASSUME YearInv, AccrualStart
    PROVE  /\ accrual'.items = AccrualItems /\ accrual'.todo = AccrualItems
           /\ accrual'.year = ServerYear /\ accrual'.step \in {"find", "done"}
           /\ ServerYear \in Years
           /\ ~ServerBehind => ServerYear = YearOf[today]
<1>1. accrual' = Begin(ServerYear, AccrualItems)
  BY DEF AccrualStart, AccrualItems
<1>2. PICK y \in Int, items \in SUBSET Item :
         y = ServerYear /\ items = AccrualItems /\ y \in Years
  BY ServerYearType, ItemTypes, SchedulerAssumption DEF AccrualStart, YearInv
<1>3. /\ Begin(y, items).step \in {"find", "done"} /\ Begin(y, items).year = y
      /\ Begin(y, items).items = items /\ Begin(y, items).todo = items
  BY DEF Begin
<1>4. accrual' = Begin(y, items)
  BY <1>1, <1>2
<1>5. ~ServerBehind => ServerYear = YearOf[today]
  BY ServerYearType DEF AccrualStart
<1> QED BY <1>2, <1>3, <1>4, <1>5

\* A job that starts knows the limits, and has one turn for each balance.
LEMMA NewItems ==
    ASSUME LInv
    PROVE  /\ \A item \in AccrualItems : /\ HasLimit(item.leaveTypeId, item.limit)
                                         /\ item.days = MonthlyAccrual(item.limit)
           /\ \A item \in CarryItems : HasLimit(item.leaveTypeId, item.limit)
           /\ \A i, j \in AccrualItems :
                 i.employeeId = j.employeeId /\ i.leaveTypeId = j.leaveTypeId => i = j
           /\ \A i, j \in CarryItems :
                 i.employeeId = j.employeeId /\ i.leaveTypeId = j.leaveTypeId => i = j
<1>1. \A t \in ActiveTypes : HasLimit(t, leaveType[t].annualLimit)
  BY DEF ActiveTypes, HasLimit, IsType
<1>2. \A item \in AccrualItems : /\ HasLimit(item.leaveTypeId, item.limit)
                                 /\ item.days = MonthlyAccrual(item.limit)
  BY <1>1 DEF AccrualItems
<1>3. \A item \in CarryItems : HasLimit(item.leaveTypeId, item.limit)
  BY <1>1 DEF CarryItems
<1>4. \A i, j \in AccrualItems :
         i.employeeId = j.employeeId /\ i.leaveTypeId = j.leaveTypeId => i = j
  BY DEF AccrualItems
<1>5. \A i, j \in CarryItems :
         i.employeeId = j.employeeId /\ i.leaveTypeId = j.leaveTypeId => i = j
  BY DEF CarryItems
<1> QED BY <1>2, <1>3, <1>4, <1>5

LEMMA AccrualStartOnTime ==
    ASSUME YearInv, JobsOnTime, AccrualStart, ~ServerBehind
    PROVE  JobsOnTime'
<1>1. /\ UNCHANGED <<today, leaveType, pc, loc, carry>>
      /\ "accrual" \in due /\ due' = due \ {"accrual"}
  BY DEF AccrualStart, leaveVars, tables
<1>2. /\ accrual'.items = AccrualItems /\ accrual'.year = YearOf[today]
      /\ accrual'.step \in {"find", "done"}
  BY AccrualStartItems
<1>3. HandlersKnowLimits' /\ ItemsKnowLimits(carry)' /\ OneTurnEach(carry)'
  BY <1>1 DEF JobsOnTime, HandlersKnowLimits, ItemsKnowLimits, OneTurnEach,
     HasLimit, IsType, ItemKey
<1>4. ItemsKnowLimits(accrual)' /\ DaysKnown'
  BY <1>1, <1>2, NewItems DEF YearInv, ItemsKnowLimits, DaysKnown, HasLimit, IsType
<1>5. OneTurnEach(accrual)'
  BY <1>2, NewItems DEF YearInv, OneTurnEach, ItemKey
<1>6. AccrualDay' /\ CarryDay'
  BY <1>1, <1>2 DEF JobsOnTime, AccrualDay, CarryDay
<1> QED BY <1>3, <1>4, <1>5, <1>6 DEF JobsOnTime

LEMMA CarryStartOnTime ==
    ASSUME YearInv, JobsOnTime, CarryStart, ~ServerBehind
    PROVE  JobsOnTime'
<1>1. /\ UNCHANGED <<today, leaveType, pc, loc, accrual>>
      /\ "carry" \in due /\ due' = due \ {"carry"}
  BY DEF CarryStart, leaveVars, tables
<1>2. carry'.items = CarryItems /\ carry'.year = YearOf[today]
  BY ServerYearType DEF CarryStart, CarryItems, NoJob
<1>3. /\ HandlersKnowLimits' /\ ItemsKnowLimits(accrual)' /\ OneTurnEach(accrual)'
      /\ DaysKnown' /\ AccrualDay'
  BY <1>1 DEF JobsOnTime, HandlersKnowLimits, ItemsKnowLimits, OneTurnEach,
     HasLimit, IsType, ItemKey, DaysKnown, AccrualDay
<1>4. ItemsKnowLimits(carry)'
  BY <1>1, <1>2, NewItems DEF YearInv, ItemsKnowLimits, HasLimit, IsType
<1>5. OneTurnEach(carry)'
  BY <1>2, NewItems DEF YearInv, OneTurnEach, ItemKey
<1>6. CarryDay'
  <2>1. today \in YearStarts /\ today \in Int
    BY <1>1, LeaveAssumption DEF JobsOnTime, CarryDay, YearInv, LInv, TypeOK
  <2> QED BY <1>1, <1>2, <2>1 DEF CarryDay
<1> QED BY <1>1, <1>3, <1>4, <1>5, <1>6 DEF JobsOnTime

\* The carry-forward reads the balances of the year before: each turn is one
\* of those it started with, with the days to carry.
LEMMA CarryReadTurns ==
    ASSUME YearInv, CarryRead
    PROVE  /\ carry'.items = CarryTurns /\ carry'.todo = CarryTurns
           /\ carry'.year = carry.year /\ carry'.step \in {"find", "done"}
<1>1. carry.step = "types" /\ carry' = Begin(carry.year, CarryTurns)
  BY DEF CarryRead, CarryTurns
<1>2. PICK y \in Int, items \in SUBSET Item : y = carry.year /\ items = CarryTurns
  BY <1>1, CarryTurnsTypes, SchedulerAssumption DEF YearInv, JobReady
<1>3. /\ Begin(y, items).step \in {"find", "done"} /\ Begin(y, items).year = y
      /\ Begin(y, items).items = items /\ Begin(y, items).todo = items
  BY DEF Begin
<1>4. carry' = Begin(y, items)
  BY <1>1, <1>2
<1> QED BY <1>2, <1>3, <1>4

LEMMA CarryTurnsDiffer ==
    ASSUME LInv, JobTyped(carry, CarrySteps), OneTurnEach(carry),
           NEW i \in CarryTurns, NEW j \in CarryTurns,
           i.employeeId = j.employeeId, i.leaveTypeId = j.leaveTypeId
    PROVE  i = j
<1> DEFINE Previous(item) ==
               leaveBalance[<<item.employeeId, item.leaveTypeId, carry.year - 1>>]
           Amount(item) == CarryForwardDays(item.cap, Previous(item).remainingDays)
<1>1. PICK a \in carry.items : i = [a EXCEPT !.days = Amount(a)]
  BY DEF CarryTurns
<1>2. PICK b \in carry.items : j = [b EXCEPT !.days = Amount(b)]
  BY DEF CarryTurns
<1>3. a \in Item /\ b \in Item
  BY DEF JobTyped, Job
<1> HIDE DEF Amount
<1>4. /\ i.employeeId = a.employeeId /\ i.leaveTypeId = a.leaveTypeId
      /\ j.employeeId = b.employeeId /\ j.leaveTypeId = b.leaveTypeId
  BY <1>1, <1>2, <1>3 DEF Item
<1>5. a = b
  BY <1>4 DEF OneTurnEach, ItemKey
<1> QED BY <1>1, <1>2, <1>5

LEMMA CarryReadOnTime ==
    ASSUME YearInv, JobsOnTime, CarryRead
    PROVE  JobsOnTime'
<1>1. /\ UNCHANGED <<today, leaveType, pc, loc, accrual, due>>
      /\ carry.step = "types"
  BY DEF CarryRead, leaveVars, tables
<1>2. carry'.items = CarryTurns /\ carry'.year = carry.year
  BY CarryReadTurns
<1>3. /\ HandlersKnowLimits' /\ ItemsKnowLimits(accrual)' /\ OneTurnEach(accrual)'
      /\ DaysKnown' /\ AccrualDay'
  BY <1>1 DEF JobsOnTime, HandlersKnowLimits, ItemsKnowLimits, OneTurnEach,
     HasLimit, IsType, ItemKey, DaysKnown, AccrualDay
<1>4. ItemsKnowLimits(carry)'
  <2> SUFFICES ASSUME NEW i \in CarryTurns PROVE HasLimit(i.leaveTypeId, i.limit)
    BY <1>1, <1>2 DEF ItemsKnowLimits, HasLimit, IsType
  <2>1. PICK item \in carry.items :
           i.leaveTypeId = item.leaveTypeId /\ i.limit = item.limit
    BY CarryTurnsTypes DEF YearInv
  <2> QED BY <2>1 DEF JobsOnTime, ItemsKnowLimits
<1>5. OneTurnEach(carry)'
  BY <1>2, CarryTurnsDiffer DEF YearInv, JobsOnTime, OneTurnEach, ItemKey
<1>6. CarryDay'
  BY <1>1, <1>2 DEF JobsOnTime, CarryDay
<1> QED BY <1>1, <1>3, <1>4, <1>5, <1>6 DEF JobsOnTime

LEMMA RestartOnTime ==
    ASSUME YearInv, JobsOnTime, Restart
    PROVE  JobsOnTime'
<1>1. /\ UNCHANGED <<today, leaveType>> /\ due' \subseteq due
      /\ pc' = [h \in Handlers |-> "idle"]
  BY DEF Restart, tables
<1>2. TypesStand /\ HandlersKnowLimits'
  BY <1>1, SameTypesStand DEF HandlersKnowLimits
<1>3. accrual \in Job(AccrualSteps) /\ carry \in Job(CarrySteps)
  BY DEF YearInv, JobTyped
<1>4. /\ accrual'.items = accrual.items /\ accrual'.year = accrual.year
      /\ accrual'.step = "credit" => accrual'.cur.days > 0
      /\ ~Running(accrual')
  BY <1>3, AbortFields DEF Restart, Running, AccrualSteps
<1>5. /\ carry'.items = carry.items /\ carry'.year = carry.year
      /\ carry'.step # "idle" => carry.step # "idle"
  BY <1>3, AbortFields DEF Restart, Running, CarrySteps
<1> QED BY <1>1, <1>2, <1>4, <1>5, JobsStayOnTime

LEMMA NewDayOnTime ==
    ASSUME YearInv, JobsOnTime, NewDay
    PROVE  JobsOnTime'
<1>1. /\ UNCHANGED <<leaveType, pc, loc, accrual, carry>>
      /\ today' = today + 1 /\ ~Running(accrual)
      /\ "accrual" \in due' => today' \in MonthStarts
      /\ "carry" \in due' => today' \in YearStarts
  BY DEF NewDay, NextDay, tables
<1>2. /\ HandlersKnowLimits' /\ ItemsKnowLimits(accrual)' /\ OneTurnEach(accrual)'
      /\ ItemsKnowLimits(carry)' /\ OneTurnEach(carry)' /\ DaysKnown'
  BY <1>1 DEF JobsOnTime, HandlersKnowLimits, ItemsKnowLimits, OneTurnEach,
     HasLimit, IsType, ItemKey, DaysKnown
<1>3. AccrualDay'
  BY <1>1 DEF AccrualDay
<1>4. CarryDay'
  <2>1. today \in Int /\ YearStarts \subseteq Int
    BY LeaveAssumption, SchedulerAssumption DEF YearInv, LInv, TypeOK
  <2>2. \A d \in YearStarts : d <= today => d < today'
    BY <1>1, <2>1
  <2>3. \A d \in YearStarts : d < today' => d <= today'
    BY <1>1, <2>1
  <2> QED BY <1>1, <2>2, <2>3 DEF JobsOnTime, CarryDay
<1> QED BY <1>2, <1>3, <1>4 DEF JobsOnTime

-----------------------------------------------------------------------------
(* How many accruals a balance can have had. *)

LEMMA MonthsBegunNat ==
    ASSUME YearInv, JobsOnTime, NEW y
    PROVE  /\ IsFiniteSet({m \in MonthStarts : m <= today /\ YearOf[m] = y})
           /\ MonthsBegun(y) \in Nat
           /\ today \in MonthStarts /\ y = YearOf[today] => MonthsBegun(y) >= 1
<1> DEFINE S == {m \in MonthStarts : m <= today /\ YearOf[m] = y}
<1>1. PICK first \in Dates : \A d \in Dates : first <= d
  BY DEF JobsOnTime
<1>2. today \in Int /\ first \in Int /\ MonthStarts \subseteq Dates /\ Dates \subseteq Int
  BY LeaveAssumption, SchedulerAssumption DEF YearInv, LInv, TypeOK
<1>3. S \in SUBSET (first .. today)
  <2> SUFFICES ASSUME NEW m \in S PROVE m \in first .. today
    OBVIOUS
  <2>1. m \in Dates /\ m \in Int /\ m <= today
    BY <1>2
  <2> QED BY <1>1, <1>2, <2>1
<1>4. IsFiniteSet(S)
  BY <1>2, <1>3, FS_Interval, FS_Subset
<1>5. Cardinality(S) \in Nat /\ (Cardinality(S) = 0 <=> S = {})
  BY <1>4, FS_CardinalityType, FS_EmptySet
<1>6. today \in MonthStarts /\ y = YearOf[today] => S # {}
  BY <1>2
<1>7. MonthsBegun(y) = Cardinality(S)
  BY DEF MonthsBegun
<1> HIDE DEF S
<1>8. MonthsBegun(y) \in Nat
  BY <1>5, <1>7
<1>9. today \in MonthStarts /\ y = YearOf[today] => MonthsBegun(y) >= 1
  BY <1>5, <1>6, <1>7
<1> QED BY <1>4, <1>8, <1>9 DEF S

\* An accrual that is outstanding is one of those that have begun.
LEMMA AccrualsNat ==
    ASSUME YearInv, JobsOnTime, NEW k \in Keys
    PROVE  Accruals(k) \in Int /\ Accruals(k) >= 0
<1>1. CASE Outstanding(k)
  <2>1. today \in MonthStarts /\ k[3] = YearOf[today]
    <3>1. CASE "accrual" \in due /\ k[3] = YearOf[today]
      BY <3>1 DEF JobsOnTime, AccrualDay
    <3>2. CASE ToDo(accrual, k)
      <4>1. Running(accrual) /\ k[3] = accrual.year
        BY <3>2 DEF ToDo, ItemKey, YearInv, JobReady
      <4> QED BY <4>1 DEF JobsOnTime, AccrualDay
    <3> QED BY <1>1, <3>1, <3>2 DEF Outstanding
  <2>2. MonthsBegun(k[3]) \in Nat /\ MonthsBegun(k[3]) >= 1
    BY <2>1, MonthsBegunNat
  <2> QED BY <1>1, <2>2 DEF Accruals
<1>2. CASE ~Outstanding(k)
  <2>1. MonthsBegun(k[3]) \in Nat
    BY MonthsBegunNat
  <2> QED BY <1>2, <2>1 DEF Accruals
<1> QED BY <1>1, <1>2

AccrualsStay ==
    \A k \in Keys : Accruals(k)' \in Int /\ Accruals(k) <= Accruals(k)'

\* A step of the same day that makes no accrual outstanding.
LEMMA SameDayAccruals ==
    ASSUME YearInv, JobsOnTime, today' = today,
           \A k \in Keys : Outstanding(k)' => Outstanding(k)
    PROVE  AccrualsStay
<1> SUFFICES ASSUME NEW k \in Keys
             PROVE  Accruals(k)' \in Int /\ Accruals(k) <= Accruals(k)'
  BY DEF AccrualsStay
<1>1. MonthsBegun(k[3]) \in Nat /\ MonthsBegun(k[3])' = MonthsBegun(k[3])
  BY MonthsBegunNat DEF MonthsBegun
<1>2. Outstanding(k)' => Outstanding(k)
  OBVIOUS
<1>3. Accruals(k)' = MonthsBegun(k[3]) - (IF Outstanding(k)' THEN 1 ELSE 0)
  BY <1>1 DEF Accruals
<1> QED BY <1>1, <1>2, <1>3 DEF Accruals

LEMMA FewerTurns ==
    ASSUME YearInv, JobsOnTime, today' = today, due' \subseteq due,
           accrual'.todo \subseteq accrual.todo,
           accrual'.todo # {} => accrual'.year = accrual.year
    PROVE  AccrualsStay
<1>1. \A k \in Keys : Outstanding(k)' => Outstanding(k)
  BY DEF Outstanding, ToDo, ItemKey
<1> QED BY <1>1, SameDayAccruals

\* The accrual of today is outstanding before it starts and until it is done.
LEMMA StartAccruals ==
    ASSUME YearInv, JobsOnTime, AccrualStart, ~ServerBehind
    PROVE  AccrualsStay
<1>1. today' = today /\ "accrual" \in due
  BY DEF AccrualStart, leaveVars
<1>2. accrual'.year = YearOf[today]
  BY AccrualStartItems
<1>3. \A k \in Keys : Outstanding(k)' => Outstanding(k)
  BY <1>1, <1>2 DEF Outstanding, ToDo, ItemKey, AccrualStart
<1> QED BY <1>1, <1>3, SameDayAccruals

\* A day that begins a month allows one accrual more.
LEMMA NewDayAccruals ==
    ASSUME YearInv, JobsOnTime, NewDay
    PROVE  AccrualsStay
<1> SUFFICES ASSUME NEW k \in Keys
             PROVE  Accruals(k)' \in Int /\ Accruals(k) <= Accruals(k)'
  BY DEF AccrualsStay
<1> DEFINE S == {m \in MonthStarts : m <= today /\ YearOf[m] = k[3]}
           T == {m \in MonthStarts : m <= today + 1 /\ YearOf[m] = k[3]}
<1>1. /\ today' = today + 1 /\ today \in Int /\ due = {} /\ ~Running(accrual)
      /\ accrual' = accrual /\ MonthStarts \subseteq Int
      /\ "accrual" \in due' => today + 1 \in MonthStarts
  BY LeaveAssumption, SchedulerAssumption
     DEF NewDay, NextDay, YearInv, LInv, TypeOK
<1>2. ~Outstanding(k)
  BY <1>1 DEF Outstanding, ToDo, YearInv, JobReady
<1>3. IsFiniteSet(S) /\ MonthsBegun(k[3]) = Cardinality(S) /\ Cardinality(S) \in Nat
  BY MonthsBegunNat DEF MonthsBegun
<1>4. MonthsBegun(k[3])' = Cardinality(T)
  BY <1>1 DEF MonthsBegun
<1>5. S \subseteq T /\ today + 1 \notin S /\ T \subseteq S \cup {today + 1}
  <2>1. \A m \in MonthStarts : m <= today + 1 <=> m <= today \/ m = today + 1
    BY <1>1
  <2>2. ~(today + 1 <= today)
    BY <1>1
  <2> QED BY <2>1, <2>2
<1>6. Outstanding(k)' => today + 1 \in T
  BY <1>1 DEF Outstanding, ToDo, YearInv, JobReady
<1>7. T = S \/ T = S \cup {today + 1}
  BY <1>5
<1>8. /\ IsFiniteSet(S \cup {today + 1})
      /\ Cardinality(S \cup {today + 1}) = Cardinality(S) + 1
  BY <1>3, <1>5, FS_AddElement
<1> HIDE DEF S, T
<1>9. \/ Cardinality(T) = Cardinality(S) /\ ~Outstanding(k)'
      \/ Cardinality(T) = Cardinality(S) + 1
  BY <1>5, <1>6, <1>7, <1>8
<1>10. Accruals(k)' = Cardinality(T) - (IF Outstanding(k)' THEN 1 ELSE 0)
  BY <1>4 DEF Accruals
<1>11. Accruals(k) = Cardinality(S)
  BY <1>2, <1>3 DEF Accruals
<1> QED BY <1>3, <1>9, <1>10, <1>11

-----------------------------------------------------------------------------
(* The days of a row. *)

LEMMA MoreAccruals ==
    ASSUME NEW b, NEW limit, NEW m \in Int, NEW n \in Int, m <= n,
           GrantedRow(b, limit, m)
    PROVE  GrantedRow(b, limit, n)
BY DEF GrantedRow

LEMMA NewRowGranted ==
    ASSUME NEW limit \in Int, NEW c \in Int, NEW most \in Int, most >= 0
    PROVE  /\ GrantedRow(NewBalance(limit, c), limit, most)
           /\ GrantedDays(NewBalance(limit, c)) = limit
<1>1. PICK b \in Balance : /\ b = NewBalance(limit, c)
                           /\ b.totalDays = limit + c /\ b.carriedForward = c
  BY NewBalanceType
<1>2. PICK m \in Int : m = MonthlyAccrual(limit)
  BY DEF MonthlyAccrual
<1>3. b.totalDays = limit + b.carriedForward + 0 * m
  BY <1>1
<1>4. 0 \in 0..most
  OBVIOUS
<1> QED BY <1>1, <1>2, <1>3, <1>4 DEF GrantedRow, GrantedDays

LEMMA CreditedRowGranted ==
    ASSUME NEW b \in Balance, NEW limit \in Int, NEW most \in Int,
           GrantedRow(b, limit, most)
    PROVE  GrantedRow(Credited(b, MonthlyAccrual(limit)), limit, most + 1)
<1>1. PICK m \in Int : m = MonthlyAccrual(limit)
  BY DEF MonthlyAccrual
<1>2. PICK n \in 0..most : b.totalDays = limit + b.carriedForward + n * m
  BY <1>1 DEF GrantedRow
<1>3. PICK c \in Balance : /\ c = Credited(b, m) /\ c.totalDays = b.totalDays + m
                           /\ c.carriedForward = b.carriedForward
  BY GrantTypes
<1>4. PICK nm \in Int : nm = n * m /\ (n + 1) * m = nm + m
  OBVIOUS
<1>5. b.carriedForward \in Int /\ b.totalDays \in Int
  BY DEF Balance
<1>6. c.totalDays = limit + c.carriedForward + (n + 1) * m
  BY <1>2, <1>3, <1>4, <1>5
<1>7. n + 1 \in 0..(most + 1)
  OBVIOUS
<1> QED BY <1>1, <1>3, <1>6, <1>7 DEF GrantedRow

LEMMA CarriedRowGranted ==
    ASSUME NEW b \in Balance, b.carriedForward = 0, NEW limit \in Int, NEW most \in Int,
           NEW d \in Int, GrantedRow(b, limit, most)
    PROVE  /\ GrantedRow(Carried(b, d), limit, most)
           /\ GrantedDays(Carried(b, d)) = GrantedDays(b)
<1>1. PICK m \in Int : m = MonthlyAccrual(limit)
  BY DEF MonthlyAccrual
<1>2. PICK n \in 0..most : b.totalDays = limit + b.carriedForward + n * m
  BY <1>1 DEF GrantedRow
<1>3. PICK c \in Balance : /\ c = Carried(b, d) /\ c.totalDays = b.totalDays + d
                           /\ c.carriedForward = d
  BY GrantTypes
<1>4. PICK nm \in Int : nm = n * m
  OBVIOUS
<1>5. b.totalDays \in Int /\ c.totalDays - c.carriedForward = b.totalDays - b.carriedForward
  BY <1>3 DEF Balance
<1>6. c.totalDays = limit + c.carriedForward + n * m
  BY <1>2, <1>3, <1>4, <1>5
<1> QED BY <1>1, <1>3, <1>5, <1>6 DEF GrantedRow, GrantedDays

-----------------------------------------------------------------------------
(* What a step does to the days granted. *)

\* A balance keeps the days it was granted, or is new and has the limit of
\* its leave type.
KeepsGrants ==
    \A k \in Keys : leaveBalance'[k] # NULL =>
        \/ /\ leaveBalance[k] # NULL
           /\ leaveBalance'[k].totalDays = leaveBalance[k].totalDays
           /\ leaveBalance'[k].carriedForward = leaveBalance[k].carriedForward
        \/ /\ leaveBalance[k] = NULL
           /\ \E limit \in Int : /\ HasLimit(k[2], limit)
                                 /\ leaveBalance'[k] = NewBalance(limit, 0)

LEMMA SameGrants == ASSUME leaveBalance' = leaveBalance PROVE KeepsGrants
BY DEF KeepsGrants

LEMMA OneGrant ==
    ASSUME LInv, NEW key \in Keys, NEW b,
           leaveBalance' = [leaveBalance EXCEPT ![key] = b],
           \/ Books(key, b)
           \/ /\ leaveBalance[key] = NULL
              /\ \E limit \in Int : HasLimit(key[2], limit) /\ b = NewBalance(limit, 0)
    PROVE  KeepsGrants
<1>1. \A k \in Keys : leaveBalance'[k] = IF k = key THEN b ELSE leaveBalance[k]
  BY DEF LInv, TypeOK
<1> QED BY <1>1 DEF KeepsGrants, Books

LEMMA ServiceGrants ==
    ASSUME LInv, HandlersKnowLimits, ServiceStep
    PROVE  KeepsGrants
<1>1. ASSUME NEW key \in Keys, NEW b \in Balance, NEW h \in Handlers,
             MadeBy(h, key, b)
      PROVE  /\ leaveBalance[key] = NULL
             /\ \E limit \in Int : HasLimit(key[2], limit) /\ b = NewBalance(limit, 0)
  <2>1. PICK f \in Form, limit \in Int : f = loc[h].form /\ limit = loc[h].limit
    BY <1>1 DEF MadeBy, CreateLoc
  <2>2. HasLimit(f.leaveTypeId, limit)
    BY <1>1, <2>1 DEF MadeBy, HandlersKnowLimits
  <2>3. key[2] = f.leaveTypeId
    BY <1>1, <2>1 DEF MadeBy, KeyOf
  <2> QED BY <1>1, <2>1, <2>2, <2>3 DEF MadeBy
<1>2. ASSUME NEW key \in Keys, NEW b \in Balance,
             leaveBalance' = [leaveBalance EXCEPT ![key] = b],
             Books(key, b) \/ \E h \in Handlers : MadeBy(h, key, b)
      PROVE  KeepsGrants
  BY <1>1, <1>2, OneGrant
<1> QED BY <1>2, SameGrants, BalanceWrites

\* The rows that a step leaves with the days they had.
LEMMA KeptRows ==
    ASSUME YearInv, YearInv', JobsOnTime, TypesStand, AccrualsStay,
           Granted, FullLimit,
           \A k \in Keys : leaveBalance'[k] # NULL =>
               \/ /\ leaveBalance[k] # NULL
                  /\ leaveBalance'[k].totalDays = leaveBalance[k].totalDays
                  /\ leaveBalance'[k].carriedForward = leaveBalance[k].carriedForward
               \/ /\ GrantedRow(leaveBalance'[k], LimitOf(k)', Accruals(k)')
                  /\ GrantedDays(leaveBalance'[k]) >= LimitOf(k)'
    PROVE  Granted' /\ FullLimit'
<1> SUFFICES ASSUME NEW k \in Keys, leaveBalance'[k] # NULL
             PROVE  /\ GrantedRow(leaveBalance'[k], LimitOf(k)', Accruals(k)')
                    /\ GrantedDays(leaveBalance'[k]) >= LimitOf(k)'
  BY DEF Granted, FullLimit
<1>1. CASE /\ leaveBalance[k] # NULL
           /\ leaveBalance'[k].totalDays = leaveBalance[k].totalDays
           /\ leaveBalance'[k].carriedForward = leaveBalance[k].carriedForward
  <2>1. IsType(k[2]) /\ IsType(k[2])' /\ k[2] \in LeaveTypes
    BY <1>1 DEF YearInv, LInv, TypeBehindBalance, Keys
  <2>2. LimitOf(k)' = LimitOf(k)
    BY <2>1 DEF TypesStand, LimitOf, IsType
  <2>3. PICK m \in Int, n \in Int : m = Accruals(k) /\ n = Accruals(k)' /\ m <= n
    BY AccrualsNat DEF AccrualsStay
  <2>4. GrantedRow(leaveBalance'[k], LimitOf(k), m)
    BY <1>1, <2>3 DEF Granted, GrantedRow
  <2>5. GrantedRow(leaveBalance'[k], LimitOf(k), n)
    BY <2>3, <2>4, MoreAccruals
  <2>6. GrantedDays(leaveBalance'[k]) >= LimitOf(k)
    BY <1>1 DEF FullLimit, GrantedDays
  <2> QED BY <2>2, <2>3, <2>5, <2>6
<1> QED BY <1>1

LEMMA NewRowFits ==
    ASSUME YearInv, YearInv', JobsOnTime, TypesStand, AccrualsStay,
           NEW k \in Keys, leaveBalance'[k] # NULL, NEW limit \in Int, NEW c \in Int,
           HasLimit(k[2], limit), leaveBalance'[k] = NewBalance(limit, c)
    PROVE  /\ GrantedRow(leaveBalance'[k], LimitOf(k)', Accruals(k)')
           /\ GrantedDays(leaveBalance'[k]) >= LimitOf(k)'
<1>1. IsType(k[2])' /\ k[2] \in LeaveTypes
  BY DEF YearInv, LInv, TypeBehindBalance, Keys
<1>2. LimitOf(k)' = limit
  BY <1>1 DEF TypesStand, LimitOf, HasLimit
<1>3. PICK n \in Int : n = Accruals(k)' /\ n >= 0
  BY AccrualsNat DEF AccrualsStay
<1>4. GrantedRow(NewBalance(limit, c), limit, n) /\ GrantedDays(NewBalance(limit, c)) = limit
  BY <1>3, NewRowGranted
<1> QED BY <1>2, <1>3, <1>4

\* A step that keeps the grants keeps the books about them.
LEMMA KeptGranted ==
    ASSUME YearInv, YearInv', JobsOnTime, TypesStand, AccrualsStay,
           Granted, FullLimit, KeepsGrants
    PROVE  Granted' /\ FullLimit'
<1>1. ASSUME NEW k \in Keys, leaveBalance'[k] # NULL,
             \E limit \in Int : /\ HasLimit(k[2], limit)
                                /\ leaveBalance'[k] = NewBalance(limit, 0)
      PROVE  /\ GrantedRow(leaveBalance'[k], LimitOf(k)', Accruals(k)')
             /\ GrantedDays(leaveBalance'[k]) >= LimitOf(k)'
  <2>1. PICK limit \in Int, c \in Int :
           c = 0 /\ HasLimit(k[2], limit) /\ leaveBalance'[k] = NewBalance(limit, c)
    BY <1>1
  <2> QED BY <1>1, <2>1, NewRowFits
<1> QED BY <1>1, KeptRows DEF KeepsGrants

\* The days carried forward stay where they are, under a carry-forward that
\* stands still or goes on.
LEMMA KeptCarried ==
    ASSUME CarriedOnce, KeepsGrants,
           carry'.year = carry.year, carry'.todo \subseteq carry.todo,
           carry.step # "idle" => carry'.step # "idle",
           carry'.step = "types" => carry.step = "types"
    PROVE  CarriedOnce'
<1> SUFFICES ASSUME NEW k \in Keys, leaveBalance'[k] # NULL,
                    leaveBalance'[k].carriedForward # 0
             PROVE  /\ carry'.step # "idle"
                    /\ \/ k[3] < carry'.year
                       \/ k[3] = carry'.year /\ carry'.step # "types" /\ ~ToDo(carry', k)
  BY DEF CarriedOnce
<1>1. leaveBalance[k] # NULL /\ leaveBalance[k].carriedForward # 0
  <2>1. \A limit : NewBalance(limit, 0).carriedForward = 0
    BY DEF NewBalance
  <2> QED BY <2>1 DEF KeepsGrants
<1>2. ~ToDo(carry, k) => ~ToDo(carry', k)
  BY DEF ToDo, ItemKey
<1> QED BY <1>1, <1>2 DEF CarriedOnce

\* What an accrual has served stays served: no step takes granted days away.
GrantsStay ==
    \A k \in Keys : leaveBalance[k] # NULL =>
        /\ leaveBalance'[k] # NULL
        /\ GrantedDays(leaveBalance'[k]) \in Int /\ GrantedDays(leaveBalance[k]) \in Int
        /\ GrantedDays(leaveBalance'[k]) >= GrantedDays(leaveBalance[k])

LEMMA GrantedDaysType ==
    ASSUME NEW b \in Balance PROVE GrantedDays(b) \in Int
BY DEF GrantedDays, Balance

LEMMA KeptGrantsStay ==
    ASSUME YearInv, KeepsGrants, BalancesStay
    PROVE  GrantsStay
<1> SUFFICES ASSUME NEW k \in Keys, leaveBalance[k] # NULL
             PROVE  /\ leaveBalance'[k] # NULL
                    /\ GrantedDays(leaveBalance'[k]) \in Int
                    /\ GrantedDays(leaveBalance[k]) \in Int
                    /\ GrantedDays(leaveBalance'[k]) >= GrantedDays(leaveBalance[k])
  BY DEF GrantsStay
<1>1. leaveBalance'[k] # NULL
  BY DEF BalancesStay
<1>2. GrantedDays(leaveBalance[k]) \in Int
  BY GrantedDaysType DEF YearInv, LInv, TypeOK
<1>3. GrantedDays(leaveBalance'[k]) = GrantedDays(leaveBalance[k])
  BY <1>1 DEF KeepsGrants, GrantedDays
<1> QED BY <1>1, <1>2, <1>3

\* What the accrual served before is served still.
LEMMA ServedStays ==
    ASSUME YearInv, Reached, GrantsStay, accrual.step \notin {"idle", "aborted"},
           NEW item \in accrual.items \ accrual.todo
    PROVE  /\ leaveBalance'[ItemKey(accrual, item)] # NULL
           /\ GrantedDays(leaveBalance'[ItemKey(accrual, item)])
                  >= item.limit + item.days
<1>1. accrual \in Job(AccrualSteps) /\ accrual.year \in Years /\ item \in Item
  BY DEF YearInv, JobTyped, JobReady, Job
<1>2. PICK key \in Keys : key = ItemKey(accrual, item)
  BY <1>1, ItemKeyType
<1>3. PICK d \in Int : d = item.limit + item.days
  BY <1>1 DEF Item
<1>4. leaveBalance[key] # NULL /\ GrantedDays(leaveBalance[key]) >= d
  BY <1>2, <1>3 DEF Reached
<1> QED BY <1>2, <1>3, <1>4 DEF GrantsStay

LEMMA KeptReached ==
    ASSUME YearInv, Reached, GrantsStay,
           accrual'.items = accrual.items, accrual'.todo = accrual.todo,
           accrual'.year = accrual.year,
           accrual'.step \notin {"idle", "aborted"} =>
               accrual.step \notin {"idle", "aborted"}
    PROVE  Reached'
<1> SUFFICES ASSUME accrual'.step \notin {"idle", "aborted"},
                    NEW item \in accrual.items, item \notin accrual.todo
             PROVE  /\ leaveBalance'[ItemKey(accrual', item)] # NULL
                    /\ GrantedDays(leaveBalance'[ItemKey(accrual', item)])
                           >= item.limit + item.days
  BY DEF Reached
<1>1. ItemKey(accrual, item) = ItemKey(accrual', item)
  BY DEF ItemKey
<1> QED BY <1>1, ServedStays

-----------------------------------------------------------------------------
(* The steps. *)

LEMMA GrantInvParts ==
    ASSUME GrantInv
    PROVE  /\ YearInv /\ LInv /\ JobsOnTime /\ CarriedOnce /\ Granted
           /\ FullLimit /\ Reached /\ HandlersKnowLimits
BY DEF GrantInv, YearInv, JobsOnTime

\* A statement of the service, a lookup of a job, a restart and midnight.
LEMMA KeptGrantInv ==
    ASSUME GrantInv, YearInv', JobsOnTime', TypesStand, AccrualsStay,
           KeepsGrants, BalancesStay,
           accrual'.items = accrual.items, accrual'.todo = accrual.todo,
           accrual'.year = accrual.year,
           accrual'.step \notin {"idle", "aborted"} =>
               accrual.step \notin {"idle", "aborted"},
           carry'.year = carry.year, carry'.todo \subseteq carry.todo,
           carry.step # "idle" => carry'.step # "idle",
           carry'.step = "types" => carry.step = "types"
    PROVE  GrantInv'
<1>1. Granted' /\ FullLimit'
  BY KeptGranted, GrantInvParts
<1>2. CarriedOnce'
  BY KeptCarried, GrantInvParts
<1>3. GrantsStay
  BY KeptGrantsStay, GrantInvParts
<1>4. Reached'
  BY <1>3, KeptReached, GrantInvParts
<1> QED BY <1>1, <1>2, <1>4 DEF GrantInv

LEMMA ServiceGrantInv ==
    ASSUME GrantInv, YearInv', ServiceStep, UNCHANGED jobVars,
           [LimitsKept]_leaveType
    PROVE  GrantInv'
<1> USE GrantInvParts
<1>1. accrual' = accrual /\ carry' = carry /\ due' = due
  BY DEF jobVars
<1>2. today' = today
  BY DEF ServiceStep, CreateStep, DecideStep, CancelStep, TypeStep, Fail,
     Submit, CheckOverlap, ReadBalance, ReadLimit, CreateBalance, InsertRequest,
     AddPending, CreateApproval, ReadForDecision, CommitDecision, ReadForCancel,
     CommitCancel, CreateLeaveType, UpdateLeaveType, DeleteLeaveType
<1>3. TypesStand /\ KeepsGrants /\ BalancesStay /\ JobsOnTime'
  BY ServiceTypesStand, ServiceGrants, ServiceBalancesStay, ServiceOnTime
<1>4. AccrualsStay
  BY <1>1, <1>2, FewerTurns
<1> QED BY <1>1, <1>3, <1>4, KeptGrantInv

LEMMA AccrualStartGrantInv ==
    ASSUME GrantInv, YearInv', AccrualStart, ~ServerBehind
    PROVE  GrantInv'
<1> USE GrantInvParts
<1>1. leaveBalance' = leaveBalance /\ leaveType' = leaveType /\ carry' = carry
  BY DEF AccrualStart, leaveVars, tables
<1>2. TypesStand /\ KeepsGrants /\ JobsOnTime' /\ AccrualsStay
  BY <1>1, SameTypesStand, SameGrants, AccrualStartOnTime, StartAccruals
<1>3. Granted' /\ FullLimit' /\ CarriedOnce'
  BY <1>1, <1>2, KeptGranted, KeptCarried
<1>4. Reached'
  BY AccrualStartItems DEF Reached
<1> QED BY <1>2, <1>3, <1>4 DEF GrantInv

LEMMA CarryStartGrantInv ==
    ASSUME GrantInv, YearInv', CarryStart, ~ServerBehind
    PROVE  GrantInv'
<1> USE GrantInvParts
<1>1. /\ leaveBalance' = leaveBalance /\ leaveType' = leaveType
      /\ accrual' = accrual /\ today' = today /\ due' \subseteq due
      /\ "carry" \in due
  BY DEF CarryStart, leaveVars, tables
<1>2. TypesStand /\ KeepsGrants /\ JobsOnTime' /\ BalancesStay
  BY <1>1, SameTypesStand, SameGrants, CarryStartOnTime DEF BalancesStay
<1>3. AccrualsStay
  BY <1>1, FewerTurns
<1>4. Granted' /\ FullLimit' /\ GrantsStay
  BY <1>2, <1>3, KeptGranted, KeptGrantsStay
<1>5. Reached'
  BY <1>1, <1>4, KeptReached
<1>6. CarriedOnce'
  <2> SUFFICES ASSUME NEW k \in Keys, leaveBalance[k] # NULL,
                      leaveBalance[k].carriedForward # 0
               PROVE  carry'.step # "idle" /\ k[3] < carry'.year
    BY <1>1 DEF CarriedOnce
  <2>1. carry'.step = "types" /\ carry'.year = YearOf[today]
    BY <1>1, ServerYearType DEF CarryStart, NoJob
  <2>2. carry.step # "idle" /\ (k[3] < carry.year \/ k[3] = carry.year)
    BY DEF CarriedOnce
  <2>3. PICK d \in YearStarts : carry.year = YearOf[d] /\ d < today
    BY <1>1, <2>2 DEF JobsOnTime, CarryDay
  <2>4. today \in YearStarts /\ today \in Dates /\ d \in Dates
    BY <1>1, SchedulerAssumption DEF JobsOnTime, CarryDay, YearInv, LInv, TypeOK
  <2>5. /\ d \in Int /\ today \in Int /\ YearOf[d] \in Int /\ YearOf[today] \in Int
        /\ k[3] \in Int
    BY <2>4, LeaveAssumption, SchedulerAssumption DEF Keys
  <2>6. YearOf[d] <= YearOf[today]
    BY <2>3, <2>4, <2>5, CalendarAssumption
  <2>7. YearOf[d] # YearOf[today]
    <3>1. YearOf[d] = YearOf[today] => today <= d
      BY <2>4, CalendarAssumption
    <3> QED BY <2>3, <2>5, <3>1
  <2> QED BY <2>1, <2>2, <2>3, <2>5, <2>6, <2>7
<1> QED BY <1>2, <1>4, <1>5, <1>6 DEF GrantInv

LEMMA CarryReadGrantInv ==
    ASSUME GrantInv, YearInv', CarryRead
    PROVE  GrantInv'
<1> USE GrantInvParts
<1>1. /\ leaveBalance' = leaveBalance /\ leaveType' = leaveType
      /\ accrual' = accrual /\ today' = today /\ due' = due
      /\ carry.step = "types"
  BY DEF CarryRead, leaveVars, tables
<1>2. TypesStand /\ KeepsGrants /\ JobsOnTime' /\ BalancesStay
  BY <1>1, SameTypesStand, SameGrants, CarryReadOnTime DEF BalancesStay
<1>3. AccrualsStay
  BY <1>1, FewerTurns
<1>4. Granted' /\ FullLimit' /\ GrantsStay
  BY <1>2, <1>3, KeptGranted, KeptGrantsStay
<1>5. Reached'
  BY <1>1, <1>4, KeptReached
<1>6. CarriedOnce'
  BY <1>1, CarryReadTurns DEF CarriedOnce
<1> QED BY <1>2, <1>4, <1>5, <1>6 DEF GrantInv

LEMMA RestartGrantInv ==
    ASSUME GrantInv, YearInv', Restart
    PROVE  GrantInv'
<1> USE GrantInvParts
<1>1. /\ leaveBalance' = leaveBalance /\ leaveType' = leaveType
      /\ today' = today /\ due' \subseteq due
  BY DEF Restart, tables
<1>2. TypesStand /\ KeepsGrants /\ JobsOnTime' /\ BalancesStay
  BY <1>1, SameTypesStand, SameGrants, RestartOnTime DEF BalancesStay
<1>3. accrual \in Job(AccrualSteps) /\ carry \in Job(CarrySteps)
  BY DEF YearInv, JobTyped
<1>4. /\ accrual'.todo \subseteq accrual.todo /\ accrual'.year = accrual.year
      /\ accrual' = accrual \/ accrual'.step = "aborted"
  BY <1>3, AbortFields DEF Restart, AccrualSteps
<1>5. /\ carry'.todo \subseteq carry.todo /\ carry'.year = carry.year
      /\ carry.step # "idle" => carry'.step # "idle"
      /\ carry'.step # "types" \/ carry' = carry
  BY <1>3, AbortFields DEF Restart, CarrySteps
<1>6. AccrualsStay
  BY <1>1, <1>4, FewerTurns
<1>7. Granted' /\ FullLimit' /\ GrantsStay
  BY <1>2, <1>6, KeptGranted, KeptGrantsStay
<1>8. CarriedOnce'
  BY <1>2, <1>5, KeptCarried
<1>9. Reached'
  <2>1. CASE accrual' = accrual
    BY <1>7, <2>1, KeptReached
  <2>2. CASE accrual'.step = "aborted"
    BY <2>2 DEF Reached
  <2> QED BY <1>4, <2>1, <2>2
<1> QED BY <1>2, <1>7, <1>8, <1>9 DEF GrantInv

LEMMA NewDayGrantInv ==
    ASSUME GrantInv, YearInv', NewDay
    PROVE  GrantInv'
<1> USE GrantInvParts
<1>1. /\ leaveBalance' = leaveBalance /\ leaveType' = leaveType
      /\ accrual' = accrual /\ carry' = carry
  BY DEF NewDay, NextDay, tables
<1>2. TypesStand /\ KeepsGrants /\ JobsOnTime' /\ BalancesStay /\ AccrualsStay
  BY <1>1, SameTypesStand, SameGrants, NewDayOnTime, NewDayAccruals DEF BalancesStay
<1> QED BY <1>1, <1>2, KeptGrantInv

\* The limit of an item is the limit of the balance of its turn.
LEMMA ItemLimit ==
    ASSUME YearInv, NEW item \in Item, HasLimit(item.leaveTypeId, item.limit),
           NEW key \in Keys, key[2] = item.leaveTypeId, leaveBalance[key] # NULL
    PROVE  LimitOf(key) = item.limit /\ item.limit \in Int
<1>1. IsType(key[2])
  BY DEF YearInv, LInv, TypeBehindBalance
<1> QED BY <1>1 DEF HasLimit, LimitOf, Item

\* What the credit of the accrual writes.
Credits(item, key, old, b) ==
    /\ item \in accrual.todo /\ item \in accrual.items /\ item \in Item
    /\ item = accrual.cur /\ key = ItemKey(accrual, item)
    /\ old = leaveBalance[key] /\ old # NULL /\ b = Credited(old, item.days)
    /\ leaveBalance' = [leaveBalance EXCEPT ![key] = b]
    /\ LimitOf(key) = item.limit /\ item.limit \in Int
    /\ item.days = MonthlyAccrual(item.limit) /\ item.days \in Int /\ item.days > 0
    /\ accrual'.todo = accrual.todo \ {item}

LEMMA AccrualCredits ==
    ASSUME GrantInv, AccrualCredit
    PROVE  \E item \in Item, key \in Keys, old \in Balance, b \in Balance :
              Credits(item, key, old, b)
<1> USE GrantInvParts
<1>1. accrual.step = "credit" /\ accrual' = NextTurn(accrual)
  BY DEF AccrualCredit
<1>2. /\ accrual \in Job(AccrualSteps) /\ accrual.cur \in accrual.todo
      /\ accrual.todo \subseteq accrual.items /\ accrual.year \in Years
      /\ accrual.cur \in Item /\ leaveBalance[ItemKey(accrual, accrual.cur)] # NULL
  BY <1>1, JobUnderWay DEF YearInv
<1>3. PICK item \in Item, key \in Keys :
         /\ item = accrual.cur /\ key = ItemKey(accrual, item)
         /\ key[2] = item.leaveTypeId
  BY <1>2, ItemKeyType
<1>4. PICK old \in Balance, d \in Int : old = leaveBalance[key] /\ d = item.days
  BY <1>2, <1>3 DEF YearInv, LInv, TypeOK, Item
<1>5. PICK b \in Balance : b = Credited(old, d)
  BY GrantTypes
<1>6. leaveBalance' = [leaveBalance EXCEPT ![key] = b]
  BY <1>3, <1>4, <1>5 DEF AccrualCredit, YearInv, LInv, TypeOK
<1>7. /\ HasLimit(item.leaveTypeId, item.limit)
      /\ item.days = MonthlyAccrual(item.limit) /\ item.days > 0
  BY <1>1, <1>2, <1>3 DEF JobsOnTime, ItemsKnowLimits, DaysKnown
<1>8. LimitOf(key) = item.limit /\ item.limit \in Int
  BY <1>2, <1>3, <1>7, ItemLimit
<1>9. accrual'.todo = accrual.todo \ {item}
  BY <1>1, <1>2, <1>3, NextTurnFields DEF AccrualSteps
<1>10. Credits(item, key, old, b)
  BY <1>2, <1>3, <1>4, <1>5, <1>6, <1>7, <1>8, <1>9 DEF Credits
<1> QED BY <1>10

\* The balance that is credited was waiting for this accrual.
LEMMA CreditedAccruals ==
    ASSUME GrantInv, AccrualCredit, NEW item, NEW key \in Keys, NEW old, NEW b,
           Credits(item, key, old, b), AccrualsStay
    PROVE  Accruals(key)' = Accruals(key) + 1
<1> USE GrantInvParts
<1>1. AccrualMove /\ Running(accrual)
  BY AccrualMoves DEF AccrualTurns, AccrualMove
<1>2. /\ due' = due /\ "accrual" \notin due /\ today' = today
      /\ accrual'.year = accrual.year
  BY <1>1 DEF AccrualMove, JobsOnTime, AccrualDay
<1>3. Outstanding(key)
  BY DEF Outstanding, ToDo, Credits
<1>4. ~ToDo(accrual', key)
  <2> SUFFICES ASSUME NEW i \in accrual.todo \ {item}, ItemKey(accrual', i) = key
               PROVE  FALSE
    BY DEF ToDo, Credits
  <2>1. ItemKey(accrual, i) = ItemKey(accrual, item) /\ i \in accrual.items
    BY <1>2, AccrualMoves DEF ItemKey, Credits, YearInv, JobTyped, AccrualCredit
  <2> QED BY <2>1 DEF JobsOnTime, OneTurnEach, Credits
<1>5. ~Outstanding(key)'
  BY <1>2, <1>4 DEF Outstanding, ToDo
<1>6. PICK m \in Nat : m = MonthsBegun(key[3]) /\ m = MonthsBegun(key[3])'
  BY <1>2, MonthsBegunNat DEF MonthsBegun
<1>7. Accruals(key) = m - 1
  BY <1>3, <1>6 DEF Accruals
<1>8. Accruals(key)' = m
  <2>1. Accruals(key)' = MonthsBegun(key[3])' - (IF Outstanding(key)' THEN 1 ELSE 0)
    BY DEF Accruals
  <2> QED BY <1>5, <1>6, <2>1
<1> QED BY <1>7, <1>8

\* A step of the accrual keeps the books of the days granted.
LEMMA AccrualBooks ==
    ASSUME GrantInv, YearInv', AccrualTurns
    PROVE  /\ JobsOnTime' /\ Granted' /\ FullLimit' /\ CarriedOnce' /\ GrantsStay
           /\ TypesStand /\ AccrualMove
<1> USE GrantInvParts
<1>1. AccrualMove /\ JobsOnTime'
  BY AccrualMoves, TurnsOnTime
<1>2. leaveType' = leaveType /\ carry' = carry /\ today' = today /\ due' = due
  BY <1>1 DEF AccrualMove
<1>3. TypesStand
  BY <1>2, SameTypesStand
<1>4. AccrualsStay
  <2>1. accrual'.todo \subseteq accrual.todo /\ accrual'.year = accrual.year
    BY <1>1 DEF AccrualMove
  <2> QED BY <1>2, <2>1, FewerTurns
<1>5. ASSUME KeepsGrants, BalancesStay
      PROVE  Granted' /\ FullLimit' /\ CarriedOnce' /\ GrantsStay
  BY <1>2, <1>3, <1>4, <1>5, KeptGranted, KeptCarried, KeptGrantsStay
<1>6. CASE leaveBalance' = leaveBalance
  <2>1. BalancesStay
    BY <1>6 DEF BalancesStay
  <2> QED BY <1>1, <1>3, <1>5, <1>6, <2>1, SameGrants
<1>7. CASE AccrualCreate /\ leaveBalance' # leaveBalance
  <2>1. PICK item \in accrual.todo, key \in Keys, b \in Balance :
           /\ item \in Item /\ key[2] = item.leaveTypeId
           /\ leaveBalance' = [leaveBalance EXCEPT ![key] = b]
           /\ AccrualWrites(item, key, b)
    BY <1>7, AccrualTurn
  <2>2. leaveBalance[key] = NULL /\ b = NewBalance(item.limit, 0)
    BY <1>7, <2>1 DEF AccrualWrites, AccrualCreate, AccrualCredit
  <2>3. item \in accrual.items /\ item.limit \in Int
    BY <1>7, <2>1 DEF YearInv, JobTyped, AccrualCreate, Item
  <2>4. HasLimit(key[2], item.limit)
    BY <2>1, <2>3 DEF JobsOnTime, ItemsKnowLimits
  <2>5. KeepsGrants
    BY <2>1, <2>2, <2>3, <2>4, OneGrant
  <2>6. BalancesStay
    <3>1. \A k \in Keys : k # key => leaveBalance'[k] = leaveBalance[k]
      BY <2>1 DEF YearInv, LInv, TypeOK
    <3> QED BY <2>2, <3>1 DEF BalancesStay
  <2> QED BY <1>1, <1>3, <1>5, <2>5, <2>6
<1>8. CASE AccrualCredit
  <2>1. PICK item \in Item, key \in Keys, old \in Balance, b \in Balance :
           Credits(item, key, old, b)
    BY <1>8, AccrualCredits
  <2>2. \A k \in Keys : leaveBalance'[k] = IF k = key THEN b ELSE leaveBalance[k]
    BY <2>1 DEF Credits, YearInv, LInv, TypeOK
  <2>3. PICK limit \in Int, d \in Int :
           /\ limit = item.limit /\ d = item.days /\ d > 0
           /\ d = MonthlyAccrual(limit) /\ limit = LimitOf(key)
           /\ b = Credited(old, d) /\ old = leaveBalance[key] /\ old # NULL
    BY <2>1 DEF Credits
  <2>4. /\ b.totalDays = old.totalDays + d /\ b.carriedForward = old.carriedForward
        /\ b # NULL
    BY <2>3, GrantTypes, LeaveAssumption
  <2>5. GrantedDays(b) = GrantedDays(old) + d /\ GrantedDays(old) \in Int
        /\ GrantedDays(b) \in Int
    BY <2>4 DEF GrantedDays, Balance
  <2>6. LimitOf(key)' = LimitOf(key)
    BY <1>2 DEF LimitOf
  <2>7. PICK m \in Int : m = Accruals(key) /\ Accruals(key)' = m + 1
    BY <1>4, <1>8, <2>1, AccrualsNat, CreditedAccruals
  <2>8. GrantedRow(b, limit, m + 1)
    <3>1. GrantedRow(old, limit, m)
      BY <2>3, <2>7 DEF Granted
    <3> QED BY <2>3, <3>1, CreditedRowGranted
  <2>9. GrantedDays(old) >= limit
    BY <2>3 DEF FullLimit
  <2>10. GrantedDays(b) >= limit
    BY <2>3, <2>5, <2>9
  <2>11. Granted' /\ FullLimit'
    <3>1. /\ GrantedRow(leaveBalance'[key], LimitOf(key)', Accruals(key)')
          /\ GrantedDays(leaveBalance'[key]) >= LimitOf(key)'
      BY <2>2, <2>3, <2>6, <2>7, <2>8, <2>10
    <3> QED BY <1>3, <1>4, <2>2, <3>1, KeptRows
  <2>12. CarriedOnce'
    BY <1>2, <2>2, <2>3, <2>4 DEF CarriedOnce
  <2>13. GrantsStay
    <3>1. \A k \in Keys : leaveBalance[k] # NULL => GrantedDays(leaveBalance[k]) \in Int
      BY GrantedDaysType DEF YearInv, LInv, TypeOK
    <3> QED BY <2>2, <2>3, <2>4, <2>5, <3>1 DEF GrantsStay
  <2> QED BY <1>1, <1>3, <2>11, <2>12, <2>13
<1>9. leaveBalance' = leaveBalance \/ AccrualCreate \/ AccrualCredit
  BY DEF AccrualTurns, AccrualFind, leaveVars, tables
<1> QED BY <1>6, <1>7, <1>8, <1>9

LEMMA AccrualTurnsGrantInv ==
    ASSUME GrantInv, YearInv', AccrualTurns
    PROVE  GrantInv'
<1> USE GrantInvParts
<1>1. /\ JobsOnTime' /\ Granted' /\ FullLimit' /\ CarriedOnce' /\ GrantsStay
      /\ TypesStand /\ AccrualMove
  BY AccrualBooks
<1>2. /\ accrual'.items = accrual.items /\ accrual'.year = accrual.year
      /\ accrual.step \notin {"idle", "aborted"}
  BY <1>1 DEF AccrualMove, Running
<1>3. Reached'
  <2>1. CASE accrual'.todo = accrual.todo
    BY <1>1, <1>2, <2>1, KeptReached
  <2>2. CASE accrual'.step = "aborted"
    BY <2>2 DEF Reached
  <2>3. ASSUME NEW item \in accrual.todo, accrual'.todo = accrual.todo \ {item},
               Served(item)
        PROVE  Reached'
    <3>1. ASSUME NEW i \in accrual.items \ accrual.todo
          PROVE  /\ leaveBalance'[ItemKey(accrual', i)] # NULL
                 /\ GrantedDays(leaveBalance'[ItemKey(accrual', i)])
                        >= i.limit + i.days
      <4>1. ItemKey(accrual', i) = ItemKey(accrual, i)
        BY <1>2 DEF ItemKey
      <4> QED BY <1>1, <1>2, <4>1, ServedStays
    <3>2. /\ leaveBalance'[ItemKey(accrual', item)] # NULL
          /\ GrantedDays(leaveBalance'[ItemKey(accrual', item)])
                 >= item.limit + item.days
      <4>1. accrual \in Job(AccrualSteps) /\ accrual.year \in Years /\ item \in Item
        BY <1>2 DEF YearInv, JobTyped, JobReady, Job
      <4>2. PICK key \in Keys :
               /\ key = ItemKey(accrual, item) /\ key = ItemKey(accrual', item)
               /\ key[2] = item.leaveTypeId
        BY <1>2, <4>1, ItemKeyType DEF ItemKey
      <4>3. CASE AccrualCredit /\ item = accrual.cur
        <5>1. PICK i \in Item, ky \in Keys, old \in Balance, b \in Balance :
                 Credits(i, ky, old, b)
          BY <4>3, AccrualCredits
        <5>2. i = item /\ ky = key
          BY <4>2, <4>3, <5>1 DEF Credits
        <5>3. leaveBalance'[key] = b
          BY <5>1, <5>2 DEF Credits, YearInv, LInv, TypeOK
        <5>4. PICK limit \in Int, d \in Int :
                 /\ limit = item.limit /\ d = item.days /\ limit = LimitOf(key)
                 /\ b = Credited(old, d) /\ old = leaveBalance[key] /\ old # NULL
          BY <5>1, <5>2 DEF Credits
        <5>5. GrantedDays(old) >= limit
          BY <5>4 DEF FullLimit
        <5>6. b.totalDays = old.totalDays + d /\ b.carriedForward = old.carriedForward
          BY <5>4, GrantTypes
        <5>7. GrantedDays(b) >= limit + d
          BY <5>5, <5>6 DEF GrantedDays, Balance
        <5>8. b # NULL
          BY LeaveAssumption
        <5> QED BY <4>2, <5>3, <5>4, <5>7, <5>8
      <4>4. CASE item.days <= 0 /\ leaveBalance'[key] # NULL
        <5>1. item \in accrual.items
          BY <1>2 DEF YearInv, JobTyped, Job, AccrualSteps
        <5>2. HasLimit(key[2], item.limit) /\ key[2] \in LeaveTypes
          BY <4>1, <4>2, <5>1 DEF JobsOnTime, ItemsKnowLimits, Item
        <5>3. IsType(key[2])'
          BY <4>4 DEF YearInv, LInv, TypeBehindBalance
        <5>4. PICK limit \in Int, d \in Int :
                 limit = item.limit /\ d = item.days /\ d <= 0
          BY <4>1, <4>4 DEF Item
        <5>5. LimitOf(key)' = limit
          BY <1>1, <5>2, <5>3, <5>4 DEF TypesStand, LimitOf, HasLimit
        <5>6. GrantedDays(leaveBalance'[key]) >= limit
          BY <1>1, <4>4, <5>5 DEF FullLimit
        <5>7. GrantedDays(leaveBalance'[key]) \in Int
          BY <4>4, GrantedDaysType DEF YearInv, LInv, TypeOK
        <5>8. GrantedDays(leaveBalance'[key]) >= limit + d
          BY <5>4, <5>6, <5>7
        <5> QED BY <4>2, <4>4, <5>4, <5>8
      <4> QED BY <2>3, <4>2, <4>3, <4>4 DEF Served
    <3>3. \A i \in accrual.items \ (accrual.todo \ {item}) :
             i \in accrual.items \ accrual.todo \/ i = item
      OBVIOUS
    <3> QED BY <1>2, <2>3, <3>1, <3>2, <3>3 DEF Reached
  <2> QED BY <1>1, <2>1, <2>2, <2>3 DEF AccrualMove
<1> QED BY <1>1, <1>3 DEF GrantInv

\* What a turn of the carry-forward writes: a new row, or the row that was
\* there, with nothing carried yet.
Carries(item, key, b) ==
    /\ item \in carry.todo /\ item \in carry.items /\ item = carry.cur
    /\ item.limit \in Int /\ item.days \in Int /\ HasLimit(key[2], item.limit)
    /\ key = ItemKey(carry, item) /\ key[3] = carry.year
    /\ leaveBalance' = [leaveBalance EXCEPT ![key] = b]
    /\ \/ leaveBalance[key] = NULL /\ b = NewBalance(item.limit, item.days)
       \/ /\ leaveBalance[key] \in Balance /\ leaveBalance[key].carriedForward = 0
          /\ b = Carried(leaveBalance[key], item.days)

LEMMA CarryBooks ==
    ASSUME GrantInv, CarryTurnStep, leaveBalance' # leaveBalance
    PROVE  \E item \in Item, key \in Keys, b \in Balance : Carries(item, key, b)
<1> USE GrantInvParts
<1>1. CarryCreate \/ CarryCredit
  BY DEF CarryTurnStep, CarryFind, leaveVars, tables
<1>2. PICK item \in carry.todo, key \in Keys, b \in Balance :
         /\ item = carry.cur /\ item \in Item
         /\ key = ItemKey(carry, item) /\ key[2] = item.leaveTypeId
         /\ leaveBalance' = [leaveBalance EXCEPT ![key] = b]
         /\ CarryWrites(item, key, b)
  BY <1>1, CarryTurn
<1>3. /\ carry.step \in {"create", "credit"} /\ item \in carry.items
      /\ carry.year \in Years
  BY <1>1, JobUnderWay DEF CarryCreate, CarryCredit, YearInv
<1>4. HasLimit(key[2], item.limit) /\ item.limit \in Int /\ item.days \in Int
  BY <1>2, <1>3 DEF JobsOnTime, ItemsKnowLimits, Item
<1>5. key[3] = carry.year
  BY <1>2 DEF ItemKey
<1>6. leaveBalance[key] # NULL => leaveBalance[key].carriedForward = 0
  <2> SUFFICES ASSUME leaveBalance[key] # NULL, leaveBalance[key].carriedForward # 0
               PROVE  FALSE
    OBVIOUS
  <2>1. ToDo(carry, key)
    BY <1>2 DEF ToDo
  <2>2. PICK y \in Int : y = carry.year
    BY <1>3, SchedulerAssumption
  <2>3. ~(key[3] < carry.year)
    BY <1>5, <2>2
  <2> QED BY <2>1, <2>3 DEF CarriedOnce
<1>7. \/ leaveBalance[key] = NULL /\ b = NewBalance(item.limit, item.days)
      \/ /\ leaveBalance[key] \in Balance /\ leaveBalance[key].carriedForward = 0
         /\ b = Carried(leaveBalance[key], item.days)
  BY <1>2, <1>6, LeaveAssumption DEF CarryWrites
<1>8. Carries(item, key, b)
  BY <1>2, <1>3, <1>4, <1>5, <1>7 DEF Carries
<1> QED BY <1>2, <1>8

LEMMA CarryTurnGrantInv ==
    ASSUME GrantInv, YearInv', CarryTurnStep
    PROVE  GrantInv'
<1> USE GrantInvParts
<1>1. CarryMove /\ JobsOnTime'
  BY CarryMoves, TurnsOnTime
<1>2. /\ leaveType' = leaveType /\ accrual' = accrual /\ today' = today
      /\ due' = due /\ carry'.year = carry.year /\ carry'.items = carry.items
      /\ carry'.step \notin {"idle", "types"} /\ carry'.todo \subseteq carry.todo
  BY <1>1 DEF CarryMove
<1>3. TypesStand
  BY <1>2, SameTypesStand
<1>4. AccrualsStay
  BY <1>2, FewerTurns
<1>5. CASE leaveBalance' = leaveBalance
  <2>1. KeepsGrants /\ BalancesStay
    BY <1>5, SameGrants DEF BalancesStay
  <2> QED BY <1>1, <1>2, <1>3, <1>4, <2>1, KeptGrantInv
<1>6. CASE leaveBalance' # leaveBalance
  <2>1. PICK item \in Item, key \in Keys, b \in Balance : Carries(item, key, b)
    BY <1>6, CarryBooks
  <2>2. \A k \in Keys : leaveBalance'[k] = IF k = key THEN b ELSE leaveBalance[k]
    BY <2>1 DEF Carries, YearInv, LInv, TypeOK
  <2>3. b # NULL
    BY LeaveAssumption
  <2>4. PICK limit \in Int, d \in Int :
           limit = item.limit /\ d = item.days /\ HasLimit(key[2], limit)
    BY <2>1 DEF Carries
  <2>5. ASSUME NEW old \in Balance, old = leaveBalance[key], old.carriedForward = 0,
               b = Carried(old, d)
        PROVE  /\ GrantedRow(b, LimitOf(key)', Accruals(key)')
               /\ GrantedDays(b) >= LimitOf(key)'
               /\ GrantedDays(b) = GrantedDays(old)
    <3>1. old # NULL
      BY LeaveAssumption
    <3>2. LimitOf(key) = limit /\ LimitOf(key)' = limit
      <4>1. IsType(key[2])
        BY <2>5, <3>1 DEF YearInv, LInv, TypeBehindBalance
      <4> QED BY <1>2, <2>4, <4>1 DEF LimitOf, HasLimit
    <3>3. PICK m \in Int, n \in Int : m = Accruals(key) /\ n = Accruals(key)' /\ m <= n
      BY <1>4, AccrualsNat DEF AccrualsStay
    <3>4. GrantedRow(old, limit, m) /\ GrantedDays(old) >= limit
      BY <2>5, <3>1, <3>2, <3>3 DEF Granted, FullLimit
    <3>5. GrantedRow(old, limit, n)
      BY <3>3, <3>4, MoreAccruals
    <3>6. GrantedRow(Carried(old, d), limit, n)
             /\ GrantedDays(Carried(old, d)) = GrantedDays(old)
      BY <2>5, <3>5, CarriedRowGranted
    <3> QED BY <2>5, <3>2, <3>3, <3>4, <3>6
  <2>6. /\ GrantedRow(b, LimitOf(key)', Accruals(key)')
        /\ GrantedDays(b) >= LimitOf(key)'
    <3>1. CASE leaveBalance[key] = NULL
      <4>1. leaveBalance'[key] = NewBalance(limit, d) /\ leaveBalance'[key] = b
        BY <2>1, <2>2, <2>4, <3>1, LeaveAssumption DEF Carries
      <4>2. /\ GrantedRow(leaveBalance'[key], LimitOf(key)', Accruals(key)')
            /\ GrantedDays(leaveBalance'[key]) >= LimitOf(key)'
        BY <1>3, <1>4, <2>3, <2>4, <4>1, NewRowFits
      <4> QED BY <4>1, <4>2
    <3>2. CASE leaveBalance[key] # NULL
      BY <2>1, <2>4, <2>5, <3>2 DEF Carries
    <3> QED BY <3>1, <3>2
  <2>7. Granted' /\ FullLimit'
    BY <1>3, <1>4, <2>2, <2>6, KeptRows
  <2>8. ~ToDo(carry', key)
    <3> SUFFICES ASSUME NEW i \in carry.todo \ {item}, ItemKey(carry', i) = key
                 PROVE  FALSE
      BY <1>1, <1>6, <2>1 DEF ToDo, Carries, CarryMove
    <3>1. ItemKey(carry, i) = ItemKey(carry, item)
      BY <1>2, <2>1 DEF ItemKey, Carries
    <3>2. i \in carry.items /\ item \in carry.items
      BY <1>1, <2>1 DEF Carries, CarryMove, YearInv, JobTyped
    <3> QED BY <3>1, <3>2 DEF JobsOnTime, OneTurnEach
  <2>9. CarriedOnce'
    <3> SUFFICES ASSUME NEW k \in Keys, leaveBalance'[k] # NULL,
                        leaveBalance'[k].carriedForward # 0
                 PROVE  /\ carry'.step # "idle"
                        /\ \/ k[3] < carry'.year
                           \/ /\ k[3] = carry'.year /\ carry'.step # "types"
                              /\ ~ToDo(carry', k)
      BY DEF CarriedOnce
    <3>1. CASE k = key
      BY <1>2, <2>1, <2>8, <3>1 DEF Carries
    <3>2. CASE k # key
      <4>1. ~ToDo(carry, k) => ~ToDo(carry', k)
        BY <1>2 DEF ToDo, ItemKey
      <4> QED BY <1>2, <2>2, <3>2, <4>1 DEF CarriedOnce
    <3> QED BY <3>1, <3>2
  <2>10. GrantsStay
    <3>1. \A k \in Keys : leaveBalance[k] # NULL => GrantedDays(leaveBalance[k]) \in Int
      BY GrantedDaysType DEF YearInv, LInv, TypeOK
    <3>2. leaveBalance[key] # NULL => GrantedDays(b) = GrantedDays(leaveBalance[key])
      BY <2>1, <2>4, <2>5 DEF Carries
    <3> QED BY <2>2, <2>3, <3>1, <3>2 DEF GrantsStay
  <2>11. Reached'
    BY <1>2, <2>10, KeptReached
  <2> QED BY <1>1, <2>7, <2>9, <2>11 DEF GrantInv
<1> QED BY <1>5, <1>6

-----------------------------------------------------------------------------
(* The theorems. *)

LEMMA InitGrantInv == ASSUME YearInit, YearInv PROVE GrantInv
<1>1. /\ today \in Dates /\ \A d \in Dates : today <= d
      /\ \A h \in Handlers : pc[h] = "idle"
      /\ \A k \in Keys : leaveBalance[k] = NULL
      /\ due = {} /\ accrual = NoJob /\ carry = NoJob
  BY DEF YearInit, Init
<1>2. NoJob.items = {} /\ NoJob.todo = {} /\ NoJob.step = "idle"
  BY DEF NoJob
<1>3. JobsOnTime
  BY <1>1, <1>2 DEF JobsOnTime, HandlersKnowLimits, ItemsKnowLimits, OneTurnEach,
     DaysKnown, AccrualDay, CarryDay, Running
<1>4. CarriedOnce /\ Granted /\ FullLimit /\ Reached
  BY <1>1, <1>2 DEF CarriedOnce, Granted, FullLimit, Reached
<1> QED BY <1>3, <1>4 DEF GrantInv

LEMMA YearGrantInv ==
    ASSUME ~ServerBehind, GrantInv, YearInv', [YearNext]_vars, [LimitsKept]_leaveType
    PROVE  GrantInv'
<1>1. CASE JobStep
  <2>1. \/ AccrualStart \/ CarryStart \/ CarryRead
        \/ AccrualTurns \/ CarryTurnStep
    BY <1>1 DEF JobStep, AccrualTurns, CarryTurnStep
  <2> QED BY <2>1, AccrualStartGrantInv, CarryStartGrantInv, CarryReadGrantInv,
          AccrualTurnsGrantInv, CarryTurnGrantInv
<1>2. CASE UNCHANGED vars
  <2>1. /\ UNCHANGED <<today, leaveType, leaveBalance, pc, loc>>
        /\ UNCHANGED <<due, accrual, carry>>
    BY <1>2 DEF vars, leaveVars, tables, jobVars
  <2>2. TypesStand /\ KeepsGrants /\ BalancesStay
    BY <2>1, SameTypesStand, SameGrants DEF BalancesStay
  <2>3. HandlersKnowLimits'
    BY <2>1, GrantInvParts DEF HandlersKnowLimits, HasLimit, IsType
  <2>4. JobsOnTime' /\ AccrualsStay
    BY <2>1, <2>2, <2>3, GrantInvParts, JobsStayOnTime, FewerTurns
       DEF JobsOnTime, DaysKnown
  <2> QED BY <2>1, <2>2, <2>4, KeptGrantInv
<1> QED BY <1>1, <1>2, ServiceGrantInv, RestartGrantInv, NewDayGrantInv DEF YearNext

\* The inductive invariant of the days granted, when the server's clock shows
\* the day it is and annual limits are not edited: the limits that handlers
\* and jobs read are still those of the leave types, no job has two turns for
\* a balance, the jobs run on the days they are set for.
THEOREM GrantsInductive ==
    ASSUME ~ServerBehind
    PROVE  YearSpec /\ [][LimitsKept]_leaveType => []GrantInv
<1>1. YearInit /\ YearInv => GrantInv
  BY InitGrantInv
<1>2. GrantInv /\ YearInv' /\ [YearNext]_vars /\ [LimitsKept]_leaveType => GrantInv'
  BY YearGrantInv
<1> QED BY <1>1, <1>2, YearInductive, PTL DEF YearSpec

\* Every day of totalDays was granted by the limit, by an accrual of a month
\* that has begun, or by the one carry-forward of its year, whichever handler
\* or job made the row and wherever a restart cut the jobs short.
THEOREM GrantedOnce ==
    ASSUME ~ServerBehind
    PROVE  YearSpec /\ [][LimitsKept]_leaveType => []GrantLedger
<1>1. GrantInv => GrantLedger
  <2> SUFFICES ASSUME GrantInv, NEW k \in Keys, leaveBalance[k] # NULL
               PROVE  GrantedRow(leaveBalance[k], LimitOf(k), MonthsBegun(k[3]))
    BY DEF GrantLedger, GrantedRow, LimitOf
  <2>1. PICK m \in Int, n \in Int :
           m = Accruals(k) /\ n = MonthsBegun(k[3]) /\ m <= n
    <3>1. PICK n \in Nat : n = MonthsBegun(k[3])
      BY GrantInvParts, MonthsBegunNat
    <3>2. PICK m \in Int : m = Accruals(k) /\ m <= n
      BY <3>1 DEF Accruals
    <3> QED BY <3>1, <3>2
  <2>2. GrantedRow(leaveBalance[k], LimitOf(k), m)
    BY <2>1, GrantInvParts DEF Granted
  <2> QED BY <2>1, <2>2, MoreAccruals
<1> QED BY <1>1, GrantsInductive, PTL

\* An accrual that reports completion has reached every balance it set out to
\* credit, for any number of employees, leave types and handlers beside it.
THEOREM AccrualComplete ==
    ASSUME ~ServerBehind
    PROVE  YearSpec /\ [][LimitsKept]_leaveType => []AccrualReachesAll
<1>1. GrantInv => AccrualReachesAll
  <2> SUFFICES ASSUME GrantInv, accrual.step = "done", NEW item \in accrual.items
               PROVE  /\ leaveBalance[ItemKey(accrual, item)] # NULL
                      /\ GrantedDays(leaveBalance[ItemKey(accrual, item)])
                             >= item.limit + item.days
    BY DEF AccrualReachesAll, GrantedDays
  <2>1. accrual.todo = {}
    BY GrantInvParts DEF YearInv, JobReady, Running
  <2> QED BY <2>1, GrantInvParts DEF Reached
<1> QED BY <1>1, GrantsInductive, PTL
=============================================================================
