--------------------------- MODULE LeaveScheduler ---------------------------
(***************************************************************************)
(* The leave jobs of backend/src/scheduler/scheduler.service.ts running    *)
(* beside the request handlers of Leave, over the same tables.             *)
(*                                                                         *)
(* accrueLeaveBalances runs at 00:05 IST on the first of each month and    *)
(* carryForwardLeaveBalances at 00:10 IST on the first of January.  Both   *)
(* take an await per row, so handlers run between any two rows; neither    *)
(* is a transaction, and the catch around each loop ends the whole job at  *)
(* the first error.                                                        *)
(***************************************************************************)
EXTENDS Leave

CONSTANTS
    MonthStarts,   \* the days the accrual runs on
    YearStarts,    \* the days the carry-forward runs on
    ServerBehind   \* the server clock still shows yesterday at 00:05 IST

ASSUME SchedulerAssumption ==
    /\ YearStarts \subseteq MonthStarts /\ MonthStarts \subseteq Dates
    /\ Years \subseteq Int
    /\ ServerBehind \in BOOLEAN

\* The first of January is the first day of its year.
ASSUME CalendarAssumption ==
    /\ \A d, e \in Dates : d <= e => YearOf[d] <= YearOf[e]
    /\ \A s \in YearStarts, d \in Dates : YearOf[d] = YearOf[s] => s <= d

VARIABLES due,       \* jobs whose time has not come yet today
          accrual,   \* the accrual job
          carry      \* the carry-forward job

jobVars == <<due, accrual, carry>>
vars == <<leaveVars, jobVars>>

\* One turn of a job's loop: the balance it is about, the leave type as the
\* job read it, and the days it grants.
Item == [employeeId : Employees, leaveTypeId : LeaveTypes,
         limit : Int, cap : Int, days : Int]

ASSUME NoItem == NULL \notin Item

AccrualSteps == {"idle", "find", "create", "credit", "done", "aborted"}
CarrySteps == {"idle", "types", "find", "create", "credit", "done", "aborted"}

\* items: what the job read at its start; todo: the turns left; cur: the
\* turn under way.
Job(steps) == [step : steps, year : Int, items : SUBSET Item,
               todo : SUBSET Item, cur : Item \cup {NULL}]

NoJob == [step |-> "idle", year |-> 0, items |-> {}, todo |-> {},
          cur |-> NULL]

Running(job) == job.step \notin {"idle", "done", "aborted"}

-----------------------------------------------------------------------------
\* `new Date().getFullYear()`, in the server's own time zone.
ServerYear == YearOf[IF ServerBehind THEN today - 1 ELSE today]

ItemKey(job, item) == <<item.employeeId, item.leaveTypeId, job.year>>

MonthlyAccrual(limit) == limit \div 12

ActiveTypes == {t \in LeaveTypes : IsType(t) /\ leaveType[t].isActive}

\* maxCarryForward null or 0 means no cap.
CarryForwardDays(cap, remaining) ==
    IF cap # 0 /\ cap < remaining THEN cap ELSE remaining

Credited(b, days) == [b EXCEPT !.totalDays = @ + days,
                               !.remainingDays = @ + days]

\* Mutation: how much was carried forward is not recorded.
CarriedUnrecorded(b, days) == Credited(b, days)

Carried(b, days) == [Credited(b, days) EXCEPT !.carriedForward = days]

\* Mutation: the loop ends after its first turn.
NextTurnOnce(job) ==
    [job EXCEPT !.todo = @ \ {job.cur}, !.cur = NULL, !.step = "done"]

\* The turn is over; the job is done when it was the last one.
NextTurn(job) ==
    LET left == job.todo \ {job.cur}
    IN  [job EXCEPT !.todo = left, !.cur = NULL,
                    !.step = IF left = {} THEN "done" ELSE "find"]

Abort(job) == [job EXCEPT !.todo = {}, !.cur = NULL, !.step = "aborted"]

Begin(year, items) ==
    [step |-> IF items = {} THEN "done" ELSE "find", year |-> year,
     items |-> items, todo |-> items, cur |-> NULL]

-----------------------------------------------------------------------------
(* accrueLeaveBalances *)

\* Reads the active employees and the active leave types.
AccrualStart ==
    /\ "accrual" \in due
    /\ due' = due \ {"accrual"}
    /\ accrual' = Begin(ServerYear,
            {[employeeId |-> e, leaveTypeId |-> t,
              limit |-> leaveType[t].annualLimit, cap |-> 0,
              days |-> MonthlyAccrual(leaveType[t].annualLimit)] :
                 e \in Employees, t \in ActiveTypes})
    /\ UNCHANGED <<leaveVars, carry>>

\* The rows come in no stated order, so any turn may be next.
AccrualFind(item) ==
    /\ accrual.step = "find"
    /\ item \in accrual.todo
    /\ LET turn == [accrual EXCEPT !.cur = item]
       IN  \/ /\ leaveBalance[ItemKey(accrual, item)] = NULL
              /\ accrual' = [turn EXCEPT !.step = "create"]
           \/ /\ leaveBalance[ItemKey(accrual, item)] # NULL
              /\ accrual' = IF item.days > 0
                            THEN [turn EXCEPT !.step = "credit"]
                            ELSE NextTurn(turn)
    /\ UNCHANGED <<leaveVars, due, carry>>

\* A handler that made the row since, or a deleted type, ends the whole job.
AccrualCreate ==
    LET item == accrual.cur
        key == ItemKey(accrual, item)
        insertable == leaveBalance[key] = NULL /\ IsType(item.leaveTypeId)
    IN  /\ accrual.step = "create"
        /\ \/ ~insertable /\ accrual' = Abort(accrual) /\ UNCHANGED leaveBalance
           \/ /\ insertable
              /\ leaveBalance' = [leaveBalance EXCEPT ![key] =
                                      NewBalance(item.limit, 0)]
              /\ accrual' = IF item.days > 0
                            THEN [accrual EXCEPT !.step = "credit"]
                            ELSE NextTurn(accrual)
        /\ UNCHANGED <<today, leaveType, leaveRequest, approvals, pc, loc,
                       failures, due, carry>>

AccrualCredit ==
    LET item == accrual.cur
    IN  /\ accrual.step = "credit"
        /\ leaveBalance' = [leaveBalance EXCEPT ![ItemKey(accrual, item)] =
                                Credited(@, item.days)]
        /\ accrual' = NextTurn(accrual)
        /\ UNCHANGED <<today, leaveType, leaveRequest, approvals, pc, loc,
                       failures, due, carry>>

-----------------------------------------------------------------------------
(* carryForwardLeaveBalances *)

\* Five minutes after the accrual started, which may still be running.
\* Reads the leave types that carry forward.
CarryStart ==
    /\ "carry" \in due /\ "accrual" \notin due
    /\ due' = due \ {"carry"}
    /\ carry' = [NoJob EXCEPT !.step = "types", !.year = ServerYear,
            !.items = {[employeeId |-> e, leaveTypeId |-> t,
                        limit |-> leaveType[t].annualLimit,
                        cap |-> leaveType[t].maxCarryForward, days |-> 0] :
                 e \in Employees,
                 t \in {a \in ActiveTypes : leaveType[a].carryForwardAllowed}}]
    /\ UNCHANGED <<leaveVars, accrual>>

\* Reads the balances of the year before; carryForwardDays is fixed here.
CarryRead ==
    LET Previous(item) ==
            leaveBalance[<<item.employeeId, item.leaveTypeId, carry.year - 1>>]
        Amount(item) == CarryForwardDays(item.cap, Previous(item).remainingDays)
        counted == {item \in carry.items :
                       /\ carry.year - 1 \in Years
                       /\ Previous(item) # NULL
                       /\ Previous(item).remainingDays > 0}
    IN  /\ carry.step = "types"
        /\ carry' = Begin(carry.year,
                {i \in {[item EXCEPT !.days = Amount(item)] :
                            item \in counted} : i.days > 0})
        /\ UNCHANGED <<leaveVars, due, accrual>>

CarryFind(item) ==
    /\ carry.step = "find"
    /\ item \in carry.todo
    /\ carry' = [carry EXCEPT !.cur = item,
                    !.step = IF leaveBalance[ItemKey(carry, item)] = NULL
                             THEN "create" ELSE "credit"]
    /\ UNCHANGED <<leaveVars, due, accrual>>

CarryCreate ==
    LET item == carry.cur
        key == ItemKey(carry, item)
        insertable == leaveBalance[key] = NULL /\ IsType(item.leaveTypeId)
    IN  /\ carry.step = "create"
        /\ \/ ~insertable /\ carry' = Abort(carry) /\ UNCHANGED leaveBalance
           \/ /\ insertable
              /\ leaveBalance' = [leaveBalance EXCEPT ![key] =
                                      NewBalance(item.limit, item.days)]
              /\ carry' = NextTurn(carry)
        /\ UNCHANGED <<today, leaveType, leaveRequest, approvals, pc, loc,
                       failures, due, accrual>>

CarryCredit ==
    LET item == carry.cur
    IN  /\ carry.step = "credit"
        /\ leaveBalance' = [leaveBalance EXCEPT ![ItemKey(carry, item)] =
                                Carried(@, item.days)]
        /\ carry' = NextTurn(carry)
        /\ UNCHANGED <<today, leaveType, leaveRequest, approvals, pc, loc,
                       failures, due, accrual>>

-----------------------------------------------------------------------------
\* The server restarts: handlers and jobs are lost where they stand, and a
\* job whose minute passes while it is down is not run later.
Restart ==
    /\ failures < MaxFailures
    /\ failures' = failures + 1
    /\ pc' = [h \in Handlers |-> "idle"]
    /\ loc' = [h \in Handlers |-> NULL]
    /\ due' \in SUBSET due
    /\ accrual' = IF Running(accrual) THEN Abort(accrual) ELSE accrual
    /\ carry' = IF Running(carry) THEN Abort(carry) ELSE carry
    /\ UNCHANGED <<today, tables>>

\* A job takes far less than a day.
NewDay ==
    /\ NextDay
    /\ due = {} /\ ~Running(accrual) /\ ~Running(carry)
    /\ due' = {j \in {"accrual", "carry"} :
                  \/ j = "accrual" /\ today' \in MonthStarts
                  \/ j = "carry" /\ today' \in YearStarts}
    /\ UNCHANGED <<accrual, carry>>

JobStep ==
    \/ AccrualStart \/ AccrualCreate \/ AccrualCredit
    \/ \E item \in accrual.todo : AccrualFind(item)
    \/ CarryStart \/ CarryRead \/ CarryCreate \/ CarryCredit
    \/ \E item \in carry.todo : CarryFind(item)

YearInit == Init /\ due = {} /\ accrual = NoJob /\ carry = NoJob

YearNext ==
    \/ ServiceStep /\ UNCHANGED jobVars
    \/ JobStep
    \/ Restart
    \/ NewDay

YearSpec == YearInit /\ [][YearNext]_vars

-----------------------------------------------------------------------------
(* Properties. *)

\* The job records stay well formed, and a turn under way is one of those
\* the job set out to make.
JobTypeOK ==
    /\ due \subseteq {"accrual", "carry"}
    /\ accrual \in Job(AccrualSteps) /\ carry \in Job(CarrySteps)
    /\ \A job \in {accrual, carry} :
          /\ job.cur # NULL <=> job.step \in {"create", "credit"}
          /\ job.cur # NULL => job.cur \in job.todo
          /\ job.step # "types" => job.todo \subseteq job.items

MonthsBegun(y) == Cardinality({m \in MonthStarts : m <= today /\ YearOf[m] = y})

\* Every day of totalDays has one of three sources: the annual limit granted
\* when the row was made, one accrual for each month that has begun, and the
\* days carried forward once.  Nothing is granted twice, whoever makes the
\* row.  (For leave types whose limit is not edited.)
GrantLedger ==
    \A k \in Keys : leaveBalance[k] # NULL =>
        LET b == leaveBalance[k]
            limit == leaveType[k[2]].annualLimit
        IN  \E n \in 0..MonthsBegun(k[3]) :
                b.totalDays = limit + b.carriedForward
                                    + n * MonthlyAccrual(limit)

\* An accrual that reports completion has credited every active employee for
\* every active leave type, though handlers create balances while it runs.
AccrualReachesAll ==
    accrual.step = "done" =>
        \A item \in accrual.items :
            LET b == leaveBalance[ItemKey(accrual, item)]
            IN  /\ b # NULL
                /\ b.totalDays - b.carriedForward >= item.limit + item.days

=============================================================================
