------------------------------- MODULE Leave -------------------------------
(***************************************************************************)
(* Leave requests and leave balances: backend/src/leave/leave.service.ts.  *)
(*                                                                         *)
(* Every HTTP request is served by a handler.  A handler runs alone from   *)
(* one `await this.prisma...` to the next; between two awaits any other    *)
(* handler may run.  An action below is therefore one database statement   *)
(* (or one $transaction) together with the code that runs up to the next.  *)
(* pc[h] names the statement handler h executes next and loc[h] is what it *)
(* has read or been given so far.  A refusal before the first statement    *)
(* changes nothing and is not an action.                                   *)
(***************************************************************************)
EXTENDS Integers, FiniteSets, Functions

CONSTANTS
    Employees,    \* employees; rows are never deleted, only terminated
    Approvers,    \* employees whose user holds leave:approve
    LeaveTypes,   \* ids of leave_types rows
    TypeRows,     \* contents an administrator may give a leave type
    RequestIds,   \* ids of leave_requests rows (bounds the requests made)
    Handlers,     \* HTTP requests served at the same time
    Dates,        \* calendar days
    Years,        \* calendar years
    YearOf,       \* the year of a day
    AdminLinked,  \* the admin user seeded by e-mail has an employee record
    MaxFailures,  \* bounds the statements that throw
    NULL,         \* no row
    Gone          \* the row was deleted

LeaveTypeRow == [annualLimit : Int, isActive : BOOLEAN,
                 carryForwardAllowed : BOOLEAN, maxCarryForward : Int]

Statuses == {"pending", "approved", "rejected", "cancelled"}

Balance == [totalDays : Int, usedDays : Int, pendingDays : Int,
            remainingDays : Int, carriedForward : Int]

\* rejectedReason is kept as whether there is one.
Request == [employeeId : Employees, leaveTypeId : LeaveTypes,
            startDate : Dates, endDate : Dates, days : Int,
            status : Statuses, approvedBy : Employees \cup {NULL},
            rejected : BOOLEAN]

ASSUME LeaveAssumption ==
    /\ Approvers \subseteq Employees
    /\ TypeRows \subseteq LeaveTypeRow
    /\ Dates \subseteq Int
    /\ YearOf \in [Dates -> Years]
    /\ AdminLinked \in BOOLEAN
    /\ MaxFailures \in Nat
    /\ NULL \notin TypeRows /\ Gone \notin TypeRows /\ NULL # Gone
    /\ NULL \notin Employees \cup Balance \cup Request

Form == [employeeId : Employees, leaveTypeId : LeaveTypes,
         startDate : Dates, endDate : Dates]

\* leave_balances is unique on (employeeId, leaveTypeId, year).
Keys == Employees \X LeaveTypes \X Years

VARIABLES today, leaveType, leaveBalance, leaveRequest, approvals,
          pc, loc, failures

tables == <<leaveType, leaveBalance, leaveRequest, approvals>>
leaveVars == <<today, tables, pc, loc, failures>>

CreateSteps == {"overlap", "balance", "limit", "mkBalance", "insert",
                "pending", "approval"}
Steps == {"idle", "decide", "cancel"} \cup CreateSteps

CreateLoc == [form : Form, id : RequestIds, limit : Int]
DecideLoc == [id : RequestIds, approver : Employees, approve : BOOLEAN]
CancelLoc == [id : RequestIds, seen : Statuses]

\* The ids are uuids.
ASSUME RequestsFinite == IsFiniteSet(RequestIds)

-----------------------------------------------------------------------------
(* What the statements compute. *)

IsType(t) == leaveType[t] \notin {NULL, Gone}

KeyOf(r) == <<r.employeeId, r.leaveTypeId, YearOf[r.startDate]>>

LeaveDays(f) == f.endDate - f.startDate + 1

\* Mutation: touching the last day of an earlier leave is not an overlap.
OverlapsExclusive(f) ==
    \E r \in RequestIds :
        /\ leaveRequest[r] # NULL
        /\ leaveRequest[r].employeeId = f.employeeId
        /\ leaveRequest[r].status # "cancelled"
        /\ leaveRequest[r].startDate < f.endDate
        /\ leaveRequest[r].endDate > f.startDate

Overlaps(f) ==
    \E r \in RequestIds :
        /\ leaveRequest[r] # NULL
        /\ leaveRequest[r].employeeId = f.employeeId
        /\ leaveRequest[r].status # "cancelled"
        /\ leaveRequest[r].startDate <= f.endDate
        /\ leaveRequest[r].endDate >= f.startDate

NewBalance(limit, carried) ==
    [totalDays |-> limit + carried, usedDays |-> 0, pendingDays |-> 0,
     remainingDays |-> limit + carried, carriedForward |-> carried]

NewRequest(f) ==
    [employeeId |-> f.employeeId, leaveTypeId |-> f.leaveTypeId,
     startDate |-> f.startDate, endDate |-> f.endDate,
     days |-> LeaveDays(f), status |-> "pending",
     approvedBy |-> NULL, rejected |-> FALSE]

\* Mutation: the approval forgets to take the days from what remains.
BookedWithoutDeduction(b, days) ==
    [b EXCEPT !.usedDays = @ + days, !.pendingDays = @ - days]

\* Mutation: the approval is treated like a rejection.
BookedAsRejection(b, days) == [b EXCEPT !.pendingDays = @ - days]

Booked(b, days) ==
    [b EXCEPT !.remainingDays = @ - days,
              !.usedDays = @ + days,
              !.pendingDays = @ - days]

\* Mutation: the days of a refused or withdrawn request stay pending.
ReleasedNot(b, days) == b

Released(b, days) == [b EXCEPT !.pendingDays = @ - days]

Decided(r, approver, approve) ==
    [r EXCEPT !.status = IF approve THEN "approved" ELSE "rejected",
              !.approvedBy = approver,
              !.rejected = ~approve]

\* Mutation: withdrawing a decided request reopens it.
CancelledReopening(r) ==
    [r EXCEPT !.status = IF @ = "pending" THEN "cancelled" ELSE "pending"]

Cancelled(r) == [r EXCEPT !.status = "cancelled"]

\* `if (balance)`: an update of a balance that is not there is skipped.
UpdateBalance(key, new(_)) ==
    leaveBalance' = IF leaveBalance[key] = NULL THEN leaveBalance
                    ELSE [leaveBalance EXCEPT ![key] = new(@)]

Goto(h, step) == pc' = [pc EXCEPT ![h] = step]

\* The handler answers, with a result or an error.
Finish(h) == /\ Goto(h, "idle")
             /\ loc' = [loc EXCEPT ![h] = NULL]

-----------------------------------------------------------------------------
(* POST /leave-requests: createLeaveRequest. *)

\* The dates are valid and the leave type is found and active.  id is the
\* uuid the insert will use.
Submit(h, f, id) ==
    /\ pc[h] = "idle"
    /\ f.startDate <= f.endDate
    /\ f.startDate >= today
    /\ IsType(f.leaveTypeId) /\ leaveType[f.leaveTypeId].isActive
    /\ leaveRequest[id] = NULL
    /\ \A g \in Handlers : pc[g] \in CreateSteps => loc[g].id # id
    /\ Goto(h, "overlap")
    /\ loc' = [loc EXCEPT ![h] = [form |-> f, id |-> id, limit |-> 0]]
    /\ UNCHANGED <<today, tables, failures>>

CheckOverlap(h) ==
    /\ pc[h] = "overlap"
    /\ \/ Overlaps(loc[h].form) /\ Finish(h)
       \/ ~Overlaps(loc[h].form) /\ Goto(h, "balance") /\ UNCHANGED loc
    /\ UNCHANGED <<today, tables, failures>>

\* Mutation: a missing balance is taken for unlimited leave.
ReadBalanceOptional(h) ==
    LET f == loc[h].form
        b == leaveBalance[KeyOf(f)]
    IN  /\ pc[h] = "balance"
        /\ IF b # NULL /\ b.remainingDays < LeaveDays(f)
           THEN Finish(h)
           ELSE Goto(h, "insert") /\ UNCHANGED loc
        /\ UNCHANGED <<today, tables, failures>>

\* getOrCreateBalance finds the balance; createLeaveRequest compares
\* remainingDays, and only remainingDays, with the days asked for.
ReadBalance(h) ==
    LET f == loc[h].form
        b == leaveBalance[KeyOf(f)]
    IN  /\ pc[h] = "balance"
        /\ \/ b = NULL /\ Goto(h, "limit") /\ UNCHANGED loc
           \/ /\ b # NULL /\ b.remainingDays < LeaveDays(f)
              /\ Finish(h)
           \/ /\ b # NULL /\ b.remainingDays >= LeaveDays(f)
              /\ Goto(h, "insert") /\ UNCHANGED loc
        /\ UNCHANGED <<today, tables, failures>>

ReadLimit(h) ==
    LET t == loc[h].form.leaveTypeId
    IN  /\ pc[h] = "limit"
        /\ \/ ~IsType(t) /\ Finish(h)
           \/ /\ IsType(t)
              /\ loc' = [loc EXCEPT ![h].limit = leaveType[t].annualLimit]
              /\ Goto(h, "mkBalance")
        /\ UNCHANGED <<today, tables, failures>>

\* The insert fails on the unique key when another statement made the
\* balance first, and on the foreign key when the type is gone.
CreateBalance(h) ==
    LET f == loc[h].form
        key == KeyOf(f)
        insertable == leaveBalance[key] = NULL /\ IsType(f.leaveTypeId)
    IN  /\ pc[h] = "mkBalance"
        /\ \/ ~insertable /\ Finish(h) /\ UNCHANGED leaveBalance
           \/ /\ insertable
              /\ leaveBalance' = [leaveBalance EXCEPT ![key] =
                                      NewBalance(loc[h].limit, 0)]
              /\ IF loc[h].limit < LeaveDays(f)
                 THEN Finish(h)
                 ELSE Goto(h, "insert") /\ UNCHANGED loc
        /\ UNCHANGED <<today, leaveType, leaveRequest, approvals, failures>>

InsertRequest(h) ==
    /\ pc[h] = "insert"
    /\ leaveRequest' = [leaveRequest EXCEPT ![loc[h].id] =
                            NewRequest(loc[h].form)]
    /\ Goto(h, "pending")
    /\ UNCHANGED <<today, leaveType, leaveBalance, approvals, loc, failures>>

\* A statement of its own, after the insert and outside any transaction.
AddPending(h) ==
    LET key == KeyOf(loc[h].form)
        d == LeaveDays(loc[h].form)
    IN  /\ pc[h] = "pending"
        /\ leaveBalance' = [leaveBalance EXCEPT ![key].pendingDays = @ + d]
        /\ IF AdminLinked THEN Goto(h, "approval") /\ UNCHANGED loc
                          ELSE Finish(h)
        /\ UNCHANGED <<today, leaveType, leaveRequest, approvals, failures>>

\* workflowService.createApproval for the new request; an error there is
\* logged and swallowed, which is Fail(h) at this step.
CreateApproval(h) ==
    /\ pc[h] = "approval"
    /\ approvals' = approvals \cup {loc[h].id}
    /\ Finish(h)
    /\ UNCHANGED <<today, leaveType, leaveBalance, leaveRequest, failures>>

-----------------------------------------------------------------------------
(* PATCH /leave-requests/:id/approve and /reject: approveLeaveRequest.     *)
(* A rejection without a reason is an approval (isApproval =               *)
(* !rejectionReason), so approve ranges over both for either route.        *)

\* Mutation: the status of the request is not looked at.
ReadForDecisionUnguarded(h, r, approver, approve) ==
    /\ pc[h] = "idle"
    /\ leaveRequest[r] # NULL
    /\ leaveRequest[r].employeeId # approver
    /\ Goto(h, "decide")
    /\ loc' = [loc EXCEPT ![h] = [id |-> r, approver |-> approver,
                                  approve |-> approve]]
    /\ UNCHANGED <<today, tables, failures>>

ReadForDecision(h, r, approver, approve) ==
    /\ pc[h] = "idle"
    /\ leaveRequest[r] # NULL
    /\ leaveRequest[r].status = "pending"
    /\ leaveRequest[r].employeeId # approver
    /\ Goto(h, "decide")
    /\ loc' = [loc EXCEPT ![h] = [id |-> r, approver |-> approver,
                                  approve |-> approve]]
    /\ UNCHANGED <<today, tables, failures>>

\* The $transaction.  It does not look at the status again.
CommitDecision(h) ==
    LET r == loc[h].id
        row == leaveRequest[r]
        Charge(b) == IF loc[h].approve THEN Booked(b, row.days)
                                       ELSE Released(b, row.days)
    IN  /\ pc[h] = "decide"
        /\ leaveRequest' = [leaveRequest EXCEPT ![r] =
                                Decided(@, loc[h].approver, loc[h].approve)]
        /\ UpdateBalance(KeyOf(row), Charge)
        /\ Finish(h)
        /\ UNCHANGED <<today, leaveType, approvals, failures>>

-----------------------------------------------------------------------------
(* PATCH /leave-requests/:id/cancel: cancelLeaveRequest, called by the     *)
(* owner of the request.                                                   *)

ReadForCancel(h, r) ==
    /\ pc[h] = "idle"
    /\ leaveRequest[r] # NULL
    /\ leaveRequest[r].status # "cancelled"
    /\ Goto(h, "cancel")
    /\ loc' = [loc EXCEPT ![h] = [id |-> r, seen |-> leaveRequest[r].status]]
    /\ UNCHANGED <<today, tables, failures>>

\* Mutation: the pending days are released whatever the request was.
CommitCancelAlways(h) ==
    LET r == loc[h].id
        row == leaveRequest[r]
        Give(b) == Released(b, row.days)
    IN  /\ pc[h] = "cancel"
        /\ leaveRequest' = [leaveRequest EXCEPT ![r] = Cancelled(@)]
        /\ UpdateBalance(KeyOf(row), Give)
        /\ Finish(h)
        /\ UNCHANGED <<today, leaveType, approvals, failures>>

\* The $transaction.  What to release is decided by the status read before.
CommitCancel(h) ==
    LET r == loc[h].id
        row == leaveRequest[r]
        Give(b) == Released(b, row.days)
    IN  /\ pc[h] = "cancel"
        /\ leaveRequest' = [leaveRequest EXCEPT ![r] = Cancelled(@)]
        /\ \/ loc[h].seen = "pending" /\ UpdateBalance(KeyOf(row), Give)
           \/ loc[h].seen # "pending" /\ UNCHANGED leaveBalance
        /\ Finish(h)
        /\ UNCHANGED <<today, leaveType, approvals, failures>>

-----------------------------------------------------------------------------
(* Leave types. *)

CreateLeaveType(t, row) ==
    /\ leaveType[t] = NULL
    /\ row.isActive
    /\ leaveType' = [leaveType EXCEPT ![t] = row]
    /\ UNCHANGED <<today, leaveBalance, leaveRequest, approvals, pc, loc,
                   failures>>

UpdateLeaveType(t, row) ==
    /\ IsType(t)
    /\ leaveType' = [leaveType EXCEPT ![t] = row]
    /\ UNCHANGED <<today, leaveBalance, leaveRequest, approvals, pc, loc,
                   failures>>

InUse(t) ==
    \/ \E k \in Keys : k[2] = t /\ leaveBalance[k] # NULL
    \/ \E r \in RequestIds : /\ leaveRequest[r] # NULL
                             /\ leaveRequest[r].leaveTypeId = t

\* The counts are read before the delete; a row inserted in between is
\* caught by the foreign key, and the delete is refused all the same.
DeleteLeaveType(t) ==
    /\ IsType(t)
    /\ ~InUse(t)
    /\ leaveType' = [leaveType EXCEPT ![t] = Gone]
    /\ UNCHANGED <<today, leaveBalance, leaveRequest, approvals, pc, loc,
                   failures>>

-----------------------------------------------------------------------------
\* A statement throws, or the connection or the process is lost: the
\* handler stops where it is and what it wrote before stays.
Fail(h) ==
    /\ pc[h] # "idle"
    /\ failures < MaxFailures
    /\ failures' = failures + 1
    /\ Finish(h)
    /\ UNCHANGED <<today, tables>>

\* Midnight.
NextDay ==
    /\ today + 1 \in Dates
    /\ today' = today + 1
    /\ UNCHANGED <<tables, pc, loc, failures>>

Init ==
    /\ today \in Dates /\ \A d \in Dates : today <= d
    /\ leaveType \in [LeaveTypes -> TypeRows \cup {NULL}]
    /\ leaveBalance = [k \in Keys |-> NULL]
    /\ leaveRequest = [r \in RequestIds |-> NULL]
    /\ approvals = {}
    /\ pc = [h \in Handlers |-> "idle"]
    /\ loc = [h \in Handlers |-> NULL]
    /\ failures = 0

CreateStep(h) ==
    \/ \E f \in Form, id \in RequestIds : Submit(h, f, id)
    \/ CheckOverlap(h) \/ ReadBalance(h) \/ ReadLimit(h) \/ CreateBalance(h)
    \/ InsertRequest(h) \/ AddPending(h) \/ CreateApproval(h)

DecideStep(h) ==
    \/ \E r \in RequestIds, a \in Approvers, yes \in BOOLEAN :
          ReadForDecision(h, r, a, yes)
    \/ CommitDecision(h)

CancelStep(h) ==
    \/ \E r \in RequestIds : ReadForCancel(h, r)
    \/ CommitCancel(h)

TypeStep(t) ==
    \/ \E row \in TypeRows : CreateLeaveType(t, row) \/ UpdateLeaveType(t, row)
    \/ DeleteLeaveType(t)

ServiceStep ==
    \/ \E h \in Handlers :
          CreateStep(h) \/ DecideStep(h) \/ CancelStep(h) \/ Fail(h)
    \/ \E t \in LeaveTypes : TypeStep(t)

Next == ServiceStep \/ NextDay

Spec == Init /\ [][Next]_leaveVars
-----------------------------------------------------------------------------
(* Properties. *)

\* Every table holds well-formed rows and every handler holds the locals its
\* next statement needs.
TypeOK ==
    /\ today \in Dates
    /\ leaveType \in [LeaveTypes -> TypeRows \cup {NULL, Gone}]
    /\ leaveBalance \in [Keys -> Balance \cup {NULL}]
    /\ leaveRequest \in [RequestIds -> Request \cup {NULL}]
    /\ approvals \subseteq RequestIds
    /\ pc \in [Handlers -> Steps]
    /\ loc \in [Handlers -> CreateLoc \cup DecideLoc \cup CancelLoc \cup {NULL}]
    /\ \A h \in Handlers :
          /\ pc[h] \in CreateSteps => loc[h] \in CreateLoc
          /\ pc[h] = "decide" => loc[h] \in DecideLoc
          /\ pc[h] = "cancel" => loc[h] \in CancelLoc
    /\ failures \in 0..MaxFailures

\* The days granted for a year are at all times split between those used and
\* those remaining, whatever creates, approvals, cancellations and jobs
\* interleave: no statement changes one of the three columns alone.
BalanceConservation ==
    \A k \in Keys : leaveBalance[k] # NULL =>
        leaveBalance[k].totalDays =
            leaveBalance[k].usedDays + leaveBalance[k].remainingDays

\* A stored request always has the balance row it is charged to and its leave
\* type, so the `if (balance)` of approveLeaveRequest and cancelLeaveRequest
\* never skips the charge.
BalanceBehindRequest ==
    \A r \in RequestIds : leaveRequest[r] # NULL =>
        /\ leaveBalance[KeyOf(leaveRequest[r])] # NULL
        /\ IsType(leaveRequest[r].leaveTypeId)

Stored == {r \in RequestIds : leaveRequest[r] # NULL}

\* The days of those of the requests S that are charged to one balance.
DaysOf(key, S) ==
    SumFunction([r \in {q \in S : KeyOf(leaveRequest[q]) = key} |->
                    leaveRequest[r].days])

Pending(r) == leaveRequest[r].status = "pending"
PendingRequests == {r \in Stored : Pending(r)}
ApprovedRequests == {r \in Stored : leaveRequest[r].status = "approved"}

\* pendingDays never counts a day no pending request accounts for, not even
\* when decisions race each other or the creating handler fails half way.
PendingNeverOverstated ==
    \A k \in Keys : leaveBalance[k] # NULL =>
        leaveBalance[k].pendingDays <= DaysOf(k, PendingRequests)

\* No approved leave is free: usedDays covers every request that stands
\* approved, in every interleaving of approvals, rejections and cancellations.
UsedCoversApproved ==
    \A k \in Keys : leaveBalance[k] # NULL =>
        leaveBalance[k].usedDays >= DaysOf(k, ApprovedRequests)

\* A request that has left the pending state never comes back to it.
NoReturnToPending ==
    [][\A r \in RequestIds :
          (leaveRequest[r] # NULL /\ ~Pending(r)) =>
              leaveRequest'[r].status # "pending"]_leaveVars

(* With one handler at a time and no failure the ledger is exact. *)

\* Inserted, but not yet added to pendingDays.
Uncounted ==
    {r \in Stored : \E h \in Handlers : pc[h] = "pending" /\ loc[h].id = r}

EverApproved == {r \in Stored : /\ leaveRequest[r].approvedBy # NULL
                                /\ ~leaveRequest[r].rejected}

\* pendingDays is the sum of the pending requests, but for the one whose
\* handler stands between the insert and the increment.
PendingExact ==
    \A k \in Keys : leaveBalance[k] # NULL =>
        leaveBalance[k].pendingDays = DaysOf(k, PendingRequests \ Uncounted)

\* usedDays is the sum of the requests that were approved, those cancelled
\* afterwards included: cancelling an approved leave gives nothing back.
UsedExact ==
    \A k \in Keys : leaveBalance[k] # NULL =>
        leaveBalance[k].usedDays = DaysOf(k, EverApproved)

\* An employee has no two live requests for the same day.
NoOverlap ==
    \A r, q \in RequestIds :
        /\ r # q /\ leaveRequest[r] # NULL /\ leaveRequest[q] # NULL
        /\ leaveRequest[r].employeeId = leaveRequest[q].employeeId
        /\ leaveRequest[r].status # "cancelled"
        /\ leaveRequest[q].status # "cancelled"
        => \/ leaveRequest[r].endDate < leaveRequest[q].startDate
           \/ leaveRequest[q].endDate < leaveRequest[r].startDate

\* A decision is taken once: it can only be withdrawn, by its owner, and who
\* took it is never overwritten.
DecisionFinal ==
    [][\A r \in RequestIds :
          (leaveRequest[r] # NULL /\ ~Pending(r)) =>
              /\ leaveRequest'[r].status \in {leaveRequest[r].status, "cancelled"}
              /\ leaveRequest'[r].approvedBy = leaveRequest[r].approvedBy]_leaveVars

\* The check `balance.remainingDays < days` and its message "Insufficient
\* leave balance" promise that no balance is overdrawn.
NoOverdraft ==
    \A k \in Keys : leaveBalance[k] # NULL => leaveBalance[k].remainingDays >= 0
=============================================================================
