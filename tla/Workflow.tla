------------------------------ MODULE Workflow ------------------------------
(***************************************************************************)
(* The approval engine: backend/src/workflow/workflow.service.ts.          *)
(*                                                                         *)
(* An approval is a row and a list of steps.  Deciding it takes a read,    *)
(* an update of the current step and an update of the approval, each a     *)
(* statement of its own and none of them in a transaction; pc and loc are  *)
(* as in Leave.                                                            *)
(***************************************************************************)
EXTENDS Integers, Sequences, FiniteSets

CONSTANTS
    Entities,     \* what is approved: an (entityType, entityId) pair
    Employees,    \* requesters and approvers
    Chains,       \* the approverIds a caller may pass
    Handlers,     \* HTTP requests served at the same time
    MaxFailures,  \* bounds the statements that throw
    NULL          \* no row

Statuses == {"pending", "approved", "rejected"}

Approval == [requesterId : Employees, approverId : Employees \cup {NULL},
             status : Statuses, currentStep : Nat, totalSteps : Nat]

Step == [approverId : Employees, status : Statuses]

ASSUME WorkflowAssumption ==
    /\ Chains \subseteq Seq(Employees)
    /\ MaxFailures \in Nat
    /\ NULL \notin Approval /\ NULL \notin Employees

VARIABLES
    approval,   \* approvals, unique on the entity
    steps,      \* approval_steps of each entity, by step number
    pc, loc, failures,
    overlapped  \* history: entities two handlers worked on at the same time

tables == <<approval, steps>>
vars == <<tables, pc, loc, failures, overlapped>>

CreateLoc == [entity : Entities, requester : Employees, chain : Chains]
DecideLoc == [entity : Entities, approver : Employees,
              current : Nat, total : Nat]

-----------------------------------------------------------------------------
Goto(h, label) == pc' = [pc EXCEPT ![h] = label]

Finish(h) == /\ Goto(h, "idle")
             /\ loc' = [loc EXCEPT ![h] = NULL]

Busy(h) == pc[h] # "idle"

\* Handler h begins to work on entity e.
Begin(h, e, label, locals) ==
    /\ ~Busy(h)
    /\ Goto(h, label)
    /\ loc' = [loc EXCEPT ![h] = locals]
    /\ overlapped' = IF \E g \in Handlers : Busy(g) /\ loc[g].entity = e
                     THEN overlapped \cup {e}
                     ELSE overlapped
    /\ UNCHANGED <<tables, failures>>

-----------------------------------------------------------------------------
(* createApproval *)

\* No approval is found for the entity, and the approvers exist.
ReadForCreate(h, e, requester, chain) ==
    /\ approval[e] = NULL
    /\ Begin(h, e, "create",
             [entity |-> e, requester |-> requester, chain |-> chain])

\* Mutation: an approval another request made meanwhile is replaced.
CommitCreateOverwriting(h) ==
    LET e == loc[h].entity
        chain == loc[h].chain
    IN  /\ pc[h] = "create"
        /\ approval' = [approval EXCEPT ![e] =
                [requesterId |-> loc[h].requester, approverId |-> NULL,
                 status |-> "pending", currentStep |-> 1,
                 totalSteps |-> Len(chain)]]
        /\ steps' = [steps EXCEPT ![e] =
                [i \in 1..Len(chain) |->
                    [approverId |-> chain[i], status |-> "pending"]]]
        /\ Finish(h)
        /\ UNCHANGED <<failures, overlapped>>

\* One nested insert; it fails on the unique key when another request made
\* an approval for the entity since.
CommitCreate(h) ==
    LET e == loc[h].entity
        chain == loc[h].chain
    IN  /\ pc[h] = "create"
        /\ \/ approval[e] # NULL /\ UNCHANGED tables
           \/ /\ approval[e] = NULL
              /\ approval' = [approval EXCEPT ![e] =
                    [requesterId |-> loc[h].requester, approverId |-> NULL,
                     status |-> "pending", currentStep |-> 1,
                     totalSteps |-> Len(chain)]]
              /\ steps' = [steps EXCEPT ![e] =
                    [i \in 1..Len(chain) |->
                        [approverId |-> chain[i], status |-> "pending"]]]
        /\ Finish(h)
        /\ UNCHANGED <<failures, overlapped>>

-----------------------------------------------------------------------------
(* approveStep and rejectApproval *)

\* The approval is pending, it has a current step, and that step is the
\* caller's.
CurrentFound(e, approver) ==
    /\ approval[e] # NULL
    /\ approval[e].status = "pending"
    /\ approval[e].currentStep \in 1..Len(steps[e])
    /\ steps[e][approval[e].currentStep].approverId = approver

\* Mutation: the caller's step is found by approver, the latest one first.
SnapshotLatest(e, approver) ==
    [entity |-> e, approver |-> approver,
     current |-> CHOOSE i \in 1..Len(steps[e]) :
                    /\ steps[e][i].approverId = approver
                    /\ \A j \in (i + 1)..Len(steps[e]) :
                          steps[e][j].approverId # approver,
     total |-> approval[e].totalSteps]

Snapshot(e, approver) ==
    [entity |-> e, approver |-> approver,
     current |-> approval[e].currentStep, total |-> approval[e].totalSteps]

ReadForApprove(h, e, approver) ==
    /\ CurrentFound(e, approver)
    /\ steps[e][approval[e].currentStep].status = "pending"
    /\ Begin(h, e, "approveStep", Snapshot(e, approver))

\* Unlike approveStep it does not look at the status of the step.
ReadForReject(h, e, approver) ==
    /\ CurrentFound(e, approver)
    /\ Begin(h, e, "rejectStep", Snapshot(e, approver))

SetStep(h, status) ==
    steps' = [steps EXCEPT ![loc[h].entity][loc[h].current].status = status]

ApproveStep(h) ==
    /\ pc[h] = "approveStep"
    /\ SetStep(h, "approved")
    /\ Goto(h, "advance")
    /\ UNCHANGED <<approval, loc, failures, overlapped>>

\* Mutation: the last step but one completes the approval.
LastStepEarly(l) == l.current + 1 >= l.total

LastStep(l) == l.current >= l.total

\* Mutation: the next step is never reached.
AdvancedNot(row, l) == row

\* The next step is computed from the number read at the start.
Advanced(row, l) == [row EXCEPT !.currentStep = l.current + 1]

Closed(row, l, status) ==
    [row EXCEPT !.status = status, !.approverId = l.approver]

Advance(h) ==
    LET l == loc[h]
    IN  /\ pc[h] = "advance"
        /\ \/ /\ LastStep(l)
              /\ approval' = [approval EXCEPT ![l.entity] =
                                  Closed(@, l, "approved")]
           \/ /\ ~LastStep(l)
              /\ approval' = [approval EXCEPT ![l.entity] = Advanced(@, l)]
        /\ Finish(h)
        /\ UNCHANGED <<steps, failures, overlapped>>

RejectStep(h) ==
    /\ pc[h] = "rejectStep"
    /\ SetStep(h, "rejected")
    /\ Goto(h, "reject")
    /\ UNCHANGED <<approval, loc, failures, overlapped>>

Reject(h) ==
    LET l == loc[h]
    IN  /\ pc[h] = "reject"
        /\ approval' = [approval EXCEPT ![l.entity] = Closed(@, l, "rejected")]
        /\ Finish(h)
        /\ UNCHANGED <<steps, failures, overlapped>>

-----------------------------------------------------------------------------
\* A statement throws or the process is lost between two statements.
Fail(h) ==
    /\ Busy(h)
    /\ failures < MaxFailures
    /\ failures' = failures + 1
    /\ Finish(h)
    /\ UNCHANGED <<tables, overlapped>>

Init ==
    /\ approval = [e \in Entities |-> NULL]
    /\ steps = [e \in Entities |-> <<>>]
    /\ pc = [h \in Handlers |-> "idle"]
    /\ loc = [h \in Handlers |-> NULL]
    /\ failures = 0
    /\ overlapped = {}

HandlerStep(h) ==
    CommitCreate(h) \/ ApproveStep(h) \/ Advance(h) \/ RejectStep(h) \/ Reject(h)

Next ==
    \E h \in Handlers :
        \/ \E e \in Entities, q \in Employees :
              \/ \E chain \in Chains : ReadForCreate(h, e, q, chain)
              \/ ReadForApprove(h, e, q)
              \/ ReadForReject(h, e, q)
        \/ HandlerStep(h)
        \/ Fail(h)

Spec == Init /\ [][Next]_vars

-----------------------------------------------------------------------------
(* Properties. *)

\* Rows, steps and locals are well formed; an approval has as many steps as
\* it says, and its current step is one of them unless it has none.
TypeOK ==
    /\ approval \in [Entities -> Approval \cup {NULL}]
    /\ steps \in [Entities -> Seq(Step)]
    /\ \A e \in Entities :
          IF approval[e] = NULL THEN steps[e] = <<>>
          ELSE /\ approval[e].totalSteps = Len(steps[e])
               /\ steps[e] # <<>> => approval[e].currentStep \in 1..Len(steps[e])
    /\ pc \in [Handlers -> {"idle", "create", "approveStep", "advance",
                            "rejectStep", "reject"}]
    /\ loc \in [Handlers -> {NULL} \cup CreateLoc \cup DecideLoc]
    /\ \A h \in Handlers :
          loc[h] \in IF pc[h] = "idle" THEN {NULL}
                     ELSE IF pc[h] = "create" THEN CreateLoc ELSE DecideLoc
    /\ failures \in 0..MaxFailures
    /\ overlapped \subseteq Entities

Decided(e, i) == steps[e][i].status # "pending"

\* The steps are decided in their order: nobody decides a step before all
\* earlier ones are, in any interleaving and after any failure.
StepsInOrder ==
    \A e \in Entities : \A i, j \in 1..Len(steps[e]) :
        i < j /\ Decided(e, j) => Decided(e, i)

\* An approval that reads "approved" has every step decided; and approved,
\* as long as no two requests worked on it at the same time.
FullyApproved ==
    \A e \in Entities :
        (approval[e] # NULL /\ approval[e].status = "approved") =>
            \A i \in 1..Len(steps[e]) :
                IF e \in overlapped THEN Decided(e, i)
                ELSE steps[e][i].status = "approved"

\* Without failure or overlap a pending approval that no request is working
\* on waits at its first open step: whom sendPendingApprovalReminders names
\* is who can act.
WaitsAtFirstOpenStep ==
    \A e \in Entities \ overlapped :
        (/\ approval[e] # NULL /\ approval[e].status = "pending"
         /\ steps[e] # <<>> /\ failures = 0
         /\ \A h \in Handlers : Busy(h) => loc[h].entity # e) =>
            /\ ~Decided(e, approval[e].currentStep)
            /\ \A i \in 1..(approval[e].currentStep - 1) : Decided(e, i)

\* The steps decided without a gap from the first on.
Leading(e) == {i \in 1..Len(steps[e]) : \A j \in 1..i : Decided(e, j)}

\* The engine keeps the promise: the leading decided steps are the decided
\* ones, and the status is the outcome.
Promise == INSTANCE ApprovalPromise WITH
    exists <- {e \in Entities : approval[e] # NULL},
    total <- [e \in Entities |-> Len(steps[e])],
    decided <- [e \in Entities |-> Cardinality(Leading(e))],
    outcome <- [e \in Entities |-> IF approval[e] = NULL THEN "pending"
                                   ELSE approval[e].status]

KeepsPromise == Promise!PromiseSpec
=============================================================================
