--------------------------- MODULE Workflow_proofs ---------------------------
(***************************************************************************)
(* The steps of an approval are decided in order, whatever interleaves and *)
(* whatever fails, and the engine implements ApprovalPromise.              *)
(***************************************************************************)
EXTENDS Workflow, FiniteSetTheorems, TLAPS

-----------------------------------------------------------------------------
Deciding(h) == pc[h] \in {"approveStep", "advance", "rejectStep", "reject"}

\* Step i is decided; and approved, unless two requests worked on e at once.
Passed(e, i) == IF e \in overlapped THEN Decided(e, i) ELSE steps[e][i].status = "approved"

\* The steps before the current one are passed; those after it are open
\* without overlap; all are passed once the approval is approved.
RowOK ==
    \A e \in Entities : approval[e] # NULL =>
        /\ \A i \in 1..Len(steps[e]) :
              /\ i < approval[e].currentStep => Passed(e, i)
              /\ e \notin overlapped /\ i > approval[e].currentStep => ~Decided(e, i)
              /\ approval[e].status = "approved" => Passed(e, i)

\* What a handler at `label' has read of step n of e, of `total' steps, still
\* holds of the steps; of the approval only if the handler is alone with it.
Fits(label, e, n, total) ==
    /\ approval[e] # NULL
    /\ n \in 1..Len(steps[e]) /\ total = Len(steps[e])
    /\ \A i \in 1..Len(steps[e]) : i < n => Passed(e, i)
    /\ label = "advance" => Passed(e, n)
    /\ label = "reject" => Decided(e, n)
    /\ e \notin overlapped => approval[e].status = "pending" /\ approval[e].currentStep = n

HandlerOK ==
    \A h \in Handlers :
        Deciding(h) => Fits(pc[h], loc[h].entity, loc[h].current, loc[h].total)

\* Two handlers at work on an entity have been noticed.
AloneOK ==
    \A g, h \in Handlers :
        g # h /\ Busy(g) /\ Busy(h) /\ loc[g].entity = loc[h].entity => loc[g].entity \in overlapped

\* Without failure or overlap the current step of a pending approval is open
\* but between the two writes of its decision.
Open ==
    \A e \in Entities \ overlapped :
        (/\ approval[e] # NULL /\ approval[e].status = "pending"
         /\ steps[e] # <<>> /\ failures = 0
         /\ \A h \in Handlers : pc[h] \in {"advance", "reject"} => loc[h].entity # e) =>
            ~Decided(e, approval[e].currentStep)

WInv == TypeOK /\ StepsInOrder /\ RowOK /\ HandlerOK /\ AloneOK /\ Open

-----------------------------------------------------------------------------
\* At the start there is no approval and nobody works.
LEMMA InitWInv == ASSUME Init PROVE WInv
<1>1. TypeOK
  BY WorkflowAssumption DEF Init, TypeOK
<1> QED  BY <1>1 DEF Init, WInv, StepsInOrder, RowOK, HandlerOK, AloneOK, Open, Deciding, Busy

\* The row and the list of steps of an entity.
LEMMA Rows ==
  ASSUME TypeOK, NEW e \in Entities
  PROVE  /\ steps[e] \in Seq(Step) /\ Len(steps[e]) \in Nat
         /\ \A i \in 1..Len(steps[e]) : steps[e][i] \in Step
         /\ approval[e] # NULL => /\ approval[e] \in Approval
                                  /\ approval[e].currentStep \in Nat
                                  /\ approval[e].totalSteps = Len(steps[e])
         /\ steps[e] # <<>> => approval[e] # NULL
  BY DEF TypeOK, Approval

\* What a busy handler holds is well formed.
LEMMA Locals ==
  ASSUME TypeOK, NEW h \in Handlers
  PROVE  /\ Busy(h) => loc[h].entity \in Entities
         /\ Deciding(h) => Busy(h) /\ loc[h] \in DecideLoc
         /\ pc[h] = "create" => Busy(h) /\ loc[h] \in CreateLoc
  BY DEF TypeOK, Deciding, Busy, CreateLoc, DecideLoc

\* What a decided step was, stays so when nothing but the history changes.
LEMMA PassedStays ==
  ASSUME TypeOK, NEW e \in Entities, NEW i \in 1..Len(steps[e]),
         steps'[e] = steps[e], overlapped \subseteq overlapped', Passed(e, i)
  PROVE  Passed(e, i)'
  BY DEF Passed, Decided

\* SetStep changes the status of one step.
LEMMA OneStep ==
  ASSUME TypeOK, HandlerOK, NEW h \in Handlers, Deciding(h), NEW s \in Statuses, SetStep(h, s)
  PROVE  /\ steps' \in [Entities -> Seq(Step)]
         /\ \A x \in Entities : Len(steps'[x]) = Len(steps[x])
         /\ \A x \in Entities : x # loc[h].entity => steps'[x] = steps[x]
         /\ \A i \in 1..Len(steps[loc[h].entity]) :
               i # loc[h].current => steps'[loc[h].entity][i] = steps[loc[h].entity][i]
         /\ steps'[loc[h].entity][loc[h].current].status = s
<1>1. PICK e, n : e = loc[h].entity /\ n = loc[h].current
  OBVIOUS
<1>2. e \in Entities /\ n \in 1..Len(steps[e]) /\ steps[e] \in Seq(Step)
  BY <1>1, Locals, Rows DEF HandlerOK, Fits
<1>3. steps' = [steps EXCEPT ![e][n].status = s]
  BY <1>1 DEF SetStep
<1>4. PICK row : row = [steps[e][n] EXCEPT !.status = s]
  OBVIOUS
<1>5. row \in Step /\ row.status = s
  <2>1. steps[e][n] \in [approverId : Employees, status : Statuses]
    BY <1>2, Rows DEF Step
  <2> QED  BY <1>4, <2>1 DEF Step
<1>6. PICK list : list = [steps[e] EXCEPT ![n] = row]
  OBVIOUS
<1>7. list \in Seq(Step) /\ Len(list) = Len(steps[e]) /\ list[n] = row
      /\ \A i \in 1..Len(steps[e]) : i # n => list[i] = steps[e][i]
  BY <1>2, <1>5, <1>6
<1>8. steps' = [steps EXCEPT ![e] = list]
  BY <1>3, <1>4, <1>6
<1> QED  BY <1>1, <1>2, <1>5, <1>7, <1>8 DEF TypeOK

-----------------------------------------------------------------------------
\* The frame of a step that starts, ends or fails a handler: what holds of the
\* rows holds of them still.
LEMMA RowsStay ==
  ASSUME TypeOK, StepsInOrder, RowOK, UNCHANGED tables, overlapped \subseteq overlapped'
  PROVE  StepsInOrder' /\ RowOK'
<1>1. \A e \in Entities : approval'[e] = approval[e] /\ steps'[e] = steps[e]
  BY DEF tables
<1>2. StepsInOrder'
  BY <1>1 DEF StepsInOrder, Decided
<1>3. \A e \in Entities : \A i \in 1..Len(steps[e]) : Passed(e, i) => Passed(e, i)'
  BY <1>1, PassedStays
<1>4. \A e \in Entities : \A i \in 1..Len(steps[e]) : Decided(e, i)' => Decided(e, i)
  BY <1>1 DEF Decided
<1> QED  BY <1>1, <1>2, <1>3, <1>4 DEF RowOK

\* What fits a handler fits it still when the rows stay.
LEMMA FitsStays ==
  ASSUME TypeOK, UNCHANGED tables, overlapped \subseteq overlapped',
         NEW label, NEW e \in Entities, NEW n, NEW total, Fits(label, e, n, total)
  PROVE  Fits(label, e, n, total)'
<1>1. approval'[e] = approval[e] /\ steps'[e] = steps[e]
  BY DEF tables
<1>2. \A i \in 1..Len(steps[e]) : Passed(e, i) => Passed(e, i)'
  BY <1>1, PassedStays
<1>3. Decided(e, n) => Decided(e, n)'
  BY <1>1 DEF Decided
<1> QED  BY <1>1, <1>2, <1>3 DEF Fits

\* The other handlers are where they were.
Others(h) == \A g \in Handlers \ {h} : pc'[g] = pc[g] /\ loc'[g] = loc[g]

\* All handlers fit when the one that moved does.
LEMMA OthersFit ==
  ASSUME TypeOK, HandlerOK, UNCHANGED tables, overlapped \subseteq overlapped',
         NEW h \in Handlers, Others(h),
         \/ ~Deciding(h)'
         \/ \E label, e, n, total :
               /\ label = pc'[h] /\ e = loc'[h].entity /\ n = loc'[h].current /\ total = loc'[h].total
               /\ Fits(label, e, n, total)'
  PROVE  HandlerOK'
<1> SUFFICES ASSUME NEW g \in Handlers, Deciding(g)'
             PROVE  Fits(pc[g], loc[g].entity, loc[g].current, loc[g].total)'
  BY DEF HandlerOK
<1>1. CASE g = h
  BY <1>1 DEF Fits
<1>2. CASE g # h
  <2>1. PICK label, e, n, total :
           /\ label = pc[g] /\ e = loc[g].entity /\ n = loc[g].current /\ total = loc[g].total
    OBVIOUS
  <2>2. pc'[g] = pc[g] /\ loc'[g] = loc[g] /\ Deciding(g)
    BY <1>2 DEF Others, Deciding
  <2>3. e \in Entities /\ Fits(label, e, n, total)
    BY <2>1, <2>2, Locals DEF HandlerOK
  <2>4. Fits(label, e, n, total)'
    BY <2>3, FitsStays
  <2> QED  BY <2>1, <2>2, <2>4 DEF Fits
<1> QED  BY <1>1, <1>2

\* A handler begins to work on e with what it has read.
LEMMA BeginKeeps ==
  ASSUME WInv, NEW h \in Handlers, NEW e \in Entities, NEW label, NEW locals,
         Begin(h, e, label, locals), locals.entity = e,
         \/ label = "create" /\ locals \in CreateLoc
         \/ /\ label \in {"approveStep", "rejectStep"} /\ locals \in DecideLoc
            /\ Fits(label, e, locals.current, locals.total)
  PROVE  WInv'
<1>1. TypeOK /\ StepsInOrder /\ RowOK /\ HandlerOK /\ AloneOK /\ Open
  BY DEF WInv
<1>2. /\ UNCHANGED tables /\ UNCHANGED failures
      /\ overlapped \subseteq overlapped' /\ overlapped' \subseteq overlapped \cup {e}
      /\ Others(h)
  BY <1>1 DEF Begin, Goto, TypeOK, Others
<1>3. pc'[h] = label /\ loc'[h] = locals /\ ~Busy(h)
  BY <1>1 DEF Begin, Goto, TypeOK
<1>4. TypeOK'
  <2>1. UNCHANGED <<approval, steps>>
    BY <1>2 DEF tables
  <2> QED  BY <1>1, <1>2, <1>3, <2>1 DEF TypeOK, Begin, Goto, Others
<1>5. StepsInOrder' /\ RowOK'
  BY <1>1, <1>2, RowsStay
<1>6. HandlerOK'
  <2>1. CASE label = "create"
    BY <1>1, <1>2, <1>3, <2>1, OthersFit DEF Deciding
  <2>2. CASE label # "create"
    <3>1. PICK n, total : n = locals.current /\ total = locals.total
      OBVIOUS
    <3>2. Fits(label, e, n, total)'
      BY <1>1, <1>2, <2>2, <3>1, FitsStays
    <3> QED  BY <1>1, <1>2, <1>3, <3>1, <3>2, OthersFit
  <2> QED  BY <2>1, <2>2
<1>7. AloneOK'
  BY <1>1, <1>2, <1>3 DEF AloneOK, Busy, Others, Begin
<1>8. Open'
  BY <1>1, <1>2, <1>3 DEF Open, Others, tables, Decided, Busy
<1> QED  BY <1>4, <1>5, <1>6, <1>7, <1>8 DEF WInv

\* A handler ends and leaves the rows as they are: refused or failed.
LEMMA EndKeeps ==
  ASSUME WInv, NEW h \in Handlers, Busy(h), Finish(h), UNCHANGED <<tables, overlapped>>,
         failures' \in 0..MaxFailures, failures' = failures \/ failures' # 0,
         pc[h] \in {"advance", "reject"} => failures' # 0
  PROVE  WInv'
<1>1. TypeOK /\ StepsInOrder /\ RowOK /\ HandlerOK /\ AloneOK /\ Open
  BY DEF WInv
<1>2. pc'[h] = "idle" /\ loc'[h] = NULL /\ Others(h) /\ UNCHANGED <<approval, steps>>
  BY <1>1 DEF Finish, Goto, TypeOK, Others, tables
<1>3. TypeOK'
  BY <1>1, <1>2 DEF TypeOK, Finish, Goto, Others
<1>4. StepsInOrder' /\ RowOK'
  BY <1>1, RowsStay
<1>5. HandlerOK'
  BY <1>1, <1>2, OthersFit DEF Deciding
<1>6. AloneOK'
  BY <1>1, <1>2 DEF AloneOK, Busy, Others
<1>7. Open'
  BY <1>1, <1>2 DEF Open, Others, Decided
<1> QED  BY <1>3, <1>4, <1>5, <1>6, <1>7 DEF WInv

\* A new approval waits at its first step, and nobody has begun to decide it.
LEMMA CreateKeeps ==
  ASSUME WInv, NEW h \in Handlers, CommitCreate(h)
  PROVE  WInv'
<1>1. TypeOK /\ StepsInOrder /\ RowOK /\ HandlerOK /\ AloneOK /\ Open
  BY DEF WInv
<1>2. PICK e, chain : e = loc[h].entity /\ chain = loc[h].chain
  OBVIOUS
<1>3. e \in Entities /\ chain \in Seq(Employees) /\ loc[h].requester \in Employees /\ Busy(h)
  BY <1>1, <1>2, Locals, WorkflowAssumption DEF CommitCreate, CreateLoc
<1>4. CASE UNCHANGED tables
  BY <1>1, <1>3, <1>4, EndKeeps DEF CommitCreate, TypeOK
<1>5. CASE approval[e] = NULL /\ ~UNCHANGED tables
  <2>1. PICK row : row = [requesterId |-> loc[h].requester, approverId |-> NULL,
                          status |-> "pending", currentStep |-> 1, totalSteps |-> Len(chain)]
    OBVIOUS
  <2>2. PICK list : list = [i \in 1..Len(chain) |-> [approverId |-> chain[i], status |-> "pending"]]
    OBVIOUS
  <2>3. row \in Approval /\ row # NULL /\ row.status = "pending" /\ row.currentStep = 1
        /\ row.totalSteps = Len(chain)
    BY <1>3, <2>1, WorkflowAssumption DEF Approval, Statuses
  <2>4. /\ list \in Seq(Step) /\ Len(list) = Len(chain) /\ Len(chain) \in Nat
        /\ \A i \in 1..Len(chain) : list[i].status = "pending"
    BY <1>3, <2>2 DEF Step, Statuses
  <2>5. /\ approval' = [approval EXCEPT ![e] = row] /\ steps' = [steps EXCEPT ![e] = list]
        /\ Finish(h) /\ UNCHANGED <<failures, overlapped>>
    BY <1>2, <1>5, <2>1, <2>2 DEF CommitCreate
  <2>6. /\ approval'[e] = row /\ steps'[e] = list
        /\ \A x \in Entities \ {e} : approval'[x] = approval[x] /\ steps'[x] = steps[x]
        /\ pc'[h] = "idle" /\ loc'[h] = NULL /\ Others(h)
    BY <1>1, <1>3, <2>5 DEF TypeOK, Finish, Goto, Others
  <2>7. \A g \in Handlers : Deciding(g) => loc[g].entity # e
    BY <1>1, <1>5 DEF HandlerOK, Fits
  <2>8. TypeOK'
    <3>1. approval' \in [Entities -> Approval \cup {NULL}] /\ steps' \in [Entities -> Seq(Step)]
      BY <1>1, <2>3, <2>4, <2>5 DEF TypeOK
    <3>2. \A x \in Entities :
             IF approval'[x] = NULL THEN steps'[x] = <<>>
             ELSE /\ approval'[x].totalSteps = Len(steps'[x])
                  /\ steps'[x] # <<>> => approval'[x].currentStep \in 1..Len(steps'[x])
      BY <1>1, <2>3, <2>4, <2>6 DEF TypeOK
    <3> QED  BY <1>1, <2>5, <2>6, <3>1, <3>2 DEF TypeOK, Finish, Goto, Others
  <2>9. StepsInOrder'
    BY <1>1, <2>4, <2>6 DEF StepsInOrder, Decided
  <2>10. RowOK'
    BY <1>1, <2>3, <2>4, <2>5, <2>6 DEF RowOK, Passed, Decided
  <2>11. HandlerOK'
    <3> SUFFICES ASSUME NEW g \in Handlers, Deciding(g)'
                 PROVE  Fits(pc[g], loc[g].entity, loc[g].current, loc[g].total)'
      BY DEF HandlerOK
    <3>1. PICK x, m, t, l : x = loc[g].entity /\ m = loc[g].current /\ t = loc[g].total /\ l = pc[g]
      OBVIOUS
    <3>2. Deciding(g) /\ pc'[g] = pc[g] /\ loc'[g] = loc[g]
      BY <2>6 DEF Others, Deciding
    <3>3. x \in Entities \ {e} /\ Fits(l, x, m, t)
      BY <1>1, <2>7, <3>1, <3>2, Locals DEF HandlerOK
    <3>4. approval'[x] = approval[x] /\ steps'[x] = steps[x] /\ overlapped' = overlapped
      BY <2>5, <2>6, <3>3
    <3>5. Fits(l, x, m, t)'
      BY <3>3, <3>4 DEF Fits, Passed, Decided
    <3> QED  BY <3>1, <3>2, <3>5 DEF Fits
  <2>12. AloneOK'
    BY <1>1, <2>5, <2>6 DEF AloneOK, Busy, Others
  <2>13. Open'
    <3>1. \A x \in Entities \ {e} : steps'[x] = steps[x] /\ approval'[x] = approval[x]
      BY <2>6
    <3>2. steps'[e] # <<>> => ~Decided(e, 1)'
      BY <2>4, <2>6 DEF Decided
    <3>3. pc[h] = "create"
      BY DEF CommitCreate
    <3> QED  BY <1>1, <2>3, <2>5, <2>6, <3>1, <3>2, <3>3 DEF Open, Others, Decided
  <2> QED  BY <2>8, <2>9, <2>10, <2>11, <2>12, <2>13 DEF WInv
<1> QED  BY <1>2, <1>4, <1>5 DEF CommitCreate

\* A step is decided: those before it are, and the approval goes on after it.
LEMMA SetKeeps ==
  ASSUME WInv, NEW h \in Handlers,
         NEW s, NEW label,
         \/ pc[h] = "approveStep" /\ s = "approved" /\ label = "advance"
         \/ pc[h] = "rejectStep" /\ s = "rejected" /\ label = "reject",
         SetStep(h, s), Goto(h, label), UNCHANGED <<approval, loc, failures, overlapped>>
  PROVE  WInv'
<1>1. TypeOK /\ StepsInOrder /\ RowOK /\ HandlerOK /\ AloneOK /\ Open
  BY DEF WInv
<1>2. PICK e, n, total : e = loc[h].entity /\ n = loc[h].current /\ total = loc[h].total
  OBVIOUS
<1>3. Deciding(h) /\ Busy(h) /\ s \in Statuses /\ s # "pending"
  BY DEF Deciding, Statuses, Busy
<1>4. e \in Entities /\ Fits(pc[h], e, n, total)
  BY <1>1, <1>2, <1>3, Locals DEF HandlerOK
<1>5. /\ steps' \in [Entities -> Seq(Step)]
      /\ \A x \in Entities : Len(steps'[x]) = Len(steps[x])
      /\ \A x \in Entities : x # e => steps'[x] = steps[x]
      /\ \A i \in 1..Len(steps[e]) : i # n => steps'[e][i] = steps[e][i]
      /\ steps'[e][n].status = s
  BY <1>1, <1>2, <1>3, OneStep
<1>6. pc'[h] = label /\ \A g \in Handlers \ {h} : pc'[g] = pc[g]
  BY <1>1 DEF Goto, TypeOK
<1>7. \A x \in Entities : \A i \in 1..Len(steps[x]) : Decided(x, i) => Decided(x, i)'
  BY <1>3, <1>5 DEF Decided
<1>8. \A x \in Entities : \A i \in 1..Len(steps[x]) :
         Decided(x, i)' => Decided(x, i) \/ (x = e /\ i = n)
  BY <1>5 DEF Decided
<1>9. \A x \in Entities : \A i \in 1..Len(steps[x]) :
         Passed(x, i) => Passed(x, i)' \/ (x = e /\ i = n /\ e \notin overlapped)
  BY <1>5, <1>7 DEF Passed
<1>10. \A i \in 1..Len(steps[e]) : i < n => Decided(e, i)
  BY <1>4 DEF Fits, Passed, Decided
<1>11. n \in 1..Len(steps[e]) /\ Len(steps[e]) \in Nat
  BY <1>1, <1>4, Rows DEF Fits
<1>12. TypeOK'
  <2>1. \A x \in Entities : steps'[x] \in Seq(Step) /\ steps[x] \in Seq(Step)
    BY <1>1, <1>5 DEF TypeOK
  <2>2. \A x \in Entities : steps'[x] = <<>> <=> steps[x] = <<>>
    BY <1>5, <2>1
  <2> QED  BY <1>1, <1>3, <1>5, <1>6, <2>2 DEF TypeOK, Goto
<1>13. StepsInOrder'
  <2> SUFFICES ASSUME NEW x \in Entities, NEW i \in 1..Len(steps[x]), NEW j \in 1..Len(steps[x]),
                      i < j, Decided(x, j)'
               PROVE  Decided(x, i)'
    BY <1>5 DEF StepsInOrder
  <2>1. CASE Decided(x, j)
    BY <1>1, <1>7, <2>1 DEF StepsInOrder
  <2>2. CASE x = e /\ j = n
    BY <1>7, <1>10, <2>2
  <2> QED  BY <1>8, <2>1, <2>2
<1>14. RowOK'
  <2> SUFFICES ASSUME NEW x \in Entities, approval[x] # NULL, NEW i \in 1..Len(steps[x])
               PROVE  /\ i < approval[x].currentStep => Passed(x, i)'
                      /\ x \notin overlapped /\ i > approval[x].currentStep => ~Decided(x, i)'
                      /\ approval[x].status = "approved" => Passed(x, i)'
    BY <1>5 DEF RowOK
  <2>1. e \notin overlapped => approval[e].status = "pending" /\ approval[e].currentStep = n
    BY <1>4 DEF Fits
  <2>2. approval[x].currentStep \in Nat /\ n \in Nat
    BY <1>1, <1>11, Rows
  <2> QED  BY <1>1, <1>8, <1>9, <2>1, <2>2 DEF RowOK
<1>15. HandlerOK'
  <2> SUFFICES ASSUME NEW g \in Handlers, Deciding(g)'
               PROVE  Fits(pc[g], loc[g].entity, loc[g].current, loc[g].total)'
    BY DEF HandlerOK
  <2>1. CASE g = h
    <3>1. \A i \in 1..Len(steps[e]) : i < n => Passed(e, i)'
      BY <1>4, <1>9, <1>11 DEF Fits
    <3>2. Decided(e, n)' /\ (s = "approved" => Passed(e, n)')
      BY <1>3, <1>5 DEF Decided, Passed
    <3> QED  BY <1>2, <1>4, <1>5, <1>6, <2>1, <3>1, <3>2 DEF Fits
  <2>2. CASE g # h
    <3>1. PICK x, m, t, l : x = loc[g].entity /\ m = loc[g].current /\ t = loc[g].total /\ l = pc[g]
      OBVIOUS
    <3>2. Deciding(g) /\ Busy(g)
      BY <1>6, <2>2 DEF Deciding, Busy
    <3>3. x \in Entities /\ Fits(l, x, m, t)
      BY <1>1, <3>1, <3>2, Locals DEF HandlerOK
    <3>4. x = e => e \in overlapped
      BY <1>1, <1>2, <1>3, <2>2, <3>1, <3>2 DEF AloneOK
    <3>5. \A i \in 1..Len(steps[x]) : Passed(x, i) => Passed(x, i)'
      BY <1>9, <3>3, <3>4
    <3>6. Fits(l, x, m, t)'
      BY <1>5, <1>7, <3>3, <3>5 DEF Fits
    <3> QED  BY <1>6, <2>2, <3>1, <3>6 DEF Fits
  <2> QED  BY <2>1, <2>2
<1>16. AloneOK'
  BY <1>1, <1>3, <1>6 DEF AloneOK, Busy
<1>17. Open'
  <2> SUFFICES ASSUME NEW x \in Entities \ overlapped, approval[x] # NULL,
                      approval[x].status = "pending", steps'[x] # <<>>, failures = 0,
                      \A g \in Handlers : pc'[g] \in {"advance", "reject"} => loc[g].entity # x
               PROVE  ~Decided(x, approval[x].currentStep)'
    BY DEF Open
  <2>1. x # e
    BY <1>2, <1>6
  <2>2. \A g \in Handlers : pc[g] \in {"advance", "reject"} => loc[g].entity # x
    BY <1>6
  <2> QED  BY <1>1, <1>5, <2>1, <2>2 DEF Open, Decided
<1> QED  BY <1>12, <1>13, <1>14, <1>15, <1>16, <1>17 DEF WInv

\* What the last statement of a decision writes.
Written(label, old, row, n, total) ==
    /\ row.totalSteps = old.totalSteps
    /\ \/ /\ label = "advance" /\ n >= total
          /\ row.status = "approved" /\ row.currentStep = old.currentStep
       \/ /\ label = "advance" /\ ~(n >= total)
          /\ row.status = old.status /\ row.currentStep = n + 1
       \/ /\ label = "reject"
          /\ row.status = "rejected" /\ row.currentStep = old.currentStep

\* The approval is written after the step: all steps are passed when it becomes
\* approved, and those up to the step that was decided when it goes on.
LEMMA RowKeeps ==
  ASSUME WInv, NEW h \in Handlers, pc[h] \in {"advance", "reject"}, Finish(h),
         UNCHANGED <<steps, failures, overlapped>>,
         NEW e, e = loc[h].entity, NEW n, n = loc[h].current, NEW total, total = loc[h].total,
         NEW row \in Approval, approval' = [approval EXCEPT ![e] = row],
         Written(pc[h], approval[e], row, n, total)
  PROVE  WInv'
<1>1. TypeOK /\ StepsInOrder /\ RowOK /\ HandlerOK /\ AloneOK /\ Open
  BY DEF WInv
<1>2. e \in Entities /\ Fits(pc[h], e, n, total) /\ Busy(h)
  BY <1>1, Locals DEF HandlerOK, Deciding, Busy
<1>3. /\ row # NULL /\ approval'[e] = row
      /\ \A x \in Entities \ {e} : approval'[x] = approval[x]
      /\ pc'[h] = "idle" /\ loc'[h] = NULL /\ Others(h)
  BY <1>1, <1>2, WorkflowAssumption DEF TypeOK, Finish, Goto, Others
<1>4. /\ n \in 1..Len(steps[e]) /\ total = Len(steps[e]) /\ Len(steps[e]) \in Nat
      /\ approval[e] # NULL /\ approval[e].currentStep \in Nat /\ approval[e].totalSteps = Len(steps[e])
      /\ steps[e] # <<>>
  BY <1>1, <1>2, Rows DEF Fits
<1>5. /\ row.totalSteps = approval[e].totalSteps
       /\ \/ /\ pc[h] = "advance" /\ n >= total
             /\ row.status = "approved" /\ row.currentStep = approval[e].currentStep
          \/ /\ pc[h] = "advance" /\ ~(n >= total)
             /\ row.status = approval[e].status /\ row.currentStep = n + 1
          \/ /\ pc[h] = "reject"
             /\ row.status = "rejected" /\ row.currentStep = approval[e].currentStep
  BY DEF Written
<1>6. TypeOK'
  <2>1. approval' \in [Entities -> Approval \cup {NULL}]
    BY <1>1 DEF TypeOK
  <2>2. row.currentStep \in 1..Len(steps[e])
    BY <1>1, <1>2, <1>4, <1>5 DEF TypeOK
  <2> QED  BY <1>1, <1>3, <1>4, <1>5, <2>1, <2>2 DEF TypeOK, Finish, Goto, Others
<1>7. StepsInOrder'
  BY <1>1 DEF StepsInOrder, Decided
<1>8. \A x \in Entities : \A i \in 1..Len(steps[x]) :
         (Passed(x, i)' <=> Passed(x, i)) /\ (Decided(x, i)' <=> Decided(x, i))
  BY DEF Passed, Decided
<1>9. \A i \in 1..Len(steps[e]) :
         /\ i < row.currentStep => Passed(e, i)
         /\ e \notin overlapped /\ i > row.currentStep => ~Decided(e, i)
         /\ row.status = "approved" => Passed(e, i)
  <2> SUFFICES ASSUME NEW i \in 1..Len(steps[e])
               PROVE  /\ i < row.currentStep => Passed(e, i)
                      /\ e \notin overlapped /\ i > row.currentStep => ~Decided(e, i)
                      /\ row.status = "approved" => Passed(e, i)
    OBVIOUS
  <2>1. /\ i < approval[e].currentStep => Passed(e, i)
        /\ e \notin overlapped /\ i > approval[e].currentStep => ~Decided(e, i)
        /\ approval[e].status = "approved" => Passed(e, i)
    BY <1>1, <1>2, <1>4 DEF RowOK
  <2>2. /\ i < n => Passed(e, i)
        /\ pc[h] = "advance" /\ i = n => Passed(e, i)
        /\ e \notin overlapped => approval[e].currentStep = n
    BY <1>2 DEF Fits
  <2> QED  BY <1>4, <1>5, <2>1, <2>2
<1>10. RowOK'
  BY <1>1, <1>3, <1>8, <1>9 DEF RowOK
<1>11. HandlerOK'
  <2> SUFFICES ASSUME NEW g \in Handlers, Deciding(g)'
               PROVE  Fits(pc[g], loc[g].entity, loc[g].current, loc[g].total)'
    BY DEF HandlerOK
  <2>1. g # h
    BY <1>3 DEF Deciding
  <2>2. PICK x, m, t, l : x = loc[g].entity /\ m = loc[g].current /\ t = loc[g].total /\ l = pc[g]
    OBVIOUS
  <2>3. Deciding(g) /\ Busy(g) /\ pc'[g] = pc[g] /\ loc'[g] = loc[g]
    BY <1>3, <2>1 DEF Others, Deciding, Busy
  <2>4. x \in Entities /\ Fits(l, x, m, t)
    BY <1>1, <2>2, <2>3, Locals DEF HandlerOK
  <2>5. x = e => e \in overlapped
    BY <1>1, <1>2, <2>1, <2>2, <2>3 DEF AloneOK
  <2>6. Fits(l, x, m, t)'
    BY <1>3, <1>8, <2>4, <2>5 DEF Fits
  <2> QED  BY <2>2, <2>3, <2>6 DEF Fits
<1>12. AloneOK'
  BY <1>1, <1>3 DEF AloneOK, Busy, Others
<1>13. Open'
  <2> SUFFICES ASSUME NEW x \in Entities \ overlapped, approval'[x] # NULL,
                      approval'[x].status = "pending", steps[x] # <<>>, failures = 0,
                      \A g \in Handlers : pc'[g] \in {"advance", "reject"} => loc'[g].entity # x
               PROVE  ~Decided(x, approval'[x].currentStep)
    BY DEF Open, Decided
  <2>1. CASE x # e
    BY <1>1, <1>3, <2>1 DEF Open, Others
  <2>2. CASE x = e
    <3>1. approval[e].currentStep = n /\ row.currentStep = n + 1 /\ n + 1 \in 1..Len(steps[e])
      BY <1>2, <1>3, <1>4, <1>5, <2>2 DEF Fits
    <3> QED  BY <1>1, <1>3, <1>4, <2>2, <3>1 DEF RowOK
  <2> QED  BY <2>1, <2>2
<1> QED  BY <1>6, <1>7, <1>10, <1>11, <1>12, <1>13 DEF WInv

\* Both last statements of a decision write the row so.
LEMMA AdvanceKeeps ==
  ASSUME WInv, NEW h \in Handlers, Advance(h) \/ Reject(h)
  PROVE  WInv'
<1>1. TypeOK /\ HandlerOK
  BY DEF WInv
<1>2. PICK e, n, total, by :
         e = loc[h].entity /\ n = loc[h].current /\ total = loc[h].total /\ by = loc[h].approver
  OBVIOUS
<1>3. /\ e \in Entities /\ Fits(pc[h], e, n, total) /\ by \in Employees
      /\ n \in Nat /\ total \in Nat
  BY <1>1, <1>2, Locals DEF HandlerOK, Deciding, Advance, Reject, DecideLoc
<1>4. approval[e] \in Approval
  BY <1>1, <1>3, Rows DEF Fits
<1>5. PICK row :
         /\ approval' = [approval EXCEPT ![e] = row]
         /\ \/ Advance(h) /\ n >= total /\ row = [approval[e] EXCEPT !.status = "approved", !.approverId = by]
            \/ Advance(h) /\ ~(n >= total) /\ row = [approval[e] EXCEPT !.currentStep = n + 1]
            \/ Reject(h) /\ row = [approval[e] EXCEPT !.status = "rejected", !.approverId = by]
  BY <1>2 DEF Advance, Reject, LastStep, Closed, Advanced
<1>6. /\ row \in Approval /\ row.totalSteps = approval[e].totalSteps
      /\ Advance(h) /\ n >= total => row.status = "approved" /\ row.currentStep = approval[e].currentStep
      /\ Advance(h) /\ ~(n >= total) => row.status = approval[e].status /\ row.currentStep = n + 1
      /\ Reject(h) => row.status = "rejected" /\ row.currentStep = approval[e].currentStep
  <2>1. PICK old \in [requesterId : Employees, approverId : Employees \cup {NULL},
                       status : Statuses, currentStep : Nat, totalSteps : Nat] : old = approval[e]
    BY <1>4 DEF Approval
  <2>2. ~(Advance(h) /\ Reject(h))
    BY DEF Advance, Reject
  <2>3. CASE row = [old EXCEPT !.status = "approved", !.approverId = by] /\ Advance(h) /\ n >= total
    BY <1>3, <2>1, <2>2, <2>3 DEF Approval, Statuses
  <2>4. CASE row = [old EXCEPT !.currentStep = n + 1] /\ Advance(h) /\ ~(n >= total)
    BY <1>3, <2>1, <2>2, <2>4 DEF Approval, Statuses
  <2>5. CASE row = [old EXCEPT !.status = "rejected", !.approverId = by] /\ Reject(h)
    BY <1>3, <2>1, <2>2, <2>5 DEF Approval, Statuses
  <2> QED  BY <1>5, <2>1, <2>3, <2>4, <2>5
<1>7. /\ Finish(h) /\ UNCHANGED <<steps, failures, overlapped>>
      /\ Advance(h) => pc[h] = "advance"
      /\ Reject(h) => pc[h] = "reject"
  BY DEF Advance, Reject
<1>8. Written(pc[h], approval[e], row, n, total)
  <2>1. CASE Advance(h) /\ n >= total
    BY <1>6, <1>7, <2>1 DEF Written
  <2>2. CASE Advance(h) /\ ~(n >= total)
    BY <1>6, <1>7, <2>2 DEF Written
  <2>3. CASE Reject(h)
    BY <1>6, <1>7, <2>3 DEF Written
  <2> QED  BY <2>1, <2>2, <2>3
<1> QED  BY <1>2, <1>5, <1>6, <1>7, <1>8, RowKeeps

\* Every action is one of these.
LEMMA NextKeeps == ASSUME WInv, Next PROVE WInv'
<1>1. TypeOK /\ RowOK /\ HandlerOK /\ StepsInOrder
  BY DEF WInv
<1>2. ASSUME NEW h \in Handlers, NEW e \in Entities, NEW q \in Employees,
             NEW chain \in Chains, ReadForCreate(h, e, q, chain)
      PROVE  WInv'
  BY <1>2, BeginKeeps DEF ReadForCreate, CreateLoc
<1>3. ASSUME NEW h \in Handlers, NEW e \in Entities, NEW q \in Employees,
             ReadForApprove(h, e, q) \/ ReadForReject(h, e, q)
      PROVE  WInv'
  <2>1. CurrentFound(e, q)
    BY <1>3 DEF ReadForApprove, ReadForReject
  <2>2. /\ approval[e] # NULL /\ approval[e] \in Approval /\ approval[e].status = "pending"
        /\ approval[e].currentStep \in 1..Len(steps[e]) /\ approval[e].currentStep \in Nat
        /\ approval[e].totalSteps = Len(steps[e]) /\ Len(steps[e]) \in Nat
    BY <1>1, <2>1, Rows DEF CurrentFound
  <2>3. PICK locals : locals = Snapshot(e, q)
    OBVIOUS
  <2>4. /\ locals \in DecideLoc /\ locals.entity = e
        /\ locals.current = approval[e].currentStep /\ locals.total = Len(steps[e])
    BY <2>2, <2>3 DEF Snapshot, DecideLoc
  <2>5. PICK label \in {"approveStep", "rejectStep"} : Begin(h, e, label, locals)
    BY <1>3, <2>3 DEF ReadForApprove, ReadForReject
  <2>6. Fits(label, e, locals.current, locals.total)
    BY <1>1, <2>2, <2>4 DEF Fits, RowOK
  <2> QED  BY <2>4, <2>5, <2>6, BeginKeeps
<1>4. ASSUME NEW h \in Handlers, HandlerStep(h)  PROVE WInv'
  <2>1. CASE ApproveStep(h)
    BY <2>1, SetKeeps DEF ApproveStep
  <2>2. CASE RejectStep(h)
    BY <2>2, SetKeeps DEF RejectStep
  <2> QED  BY <1>4, <2>1, <2>2, CreateKeeps, AdvanceKeeps DEF HandlerStep
<1>5. ASSUME NEW h \in Handlers, Fail(h)  PROVE WInv'
  <2>1. /\ failures' \in 0..MaxFailures /\ failures' # 0
        /\ Busy(h) /\ Finish(h) /\ UNCHANGED <<tables, overlapped>>
    BY <1>1, <1>5, WorkflowAssumption DEF Fail, TypeOK
  <2> QED  BY <2>1, EndKeeps
<1>6. PICK h \in Handlers :
         \/ \E e \in Entities, q \in Employees :
               \/ \E chain \in Chains : ReadForCreate(h, e, q, chain)
               \/ ReadForApprove(h, e, q) \/ ReadForReject(h, e, q)
         \/ HandlerStep(h)
         \/ Fail(h)
  BY DEF Next
<1> QED  BY <1>2, <1>3, <1>4, <1>5, <1>6

\* The inductive invariant holds in every state.
LEMMA WInvAlways == Spec => []WInv
<1>1. WInv /\ UNCHANGED vars => WInv'
  BY DEF vars, tables, WInv, TypeOK, StepsInOrder, RowOK, HandlerOK, AloneOK, Open,
         Deciding, Fits, Passed, Decided, Busy
<1> QED  BY <1>1, InitWInv, NextKeeps, PTL DEF Spec

\* Nobody decides a step before all earlier ones are decided (approveStep and
\* rejectApproval), in any interleaving and after any failure.
THEOREM StepsAlwaysInOrder == Spec => []StepsInOrder
<1>1. WInv => StepsInOrder
  BY DEF WInv
<1> QED  BY <1>1, WInvAlways, PTL

\* An approval that reads "approved" has every step decided, and approved if
\* no two requests worked on it at once.
THEOREM ApprovedIsDecided == Spec => []FullyApproved
<1>1. WInv => FullyApproved
  BY DEF WInv, RowOK, FullyApproved, Passed
<1> QED  BY <1>1, WInvAlways, PTL

\* Without failure or overlap an approval waits at its first open step.
THEOREM AlwaysWaitsAtFirstOpenStep == Spec => []WaitsAtFirstOpenStep
<1>1. WInv => WaitsAtFirstOpenStep
  <2> SUFFICES ASSUME WInv, NEW e \in Entities \ overlapped, approval[e] # NULL,
                      approval[e].status = "pending", steps[e] # <<>>, failures = 0,
                      \A h \in Handlers : Busy(h) => loc[h].entity # e
               PROVE  /\ ~Decided(e, approval[e].currentStep)
                      /\ \A i \in 1..(approval[e].currentStep - 1) : Decided(e, i)
    BY DEF WaitsAtFirstOpenStep
  <2>1. ~Decided(e, approval[e].currentStep)
    BY DEF WInv, Open, Busy
  <2>2. approval[e].currentStep \in 1..Len(steps[e]) /\ Len(steps[e]) \in Nat
    BY Rows DEF WInv, TypeOK
  <2>3. \A i \in 1..Len(steps[e]) : i < approval[e].currentStep => Decided(e, i)
    BY DEF WInv, RowOK, Passed, Decided
  <2> QED  BY <2>1, <2>2, <2>3
<1> QED  BY <1>1, WInvAlways, PTL

-----------------------------------------------------------------------------
\* The variables of ApprovalPromise, as Promise maps them.
Created == {e \in Entities : approval[e] # NULL}
Total == [e \in Entities |-> Len(steps[e])]
Count == [e \in Entities |-> Cardinality(Leading(e))]
Outcome == [e \in Entities |-> IF approval[e] = NULL THEN "pending" ELSE approval[e].status]

\* With the steps up to n decided and no other, n of them lead.
LEMMA LeadingIs ==
  ASSUME NEW e, Len(steps[e]) \in Nat, NEW n \in 0..Len(steps[e]),
         \A i \in 1..Len(steps[e]) : Decided(e, i) <=> i <= n
  PROVE  Leading(e) = 1..n /\ Cardinality(Leading(e)) = n
<1>1. Leading(e) = 1..n
  BY DEF Leading
<1>2. Cardinality(1..n) = n
  BY FS_Interval
<1> QED  BY <1>1, <1>2

\* The promise sees nothing of a step that leaves what it maps alone.
LEMMA SetRefines ==
  ASSUME WInv, NEW h \in Handlers, Deciding(h), NEW s \in Statuses \ {"pending"}, SetStep(h, s),
         pc[h] \in {"approveStep", "rejectStep"}, UNCHANGED approval
  PROVE  \/ UNCHANGED <<Created, Total, Count, Outcome>>
         \/ \E e \in Entities :
               /\ Count[e] < Total[e]
               /\ Count' = [Count EXCEPT ![e] = @ + 1]
               /\ UNCHANGED <<Created, Total, Outcome>>
<1>1. TypeOK /\ StepsInOrder /\ HandlerOK
  BY DEF WInv
<1>2. PICK e, n : e = loc[h].entity /\ n = loc[h].current
  OBVIOUS
<1>3. e \in Entities /\ n \in 1..Len(steps[e]) /\ Len(steps[e]) \in Nat
      /\ \A i \in 1..Len(steps[e]) : i < n => Decided(e, i)
  BY <1>1, <1>2, Locals, Rows DEF HandlerOK, Fits, Passed, Decided
<1>4. /\ \A x \in Entities : Len(steps'[x]) = Len(steps[x])
      /\ \A x \in Entities : x # e => steps'[x] = steps[x]
      /\ \A i \in 1..Len(steps[e]) : i # n => steps'[e][i] = steps[e][i]
      /\ steps'[e][n].status = s
  BY <1>1, <1>2, OneStep
<1>5. UNCHANGED <<Created, Total, Outcome>>
  BY <1>4 DEF Created, Total, Outcome
<1>6. \A x \in Entities \ {e} : Leading(x)' = Leading(x)
  BY <1>4 DEF Leading, Decided
<1>7. \A i \in 1..Len(steps[e]) : Decided(e, i)' <=> (Decided(e, i) \/ i = n)
  BY <1>3, <1>4 DEF Decided
<1>8. CASE Decided(e, n)
  <2>1. Leading(e)' = Leading(e)
    BY <1>3, <1>4, <1>7, <1>8 DEF Leading
  <2>2. UNCHANGED Count
    BY <1>6, <2>1 DEF Count
  <2> QED  BY <1>5, <2>2
<1>9. CASE ~Decided(e, n)
  <2>1. \A i \in 1..Len(steps[e]) : Decided(e, i) <=> i <= n - 1
    BY <1>1, <1>3, <1>9 DEF StepsInOrder
  <2>2. Cardinality(Leading(e)) = n - 1
    BY <1>3, <2>1, LeadingIs
  <2>3. \A i \in 1..Len(steps[e]) : Decided(e, i)' <=> i <= n
    BY <1>3, <1>7, <2>1
  <2>4. Leading(e)' = 1..n
    BY <1>3, <1>4, <2>3 DEF Leading
  <2>5. Cardinality(Leading(e)') = n
    BY <1>3, <2>4, FS_Interval
  <2>6. Count' = [Count EXCEPT ![e] = @ + 1]
    <3>1. Count[e] + 1 = Count'[e]
      BY <1>3, <2>2, <2>5 DEF Count
    <3>2. \A x \in Entities \ {e} : Count'[x] = Count[x]
      BY <1>6 DEF Count
    <3> QED  BY <1>3, <3>1, <3>2 DEF Count
  <2>7. Count[e] < Total[e]
    BY <1>3, <2>2 DEF Count, Total
  <2> QED  BY <1>3, <1>5, <2>6, <2>7
<1> QED  BY <1>8, <1>9

\* An approval that ends has a first step decided, and all of them when it
\* ends approved.
LEMMA EndRefines ==
  ASSUME WInv, NEW h \in Handlers, Advance(h) \/ Reject(h)
  PROVE  \/ UNCHANGED <<Created, Total, Count, Outcome>>
         \/ \E e \in Entities, how \in {"approved", "rejected"} :
               /\ Count[e] > 0
               /\ how = "approved" => Count[e] = Total[e]
               /\ Outcome' = [Outcome EXCEPT ![e] = how]
               /\ UNCHANGED <<Created, Total, Count>>
<1>1. TypeOK /\ HandlerOK
  BY DEF WInv
<1>2. PICK e, n, total, by :
         e = loc[h].entity /\ n = loc[h].current /\ total = loc[h].total /\ by = loc[h].approver
  OBVIOUS
<1>3. /\ e \in Entities /\ Fits(pc[h], e, n, total) /\ n \in Nat /\ total \in Nat /\ by \in Employees
  BY <1>1, <1>2, Locals DEF HandlerOK, Deciding, Advance, Reject, DecideLoc
<1>4. /\ n \in 1..Len(steps[e]) /\ total = Len(steps[e]) /\ Len(steps[e]) \in Nat
      /\ approval[e] \in Approval /\ approval[e] # NULL
      /\ \A i \in 1..n : Decided(e, i)
  BY <1>1, <1>3, Rows DEF Fits, Passed, Decided, Advance, Reject
<1>5. UNCHANGED steps /\ Total' = Total /\ Count' = Count
  BY DEF Advance, Reject, Total, Count, Leading, Decided
<1>6. Count[e] > 0
  <2>1. Leading(e) \subseteq 1..Len(steps[e]) /\ 1 \in Leading(e)
    BY <1>4 DEF Leading
  <2>2. IsFiniteSet(Leading(e))
    <3>1. IsFiniteSet(1..Len(steps[e]))
      BY <1>4, FS_Interval
    <3> QED  BY <2>1, <3>1, FS_Subset
  <2>3. Cardinality(Leading(e)) \in Nat /\ Cardinality(Leading(e)) # 0
    BY <2>1, <2>2, FS_CardinalityType, FS_EmptySet
  <2> QED  BY <1>3, <2>3 DEF Count
<1>7. PICK row :
         /\ approval' = [approval EXCEPT ![e] = row]
         /\ \/ Advance(h) /\ n >= total /\ row = [approval[e] EXCEPT !.status = "approved", !.approverId = by]
            \/ Advance(h) /\ ~(n >= total) /\ row = [approval[e] EXCEPT !.currentStep = n + 1]
            \/ Reject(h) /\ row = [approval[e] EXCEPT !.status = "rejected", !.approverId = by]
  BY <1>2 DEF Advance, Reject, LastStep, Closed, Advanced
<1>8. PICK old \in [requesterId : Employees, approverId : Employees \cup {NULL},
                    status : Statuses, currentStep : Nat, totalSteps : Nat] : old = approval[e]
  BY <1>4 DEF Approval
<1>9. /\ row \in Approval
      /\ row.status \in {"approved", "rejected", old.status}
      /\ row.status = "approved" /\ row.status # old.status => n >= total
  <2>1. CASE row = [old EXCEPT !.status = "approved", !.approverId = by] /\ n >= total
    BY <1>3, <1>8, <2>1 DEF Approval, Statuses
  <2>2. CASE row = [old EXCEPT !.currentStep = n + 1]
    BY <1>3, <1>8, <2>2 DEF Approval, Statuses
  <2>3. CASE row = [old EXCEPT !.status = "rejected", !.approverId = by]
    BY <1>3, <1>8, <2>3 DEF Approval, Statuses
  <2> QED  BY <1>7, <1>8, <2>1, <2>2, <2>3
<1>10. /\ approval'[e] = row /\ row # NULL
       /\ \A x \in Entities \ {e} : approval'[x] = approval[x]
  BY <1>1, <1>3, <1>7, <1>9, WorkflowAssumption DEF TypeOK
<1>11. Created' = Created
  BY <1>4, <1>10 DEF Created
<1>12. CASE row.status = old.status
  <2>1. Outcome' = Outcome
    BY <1>4, <1>8, <1>12, <1>10 DEF Outcome
  <2> QED  BY <1>5, <1>11, <2>1
<1>13. CASE row.status # old.status
  <2>1. PICK how : how = row.status
    OBVIOUS
  <2>2. how \in {"approved", "rejected"} /\ Outcome' = [Outcome EXCEPT ![e] = how]
    BY <1>3, <1>9, <1>13, <1>10, <2>1 DEF Outcome
  <2>3. how = "approved" => Count[e] = Total[e]
    <3>1. how = "approved" => \A i \in 1..Len(steps[e]) : Decided(e, i) <=> i <= Len(steps[e])
      BY <1>4, <1>9, <1>13, <2>1
    <3>2. how = "approved" => Cardinality(Leading(e)) = Len(steps[e])
      BY <1>4, <3>1, LeadingIs
    <3> QED  BY <1>3, <3>2 DEF Count, Total
  <2> QED  BY <1>3, <1>5, <1>6, <1>11, <2>2, <2>3
<1> QED  BY <1>12, <1>13

\* A new approval has no step decided.
LEMMA CreateRefines ==
  ASSUME WInv, NEW h \in Handlers, CommitCreate(h)
  PROVE  \/ UNCHANGED <<Created, Total, Count, Outcome>>
         \/ \E e \in Entities :
               /\ e \notin Created /\ Created' = Created \cup {e}
               /\ Total'[e] \in Nat /\ Total' = [Total EXCEPT ![e] = Total'[e]]
               /\ UNCHANGED <<Count, Outcome>>
<1>1. TypeOK
  BY DEF WInv
<1>2. PICK e, chain : e = loc[h].entity /\ chain = loc[h].chain
  OBVIOUS
<1>3. e \in Entities /\ chain \in Seq(Employees) /\ loc[h].requester \in Employees
  BY <1>1, <1>2, Locals, WorkflowAssumption DEF CommitCreate, CreateLoc
<1>4. CASE UNCHANGED tables
  BY <1>4 DEF tables, Created, Total, Count, Outcome, Leading, Decided
<1>5. CASE approval[e] = NULL /\ ~UNCHANGED tables
  <2>1. PICK row, list :
           /\ row = [requesterId |-> loc[h].requester, approverId |-> NULL,
                     status |-> "pending", currentStep |-> 1, totalSteps |-> Len(chain)]
           /\ list = [i \in 1..Len(chain) |-> [approverId |-> chain[i], status |-> "pending"]]
           /\ approval' = [approval EXCEPT ![e] = row] /\ steps' = [steps EXCEPT ![e] = list]
    BY <1>2, <1>5 DEF CommitCreate
  <2>2. /\ row \in Approval /\ row # NULL /\ row.status = "pending"
        /\ Len(list) = Len(chain) /\ Len(chain) \in Nat
        /\ \A i \in 1..Len(chain) : list[i].status = "pending"
    BY <1>3, <2>1, WorkflowAssumption DEF Approval, Statuses
  <2>3. /\ approval'[e] = row /\ steps'[e] = list /\ steps[e] = <<>>
        /\ \A x \in Entities \ {e} : approval'[x] = approval[x] /\ steps'[x] = steps[x]
    BY <1>1, <1>3, <1>5, <2>1 DEF TypeOK
  <2>4. e \notin Created /\ Created' = Created \cup {e}
    BY <1>3, <1>5, <2>2, <2>3 DEF Created
  <2>5. Total'[e] \in Nat /\ Total' = [Total EXCEPT ![e] = Total'[e]]
    BY <1>3, <2>2, <2>3 DEF Total
  <2>6. Outcome' = Outcome
    BY <1>5, <2>2, <2>3 DEF Outcome
  <2>7. \A x \in Entities : Leading(x)' = Leading(x)
    <3>1. Leading(e) = {} /\ Leading(e)' = {}
      BY <2>2, <2>3 DEF Leading, Decided
    <3> QED  BY <2>3, <3>1 DEF Leading, Decided
  <2>8. Count' = Count
    BY <2>7 DEF Count
  <2> QED  BY <1>3, <2>4, <2>5, <2>6, <2>8
<1> QED  BY <1>2, <1>4, <1>5 DEF CommitCreate

\* Every step is one of the promise or a stutter.
LEMMA NextRefines == ASSUME WInv, Next PROVE [Promise!PromiseNext]_(Promise!promiseVars)
<1>1. CASE UNCHANGED <<Created, Total, Count, Outcome>>
  BY <1>1 DEF Promise!promiseVars, Created, Total, Count, Outcome
<1>2. CASE \E e \in Entities :
              /\ e \notin Created /\ Created' = Created \cup {e}
              /\ Total'[e] \in Nat /\ Total' = [Total EXCEPT ![e] = Total'[e]]
              /\ UNCHANGED <<Count, Outcome>>
  BY <1>2 DEF Promise!PromiseNext, Promise!Create, Created, Total, Count, Outcome
<1>3. CASE \E e \in Entities :
              /\ Count[e] < Total[e]
              /\ Count' = [Count EXCEPT ![e] = @ + 1]
              /\ UNCHANGED <<Created, Total, Outcome>>
  BY <1>3 DEF Promise!PromiseNext, Promise!DecideNext, Created, Total, Count, Outcome
<1>4. CASE \E e \in Entities, how \in {"approved", "rejected"} :
              /\ Count[e] > 0
              /\ how = "approved" => Count[e] = Total[e]
              /\ Outcome' = [Outcome EXCEPT ![e] = how]
              /\ UNCHANGED <<Created, Total, Count>>
  BY <1>4 DEF Promise!PromiseNext, Promise!End, Created, Total, Count, Outcome
<1>5. CASE UNCHANGED tables
  BY <1>1, <1>5 DEF tables, Created, Total, Count, Outcome, Leading, Decided
<1>6. CASE \E h \in Handlers : CommitCreate(h)
  BY <1>1, <1>2, <1>6, CreateRefines
<1>7. CASE \E h \in Handlers : ApproveStep(h) \/ RejectStep(h)
  BY <1>1, <1>3, <1>7, SetRefines DEF ApproveStep, RejectStep, Deciding, Statuses
<1>8. CASE \E h \in Handlers : Advance(h) \/ Reject(h)
  BY <1>1, <1>4, <1>8, EndRefines
<1>9. UNCHANGED tables \/ \E h \in Handlers : HandlerStep(h)
  BY DEF Next, ReadForCreate, ReadForApprove, ReadForReject, Begin, Fail
<1> QED  BY <1>5, <1>6, <1>7, <1>8, <1>9 DEF HandlerStep

\* The engine implements ApprovalPromise: for any approvers, chains, handlers
\* and failures every step of it is one of the promise or changes nothing the
\* promise speaks of.
THEOREM EngineKeepsPromise == Spec => KeepsPromise
<1>1. Init => Promise!PromiseInit
  <2> SUFFICES ASSUME Init PROVE Promise!PromiseInit
    OBVIOUS
  <2>1. \A e \in Entities : Cardinality(Leading(e)) = 0
    BY LeadingIs DEF Init
  <2> QED  BY <2>1 DEF Init, Promise!PromiseInit
<1>2. UNCHANGED vars => UNCHANGED (Promise!promiseVars)
  BY DEF vars, tables, Promise!promiseVars, Leading, Decided
<1> QED  BY <1>1, <1>2, NextRefines, WInvAlways, PTL DEF Spec, KeepsPromise, Promise!PromiseSpec
=============================================================================
