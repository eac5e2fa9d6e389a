------------------------------- MODULE Records -------------------------------
(***************************************************************************)
(* Goals and reviews, filings and policies: performance.service.ts and     *)
(* compliance.service.ts.                                                  *)
(* All of them look a row up by one statement and write it by another that *)
(* does not look at it again; what was read stays in the task.             *)
(***************************************************************************)
EXTENDS Staff

CONSTANTS
  Goals,        \* rows of goals
  Target,       \* target_value of every goal, in hundredths
  Periods,      \* review periods
  Filings,      \* pairs of a type and a period
  Policies      \* names of policies

VARIABLES
  goal,         \* the row of each goal, None before it is created, Gone after it is deleted
  review,       \* the review of each person for each period
  filing,       \* the row of each filing
  acknowledged, \* pairs of an employee and a policy
  moved         \* history: people whose status or acknowledgement was set since
                \* the compliance report of each handler began

records == <<goal, review, filing, acknowledged>>

GoalStatus == {"pending", "in-progress", "completed", "cancelled"}

\* What clients send, in thirds of a hundredth, and the hundredth the column keeps.
Input == 0..3 * Target
Stored(v) == (v + 1) \div 3

\* History: reached, the goal was given its target or more once; rounded, its
\* last progress fell short of the target by less than the column can tell;
\* byHand, its status was set by updateGoalStatus once.
GoalRow == [of: People, value: 0..Target, status: GoalStatus,
            reached: BOOLEAN, rounded: BOOLEAN, byHand: BOOLEAN]

ASSUME RecordsAssumption ==
  Target \in Nat \ {0} /\ None \notin GoalRow /\ Gone \notin GoalRow

\* dated: reviewDate is set; a filing is dated by filedAt.
ReviewRow == [status: {"none", "draft", "submitted", "acknowledged"}, dated: BOOLEAN]

\* receipt: receiptNo is set; given: it was when the row was created (history).
FilingRow == [status: {"none", "pending", "filed", "acknowledged"}, dated: BOOLEAN,
              receipt: BOOLEAN, given: BOOLEAN]

\* Between the statements of a compliance report, and before its answer.
Reporting == {"countAcknowledged", "listPending", "reported"}

RecordTasks ==
  [op: {"progress"}, goal: Goals, status: GoalStatus, value: Input]
  \union [op: {"submit", "acceptReview"}, person: People, period: Periods]
  \union [op: {"file"}, filing: Filings, receipt: BOOLEAN]
  \union [op: {"acceptFiling"}, filing: Filings]
  \union [op: Reporting, policy: Policies, active: Nat, acked: Nat, pending: Nat]

RecordsTypeOK ==
  /\ goal \in [Goals -> GoalRow \union {None, Gone}]
  /\ review \in [People -> [Periods -> ReviewRow]]
  /\ filing \in [Filings -> FilingRow]
  /\ acknowledged \subseteq People \X Policies

RecordsInit ==
  /\ goal = [g \in Goals |-> None]
  /\ review = [p \in People |-> [q \in Periods |-> [status |-> "none", dated |-> FALSE]]]
  /\ filing = [f \in Filings |-> [status |-> "none", dated |-> FALSE,
                                  receipt |-> FALSE, given |-> FALSE]]
  /\ acknowledged = {}
  /\ moved = [h \in Handlers |-> {}]

-----------------------------------------------------------------------------
HasGoal(g) == goal[g] \notin {None, Gone}
SetGoal(g, row) == goal' = [goal EXCEPT ![g] = row]

CreateGoal(g, p, v) ==
  /\ goal[g] = None /\ p \in Employed
  /\ SetGoal(g, [of |-> p, value |-> Stored(v), status |-> "pending",
                 reached |-> v >= 3 * Target, rounded |-> FALSE, byHand |-> FALSE])
  /\ UNCHANGED <<review, filing, acknowledged, task>>

\* Mutation: the second of the two conditions is looked at first.
ProgressStatusSwapped(status, v) ==
  IF status = "pending" /\ v > 0 THEN "in-progress" ELSE IF v >= 3 * Target THEN "completed" ELSE status

\* The status follows from the value sent, before it is rounded.  (The largest
\* input stands for any value from the target on.)
ProgressStatus(status, v) ==
  IF v >= 3 * Target THEN "completed" ELSE IF status = "pending" /\ v > 0 THEN "in-progress" ELSE status

Progressed(row, status, v) ==
  [row EXCEPT !.value = Stored(v), !.status = ProgressStatus(status, v),
              !.reached = @ \/ v >= 3 * Target,
              !.rounded = Stored(v) = Target /\ v < 3 * Target]

\* updateGoalProgress reads the status ...
ReadGoal(h, g, v) ==
  /\ HasGoal(g)
  /\ Start(h, [op |-> "progress", goal |-> g, status |-> goal[g].status, value |-> v])
  /\ UNCHANGED records

\* ... and writes the value and the status that follows from what it read.
WriteGoal(h) ==
  LET t == task[h] IN
  /\ t.op = "progress"
  /\ goal' = IF ~HasGoal(t.goal) THEN goal
             ELSE [goal EXCEPT ![t.goal] = Progressed(@, t.status, t.value)]
  /\ Done(h)
  /\ UNCHANGED <<review, filing, acknowledged>>

SetGoalStatus(g, s) ==
  /\ HasGoal(g)
  /\ goal' = [goal EXCEPT ![g] = [@ EXCEPT !.status = s, !.byHand = TRUE]]
  /\ UNCHANGED <<review, filing, acknowledged, task>>

DeleteGoal(g) ==
  /\ HasGoal(g)
  /\ SetGoal(g, Gone)
  /\ UNCHANGED <<review, filing, acknowledged, task>>

-----------------------------------------------------------------------------
\* createPerformanceReview: one review of an employee in a period.
CreateReview(p, r, q) ==
  /\ {p, r} \subseteq Employed
  /\ review[p][q].status = "none"
  /\ review' = [review EXCEPT ![p][q].status = "draft"]
  /\ UNCHANGED <<goal, filing, acknowledged, task>>

\* submitPerformanceReview and acknowledgePerformanceReview check the status ...
ReadReview(h, p, q) ==
  /\ \/ /\ review[p][q].status = "draft"
        /\ Start(h, [op |-> "submit", person |-> p, period |-> q])
     \/ /\ review[p][q].status = "submitted"
        /\ Start(h, [op |-> "acceptReview", person |-> p, period |-> q])
  /\ UNCHANGED records

\* ... and write the next one, whatever the status is by then.
WriteReview(h) ==
  LET t == task[h] IN
  /\ t.op \in {"submit", "acceptReview"}
  /\ review' = IF t.op = "submit"
               THEN [review EXCEPT ![t.person][t.period] = [status |-> "submitted", dated |-> TRUE]]
               ELSE [review EXCEPT ![t.person][t.period].status = "acknowledged"]
  /\ Done(h)
  /\ UNCHANGED <<goal, filing, acknowledged>>

-----------------------------------------------------------------------------
CreateFiling(f, r) ==
  /\ filing[f].status = "none"
  /\ filing' = [filing EXCEPT ![f] = [status |-> "pending", dated |-> FALSE,
                                      receipt |-> r, given |-> r]]
  /\ UNCHANGED <<goal, review, acknowledged, task>>

\* Mutation: the receipt of the row is not kept.
ReadFilingForgetful(h, f, r) ==
  /\ filing[f].status = "pending"
  /\ Start(h, [op |-> "file", filing |-> f, receipt |-> r])
  /\ UNCHANGED records

\* fileFilingRecord reads a pending record; without a receipt that of the
\* record read will be written back.
ReadFiling(h, f, r) ==
  /\ filing[f].status = "pending"
  /\ Start(h, [op |-> "file", filing |-> f, receipt |-> r \/ filing[f].receipt])
  /\ UNCHANGED records

\* acknowledgeFilingRecord reads a filed one.
ReadFiled(h, f) ==
  /\ filing[f].status = "filed"
  /\ Start(h, [op |-> "acceptFiling", filing |-> f])
  /\ UNCHANGED records

\* filedBy stays empty: the controller passes req.user.id, which the guard
\* does not set.
WriteFiling(h) ==
  LET t == task[h] IN
  /\ t.op \in {"file", "acceptFiling"}
  /\ filing' = IF t.op = "file"
               THEN [filing EXCEPT ![t.filing] =
                       [@ EXCEPT !.status = "filed", !.dated = TRUE, !.receipt = t.receipt]]
               ELSE [filing EXCEPT ![t.filing].status = "acknowledged"]
  /\ Done(h)
  /\ UNCHANGED <<goal, review, acknowledged>>

-----------------------------------------------------------------------------
\* createPolicyAcknowledgement: once for an employee and a policy.
AcknowledgePolicy(p, n) ==
  /\ p \in Employed /\ <<p, n>> \notin acknowledged
  /\ acknowledged' = acknowledged \union {<<p, n>>}
  /\ UNCHANGED <<goal, review, filing, task>>

\* getPolicyComplianceReport counts the active employees, ...
Active == {p \in People : employee[p] = "active"}
Acknowledging(n) == {p \in People : <<p, n>> \in acknowledged}

StartReport(h, n) ==
  /\ Start(h, [op |-> "countAcknowledged", policy |-> n,
               active |-> Cardinality(Active), acked |-> 0, pending |-> 0])
  /\ UNCHANGED records

\* ... the acknowledgements, whosoever they are, ...
CountAcknowledged(h) ==
  LET t == task[h] IN
  /\ t.op = "countAcknowledged"
  /\ Go(h, [t EXCEPT !.op = "listPending", !.acked = Cardinality(Acknowledging(t.policy))])
  /\ UNCHANGED records

\* Mutation: former employees are listed as well.
ListPendingAll(h) ==
  LET t == task[h] IN
  /\ t.op = "listPending"
  /\ Go(h, [t EXCEPT !.op = "reported", !.pending = Cardinality(Employed \ Acknowledging(t.policy))])
  /\ UNCHANGED records

\* ... lists the active employees without one, ...
ListPending(h) ==
  LET t == task[h] IN
  /\ t.op = "listPending"
  /\ Go(h, [t EXCEPT !.op = "reported", !.pending = Cardinality(Active \ Acknowledging(t.policy))])
  /\ UNCHANGED records

\* ... and answers with the list and, for its length, the difference of the counts.
PendingCount(t) == t.active - t.acked

AnswerReport(h) ==
  /\ task[h].op = "reported"
  /\ Done(h)
  /\ UNCHANGED records

\* Whose row a step changes counts for the reports under way.
NoteMoved ==
  moved' = [h \in Handlers |->
              IF task[h].op \in Reporting /\ task'[h] # Idle
              THEN moved[h] \union {p \in People :
                     \/ employee'[p] # employee[p]
                     \/ \E n \in Policies : <<p, n>> \in acknowledged' \ acknowledged}
              ELSE {}]

-----------------------------------------------------------------------------
GoalsNext ==
  \/ \E g \in Goals : \/ \E p \in People, v \in Input : CreateGoal(g, p, v)
                      \/ \E s \in GoalStatus : SetGoalStatus(g, s)
                      \/ DeleteGoal(g)
  \/ \E h \in Handlers :
       WriteGoal(h) \/ \E g \in Goals, v \in Input : ReadGoal(h, g, v)

ReviewsNext ==
  \/ \E p, r \in People, q \in Periods : CreateReview(p, r, q)
  \/ \E h \in Handlers :
       WriteReview(h) \/ \E p \in People, q \in Periods : ReadReview(h, p, q)

FilingsNext ==
  \/ \E f \in Filings, r \in BOOLEAN : CreateFiling(f, r)
  \/ \E h \in Handlers :
       \/ WriteFiling(h)
       \/ \E f \in Filings : ReadFiled(h, f) \/ \E r \in BOOLEAN : ReadFiling(h, f, r)

PoliciesNext ==
  \/ \E p \in People, n \in Policies : AcknowledgePolicy(p, n)
  \/ \E h \in Handlers :
       \/ \E n \in Policies : StartReport(h, n)
       \/ CountAcknowledged(h) \/ ListPending(h) \/ AnswerReport(h)

-----------------------------------------------------------------------------
\* A goal nobody has set the status of by hand: completed means that it was
\* given its target once, and showing the target, other than when it was created,
\* means completed, whatever progress was written in between; but a progress that
\* only rounds up to the target shows the target and completes nothing.
GoalStatusFits ==
  \A g \in Goals : HasGoal(g) /\ ~goal[g].byHand =>
    /\ goal[g].status = "completed" => goal[g].reached
    /\ goal[g].status # "pending" /\ goal[g].value = Target =>
         goal[g].status = "completed" \/ goal[g].rounded

\* A review or filing that has left its first status is dated, and a filing
\* keeps a receipt it was created with, whoever else was filing it.
DocumentsComplete ==
  /\ \A p \in People, q \in Periods :
       review[p][q].status \in {"submitted", "acknowledged"} => review[p][q].dated
  /\ \A f \in Filings :
       /\ filing[f].status \in {"filed", "acknowledged"} => filing[f].dated
       /\ filing[f].given => filing[f].receipt

\* Whoever has acknowledged and is not active now.
Lapsed(n) == Acknowledging(n) \ Active

\* The count of a compliance report is the length of its list less those who
\* acknowledged and have left, up to one for everybody whose status or
\* acknowledgement was set while its statements ran.
ReportCountsAgree ==
  \A h \in Handlers : task[h].op = "reported" =>
    LET t == task[h]  m == Cardinality(moved[h]) IN
    PendingCount(t) - (t.pending - Cardinality(Lapsed(t.policy) \ moved[h])) \in -m..m

=============================================================================
