----------------------------- MODULE Recruitment -----------------------------
(***************************************************************************)
(* Jobs, candidates and their conversion: recruitment.service.ts.  What a  *)
(* handler has read and not yet written back is in its task.               *)
(***************************************************************************)
EXTENDS Staff

CONSTANTS
  Jobs,         \* jobs that may be posted
  Candidates,   \* rows of candidates
  MovedTo       \* the stages candidates are moved to by hand

VARIABLES
  job,          \* status of each job, none before it is created
  candidate,    \* the row of each candidate, None before it is created, or Gone
  code          \* employee_code: n of the generated EMP0000n, or 0 for any other

hiring == <<job, candidate, code>>

Stages == {"applied", "screening", "interview", "offer", "hired", "rejected"}

\* byHand: the row was moved to its stage by moveCandidateStage (history).
CandidateRow == [job: Jobs, person: People, stage: Stages, byHand: BOOLEAN]

ASSUME RecruitmentAssumption ==
  MovedTo \subseteq Stages /\ None \notin CandidateRow /\ Gone \notin CandidateRow

HiringTasks ==
  [op: {"publish", "close", "deleteJob"}, job: Jobs]
  \union [op: {"apply"}, candidate: Candidates, job: Jobs, person: People]
  \union [op: {"count", "insert", "hire"}, candidate: Candidates, person: People, number: Nat]
  \union [op: {"interview"}, candidate: Candidates]

HiringTypeOK ==
  /\ job \in [Jobs -> {"none", "draft", "open", "closed", "deleted"}]
  /\ candidate \in [Candidates -> CandidateRow \union {None, Gone}]
  /\ code \in [People -> Nat]

HiringInit ==
  /\ job = [j \in Jobs |-> "none"]
  /\ candidate = [c \in Candidates |-> None]
  /\ code = [p \in People |-> 0]

-----------------------------------------------------------------------------
Row(c) == candidate[c] \notin {None, Gone}
Posted(j) == job[j] \notin {"none", "deleted"}
SetJob(j, s) == job' = [job EXCEPT ![j] = s]

Moved(row, s, byHand) == [row EXCEPT !.stage = s, !.byHand = byHand]

CreateJob(j) ==
  /\ job[j] = "none"
  /\ SetJob(j, "draft")
  /\ UNCHANGED <<candidate, code, task>>

\* publishJob and closeJob read the status and write the next one.
ReadJob(h, j) ==
  /\ \E op \in {"publish", "close"} :
       /\ job[j] = (IF op = "publish" THEN "draft" ELSE "open")
       /\ Start(h, [op |-> op, job |-> j])
  /\ UNCHANGED hiring

WriteJob(h) ==
  LET t == task[h] IN
  /\ t.op \in {"publish", "close"}
  /\ IF ~Posted(t.job) THEN UNCHANGED job
     ELSE SetJob(t.job, IF t.op = "publish" THEN "open" ELSE "closed")
  /\ Done(h)
  /\ UNCHANGED <<candidate, code>>

\* deleteJob counts the candidates and deletes; the rows of those who came in
\* between go with the job.
CountCandidates(h, j) ==
  /\ Posted(j)
  /\ \A c \in Candidates : Row(c) => candidate[c].job # j
  /\ Start(h, [op |-> "deleteJob", job |-> j])
  /\ UNCHANGED hiring

DeleteJob(h) ==
  LET j == task[h].job IN
  /\ task[h].op = "deleteJob"
  /\ SetJob(j, "deleted")
  /\ candidate' = [c \in Candidates |-> IF Row(c) /\ candidate[c].job = j THEN Gone ELSE candidate[c]]
  /\ Done(h)
  /\ UNCHANGED code

-----------------------------------------------------------------------------
\* createCandidate looks for an open job and for no earlier application, ...
ReadForApply(h, c, j, p) ==
  /\ candidate[c] = None
  /\ job[j] = "open"
  /\ \A x \in Candidates : Row(x) => <<candidate[x].job, candidate[x].person>> # <<j, p>>
  /\ Start(h, [op |-> "apply", candidate |-> c, job |-> j, person |-> p])
  /\ UNCHANGED hiring

\* ... and inserts the row; only a job that is gone refuses it.
Apply(h) ==
  LET t == task[h] IN
  /\ t.op = "apply"
  /\ candidate' = IF ~Posted(t.job) \/ candidate[t.candidate] # None THEN candidate
                  ELSE [candidate EXCEPT ![t.candidate] =
                          [job |-> t.job, person |-> t.person, stage |-> "applied", byHand |-> FALSE]]
  /\ Done(h)
  /\ UNCHANGED <<job, code>>

MoveStage(c, s) ==
  /\ Row(c)
  /\ candidate' = [candidate EXCEPT ![c] = Moved(@, s, TRUE)]
  /\ UNCHANGED <<job, code, task>>

DeleteCandidate(c) ==
  /\ Row(c)
  /\ candidate' = [candidate EXCEPT ![c] = Gone]
  /\ UNCHANGED <<job, code, task>>

\* scheduleInterview inserts the interview, then moves the candidate.
ScheduleInterview(h, c) ==
  /\ Row(c) /\ Employed # {}
  /\ Start(h, [op |-> "interview", candidate |-> c])
  /\ UNCHANGED hiring

MoveToInterview(h) ==
  LET c == task[h].candidate IN
  /\ task[h].op = "interview"
  /\ candidate' = IF Row(c) THEN [candidate EXCEPT ![c] = Moved(@, "interview", FALSE)]
                  ELSE candidate
  /\ Done(h)
  /\ UNCHANGED <<job, code>>

-----------------------------------------------------------------------------
\* convertToEmployee: the candidate is read with an offer, ...
ReadOffer(h, c) ==
  /\ Row(c) /\ candidate[c].stage = "offer"
  /\ Start(h, [op |-> "count", candidate |-> c, person |-> candidate[c].person, number |-> 0])
  /\ UNCHANGED <<staff, edited, hiring>>

\* ... the employees are counted for the next code, ...
CountEmployees(h) ==
  /\ task[h].op = "count"
  /\ Go(h, [task[h] EXCEPT !.op = "insert", !.number = Cardinality(Employed) + 1])
  /\ UNCHANGED <<staff, edited, hiring>>

Taken(n) == \E p \in People : code[p] = n

\* Mutation: the candidate is hired before the employee is inserted.
InsertLate(h) ==
  /\ task[h].op = "insert"
  /\ Go(h, [task[h] EXCEPT !.op = "hire"])
  /\ UNCHANGED <<staff, edited, hiring>>

\* ... the employee is inserted, unless the code or the address is taken (into
\* the department of the job, which nothing here reads), ...
InsertEmployee(h) ==
  LET t == task[h] IN
  /\ t.op = "insert"
  /\ IF t.person \in Employed \/ Taken(t.number)
     THEN Done(h) /\ UNCHANGED <<employee, code>>
     ELSE /\ Go(h, [t EXCEPT !.op = "hire"])
          /\ employee' = [employee EXCEPT ![t.person] = "active"]
          /\ code' = [code EXCEPT ![t.person] = t.number]
  /\ UNCHANGED <<manager, department, departments, head, account, edited, job, candidate>>

\* ... and the candidate marked, or the process ends before.
Hire(h) ==
  LET c == task[h].candidate IN
  /\ task[h].op = "hire"
  /\ \/ candidate' = IF Row(c) THEN [candidate EXCEPT ![c] = Moved(@, "hired", FALSE)]
                     ELSE candidate
     \/ candidate' = candidate
  /\ Done(h)
  /\ UNCHANGED <<staff, edited, job, code>>

HiringNext(P) ==
  \/ /\ UNCHANGED <<staff, edited>>
     /\ \/ \E j \in Jobs : CreateJob(j)
        \/ \E c \in Candidates, s \in MovedTo : MoveStage(c, s)
        \/ \E c \in Candidates : DeleteCandidate(c)
        \/ \E h \in Handlers :
             \/ \E j \in Jobs : ReadJob(h, j) \/ CountCandidates(h, j)
             \/ \E c \in Candidates, j \in Jobs, p \in P : ReadForApply(h, c, j, p)
             \/ \E c \in Candidates : ScheduleInterview(h, c)
             \/ WriteJob(h) \/ DeleteJob(h) \/ Apply(h) \/ MoveToInterview(h)
  \/ \E h \in Handlers :
       \/ \E c \in Candidates : ReadOffer(h, c)
       \/ CountEmployees(h) \/ InsertEmployee(h) \/ Hire(h)

-----------------------------------------------------------------------------
\* A candidate hired by conversion is an employee, whatever failed or was
\* going on; only moveCandidateStage hires anybody else.
HiredIsEmployed ==
  \A c \in Candidates :
    Row(c) /\ candidate[c].stage = "hired" /\ ~candidate[c].byHand =>
      candidate[c].person \in Employed

=============================================================================
