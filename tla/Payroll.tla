------------------------------ MODULE Payroll ------------------------------
(***************************************************************************)
(* Payroll runs, their entries and salary structures:                      *)
(* backend/src/payroll/payroll.service.ts.                                 *)
(*                                                                         *)
(* As in Leave a handler is split at its awaits.  Every guard on the       *)
(* status of a run is a read of its own, before the statement that writes. *)
(* Each operation writes with one statement or one $transaction, so one    *)
(* that fails leaves nothing behind and is the handler that never goes on. *)
(* The month is over: its attendance and leave no longer change.           *)
(***************************************************************************)
EXTENDS PayrollAmounts

CONSTANTS
    Employees,
    StructureIds,    \* ids of salary_structures rows
    Structures,      \* what a structure may say
    assigned,        \* the structure of each employee, set in the database
    MonthRecords,    \* what attendance and leave may hold for a month
    MonthDays,       \* days of the month
    RunIds,          \* ids of payroll_runs rows (bounds the runs created)
    Months,          \* (month, year) pairs
    LopEdits,        \* lopDays an edit of an entry may ask for
    Handlers,        \* HTTP requests served at the same time
    MaxCalculations, \* bounds the calculations of one run
    NULL, Gone       \* no row; a deleted row

Structure == [basic : Nat, da : Nat, hra : Nat, allowances : Nat,
              overtimeRate : Nat]

\* Leave ends on the day it begins or later.
MonthRecord == [absent : SUBSET (1..MonthDays), overtime : Nat,
                leaves : SUBSET {l \in [from : Int, to : Int] : l.from <= l.to}]

RunStatuses == {"draft", "approved", "processed"}

\* approvedBy is not kept: the controller passes req.user.id, which the
\* session guard never sets, so the column is never written.
Run == [month : Months, status : RunStatuses]

Entry == [grossSalary : Nat, lopDays : Nat, lopDeduction : Nat,
          totalDeductions : Nat, netSalary : Int,
          deductions : [lop : Nat, pf : Nat, esi : Nat, pt : Nat, tds : Nat]]

ASSUME PayrollAssumption ==
    /\ Structures \subseteq Structure
    /\ MonthDays \in Nat
    /\ MonthRecords \subseteq MonthRecord
    /\ \A m \in MonthRecords : IsFiniteSet(m.leaves)
    /\ assigned \in [Employees -> StructureIds \cup {NULL}]
    /\ LopEdits \subseteq Nat
    /\ MaxCalculations \in Nat
    /\ NULL # Gone /\ NULL \notin StructureIds
    /\ \A no \in {NULL, Gone} : no \notin Structures /\ no \notin Run

VARIABLES
    structure, employed, record,
    run,         \* payroll_runs
    entries,     \* the entries of a run, by employee
    version,     \* how often the entries of a run were replaced: their ids
    pc, loc,
    overlapped   \* history: runs two handlers worked on at the same time

vars == <<structure, employed, record, run, entries, version, pc, loc,
          overlapped>>
staff == <<structure, employed, record>>
payroll == <<run, entries, version>>

NoEntries == [e \in {} |-> NULL]

IsRow(row) == row \notin {NULL, Gone}

-----------------------------------------------------------------------------
Goto(h, label) == pc' = [pc EXCEPT ![h] = label]

Finish(h) == /\ Goto(h, "idle")
             /\ loc' = [loc EXCEPT ![h] = NULL]

Busy(h) == pc[h] # "idle"

\* Handler h begins to work on run r.
Begin(h, r, label, locals) ==
    /\ ~Busy(h)
    /\ Goto(h, label)
    /\ loc' = [loc EXCEPT ![h] = locals]
    /\ overlapped' = IF \E g \in Handlers : Busy(g) /\ loc[g].run = r
                     THEN overlapped \cup {r}
                     ELSE overlapped
    /\ UNCHANGED <<staff, payroll>>

-----------------------------------------------------------------------------
(* createPayrollRun *)

InMonth(m) == {r \in RunIds : IsRow(run[r]) /\ run[r].month = m}

ReadForCreate(h, r, m) ==
    /\ run[r] = NULL /\ \A g \in Handlers : Busy(g) => loc[g].run # r
    /\ InMonth(m) = {}
    /\ Begin(h, r, "create", [run |-> r, month |-> m])

\* payroll_runs is unique on (month, year): the later of two inserts fails.
CommitCreate(h) ==
    LET m == loc[h].month
    IN  /\ pc[h] = "create"
        /\ run' = IF InMonth(m) # {} THEN run
                  ELSE [run EXCEPT ![loc[h].run] =
                            [month |-> m, status |-> "draft"]]
        /\ Finish(h)
        /\ UNCHANGED <<staff, entries, version, overlapped>>

-----------------------------------------------------------------------------
(* calculatePayrollEntries *)

ReadForCalculate(h, r) ==
    /\ IsRow(run[r]) /\ run[r].status = "draft"
    /\ version[r] < MaxCalculations
    /\ Begin(h, r, "employees", [run |-> r])

\* The active employees that have a structure, with the structure as it is
\* at this moment.
Compute(h) ==
    LET paid == {e \in Employees : employed[e] /\ assigned[e] # NULL}
    IN  /\ pc[h] = "employees"
        /\ loc' = [loc EXCEPT ![h] =
                [run |-> loc[h].run,
                 entries |-> [e \in paid |-> Calculated(structure[assigned[e]],
                                                        record[e], MonthDays)]]]
        /\ Goto(h, "replace")
        /\ UNCHANGED <<staff, payroll, overlapped>>

\* The $transaction: all entries are deleted and the computed ones created.
\* Creating entries of a deleted run fails on the foreign key, creating none
\* does not.  The status is not looked at again.
Replace(h) ==
    LET r == loc[h].run
    IN  /\ pc[h] = "replace"
        /\ \/ /\ IsRow(run[r])
              /\ entries' = [entries EXCEPT ![r] = loc[h].entries]
              /\ version' = [version EXCEPT ![r] = @ + 1]
           \/ ~IsRow(run[r]) /\ UNCHANGED <<entries, version>>
        /\ Finish(h)
        /\ UNCHANGED <<staff, run, overlapped>>

-----------------------------------------------------------------------------
(* approvePayrollRun, processPayrollRun, deletePayrollRun *)

ReadForApprove(h, r) ==
    /\ IsRow(run[r]) /\ run[r].status = "draft"
    /\ entries[r] # NoEntries
    /\ Begin(h, r, "approve", [run |-> r])

\* Mutation: a draft may be processed.
ReadForProcessDraft(h, r) ==
    /\ IsRow(run[r]) /\ run[r].status # "processed"
    /\ Begin(h, r, "process", [run |-> r])

ReadForProcess(h, r) ==
    /\ IsRow(run[r]) /\ run[r].status = "approved"
    /\ Begin(h, r, "process", [run |-> r])

ReadForDelete(h, r) ==
    /\ IsRow(run[r]) /\ run[r].status # "processed"
    /\ Begin(h, r, "delete", [run |-> r])

\* An update of a row that is gone throws.
SetStatus(h, label, status) ==
    LET r == loc[h].run
    IN  /\ pc[h] = label
        /\ run' = IF IsRow(run[r]) THEN [run EXCEPT ![r].status = status]
                                   ELSE run
        /\ Finish(h)
        /\ UNCHANGED <<staff, entries, version, overlapped>>

Approve(h) == SetStatus(h, "approve", "approved")

Process(h) == SetStatus(h, "process", "processed")

\* The entries go with their run.
Delete(h) ==
    LET r == loc[h].run
    IN  /\ pc[h] = "delete"
        /\ run' = [run EXCEPT ![r] = Gone]
        /\ entries' = [entries EXCEPT ![r] = NoEntries]
        /\ version' = [version EXCEPT ![r] = 0]
        /\ Finish(h)
        /\ UNCHANGED <<staff, overlapped>>

-----------------------------------------------------------------------------
(* updatePayrollEntry *)

\* Mutation: entries of an approved run may be edited.
ReadForEditApproved(h, r, e, days) ==
    /\ IsRow(run[r]) /\ run[r].status # "processed"
    /\ e \in DOMAIN entries[r]
    /\ Begin(h, r, "employee",
             [run |-> r, employee |-> e, entry |-> entries[r][e],
              version |-> version[r], days |-> days])

\* The entry and, with it, its run; no lopDays given keeps the old ones.
ReadForEdit(h, r, e, days) ==
    /\ IsRow(run[r]) /\ run[r].status = "draft"
    /\ e \in DOMAIN entries[r]
    /\ Begin(h, r, "employee",
             [run |-> r, employee |-> e, entry |-> entries[r][e],
              version |-> version[r], days |-> days])

EditAmounts(h) ==
    LET l == loc[h]
    IN  /\ pc[h] = "employee"
        /\ loc' = [loc EXCEPT ![h].entry =
                      Edited(@, structure[assigned[l.employee]], l.days)]
        /\ Goto(h, "save")
        /\ UNCHANGED <<staff, payroll, overlapped>>

\* An entry that a calculation replaced meanwhile is not found.
SaveEntry(h) ==
    LET l == loc[h]
        found == l.employee \in DOMAIN entries[l.run] /\ version[l.run] = l.version
    IN  /\ pc[h] = "save"
        /\ entries' = IF found
                      THEN [entries EXCEPT ![l.run][l.employee] = l.entry]
                      ELSE entries
        /\ Finish(h)
        /\ UNCHANGED <<staff, run, version, overlapped>>

-----------------------------------------------------------------------------
(* Salary structures, and an employee who leaves. *)

CreateSalaryStructure(s, what) ==
    /\ structure[s] = NULL
    /\ structure' = [structure EXCEPT ![s] = what]
    /\ UNCHANGED <<employed, record, payroll, pc, loc, overlapped>>

UpdateSalaryStructure(s, what) ==
    /\ IsRow(structure[s])
    /\ structure' = [structure EXCEPT ![s] = what]
    /\ UNCHANGED <<employed, record, payroll, pc, loc, overlapped>>

DeleteSalaryStructure(s) ==
    /\ IsRow(structure[s])
    /\ \A e \in Employees : assigned[e] # s
    /\ structure' = [structure EXCEPT ![s] = Gone]
    /\ UNCHANGED <<employed, record, payroll, pc, loc, overlapped>>

Terminate(e) ==
    /\ employed[e]
    /\ employed' = [employed EXCEPT ![e] = FALSE]
    /\ UNCHANGED <<structure, record, payroll, pc, loc, overlapped>>

Init ==
    /\ structure \in [StructureIds -> Structures \cup {NULL}]
    /\ \A e \in Employees : assigned[e] # NULL => structure[assigned[e]] # NULL
    /\ employed = [e \in Employees |-> TRUE]
    /\ record \in [Employees -> MonthRecords]
    /\ run = [r \in RunIds |-> NULL]
    /\ entries = [r \in RunIds |-> NoEntries]
    /\ version = [r \in RunIds |-> 0]
    /\ pc = [h \in Handlers |-> "idle"]
    /\ loc = [h \in Handlers |-> NULL]
    /\ overlapped = {}

Begins(h, r) ==
    \/ \E m \in Months : ReadForCreate(h, r, m)
    \/ ReadForCalculate(h, r) \/ ReadForApprove(h, r)
    \/ ReadForProcess(h, r) \/ ReadForDelete(h, r)
    \/ \E e \in DOMAIN entries[r] :
          \E days \in LopEdits \cup {entries[r][e].lopDays} :
              ReadForEdit(h, r, e, days)

HandlerStep(h) ==
    \/ CommitCreate(h) \/ Compute(h) \/ Replace(h) \/ Approve(h) \/ Process(h)
    \/ Delete(h) \/ EditAmounts(h) \/ SaveEntry(h)

StructureStep(s) ==
    \/ \E what \in Structures :
          CreateSalaryStructure(s, what) \/ UpdateSalaryStructure(s, what)
    \/ DeleteSalaryStructure(s)

Next ==
    \/ \E h \in Handlers : HandlerStep(h) \/ \E r \in RunIds : Begins(h, r)
    \/ \E s \in StructureIds : StructureStep(s)
    \/ \E e \in Employees : Terminate(e)

Spec == Init /\ [][Next]_vars
-----------------------------------------------------------------------------
(* Properties. *)

AllEntries ==
    UNION {{entries[r][e] : e \in DOMAIN entries[r]} : r \in RunIds}

\* Rows are well formed, only stored runs have entries, and an employee whose
\* structure is used has one.
TypeOK ==
    /\ structure \in [StructureIds -> Structures \cup {NULL, Gone}]
    /\ \A e \in Employees : assigned[e] # NULL => IsRow(structure[assigned[e]])
    /\ run \in [RunIds -> Run \cup {NULL, Gone}]
    /\ \A r \in RunIds : /\ DOMAIN entries[r] \subseteq Employees
                         /\ entries[r] # NoEntries => IsRow(run[r])
    /\ AllEntries \subseteq Entry
    /\ \A h \in Handlers : Busy(h) => loc[h].run \in RunIds

Sum(parts) == parts.lop + parts.pf + parts.esi + parts.pt + parts.tds

\* Each column is rounded by itself, yet a payslip adds up: net is gross less
\* total to the paisa, and the five items sum to the total within the half
\* paisa each may be off, after any sequence of calculations and edits with
\* changing structures.
PayslipAddsUp ==
    \A entry \in AllEntries :
        /\ entry.netSalary - (entry.grossSalary - entry.totalDeductions) \in -1..1
        /\ entry.totalDeductions - Sum(entry.deductions) \in -3..3
        /\ entry.deductions.lop = entry.lopDeduction

\* The monthly tax on a gross salary by brackets: what lies within a bracket
\* at the rate of the bracket, in twentieths.
TaxByBrackets(gross) ==
    LET taxable == TaxableIncome(gross)
        Within(from, to) == Greater(0, Lesser(taxable, Monthly(to)) - Monthly(from))
    IN  IF taxable <= Monthly(700000) THEN 0
        ELSE Levy(Within(300000, 700000), 1) + Levy(Within(700000, 1000000), 2)
               + Levy(Within(1000000, 1200000), 3) + Levy(Within(1200000, 1500000), 4)
               + Levy(Greater(0, taxable - Monthly(1500000)), 6)

\* The tax withheld follows the brackets of the comment in
\* calculateDeductions, whether the entry was calculated or edited since.  It
\* is computed before the gross is rounded: the stored gross gives the same tax
\* to the paisa, and where the rebate ends it or the next paisa does.
TaxFollowsBrackets ==
    \A entry \in AllEntries : \E gross \in entry.grossSalary .. entry.grossSalary + 1 :
        entry.deductions.tds - Paise(TaxByBrackets(gross * Scale)) \in -1..1

\* A run goes from draft to approved to processed.  Even requests that
\* overlap can only undo the last step, and only they can delete what was
\* processed.
StatusWorkflow ==
    [][\A r \in RunIds :
          (IsRow(run[r]) /\ run'[r] # run[r]) =>
              IF run'[r] = Gone
              THEN run[r].status # "processed" \/ r \in overlapped
              ELSE \/ run[r].status = "draft" /\ run'[r].status = "approved"
                   \/ run[r].status = "approved" /\ run'[r].status = "processed"
                   \/ /\ r \in overlapped
                      /\ run[r].status = "processed"
                      /\ run'[r].status = "approved"]_vars

\* What was approved is what is paid: without overlap the entries of a run
\* that is no longer a draft do not change while the run exists.
FrozenOnceApproved ==
    [][\A r \in RunIds \ overlapped' :
          (IsRow(run[r]) /\ run[r].status # "draft" /\ run'[r] # Gone) =>
              entries'[r] = entries[r]]_vars

=============================================================================
