--------------------------- MODULE PayrollAmounts ---------------------------
(***************************************************************************)
(* The arithmetic of backend/src/payroll/payroll.service.ts.               *)
(*                                                                         *)
(* Columns hold paise.  What a calculation derives from them is computed   *)
(* in units, Scale of which make a paisa, and a division drops what is     *)
(* less than a unit; Paise rounds to two decimals where the code calls     *)
(* toFixed(2).  If Scale is a multiple of 384000000 nothing is ever        *)
(* dropped, whatever the salaries, the rates and the minutes are (lemma    *)
(* NothingDropped of Payroll_proofs).                                      *)
(***************************************************************************)
EXTENDS Integers, FiniteSets

CONSTANT Scale

\* Half a paisa, a twelfth of a rupee and a thirtieth of a paisa are whole units.
ASSUME ScaleAssumption == Scale \in Nat \ {0} /\ Scale % 30 = 0

Lesser(a, b) == IF a < b THEN a ELSE b
Greater(a, b) == IF a < b THEN b ELSE a

\* toFixed(2): the nearest paisa, halves away from zero.
Paise(u) == IF u >= 0 THEN (u + Scale \div 2) \div Scale
            ELSE -((Scale \div 2 - u) \div Scale)

Rupees(n) == n * 100 * Scale

\* A twelfth of n rupees a year.
Monthly(n) == n * 25 * (Scale \div 3)

\* In paise, as the columns of a structure are.
BasicAndDa(s) == s.basic + s.da

BaseGross(s) == BasicAndDa(s) + s.hra + s.allowances

\* 160 hours a month; overtimeRate is kept in hundredths.
OvertimePay(s, minutes) ==
    ((BasicAndDa(s) * Scale) \div (60 * 160 * 100)) * minutes * s.overtimeRate

\* A thirtieth of the salary for each day.
LopDeduction(salary, days) == ((salary * Scale) \div 30) * days

ProfessionalTax(gross) ==
    CASE gross > Rupees(75000) -> 1095
      [] gross > Rupees(60000) /\ gross <= Rupees(75000) -> 760
      [] gross > Rupees(45000) /\ gross <= Rupees(60000) -> 510
      [] gross > Rupees(30000) /\ gross <= Rupees(45000) -> 235
      [] gross > Rupees(21000) /\ gross <= Rupees(30000) -> 100
      [] OTHER -> 0

\* Income and tax are a twelfth of the annual ones the code writes.
TaxableIncome(gross) == Greater(0, gross - Monthly(75000))

\* The slabs above the first 300000 rupees, and their rates in twentieths.
Slabs == <<[width |-> Monthly(400000), rate |-> 1], [width |-> Monthly(300000), rate |-> 2],
           [width |-> Monthly(200000), rate |-> 3], [width |-> Monthly(300000), rate |-> 4]>>

Levy(amount, rate) == (rate * amount) \div 20

\* Mutation: a slab is taxed but not taken from what remains.
FillUnreduced(acc, slab) ==
    [tax |-> acc.tax + Levy(Lesser(acc.remaining, slab.width), slab.rate),
     remaining |-> acc.remaining]

Fill(acc, slab) ==
    LET part == Lesser(acc.remaining, slab.width)
    IN  [tax |-> acc.tax + Levy(part, slab.rate), remaining |-> acc.remaining - part]

\* Nothing is due up to 700000 rupees a year; above, the slabs are filled one
\* after the other.
Tds(taxable) ==
    LET start == [tax |-> 0, remaining |-> taxable - Monthly(300000)]
        filled == Fill(Fill(Fill(Fill(start, Slabs[1]), Slabs[2]), Slabs[3]), Slabs[4])
    IN  IF taxable <= Monthly(700000) THEN 0 ELSE filled.tax + Levy(filled.remaining, 6)

\* calculateDeductions
Deductions(gross, s) ==
    [pf |-> 3 * ((BasicAndDa(s) * Scale) \div 25),
     esi |-> IF gross <= Rupees(21000) THEN (3 * gross) \div 400 ELSE 0,
     pt |-> Rupees(ProfessionalTax(gross)),
     tds |-> Tds(TaxableIncome(gross))]

TotalOf(d) == d.pf + d.esi + d.pt + d.tds

\* The days of the leaves that fall into a month of n days; a day of two
\* leaves counts twice.
LeaveDays(leaves, n) ==
    Cardinality({x \in leaves \X (1..n) : x[1].from <= x[2] /\ x[2] <= x[1].to})

\* Absent days less the days of approved leave, whichever days those are.
LopDays(record, n) ==
    Greater(0, Cardinality(record.absent) - LeaveDays(record.leaves, n))

\* The deductions column as it is stored.
Parts(lop, d) == [lop |-> Paise(lop), pf |-> Paise(d.pf), esi |-> Paise(d.esi),
                  pt |-> Paise(d.pt), tds |-> Paise(d.tds)]

\* One turn of the loop of calculatePayrollEntries: everything is derived
\* from the gross as computed, which is rounded when it is stored.
Calculated(s, record, n) ==
    LET gross == BaseGross(s) * Scale + OvertimePay(s, record.overtime)
        days == LopDays(record, n)
        lop == LopDeduction(BaseGross(s), days)
        d == Deductions(gross, s)
        total == lop + TotalOf(d)
    IN  [grossSalary |-> Paise(gross), lopDays |-> days, lopDeduction |-> Paise(lop),
         totalDeductions |-> Paise(total),
         netSalary |-> Paise(gross - total), deductions |-> Parts(lop, d)]

\* Mutation: an edit keeps the itemised deductions as they were calculated.
EditedItemsKept(entry, s, days) ==
    LET gross == entry.grossSalary * Scale
        lop == LopDeduction(entry.grossSalary, days)
        total == lop + TotalOf(Deductions(gross, s))
    IN  [entry EXCEPT !.lopDays = days, !.lopDeduction = Paise(lop),
                      !.totalDeductions = Paise(total),
                      !.netSalary = Paise(gross - total)]

\* updatePayrollEntry: everything is derived from the stored gross; the lop
\* rate is now a thirtieth of it, the overtime included, and the structure is
\* the one the employee has today.
Edited(entry, s, days) ==
    LET gross == entry.grossSalary * Scale
        lop == LopDeduction(entry.grossSalary, days)
        d == Deductions(gross, s)
        total == lop + TotalOf(d)
    IN  [entry EXCEPT !.lopDays = days, !.lopDeduction = Paise(lop),
                      !.totalDeductions = Paise(total),
                      !.netSalary = Paise(gross - total),
                      !.deductions = Parts(lop, d)]
=============================================================================
