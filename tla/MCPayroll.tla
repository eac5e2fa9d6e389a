----------------------------- MODULE MCPayroll -----------------------------
(* Small instances of Payroll for TLC. *)
EXTENDS Payroll, TLC

CONSTANTS ann, basic, spare

\* In paise.  One salary below every threshold, whose social insurance ends in
\* half a paisa, and one in the highest tax bracket, whose overtime ends in
\* half a paisa too.
MCLow == [basic |-> 800000, da |-> 0, hra |-> 400475, allowances |-> 0,
          overtimeRate |-> 150]
MCHigh == [basic |-> 6432000, da |-> 1600000, hra |-> 6000000, allowances |-> 0,
           overtimeRate |-> 125]
MCStructures == {MCLow, MCHigh}

MCAssigned == [e \in {ann} |-> basic]

\* Overtime, and one absence of two on leave, which began before the month.
MCRecords ==
    {[absent |-> {1, 3}, overtime |-> 321, leaves |-> {[from |-> 0, to |-> 1]}]}

MCSymmetry == Permutations(Handlers) \cup Permutations(RunIds)
=============================================================================
