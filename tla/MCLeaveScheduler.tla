-------------------------- MODULE MCLeaveScheduler --------------------------
(* Small instances of LeaveScheduler for TLC. *)
EXTENDS LeaveScheduler

\* One day of leave accrues a month; at most eleven are carried forward.
MCTypeRows ==
    {[annualLimit |-> 12, isActive |-> TRUE, carryForwardAllowed |-> TRUE,
      maxCarryForward |-> 11]}

\* The last day of a year, and the first days of two months of the next.
MCYearOf == [d \in 1..3 |-> IF d = 1 THEN 1 ELSE 2]

=============================================================================
