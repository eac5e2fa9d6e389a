------------------------------ MODULE MCLeave ------------------------------
(* Small instances of Leave for TLC. *)
EXTENDS Leave, TLC

\* Two leave days a year, so that two short requests meet at the limit.
MCTypeRows ==
    {[annualLimit |-> 2, isActive |-> on, carryForwardAllowed |-> TRUE,
      maxCarryForward |-> 0] : on \in BOOLEAN}

MCActiveRow ==
    {[annualLimit |-> 2, isActive |-> TRUE, carryForwardAllowed |-> TRUE,
      maxCarryForward |-> 0]}

\* Three days; the third begins a new year.
MCYearOf == [d \in 1..3 |-> IF d < 3 THEN 1 ELSE 2]

\* Two days, in two years.
MCNewYear == [d \in 1..2 |-> d]

MCSymmetry == Permutations(RequestIds) \cup Permutations(Handlers)
=============================================================================
