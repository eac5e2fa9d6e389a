\* One request at a time and no failure: the exact ledger.
\* The bounded calendar ends and requests run out: the instance may stop.
CHECK_DEADLOCK FALSE
SPECIFICATION Spec
CONSTANTS
    Employees = {alice, bob}
    Approvers = {bob}
    LeaveTypes = {annual}
    TypeRows <- MCActiveRow
    RequestIds = {r1, r2, r3}
    Handlers = {h1}
    Dates = {1, 2, 3}
    Years = {1, 2}
    YearOf <- MCYearOf
    AdminLinked = TRUE
    MaxFailures = 0
    NULL = NULL
    Gone = Gone
SYMMETRY MCSymmetry
INVARIANTS PendingExact UsedExact NoOverlap
PROPERTY DecisionFinal
