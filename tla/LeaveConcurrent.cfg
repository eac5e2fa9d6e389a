\* Two requests at a time, one of which may fail between two statements.
\* The bounded calendar ends and requests run out: the instance may stop.
CHECK_DEADLOCK FALSE
SPECIFICATION Spec
CONSTANTS
    Employees = {alice, bob}
    Approvers = {bob}
    LeaveTypes = {annual}
    TypeRows <- MCTypeRows
    RequestIds = {r1, r2}
    Handlers = {h1, h2}
    Dates = {1, 2}
    Years = {1, 2}
    YearOf <- MCNewYear
    AdminLinked = TRUE
    MaxFailures = 1
    NULL = NULL
    Gone = Gone
SYMMETRY MCSymmetry
INVARIANTS BalanceConservation BalanceBehindRequest PendingNeverOverstated UsedCoversApproved
PROPERTY NoReturnToPending
