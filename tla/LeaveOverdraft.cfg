\* Two requests in turn for the last days of one balance.
\* The bounded calendar ends and requests run out: the instance may stop.
CHECK_DEADLOCK FALSE
SPECIFICATION Spec
CONSTANTS
    Employees = {alice, bob}
    Approvers = {bob}
    LeaveTypes = {annual}
    TypeRows <- MCActiveRow
    RequestIds = {r1, r2}
    Handlers = {h1}
    Dates = {1, 2, 3}
    Years = {1, 2}
    YearOf <- MCYearOf
    AdminLinked = FALSE
    MaxFailures = 0
    NULL = NULL
    Gone = Gone
INVARIANT NoOverdraft
