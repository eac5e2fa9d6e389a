\* The jobs at the turn of the year, beside one request at a time; the server
\* may restart once.
\* The bounded calendar ends and requests run out: the instance may stop.
CHECK_DEADLOCK FALSE
SPECIFICATION YearSpec
CONSTANTS
    Employees = {alice, bob}
    Approvers = {bob}
    LeaveTypes = {annual}
    TypeRows <- MCTypeRows
    RequestIds = {r1}
    Handlers = {h1}
    Dates = {1, 2, 3}
    Years = {1, 2}
    YearOf <- MCYearOf
    AdminLinked = FALSE
    MaxFailures = 1
    NULL = NULL
    Gone = Gone
    MonthStarts = {2, 3}
    YearStarts = {2}
    ServerBehind = FALSE
INVARIANTS GrantLedger AccrualReachesAll
