\* Both jobs beside one request at a time, two employees.
\* The clock ends with the day: the instance may stop.
CHECK_DEADLOCK FALSE
SPECIFICATION Spec
CONSTANTS
    ann = ann
    bob = bob
    Employees = {ann, bob}
    shiftStart <- MCShiftStart
    Instants <- MCJobInstants
    Stamps = {}
    ManualEntries = {}
    ApprovedLeave = {}
    RequestedLeave <- MCRequested
    Changing = {ann}
    Handlers = {h1}
    Cron = Cron
    Scheduler = Scheduler
    NULL = NULL
INVARIANTS StatusMatchesTimes EveryoneRecorded
