\* Two requests at a time, the statistics and the 23:55 job, one employee.
\* The clock ends with the day: the instance may stop.
CHECK_DEADLOCK FALSE
SPECIFICATION Spec
CONSTANTS
    ann = ann
    bob = bob
    Employees = {ann}
    shiftStart <- MCShiftStart
    Instants <- MCRequestInstants
    Stamps <- MCStamps
    ManualEntries <- MCEntries
    ApprovedLeave = {}
    RequestedLeave = {}
    Changing = {ann}
    Handlers = {h1, h2}
    Cron = Cron
    Scheduler = Scheduler
    NULL = NULL
SYMMETRY MCSymmetry
INVARIANTS WorkMatchesTimes LateMatchesCheckIn
PROPERTIES RecordedTimesStand
