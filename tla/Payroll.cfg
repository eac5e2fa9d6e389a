\* Two requests at a time on the runs of one month.
\* Runs and calculations are used up: the instance may stop.
CHECK_DEADLOCK FALSE
SPECIFICATION Spec
CONSTANTS
    ann = ann
    basic = basic
    spare = spare
    Employees = {ann}
    StructureIds = {basic, spare}
    Structures <- MCStructures
    assigned <- MCAssigned
    MonthRecords <- MCRecords
    MonthDays = 30
    Scale = 30
    RunIds = {run1, run2}
    Months = {jan}
    LopEdits = {0}
    Handlers = {h1, h2}
    MaxCalculations = 2
    NULL = NULL
    Gone = Gone
SYMMETRY MCSymmetry
INVARIANTS PayslipAddsUp TaxFollowsBrackets
PROPERTIES StatusWorkflow FrozenOnceApproved
