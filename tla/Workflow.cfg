\* Three requests at a time on one approval, one of which may fail half way.
\* A decided approval leaves nothing to do: the instance may stop.
CHECK_DEADLOCK FALSE
SPECIFICATION Spec
CONSTANTS
    ann = ann
    bo = bo
    Entities = {leave1}
    Employees = {ann, bo}
    Chains <- MCChains
    Handlers = {h1, h2, h3}
    MaxFailures = 1
    NULL = NULL
SYMMETRY MCSymmetry
INVARIANTS StepsInOrder FullyApproved WaitsAtFirstOpenStep
PROPERTY KeepsPromise
