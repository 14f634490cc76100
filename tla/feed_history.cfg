SPECIFICATION Spec
CONSTANTS
    MaxMsgs = 3
    First = 2
    PageSize = 2
    Requests = {r1, r2}
    Failing = {r1, r2}
    Loads = {l1, l2}
    Olders = {o1}
SYMMETRY Symmetry
INVARIANT OlderPagesAreOlder
CHECK_DEADLOCK FALSE
