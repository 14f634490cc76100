SPECIFICATION Spec
CONSTANTS
    Parents = {p1}
    Replies = {r1}
    Deletes = {d1}
    None = None
    MaxStops = 0
INVARIANTS
    CountIsCached
CHECK_DEADLOCK FALSE
