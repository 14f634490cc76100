SPECIFICATION PanelSpec
CONSTANTS
    Parents = {p1, p2}
    Replies = {r1}
    None = None
    Limit = 1
    QueueSize = 1
    Doomed = {p1}
    MaxActs = 4
SYMMETRY Symmetry
INVARIANTS
    PanelTypeOK
    ShownOnce
CHECK_DEADLOCK FALSE
