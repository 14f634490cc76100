SPECIFICATION Spec
CONSTANTS
    Parents = {p1}
    Replies = {r1, r2}
    Deletes = {d1, d2}
    None = None
    MaxStops = 1
SYMMETRY Symmetry
INVARIANTS
    TypeOK
    CountAccounted
    AnnouncedOrGone
    TrueCountTold
PROPERTY ImplementsFeed
CHECK_DEADLOCK FALSE
