SPECIFICATION PanelSpec
CONSTANTS
    Parents = {p1}
    Replies = {r1}
    None = None
    Limit = 1
    QueueSize = 1
    Doomed = {}
    MaxActs = 2
INVARIANTS
    ShowsEveryReply
CHECK_DEADLOCK FALSE
