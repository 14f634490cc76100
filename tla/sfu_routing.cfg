SPECIFICATION Spec
CONSTANTS
    Users = {u1, u2, u3}
    Handlers = {h1, h2}
    Polls = {p1}
    None = None
    MaxRounds = 2
    MaxOffers = 3
SYMMETRY Symmetry
INVARIANTS
    TypeOK
    Reached
    RoutersUnique
    WatchersAgree
    PollsFindTracks
CHECK_DEADLOCK FALSE
