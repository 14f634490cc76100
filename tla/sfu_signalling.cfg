SPECIFICATION FairSpec
CONSTANTS
    Channels = {a, b}
    Shares = {s1}
    None = None
    MaxOffers = 4
INVARIANTS
    AnswersMatch
PROPERTIES
    ClientOfferSettles
    ServerOfferSettles
CHECK_DEADLOCK FALSE
