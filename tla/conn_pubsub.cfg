SPECIFICATION Spec
CONSTANTS
    Users = {u1, u2}
    Conns = {c1, c2}
    Channels = {ch}
    Threads = {}
    Msgs = {m1, m2}
    VoiceUsers = {}
    None = None
    MaxFaults = 0
SYMMETRY Symmetry
INVARIANTS
    AckHonoured
    PrivateMail
PROPERTIES
    PublisherOrder
    ImplementsPubSub
CHECK_DEADLOCK FALSE
