SPECIFICATION Spec
CONSTANTS
    Users = {u1}
    Conns = {c1, c2}
    Channels = {}
    Threads = {}
    Msgs = {}
    VoiceUsers = {}
    None = None
    MaxFaults = 0
SYMMETRY Symmetry
INVARIANTS
    OnlineWhenConnected
CHECK_DEADLOCK FALSE
