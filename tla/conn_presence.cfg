SPECIFICATION Spec
CONSTANTS
    Users = {u1}
    Conns = {c1, c2, c3}
    Channels = {ch}
    Threads = {th}
    Msgs = {}
    VoiceUsers = {}
    None = None
    MaxFaults = 1
SYMMETRY Symmetry
INVARIANTS
    TypeOK
    IndexesAgree
    OfflineWhenGone
CHECK_DEADLOCK FALSE
