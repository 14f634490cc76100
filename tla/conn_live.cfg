SPECIFICATION FairSpec
CONSTANTS
    Users = {u1}
    Conns = {c1, c2}
    Channels = {ch}
    Threads = {}
    Msgs = {m1}
    VoiceUsers = {u1}
    None = None
    MaxFaults = 0
PROPERTIES
    CleanupCompletes
    BroadcastCompletes
CHECK_DEADLOCK FALSE
