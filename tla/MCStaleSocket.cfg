CONSTANTS
    Servers = {s1, s2}
    Clients = {c1}
    Lines <- MCLines
    ServerVersion = 1
    NoFile = NoFile
    Stale = Stale
SPECIFICATION Spec
CHECK_DEADLOCK FALSE
INVARIANT ListenerReachable
