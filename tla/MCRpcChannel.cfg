CONSTANTS
    Servers = {s1, s2}
    Clients = {c1, c2}
    Lines <- MCLines
    ServerVersion = 1
    NoFile = NoFile
    Stale = Stale
SPECIFICATION Spec
CHECK_DEADLOCK FALSE
INVARIANTS EnvelopeVersionExact ClientResultExplained
PROPERTIES ClientCompletes NoWriteAfterReturn
