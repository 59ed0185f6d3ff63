\* Three slaves, one with keys that do not match, one not allowed; sessions of a slave may overlap.
SPECIFICATION Spec
CONSTANTS
    Slaves = {s1, s2, s3}
    Conns = {c1, c2}
    None = None
    AllowedNodes = {s1, s2}
    GoodKeys = {s1, s3}
INVARIANTS
    TypeOK
    RegistryHoldsLiveSessions
    PacketsInOrder
    ConnectedNodeIsRegistered
PROPERTIES
    DeadSessionIsForgotten
