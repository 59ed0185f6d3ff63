\* Two masters of a cluster, one slave that may move between them, sessions of a
\* master that overlap; the third connection is what an overlap needs.
SPECIFICATION Spec
CONSTANTS
    Masters = {m1, m2}
    Nodes = {n1}
    Conns = {c1, c2, c3}
    Pages = {p1}
    None = None
    MaxFaults = 2
INVARIANTS
    TypeOK
    TableHoldsOpenSessions
    ConnectedMasterIsReachable
PROPERTIES
    SoleOwnerIsReached
    StoreConverges
