\* A slave whose session has ended.
SPECIFICATION Spec
CONSTANTS
    Slaves = {s1}
    Conns = {c1, c2}
    None = None
    AllowedNodes = {}
    GoodKeys = {s1}
PROPERTIES
    LostSlaveIsRestarted
