\* Every call may fail, the ones whose errors are dropped included.
SPECIFICATION Spec
CONSTANTS
    Vms = {v1, v2}
    Disks = {d1, d2}
    None = None
INVARIANTS
    TypeOK
    MachineOwnsDisk
    MediaInStep
PROPERTIES
    RemovedMeansRemoved
    RunningIsKept
