\* The code's times; the slowest command takes from one second to longer
\* than every timer.
SPECIFICATION Spec
CONSTANTS
    HeartbeatTimeout = 5
    HeartbeatInterval = 10
    CommandTimeout = 10
    SampleTime = 3
    MaxCommandTime = 11
    MaxQueue = 4
INVARIANTS
    TypeOK
    HealthySlaveIsServed
    CallersMatchPackets
