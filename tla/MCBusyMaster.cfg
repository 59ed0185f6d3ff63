\* The code's times; the ttl is configured to sixteen seconds, the least that
\* two pages with slaves of eight seconds need, so that busier masters pass it.
SPECIFICATION ClockSpec
CONSTANTS
    vms = vms
    node1 = node1
    node2 = node2
    Pages <- MCPages
    Visits <- MCVisits
    Load <- MCLoad
    PageTimeout <- MCPageTimeout
    VisitTimeout = 5
    Interval = 5
    Ttl = 8
    MaxOpen = 2
    MaxQueue = 3
INVARIANTS
    PagesAnsweredInTime
    BusyMasterStaysOnline
    WaitersMatchPackets
CHECK_DEADLOCK FALSE
