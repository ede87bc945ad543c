SPECIFICATION Spec
CONSTANTS
    Client = {c1}
    Carrier = {"NOT_FOUND", "UP", "UNREADABLE"}
    NodeState = {"OPERATIONAL", "STOPPED", "UNKNOWN"}
    QueueLen = 2
    CounterMod = 4
    MaxConnects = 2
    MaxNews = 2
    BaseTpdos = 1
    Tpdos = 2
INVARIANTS
    TypeOK
    LostMeansUnknown
    HeartbeatKnown
PROPERTY BusStateSettles
