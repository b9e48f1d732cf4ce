SPECIFICATION FairServer
CONSTANTS
    HttpReq = {h1, h2}
    DrainReq = {d1, d2}
    Nobody = Nobody
    CacheTTL = 1
    ProxyTimeout = 1
    DrainSeconds = 3
    ShutdownTimeout = 2
    ServerFaults = {"db", "node", "start", "bind"}
INVARIANTS
    CachedAnswerAge
    RawTxsHaveRequest
    NodeCallsAnswered
    ServesWhileDraining
    DrainSeen
    ShutdownBounded
    RecordNotDropped
CHECK_DEADLOCK FALSE
PROPERTIES
    SignalEndsProcess
    RecordsSaved
