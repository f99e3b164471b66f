SPECIFICATION WorkerFairSpec
CONSTANTS
    Regions = {1}
    MaxGeneration = 2
    OutboundCapacity = 2
    ControlReserve = 1
    MaxSerial = 1
    Tokens = {1}
    EventCapacity = 2
    ControlCapacity = 2
    SocketCapacity = 1
    HostEventCapacity = 2
    MaxSwitches = 1
    MaxInputs = 0
    MaxPings = 1
    DeviceMayFail = TRUE
    MayExpire = TRUE
    MaxFrame = 1
    MayLogOut = TRUE
    MayCrash = TRUE
    MayTimeOut = TRUE
PROPERTIES
    ReleaseNeverWaitsForCore
    HeartbeatIsAnswered
    NobodyIsLeftBehind
