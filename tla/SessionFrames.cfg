SPECIFICATION Spec
CONSTANTS
    Regions = {1, 2}
    MaxGeneration = 3
    OutboundCapacity = 3
    ControlReserve = 1
    MaxSerial = 2
    Tokens = {1}
    EventCapacity = 2
    ControlCapacity = 2
    SocketCapacity = 2
    HostEventCapacity = 2
    MaxSwitches = 2
    MaxInputs = 2
    MaxPings = 0
    DeviceMayFail = FALSE
    MayExpire = FALSE
    MaxFrame = 2
    MayLogOut = FALSE
    MayCrash = FALSE
    MayTimeOut = FALSE
INVARIANTS
    CompletedFrameIsVisible
    ClientObeysProtocol
    LifecycleIsInStep
    FrameBookkeepingAgrees
PROPERTIES
    HelperObeysProtocol
    WritesOnlyOwnConsole
