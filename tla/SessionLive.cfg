SPECIFICATION FairSpec
CONSTANTS
    Regions = {1}
    MaxGeneration = 2
    OutboundCapacity = 3
    ControlReserve = 1
    MaxSerial = 2
    Tokens = {1}
    EventCapacity = 2
    ControlCapacity = 2
    SocketCapacity = 2
    HostEventCapacity = 2
    MaxSwitches = 1
    MaxInputs = 0
    MaxPings = 0
    DeviceMayFail = FALSE
    MayExpire = FALSE
    MaxFrame = 2
    MayLogOut = TRUE
    MayCrash = FALSE
    MayTimeOut = FALSE
PROPERTIES
    FrameSlotIsFreed
    RedrawIsPresented
    LogoutEndsSession
    WorkerKeepsHelperSpec
