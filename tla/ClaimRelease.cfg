SPECIFICATION Spec
CONSTANTS
    Regions = {1}
    MaxGeneration = 2
    OutboundCapacity = 3
    ControlReserve = 1
    MaxSerial = 1
    Tokens = {1}
    EventCapacity = 2
    ControlCapacity = 2
    SocketCapacity = 2
    HostEventCapacity = 2
    MaxSwitches = 1
    MaxInputs = 0
    MaxPings = 0
    DeviceMayFail = FALSE
    MayExpire = FALSE
    MaxFrame = 1
    MayLogOut = FALSE
    MayCrash = FALSE
    MayTimeOut = FALSE
PROPERTIES
    ReleaseIsAcknowledged
