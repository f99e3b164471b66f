SPECIFICATION HelperSpec
CONSTANTS
    r1 = r1
    r2 = r2
    Regions <- MCRegions
    MaxGeneration = 2
    OutboundCapacity = 3
    ControlReserve = 1
    MaxSerial = 2
    Tokens = {1}
SYMMETRY MCSymmetry
INVARIANTS
    RetainedFrameIsOnScreen
    FullReplacementAfterAcquire
    NoStaleInputQueued
PROPERTIES
    ImplementsConsoleDisplay
    ControlsAreKept
CHECK_DEADLOCK FALSE
