SPECIFICATION MCSpec
CONSTANTS
    MaxWindows = 2
    DesktopCommands = {"nixinfo"}
    LauncherCommands = {}
    QueueCapacity = 8
    RequestCapacity = 2
    PumpLimit = 12
    MaxInfoWindows = 1
    Keys = {"FK10"}
    Buttons = {"left", "right"}
    CaptureCapacity = 1
    Themes = {TRUE}
INVARIANT ReleaseReachesClient
CHECK_DEADLOCK FALSE
