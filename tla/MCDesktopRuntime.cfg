SPECIFICATION MCSpec
CONSTANTS
    MaxWindows = 2
    DesktopCommands = {"nixinfo"}
    LauncherCommands = {"pins"}
    QueueCapacity = 8
    RequestCapacity = 2
    PumpLimit = 12
    MaxInfoWindows = 1
    Keys = {"FK10"}
    Buttons = {"left", "right"}
    CaptureCapacity = 1
    Themes = {FALSE, TRUE}
INVARIANT OwnersAgree
INVARIANT InputHasOneOwner
INVARIANT HandlersKeepUp
PROPERTY FocusIsFollowed
CHECK_DEADLOCK FALSE
