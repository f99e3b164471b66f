SPECIFICATION PartsSpec
CONSTANTS
    StartupGrace = 4
    PingInterval = 2
    PongTimeout = 3
    MaxTime = 14
    MaxWait = 8
    MaxToken = 2
    Slack = 1
    KeyMap <- MCKeyMap
    ControlKeys <- MCControlKeys
    PointerButtons = {"left"}
    Widths = {2, 5}
    Deltas <- MCDeltas
    Gains = {100, 130, 250}
    Slots = {s1, s2, s3}
    None = None
    Clients = {c1}
    Buttons = {left}
    MaxFrames = 0
    Programs = {"p1"}
    Sources = {"s1", "s2"}
    XWindows = {"x1", "x2"}
    Pieces <- MCPieces
    MaxPieces = 2
    MaxXEvents = 1
    Nothing = Nothing
    Toplevels = {s1, s2, s3}
    Surfaces = {u1, u2}
    MaxWindows = 2
    MaxWaiting = 2
    NoId = NoId
    Looks = {"a", "b", "bare"}
    Bare = {"bare"}
    MaxStates = 3
    MaxRepaints = 1
    NoAtlas = NoAtlas
    Tops = {"m1", "m2"}
    Commands = {"find", "launch"}
    LauncherCommands = {"launch"}
    MaxMenus = 1
    MaxItems = 1
    NoWindow = NoWindow
SYMMETRY SlotSymmetry
INVARIANTS
    PongReadInTimeWins
    HangIsNoticed
    CoreHoldsWhatIsDown
    NeitherDeviceStarves
    SurfacesFitTogether
    FocusIsTold
    SelectionHasOwner
    ShellShowsX11
    FramesFollowDesktop
    MenusAreTheClients
PROPERTIES
    NoMotionIsLost
CHECK_DEADLOCK FALSE
