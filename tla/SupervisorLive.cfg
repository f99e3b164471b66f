SPECIFICATION FairSpec
CONSTANTS
    ConsoleParts = {"mode"}
    Launches <- TermRun
    MaxKills = 0
PROPERTIES
    SignalledLauncherEnds
    OrphanedWorkerEnds
CHECK_DEADLOCK FALSE
