SPECIFICATION Spec
CONSTANTS
    ConsoleParts = {"mode"}
    Launches <- SmallLaunches
    MaxKills = 1
INVARIANTS
    TakenConsoleHasRecord
    ConsoleHasOneHand
    SuccessMeansSettled
PROPERTIES
    RecordOutlivesSession
    DirectoryOutlivesCore
CHECK_DEADLOCK FALSE
