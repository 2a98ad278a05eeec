CONSTANTS
    Task = {td, tp}
    LocalDetached = {td}
    SshDetached = {}
    ShLauncher = {}
    Caller = {c1}
    EarlyCancel = {}
    NetFaults = FALSE
    MaxStarts = 2
    MaxCrashes = 1
SPECIFICATION FairSpec
CHECK_DEADLOCK FALSE
INVARIANTS
    OutcomeIsReal
    LostIsHonest
    
PROPERTIES
    ExitIsRecorded
    RefinesLifecycle
