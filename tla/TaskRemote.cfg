CONSTANTS
    Task = {td, th, tp}
    LocalDetached = {td}
    SshDetached = {th}
    ShLauncher = {th}
    Caller = {c1, c2}
    EarlyCancel = {th}
    NetFaults = TRUE
    MaxStarts = 1
    MaxCrashes = 1
SPECIFICATION Spec
CHECK_DEADLOCK FALSE
INVARIANTS
    OutcomeIsStatus
    
