SPECIFICATION FairSpec
CONSTANTS
    Caller = {c1}
    Calls <- AllCalls
    ExitCode = {zero, nonzero}
    Handle = {h1, h2}
    Runtime = rt
    MaxFaults = 1
    MaxCrashes = 1
INVARIANTS RecordIsHonest RegisteredIsAttended
PROPERTY DeadIsUnregistered
CHECK_DEADLOCK FALSE
