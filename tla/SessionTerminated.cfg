SPECIFICATION Spec
CONSTANTS
    Caller = {c1}
    Calls <- AllCalls
    ExitCode = {zero, nonzero}
    Handle = {h1, h2}
    Runtime = rt
    MaxFaults = 1
    MaxCrashes = 0
INVARIANT TerminatedHasEnded
CHECK_DEADLOCK FALSE
