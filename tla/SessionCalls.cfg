SPECIFICATION Spec
CONSTANTS
    Caller = {c1, c2}
    Calls <- WriterAndEnders
    ExitCode = {zero}
    Handle = {h1, h2}
    Runtime = rt
    MaxFaults = 0
    MaxCrashes = 0
SYMMETRY Handles
INVARIANTS RecordIsHonest RegisteredIsAttended
CHECK_DEADLOCK FALSE
