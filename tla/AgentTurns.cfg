\* One conversation of two turns with two different calls, one opening a terminal.
SPECIFICATION Spec
CONSTANTS
    Calls = {open, other}
    TerminalOpens = {open}
    RunCommands = {other}
    NoCall = NoCall
    max_iterations = 4
    max_consecutive_tool_errors = 2
    repeated_action_limit = 3
    Configs <- AllConfigs
    MaxTurns = 2
INVARIANTS NoRepetition Consent TurnIsHonest
PROPERTIES LegalTransitions TurnEnds
CHECK_DEADLOCK FALSE
