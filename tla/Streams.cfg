SPECIFICATION OneClientSpec
CONSTANTS
    Emitter = {e1, e2}
    EventClient = {ce}
    FrameClient = {cf}
    Kind = {session, other}
    SessionKind = session
    Wants <- WantsSession
    Limits = {0, 2}
    Page = 1
    MaxEvents = 3
    MaxFrames = 2
    MaxBreaks = 1
INVARIANT StreamsAreFaithful
PROPERTIES EventsArrive FramesArrive
CHECK_DEADLOCK FALSE
