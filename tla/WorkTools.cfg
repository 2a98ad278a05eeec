SPECIFICATION ScopedSpec
CONSTANTS
  Task = {t1, t2}
  MaxLog = 3
  MaxChars = 2
  MaxCuts = 1
  Session = {s1, s2}
  Outputs = {"denied", "uid0"}
  Inputs = {"root", "ctrl_c", "typed", "plain"}
  FramePage = 1
  MaxText = 1
  MaxShellFrames = 2
  MaxInputs = 2
  MaxTermCuts = 1
  Text = {"go", "on"}
  ToolName = {"command"}
  recent_tool_turns = 2
  auto_compact_turns = 2
  auto_compact_tool_turns = 3
  SummaryLines = 4
  MaxUserTurns = 3
  MaxResults = 5
INVARIANTS
  WorkTypeOK InventoryIsTrue OutputIsReturned NoShellDeserted AnswerIsBacked
  PromptIsWhole AnswersArePaired ArtifactIsKept
SYMMETRY Symmetric
CHECK_DEADLOCK FALSE
