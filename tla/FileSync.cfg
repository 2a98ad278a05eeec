SPECIFICATION BoundedSpec
CONSTANTS
  Path = {x, y}
  Ignored = {}
  Content = {a, b}
  Lf = a
  Crlf = b
  Translated <- MCTranslated
  Large = {}
  Edits <- MCEdits
  Worker = {w1, w2}
  MaxCalls = 3
  MaxChanges = 1
  MaxFailures = 1
  MaxTogether = 4
INVARIANTS ApprovedIsApplied WritesAreGuarded DriftHasCause
SYMMETRY Symmetric
CHECK_DEADLOCK FALSE
