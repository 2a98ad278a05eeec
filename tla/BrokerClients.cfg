SPECIFICATION ScopedSpec
CONSTANTS
  Call = {k1, k2, k3}
  Owner = {o1, o2}
  Request = {r}
  Ttl = {1}
  MaxClock = 1
  MaxFailures = 1
  Conversation = {o1, o2}
  Attempt = {k1, k2, k3}
  Auth = {"password", "agent"}
  EndpointId = {1, 2}
  EnvironmentId = {1, 2}
  MaxFaults = 1
  MaxFrames = 8
  MaxPasswordAttempts = 2
  MaxInstalls = 2
  MaxRestarts = 1
INVARIANTS
  ClientsTypeOK LeaseIsRespected InputIsFaithful ConnectedCanReconnect ConnectingIsOnce
  InstallIsTruthful NothingLeftBehind
SYMMETRY Symmetric
CHECK_DEADLOCK FALSE
