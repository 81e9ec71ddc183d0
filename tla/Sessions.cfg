SPECIFICATION Spec
CONSTANTS
  Ids = {i}
  Browsers = {b}
  Requests = {q, r}
  None = None
  Clear = Clear
  Slow = 1
  Grace = 2
  RotateAfter = 3
  AdminIdle = 3
  Idle = 4
  AdminAbsolute = 4
  Absolute = 5
  MaxTokens = 3
  Horizon = 6
SYMMETRY Symmetric
INVARIANTS OldTokensStayDead RotationKeepsBrowser CsrfFollowsToken
PROPERTIES RotationsSpaced OvertakenRequestSurvives
CHECK_DEADLOCK FALSE
