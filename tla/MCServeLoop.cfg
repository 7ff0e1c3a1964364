CONSTANTS
  p = p
  q = q
  Requests <- MCRequests
  Prompt <- MCPrompt
  MaxNew = 3
  MaxPreempts = 1
  Drafts = 1
  Window = 2
  DecodeRows = 2
  LongTokens = 5
  Configs <- MCConfigs
  Zero = Zero
SPECIFICATION FairSpec
INVARIANTS
  LogitsReal
  CachesRight
  PlansFit
  FloorHeld
  HandoverReleased
PROPERTIES
  Answered
CHECK_DEADLOCK FALSE
