CONSTANTS
  a = a
  Calls <- MCCalls
  PromptTokens = 1
  Budget = 2
  MaxErrors = 2
  MaxCalls = 2
  MaxAttempts = 2
SPECIFICATION FairSpec
INVARIANTS
  RowsExact
  BudgetHard
  DetectorExact
PROPERTIES
  InvocationEnds
CHECK_DEADLOCK FALSE
