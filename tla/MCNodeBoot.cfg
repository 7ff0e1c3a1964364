CONSTANTS
    Drifts <- MCDrifts
    Omitted <- MCOmitted
    Settings <- MCSettings
    MaxFaults = 2
SPECIFICATION NodeSpec
INVARIANTS
  Idempotent
  ServedFit
  AllOrNothing
CHECK_DEADLOCK FALSE
