SPECIFICATION Spec
CONSTANTS
  BlockSize = 4
  Alignment = 8
  Window = 8
  Drafts = 1
  Retention = 16
  Configs <- MCConfigs
  MaxEvictions = 1
  MaxTurns = 2
INVARIANTS
  WindowHeld
  CachedComputed
  HitsFound
  HeldWithinReservation
  DecoderReadsGood
