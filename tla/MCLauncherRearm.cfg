SPECIFICATION FairSpec
CONSTANTS
  Invocations = {i1}
  MaxConcurrent = 1
  MaxInterrupts = 1
  ReadyPolls = 5
PROPERTIES RearmedOnceHealthy
