SPECIFICATION PFairSpec
CONSTANTS
  Invocations = {i1}
  MaxConcurrent = 1
  MaxInterrupts = 1
  ReadyPolls = 4
  LayerIds <- MCLayerIds
  VocabSize = 6
  NHeads = 1
  MaxNgram = 4
  Tp = 2
  ChunkRows = 23
  MaxShort = 1
  OldShards <- MCOldShards
  MaxCuts = 1
INVARIANTS
  BootUndisturbed
  ShardWhole
  RowsRight
  PackerAgrees
PROPERTIES
  InvocationEnds
