SPECIFICATION Spec
CONSTANTS
  NExp = 2
  TopK = 2
  MaxTokens = 3
  Cap = 2
  TileGu = 2
  TileDn = 1
  Routes <- MCRoutes
  Maps <- MCMaps
  Ties <- MCTies
  Settings <- MCSettings
INVARIANTS
  DispatchRight
  PathAllowed
