CONSTANTS
  Ids <- MCIds
  Added <- MCAdded
  Text <- MCText
  Pipe = "P"
  Hide = "hidden"
  Think = "T"
  ThinkEnd = "E"
  Eos = "EOS"
  Marker <- MCMarker
  Dsml = "M"
  Rules <- MCRules
  Start = "begin"
  Terminated = "over"
  Scenarios <- MCScenarios
SPECIFICATION RequestSpec
INVARIANTS
  PromptFaithful
  OutputFaithful
  StopRight
  GrammarRight
CHECK_DEADLOCK FALSE
