\* A join in mode all, a fallback and an error port to another End, variables
\* and references; nobody cancels.
SPECIFICATION SymSpec
CONSTANTS
  Nodes <- ForkNodes
  Edges <- ForkEdges
  EdgeFrom <- MCEdgeFrom
  EdgeTo <- MCEdgeTo
  EdgePort <- MCPort
  Ports <- MCPorts
  DefaultPort = "default"
  ErrorPort = "error"
  NoPort = "none"
  JoinAllNodes = {"join"}
  EndNodes <- ForkEnds
  SetVarNodes <- ForkSetVar
  MaxRetries <- ForkRetries
  OnFinalFail <- ForkFail
  FallbackPort <- ForkFallback
  TimedNodes = {"a"}
  Outcomes <- ForkOutcomes
  PersistBuf = 1
  MaxFaults = 1
  MayCancel = FALSE
  Stubborn = {}
  None = None
  Keys <- ForkKeys
  TriggerKeys = {"x"}
  OutputKeys <- ForkOutputKeys
  InputRefs <- ForkInputRefs
  ConfigRefs <- ForkConfigRefs
  Lenient = FALSE
  Unset = Unset
INVARIANTS
  AttemptStory
  CausalRows
  SeesWhatFiredIt
  ReplayWithinRun
  ReplayIsRun
