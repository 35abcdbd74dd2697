\* A branch that lost the race returns an output that does not marshal.
SPECIFICATION Spec
CONSTANTS
  Nodes <- RaceNodes
  Edges <- RaceEdges
  EdgeFrom <- MCEdgeFrom
  EdgeTo <- MCEdgeTo
  EdgePort <- MCPort
  Ports <- MCPorts
  DefaultPort = "default"
  ErrorPort = "error"
  NoPort = "none"
  JoinAllNodes = {}
  EndNodes <- RaceEnds
  SetVarNodes = {}
  MaxRetries <- RaceRetries
  OnFinalFail <- RaceFail
  FallbackPort <- RaceFallback
  TimedNodes = {}
  Outcomes <- RaceBadOutcomes
  PersistBuf = 1
  MaxFaults = 0
  MayCancel = FALSE
  Stubborn = {}
  None = None
INVARIANTS
  EndMeansSuccess
