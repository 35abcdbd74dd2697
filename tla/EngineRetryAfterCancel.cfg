\* A retry is dispatched after the run was found cancelled.
SPECIFICATION Spec
CONSTANTS
  Nodes <- RaceNodes
  Edges <- RaceEdges
  EdgeFrom <- MCEdgeFrom
  EdgeTo <- MCEdgeTo
  EdgePort <- MCPort
  Ports <- MCPorts
  DefaultPort = "default"
  ErrorPort = "error"
  NoPort = "none"
  JoinAllNodes = {}
  EndNodes <- RaceEnds
  SetVarNodes = {}
  MaxRetries <- RaceRetries
  OnFinalFail <- RaceFail
  FallbackPort <- RaceFallback
  TimedNodes = {}
  Outcomes <- RaceOutcomes
  PersistBuf = 1
  MaxFaults = 0
  MayCancel = TRUE
  Stubborn = {}
  None = None
PROPERTIES
  NoAttemptOnceCancelled
