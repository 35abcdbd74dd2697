\* A skipped branch, a retried one, and a join in mode any.
SPECIFICATION Spec
CONSTANTS
  Nodes <- BranchNodes
  Edges <- BranchEdges
  EdgeFrom <- MCEdgeFrom
  EdgeTo <- MCEdgeTo
  EdgePort <- MCPort
  Ports <- MCPorts
  DefaultPort = "default"
  ErrorPort = "error"
  NoPort = "none"
  JoinAllNodes = {}
  EndNodes <- BranchEnds
  SetVarNodes = {}
  MaxRetries <- BranchRetries
  OnFinalFail <- BranchFail
  FallbackPort <- BranchFallback
  TimedNodes = {}
  Outcomes <- BranchOutcomes
  PersistBuf = 1
  MaxFaults = 1
  MayCancel = TRUE
  Stubborn = {}
  None = None
INVARIANTS
  OneAttemptAtATime
  NoLostWakeup
  NoEndMeansAllSkipped
  EngineInv
PROPERTIES
  EdgesResolveOnce
