\* Two Ends race; the caller may cancel, one database call may fail, and the
\* executor of b ends only with its context.
SPECIFICATION FairSpec
CONSTANTS
  Nodes <- RaceNodes
  Edges <- RaceEdges
  EdgeFrom <- MCEdgeFrom
  EdgeTo <- MCEdgeTo
  EdgePort <- MCPort
  Ports <- MCPorts
  DefaultPort = "default"
  ErrorPort = "error"
  NoPort = "none"
  JoinAllNodes = {}
  EndNodes <- RaceEnds
  SetVarNodes = {}
  MaxRetries <- RaceRetries
  OnFinalFail <- RaceFail
  FallbackPort <- RaceFallback
  TimedNodes = {"a"}
  Outcomes <- RaceOutcomes
  PersistBuf = 2
  MaxFaults = 1
  MayCancel = TRUE
  Stubborn = {"b"}
  None = None
INVARIANTS
  TypeOK
  CountersExact
  HistoryComplete
  SuccessHasItsEnd
  NoRefusedWrite
  NothingLeftBehind
PROPERTIES
  NothingStartsOnceDecided
  ImplementsHistory
  Terminates
  EndLeadsToSuccess
