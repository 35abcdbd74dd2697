\* Every graph of four nodes with up to four edges, and every configuration.
SPECIFICATION Spec
CONSTANTS
  MaxEdges = 4
  NodeIds <- MCNodeIds
  PortsOf <- MCPortsOf
  ValidNames <- MCValidNames
  Inputs <- MCInputs
INVARIANTS
  CycleFoundIffCyclic
  PathFoundIffPath
  AcceptedFitsEngine
