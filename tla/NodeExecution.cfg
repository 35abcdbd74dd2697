\* Nodes of every type from their first attempt to the port they fire.
SPECIFICATION Spec
CONSTANTS
  Width = 6
  Precision = 3
  Within <- MCWithin
  Begins <- MCBegins
  Expansions <- MCExpansions
  Inputs <- MCInputs
  PortsOf <- MCPortsOf
  Executors <- MCExecutors
  MaxBackoffDelay = 600
  MaxBackoffShift = 8
  DurationWidth = 12
CHECK_DEADLOCK FALSE
INVARIANTS
  FiresDeclaredPort
  BackoffBounded
PROPERTIES
  SwitchIsChainOfIfs
  ComparesNumbers
