SPECIFICATION Spec
CONSTANTS
  Gates <- MCGates
  Tasks <- MCTasks
  Workers <- MCWorkers
  GateOf <- MCGateOf
  Closers <- MCGates
  CloseOf <- Itself
  Waiters <- MCGates
  WaitOf <- Itself
  MaxMatches = 2
INVARIANTS JoinedAfterCompletion SuccessMeansQuiescent
PROPERTIES ClosedGateDrains GracefulShutdownSucceeds
CHECK_DEADLOCK FALSE
