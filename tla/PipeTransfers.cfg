SPECIFICATION FairSpec
CONSTANTS
  q1 = q1
  q2 = q2
  q3 = q3
  Requests = {q1, q2, q3}
  NumInterfaces = 2
  Settings = {0, 1}
  Endpoints = {"in", "out", "iso"}
  PipesOf <- MCPipesOf
  Operations <- MCOperations
  Silent = {"in"}
  NoRequest = NoRequest
  NoOperation = NoOperation
  NoPipe = NoPipe
  Faults <- MCFaults
INVARIANTS
  TypeOK
  OneOwner
  PipeStaysInUse
  PipesFollowDevice
PROPERTIES
  RequestsEnd
  DrainEnds
CHECK_DEADLOCK FALSE
