\* Two peers and the console.
CONSTANTS
  p1 = p1
  p2 = p2
  NULL = NULL
  Client <- MCClient
  Request <- MCRequest
SPECIFICATION Spec
INVARIANTS
  StatusIsEarned
  RepliesToRequester
PROPERTIES
  RegistryStable
  ImplementsAtsService
  OtherThreadAnswers
