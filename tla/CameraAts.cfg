\* Both threads, one command of each kind, two peers, restarts.
SPECIFICATION Spec
CONSTANTS
  c1 = c1
  c2 = c2
  Client = {c1, c2}
  Request <- MCRequest
  NULL = NULL
INVARIANTS
  EveryRowIsReached
  VerdictIsEarned
  RepliesToRequester
  MacsAgree
  TfTestTruthful
