\* The words of old products.
SPECIFICATION Spec
CONSTANTS
  c1 = c1
  c2 = c2
  Client = {c1}
  Request <- MCLegacy
  NULL = NULL
INVARIANTS
  LegacyWritesSucceed
