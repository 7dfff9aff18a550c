\* A bus that never fails, and one where any transaction may.
SPECIFICATION Spec
PROPERTIES
  ScaleMatchesSample
  ErrorsAreReported
  StaleOnlyAfterRetries
  CallsReturn
