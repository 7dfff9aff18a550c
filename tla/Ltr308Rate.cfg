\* What ltr308.h says of the measurement period.
SPECIFICATION Spec
INVARIANTS
  DataEvery100ms
