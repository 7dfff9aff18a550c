\* What ltr308.h says of the value returned.
SPECIFICATION Spec
PROPERTIES
  ReturnsPositiveOnValue
