\* Two fixes, so that a latitude could meet the longitude of another one.
SPECIFICATION Spec
CONSTANTS
  f1 = f1
  f2 = f2
  NoFix = NoFix
  Fixes <- MCFixes
  CutLengths = {1, 10, 11}
INVARIANTS
  RealUnlessCut
  DataIsComplete
  DocumentedFixIsTaken
PROPERTIES
  ReadEnds
