\* Two lists, three entries, any legal calls.
SPECIFICATION LoopSpec
CONSTANTS
  h1 = h1
  h2 = h2
  x1 = x1
  x2 = x2
  x3 = x3
  NULL = NULL
  Heads <- MCHeads
  Nodes <- MCNodes
INVARIANTS
  TypeOK
  Linked
  LoopsVisitAll
PROPERTIES
  LoopsEnd
