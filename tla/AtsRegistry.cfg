\* The registry on three modules.
CONSTANTS
  m1 = m1
  m2 = m2
  m3 = m3
  a = a
  b = b
  c = c
  d = d
  f = f
  g = g
  NULL = NULL
  Module <- MCModule
  Name <- MCName
  Callback <- MCCallback
  Cmds <- MCCmds
  ApiCmd <- MCApiCmd
SPECIFICATION FairSpec
INVARIANTS
  TypeOK
  UniqueNames
PROPERTIES
  InitCompletes
  DeInitCompletes
  LoopsReturn
  ImplementsCmdTable
