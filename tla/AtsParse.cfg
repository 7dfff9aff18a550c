\* Every text of up to seven characters; room for two parameters.
CONSTANTS
  Char <- MCChar
  MaxText = 7
  Names <- MCNames
  MAX_PARAM_CNT = 2
SPECIFICATION Spec
INVARIANTS
  ParsesTheLine
  ArgvFits
