CONSTANTS
  NoneVal = NoneVal
  None <- NoneVal
  Chars <- MC_Chars
  WS <- MC_WS
  NL <- MC_NL
  Outputs <- MC_Outputs
  LinePrefixes <- MC_PrefixesEmpty
  ReturnCodes <- MC_ReturnCodes

SPECIFICATION Spec
INVARIANT VersionAsSpecified
