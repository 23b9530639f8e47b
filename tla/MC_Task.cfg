CONSTANTS
  p1 = p1  p2 = p2  pf = pf  k1 = k1  k2 = k2  v1 = v1  v2 = v2
  d1 = d1  d2 = d2  d3 = d3  c1 = c1  c2 = c2  c3 = c3  c4 = c4  c5 = c5
  NoneVal = NoneVal
  None <- NoneVal
  Path <- MC_Path
  Chars <- MC_Chars
  Idents <- MC_Idents
  PropFiles <- MC_PropFiles
  FileLists <- MC_FileLists
  OptKey <- MC_OptKey
  OptVal <- MC_OptVal
  DAddr <- MC_DAddr
  CAddr <- MC_CAddr
  MaxTasks <- MC_MaxTasks

SPECIFICATION Spec
SYMMETRY Symmetry
INVARIANT TypeOK
INVARIANT Isolated
PROPERTY TaskFrozen
