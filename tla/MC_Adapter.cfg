CONSTANTS
  p1 = p1  o1 = o1  o2 = o2  exe = exe  toolname = toolname
  r1 = r1  r2 = r2  NoneVal = NoneVal  done = done
  Path <- MC_Path
  Chars <- MC_Chars
  Idents <- MC_Idents
  PropFiles = {}
  FileLists <- MC_FileLists
  None <- NoneVal
  Exe <- exe
  ToolName <- toolname
  Runs <- MC_Runs
  OptionLists <- MC_OptionLists
  LimitArgs <- MC_LimitArgs
  ExitCodes <- MC_ExitCodes
  RESULT_DONE <- done
SPECIFICATION Spec
SYMMETRY Symmetry
\* The sweep ends when every run is done or the class cannot be instantiated.
CHECK_DEADLOCK FALSE
INVARIANT TypeOK
