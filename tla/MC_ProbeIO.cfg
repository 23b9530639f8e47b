CONSTANTS
  Programs <- MC_Programs
  Cap <- MC_Cap
SPECIFICATION Spec
\* A tool that hangs stalls communicate() for good; the call also ends.
CHECK_DEADLOCK FALSE
INVARIANT TypeOK
INVARIANT CapturedAll
INVARIANT NeverStuck
PROPERTY ReturnsUnlessHung
PROPERTY AbsSpec
