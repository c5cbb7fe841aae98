CONSTANTS
  Chars <- MCChars
  Mark <- MCMark
  Header <- MCHeader
  MaxPods = 2
  MaxLog = 7
SPECIFICATION Spec
INVARIANTS PanicsExactly ReadsEnclosed
PROPERTIES AnswersAreStable
CHECK_DEADLOCK FALSE
