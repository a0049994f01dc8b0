\* A program erases the history while a wrapped line reaches into it.
\* What a program writes is bounded, and the model ends with it: no deadlock check.
SPECIFICATION Spec
CONSTANTS
  Texts <- ShortTexts
  Full <- FullText
  Height = 2
  StagingRows = 2
  Erases = TRUE
  MaxWrites = 7
INVARIANT RowsCanBeRead
CHECK_DEADLOCK FALSE
