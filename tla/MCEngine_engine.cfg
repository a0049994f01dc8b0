\* What a program writes is bounded, and the model ends with it: no deadlock check.
SPECIFICATION Spec
CONSTANTS
  Texts <- ShortTexts
  Full <- FullText
  Height = 3
  StagingRows = 2
  Erases = FALSE
  MaxWrites = 6
INVARIANTS LinesAreInScreenOrder ScreenIsRead LiveLinesAreOnTheScreen
PROPERTY PromisedLines
CHECK_DEADLOCK FALSE
