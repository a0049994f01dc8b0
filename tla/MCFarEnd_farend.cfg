\* A user who waits for the answer to each key.
\* The session's keys are bounded, and the model ends with them: no deadlock check.
SPECIFICATION Spec
CONSTANTS
  Markers = "Full"
  Rows = {1, 2, 3, 4, 5, 6, 7, 8, 9}
  Tokens = {"a", " ", "$", "l", "o", "^C"}
  Punctuation = {" ", "$", "^C"}
  Keys = {"a", " ", "Left", "Backspace", "Up", "Tab", "Enter", "CtrlC"}
  Recalled <- RecalledLine
  Pasted <- PastedText
  Width = 6
  Patient = TRUE
  MaxLine = 3
  MaxPresses = 7
INVARIANTS FieldHoldsTheLine HeadedByWhatRan CommandRowsStayInTheField PrintedRowsReachTheTranscript
CHECK_DEADLOCK FALSE
