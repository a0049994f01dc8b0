\* A line that wraps: its caret is counted from the column it wrapped at.
\* The session's keys are bounded, and the model ends with them: no deadlock check.
SPECIFICATION Spec
CONSTANTS
  Markers = "Full"
  Rows = {1, 2, 3, 4, 5, 6, 7, 8, 9}
  Tokens = {"a", " ", "$", "l", "o", "^C"}
  Punctuation = {" ", "$", "^C"}
  Keys = {"a", " ", "Left", "Backspace", "Up", "Tab", "Enter", "CtrlC"}
  Recalled <- RecalledLine
  Pasted <- PastedText
  Width = 3
  Patient = TRUE
  MaxLine = 3
  MaxPresses = 7
INVARIANT FieldHoldsTheLine
CHECK_DEADLOCK FALSE
