\* A shell that marks no output start: markers in any order, forged ones too.
\* The bound on blocks ends a run, so it may stop: no deadlock check.
SPECIFICATION Spec
CONSTANTS
  Markers = "PromptCommandLineAndExitCode"
  Emitted <- Forged
  Rows <- ThreeRows
  MaxBlocks = 3
INVARIANT EchoIsOneRow
PROPERTY ImplementsBlocks
CHECK_DEADLOCK FALSE
