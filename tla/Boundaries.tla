----------------------------- MODULE Boundaries -----------------------------
(***************************************************************************)
(* The rules of the command-block boundary tracker                         *)
(* (policies/boundary_tracker.rs): from the identified lines and OSC 133   *)
(* markers of the terminal it concludes the region each line fell in and   *)
(* where command blocks start and end.                                     *)
(*                                                                         *)
(* What one item concludes is a record: the tracker after it, and whether  *)
(* integration was announced, and the blocks started and ended.  An item   *)
(* that says several of these says them in that order: a synthesized start *)
(* comes first of all, but only once integration has been announced.       *)
(***************************************************************************)
EXTENDS Naturals, FiniteSets

CONSTANTS Markers,     \* which markers the shell declares: see ShellMarkers
          Rows         \* the identities of the terminal's lines

ShellMarkers  == {"Full", "PromptAndCommandLine", "PromptCommandLineAndExitCode"}
Osc133Markers == {"PromptStart", "CommandStart", "OutputStart", "CommandEnd"}
Regions       == {"Unstructured", "Prompt", "CommandLine", "Output"}
NoRow         == 0

ASSUME MarkersAssumption == Markers \in ShellMarkers
ASSUME RowsAssumption    == Rows \subseteq Nat \ {NoRow}

marks_output_start == Markers = "Full"

Tracker == [region : Regions, markersSeen : BOOLEAN,
            promptRow : Rows \cup {NoRow}, commandLineRow : Rows \cup {NoRow},
            blockOpen : BOOLEAN]

NewTracker == [region |-> "Unstructured", markersSeen |-> FALSE,
               promptRow |-> NoRow, commandLineRow |-> NoRow, blockOpen |-> FALSE]

Conclusion == [tracker : Tracker, announced : BOOLEAN, started : {0, 1}, ended : {0, 1}]

Concluded(t) ==
    [tracker |-> t, announced |-> FALSE, started |-> 0, ended |-> 0]

-----------------------------------------------------------------------------
(* The steps of observe, each from what was concluded so far.              *)

\* Supplies the C that a shell with no output marker cannot send.
end_command_line(so) ==
    IF marks_output_start \/ so.tracker.region # "CommandLine"
    THEN so
    ELSE [so EXCEPT !.tracker.commandLineRow = NoRow,
                    !.tracker.region = "Output",
                    !.tracker.blockOpen = TRUE,
                    !.started = 1]

\* Fault: the row of the command line is not remembered.
observe_rowForgets(t, row) ==
    IF t.region = "Prompt"
    THEN Concluded([t EXCEPT !.promptRow = row])
    ELSE IF marks_output_start \/ t.region # "CommandLine"
            \/ t.commandLineRow \in {NoRow, row}
    THEN Concluded(t)
    ELSE end_command_line(Concluded(t))

\* Which row a line is on, and whether that ends the command line.
observe_row(t, row) ==
    IF t.region = "Prompt"
    THEN Concluded([t EXCEPT !.promptRow = row])
    ELSE IF marks_output_start \/ t.region # "CommandLine"
    THEN Concluded(t)
    ELSE IF t.commandLineRow = NoRow
    THEN Concluded([t EXCEPT !.commandLineRow = row])
    ELSE IF t.commandLineRow = row
    THEN Concluded(t)
    ELSE end_command_line(Concluded(t))

\* Fault: the block is said to have ended and left open.
end_open_blockOnly(so) == IF so.tracker.blockOpen THEN [so EXCEPT !.ended = 1] ELSE so

end_open_block(so) ==
    IF so.tracker.blockOpen
    THEN [so EXCEPT !.tracker.blockOpen = FALSE, !.ended = 1]
    ELSE so

\* The shell is drawing a prompt: the row it falls on is not known yet.
AtPrompt(so) == [so EXCEPT !.tracker.region = "Prompt", !.tracker.promptRow = NoRow]

\* The shell is echoing a line, on this row if it is known.
AtCommandLine(so, row) ==
    [so EXCEPT !.tracker.region = "CommandLine", !.tracker.commandLineRow = row]

\* The arms of observe_marker.  Fault: the returning prompt closes the block
\* whatever the shell declares.
PromptStartAlike(so) == AtPrompt(end_open_block(so))

\* Fault: the previous prompt's row is carried into the next prompt.
PromptStartCarries(so) ==
    [(IF marks_output_start THEN end_open_block(so) ELSE so)
     EXCEPT !.tracker.region = "Prompt"]

PromptStart(so) == AtPrompt(IF marks_output_start THEN end_open_block(so) ELSE so)

CommandStart(so) == AtCommandLine(end_open_block(so), so.tracker.promptRow)

\* A second C does not split the block.
OutputStart(so) ==
    [so EXCEPT !.tracker.commandLineRow = NoRow,
               !.tracker.region = "Output",
               !.tracker.blockOpen = TRUE,
               !.started = IF so.tracker.blockOpen THEN @ ELSE 1]

\* D with no open block is ignored outright.
CommandEnd(so) ==
    IF so.tracker.blockOpen
    THEN [end_open_block(so) EXCEPT !.tracker.region = "Unstructured"]
    ELSE so

observe_marker(so, marker) ==
    LET seen == [so EXCEPT !.announced = ~so.tracker.markersSeen,
                           !.tracker.markersSeen = TRUE]
    IN  CASE marker = "PromptStart"  -> PromptStart(seen)
          [] marker = "CommandStart" -> CommandStart(seen)
          [] marker = "OutputStart"  -> OutputStart(seen)
          [] marker = "CommandEnd"   -> CommandEnd(seen)
=============================================================================
