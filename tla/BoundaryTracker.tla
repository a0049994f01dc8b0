-------------------------- MODULE BoundaryTracker --------------------------
(***************************************************************************)
(* One session's boundary tracker: the rules of Boundaries over any stream *)
(* of lines and markers, the blocks it reports being those of Blocks.      *)
(***************************************************************************)
EXTENDS Boundaries

CONSTANTS Emitted,     \* the markers that arrive, forged ones included
          MaxBlocks    \* bound: the blocks of a session

ASSUME EmittedAssumption == Emitted \subseteq Osc133Markers
ASSUME BlocksAssumption  == MaxBlocks \in Nat

VARIABLES tracker,
          starts,      \* history: the blocks it has started
          ends,        \* and ended
          label,       \* history: the region of the last line, None for a marker
          echo,        \* history: the rows labelled CommandLine since the last marker
          behind       \* history: what stood behind the command line's B

vars == <<tracker, starts, ends, label, echo, behind>>

Conclude(so) ==
    /\ tracker' = so.tracker
    /\ starts' = starts + so.started
    /\ ends' = ends + so.ended

Line(row) ==
    LET so == observe_row(tracker, row)
    IN  /\ starts < MaxBlocks
        /\ Conclude(so)
        /\ label' = so.tracker.region
        /\ echo' = IF so.tracker.region = "CommandLine" THEN echo \cup {row} ELSE echo
        /\ behind' = IF tracker.region = "Prompt" THEN "Drawn" ELSE behind

Marker(marker) ==
    /\ starts < MaxBlocks
    /\ Conclude(observe_marker(end_command_line(Concluded(tracker)), marker))
    /\ label' = "None"
    /\ echo' = {}
    /\ behind' = CASE marker = "PromptStart" -> "Marked"
                   [] marker = "CommandStart" /\ tracker.region # "Prompt" -> "None"
                   [] OTHER -> behind

Init ==
    /\ tracker = NewTracker
    /\ starts = 0 /\ ends = 0
    /\ label = "None"
    /\ echo = {}
    /\ behind = "None"

Next == \/ \E row \in Rows : Line(row)
        \/ \E marker \in Emitted : Marker(marker)

Spec == Init /\ [][Next]_vars

-----------------------------------------------------------------------------
(* Properties.                                                             *)

\* Every variable has its type.
TypeOK ==
    /\ tracker \in Tracker
    /\ starts \in Nat /\ ends \in Nat
    /\ label \in Regions \cup {"None"}
    /\ echo \subseteq Rows
    /\ behind \in {"None", "Marked", "Drawn"}

\* "block_open and region == Output are not the same fact ... For a Full shell
\* they remain equivalent": in any shell output is in a block and a command
\* line is not, and only a prompt may be on either side.
BlockFollowsTheRegion ==
    /\ tracker.region = "Output" => tracker.blockOpen
    /\ tracker.blockOpen => tracker.region \in {"Output", "Prompt"}
    /\ marks_output_start => (tracker.blockOpen <=> tracker.region = "Output")

\* Blocks open and close by turns, and a block starts only once integration
\* has been announced: the session the pump is written against.
B == INSTANCE Blocks WITH announced <- tracker.markersSeen

ImplementsBlocks == B!Spec

\* In a shell that marks no output the command line is one row, the row its
\* prompt was drawn on when there is one: whatever else is drawn is output, so
\* no output is mistaken for the echo and dropped.
EchoIsOneRow ==
    ~marks_output_start =>
        /\ Cardinality(echo) <= 1
        /\ tracker.promptRow # NoRow => echo \subseteq {tracker.promptRow}

\* Where no output is marked, the prompt that follows a command line is drawn
\* inside the block of the command that just ended: "the returning prompt is
\* the only ending such a listener gets".
PromptIsInTheBlock ==
    [][/\ ~marks_output_start
       /\ tracker.region \in {"CommandLine", "Output"}
       /\ tracker'.region = "Prompt"
       => tracker'.blockOpen]_vars

\* A line that is the first after B, with a prompt behind it that drew nothing.
FirstRow ==
    /\ tracker.region = "CommandLine" /\ echo = {}
    /\ behind = "Marked"
    /\ label' # "None"

\* Such a row claims the region: the row of the prompt before is "forgotten
\* rather than carried".
EmptyPromptIsForgotten == [][FirstRow => label' = "CommandLine"]_vars
=============================================================================
