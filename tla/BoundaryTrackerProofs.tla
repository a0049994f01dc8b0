------------------------ MODULE BoundaryTrackerProofs ------------------------
(***************************************************************************)
(* The tracker's region and block flag agree, what it reports is a session *)
(* of Blocks, and the echo of a command line is one row: for every kind of *)
(* shell, whatever markers arrive, on any set of rows.                     *)
(***************************************************************************)
EXTENDS BoundaryTracker, FiniteSetTheorems, TLAPS

\* Blocks are counted as they open and close, and nothing is marked before the
\* first marker.
CountsAgree ==
    /\ starts = ends + (IF tracker.blockOpen THEN 1 ELSE 0)
    /\ tracker.region # "Unstructured" => tracker.markersSeen

\* Where the rows of the echo are while the command line lasts.
EchoHolds ==
    ~marks_output_start =>
        /\ \E row \in Rows \cup {NoRow} : echo \subseteq {row}
        /\ tracker.region = "Prompt" => echo = {}
        /\ tracker.region = "CommandLine" =>
              /\ echo \subseteq {tracker.commandLineRow}
              /\ tracker.promptRow # NoRow => tracker.commandLineRow = tracker.promptRow
        /\ tracker.promptRow # NoRow => echo \subseteq {tracker.promptRow}

\* After a prompt that drew nothing, no row is remembered as the prompt's.
EmptyPromptHolds ==
    /\ behind = "Marked" => tracker.promptRow = NoRow
    /\ /\ behind = "Marked" /\ tracker.region = "CommandLine"
       /\ echo = {} \/ marks_output_start
       => tracker.commandLineRow = NoRow

IInv == TypeOK /\ BlockFollowsTheRegion /\ CountsAgree /\ EchoHolds /\ EmptyPromptHolds

-----------------------------------------------------------------------------
\* Every definition one item's conclusion is made of.
USE DEF NoRow, Regions, Concluded

LEMMA InitHolds == Init => IInv
  BY DEF Init, IInv, TypeOK, BlockFollowsTheRegion, CountsAgree, EchoHolds,
         EmptyPromptHolds, NewTracker, Tracker

\* The arms of observe, field by field.
LEMMA EndCommandLineIs ==
  ASSUME NEW so \in Conclusion, NEW r, r = end_command_line(so),
         ~marks_output_start, so.tracker.region = "CommandLine"
  PROVE  /\ r \in Conclusion
         /\ r.tracker.region = "Output" /\ r.tracker.blockOpen
         /\ r.tracker.commandLineRow = NoRow
         /\ r.tracker.promptRow = so.tracker.promptRow
         /\ r.tracker.markersSeen = so.tracker.markersSeen
         /\ r.started = 1 /\ r.ended = so.ended
  BY DEF end_command_line, Conclusion, Tracker

LEMMA EndOpenBlockIs ==
  ASSUME NEW so \in Conclusion, so.ended = 0, NEW r, r = end_open_block(so)
  PROVE  /\ r \in Conclusion
         /\ ~r.tracker.blockOpen
         /\ r.tracker.region = so.tracker.region
         /\ r.tracker.promptRow = so.tracker.promptRow
         /\ r.tracker.commandLineRow = so.tracker.commandLineRow
         /\ r.tracker.markersSeen = so.tracker.markersSeen
         /\ r.started = so.started
         /\ r.ended = IF so.tracker.blockOpen THEN 1 ELSE 0
<1>1. CASE so.tracker.blockOpen
  BY <1>1 DEF end_open_block, Conclusion, Tracker
<1>2. CASE ~so.tracker.blockOpen
  BY <1>2 DEF end_open_block, Conclusion, Tracker
<1> QED
  BY <1>1, <1>2

\* A tracker moved to a region, one of its rows set.
LEMMA AtPromptIs ==
  ASSUME NEW e \in Conclusion, NEW r, r = AtPrompt(e)
  PROVE  /\ r \in Conclusion
         /\ r.tracker.region = "Prompt"
         /\ r.tracker.promptRow = NoRow
         /\ r.tracker.commandLineRow = e.tracker.commandLineRow
         /\ r.tracker.markersSeen = e.tracker.markersSeen
         /\ r.tracker.blockOpen = e.tracker.blockOpen
         /\ r.started = e.started /\ r.ended = e.ended
<1>1. r \in Conclusion
  BY DEF AtPrompt, Conclusion, Tracker
<1>2. /\ r.tracker.region = "Prompt"
      /\ r.tracker.promptRow = NoRow
      /\ r.tracker.commandLineRow = e.tracker.commandLineRow
      /\ r.tracker.markersSeen = e.tracker.markersSeen
      /\ r.tracker.blockOpen = e.tracker.blockOpen
      /\ r.started = e.started /\ r.ended = e.ended
  BY DEF AtPrompt, Conclusion, Tracker
<1> QED
  BY <1>1, <1>2

LEMMA AtCommandLineIs ==
  ASSUME NEW e \in Conclusion, NEW row \in Rows \cup {NoRow}, NEW r,
         r = AtCommandLine(e, row)
  PROVE  /\ r \in Conclusion
         /\ r.tracker.region = "CommandLine"
         /\ r.tracker.commandLineRow = row
         /\ r.tracker.promptRow = e.tracker.promptRow
         /\ r.tracker.markersSeen = e.tracker.markersSeen
         /\ r.tracker.blockOpen = e.tracker.blockOpen
         /\ r.started = e.started /\ r.ended = e.ended
<1>1. r \in Conclusion
  BY DEF AtCommandLine, Conclusion, Tracker
<1>2. /\ r.tracker.region = "CommandLine"
      /\ r.tracker.commandLineRow = row
      /\ r.tracker.promptRow = e.tracker.promptRow
      /\ r.tracker.markersSeen = e.tracker.markersSeen
      /\ r.tracker.blockOpen = e.tracker.blockOpen
      /\ r.started = e.started /\ r.ended = e.ended
  BY DEF AtCommandLine, Conclusion, Tracker
<1> QED
  BY <1>1, <1>2

LEMMA PromptStartIs ==
  ASSUME NEW so \in Conclusion, so.ended = 0, NEW r, r = PromptStart(so)
  PROVE  /\ r \in Conclusion
         /\ r.tracker.region = "Prompt"
         /\ r.tracker.promptRow = NoRow
         /\ r.tracker.markersSeen = so.tracker.markersSeen
         /\ r.tracker.blockOpen <=> so.tracker.blockOpen /\ ~marks_output_start
         /\ r.started = so.started
         /\ r.ended = IF so.tracker.blockOpen /\ marks_output_start THEN 1 ELSE 0
<1> DEFINE e == IF marks_output_start THEN end_open_block(so) ELSE so
<1>1. /\ e \in Conclusion
      /\ e.tracker.blockOpen <=> so.tracker.blockOpen /\ ~marks_output_start
      /\ e.tracker.markersSeen = so.tracker.markersSeen
      /\ e.started = so.started
      /\ e.ended = IF so.tracker.blockOpen /\ marks_output_start THEN 1 ELSE 0
  BY EndOpenBlockIs DEF Conclusion, Tracker
<1>2. r = AtPrompt(e)
  BY DEF PromptStart
<1> HIDE DEF e
<1> QED
  BY <1>1, <1>2, AtPromptIs

LEMMA CommandStartIs ==
  ASSUME NEW so \in Conclusion, so.ended = 0, NEW r, r = CommandStart(so)
  PROVE  /\ r \in Conclusion
         /\ r.tracker.region = "CommandLine"
         /\ r.tracker.promptRow = so.tracker.promptRow
         /\ r.tracker.commandLineRow = so.tracker.promptRow
         /\ r.tracker.markersSeen = so.tracker.markersSeen
         /\ ~r.tracker.blockOpen
         /\ r.started = so.started
         /\ r.ended = IF so.tracker.blockOpen THEN 1 ELSE 0
<1> DEFINE e == end_open_block(so)
<1>1. r = AtCommandLine(e, so.tracker.promptRow)
  BY DEF CommandStart
<1>2. so.tracker.promptRow \in Rows \cup {NoRow}
  BY DEF Conclusion, Tracker
<1>3. /\ e \in Conclusion
      /\ ~e.tracker.blockOpen
      /\ e.tracker.promptRow = so.tracker.promptRow
      /\ e.tracker.markersSeen = so.tracker.markersSeen
      /\ e.started = so.started
      /\ e.ended = IF so.tracker.blockOpen THEN 1 ELSE 0
  BY EndOpenBlockIs
<1> HIDE DEF e
<1> QED
  BY <1>1, <1>2, <1>3, AtCommandLineIs

LEMMA OutputStartIs ==
  ASSUME NEW so \in Conclusion, so.ended = 0, NEW r, r = OutputStart(so)
  PROVE  /\ r \in Conclusion
         /\ r.tracker.region = "Output"
         /\ r.tracker.promptRow = so.tracker.promptRow
         /\ r.tracker.markersSeen = so.tracker.markersSeen
         /\ r.tracker.blockOpen
         /\ r.started = IF so.tracker.blockOpen THEN so.started ELSE 1
         /\ r.ended = 0
  BY DEF OutputStart, Conclusion, Tracker

LEMMA CommandEndIs ==
  ASSUME NEW so \in Conclusion, so.ended = 0, NEW r, r = CommandEnd(so)
  PROVE  /\ r \in Conclusion
         /\ r.tracker.region = IF so.tracker.blockOpen THEN "Unstructured"
                               ELSE so.tracker.region
         /\ r.tracker.promptRow = so.tracker.promptRow
         /\ r.tracker.commandLineRow = so.tracker.commandLineRow
         /\ r.tracker.markersSeen = so.tracker.markersSeen
         /\ ~r.tracker.blockOpen
         /\ r.started = so.started
         /\ r.ended = IF so.tracker.blockOpen THEN 1 ELSE 0
<1> DEFINE e == end_open_block(so)
<1>1. /\ e \in Conclusion
      /\ ~e.tracker.blockOpen
      /\ e.tracker.promptRow = so.tracker.promptRow
      /\ e.tracker.commandLineRow = so.tracker.commandLineRow
      /\ e.tracker.markersSeen = so.tracker.markersSeen
      /\ e.started = so.started
      /\ e.ended = IF so.tracker.blockOpen THEN 1 ELSE 0
  BY EndOpenBlockIs
<1>2. r = IF so.tracker.blockOpen
          THEN [e EXCEPT !.tracker.region = "Unstructured"] ELSE so
  BY DEF CommandEnd
<1> HIDE DEF e
<1>3. CASE so.tracker.blockOpen
  BY <1>1, <1>2, <1>3 DEF Conclusion, Tracker
<1>4. CASE ~so.tracker.blockOpen
  BY <1>2, <1>4 DEF Conclusion, Tracker
<1> QED
  BY <1>3, <1>4

-----------------------------------------------------------------------------
\* A step of the block session the tracker reports, or none.
BlockStep == [B!Next]_(B!blocks)

\* What an item says is at most an end after a start.
LEMMA ItemIsABlockStep ==
  ASSUME IInv, CountsAgree', NEW s \in {0, 1}, NEW e \in {0, 1},
         starts' = starts + s, ends' = ends + e,
         tracker.markersSeen \in BOOLEAN, tracker'.markersSeen \in BOOLEAN,
         s + e > 0 => tracker'.markersSeen,
         tracker.markersSeen => tracker'.markersSeen,
         e = 1 => ~tracker'.blockOpen,
         s = 1 /\ e = 1 => tracker.markersSeen
  PROVE  BlockStep
<1>0. starts \in Nat /\ ends \in Nat
  BY DEF IInv, TypeOK
<1>1. CASE s = 0 /\ e = 0
  <2>1. starts' = starts /\ ends' = ends
    BY <1>0, <1>1
  <2> QED
    BY <2>1 DEF BlockStep, B!Next, B!blocks, B!Announce
<1>2. CASE s = 1 /\ e = 0
  <2>1. starts # ends + 1 /\ tracker'.markersSeen = TRUE
    BY <1>0, <1>2 DEF IInv, CountsAgree
  <2>2. starts' = starts + 1 /\ ends' = ends
    BY <1>0, <1>2
  <2> QED
    BY <2>1, <2>2 DEF BlockStep, B!Next, B!Start, B!InBlock
<1>3. CASE s = 0 /\ e = 1
  <2>1. starts = ends + 1
    BY <1>0, <1>3 DEF CountsAgree
  <2>2. tracker.markersSeen /\ tracker'.markersSeen
    BY <1>0, <2>1 DEF IInv, CountsAgree, BlockFollowsTheRegion
  <2>3. starts' = starts /\ ends' = ends + 1
    BY <1>0, <1>3
  <2> QED
    BY <2>1, <2>2, <2>3 DEF BlockStep, B!Next, B!End, B!InBlock
<1>4. CASE s = 1 /\ e = 1
  <2>1. starts # ends + 1
    BY <1>0, <1>4 DEF CountsAgree
  <2>2. tracker.markersSeen = tracker'.markersSeen
    BY <1>4
  <2> QED
    BY <1>4, <2>1, <2>2 DEF BlockStep, B!Next, B!Empty, B!InBlock
<1> QED
  BY <1>1, <1>2, <1>3, <1>4

\* A line that does not end the command line.
LEMMA QuietLineHolds ==
  ASSUME IInv, NEW row \in Rows, NEW n \in Tracker,
         tracker' = n, UNCHANGED <<starts, ends>>,
         label' = n.region, n.region = tracker.region,
         n.blockOpen = tracker.blockOpen, n.markersSeen = tracker.markersSeen,
         echo' = IF n.region = "CommandLine" THEN echo \cup {row} ELSE echo,
         behind' = IF tracker.region = "Prompt" THEN "Drawn" ELSE behind,
         n.promptRow = IF n.region = "Prompt" THEN row ELSE tracker.promptRow,
         n.region = "CommandLine" /\ ~marks_output_start =>
            /\ n.commandLineRow = row
            /\ tracker.commandLineRow \in {row, NoRow},
         n.region = "CommandLine" /\ marks_output_start =>
            n.commandLineRow = tracker.commandLineRow
  PROVE  IInv' /\ BlockStep
<1> row # NoRow
  BY RowsAssumption
<1>1. ~marks_output_start /\ tracker.region = "CommandLine" => echo \subseteq {row}
  BY RowsAssumption DEF IInv, TypeOK, EchoHolds
<1>2. TypeOK'
  BY DEF IInv, TypeOK, Tracker
<1>5. BlockFollowsTheRegion' /\ CountsAgree'
  BY DEF IInv, TypeOK, BlockFollowsTheRegion, CountsAgree
<1>6. EmptyPromptHolds'
  <2> SUFFICES ASSUME behind' = "Marked"
               PROVE  /\ n.promptRow = NoRow
                      /\ n.region = "CommandLine" /\ (echo' = {} \/ marks_output_start)
                            => n.commandLineRow = NoRow
    BY DEF EmptyPromptHolds, marks_output_start
  <2>1. tracker.region # "Prompt" /\ behind = "Marked"
    OBVIOUS
  <2>2. n.promptRow = NoRow
    BY <2>1 DEF IInv, EmptyPromptHolds
  <2>3. n.region = "CommandLine" => echo' # {}
    OBVIOUS
  <2> QED
    BY <2>1, <2>2, <2>3 DEF IInv, EmptyPromptHolds
<1>7. BlockStep
  BY <1>2, <1>5, ItemIsABlockStep DEF IInv, TypeOK, Tracker
<1>3. CASE n.region = "CommandLine"
  BY <1>1, <1>2, <1>3, <1>5, <1>6, <1>7 DEF IInv, TypeOK, EchoHolds
<1>4. CASE n.region # "CommandLine"
  BY <1>2, <1>4, <1>5, <1>6, <1>7 DEF IInv, TypeOK, EchoHolds
<1> QED
  BY <1>3, <1>4

LEMMA LineHolds ==
  ASSUME IInv, NEW row \in Rows, Line(row)
  PROVE  IInv' /\ BlockStep
<1> DEFINE so == observe_row(tracker, row)
<1>0. /\ tracker \in Tracker /\ Concluded(tracker) \in Conclusion
      /\ starts \in Nat /\ ends \in Nat
  BY DEF IInv, TypeOK, Conclusion
<1>1. /\ tracker' = so.tracker
      /\ starts' = starts + so.started /\ ends' = ends + so.ended
      /\ label' = so.tracker.region
      /\ echo' = IF so.tracker.region = "CommandLine" THEN echo \cup {row} ELSE echo
      /\ behind' = IF tracker.region = "Prompt" THEN "Drawn" ELSE behind
  BY DEF Line, Conclude
<1>2. CASE tracker.region = "Prompt"
  <2> DEFINE n == [tracker EXCEPT !.promptRow = row]
  <2>1. so = Concluded(n)
    BY <1>2 DEF observe_row
  <2>2. /\ n \in Tracker /\ n.region = "Prompt" /\ n.promptRow = row
        /\ n.blockOpen = tracker.blockOpen /\ n.markersSeen = tracker.markersSeen
    BY <1>0, <1>2 DEF Tracker
  <2> HIDE DEF n
  <2> QED
    BY <1>0, <1>1, <1>2, <2>1, <2>2, QuietLineHolds
<1>3. CASE \/ tracker.region \notin {"Prompt", "CommandLine"}
           \/ tracker.region = "CommandLine"
              /\ (marks_output_start \/ tracker.commandLineRow = row)
  <2>1. so = Concluded(tracker)
    BY <1>3, RowsAssumption DEF observe_row
  <2> QED
    BY <1>0, <1>1, <1>3, <2>1, QuietLineHolds
<1>4. CASE tracker.region = "CommandLine" /\ ~marks_output_start
           /\ tracker.commandLineRow = NoRow
  <2> DEFINE n == [tracker EXCEPT !.commandLineRow = row]
  <2>1. so = Concluded(n)
    BY <1>4 DEF observe_row
  <2>2. /\ n \in Tracker /\ n.region = "CommandLine" /\ n.commandLineRow = row
        /\ n.promptRow = tracker.promptRow
        /\ n.blockOpen = tracker.blockOpen /\ n.markersSeen = tracker.markersSeen
    BY <1>0, <1>4 DEF Tracker
  <2> HIDE DEF n
  <2> QED
    BY <1>0, <1>1, <1>4, <2>1, <2>2, QuietLineHolds
<1>5. CASE tracker.region = "CommandLine" /\ ~marks_output_start
           /\ tracker.commandLineRow \notin {NoRow, row}
  <2>1. so = end_command_line(Concluded(tracker))
    BY <1>5 DEF observe_row
  <2> HIDE DEF so
  <2>2. /\ so.tracker \in Tracker
        /\ so.tracker.region = "Output" /\ so.tracker.blockOpen
        /\ so.tracker.promptRow = tracker.promptRow
        /\ so.tracker.markersSeen = tracker.markersSeen
        /\ so.started = 1 /\ so.ended = 0
    <3>1. Concluded(tracker).tracker = tracker /\ Concluded(tracker).ended = 0
      OBVIOUS
    <3> HIDE DEF Concluded
    <3>2. so \in Conclusion /\ so.ended = 0
      BY <1>0, <1>5, <2>1, <3>1, EndCommandLineIs
    <3> QED
      BY <1>0, <1>5, <2>1, <3>1, <3>2, EndCommandLineIs DEF Conclusion
  <2>3. IInv'
    BY <1>0, <1>1, <1>5, <2>2
       DEF IInv, TypeOK, BlockFollowsTheRegion, CountsAgree, EchoHolds, EmptyPromptHolds
  <2>4. tracker.markersSeen /\ tracker.markersSeen \in BOOLEAN
    BY <1>5 DEF IInv, TypeOK, Tracker, CountsAgree
  <2>5. BlockStep
    BY <1>0, <1>1, <2>2, <2>3, <2>4, ItemIsABlockStep DEF IInv
  <2> QED
    BY <2>3, <2>5
<1> QED
  BY <1>2, <1>3, <1>4, <1>5

-----------------------------------------------------------------------------
\* A marker that finds this state and leaves that one.
LEMMA MarkedHolds ==
  ASSUME IInv, NEW r \in Conclusion, Conclude(r), label' = "None", echo' = {},
         behind' \in {"None", "Marked", "Drawn"},
         r.tracker.markersSeen,
         starts + r.started = ends + r.ended + (IF r.tracker.blockOpen THEN 1 ELSE 0),
         r.tracker.region = "Output" => r.tracker.blockOpen,
         r.tracker.blockOpen => r.tracker.region \in {"Output", "Prompt"},
         marks_output_start => (r.tracker.blockOpen <=> r.tracker.region = "Output"),
         r.tracker.region = "CommandLine" =>
             r.tracker.commandLineRow = r.tracker.promptRow \/ marks_output_start,
         behind' = "Marked" =>
             /\ r.tracker.promptRow = NoRow
             /\ r.tracker.region = "CommandLine" => r.tracker.commandLineRow = NoRow,
         r.ended = 1 => ~r.tracker.blockOpen,
         r.started = 1 /\ r.ended = 1 => tracker.markersSeen
  PROVE  IInv' /\ BlockStep
<1>1. /\ tracker' = r.tracker /\ tracker' \in Tracker
      /\ starts' = starts + r.started /\ ends' = ends + r.ended
      /\ starts' \in Nat /\ ends' \in Nat
  BY DEF Conclude, Conclusion, IInv, TypeOK
<1>2. IInv'
  BY <1>1 DEF IInv, TypeOK, BlockFollowsTheRegion, CountsAgree, EchoHolds, EmptyPromptHolds
<1>3. r.started \in {0, 1} /\ r.ended \in {0, 1}
  BY DEF Conclusion
<1>4. tracker.markersSeen \in BOOLEAN /\ tracker'.markersSeen \in BOOLEAN
  BY <1>1 DEF IInv, TypeOK, Tracker
<1>5. BlockStep
  BY <1>1, <1>2, <1>3, <1>4, ItemIsABlockStep DEF IInv
<1> QED
  BY <1>2, <1>5

\* What the arm of a marker finds: the command line ended, the latch set.
Found == [end_command_line(Concluded(tracker))
          EXCEPT !.announced = ~end_command_line(Concluded(tracker)).tracker.markersSeen,
                 !.tracker.markersSeen = TRUE]

LEMMA FoundHolds ==
  ASSUME IInv
  PROVE  /\ Found \in Conclusion /\ Found.ended = 0
         /\ Found.tracker.markersSeen
         /\ Found.tracker.promptRow = tracker.promptRow
         /\ Found.tracker.region = "Prompt" <=> tracker.region = "Prompt"
         /\ Found.tracker.region = "Output" => Found.tracker.blockOpen
         /\ Found.tracker.blockOpen => Found.tracker.region \in {"Output", "Prompt"}
         /\ marks_output_start =>
              (Found.tracker.blockOpen <=> Found.tracker.region = "Output")
         /\ ~marks_output_start => Found.tracker.region # "CommandLine"
         /\ Found.tracker.region = "CommandLine" /\ behind = "Marked" =>
              Found.tracker.commandLineRow = NoRow
         /\ starts + Found.started = ends + (IF Found.tracker.blockOpen THEN 1 ELSE 0)
         /\ Found.started = 1 => Found.tracker.blockOpen /\ tracker.markersSeen
<1> DEFINE c == end_command_line(Concluded(tracker))
<1>0. /\ tracker \in Tracker /\ Concluded(tracker) \in Conclusion
      /\ starts \in Nat /\ ends \in Nat
  BY DEF IInv, TypeOK, Conclusion
<1>1. /\ c \in Conclusion /\ c.ended = 0
      /\ c.tracker.promptRow = tracker.promptRow
      /\ c.tracker.region = "Prompt" <=> tracker.region = "Prompt"
      /\ c.tracker.region = "Output" => c.tracker.blockOpen
      /\ c.tracker.blockOpen => c.tracker.region \in {"Output", "Prompt"}
      /\ marks_output_start => (c.tracker.blockOpen <=> c.tracker.region = "Output")
      /\ ~marks_output_start => c.tracker.region # "CommandLine"
      /\ c.tracker.region = "CommandLine" /\ behind = "Marked" =>
           c.tracker.commandLineRow = NoRow
      /\ starts + c.started = ends + (IF c.tracker.blockOpen THEN 1 ELSE 0)
      /\ c.started = 1 => c.tracker.blockOpen /\ tracker.markersSeen
  <2>1. CASE marks_output_start \/ tracker.region # "CommandLine"
    <3> c = Concluded(tracker)
      BY <2>1 DEF end_command_line
    <3> QED
      BY <1>0, <2>1 DEF IInv, BlockFollowsTheRegion, CountsAgree, EmptyPromptHolds
  <2>2. CASE ~marks_output_start /\ tracker.region = "CommandLine"
    <3>1. /\ c \in Conclusion /\ c.ended = 0 /\ c.started = 1
          /\ c.tracker.region = "Output" /\ c.tracker.blockOpen
          /\ c.tracker.promptRow = tracker.promptRow
      BY <1>0, <2>2, EndCommandLineIs
    <3> HIDE DEF c
    <3> QED
      BY <1>0, <2>2, <3>1 DEF IInv, BlockFollowsTheRegion, CountsAgree
  <2> QED
    BY <2>1, <2>2
<1>2. Found = [c EXCEPT !.announced = ~c.tracker.markersSeen,
                        !.tracker.markersSeen = TRUE]
  BY DEF Found
<1> HIDE DEF c
<1>3. /\ Found \in Conclusion /\ Found.ended = c.ended /\ Found.started = c.started
      /\ Found.tracker.markersSeen
      /\ Found.tracker.promptRow = c.tracker.promptRow
      /\ Found.tracker.region = c.tracker.region
      /\ Found.tracker.blockOpen = c.tracker.blockOpen
      /\ Found.tracker.commandLineRow = c.tracker.commandLineRow
  BY <1>1, <1>2 DEF Conclusion, Tracker
<1> QED
  BY <1>1, <1>3

LEMMA MarkerHolds ==
  ASSUME IInv, NEW marker \in Osc133Markers, Marker(marker)
  PROVE  IInv' /\ BlockStep
<1>1. /\ Conclude(CASE marker = "PromptStart"  -> PromptStart(Found)
                   [] marker = "CommandStart" -> CommandStart(Found)
                   [] marker = "OutputStart"  -> OutputStart(Found)
                   [] marker = "CommandEnd"   -> CommandEnd(Found))
      /\ label' = "None" /\ echo' = {}
      /\ behind' = CASE marker = "PromptStart" -> "Marked"
                     [] marker = "CommandStart" /\ tracker.region # "Prompt" -> "None"
                     [] OTHER -> behind
  BY DEF Marker, observe_marker, Found
<1>2. /\ starts \in Nat /\ ends \in Nat
      /\ behind \in {"None", "Marked", "Drawn"}
      /\ behind = "Marked" => tracker.promptRow = NoRow
  BY DEF IInv, TypeOK, EmptyPromptHolds
<1>3. CASE marker = "PromptStart"
  <2> DEFINE r == PromptStart(Found)
  <2>1. Conclude(r) /\ behind' = "Marked"
    BY <1>1, <1>3
  <2>2. /\ r \in Conclusion
        /\ r.tracker.region = "Prompt" /\ r.tracker.promptRow = NoRow
        /\ r.tracker.markersSeen
        /\ r.tracker.blockOpen <=> Found.tracker.blockOpen /\ ~marks_output_start
        /\ r.started = Found.started
        /\ r.ended = IF Found.tracker.blockOpen /\ marks_output_start THEN 1 ELSE 0
    BY FoundHolds, PromptStartIs
  <2> HIDE DEF r
  <2> QED
    BY <1>1, <1>2, <2>1, <2>2, FoundHolds, MarkedHolds
<1>4. CASE marker = "CommandStart"
  <2> DEFINE r == CommandStart(Found)
  <2>1. /\ Conclude(r)
        /\ behind' \in {"None", behind}
    BY <1>1, <1>4
  <2>2. /\ r \in Conclusion
        /\ r.tracker.region = "CommandLine"
        /\ r.tracker.promptRow = tracker.promptRow
        /\ r.tracker.commandLineRow = tracker.promptRow
        /\ r.tracker.markersSeen /\ ~r.tracker.blockOpen
        /\ r.started = Found.started
        /\ r.ended = IF Found.tracker.blockOpen THEN 1 ELSE 0
    BY FoundHolds, CommandStartIs
  <2> HIDE DEF r
  <2> QED
    BY <1>1, <1>2, <2>1, <2>2, FoundHolds, MarkedHolds
<1>5. CASE marker = "OutputStart"
  <2> DEFINE r == OutputStart(Found)
  <2>1. Conclude(r) /\ behind' = behind
    BY <1>1, <1>5
  <2>2. /\ r \in Conclusion
        /\ r.tracker.region = "Output" /\ r.tracker.blockOpen
        /\ r.tracker.promptRow = tracker.promptRow
        /\ r.tracker.markersSeen
        /\ r.started = IF Found.tracker.blockOpen THEN Found.started ELSE 1
        /\ r.ended = 0
    BY FoundHolds, OutputStartIs
  <2> HIDE DEF r
  <2>3. Found.started \in {0, 1}
    BY FoundHolds DEF Conclusion
  <2>4. starts + r.started = ends + r.ended + (IF r.tracker.blockOpen THEN 1 ELSE 0)
    BY <1>2, <2>2, <2>3, FoundHolds
  <2> QED
    BY <1>1, <1>2, <2>1, <2>2, <2>4, MarkedHolds
<1>6. CASE marker = "CommandEnd"
  <2> DEFINE r == CommandEnd(Found)
  <2>1. Conclude(r) /\ behind' = behind
    BY <1>1, <1>6
  <2>2. /\ r \in Conclusion
        /\ r.tracker.region = IF Found.tracker.blockOpen THEN "Unstructured"
                              ELSE Found.tracker.region
        /\ r.tracker.promptRow = tracker.promptRow
        /\ r.tracker.commandLineRow = Found.tracker.commandLineRow
        /\ r.tracker.markersSeen /\ ~r.tracker.blockOpen
        /\ r.started = Found.started
        /\ r.ended = IF Found.tracker.blockOpen THEN 1 ELSE 0
    BY FoundHolds, CommandEndIs
  <2> HIDE DEF r
  <2> QED
    BY <1>1, <1>2, <2>1, <2>2, FoundHolds, MarkedHolds
<1> QED
  BY <1>3, <1>4, <1>5, <1>6 DEF Osc133Markers

LEMMA NextHolds == IInv /\ [Next]_vars => IInv' /\ BlockStep
<1> SUFFICES ASSUME IInv, [Next]_vars PROVE IInv' /\ BlockStep
  OBVIOUS
<1>1. CASE \E row \in Rows : Line(row)
  BY <1>1, LineHolds
<1>2. CASE \E marker \in Emitted : Marker(marker)
  BY <1>2, MarkerHolds, EmittedAssumption
<1>3. CASE UNCHANGED vars
  BY <1>3 DEF vars, IInv, TypeOK, BlockFollowsTheRegion, CountsAgree, EchoHolds,
              EmptyPromptHolds, BlockStep, B!blocks
<1> QED
  BY <1>1, <1>2, <1>3 DEF Next

\* The inductive invariant, of every shell and every stream of items.
THEOREM InvariantHolds == Spec => []IInv
  BY InitHolds, NextHolds, PTL DEF Spec

\* "For a Full shell they remain equivalent": the block flag and the region
\* never tell different stories.
THEOREM BlockFollows == Spec => []BlockFollowsTheRegion
<1>1. IInv => BlockFollowsTheRegion
  BY DEF IInv
<1> QED
  BY <1>1, InvariantHolds, PTL

\* The blocks the tracker reports open and close by turns, after integration
\* has been announced, whatever markers arrive.
THEOREM TrackerImplementsBlocks == Spec => ImplementsBlocks
<1>1. Init => B!Init
  BY DEF Init, NewTracker, B!Init
<1>2. IInv /\ [Next]_vars => [B!Next]_(B!blocks)
  BY NextHolds DEF BlockStep
<1> QED
  BY <1>1, <1>2, InvariantHolds, PTL DEF Spec, ImplementsBlocks, B!Spec

\* The echo of a command line is one row, its prompt's when that drew one.
THEOREM EchoHoldsToOneRow == Spec => []EchoIsOneRow
<1>1. IInv => EchoIsOneRow
  <2> SUFFICES ASSUME IInv, ~marks_output_start
               PROVE  Cardinality(echo) <= 1
    BY DEF IInv, EchoHolds, EchoIsOneRow
  <2> PICK row \in Rows \cup {NoRow} : echo \subseteq {row}
    BY DEF IInv, EchoHolds
  <2> echo = {} \/ echo = {row}
    OBVIOUS
  <2> QED
    BY FS_EmptySet, FS_Singleton, Cardinality(echo) \in {0, 1}
<1> QED
  BY <1>1, InvariantHolds, PTL

\* A prompt that drew nothing leaves the first row to claim the command line.
THEOREM EmptyPromptClaims == Spec => EmptyPromptIsForgotten
<1>1. ASSUME IInv, [Next]_vars
      PROVE  [FirstRow => label' = "CommandLine"]_vars
  <2> SUFFICES ASSUME Next, FirstRow
               PROVE  label' = "CommandLine"
    BY <1>1
  <2>1. PICK row \in Rows : Line(row)
    BY DEF Next, Marker, FirstRow
  <2> QED
    BY <1>1, <2>1 DEF FirstRow, Line, observe_row, IInv, TypeOK, Tracker, EmptyPromptHolds
<1> QED
  BY <1>1, InvariantHolds, PTL DEF Spec, EmptyPromptIsForgotten
=============================================================================
