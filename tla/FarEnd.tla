------------------------------- MODULE FarEnd -------------------------------
(***************************************************************************)
(* The line in the far end's hands (services/session.rs, from              *)
(* far_end_key to note_change, and policies/far_end_row.rs).  Each key goes *)
(* to the far end as it is pressed.  What the shell redraws comes back as  *)
(* rows; from these, and from where the cursor comes to rest, the pump     *)
(* works out the line being edited, tells it to the field the screen       *)
(* reader reads, and heads the block of the command that Enter runs.       *)
(*                                                                         *)
(* The pump is Pump's record with two fields more: far is its FarEndLine,  *)
(* and field what the field was last told.  The far end is a shell with a  *)
(* line editor, as readline in bash, that marks its prompts.  Its rows are *)
(* trimmed of trailing blanks, as the engine reports them.                 *)
(***************************************************************************)
EXTENDS Pump

CONSTANTS Keys,        \* the keys the user may press
          Recalled,    \* the line that Up recalls
          Pasted,      \* the text that is pasted
          Width,       \* the columns of a row of the terminal
          Patient,     \* whether the user waits for the answer to each key
          MaxLine,     \* bound on the line being edited
          MaxPresses   \* bound on the keys of a session

ASSUME RecalledAssumption == Recalled \in Seq(Tokens)
ASSUME PastedAssumption   == Pasted \in Seq(Tokens)
ASSUME WidthAssumption    == Width \in Nat \ {0}

\* Identities are minted one after the other.
ASSUME RowsFollow == Rows # {} /\ \A first, last \in Rows : first..last \subseteq Rows

Blank    == " "
Prompt   == <<"$">>
Listing  == <<"l">>       \* what completion prints
Printout == <<"o">>       \* what a command prints
Refusal  == <<"^C">>      \* how the shell echoes an interrupt
NoAnchor == [line |-> NoRow, column |-> 0]
NoCaret  == [column |-> 0, row |-> <<NoRow, 0>>]    \* a hidden cursor

\* A key that edits is no character, and nobody types what echoes an interrupt.
EditingKeys == {"Paste", "Up", "Left", "Backspace", "Tab", "Enter", "CtrlC"}
Typed       == (Keys \cap Tokens) \cup Range(Recalled) \cup Range(Pasted)

ASSUME KeysAssumption    == Tokens \cap EditingKeys = {} /\ "Paste" \notin Keys
ASSUME RefusalAssumption == Range(Refusal) \cap Typed = {}

VARIABLES tracker, pump,
          screen,      \* the engine's cursor: its row, how far along, whether it is shown
          settled,     \* whether the settling timer is armed
          keys,        \* the keys on their way to the far end
          reads,       \* what it sent back, on its way to the pump
          shell,       \* the far end
          presses,     \* history: the keys pressed
          ran,         \* history: the lines the shell ran
          pasted,      \* history: whether text was pasted
          headings,    \* history: the lines that blocks were headed by
          transcript   \* history: the text each row has in the results buffer

vars == <<tracker, pump, screen, settled, keys, reads, shell, presses, ran, pasted,
          headings, transcript>>

-----------------------------------------------------------------------------
(* Texts.                                                                  *)

Solid(text)    == {i \in DOMAIN text : text[i] # Blank}
trim_end(text) == SubSeq(text, 1, Max(Solid(text) \cup {0}))
trim(text)     == IF Solid(text) = {} THEN <<>>
                  ELSE SubSeq(text, Min(Solid(text)), Max(Solid(text)))
weight(text)   == Cardinality(Solid(text))
from_column(row, column) == SubSeq(row, column + 1, Len(row))
saturating_sub(a, b)     == Max({a - b, 0})

\* Fault: the row is handed over as the engine trimmed it.
unpadded(text, caret) == text

\* A cursor past the text is the only evidence of the blanks the engine trims.
padded(text, caret) == text \o [i \in 1..saturating_sub(caret, Len(text)) |-> Blank]

-----------------------------------------------------------------------------
(* Which row answers a key: policies/far_end_row.rs.                       *)

FarEndAnswer(kind, text, caret) == [kind |-> kind, text |-> text, caret |-> caret]
Nothing == FarEndAnswer("Nothing", <<>>, 0)

caret_in(text, anchor, now) ==
    IF now = NoCaret THEN Len(text) ELSE saturating_sub(now.column, anchor)

Anchored(changed, anchor) == {i \in DOMAIN changed : changed[i].line = anchor.line}
gained_content(changed)   ==
    {i \in DOMAIN changed : weight(changed[i].after) > weight(changed[i].before)}

\* The cursor moved along its row and nothing was redrawn.
CaretMoved(anchor, now, held) ==
    LET caret == saturating_sub(now.column, anchor.column)
        row   == trim_end(held)
        text  == IF caret >= Len(row) THEN padded(row, caret) ELSE held
    IN  FarEndAnswer(IF text = held THEN "Caret" ELSE "Row", text, caret)

far_end_row(changed, anchor, was, now, held) ==
    IF Anchored(changed, anchor) # {}
    THEN LET text  == from_column(changed[Min(Anchored(changed, anchor))].after, anchor.column)
             caret == caret_in(text, anchor.column, now)
         IN  FarEndAnswer("Row", padded(text, caret), caret)
    ELSE IF gained_content(changed) # {}
    THEN FarEndAnswer("Detached", changed[Min(gained_content(changed))].after, 0)
    ELSE IF was # NoCaret /\ now # NoCaret /\ was.row = now.row /\ was.column # now.column
    THEN CaretMoved(anchor, now, held)
    ELSE Nothing

-----------------------------------------------------------------------------
(* The pump's far-end line.                                                *)

NewFarEndLine ==
    [owner |-> "Local", anchor |-> NoAnchor, awaiting_prompt |-> FALSE, changed |-> <<>>,
     watching |-> FALSE, was |-> NoCaret, printed |-> <<>>, held |-> <<>>, left |-> NoRow]

NewField == [text |-> <<>>, caret |-> 0]

NewFarEndPump ==
    LET alone == NewPump(<<>>)
    IN  [f \in DOMAIN alone \cup {"far", "field"} |->
            CASE f = "far"   -> NewFarEndLine
              [] f = "field" -> NewField
              [] OTHER       -> alone[f]]

\* Where the cursor is on the terminal: a row longer than that goes on below.
caret == IF screen.visible
         THEN [column |-> screen.column % Width, row |-> <<screen.row, screen.column \div Width>>]
         ELSE NoCaret

far_end_line(p, text, at) ==
    [p EXCEPT !.far.held = text, !.field = [text |-> text, caret |-> at]]

\* Fault: the prompt is taken with the line.
whole_row(p) ==
    IF p.far.anchor = NoAnchor THEN <<>> ELSE p.lines[p.far.anchor.line].text

row_from_anchor(p) ==
    IF p.far.anchor = NoAnchor THEN <<>>
    ELSE from_column(p.lines[p.far.anchor.line].text, p.far.anchor.column)

\* Nothing is taken from a hidden cursor.
anchor_here(p) ==
    LET here == [p EXCEPT !.far.anchor = [line |-> p.cursor, column |-> caret.column]]
    IN  IF ~screen.visible \/ p.cursor = NoRow THEN p
        ELSE far_end_line(here, row_from_anchor(here), 0)

line_owner(p, owner) ==
    LET cleared == [p EXCEPT !.far = [NewFarEndLine EXCEPT !.owner  = owner,
                                                           !.anchor = p.far.anchor,
                                                           !.held   = <<>>]]
    IN  IF owner = "FarEnd" THEN anchor_here(cleared)
        ELSE [cleared EXCEPT !.far.anchor = NoAnchor]

\* Fault: the row the command line was left on is forgotten.
await_promptForgets(p) ==
    [p EXCEPT !.far.anchor = NoAnchor, !.far.awaiting_prompt = TRUE]

await_prompt(p) ==
    [p EXCEPT !.far.left   = IF p.far.anchor = NoAnchor THEN @ ELSE p.far.anchor.line,
              !.far.anchor = NoAnchor,
              !.far.awaiting_prompt = TRUE]

\* Fault: the line is read once the anchor has been left.
far_end_submittedLate(p) ==
    LET left  == await_prompt(p)
        typed == trim(row_from_anchor(left))
    IN  IF typed = <<>> THEN left
        ELSE settle_running(open(close([left EXCEPT !.nextId = @ + 1], NoExit), p.nextId, typed))

\* The block opens before the key goes out; a blank line opens none.
far_end_submitted(p) ==
    LET typed == trim(row_from_anchor(p))
        left  == await_prompt(p)
    IN  IF typed = <<>> THEN left
        ELSE settle_running(open(close([left EXCEPT !.nextId = @ + 1], NoExit), p.nextId, typed))

far_end_key(p, key) ==
    LET sent == CASE key = "Enter" -> far_end_submitted(p)
                  [] key = "CtrlC" -> await_prompt(p)
                  [] OTHER         -> p
    IN  [sent EXCEPT !.far.was = caret, !.far.changed = <<>>, !.far.watching = TRUE]

note_change(p, id, before, after) ==
    LET noted == {i \in DOMAIN p.far.changed : p.far.changed[i].line = id}
    IN  IF p.far.owner # "FarEnd" \/ ~p.far.watching THEN p
        ELSE IF noted = {}
        THEN [p EXCEPT !.far.changed =
                 Append(@, [line |-> id, before |-> before, after |-> after])]
        ELSE [p EXCEPT !.far.changed[Min(noted)].after = after]

-----------------------------------------------------------------------------
(* Settling.                                                               *)

\* Every row the region filter turned away is published, except the cursor's,
\* the command line's and the one the command line was left on.
Fields(p) == {p.cursor, p.far.anchor.line, p.far.left}

\* Fault: a row without a block to go to is dropped.
printedInBlock(p) ==
    IF p.open = NoCommand THEN [p EXCEPT !.far.printed = <<>>]
    ELSE FoldLeft(LAMBDA q, row : IF row.id \in Fields(p) THEN q
                                  ELSE publish(q, row.id, row.due),
                  [p EXCEPT !.far.printed = <<>>], p.far.printed)

printed(p) ==
    FoldLeft(LAMBDA q, row : IF row.id \in Fields(p) THEN q ELSE publish(q, row.id, row.due),
             [p EXCEPT !.far.printed = <<>>], p.far.printed)

\* Fault: the anchor stays where the prompt was first drawn.
stay_put(p) == p

\* The line editor redraws the line on a new row after listing completions:
\* there it begins where what the user already had begins.
follow_cursor(p) ==
    LET row  == trim_end(p.lines[p.cursor].text)
        held == trim_end(p.far.held)
    IN  IF \/ ~screen.visible \/ p.cursor \in {NoRow, p.far.anchor.line}
           \/ held = <<>> \/ ~IsSuffix(held, row)
        THEN p
        ELSE [p EXCEPT !.far.anchor = [line |-> p.cursor, column |-> Len(row) - Len(held)]]

Answered(p, answer) ==
    CASE answer.kind = "Nothing" -> p
      [] answer.kind = "Caret"   -> [p EXCEPT !.field.caret = answer.caret]
      [] OTHER                   -> far_end_line(p, answer.text, answer.caret)

far_end_settled(p) ==
    LET told  == printed(p)
        taken == [told EXCEPT !.far.changed = <<>>, !.far.watching = FALSE]
        moved == follow_cursor(taken)
    IN  IF p.far.owner # "FarEnd" THEN p
        ELSE IF ~p.far.watching
        THEN anchor_here([taken EXCEPT !.far.left = NoRow])
        ELSE IF p.far.awaiting_prompt
        THEN anchor_here([taken EXCEPT !.far.left = NoRow, !.far.awaiting_prompt = FALSE])
        ELSE Answered(moved, far_end_row(p.far.changed, moved.far.anchor, p.far.was, caret,
                                         p.far.held))

-----------------------------------------------------------------------------
(* A row the far end drew.  What the region filter turns away is kept      *)
(* until it is known which row is the command line.                        *)

DrawnRow(p, now, event) ==
    LET id     == event.id
        before == p.lines[id].text
        after  == IF event.revision = "Appended" THEN before \o event.text ELSE event.text
        noted  == note_change(line(p, now, event.region, id, event.text, event.revision),
                              id, before, after)
    IN  IF wants(p, event.region) \/ p.far.owner # "FarEnd" THEN noted
        ELSE [noted EXCEPT !.far.printed =
                 Append(@, [id |-> id, due |-> due(p.lines[id], event.text, event.revision)])]

feedFarEnd(p, now, events) ==
    prompt_finished(
        FoldLeft(LAMBDA q, event : IF event.kind = "Line"
                                   THEN prompt_finished(DrawnRow(q, now, event), now)
                                   ELSE Heard(q, now, event),
                 p, events),
        now)

-----------------------------------------------------------------------------
(* The shell.  Its line editor answers a key with what changed on its row. *)

Row(id, text, revision) == [kind |-> "Line", id |-> id, text |-> text, revision |-> revision]
Mark(kind)              == [kind |-> kind]
Done                    == [kind |-> "CommandEnd", exit |-> 0]
Read(items, row, column, visible) ==
    [items |-> items, at |-> [row |-> row, column |-> column, visible |-> visible]]

\* The row before and after: nothing, an appended tail, or the whole of it.
Redrawn(id, before, after) ==
    IF before = after THEN <<>>
    ELSE IF IsPrefix(before, after)
    THEN <<Row(id, from_column(after, Len(before)), "Appended")>>
    ELSE <<Row(id, after, "Rewritten")>>

Edited(to, cursor) ==
    /\ shell' = [shell EXCEPT !.line = to, !.cursor = cursor]
    /\ reads' = Append(reads,
                       Read(Redrawn(shell.row, Prompt \o trim_end(shell.line),
                                    Prompt \o trim_end(to)),
                            shell.row, Len(Prompt) + cursor, TRUE))
    /\ UNCHANGED ran

Inserted(text) ==
    Edited(SubSeq(shell.line, 1, shell.cursor) \o text
              \o SubSeq(shell.line, shell.cursor + 1, Len(shell.line)),
           shell.cursor + Len(text))

Bell == Edited(shell.line, shell.cursor)

\* A prompt on a fresh row, after what ends the line before it.
PromptOn(row, before) ==
    Read(before \o <<Mark("PromptStart"), Row(row, Prompt, "Appended"), Mark("CommandStart")>>,
         row, Len(Prompt), TRUE)

Prompting(before) ==
    /\ shell.next \in Rows
    /\ shell' = [shell EXCEPT !.phase = "prompt", !.line = <<>>, !.cursor = 0,
                              !.row = shell.next, !.next = @ + 1,
                              !.rows = @ \cup {shell.next}]
    /\ reads' = Append(reads, PromptOn(shell.next, before))

\* The candidates on a row of their own, and the prompt and the line below.
Listed ==
    /\ shell.next + 1 \in Rows
    /\ shell' = [shell EXCEPT !.row = shell.next + 1, !.next = @ + 2,
                              !.rows = @ \cup {shell.next + 1},
                              !.printed = @ \cup {[row |-> shell.next, text |-> Listing]}]
    /\ reads' = Append(reads,
           Read(<<Row(shell.next, Listing, "Appended"), Mark("PromptStart"),
                  Row(shell.next + 1, Prompt, "Appended"), Mark("CommandStart"),
                  Row(shell.next + 1, trim_end(shell.line), "Appended")>>,
                shell.next + 1, Len(Prompt) + shell.cursor, TRUE))
    /\ UNCHANGED ran

Run(visible) ==
    /\ shell.next \in Rows
    /\ shell' = [shell EXCEPT !.phase = "running", !.next = @ + 1,
                              !.printed = @ \cup {[row |-> shell.next, text |-> Printout]}]
    /\ reads' = Append(reads, Read(<<Mark("OutputStart"), Row(shell.next, Printout, "Appended")>>,
                                   shell.next, Len(Printout), visible))
    /\ ran' = Append(ran, trim(shell.line))

\* The shell takes a key at its prompt; a running command is only interrupted.
Answer(key) ==
    \/ /\ shell.phase = "prompt"
       /\ \/ /\ key \in Tokens
             /\ IF Len(shell.line) < MaxLine /\ (key # Blank \/ shell.cursor > 0)
                THEN Inserted(<<key>>) ELSE Bell
          \/ key = "Paste" /\ Inserted(Pasted)
          \/ key = "Up" /\ Edited(Recalled, Len(Recalled))
          \/ key = "Left" /\ Edited(shell.line, saturating_sub(shell.cursor, 1))
          \/ /\ key = "Backspace"
             /\ IF shell.cursor = 0 THEN Bell
                ELSE Edited(RemoveAt(shell.line, shell.cursor), shell.cursor - 1)
          \/ key = "Tab" /\ IF trim(shell.line) = <<>> THEN Bell ELSE Listed
          \/ /\ key = "Enter" /\ trim(shell.line) = <<>>
             /\ Prompting(<<Mark("OutputStart"), Done>>)
             /\ UNCHANGED ran
          \/ /\ key = "Enter" /\ trim(shell.line) # <<>>
             /\ \E visible \in BOOLEAN : Run(visible)
          \/ /\ key = "CtrlC"
             /\ Prompting(<<Row(shell.row, Refusal, "Appended"), Mark("OutputStart"), Done>>)
             /\ UNCHANGED ran
    \/ /\ shell.phase = "running" /\ key = "CtrlC"
       /\ Prompting(<<Done>>)
       /\ UNCHANGED ran

Take ==
    /\ keys # <<>>
    /\ Answer(Head(keys))
    /\ keys' = Tail(keys)
    /\ UNCHANGED <<tracker, pump, screen, settled, presses, pasted, headings, transcript>>

\* The command ends by itself; a patient user's interrupt is never too late.
Finish ==
    /\ shell.phase = "running"
    /\ Patient => keys = <<>>
    /\ Prompting(<<Done>>)
    /\ UNCHANGED <<tracker, pump, screen, settled, keys, presses, ran, pasted, headings,
                   transcript>>

-----------------------------------------------------------------------------
(* The pump's loop.                                                        *)

\* What the rest of the program makes of what it is told.
Shown(rows, told) ==
    FoldLeft(LAMBDA seen, t :
                IF t.kind # "Output" THEN seen
                ELSE [seen EXCEPT ![t.line] = IF t.revision = "Appended" THEN @ \o t.text
                                              ELSE t.text],
             rows, told)

Headed(headed, told) ==
    FoldLeft(LAMBDA heads, t :
                IF t.kind = "CommandStarted" /\ t.line # NoText THEN Append(heads, t.line)
                                                               ELSE heads,
             headed, told)

\* Nobody asks the flag of the interrupt key here, see Session.
Becomes(p) ==
    /\ pump'       = [p EXCEPT !.told = <<>>, !.running = NewFlag]
    /\ headings'   = Headed(headings, p.told)
    /\ transcript' = Shown(transcript, p.told)

\* Nothing is on its way and no timer is armed.
Quiet == keys = <<>> /\ reads = <<>> /\ ~settled

Press(key) ==
    /\ presses < MaxPresses
    /\ pump.far.owner = "FarEnd"
    /\ Patient => Quiet /\ (shell.phase = "prompt" \/ key = "CtrlC")
    /\ Becomes(far_end_key(pump, key))
    /\ keys' = Append(keys, key)
    /\ presses' = presses + 1
    /\ UNCHANGED <<tracker, screen, settled, reads, shell, ran, pasted>>

\* Text is written as it is: no key went out, and no answer is awaited.
paste ==
    /\ presses < MaxPresses /\ Pasted # <<>>
    /\ pump.far.owner = "FarEnd"
    /\ Patient => Quiet /\ shell.phase = "prompt"
    /\ keys' = Append(keys, "Paste")
    /\ presses' = presses + 1
    /\ pasted' = TRUE
    /\ UNCHANGED <<tracker, pump, screen, settled, reads, shell, ran, headings, transcript>>

\* The line changes hands with nothing typed: Acter hands over whole lines.
Toggle ==
    /\ presses < MaxPresses
    /\ shell.phase = "prompt" /\ shell.line = <<>> /\ Quiet
    /\ Becomes(line_owner(pump, IF pump.far.owner = "Local" THEN "FarEnd" ELSE "Local"))
    /\ presses' = presses + 1
    /\ UNCHANGED <<tracker, screen, settled, keys, reads, shell, ran, pasted>>

\* Every read arms the settling timer again while the far end has the line.
Receive ==
    /\ reads # <<>>
    /\ LET read == Head(reads)
           seen == Observed(tracker, read.items)
       IN  /\ tracker' = seen.tracker
           /\ screen' = read.at
           /\ Becomes(feedFarEnd(pump, seen.tracker.region, seen.events))
    /\ reads' = Tail(reads)
    /\ settled' = (pump.far.owner = "FarEnd")
    /\ UNCHANGED <<keys, shell, presses, ran, pasted>>

Settle ==
    /\ settled
    /\ settled' = FALSE
    /\ Becomes(far_end_settled(pump))
    /\ UNCHANGED <<tracker, screen, keys, reads, shell, presses, ran, pasted>>

-----------------------------------------------------------------------------
First == Min(Rows)

Init ==
    /\ tracker = NewTracker
    /\ pump = NewFarEndPump
    /\ screen = [row |-> First, column |-> 0, visible |-> TRUE]
    /\ settled = FALSE
    /\ keys = <<>>
    /\ reads = <<PromptOn(First, <<>>)>>
    /\ shell = [phase |-> "prompt", row |-> First, line |-> <<>>, cursor |-> 0,
                next |-> First + 1, rows |-> {First}, printed |-> {}]
    /\ presses = 0
    /\ ran = <<>> /\ headings = <<>> /\ pasted = FALSE
    /\ transcript = [row \in Rows |-> <<>>]

Next ==
    \/ \E key \in Keys : Press(key)
    \/ paste
    \/ Toggle
    \/ Take
    \/ Finish
    \/ Receive
    \/ Settle

Spec == Init /\ [][Next]_vars

-----------------------------------------------------------------------------
(* Properties.                                                             *)

AtRest == Quiet /\ shell.phase = "prompt" /\ pump.far.owner = "FarEnd"

\* No line of the session is longer than what its row has room for.
OnOneRow == /\ MaxLine \in Nat
            /\ Len(Prompt) + MaxLine < Width /\ Len(Prompt) + Len(Recalled) < Width

\* What the screen reader reads is the line the shell is editing, with the
\* caret where its cursor is, the blanks it has just typed included.  It is so
\* OnOneRow: the caret of a line that wraps is counted from the wrong column.
\* (Nobody watches for pasted text: the settling after it takes the column it
\* ends at for the one where the line begins.)
FieldHoldsTheLine ==
    AtRest /\ ~pasted => /\ pump.field.caret = shell.cursor
              /\ trim_end(pump.field.text) = trim_end(shell.line)
              /\ IsPrefix(SubSeq(shell.line, 1, shell.cursor), pump.field.text)

\* Each command that ran has one heading, and it is the line that ran.  (A line
\* dropped with Ctrl+C gets a block too, headed by the shell's echo of it.)
Dropped(heading) == IsSuffix(Refusal, heading)
Kept(headed)     ==
    FoldLeft(LAMBDA kept, heading : IF Dropped(heading) THEN kept ELSE Append(kept, heading),
             <<>>, headed)
HeadedByWhatRan  == AtRest /\ ~pasted => Kept(headings) = ran

\* The rows the line was edited on are the field's: none of their text is in
\* the results, whether the line was run, dropped or redrawn elsewhere.
CommandRowsStayInTheField ==
    ~pasted => \A row \in shell.rows : transcript[row] = <<>>

\* All that the far end printed besides is in the results, and once.
PrintedRowsReachTheTranscript ==
    AtRest => \A row \in shell.printed : transcript[row.row] = row.text
=============================================================================
