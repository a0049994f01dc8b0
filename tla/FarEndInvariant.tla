-------------------------- MODULE FarEndInvariant ---------------------------
(***************************************************************************)
(* What holds in every state of the line in the far end's hands: Ordered,  *)
(* whatever is pressed and however fast, and InStep, of a user who waits   *)
(* for the answer to each key.  FarEndProofs shows both.                   *)
(***************************************************************************)
EXTENDS FarEnd

-----------------------------------------------------------------------------
(***************************************************************************)
(* The pump.  The fields read here have their types; no line is submitted, *)
(* so nothing waits for an echo.                                           *)
(***************************************************************************)
Glyphs == Tokens \cup {Blank} \cup Range(Prompt) \cup Range(Listing) \cup Range(Printout)
          \cup Range(Refusal)
Texts  == Seq(Glyphs)
Places == Rows \cup {NoRow}
Recording == [seen : BOOLEAN, owed : BOOLEAN, text : Texts, shown : Nat]
Due       == [revision : {"Appended", "Rewritten"}, text : Texts, spoken : BOOLEAN]
Change    == [line : Rows, before : Texts, after : Texts]
Anchors   == {NoAnchor} \cup [line : Rows, column : Nat]

FarEndLines ==
    [owner : {"Local", "FarEnd"}, anchor : Anchors,
     awaiting_prompt : BOOLEAN, changed : Seq(Change), watching : BOOLEAN,
     was : [column : Nat, row : Places \X Nat], printed : Seq([id : Rows, due : Due]),
     held : Texts, left : Places]

IsSeq(s) == \E S : s \in Seq(S)

Formed(p) ==
    /\ DOMAIN p = DOMAIN NewPump(<<>>) \cup {"far", "field"}
    /\ p.nextId \in Nat \ {0} /\ p.open \in Nat /\ p.unshown \in BOOLEAN
    /\ p.unshown => p.open # NoCommand
    /\ p.submitted = <<>> /\ p.held = NoHeld /\ p.selfTalk = NoCommand
    /\ p.integration # "Unintegrated"
    /\ p.echo \in [prompt : Texts, text : Texts \cup {NoText}]
    /\ p.lines \in [Rows -> Recording]
    /\ p.cursor \in Places
    /\ p.far \in FarEndLines
    /\ p.field \in [text : Texts, caret : Nat]
    /\ IsSeq(p.told)

Revisions == {"Appended", "Rewritten"}

\* What is drawn goes to the results if it is output, and is kept otherwise
\* while the line is the far end's.
Entry(id, text, revision) ==
    [id |-> id, due |-> [revision |-> revision, text |-> text,
                         spoken |-> revision # "Rewritten"]]

Stands(t, region, inBlock) ==
    t \in Tracker /\ t.region = region /\ t.markersSeen /\ t.blockOpen = inBlock

-----------------------------------------------------------------------------
(***************************************************************************)
(* What holds whoever types, and how.                                      *)
(***************************************************************************)
Screens == [row : Rows, column : Nat, visible : BOOLEAN]

Shells  == [phase : {"prompt", "running"}, row : Rows, line : Seq(Typed), cursor : Nat,
            next : Nat, rows : SUBSET Rows,
            printed : SUBSET [row : Rows, text : {Listing, Printout}]]

\* The reads the shell sends.
EditOf(items, sh)  ==
    \/ items = <<>>
    \/ /\ Len(items) = 1
       /\ items = <<Row(items[1].id, items[1].text, items[1].revision)>>
       /\ items[1].id \in sh.rows /\ items[1].text \in Texts /\ items[1].revision \in Revisions

FirstAt(items, row)   == items = PromptOn(row, <<>>).items
DoneAt(items, row)    == items = PromptOn(row, <<Done>>).items
BlankAt(items, row)   == items = PromptOn(row, <<Mark("OutputStart"), Done>>).items

DroppedAt(items, row, sh) ==
    /\ Len(items) = 6
    /\ items = PromptOn(row, <<Row(items[1].id, Refusal, "Appended"), Mark("OutputStart"),
                               Done>>).items
    /\ items[1].id \in sh.rows

ListedAt(items, row, sh) ==
    /\ Len(items) = 5 /\ items[1].kind = "Line"
    /\ items = <<Row(items[1].id, Listing, "Appended"), Mark("PromptStart"),
                 Row(row, Prompt, "Appended"), Mark("CommandStart"),
                 Row(row, items[5].text, "Appended")>>
    /\ items[5].text \in Texts
    /\ [row |-> items[1].id, text |-> Listing] \in sh.printed

OutputAt(items, row, sh) ==
    /\ items = <<Mark("OutputStart"), Row(row, Printout, "Appended")>>
    /\ [row |-> row, text |-> Printout] \in sh.printed

\* Which of them may follow in a region, and the region behind one.
Fits(r, region, sh) ==
    /\ r.at \in Screens
    /\ \/ region = "Unstructured" /\ r.at.row \in sh.rows /\ FirstAt(r.items, r.at.row)
       \/ /\ region = "CommandLine"
          /\ \/ r.at.row \in sh.rows /\ \/ EditOf(r.items, sh)
                                        \/ BlankAt(r.items, r.at.row)
                                        \/ DroppedAt(r.items, r.at.row, sh)
                                        \/ ListedAt(r.items, r.at.row, sh)
             \/ OutputAt(r.items, r.at.row, sh)
       \/ region = "Output" /\ r.at.row \in sh.rows /\ DoneAt(r.items, r.at.row)

Ends(r) == IF Len(r.items) = 2 THEN "Output" ELSE "CommandLine"
RegionOf(phase) == IF phase = "running" THEN "Output" ELSE "CommandLine"
RegionAfter(i, t, rs) == IF i = 0 THEN t.region ELSE Ends(rs[i])

Chained(t, rs, sh) ==
    /\ \A i \in 1..Len(rs) : Fits(rs[i], RegionAfter(i - 1, t, rs), sh)
    /\ RegionAfter(Len(rs), t, rs) = RegionOf(sh.phase)

\* The tracker stands where the last read left it.
Tracked(t, p) ==
    /\ t \in Tracker
    /\ IF t.region = "Unstructured"
       THEN ~t.markersSeen /\ ~t.blockOpen /\ p.far.owner = "Local"
       ELSE Stands(t, t.region, t.region = "Output") /\ p.integration = "Integrated"

Numbered(sh) ==
    /\ sh.row \in sh.rows
    /\ \A row \in sh.rows : row < sh.next
    /\ \A x \in sh.printed :
          /\ x.row \notin sh.rows /\ x.row < sh.next
          /\ \A y \in sh.printed : x.row = y.row => x = y

\* Nothing is known of a row that the shell has yet to begin.
Unwritten(p, results, sh) ==
    \A row \in Rows : row >= sh.next => p.lines[row].text = <<>> /\ results[row] = <<>>

\* Where what was printed is: in the results, in the pump's hands or on its way.
PrintsOn(r) == IF Len(r.items) = 2 THEN {r.items[2].id}
               ELSE IF Len(r.items) = 5 /\ r.items[1].kind = "Line" THEN {r.items[1].id}
               ELSE {}

Coming(row, rs) == \E i \in 1..Len(rs) : row \in PrintsOn(rs[i])
Of(s, row)      == {<<i, s[i]>> : i \in {j \in DOMAIN s : s[j].id = row}}
Only(s, row, text) == \E i \in DOMAIN s : Of(s, row) = {<<i, Entry(row, text, "Appended")>>}

Delivered(x, results, rs, s) ==
    /\ results[x.row] = IF Coming(x.row, rs) \/ Of(s, x.row) # {} THEN <<>> ELSE x.text
    /\ \A i, j \in 1..Len(rs) : x.row \in PrintsOn(rs[i]) /\ x.row \in PrintsOn(rs[j]) => i = j
    /\ Of(s, x.row) # {} => ~Coming(x.row, rs) /\ x.text = Listing /\ Only(s, x.row, Listing)

\* No row of a listing is taken for the command line's, and of the rows that
\* are not, none but a listing's is in hand.
Elsewhere(p, sh) ==
    /\ \A row \in Fields(p) : \/ row = NoRow \/ row \in sh.rows
                              \/ [row |-> row, text |-> Printout] \in sh.printed
    /\ \A row \in Rows \ sh.rows : Of(p.far.printed, row) # {} =>
          [row |-> row, text |-> Listing] \in sh.printed

\* The line is Acter's only when nothing is on its way but the first prompt.
InTurn(t, p, rs) ==
    /\ ~settled => p.far.printed = <<>>
    /\ p.far.owner = "Local" =>
          /\ p.far.printed = <<>> /\ ~settled /\ keys = <<>> /\ shell.phase = "prompt"
          /\ rs = <<>> \/ (Len(rs) = 1 /\ t.region = "Unstructured")

Ordered ==
    /\ Formed(pump) /\ pump.told = <<>>
    /\ IsSeq(headings) /\ transcript \in [Rows -> Texts]
    /\ keys \in Seq(Keys \cup {"Paste"})
    /\ IsSeq(reads)
    /\ screen \in Screens
    /\ settled \in BOOLEAN
    /\ shell \in Shells /\ shell.cursor <= Len(shell.line)
    /\ Numbered(shell)
    /\ Tracked(tracker, pump)
    /\ Chained(tracker, reads, shell)
    /\ Unwritten(pump, transcript, shell)
    /\ \A x \in shell.printed : Delivered(x, transcript, reads, pump.far.printed)
    /\ Elsewhere(pump, shell)
    /\ InTurn(tracker, pump, reads)

-----------------------------------------------------------------------------
(***************************************************************************)
(* A user who waits for the answer to each key, and pastes nothing, where  *)
(* lines fit on their rows.  A key then passes through stages, one step    *)
(* from each to the next: the line in the field, the key on its way, the   *)
(* answer on its way, the answer seen; and, when the line is left, a       *)
(* prompt or a command that ends with one.                                 *)
(***************************************************************************)
Text(row) == pump.lines[row].text
Line      == Prompt \o trim_end(shell.line)
LineCaret == [row |-> shell.row, column |-> shell.cursor + 1, visible |-> TRUE]
Fresh     == shell.phase = "prompt" /\ shell.line = <<>> /\ shell.cursor = 0

\* Of the rows of the line none but these has anything in hand.
OnlyOn(some) == \A row \in shell.rows \ some : Of(pump.far.printed, row) = {}

\* The echo of a line that is blank is blank, if it is known.
EchoHeard ==
    /\ pump.echo.prompt # <<>>
    /\ Text(pump.cursor) = Prompt => pump.echo.text \in {<<>>, NoText}

\* The cursor is on the row the shell edits, and what it says is known.
OnTheRow ==
    /\ pump.cursor = shell.row /\ Text(shell.row) = Line /\ EchoHeard
    /\ screen = LineCaret

\* The field has what is on the row it is anchored on, blanks apart.
Holding ==
    /\ pump.far.owner = "FarEnd" /\ ~pump.far.awaiting_prompt /\ pump.far.left = NoRow
    /\ pump.far.anchor = [line |-> pump.cursor, column |-> 1]
    /\ pump.cursor \in shell.rows /\ EchoHeard
    /\ Text(pump.cursor) = Prompt \o trim_end(pump.far.held)
    /\ pump.far.held = pump.field.text /\ pump.field.caret <= Len(pump.far.held)
    /\ screen = [row |-> pump.cursor, column |-> pump.field.caret + 1, visible |-> TRUE]

\* And that is what the shell edits.
Agreeing == trim_end(pump.far.held) = trim_end(shell.line)

Watched ==
    /\ pump.far.watching /\ pump.far.changed = <<>>
    /\ pump.far.was = [column |-> pump.field.caret + 1, row |-> <<pump.cursor, 0>>]

\* The line is Acter's; at the start its first prompt is on its way.
OwnedHere ==
    /\ pump.far.owner = "Local" /\ Fresh
    /\ IF reads = <<>> THEN OnTheRow
       ELSE reads = <<PromptOn(shell.row, <<>>)>> /\ Text(shell.row) = <<>>

\* The field is right, and at most a key that edits is on its way.
AtTheLine ==
    /\ Holding /\ Agreeing /\ pump.cursor = shell.row /\ pump.field.caret = shell.cursor
    /\ reads = <<>> /\ ~settled /\ shell.phase = "prompt"
    /\ \/ keys = <<>>
       \/ \E key \in Keys \ {"Enter", "CtrlC"} : keys = <<key>> /\ Watched

\* The key was answered on the same row,
KeyAnswered ==
    /\ Holding /\ Watched /\ pump.cursor = shell.row
    /\ keys = <<>> /\ ~settled /\ shell.phase = "prompt"
    /\ reads = <<Read(Redrawn(shell.row, Prompt \o trim_end(pump.far.held), Line),
                      shell.row, Len(Prompt) + shell.cursor, TRUE)>>

\* and the answer was received;
Watching ==
    /\ keys = <<>> /\ reads = <<>> /\ settled /\ shell.phase = "prompt"
    /\ pump.far.owner = "FarEnd" /\ ~pump.far.awaiting_prompt /\ pump.far.left = NoRow
    /\ pump.far.watching
    /\ pump.far.held = pump.field.text /\ pump.field.caret <= Len(pump.far.held)
    /\ OnTheRow /\ OnlyOn({shell.row})

AnswerSeen ==
    /\ Watching
    /\ pump.far.anchor = [line |-> shell.row, column |-> 1]
    /\ pump.far.was = [column |-> pump.field.caret + 1, row |-> <<shell.row, 0>>]
    /\ \/ pump.far.changed = <<>> /\ Agreeing
       \/ /\ Len(pump.far.changed) = 1
          /\ pump.far.changed[1].line = shell.row /\ pump.far.changed[1].after = Line

\* or below a listing of completions,
ListedBelow ==
    /\ Holding /\ Watched /\ Agreeing /\ pump.field.caret = shell.cursor
    /\ keys = <<>> /\ ~settled /\ shell.phase = "prompt"
    /\ pump.cursor # shell.row /\ trim_end(shell.line) # <<>>
    /\ Text(shell.row) = <<>>
    /\ \E list \in Rows \ shell.rows :
          reads = <<Read(<<Row(list, Listing, "Appended"), Mark("PromptStart"),
                           Row(shell.row, Prompt, "Appended"), Mark("CommandStart"),
                           Row(shell.row, trim_end(shell.line), "Appended")>>,
                         shell.row, Len(Prompt) + shell.cursor, TRUE)>>

ListingSeen ==
    /\ Watching /\ Agreeing
    /\ trim_end(shell.line) # <<>>
    /\ pump.far.anchor.line # shell.row
    /\ Len(pump.far.changed) = 2
    /\ pump.far.changed[1].line # shell.row
    /\ pump.far.changed[2].line = shell.row /\ pump.far.changed[2].after = Line

\* The line was left with Enter or Ctrl+C, which is on its way;
Awaiting ==
    /\ pump.far.owner = "FarEnd" /\ pump.far.anchor = NoAnchor
    /\ pump.far.awaiting_prompt /\ pump.far.watching /\ ~settled
    /\ pump.cursor = pump.far.left /\ EchoHeard /\ shell.phase = "prompt"

Leaving ==
    /\ Awaiting
    /\ pump.far.left = shell.row /\ Text(shell.row) = Line
    /\ reads = <<>> /\ keys \in {<<"Enter">>, <<"CtrlC">>}
    /\ keys = <<"Enter">> /\ trim(shell.line) # <<>> => pump.open # NoCommand

\* its answer is a prompt,
LineLeft ==
    /\ Awaiting /\ Fresh
    /\ keys = <<>>
    /\ pump.far.left \in shell.rows \ {shell.row} /\ Text(shell.row) = <<>>
    /\ \/ /\ reads = <<PromptOn(shell.row, <<Mark("OutputStart"), Done>>)>>
          /\ Text(pump.far.left) = Prompt
       \/ reads = <<PromptOn(shell.row, <<Row(pump.far.left, Refusal, "Appended"),
                                          Mark("OutputStart"), Done>>)>>

\* or a command, that ends with one;
IsRun(r)    == OutputAt(r.items, r.at.row, shell)
ReadsRun(n) == \A i \in 1..n : IsRun(reads[i]) /\ pump.open # NoCommand /\ ~settled

RunningOn ==
    /\ pump.far.owner = "FarEnd" /\ pump.far.printed = <<>>
    /\ pump.far.watching <=> pump.far.awaiting_prompt
    /\ \/ /\ shell.phase = "running" /\ Len(reads) <= 1 /\ ReadsRun(Len(reads))
          /\ keys = <<>> \/ (keys = <<"CtrlC">> /\ reads = <<>> /\ ~settled)
       \/ /\ Fresh /\ keys = <<>> /\ Text(shell.row) = <<>>
          /\ Len(reads) \in {1, 2} /\ ReadsRun(Len(reads) - 1)
          /\ reads[Len(reads)] = PromptOn(shell.row, <<Done>>)

\* and there the next line begins.
BackAtPrompt ==
    /\ Fresh /\ keys = <<>> /\ reads = <<>> /\ settled
    /\ pump.far.owner = "FarEnd"
    /\ pump.far.watching <=> pump.far.awaiting_prompt
    /\ OnTheRow /\ OnlyOn({shell.row, pump.far.left})

Stages ==
    \/ OwnedHere \/ AtTheLine \/ KeyAnswered \/ AnswerSeen \/ ListedBelow \/ ListingSeen
    \/ Leaving \/ LineLeft \/ RunningOn \/ BackAtPrompt

\* The line that Enter leaves has its heading before it is run.
HeadedInTurn ==
    Kept(headings) =
        IF shell.phase = "prompt" /\ keys = <<"Enter">> /\ trim(shell.line) # <<>>
        THEN Append(ran, trim(shell.line)) ELSE ran

RowsAreKept == \A row \in shell.rows : transcript[row] = <<>>
LineFits    == Len(Prompt) + Len(shell.line) < Width
InStep == ~pasted => Stages /\ HeadedInTurn /\ RowsAreKept /\ LineFits
=============================================================================
