---------------------------- MODULE FarEndSteps -----------------------------
(***************************************************************************)
(* What the operators of FarEnd return, and what a step leaves of what was *)
(* known: the words in which FarEndProofs states its lemmas.               *)
(***************************************************************************)
EXTENDS FarEndInvariant

-----------------------------------------------------------------------------
(* Folds, as the cases of one operator.                                    *)
Sees(seen, item) ==
    LET so == observe(seen.tracker, item)
    IN  [tracker |-> so.tracker, events |-> seen.events \o Says(so, item)]

Feeds(p, now, event) ==
    IF event.kind = "Line" THEN prompt_finished(DrawnRow(p, now, event), now)
                           ELSE Heard(p, now, event)

Prints(p, fields, row) == IF row.id \in fields THEN p ELSE publish(p, row.id, row.due)

Shows(seen, t) ==
    IF t.kind # "Output" THEN seen
    ELSE [seen EXCEPT ![t.line] = IF t.revision = "Appended" THEN @ \o t.text ELSE t.text]

Heads(heads, t) ==
    IF t.kind = "CommandStarted" /\ t.line # NoText THEN Append(heads, t.line) ELSE heads
Keeps(kept, heading) == IF Dropped(heading) THEN kept ELSE Append(kept, heading)

Does(what, acc, x) ==
    CASE what.fold = "observe" -> Sees(acc, x)
      [] what.fold = "feed"    -> Feeds(acc, what.now, x)
      [] what.fold = "print"   -> Prints(acc, what.fields, x)
      [] what.fold = "show"    -> Shows(acc, x)
      [] what.fold = "head"    -> Heads(acc, x)
      [] what.fold = "keep"    -> Keeps(acc, x)

Runs(g, what, base, n, s) ==
    g = [x \in SUBSET (1..n) |-> IF x = {} THEN base
                                 ELSE Does(what, g[x \ {Max(x)}], s[Max(x)])]

Result(what, base, s) == (CHOOSE g : Runs(g, what, base, Len(s), s))[1..Len(s)]

\* A fold goes on from element to element.
Steps(g, what, base, n, s) ==
    /\ g[1..0] = base
    /\ \A k \in 1..n : g[1..k] = Does(what, g[1..(k - 1)], s[k])

Alike(s, t, n) == \A i \in 1..n : s[i] = t[i]

ShowRuns(g, base, n, s) ==
    g = [x \in SUBSET (1..n) |->
            IF x = {} THEN base ELSE Shows(g[x \ {Max(x)}], s[Max(x)])]

HeadRuns(g, base, n, s) ==
    g = [x \in SUBSET (1..n) |->
            IF x = {} THEN base ELSE Heads(g[x \ {Max(x)}], s[Max(x)])]

KeepRuns(g, base, n, s) ==
    g = [x \in SUBSET (1..n) |->
            IF x = {} THEN base ELSE Keeps(g[x \ {Max(x)}], s[Max(x)])]

SeeRuns(g, base, n, s) ==
    g = [x \in SUBSET (1..n) |->
            IF x = {} THEN base ELSE Sees(g[x \ {Max(x)}], s[Max(x)])]

FeedRuns(g, now, base, n, s) ==
    g = [x \in SUBSET (1..n) |->
            IF x = {} THEN base ELSE Feeds(g[x \ {Max(x)}], now, s[Max(x)])]

PrintRuns(g, fields, base, n, s) ==
    g = [x \in SUBSET (1..n) |->
            IF x = {} THEN base ELSE Prints(g[x \ {Max(x)}], fields, s[Max(x)])]

-----------------------------------------------------------------------------
(* A step of the pump.                                                     *)
\* What the rest of the program makes of all that the pump tells it.
Results(p)  == Shown(transcript, p.told)
Headings(p) == Headed(headings, p.told)

\* The pump goes on as it was, and nobody is told anything that shows.
Calm(q, p) ==
    /\ Formed(q)
    /\ q.far = p.far /\ q.field = p.field /\ q.cursor = p.cursor /\ q.echo = p.echo
    /\ q.integration = p.integration
    /\ \A row \in Rows : q.lines[row].text = p.lines[row].text
    /\ Results(q) = Results(p) /\ Headings(q) = Headings(p)

-----------------------------------------------------------------------------
(* A row that the far end drew.                                            *)
\* A pump but for what the invariant reads of it.
Apart(q, p) ==
    /\ Formed(q)
    /\ q.far = p.far /\ q.field = p.field /\ q.cursor = p.cursor
    /\ q.integration = p.integration
    /\ \A row \in Rows : q.lines[row].text = p.lines[row].text

\* Text is published to the row it is of, and in a block.
Publishes(q, p, id, d) ==
    /\ Apart(q, p) /\ q.echo = p.echo /\ q.open # NoCommand
    /\ Results(q) = Shows(Results(p), Output(id, d))
    /\ Headings(q) = Headings(p)

Echoes == [prompt : Texts, text : Texts \cup {NoText}]
NoEcho == [prompt |-> <<>>, text |-> <<>>]

\* What a row's text becomes.
After(before, text, revision) == IF revision = "Appended" THEN before \o text ELSE text

\* A row is drawn: what it says is recorded, and published if it is output.
IsDrawn(q, p, region, id, text, revision) ==
    /\ Formed(q)
    /\ q.far = p.far /\ q.field = p.field /\ q.integration = p.integration
    /\ q.cursor = id
    /\ q.echo = observe_echo(p.echo, region, text, revision)
    /\ \A row \in Rows : q.lines[row].text = IF row = id
                                             THEN After(p.lines[row].text, text, revision)
                                             ELSE p.lines[row].text
    /\ IF region = "Output"
       THEN /\ q.open # NoCommand
            /\ Results(q) = Shows(Results(p), Output(id, [revision |-> revision, text |-> text,
                                                          spoken |-> revision # "Rewritten"]))
       ELSE q.open = p.open /\ Results(q) = Results(p)
    /\ Headings(q) = Headings(p)

\* What is noted of a row while the answer to a key is awaited.
Notes(far, id)  == {i \in DOMAIN far.changed : far.changed[i].line = id}

Noted(far, id, before, after) ==
    IF far.owner # "FarEnd" \/ ~far.watching THEN far.changed
    ELSE IF Notes(far, id) = {}
    THEN Append(far.changed, [line |-> id, before |-> before, after |-> after])
    ELSE [far.changed EXCEPT ![Min(Notes(far, id))] = [@ EXCEPT !.after = after]]

FarAfter(p, region, id, text, revision) ==
    [p.far EXCEPT
        !.changed = Noted(p.far, id, p.lines[id].text, After(p.lines[id].text, text, revision)),
        !.printed = IF region = "Output" \/ p.far.owner # "FarEnd" THEN @
                    ELSE Append(@, Entry(id, text, revision))]

Fed(q, p, region, id, text, revision) ==
    /\ Formed(q)
    /\ q.far = FarAfter(p, region, id, text, revision)
    /\ q.field = p.field /\ q.integration = p.integration
    /\ q.cursor = id
    /\ q.echo = observe_echo(p.echo, region, text, revision)
    /\ \A row \in Rows : q.lines[row].text = IF row = id
                                             THEN After(p.lines[row].text, text, revision)
                                             ELSE p.lines[row].text
    /\ IF region = "Output"
       THEN /\ q.open # NoCommand
            /\ Results(q) = Shows(Results(p), Output(id, Entry(id, text, revision).due))
       ELSE q.open = p.open /\ Results(q) = Results(p)
    /\ Headings(q) = Headings(p)

IsLine(event) ==
    /\ event.kind = "Line"
    /\ event.region \in {"Prompt", "CommandLine", "Output"} /\ event.id \in Rows
    /\ event.text \in Texts /\ event.revision \in Revisions
    /\ event.region = "Output" => event.text # <<>>

BlockEnd == [kind |-> "BlockEnded", exit |-> 0]

-----------------------------------------------------------------------------
(* A read.                                                                 *)
\* The pump once it has heard these events.
FedSoFar(p, now, events) == Result([fold |-> "feed", now |-> now], p, events)

\* What the pump is once it has received these items, seen from this tracker.
Received(p, t, items) ==
    LET seen == Observed(t, items) IN feedFarEnd(p, seen.tracker.region, seen.events)

PromptRow(row) == Row(row, Prompt, "Appended")

\* The tracker once a prompt has followed what it saw, and what it says of it.
Prompts(all, seen, row) ==
    LET told == IF seen.tracker.markersSeen THEN seen.events
                ELSE Append(seen.events, BlockEvent("MarkersObserved"))
    IN  /\ Stands(all.tracker, "CommandLine", FALSE)
        /\ IsSeq(told)
        /\ all.events = Append(told, LineEvent("Prompt", PromptRow(row)))

\* The prompt is drawn on its row, after what leaves the pump calm.
Prompted(q, p, row) ==
    /\ Formed(q) /\ q.far = FarAfter(p, "Prompt", row, Prompt, "Appended")
    /\ q.field = p.field /\ q.cursor = row
    /\ q.echo.prompt # <<>> /\ q.echo.text = <<>>
    /\ \A other \in Rows : q.lines[other].text =
          IF other = row THEN p.lines[other].text \o Prompt ELSE p.lines[other].text
    /\ Results(q) = Results(p)

Steady(b, p) ==
    /\ Formed(b) /\ b.far = p.far /\ b.field = p.field
    /\ \A row \in Rows : b.lines[row].text = p.lines[row].text
    /\ Results(b) = Results(p)

Calls(p, now, told, b) == b = FedSoFar(p, now, told)

Follows(q, b, p, row) ==
    /\ Prompted(q, p, row) /\ Headings(q) = Headings(b)
    /\ q.integration = b.integration /\ q.open = b.open

AtPromptNow(t, items) == Stands(Observed(t, items).tracker, "CommandLine", FALSE)

\* What heads the block of a line that is left.
HeadingsOnce(p) == IF p.open # NoCommand \/ p.echo.text \in {<<>>, NoText}
                   THEN Headings(p) ELSE Append(Headings(p), p.echo.text)

Ran == BlockEvent("BlockStarted")

EndsEmpty(all, seen) == /\ Stands(all.tracker, "Unstructured", FALSE)
                        /\ all.events = Append(Append(seen.events, Ran), BlockEnd)
RefusalRow(row) == Row(row, Refusal, "Appended")

\* Of the events of a read this one is the first.
FirstSays(seen, region, item) ==
    Stands(seen.tracker, region, FALSE) /\ seen.events = <<LineEvent(region, item)>>

\* A line is dropped.
Drops(q, p, t, items, left, row) ==
    /\ AtPromptNow(t, items)
    /\ \E a : /\ Fed(a, p, "CommandLine", left, Refusal, "Appended")
              /\ Prompted(q, a, row)
              /\ Headings(q) = HeadingsOnce(a) /\ q.integration = a.integration

\* A command begins to print.
Outputs(q, p, t, items, row) ==
    /\ Stands(Observed(t, items).tracker, "Output", TRUE)
    /\ \E a : /\ Apart(a, p) /\ a.echo = NoEcho /\ Headings(a) = HeadingsOnce(p)
              /\ Results(a) = Results(p)
              /\ Fed(q, a, "Output", row, Printout, "Appended")

\* Completions are listed, and the prompt and the line drawn below them.
Lists(q, p, t, items, list, row, text) ==
    /\ AtPromptNow(t, items)
    /\ \E a, b : /\ Fed(a, p, "CommandLine", list, Listing, "Appended")
                 /\ Fed(b, a, "Prompt", row, Prompt, "Appended")
                 /\ Fed(q, b, "CommandLine", row, text, "Appended")

\* A row that was drawn again as it was.
Again(q, p, region, id, text, revision) ==
    /\ recoloured(p, id, text, revision)
    /\ Formed(q)
    /\ q.far = FarAfter(p, region, id, text, revision)
    /\ q.field = p.field /\ q.integration = p.integration /\ q.cursor = p.cursor
    /\ q.echo = p.echo /\ q.open = p.open
    /\ \A row \in Rows : q.lines[row].text = p.lines[row].text
    /\ \/ Results(q) = Results(p)
       \/ \E d \in Due : Results(q) = Shows(Results(p), Output(id, d))
    /\ Headings(q) = Headings(p)

-----------------------------------------------------------------------------
(* Texts.                                                                  *)
TrimmedTo(t, r) ==
    /\ Len(r) <= Len(t)
    /\ Len(r) # 0 => r[Len(r)] # Blank
    /\ \A i \in 1..Len(r) : r[i] = t[i]
    /\ \A i \in 1..Len(t) : i > Len(r) => t[i] = Blank

-----------------------------------------------------------------------------
(* The shell.                                                              *)
\* The row before and after, when they differ.
Redraws(items, id, before, after) ==
    \E text \in Texts, revision \in Revisions :
        /\ items = <<Row(id, text, revision)>>
        /\ After(before, text, revision) = after
        /\ revision = "Rewritten" => text = after

\* The shell sends a read.
Sends(r, sh, sh2) ==
    /\ sh2 \in Shells /\ Numbered(sh2)
    /\ sh.rows \subseteq sh2.rows /\ sh.printed \subseteq sh2.printed /\ sh.next <= sh2.next
    /\ \A x \in sh2.printed \ sh.printed : x.row >= sh.next /\ x.row \in PrintsOn(r)
    /\ \A row \in PrintsOn(r) : row >= sh.next
    /\ Fits(r, RegionOf(sh.phase), sh2) /\ Ends(r) = RegionOf(sh2.phase)

EditRead(sh, to, c) ==
    Read(Redrawn(sh.row, Prompt \o trim_end(sh.line), Prompt \o trim_end(to)),
         sh.row, Len(Prompt) + c, TRUE)

EndsAtOnce == <<Mark("OutputStart"), Done>>
RefusedOn(row) == <<Row(row, Refusal, "Appended"), Mark("OutputStart"), Done>>

ListRead(sh) ==
    Read(<<Row(sh.next, Listing, "Appended"), Mark("PromptStart"),
           Row(sh.next + 1, Prompt, "Appended"), Mark("CommandStart"),
           Row(sh.next + 1, trim_end(sh.line), "Appended")>>,
         sh.next + 1, Len(Prompt) + sh.cursor, TRUE)

RunRead(sh, visible) ==
    Read(<<Mark("OutputStart"), Row(sh.next, Printout, "Appended")>>,
         sh.next, Len(Printout), visible)

\* Whatever the shell answers to a key, it sends one read.
Answers(r) ==
    /\ reads' = Append(reads, r)
    /\ Sends(r, shell, shell')
    /\ shell'.cursor <= Len(shell'.line)

\* A key that edits.
Edits(key) ==
    \E to \in Seq(Typed), c \in Nat : c <= Len(to) /\ Edited(to, c)

-----------------------------------------------------------------------------
(* What a read does to what is known of the rows.                          *)
Readable(p) == Results(p) \in [Rows -> Texts]

RowShown(q, p, id, d) ==
    /\ Readable(q)
    /\ Results(q)[id] = IF d.revision = "Appended" THEN Results(p)[id] \o d.text ELSE d.text
    /\ \A row \in Rows : row # id => Results(q)[row] = Results(p)[row]

\* Nothing has changed but on the rows the shell edits on.
Grown(q, p, sh) ==
    /\ Formed(q)
    /\ q.far.owner = p.far.owner /\ q.far.anchor = p.far.anchor /\ q.far.left = p.far.left
    /\ \A row \in Rows : row >= sh.next => q.lines[row].text = p.lines[row].text
    /\ Readable(p) => Readable(q)
    /\ \A row \in Rows \ sh.rows : /\ Results(q)[row] = Results(p)[row]
                                   /\ Of(q.far.printed, row) = Of(p.far.printed, row)
    /\ p.far.owner = "Local" => q.far.printed = p.far.printed

\* The pump takes a read: what a command prints is in the results at once, what
\* completion prints is in hand, and the rest is on the rows of the line.
Takes(q, p, r, sh) ==
    /\ Formed(q) /\ q.integration = "Integrated"
    /\ q.far.owner = p.far.owner /\ q.far.anchor = p.far.anchor /\ q.far.left = p.far.left
    /\ \/ q.cursor = p.cursor \/ q.cursor \in sh.rows
       \/ [row |-> q.cursor, text |-> Printout] \in sh.printed
    /\ \A row \in Rows : row >= sh.next => q.lines[row].text = p.lines[row].text
    /\ Readable(q) /\ IsSeq(Headings(q))
    /\ \A row \in Rows \ sh.rows :
          Results(q)[row] = IF Ends(r) = "Output" /\ row \in PrintsOn(r)
                            THEN Results(p)[row] \o Printout ELSE Results(p)[row]
    /\ \A row \in Rows \ sh.rows :
          IF Ends(r) # "Output" /\ row \in PrintsOn(r)
          THEN Of(p.far.printed, row) = {} => Only(q.far.printed, row, Listing)
          ELSE Of(q.far.printed, row) = Of(p.far.printed, row)
    /\ p.far.owner = "Local" => q.far.printed = p.far.printed

Stood(t, items, region) == Stands(Observed(t, items).tracker, region, region = "Output")

Ready(t, p, sh) ==
    /\ Formed(p) /\ Readable(p) /\ IsSeq(Headings(p)) /\ Tracked(t, p)
    /\ sh \in Shells /\ Numbered(sh)
    /\ p.far.owner = "Local" => t.region = "Unstructured"

\* Text is published, unless there is none.
MayPublish(q, p, id, d) ==
    /\ Apart(q, p) /\ q.echo = p.echo /\ Headings(q) = Headings(p)
    /\ \/ Results(q) = Shows(Results(p), Output(id, d))
       \/ d.text = <<>> /\ Results(q) = Results(p)

\* One of the rows in hand.
PrintsOne(q, p, fields, e) ==
    /\ Apart(q, p) /\ q.echo = p.echo /\ Readable(q) /\ Headings(q) = Headings(p)
    /\ \A row \in Rows : row # e.id \/ row \in fields => Results(q)[row] = Results(p)[row]
    /\ e.id \notin fields /\ e.due.text # <<>> /\ e.due.revision = "Appended" =>
          Results(q)[e.id] = Results(p)[e.id] \o e.due.text

\* All of them, up to one.
UpToOne(q, b) ==
    Apart(q, b) /\ q.echo = b.echo /\ Readable(q) /\ Headings(q) = Headings(b)

\* A row that has one text in hand.
InHand(s, n)       == \A i \in 1..n : s[i] \in [id : Rows, due : Due]
Sole(s, n, row, i) == \A j \in 1..n : s[j].id = row => j = i

-----------------------------------------------------------------------------
(* The pump takes its anchor, or lets go of it, and sends a key.           *)
\* The pump but for its far-end line and the field.
Holds(q, p, far, field) ==
    /\ Formed(q) /\ q.far = far /\ q.field = field
    /\ q.cursor = p.cursor /\ q.echo = p.echo /\ q.integration = p.integration
    /\ \A row \in Rows : q.lines[row].text = p.lines[row].text
    /\ q.open = p.open /\ Results(q) = Results(p) /\ Headings(q) = Headings(p)

\* All that was in hand is published; the rows of the line are not.
PrintedOut(q, p) ==
    /\ Formed(q) /\ Readable(q)
    /\ q.far = [p.far EXCEPT !.printed = <<>>]
    /\ q.field = p.field /\ q.cursor = p.cursor /\ q.echo = p.echo
    /\ q.integration = p.integration
    /\ \A row \in Rows : q.lines[row].text = p.lines[row].text
    /\ Headings(q) = Headings(p)
    /\ \A row \in Rows : row \in Fields(p) \/ Of(p.far.printed, row) = {} =>
          Results(q)[row] = Results(p)[row]
    /\ \A row \in Rows, text \in Texts \ {<<>>} :
          row \notin Fields(p) /\ Only(p.far.printed, row, text) =>
             Results(q)[row] = Results(p)[row] \o text

Caret == [column : Nat, row : Places \X Nat]

HereIs(q, p) ==
    IF ~screen.visible \/ p.cursor = NoRow THEN q = p
    ELSE LET text == from_column(p.lines[p.cursor].text, caret.column)
         IN  Holds(q, p, [p.far EXCEPT !.anchor = [line |-> p.cursor, column |-> caret.column],
                                       !.held = text],
                   [text |-> text, caret |-> 0])

Cleared(p, owner) == [NewFarEndLine EXCEPT !.owner = owner, !.anchor = p.far.anchor]
Freed(p)          == [NewFarEndLine EXCEPT !.owner = "Local"]

OwnerIs(q, p, owner) ==
    IF owner = "FarEnd"
    THEN \E c : Holds(c, p, Cleared(p, owner), p.field) /\ HereIs(q, c)
    ELSE Holds(q, p, Freed(p), p.field)

\* The line is left, and its row remembered.
AwaitFar(p) == [p.far EXCEPT !.left   = IF p.far.anchor = NoAnchor THEN @ ELSE p.far.anchor.line,
                             !.anchor = NoAnchor,
                             !.awaiting_prompt = TRUE]

\* The line is read from where it is anchored.
TypedOn(p) == trim(row_from_anchor(p))

\* The line is submitted: its block opens, unless it is blank.
SubmittedIs(q, p) ==
    /\ Formed(q) /\ q.far = AwaitFar(p) /\ q.field = p.field
    /\ q.cursor = p.cursor /\ q.echo = p.echo /\ q.integration = p.integration
    /\ \A row \in Rows : q.lines[row].text = p.lines[row].text
    /\ Results(q) = Results(p)
    /\ IF TypedOn(p) = <<>> THEN q.open = p.open /\ Headings(q) = Headings(p)
       ELSE q.open # NoCommand /\ Headings(q) = Append(Headings(p), TypedOn(p))

\* A key goes out.
KeyFar(p, key) ==
    LET far == IF key \in {"Enter", "CtrlC"} THEN AwaitFar(p) ELSE p.far
    IN  [far EXCEPT !.was = caret, !.changed = <<>>, !.watching = TRUE]

KeyIs(q, p, key) ==
    /\ Formed(q) /\ q.far = KeyFar(p, key) /\ q.field = p.field
    /\ q.cursor = p.cursor /\ q.echo = p.echo /\ q.integration = p.integration
    /\ \A row \in Rows : q.lines[row].text = p.lines[row].text
    /\ Results(q) = Results(p)
    /\ IF key # "Enter" \/ TypedOn(p) = <<>> THEN q.open = p.open /\ Headings(q) = Headings(p)
       ELSE q.open # NoCommand /\ Headings(q) = Append(Headings(p), TypedOn(p))

-----------------------------------------------------------------------------
(* The settling of the rows.                                               *)
FollowFar(p) ==
    LET row  == trim_end(p.lines[p.cursor].text)
        held == trim_end(p.far.held)
    IN  IF \/ ~screen.visible \/ p.cursor \in {NoRow, p.far.anchor.line}
           \/ held = <<>> \/ ~IsSuffix(held, row)
        THEN p.far
        ELSE [p.far EXCEPT !.anchor = [line |-> p.cursor, column |-> Len(row) - Len(held)]]

Kinds == {"Nothing", "Caret", "Row", "Detached"}
Answering == [kind : Kinds, text : Texts, caret : Nat]

AnsweredIs(q, p, a) ==
    Holds(q, p, IF a.kind \in {"Nothing", "Caret"} THEN p.far
                ELSE [p.far EXCEPT !.held = a.text],
                CASE a.kind = "Nothing" -> p.field
                  [] a.kind = "Caret"   -> [p.field EXCEPT !.caret = a.caret]
                  [] OTHER              -> [text |-> a.text, caret |-> a.caret])

Taken(far) == [far EXCEPT !.changed = <<>>, !.watching = FALSE]
AnchorsOn(q, told, far) == \E c : Holds(c, told, far, told.field) /\ HereIs(q, c)

Reads(q, told, p) ==
    \E taken, moved :
       /\ Holds(taken, told, Taken(told.far), told.field)
       /\ Holds(moved, taken, FollowFar(taken), taken.field)
       /\ far_end_row(p.far.changed, moved.far.anchor, p.far.was, caret, p.far.held) \in Answering
       /\ AnsweredIs(q, moved, far_end_row(p.far.changed, moved.far.anchor, p.far.was, caret,
                                           p.far.held))

\* Nobody watched for an answer, or a prompt was awaited, or the answer is read.
Settles(q, told, p) ==
    IF ~p.far.watching THEN AnchorsOn(q, told, [Taken(told.far) EXCEPT !.left = NoRow])
    ELSE IF p.far.awaiting_prompt
    THEN AnchorsOn(q, told, [Taken(told.far) EXCEPT !.left = NoRow, !.awaiting_prompt = FALSE])
    ELSE Reads(q, told, p)

\* Whatever it was, what was in hand is out, and the rest is as it was.
Rested(q, p) ==
    /\ Formed(q) /\ Readable(q) /\ q.far.printed = <<>>
    /\ q.far.owner = p.far.owner /\ q.integration = p.integration /\ q.cursor = p.cursor
    /\ \A row \in Rows : q.lines[row].text = p.lines[row].text
    /\ Headings(q) = Headings(p)
    /\ Fields(q) \subseteq Fields(p) \cup {NoRow}
    /\ \A row \in Rows : row \in Fields(p) \/ Of(p.far.printed, row) = {} =>
          Results(q)[row] = Results(p)[row]
    /\ \A row \in Rows, text \in Texts \ {<<>>} :
          row \notin Fields(p) /\ Only(p.far.printed, row, text) =>
             Results(q)[row] = Results(p)[row] \o text

\* A step that publishes nothing.
Quietly(q, p) ==
    /\ Formed(q) /\ q.far.printed = p.far.printed
    /\ q.far.owner = p.far.owner /\ q.integration = p.integration /\ q.cursor = p.cursor
    /\ \A row \in Rows : q.lines[row].text = p.lines[row].text
    /\ Results(q) = Results(p) /\ Headings(q) = Headings(p)
    /\ Fields(q) \subseteq Fields(p) \cup {NoRow}

\* The caret moved along the row.
MovedTo(a, held, c) ==
    /\ a.kind \in {"Caret", "Row"} /\ a.caret = c
    /\ a.kind = "Caret" => a.text = held
    /\ a.text \in Texts /\ trim_end(a.text) = trim_end(held) /\ c <= Len(a.text)

-----------------------------------------------------------------------------
(* The steps from stage to stage.                                          *)
\* A step of the pump that leaves the rows, the cursor and the echo alone.
Unmoved == /\ \A row \in Rows : Text(row)' = Text(row)
           /\ pump'.cursor = pump.cursor /\ pump'.echo = pump.echo
           /\ pump.cursor \in Rows /\ EchoHeard => EchoHeard'

\* The shell goes on to a row with nothing on it, and prompts there.
BeginsAnew(row) ==
    /\ row \in Rows /\ row \notin shell.rows /\ Text(row) = <<>> /\ transcript[row] = <<>>
    /\ shell'.row = row /\ shell'.rows = shell.rows \cup {row}
    /\ shell'.printed = shell.printed /\ Fresh'

\* What is known when the first of the reads is taken.
Reading(r, q) ==
    /\ r = reads[1] /\ reads' = Tail(reads) /\ IsSeq(reads) /\ reads # <<>>
    /\ q = Received(pump, tracker, r.items) /\ Becomes(q) /\ screen' = r.at
    /\ settled' = (pump.far.owner = "FarEnd")
    /\ UNCHANGED <<keys, shell, presses, ran, pasted>>
    /\ Formed(pump) /\ Readable(pump)
    /\ Results(pump) = transcript /\ Headings(pump) = headings
    /\ Len(r.items) = 3 => tracker \in Tracker /\ ~tracker.markersSeen /\ ~tracker.blockOpen
    /\ Len(r.items) = 4 => Stands(tracker, "Output", TRUE)
    /\ Len(r.items) \in {0, 1, 2, 5, 6} => Stands(tracker, "CommandLine", FALSE)

\* A prompt on the row where the shell begins a line.
PromptAt(row) == [row |-> row, column |-> Len(Prompt), visible |-> TRUE]

\* What is in hand is as it was, but for one row.
HandOf(s, before, id) ==
    IsSeq(s) /\ \A row : row # id => Of(s, row) = Of(before, row)

\* All of the far-end line but what is noted and what is in hand.
SameLine(f, g) ==
    /\ f.owner = g.owner /\ f.anchor = g.anchor /\ f.left = g.left
    /\ f.awaiting_prompt = g.awaiting_prompt /\ f.watching = g.watching
    /\ f.was = g.was /\ f.held = g.held

\* What a row of the command line does.
RowOf(q, p, id, text) ==
    /\ Formed(q) /\ SameLine(q.far, p.far)
    /\ q.far.changed = Noted(p.far, id, p.lines[id].text, p.lines[id].text \o text)
    /\ p.far.owner = "FarEnd" => HandOf(q.far.printed, p.far.printed, id)
    /\ q.field = p.field /\ q.cursor = id /\ q.open = p.open
    /\ \A row \in Rows : q.lines[row].text = IF row = id THEN p.lines[row].text \o text
                                             ELSE p.lines[row].text
    /\ Results(q) = Results(p) /\ Headings(q) = Headings(p)

TwoNoted(s, e, id, after) ==
    Len(s) = 2 /\ s[1] = e /\ s[2].line = id /\ s[2].after = after

\* The pump once the rows have settled.
SettledOn(q, told) ==
    /\ PrintedOut(told, pump) /\ Settles(q, told, pump) /\ Becomes(q) /\ Formed(q)
    /\ ~settled' /\ UNCHANGED <<tracker, screen, keys, reads, shell, presses, ran, pasted>>
    /\ Unmoved /\ headings' = headings

\* The line is in the field.
Lands(q, txt) ==
    /\ q.far.owner = "FarEnd" /\ ~q.far.awaiting_prompt /\ q.far.left = NoRow
    /\ q.far.anchor = [line |-> shell.row, column |-> 1] /\ q.far.held = txt
    /\ q.field = [text |-> txt, caret |-> shell.cursor]
    /\ trim_end(txt) = trim_end(shell.line) /\ shell.cursor <= Len(txt)

\* The answer is read, from where the line begins now.
Picked(moved) ==
    far_end_row(pump.far.changed, moved.far.anchor, pump.far.was, caret, pump.far.held)

ReadBy(q, told, taken, moved) ==
    /\ Formed(taken) /\ taken.far = Taken(told.far)
    /\ taken.cursor = shell.row /\ taken.lines[shell.row].text = Line
    /\ Formed(moved) /\ moved.far = FollowFar(taken) /\ moved.field = pump.field
    /\ Picked(moved) \in Answering /\ AnsweredIs(q, moved, Picked(moved))

\* The settling of what nobody watches for: here the line begins.
BeginsHere(q) ==
    LET text == from_column(Text(pump.cursor), caret.column)
    IN  /\ q.far.owner = "FarEnd" /\ ~q.far.awaiting_prompt /\ ~q.far.watching
        /\ q.far.printed = <<>>
        /\ screen.visible /\ pump.cursor # NoRow =>
              /\ q.far.left = NoRow
              /\ q.far.anchor = [line |-> pump.cursor, column |-> caret.column]
              /\ q.far.held = text /\ q.field = [text |-> text, caret |-> 0]
=============================================================================
