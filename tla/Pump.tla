-------------------------------- MODULE Pump --------------------------------
(***************************************************************************)
(* The pump of a session (services/session.rs): from what the boundary     *)
(* tracker concludes and the lines the user submits it decides which       *)
(* command each row belongs to, and tells the session actor.               *)
(*                                                                         *)
(* The pump is a record; each of its methods is an operator on it.  Acter  *)
(* owns the line here: the pump's far-end fields are then inert, and they  *)
(* are left out, with styles and what is written to the far end.           *)
(*                                                                         *)
(* A text is a sequence of tokens, each one character, none of them blank. *)
(***************************************************************************)
EXTENDS Boundaries, SequencesExt

CONSTANTS Tokens, Punctuation    \* characters, and those that are not alphanumeric

ASSUME PunctuationAssumption == Punctuation \subseteq Tokens

NoCommand == 0
NoExit    == -1
NoText    == <<"no text">>       \* of an Option<String>: not a text
NoDue     == [revision |-> "None", text |-> <<>>, spoken |-> FALSE]

ASSUME NoTextAssumption == NoText \notin Seq(Tokens)

reports_exit_code == Markers \in {"Full", "PromptCommandLineAndExitCode"}

-----------------------------------------------------------------------------
(* What the actor is told, and what it makes of it: the command it takes   *)
(* to be running, the commands it was told have started, in order, and     *)
(* whether it was ever told something it has to drop.                      *)

Started(id, line)    == [kind |-> "CommandStarted", id |-> id, line |-> line]
Ended(id, exit)      == [kind |-> "CommandEnded", id |-> id, exit |-> exit]
Interrupted(id)      == [kind |-> "CommandInterrupted", id |-> id]
Output(line, due)    == [kind |-> "Output", line |-> line, revision |-> due.revision,
                         text |-> due.text, spoken |-> due.spoken]
PromptDrawn(text)    == [kind |-> "PromptDrawn", text |-> text]
SelfTalk(on)         == [kind |-> "SelfTalk", on |-> on]
Told(kind)           == [kind |-> kind]

NewActor == [active |-> NoCommand, begun |-> <<>>, dropped |-> FALSE, selfTalk |-> FALSE]

Hears(actor, input) ==
    CASE input.kind = "CommandStarted" ->
            [actor EXCEPT !.active = input.id, !.begun = Append(@, input.id),
                          !.dropped = @ \/ actor.active # NoCommand]
      [] input.kind \in {"CommandEnded", "CommandInterrupted"} ->
            [actor EXCEPT !.active = NoCommand,
                          !.dropped = @ \/ actor.active # input.id]
      [] input.kind = "Output" ->
            [actor EXCEPT !.dropped = @ \/ actor.active = NoCommand]
      [] input.kind = "SelfTalk" -> [actor EXCEPT !.selfTalk = input.on]
      [] OTHER -> actor

-----------------------------------------------------------------------------
(* The pump.  submitted are the lines waiting for their block, lines what  *)
(* is recorded of each row, held the text that may yet be an echo, told    *)
(* what this step told the actor.                                          *)

UnseenRow == [seen |-> FALSE, owed |-> FALSE, text |-> <<>>, shown |-> NoCommand]
NoHeld    == [line |-> NoRow, revision |-> "Appended", text |-> <<>>, spoken |-> FALSE]
NewEcho   == [prompt |-> <<>>, text |-> NoText]

\* The flag the API reads, and the stores the step under way makes of it: the
\* thread of the API may read it before each of them.
NewFlag  == [now |-> FALSE, stores |-> <<>>]

NewPump(setup) ==
    [nextId |-> 1, running |-> NewFlag, integration |-> "Pending",
     drawing |-> NoText, standing |-> NoText, setup |-> setup, selfTalk |-> NoCommand,
     submitted |-> <<>>, echo |-> NewEcho, open |-> NoCommand,
     interrupted |-> FALSE, unshown |-> FALSE,
     lines |-> [row \in Rows |-> UnseenRow], held |-> NoHeld, row |-> <<>>,
     cursor |-> NoRow, pendingRow |-> NoRow,
     actor |-> NewActor, told |-> <<>>]

Tell(p, input) ==
    [p EXCEPT !.told = Append(@, input), !.actor = Hears(@, input)]

\* Pump.running, and the mirror of it the API reads.
IsRunning(p) == (p.open # NoCommand /\ ~p.unshown) \/ p.submitted # <<>>

\* Fault: a line that waits for its block does not count.
settle_runningOpen(p) ==
    [p EXCEPT !.running.stores = Append(@, p.open # NoCommand /\ ~p.unshown)]

settle_running(p) == [p EXCEPT !.running.stores = Append(@, IsRunning(p))]

-----------------------------------------------------------------------------
(* Blocks.                                                                 *)

open(p, id, line) ==
    Tell([p EXCEPT !.open = id, !.unshown = FALSE], Started(id, line))

\* A block that starts toward the frontend only with its first text.
open_unshown(p, id) == [p EXCEPT !.open = id, !.unshown = TRUE]

Ending(p, exit) ==
    IF exit = NoExit /\ p.interrupted THEN Interrupted(p.open)
    ELSE Ended(p.open, IF exit = NoExit THEN 0 ELSE exit)

\* What the closing block's rows held went to it, and to no later one.
Shut(p) == [p EXCEPT !.open        = NoCommand,
                     !.lines       = [row \in Rows |-> [@[row] EXCEPT !.owed = FALSE]],
                     !.interrupted = FALSE,
                     !.unshown     = FALSE]

\* The end of Acter's own command ends the silence about it.
Unmuted(p, id) ==
    IF p.selfTalk = id THEN Tell([p EXCEPT !.selfTalk = NoCommand], SelfTalk(FALSE)) ELSE p

\* Fault: an ending is told whether or not the start was.
closeAlways(p, exit) ==
    IF p.open = NoCommand THEN p
    ELSE settle_running(Unmuted(Tell(Shut(p), Ending(p, exit)), p.open))

\* Fault: speech comes back before the ending is told.
closeUnmutesFirst(p, exit) ==
    LET unmuted == Unmuted(Shut(p), p.open)
    IN  IF p.open = NoCommand THEN p
        ELSE settle_running(IF p.unshown THEN unmuted ELSE Tell(unmuted, Ending(p, exit)))

close(p, exit) ==
    LET told == IF p.unshown THEN Shut(p) ELSE Tell(Shut(p), Ending(p, exit))
    IN  IF p.open = NoCommand THEN p
        ELSE settle_running(Unmuted(told, p.open))

\* The actor drops output while no command is active, so text nobody
\* submitted gets a block of its own.
unclaimed(p) ==
    settle_running(open_unshown([p EXCEPT !.nextId = @ + 1], p.nextId))

output(p, id, due) ==
    LET shown == IF p.unshown
                 THEN settle_running(Tell([p EXCEPT !.unshown = FALSE],
                                          Started(p.open, NoText)))
                 ELSE p
    IN  IF p.unshown /\ due.text = <<>>
        THEN p
        ELSE Tell([shown EXCEPT !.lines[id].shown = IF p.lines[id].seen THEN p.open ELSE @],
                  Output(id, due))

publish(p, id, due) ==
    output(IF p.open = NoCommand THEN unclaimed(p) ELSE p, id, due)

-----------------------------------------------------------------------------
(* Submissions and their echoes.                                           *)

\* Fault: a blank line waits for an echo too.
submit_lineBlank(p, id, line, ours) ==
    settle_running([p EXCEPT !.submitted = Append(@, [id |-> id, line |-> line, ours |-> ours]),
                             !.pendingRow = p.cursor])

submit_line(p, id, line, ours) ==
    settle_running(
        IF line = <<>> THEN p
        ELSE [p EXCEPT !.submitted = Append(@, [id |-> id, line |-> line, ours |-> ours]),
                       !.pendingRow = p.cursor])

\* The longest pending line and one character more; 0 with none pending.
window(p) ==
    IF p.submitted = <<>> THEN 0
    ELSE 1 + Max({Len(p.submitted[i].line) : i \in DOMAIN p.submitted})

pending_echo(p, id) == p.pendingRow = id /\ p.submitted # <<>>

\* The submissions a row ends with, as words.
EndsWithWord(row, line) ==
    /\ IsSuffix(line, row)
    /\ Len(row) = Len(line) \/ row[Len(row) - Len(line)] \in Punctuation

echoed(p, row) == {i \in DOMAIN p.submitted : EndsWithWord(row, p.submitted[i].line)}

\* Fault: the submissions before the one that was read stay in the queue.
adoptOnly(p, index) == [p EXCEPT !.submitted = RemoveAt(@, index)]

\* Fault: the submission after the one that was read is retired too.
adoptPast(p, index) == [p EXCEPT !.submitted = SubSeq(@, index + 2, Len(@))]

\* The submissions before the one that was read are retired with it.
adopt(p, index) == [p EXCEPT !.submitted = SubSeq(@, index + 1, Len(@))]

\* What held text says before the echo of this line; NoText when they cannot
\* be told apart.  whole is the row's text when a revision carried it.
before_echo(held, whole, line) ==
    IF whole = NoText
    THEN IF IsSuffix(line, held) THEN SubSeq(held, 1, Len(held) - Len(line)) ELSE NoText
    ELSE LET found == {i \in 0..(Len(whole) - Len(held)) :
                          SubSeq(whole, i + 1, i + Len(held)) = held}
             echoAt == Len(whole) - Len(line)
         IN  IF found = {} THEN NoText
             ELSE IF echoAt <= Max(found) THEN <<>>
             ELSE SubSeq(held, 1, Min({echoAt - Max(found), Len(held)}))

HeldDue(held) == [revision |-> held.revision, text |-> held.text, spoken |-> held.spoken]

spill(p) ==
    IF p.held = NoHeld THEN p
    ELSE publish([p EXCEPT !.held = NoHeld], p.held.line, HeldDue(p.held))

absorb(held, id, due) ==
    IF held = NoHeld
    THEN [line |-> id, revision |-> due.revision, text |-> due.text, spoken |-> due.spoken]
    ELSE IF due.revision = "Appended"
    THEN [held EXCEPT !.text = @ \o due.text, !.spoken = @ \/ due.spoken]
    ELSE [held EXCEPT !.text = due.text, !.revision = due.revision,
                      !.spoken = @ \/ due.spoken]

\* Fault: text of another row replaces what is held.
holdOver(p, id, due) ==
    IF window(p) = 0 THEN publish(spill(p), id, due)
    ELSE [p EXCEPT !.held = absorb(IF @.line = id THEN @ ELSE NoHeld, id, due)]

\* Text that may be an echo waits while it can still become one.
hold(p, id, due) ==
    IF window(p) = 0 THEN publish(spill(p), id, due)
    ELSE LET kept == IF p.held.line = id THEN p ELSE spill(p)
             now  == [kept EXCEPT !.held = absorb(@, id, due)]
         IN  IF Len(now.held.text) > window(p) THEN spill(now) ELSE now

\* The block of an echoed line opens, once the held text that is not the echo
\* has reached the block before it.
Echoed(p, index, whole) ==
    LET line   == p.submitted[index].line
        freed  == [adopt(p, index) EXCEPT !.held = NoHeld]
        before == before_echo(p.held.text, whole, line)
        after  == IF p.held = NoHeld \/ before = <<>> THEN freed
                  ELSE publish(freed, p.held.line,
                               [HeldDue(p.held) EXCEPT
                                   !.text = IF before = NoText THEN @ ELSE before])
    IN  [settle_running(open(close(after, NoExit), p.submitted[index].id, line))
         EXCEPT !.row = <<>>]

\* A row outside the marked command line may still be the echo of a line that
\* is pending, as it is in a shell that marks nothing.
boundary(p, region, id, text, revision) ==
    LET grown == IF revision = "Appended" THEN p.row \o text ELSE text
        row   == SubSeq(grown, 1 + Max({0, Len(grown) - window(p)}), Len(grown))
        which == echoed(p, row)
    IN  IF \/ region = "CommandLine"
           \/ p.submitted = <<>>
           \/ revision # "Appended" /\ p.pendingRow # id
        THEN [p EXCEPT !.row = <<>>]
        ELSE IF which = {}
        THEN [p EXCEPT !.row = row]
        ELSE Echoed(p, Min(which), IF revision = "Appended" THEN NoText ELSE text)

\* The submission of a block the tracker started: the one the echo names, or
\* the first, or a new command nobody submitted.
claim(p, echo) ==
    LET named == {i \in DOMAIN p.submitted : p.submitted[i].line = echo}
        first == IF named = {} THEN 1 ELSE Min(named)
    IN  IF p.submitted = <<>>
        THEN [pump   |-> [p EXCEPT !.nextId = @ + 1],
              id     |-> p.nextId, line |-> NoText, minted |-> TRUE]
        ELSE [pump   |-> adopt(p, first),
              id     |-> p.submitted[first].id,
              line   |-> IF p.submitted[first].ours THEN p.submitted[first].line ELSE NoText,
              minted |-> FALSE]

\* Fault: a block nobody submitted is not opened.
block_startedUnasked(p) ==
    IF p.submitted = <<>> THEN [p EXCEPT !.echo = [prompt |-> <<>>, text |-> <<>>]]
    ELSE LET claimed == claim(close(p, NoExit), NoText)
         IN  settle_running(open(claimed.pump, claimed.id, claimed.line))

block_started(p) ==
    LET echo    == IF p.echo.text = <<>> THEN NoText ELSE p.echo.text
        taken   == [p EXCEPT !.echo = [prompt |-> <<>>, text |-> <<>>]]
        claimed == claim(close(taken, NoExit), echo)
        line    == IF echo # NoText THEN echo ELSE claimed.line
    IN  IF p.open # NoCommand /\ p.submitted = <<>>
        THEN taken
        ELSE settle_running(
                IF claimed.minted /\ line = NoText
                THEN open_unshown(claimed.pump, claimed.id)
                ELSE open(claimed.pump, claimed.id, line))

-----------------------------------------------------------------------------
(* Lines.  now is the tracker's region once it has seen the whole read.    *)

prompt_finished(p, now) ==
    IF now = "Prompt" \/ p.drawing = NoText THEN p
    ELSE LET drawn == [p EXCEPT !.drawing = NoText]
         IN  IF p.drawing \in {<<>>, p.standing} THEN drawn
             ELSE Tell([drawn EXCEPT !.standing = p.drawing], PromptDrawn(p.drawing))

drawn(p, now, region, text, revision) ==
    IF ~reports_exit_code THEN p
    ELSE IF region # "Prompt" THEN prompt_finished(p, now)
    ELSE [p EXCEPT !.drawing = IF revision = "Appended" /\ @ # NoText
                               THEN @ \o text ELSE text]

\* Echo.observe: the prompt before the command line, and the text on it.
observe_echo(echo, region, text, revision) ==
    CASE region = "CommandLine" ->
            [echo EXCEPT !.text =
                IF revision = "Appended"
                THEN IF @ = NoText THEN NoText ELSE @ \o text
                ELSE IF IsPrefix(echo.prompt, text)
                     THEN SubSeq(text, Len(echo.prompt) + 1, Len(text)) ELSE NoText]
      [] region = "Prompt" ->
            [prompt |-> IF revision = "Appended" THEN echo.prompt \o text ELSE text,
             text   |-> <<>>]
      [] OTHER -> [prompt |-> <<>>, text |-> <<>>]

\* Records the row, and what of it is due to the buffer.
Recorded(row, text, revision) ==
    CASE revision = "Appended"  ->
            [row EXCEPT !.seen = TRUE, !.owed = FALSE, !.text = @ \o text]
      [] revision = "Rewritten" ->
            [row EXCEPT !.seen = TRUE, !.owed = TRUE, !.text = text]
      [] revision = "Settled"   -> UnseenRow

due(row, text, revision) ==
    IF revision = "Settled" /\ row.seen /\ ~row.owed THEN NoDue
    ELSE [revision |-> revision, text |-> text, spoken |-> revision # "Rewritten"]

marked(region) ==
    region = "Output" \/ (region = "Prompt" /\ ~reports_exit_code)

wants(p, region) ==
    \/ p.integration # "Integrated" /\ region = "Unstructured"
    \/ p.integration # "Unintegrated" /\ marked(region)

\* A rewrite that leaves the text as it was only changes its colours.
recoloured(p, id, text, revision) ==
    revision = "Rewritten" /\ p.lines[id].seen /\ p.lines[id].text = text

recolour(p, id, text) ==
    IF p.held.line # id /\ p.open # NoCommand /\ p.lines[id].shown = p.open
    THEN Tell(p, Output(id, [revision |-> "Rewritten", text |-> text, spoken |-> FALSE]))
    ELSE p

line(p, now, region, id, text, revision) ==
    LET heard    == [drawn(p, now, region, text, revision) EXCEPT
                        !.echo   = observe_echo(@, region, text, revision),
                        !.cursor = IF revision = "Settled" THEN @ ELSE id,
                        !.lines[id] = Recorded(@, text, revision)]
        news     == due(p.lines[id], text, revision)
        passed   == IF news = NoDue \/ ~wants(p, region) THEN heard
                    ELSE IF p.open # NoCommand /\ ~pending_echo(p, id)
                    THEN output(heard, id, news)
                    ELSE hold(heard, id, news)
        bounded  == boundary(passed, region, id, text, revision)
    IN  IF recoloured(p, id, text, revision) THEN recolour(p, id, text)
        ELSE IF bounded.submitted = <<>> THEN spill(bounded) ELSE bounded

-----------------------------------------------------------------------------
(* A read: the tracker observes all of it before the pump hears any of it. *)

BlockEvent(kind)      == [kind |-> kind]
LineEvent(region, it) == [kind |-> "Line", region |-> region,
                          id |-> it.id, text |-> it.text, revision |-> it.revision]

\* What the tracker says of one item: at most integration, a start and an end.
Says(so, item) ==
    (IF so.announced THEN <<BlockEvent("MarkersObserved")>> ELSE <<>>)
    \o (IF so.started = 1 THEN <<BlockEvent("BlockStarted")>> ELSE <<>>)
    \o (IF so.ended = 1
        THEN <<[kind |-> "BlockEnded",
                exit |-> IF item.kind = "CommandEnd" THEN item.exit ELSE NoExit]>>
        ELSE <<>>)
    \o (IF item.kind = "Line" THEN <<LineEvent(so.tracker.region, item)>> ELSE <<>>)

observe(tracker, item) ==
    IF item.kind = "Line"
    THEN observe_row(tracker, item.id)
    ELSE observe_marker(end_command_line(Concluded(tracker)), item.kind)

\* The tracker after a read, and the events it makes of it.
Observed(tracker, items) ==
    FoldLeft(LAMBDA seen, item :
                LET so == observe(seen.tracker, item)
                IN  [tracker |-> so.tracker, events |-> seen.events \o Says(so, item)],
             [tracker |-> tracker, events |-> <<>>], items)

Heard(p, now, event) ==
    prompt_finished(
        CASE event.kind = "MarkersObserved" ->
                Tell([p EXCEPT !.integration = "Integrated"], Told("MarkersObserved"))
          [] event.kind = "BlockStarted" -> block_started([p EXCEPT !.standing = NoText])
          [] event.kind = "BlockEnded"   -> close([p EXCEPT !.standing = NoText], event.exit)
          [] event.kind = "Line" ->
                line(p, now, event.region, event.id, event.text, event.revision),
        now)

feed(p, now, events) ==
    prompt_finished(FoldLeft(LAMBDA q, event : Heard(q, now, event), p, events), now)

\* Once something was drawn the setup line goes out, quietly.
set_up(p) ==
    IF p.cursor = NoRow \/ p.setup = <<>> THEN p
    ELSE submit_line(
            Tell([p EXCEPT !.setup = <<>>, !.nextId = @ + 1, !.selfTalk = p.nextId],
                 SelfTalk(TRUE)),
            p.nextId, p.setup, TRUE)

interrupt(p) == [p EXCEPT !.interrupted = TRUE]

grace_expired(p) ==
    LET told == Tell([p EXCEPT !.integration =
                         IF @ = "Pending" THEN "Unintegrated" ELSE @],
                     Told("GracePeriodExpired"))
    IN  settle_running(IF p.selfTalk = NoCommand THEN told
                       ELSE Tell([told EXCEPT !.selfTalk = NoCommand], SelfTalk(FALSE)))
=============================================================================
