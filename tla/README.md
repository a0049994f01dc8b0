# Acter, specified

Acter is a terminal for listeners: what a shell prints is shown as rows of a
results buffer and, by policy, read aloud.  These modules specify its session
from the emulator's grid to the live region of the window, and how it connects
and keeps what it saves. TLC checks them on small instances, and TLAPS proves
parts of them for every instance.

## The system

One session is a chain of tasks (`services/session.rs` starts it):

    transport --bytes--> terminal engine --items--> boundary tracker
        ^                                               | events
        | keystrokes                                    v
    window --requests--> SessionService (inbox) --> pump --inputs--> session actor
        ^                                                               |
        +-------------------- events (attached sink) -------------------+

| component | state it keeps | operations | what makes it right |
|---|---|---|---|
| pacing policy (`policies/autoread.rs`), unspoken text (`entities/unspoken_text.rs`) | streak of auto-reads, two latches, two offsets; the text no verdict was given on | `on_output`, `on_wake`, `on_command_end`; `push`, `take` | each text gets one verdict, in time; limits and latches hold |
| session actor (`controllers/session_actor.rs`) | the running command, rows and text waiting, two timers, session switches | one handler per input, two timer handlers | rows before speech, nothing lost or said twice, nothing after the end, nothing left over for the next command |
| boundary tracker (`policies/boundary_tracker.rs`) | region, block flag, prompt and command rows, marker latch | `observe` | blocks alternate whatever is forged; the echo is told from output |
| pump and `SessionService` (`services/session.rs`) | submissions, the open block, held and recorded rows, prompts, the bounded inbox, the `running` and line-owner mirrors | feed a read, serve a request, two timers; the calls of the API | output is never sent with no command started; a submission is named once, in order; the mirrors tell the truth |
| far-end row (`policies/far_end_row.rs`, the far-end half of `session.rs`) | the anchor of the line being edited, the field as last told, keys not answered yet | a key, a paste, a settling of the cursor, Enter | the field is the line; a block is headed by what ran |
| terminal engine (`acter-term`) | the grid, line identities, the record of each line on the screen | `advance`, `observe`, `reclaim` | each line announced, revised, settled once; the screen is shown as it is |
| attached sink (`services/session.rs`) | events not yet taken, the channel once attached | `send`, `attach` | nothing overtakes anything; the limit costs the newest |
| connecting (`services/connect.rs`, `services/conversation.rs`, `controllers/connecting.rs`) | the live session, session and attempt ids, the attempts an answer can reach, the question asked | use a profile, answer, save, rename, forget a connection, change the line's owner | no lost update between two locks; every question answered once, every attempt ended |
| settings (`adapters/settings_file.rs`) | the stored file, the document in memory, the write lock | open, change, copy aside, write, move into place | a crash leaves the old document or the new one |
| session controller (`ui/src/controllers/app.ts`) | open blocks, the running command, the line's owner, calls not answered yet | submit, toggle, attach; answers; events | headings, blocks and owner are those the session meant, in any order of answers and events |
| results buffer (`ui/src/adapters/buffer.ts`) | rows of a command by line | `applyLine` | shows the current state of each line, in the order lines appeared |
| announcer (`ui/src/adapters/announcer.ts`), New connection and Save dialogs | the queue, two timers, the live region in front | announce, drain, clear, a dialog opens, closes, is offered | announcements in order and apart, standing long enough, and heard |
| transports (`acter-transports`) | reader and writer threads, the child | start, write, interrupt, resize | bytes in order; a closed far end is reported once |
| shells, machines, signatures (`acter-shells`), system menu, spoken wording | none | lookups of installed shells; tables | pure I/O and tables |

What is hard in this code is order and time: inputs, two timers and the end of
a command interleave in the actor; markers arrive forged, late or never in the
tracker; the API's callers race the pump; rows are revised while they wait; the
cursor moves for a key, for a redraw and for output alike; a session talks
before its window listens; saving takes two locks; a write may stop half way.
`PROJECT.json` lists each such hazard at its line.

## The modules

    Autoread ----+
                 +--> SessionActor --> MCSessionActor
    ResultsBuffer+         +---------> SessionActorProofs

    Boundaries --> BoundaryTracker --> MCBoundaryTracker
        |             |  (implements Blocks)
        |             +--------------> BoundaryTrackerProofs
        +--> Pump --> Session -------> MCSession, SessionProofs
               +----> FarEnd --> FarEndInvariant --> MCFarEnd
                                        |
                                   FarEndSteps ----> FarEndProofs

    LineStream <-- Engine (implements it) --> MCEngine, EngineProofs

    Settings --> Connect ------------> MCConnect, ConnectProofs
    Window --------------------------> WindowProofs
    Announcer -----------------------> MCAnnouncer, AnnouncerProofs

| module | models | how its state and actions correspond |
|---|---|---|
| `Autoread` | `policies/autoread.rs`, `entities/unspoken_text.rs`, `entities/pacing_state.rs` | operators with the functions' names; a text is a sequence of tokens and newlines, a time an offset |
| `ResultsBuffer` | placing and revising rows in `buffer.ts` | a fold of the rows sent: the order of the lines and the text of each |
| `SessionActor` | `controllers/session_actor.rs` | one action per input of `handle` and per timer of `run`; the fields of the actor and of the active command are variables |
| `Boundaries` | the rules of `policies/boundary_tracker.rs` | each arm of `observe_marker` and `observe_row` as an operator on the tracker and on what was concluded so far |
| `BoundaryTracker` | a tracker fed any lines and markers | `Line` and `Marker` are one item of `observe` |
| `Blocks` | what the pump may rely on | blocks open and close by turns, integration is announced once and first |
| `Pump` | the methods of `Pump` in `services/session.rs` | the struct is a record, each method an operator on it; `told` is what one step sends the actor, `actor` what the actor makes of it |
| `Session` | `SessionService` and `Pump::run`, with Acter owning the line | the API's calls, split where another thread can come between (`Submit` and `Store`, `Press` and `SendInterrupt`); one action per branch of the loop's `select!`, a read being received, heard event by event and finished; the stores a step makes of the running flag come one by one after it (`SettleRunning`), and the API's calls between them |
| `FarEnd` | the far-end half of the pump, `policies/far_end_row.rs`, and a line-editing shell as its environment | the pump's record with the far-end line and the field; keys and reads are queues; the shell edits, recalls, completes, runs, drops |
| `LineStream` | what `entities/terminal_item.rs` promises of line identities | a reader's text of each line, and which lines have settled |
| `Engine` | `alacritty_engine/extractor.rs`, the loop of `alacritty_engine.rs` and a grid | a program's writes, then a segment at a time: observe each row, settle, reclaim, emit |
| `Settings` | `adapters/settings_file.rs` | the document, the file, and a change in its steps, which a failure or a crash may end anywhere |
| `Connect` | `services/connect.rs`, `services/conversation.rs`, `controllers/connecting.rs`, and the questions of `container.rs` and of the SSH transport | an attempt is a record per place of the window, one action per step between two locks; the main thread runs one command at a time; `reload` is a window loaded again, which hears no more of the attempts that go on |
| `Window` | `ui/src/controllers/app.ts`, `AttachedSink` and the session's inbox | calls and answers are queues, a session's events another; every handler of the controller an action |
| `Announcer` | `ui/src/adapters/announcer.ts`, the dialogs' part of `main.ts` | two timers as times they are due; a region is the list of its lines |

The names are the code's.  Names ending otherwise (`Said`, `Arm`, `Shut`, ...)
stand for a part of one function, and `map` in `PROJECT.json` gives its lines.
Operators marked "Fault" are not part of the model: each is a version of the
definition after it with a bug, and shows that the property it is paired with
would notice.

### What the models leave out

* `SessionActor`, `Pump`: a token stands for a word, or in `Pump` for one
  character; every spoken chunk of a command is a token of its own, so that what
  is read can be told from what was sent. Styles, wording, and what is written
  to the far end are left out. In `Session`, texts have no blanks, so that the
  code's trimming is the identity on them, and Acter owns the line: the far-end
  half of the pump is inert then ("every field is inert while Acter owns the
  line"); `FarEnd` is the other half. The stores of one step come after what it
  tells the actor, while the code has them in between; nobody reads both.
* `FarEnd`: the terminal is `Width` columns wide, and the caret the pump reads is
  the column and the row of the cursor on it, while a wrapped line is one row of
  the model, as it is one logical row of the extractor. Three properties assume
  `OnOneRow`, that prompt and line fit on a row: see `MCFarEnd_wrapped.cfg`
  below. That a prompt at the bottom scrolls when the line wraps is left out.
  What was pasted is unwatched, so the anchor is taken again after it
  and the field then starts behind it, where the documentation of
  `far_end_row.rs:29` has "The column it sat at, which is where the command line
  begins"; three properties therefore speak of lines with nothing pasted. The
  owner is toggled only at rest with nothing typed, a line has no leading blank,
  Tab on an empty line rings the bell, and keys typed ahead of a running command
  echo nothing. Exit codes, colours, the idle clearing of the field and a shell
  without markers are left out.
* `Engine`: colours, wide characters, replies to the program, synchronized
  updates (roadmap item 46), the full reset (item 45) and resizing, which no
  session asks for, are left out. When more rows scroll by in one read than the
  grid keeps, the rows are shown again under new identities, as in the code; rows
  above the cursor are not scanned after a switch of the screen, and
  `ScreenIsRead` excludes them.
* `Connect`: names are those the service does not refuse; whether a shell's
  setup was explained before is a choice, as is every answer of a server. An
  answer left over from an earlier question (roadmap item 43) is an answer to
  the next one: the code reads it as giving up unless it is of the kind asked
  for, and `answer` has both. A place of the window has one attempt that waits
  for nobody at a time: an attempt left at a question is forgotten once its
  place begins another, as it takes no more steps. What a change does to the
  document's other fields is left out.
* `Window`: calls are run one at a time and answered in order, as the
  synchronous commands of the shell are. One block's output is a count.
* `Announcer`: one offer to save at a time is a bound of the model. Three things
  in the code are worth knowing that no property claims otherwise: a dialog
  closed with Escape or Cancel never reports that the document is back, so the
  next announcement can be lost; text queued when a dialog closes is drained
  before what the closing says; and a question dialog has no live region of its
  own, so announcements go on beneath it, where nobody hears them. The window's
  clock stepping back delays speech, and is not modelled.

The environments are the code's too. For the actor, the pump: commands one at
a time, rows only between start and end. For `Session`, the terminal: a row
is only revised after it appeared, a row that leaves the screen says one thing
in that read (`Extractor::emit_line`), and says nothing afterwards. `Engine`
shows what the extractor keeps of this, against any program.

## The runs

| run | question | bounds, and why they are enough |
|---|---|---|
| `speech` | is the text of one command read once, in order, in time, within the limits? | 4 chunks, 7 ticks, windows 2 and 3, limit 1: the guard trips on the second flush and there is time for two more; patience fires with text still arriving |
| `rendering` | do rows reach the buffer as described, is it behind on no line when a text is read, and does every row and text get its turn? | 3 chunks of every revision on 2 lines: a row can be superseded, re-appended and settled; fair |
| `session` | what do the switches do to speech and timers at any moment? | 2 commands, all switches, failures and interrupts, 3 ticks: a timer armed in one command could fire in the next |
| `tracker` | do forged and disordered markers leave the blocks, the echo and the prompt right? | 3 blocks, 3 rows; the state besides the counters is finite, so this is every state of a tracker |
| `marked` | in a marked shell with a setup line, do tracker, pump and actor agree? | 5 items, 2 submissions besides the pump's own ids, an inbox of one: the setup's block can open and close while a line waits |
| `unmarked` | where echoes alone name commands, do lines start once and in order, can they be stopped, and is held text let go? | 4 items on 2 rows, blank lines, one interrupt, an inbox of one; a line can be submitted between two stores of the flag |
| `farend` | is the field the line, the heading what ran, and the rest in the results? | 7 keys, a line of 3 characters on 6 columns, 9 rows: two commands can be typed, edited, completed or recalled and run; the user waits for the answer to each key |
| `engine` | are lines in screen order, settled once, shown as they are, and named as promised? | 3 rows of screen, 2 of history, 6 writes: lines wrap, scroll into the history, out of it, and are saturated between two reads |
| `window` | are events in order, do headings stand until the command is over, and do the copies of the owner agree? | 1 session, 5 events, 2 calls, a backlog of 2, an inbox of 3: the backlog overflows before the window attaches, and two calls cross any events; the inbox never fills |
| `connect` | is the file good at any crash, every name told apart, every attempt ended or at a question? | 2 spellings of one name, a server and a local program, attempts from 2 places, 1 password, writes that fail or crash anywhere, a window loaded again over its first attempt |
| `announcer` | are announcements in order, apart, standing, and heard? | gap 2, clearing 3, hold 1, 8 ticks, 6 announcements, 2 dialogs: the offer waits for a queue, a dialog opens meanwhile, timers fire late |
| `erased` | what does erasing the history do to the extractor? | 2 rows of screen, 2 of history, 7 writes: the smallest that shows the finding below |

Every run stops at its bounds, which is why none checks for deadlock.
`MCFarEnd_stages.cfg` checks, on the instance of `farend`, the invariant that the
proofs rest on, `InStep`.

**Fairness.** In `rendering`, of `Tick`, `WakeRender` and `WakePacing`: the
clock runs, and `select!` polls its branches in random order, so a timer that
stays due is served even when inputs keep coming. Nothing is assumed of the
pump, which may never send another input. In `connect`, strong fairness of an
attempt's own steps and of the end the window hears or its thread returns with,
and of a save's store and the second lock of every command, because each waits
for a lock or for the main thread, which others take in between and give back;
weak fairness of the steps of a write, which nothing disables. Every step of a
far end is assumed to end, well or not. Nothing makes the listener answer: that
an attempt ends unless it waits at a question is what `EveryAttemptEnds` says,
and that such a question is one an answer can still reach, unless the window was
loaded again. Those attempts the property leaves out by name (`Parked`): their
question is put to a window that is gone, no other has their id, and their
thread waits as long as the process lives. That is roadmap item 48, "A question
nobody will answer parks a thread for good". Item 43, "A leftover answer can
resolve the next question in the same attempt", ends an attempt early and keeps
none from ending.

## Findings

* `erased` (code bug, `extractor.rs:473`). The numbers of the rows are kept right
  only by `reclaim`, "because [`Extractor::reclaim`] does the evicting and adds
  what it evicts to `base`" (`extractor.rs:62-63`). A program that erases the
  history (`ESC [ 3 J`) evicts rows behind its back; a wrapped line that reached
  into the history is still recorded at its old number, and settling it asks
  the grid for a row below its bottom. The fuzz test at `alacritty_engine.rs:719`
  does not meet it.

The configurations below are not among the runs; each reproduces, when run by
hand, a disagreement with the code's documentation or tests. The part of a name
before the underscore is the module, `Window` for `MCWindow`.

* `MCSession_grown_row.cfg` (`session.rs:1209`). A row that was shown and then
  grows and scrolls away within one read comes as a settlement only; `due`
  looks at whether the row was rewritten, not at what was last said of it, and
  the rest of the row is lost to the buffer and to speech.
* `MCSession_refused.cfg` (`session.rs:134` and `:1140`). The API sets the flag
  that the interrupt key asks, and the pump clears it by what it knows: not by
  the lines that still wait in its inbox. One step also stores it several times
  (an echo read ends the block before it, `:1140`, and opens the next, `:806`).
  In both, a line that was accepted waits and the key is answered "nothing to act
  on", where a test is named `a_submitted_command_can_be_stopped_before_its_block_opens`
  (`session.rs:2166`). `RunningCommandCanBeStopped` is what does hold: between two
  steps of the pump, of what it has taken.
* `MCSession_hidden.cfg` (`session.rs:403-409`). The far end goes away while text
  is held back as a possible echo: the loop breaks and the text is dropped, where
  `docs/DESIGN.md:1130` has what the rule does not cover fail "toward an echo
  spoken once, never toward hidden text".
* `MCSession_interrupt.cfg` (`session.rs:782`). An interrupt that reaches the pump
  after its command ended stays set and is told of the next command that ends
  with no exit code, which a test's name says cannot happen.
* `MCSession_quiet.cfg` (`session.rs:1071`). If the first reads draw nothing, the
  setup line goes out after the grace timer fired; a user's line whose echo is
  read first then drops the setup's submission, and nothing is left to end
  self-talk: the session stays silent.
* `MCSessionActor_self_talk_failure.cfg` (`session_actor.rs:341`). A setup that
  fails is announced although self-talk is on.
* `MCSessionActor_rewritten_row.cfg`, `MCSessionActor_superseded_text.cfg`
  (`session_actor.rs:125`). Dropping the rows that a rewrite supersedes can move
  a row below later ones, and can leave the buffer without a text that is then
  read aloud, where `docs/DESIGN.md:1219` has "never announce text that is not
  already in the buffer" and `protocol_events.rs:64` has "spoken text is already
  in the buffer". `BufferBeforeSpeech` is what does hold: the buffer is behind on
  no line, and a text it lacks is one the pump itself has taken back.
* `MCConnect_named.cfg` (`connect.rs:465` and `:487`). A save reads the session
  under one lock and labels "the session" under another; an attempt that
  connects in between gives the new session the name the old one was saved
  under, where `connect.rs:37` has a session carry the name it came from.
* `MCWindow_replaced.cfg` (`app.ts`, `handleEvent`). Events carry no session, and
  every session counts its commands from one: what is left of a replaced
  session's events lands in the blocks of the next. A late `Disconnected` drops
  the new session, and a toggle answered after a replacement leaves the window
  with the old session's owner.
* `MCWindow_late_answer.cfg` (`app.ts:334`). The window forgets that the shell
  named a block when it takes the end of the command (`app.ts:381`, `:391`). The
  answer to the submission, taken after that, writes the typed line over the
  shell's and opens the block again, where a test says an answer "never lets a
  late submit ack overwrite a heading the shell gave" (`app.test.ts:504`).
  `EchoKeepsTheHeading` is what does hold: until the end is taken.
* `MCWindow_full_inbox.cfg` (`session.rs:171`). The service stores the owner
  before it tells the pump, whose inbox may be full: the window and the pump
  then differ, where `session.rs:170` has the call be "The only writer of both
  copies of the line owner, so they cannot disagree". `OwnersAgree` in the run has
  room in the inbox.
* `MCFarEnd_wrapped.cfg` (`session.rs:688`, `far_end_row.rs:142`). The caret is the
  cursor's column on the grid less the anchor's. On a terminal that prompt and
  line are too long for, the line goes on at column 0 of the next row, and the
  field's caret is no longer "at the far end's cursor column" in the line
  (`docs/DESIGN.md:1017`). The other three properties of `farend` hold at this
  width too.
* With `Patient = FALSE` in `MCFarEnd_farend.cfg`, a user who types ahead of the
  answers breaks `HeadedByWhatRan`, `FieldHoldsTheLine` and
  `CommandRowsStayInTheField`: a redraw answers an earlier key than the one the
  field waits for. Roadmap item 28.13 knows of it. Ctrl+C that reaches the shell
  as its command ends publishes the prompt row as an untitled block (the test at
  `session.rs:3958` has the case with a title), and a line dropped by Ctrl+C gets
  a block headed by the shell's echo of it.

## What is proved

For every value of the constants that satisfies the named assumptions of the
modules:

* **The actor** (`SessionActorProofs`). The inductive
  invariant `IInv` is the type invariant, `PacingInvariants`, the agreement of
  tick, flag and timer, the clock being past the start of the command, the
  accumulator counting a line when it has text, and owed text being in the
  accumulator. The last two are what makes `PacingInvariants` inductive: a flush
  resets or counts the streak by the verdict on what is waiting, and a timer is
  armed exactly when something is. From it: `PacingInvariantsHold`, `TimersHold`,
  `SpeechComesInTime`, and the action property `LatchesAreHeld`.
  What is *sent* is proved over a description of the steps: `StepAdds` has every
  step start a command or add to the stream some rows and then what it says,
  which is one of `Tells`, `Wakes`, `SendsRows`, `Ends` or `LeavesAlone`. On it
  rest `TheEndIsLast`, the action properties `SelfTalkStaysQuiet` and
  `FollowModeReads`, and:
  - `BabbleStaysSilenced`, under the hypothesis `[]~followMode`: follow mode
    ignores the guard, so with it the claim is false, and the run that checks the
    claim leaves it off.
  - `NothingIsReadTwice`, from `Reading`: tokens are numbered as they arrive; what
    was read comes before what waits, and what waits ascends. The property alone
    is not inductive, since it says nothing of what is still to be read.
  - `NoTokenIsLost`: owed tokens are what `Only` leaves of the text, and a text
    too big stays so, whatever is added.
  - `TheBufferKeepsUp`, from `ReadsAsTold`: on every line, the rows sent and then
    the rows waiting read as the rows told. `RenderReads` is its heart: joining
    or dropping rows commutes with what a row makes of a line. On it rests
    `SpeechFollowsTheBuffer`, an action property: a step that reads a text leaves
    no row waiting (`ReadingLeavesNoRow`), and all its rows are sent before it
    (`RowsBeforeWords`), so that what was sent by then is what was told.
  These are about folds. A fold of the library gets its successive values as a
  chain, once for each function folded, by the least counterexample; `OneMore`
  then is induction along a sequence, with a set for the predicate.
* **The session** (`SessionProofs`), for any kind of shell, texts, lines, setup
  and inbox. The pump's methods are operators on a record, so each has a lemma
  about any pump. `IInv` says of the pump, the requests on their way and the step
  under way: identities are minted once and in order (`Numbered`); what began,
  waits and is on its way come in turn (`InTurn`); the actor has been told what
  the pump believes, and an echo is awaited only for a block with an identity
  no row was told of (`Followed`); every accepted line is somewhere
  (`Accounted`); and the last store of a step, or the flag between two steps, is
  set while something runs or waits at the pump. None of these stands
  alone: a claim of an echo gives up earlier lines, and only the order of the
  identities makes the one claimed later than those. From it: `TheActorFollows`,
  `CommandsStartInTurn`, `LinesAreAccountedFor`, `WhatRunsCanBeStopped`; and from
  lemmas on what one step tells, `SetupIsQuietToTheEnd` and the action property
  `HeldTextIsLetOut`, of every step but the end of the session.
* **The far end** (`FarEndProofs`), for any rows that follow one another, any
  keys, recalled line and length of session, in a shell whose markers include the
  start of output; no key's name is a character, and nobody types what echoes an
  interrupt (`KeysAssumption`, `RefusalAssumption`: "Enter" is no text, and `^C`
  is one glyph of the model). `FarEndInvariant` states two invariants; `FarEndSteps`
  has the words for what a step does:
  - `Ordered`, of whatever is pressed or pasted, and however fast. A read on its
    way is one of seven shapes, and each finds the tracker in the region the one
    before it leaves (`Chained`); rows are numbered as the shell begins them; and
    each row it printed is on its way, in the pump's hands or in the results,
    with its whole text in just one of these (`Delivered`). Rows kept in hand
    are those of the line or printed by the shell (`Elsewhere`), which is why
    passing over `Fields` loses nothing. `PrintedRowsAreKept` follows.
  - `InStep`, of a user who waits for the answer to each key (`Patient`), until
    text is pasted, where prompt and line fit on one row (`OnOneRow`). A key goes through stages: the line at rest with perhaps the
    key on its way (`AtTheLine`), its answer on its way (`KeyAnswered`, `ListedBelow`),
    its answer received (`AnswerSeen`, `ListingSeen`), and back. Enter and Ctrl+C
    leave the line (`Leaving`) for a prompt (`LineLeft`) or a command (`RunningOn`),
    and come back at a prompt (`BackAtPrompt`), where settling takes up the line
    again. Each stage says what the field, the anchor, the notes of changed rows
    and the cursor have to do with the shell's line, and `Stages` has every step
    of every stage end in one of them. The three properties say nothing of a key
    under way, so none of them is inductive alone. `FieldIsTheLine`,
    `HeadingsAreWhatRan` and `CommandRowsAreTheFields` follow. The hypotheses
    are needed: typing ahead and pasting break the claims, and a wrapped line
    the first of them (see above).
  The heart is arithmetic on texts: the engine trims a row of its blanks, and the
  line is told apart from the row by what is behind the anchor, padded to the
  cursor (`PastPrompt`, `LineEnds`, `RowAnswers`, `FrontIsKept`). A read, a
  settling and a key are operators on the pump's record, with a lemma about any
  pump each.
* **The tracker** (`BoundaryTrackerProofs`). `IInv` adds to types and
  `BlockFollowsTheRegion` that starts and ends are apart by the open block, and
  where the rows of the echo are, region by region; the block flag alone is not
  inductive, because a synthesized start depends on the row remembered for the
  command line. From it: `BlockFollows`, `EchoHoldsToOneRow`,
  `EmptyPromptClaims`, and `TrackerImplementsBlocks`, step by step: each item is
  an announcement, a start, an end, an empty block or a stutter.
* **Connecting and settings** (`ConnectProofs`), for any names and any relation
  of "sounds the same", any profiles, keys and number of attempts. `Held` is the
  types, and who holds the write lock: the main thread in a command's second
  stage or one attempt in "writing", which is what lets a write return to its
  writer. On it rest three invariants. `FileFollows`: the file reads back
  as the document or, while a write is under way, as the document before it,
  through every step of the write but the last; `TheFileIsGood` follows.
  `AllDistinct`: names are told apart in the document, in the file and in the
  document a write may have to return to; `NamesStayUnique` follows. `Origins`: a
  session's origin is saved, or a command between its two locks is about to
  change both, and the same of the attempts that will connect, but for those whose
  window was loaded again; `OriginsAreSaved`
  follows, under the hypothesis that `Places` has no "launch". With it the claim
  is false: renaming and forgetting wait for the Connect dialog's attempt, but
  nothing waits for the attempt made at launch, and the connection it started
  from can be renamed under it. The run has the same `Places`.
* **The window** (`WindowProofs`), for any number of sessions, events and calls.
  `WayIsWhole`: the events on their way to the window, in the backlog or in the
  channel, are numbered as they were sent, and a number is missing only after
  the backlog had its fill; `EventsArriveInOrder` follows. `Headed`: a block
  headed by the line its shell repeated is one the window remembers as such, or
  one whose end it took, so that an answer that comes late writes over none of
  the former; with it the action property `TheEchoStands`. `OwnersFollow`:
  of the window's flag, the session's flag and the pump's owner each is the last
  change before the one that is still on its way to it, in the calls, the
  answers, the inbox or the events. `OwnersComeToAgree` follows, under the
  hypothesis that no change of the owner finds the inbox full: a full inbox
  breaks the claim (`MCWindow_full_inbox.cfg`).
* **The announcer** (`AnnouncerProofs`), for any gap, clearing time and hold.
  The queue is the undrained rest of what was announced, a drain is due exactly
  when there is something to say and no sooner than the gap after the last; a
  region with lines has a clearing due no sooner than the last line allows; the
  offer and the connection's message carry what had been said when they were
  made. From these, all four properties of the run: `TheGapIsKept`,
  `EveryLineStands`, `TheOfferWaits`, `TheConnectionIsHeard`.
* **The engine** (`EngineProofs`), for any screen and history, any texts, and a
  program that may erase the history. `Stream`, in which what lines say plays no part:
  the identities minted are those a reader holds, a line that can change has
  one of them that has not settled, and identities increase down the screen;
  the order is what makes identities differ, without which settling one line
  would not keep the others unsettled. The types are needed because the scan
  never passes the bottom, so that a line ends at or below where it starts.
  From it: `LinesStayInOrder`, and `PromisesAreKept`, step by step: every item
  said is one `LineStream` allows, and none is a stutter of it: the subscript has
  whose turn it is, so an item that changes nothing of a line is a step too. What the lines say does matter to
  `TheScreenIsRead` and `WhatHasLeftIsSettled`, which rest on `ReadInv`:
  - `Floors`: the floor of the scan is above every known line, and below what was
    evicted. Without it a line might be settled past one that was not read.
  - `Scanning`, between two lines of a scan: the lines from the floor to the one
    in hand are known as the screen shows them, and none of the known ones among
    them has left it; either nothing below the floor was passed, or the scan has
    reached the screen, so that from there on nothing settles; and the rows past
    the last to scan are blank and unknown.
  - `Held`: a reader holds the text recorded of each line that can change. The
    identities are apart, so what is said of one does not touch another, and a
    place taken above hands each text down with its identity.
  - a line is the join of its rows, a recursive function of the library's. That
    there is such a function, and that it gives a sequence, is shown by the row
    with the least number that would fail (`JoinsExist`, `JoinsTyped`).

Only model-checked: liveness (`RowsReachTheBuffer`, `SpeechIsDecided`,
`EveryAttemptEnds`), which the prover does not do. Every other property of the
passing runs is a theorem, under the hypotheses named above.

## What is not modelled

* Shells, machines and signatures (`acter-shells`): lookups on the computer and
  tables, with no state of their own. So are the system menu, the spoken wording,
  the tables of key bytes and the protocol's types.
* The readers and writers of the transports: threads around pipes and sockets of
  the operating system. Whether a write blocks on a child that does not read
  (`local.rs:176`) is the system's answer, and the code neither bounds nor
  reports it. The scripted transport stands for a shell in tests.
* The emulator itself, which is a library's: `Engine` has a grid that does what
  the extractor relies on.
* A shell with no markers while the far end owns the line, and the composition
  of `Session` with `FarEnd` through a toggle in mid-line.
* A read of several items as one step (`session.rs:479`): a prompt finished in the
  middle of a read that ends in the next prompt is told late. `Session` feeds one
  item at a time.
* The rest of the application shell and of the frontend: wiring, pass-through
  routers, focus, menus and key bindings, appearance.
