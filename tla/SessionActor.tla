---------------------------- MODULE SessionActor ----------------------------
(***************************************************************************)
(* The session actor (controllers/session_actor.rs): one task that turns   *)
(* what the pump tells it about the running command into two streams for   *)
(* the frontend, the rows of the results buffer and the announcements.     *)
(* Rows wait for a short render tick; speech waits for the pacing policy   *)
(* of Autoread.  The task handles one input or one timer at a time and     *)
(* arms its timers before it waits again, so every handler is one action.  *)
(*                                                                         *)
(* Here the pump is the environment: it starts and ends commands one at a  *)
(* time and, between the two, sends any of the rows in Chunks.             *)
(***************************************************************************)
EXTENDS Autoread, ResultsBuffer

CONSTANTS RenderTick,     \* how long output coalesces before it is rendered
          Lines,          \* the terminal lines output falls on
          Chunks,         \* the shapes of output the pump sends
          Signals,        \* the other things it says, by name
          ExitCodes,      \* what a command may end with
          FollowModes,    \* what follow mode may be set to
          SelfTalks,      \* what self-talk may be set to
          Screens,        \* the screens the far end may switch to
          MaxNow,         \* bounds: the clock,
          MaxCommands,    \* the commands of a session
          MaxChunks       \* and the rows of one command

Revision == {"Appended", "Rewritten", "Settled"}
NoExit   == -1           \* a block whose code describes no command
NoLine   == 0

\* A chunk says whether it has text; the actor model gives it a fresh token.
Chunk == [line : Lines, revision : Revision, some : BOOLEAN, spoken : BOOLEAN]

ASSUME RenderTickAssumption == RenderTick \in Nat \ {0}
ASSUME LinesAssumption      == Lines \subseteq Nat \ {NoLine}
ASSUME ChunksAssumption     == Chunks \subseteq Chunk
ASSUME SignalsAssumption    == Signals \subseteq
            {"FarEndLine", "PromptDrawn", "ConnectionChanged",
             "MarkersObserved", "GracePeriodExpired", "CommandInterrupted"}
ASSUME ExitCodesAssumption  == ExitCodes \subseteq Nat \cup {NoExit}
ASSUME SwitchesAssumption   == /\ FollowModes \subseteq BOOLEAN
                               /\ SelfTalks \subseteq BOOLEAN
                               /\ Screens \subseteq {"Normal", "Alternate"}
ASSUME BoundsAssumption     == MaxNow \in Nat /\ MaxCommands \in Nat /\ MaxChunks \in Nat

VARIABLES integration,   \* of the session: Pending, Integrated, Unintegrated
          screen,
          followMode,
          selfTalk,
          active,        \* the id of the running command, NoCommand for none
          startedAt,
          pacing,
          unrendered,    \* rows the tick will send to the buffer
          unspoken,      \* text the policy has not decided about
          renderArmed,
          lastLine,      \* the line of the last spoken text
          renderTimer,   \* deadlines of the loop's two timers, or NoTime
          pacingTimer,
          now

VARIABLES commands,      \* how many commands the pump has started
          told,          \* history: the rows the pump sent for this command
          owed,          \* history: spoken tokens no verdict has been given on
          sent           \* history: the events sent since this command started

command  == <<active, startedAt, pacing, unrendered, unspoken, renderArmed, lastLine>>
timers   == <<renderTimer, pacingTimer>>
session  == <<integration, screen, followMode, selfTalk>>
history  == <<commands, told, owed, sent>>
vars     == <<session, command, timers, now, history>>

NoCommand == 0
at        == Less(now, startedAt)

-----------------------------------------------------------------------------
(* Events.                                                                 *)

Event(kind)         == [kind |-> kind]
OutputEvent(row)    == [kind |-> "Output", row |-> row]
ReadAloud(text)     == [kind |-> "ReadAloud", text |-> text]
TooBig(lines)       == [kind |-> "TooBig", lines |-> lines]
Failed(exit)        == [kind |-> "Failed", exit |-> exit]

Announcements == {"ReadAloud", "TooBig", "StillRunning", "OutputContinues", "Failed"}

OutputEvents(rows) == [i \in DOMAIN rows |-> OutputEvent(rows[i])]

-----------------------------------------------------------------------------
(* Helpers of the handlers.                                                *)

\* Fault: an append joins the row before it whatever its line.
renderBlind(rows, row) ==
    IF row.revision = "Appended" /\ rows # <<>>
    THEN [rows EXCEPT ![Len(rows)].text = @ \o row.text]
    ELSE Append(rows, row)

\* ActiveCommand.render: an append joins the row before it, and a revision
\* that carries the whole line makes what was pending on the line obsolete.
render(rows, row) ==
    IF row.revision = "Appended" /\ rows # <<>> /\ rows[Len(rows)].line = row.line
    THEN [rows EXCEPT ![Len(rows)].text = @ \o row.text]
    ELSE Append(IF row.revision = "Appended"
                THEN rows
                ELSE Only(rows, {pending \in Range(rows) : pending.line # row.line}),
                row)

\* Fault: only what flushes is withheld.
asideLeaks(action) == IF selfTalk /\ Flushes(action) THEN "Quiet" ELSE action

\* While Acter talks to itself nothing is announced and nothing is withheld.
aside(action) ==
    IF ~selfTalk THEN action
    ELSE IF Flushes(action) THEN "Quiet" ELSE "None"

\* The announcements of an action that has passed aside.
Said(action, heard) ==
    CASE action = "Auto" /\ heard.kept -> <<ReadAloud(heard.text)>>
      [] action = "TooBig" ->
            <<TooBig(size(heard).lines)>>
            \o (IF integration = "Unintegrated" /\ heard.lastLine # <<>>
                THEN <<ReadAloud(heard.lastLine)>> ELSE <<>>)
      [] action \in {"StillRunning", "OutputContinues"} -> <<Event(action)>>
      [] OTHER -> <<>>

\* Fault: the announcement goes out before the rows.
applySpeaksFirst(action, rows, heard, undecided) ==
    LET did == aside(action)
    IN  IF Flushes(did)
        THEN /\ unrendered' = <<>>
             /\ unspoken' = NothingUnspoken
             /\ owed' = <<>>
             /\ sent' = sent \o Said(did, heard) \o OutputEvents(rows)
        ELSE /\ unrendered' = rows
             /\ unspoken' = heard
             /\ owed' = undecided
             /\ sent' = sent \o Said(did, heard)

\* Fault: what was read is not taken.
applyKeepsText(action, rows, heard, undecided) ==
    LET did == aside(action)
    IN  /\ unrendered' = IF Flushes(did) THEN <<>> ELSE rows
        /\ unspoken' = heard
        /\ owed' = undecided
        /\ sent' = sent \o (IF Flushes(did) THEN OutputEvents(rows) ELSE <<>>)
                        \o Said(did, heard)

\* SessionActor.apply on the rows and the unspoken text a handler has built:
\* whatever flushes sends the rows first and takes all the text.
apply(action, rows, heard, undecided) ==
    LET did == aside(action)
    IN  IF Flushes(did)
        THEN /\ unrendered' = <<>>
             /\ unspoken' = NothingUnspoken
             /\ owed' = <<>>
             /\ sent' = sent \o OutputEvents(rows) \o Said(did, heard)
        ELSE /\ unrendered' = rows
             /\ unspoken' = heard
             /\ owed' = undecided
             /\ sent' = sent \o Said(did, heard)

\* The loop's apply: a wake after a delay arms the timer, none clears it.
Arm(wake) == IF wake = NoTime THEN NoTime ELSE now + wake

\* The ActiveCommand of a command that is not running, and of a new one.
Fresh == /\ pacing' = FreshPacing
         /\ unrendered' = <<>>
         /\ unspoken' = NothingUnspoken
         /\ renderArmed' = FALSE
         /\ lastLine' = NoLine
         /\ owed' = <<>>

\* Inputs stop early enough for every timer they arm to fall due.
InTime == now + Quiescence + RenderTick <= MaxNow

-----------------------------------------------------------------------------
(* Inputs from the pump.                                                   *)

CommandStarted ==
    /\ active = NoCommand
    /\ commands < MaxCommands
    /\ commands' = commands + 1
    /\ active' = commands'
    /\ startedAt' = now
    /\ Fresh
    /\ told' = <<>>
    /\ sent' = <<Event("CommandStarted")>>
    /\ UNCHANGED <<session, timers, now>>

\* Once settled a line emits nothing further.
Settled(line) ==
    \E i \in DOMAIN told : told[i].line = line /\ told[i].revision = "Settled"

\* A row of the running command.  Output with no command active is dropped.
Output(chunk) ==
    LET token     == Len(told) + 1
        row       == [line |-> chunk.line, revision |-> chunk.revision,
                      text |-> IF chunk.some THEN <<token>> ELSE <<>>]
        shown     == chunk.revision # "Appended" \/ chunk.some
        rows      == IF shown THEN render(unrendered, row) ELSE unrendered
        separated == IF lastLine \notin {NoLine, chunk.line}
                     THEN <<NL>> \o row.text ELSE row.text
        heard     == push(unspoken, separated)
        outcome   == on_output(pacing, measure(separated), at, followMode)
    IN  /\ active # NoCommand
        /\ Len(told) < MaxChunks
        /\ InTime
        /\ ~Settled(chunk.line)
        /\ told' = Append(told, [line |-> row.line, revision |-> row.revision,
                                 text |-> row.text, spoken |-> chunk.spoken])
        /\ renderArmed' = (renderArmed \/ shown)
        /\ renderTimer' = IF shown /\ ~renderArmed THEN now + RenderTick ELSE renderTimer
        /\ IF chunk.spoken
           THEN /\ lastLine' = chunk.line
                /\ pacing' = outcome.state
                /\ apply(outcome.action, rows, heard, owed \o row.text)
                /\ pacingTimer' = Arm(outcome.wake)
           ELSE /\ unrendered' = rows
                /\ UNCHANGED <<lastLine, pacing, unspoken, owed, sent, pacingTimer>>
        /\ UNCHANGED <<session, active, startedAt, now, commands>>

\* Fault: the terminal event goes out before the last word.
CloseTooSoon(terminal, after) ==
    LET outcome == on_command_end(pacing, size(unspoken))
    IN  /\ active # NoCommand
        /\ sent' = sent \o OutputEvents(unrendered) \o <<Event(terminal)>>
                        \o Said(aside(outcome.action), unspoken) \o after
        /\ active' = NoCommand
        /\ startedAt' = now
        /\ Fresh
        /\ renderTimer' = NoTime
        /\ pacingTimer' = NoTime
        /\ UNCHANGED <<session, now, commands, told>>

\* Fault: the pacing timer outlives the command.
CloseLeavesTimer(terminal, after) ==
    LET outcome == on_command_end(pacing, size(unspoken))
    IN  /\ active # NoCommand
        /\ sent' = sent \o OutputEvents(unrendered)
                        \o Said(aside(outcome.action), unspoken)
                        \o <<Event(terminal)>> \o after
        /\ active' = NoCommand
        /\ startedAt' = now
        /\ Fresh
        /\ renderTimer' = NoTime
        /\ UNCHANGED <<session, now, commands, told, pacingTimer>>

\* SessionActor.close and retire: the last rows, the last word, the terminal
\* event, then whatever is said after it.
Close(terminal, after) ==
    LET outcome == on_command_end(pacing, size(unspoken))
    IN  /\ active # NoCommand
        /\ sent' = sent \o OutputEvents(unrendered)
                        \o Said(aside(outcome.action), unspoken)
                        \o <<Event(terminal)>> \o after
        /\ active' = NoCommand
        /\ startedAt' = now
        /\ Fresh
        /\ renderTimer' = NoTime
        /\ pacingTimer' = NoTime
        /\ UNCHANGED <<session, now, commands, told>>

CommandEnded(exit) ==
    Close("CommandFinished", IF exit \in {NoExit, 0} THEN <<>> ELSE <<Failed(exit)>>)

CommandInterrupted == Close("CommandInterrupted", <<>>)

\* The far end's own line is news about rows the buffer must already have.
\* With nothing to render the handler only sends the event, left out here.
FarEndLine ==
    /\ unrendered # <<>>
    /\ unrendered' = <<>>
    /\ sent' = sent \o OutputEvents(unrendered) \o <<Event("FarEndLine")>>
    /\ UNCHANGED <<session, active, startedAt, pacing, unspoken, renderArmed,
                   lastLine, timers, now, commands, told, owed>>

\* PromptDrawn and Connection are passed on at once, each at most once a
\* command here, which bounds the history.
Forwarded(kind) ==
    /\ Event(kind) \notin {sent[i] : i \in DOMAIN sent}
    /\ sent' = Append(sent, Event(kind))
    /\ UNCHANGED <<session, command, timers, now, commands, told, owed>>

MarkersObserved ==
    /\ integration' = "Integrated"
    /\ UNCHANGED <<screen, followMode, selfTalk, command, timers, now, history>>

GracePeriodExpired ==
    /\ integration = "Pending"
    /\ integration' = "Unintegrated"
    /\ sent' = Append(sent, Event("IntegrationUnavailable"))
    /\ UNCHANGED <<screen, followMode, selfTalk, command, timers, now, commands, told, owed>>

FollowMode(on) ==
    /\ followMode' = on
    /\ UNCHANGED <<integration, screen, selfTalk, command, timers, now, history>>

SelfTalk(on) ==
    /\ selfTalk' = on
    /\ UNCHANGED <<integration, screen, followMode, command, timers, now, history>>

\* AltScreenEntered and AltScreenLeft: only a change is an event, and these
\* events are left out of the history.
ScreenSwitched(to) ==
    /\ screen # to
    /\ screen' = to
    /\ UNCHANGED <<integration, followMode, selfTalk, command, timers, now, history>>

-----------------------------------------------------------------------------
(* The loop's timers.  One that is due may be served late: the task may be *)
(* busy, or another branch of the select may be chosen first.              *)

Due(timer) == timer # NoTime /\ now >= timer

\* Fault: the tick leaves the flag that keeps a second one from being armed.
WakeRenderStaysArmed ==
    /\ Due(renderTimer)
    /\ renderTimer' = NoTime
    /\ unrendered' = <<>>
    /\ sent' = sent \o OutputEvents(unrendered)
    /\ UNCHANGED <<session, active, startedAt, pacing, unspoken, lastLine,
                   renderArmed, pacingTimer, now, commands, told, owed>>

WakeRender ==
    /\ Due(renderTimer)
    /\ renderTimer' = NoTime
    /\ renderArmed' = FALSE
    /\ unrendered' = <<>>
    /\ sent' = sent \o OutputEvents(unrendered)
    /\ UNCHANGED <<session, active, startedAt, pacing, unspoken, lastLine,
                   pacingTimer, now, commands, told, owed>>

\* With no command running the timer is cleared (see TimersServeTheCommand).
WakePacing ==
    LET outcome == on_wake(pacing, size(unspoken), at)
    IN  /\ Due(pacingTimer)
        /\ active # NoCommand
        /\ pacing' = outcome.state
        /\ apply(outcome.action, unrendered, unspoken, owed)
        /\ pacingTimer' = Arm(outcome.wake)
        /\ UNCHANGED <<session, active, startedAt, renderArmed, lastLine,
                       renderTimer, now, commands, told>>

Tick ==
    /\ now < MaxNow
    /\ now' = now + 1
    /\ UNCHANGED <<session, command, timers, history>>

-----------------------------------------------------------------------------
Init ==
    /\ integration = "Pending"
    /\ screen = "Normal"
    /\ followMode = FALSE
    /\ selfTalk = FALSE
    /\ active = NoCommand
    /\ startedAt = 0
    /\ pacing = FreshPacing
    /\ unrendered = <<>>
    /\ unspoken = NothingUnspoken
    /\ renderArmed = FALSE
    /\ lastLine = NoLine
    /\ renderTimer = NoTime
    /\ pacingTimer = NoTime
    /\ now = 0
    /\ commands = 0
    /\ told = <<>>
    /\ owed = <<>>
    /\ sent = <<>>

Next ==
    \/ CommandStarted
    \/ \E chunk \in Chunks : Output(chunk)
    \/ \E exit \in ExitCodes : CommandEnded(exit)
    \/ "CommandInterrupted" \in Signals /\ CommandInterrupted
    \/ "FarEndLine" \in Signals /\ FarEndLine
    \/ \E kind \in Signals \cap {"PromptDrawn", "ConnectionChanged"} : Forwarded(kind)
    \/ "MarkersObserved" \in Signals /\ MarkersObserved
    \/ "GracePeriodExpired" \in Signals /\ GracePeriodExpired
    \/ \E on \in FollowModes : FollowMode(on)
    \/ \E on \in SelfTalks : SelfTalk(on)
    \/ \E to \in Screens : ScreenSwitched(to)
    \/ WakeRender
    \/ WakePacing
    \/ Tick

Spec == Init /\ [][Next]_vars

\* The clock runs, and a branch of the select that stays ready is chosen in
\* the end; nobody promises that the pump sends anything.
Fairness == WF_vars(Tick) /\ WF_vars(WakeRender) /\ WF_vars(WakePacing)

FairSpec == Spec /\ Fairness

-----------------------------------------------------------------------------
(* Properties.                                                             *)

Row     == [line : Lines, revision : Revision, text : Text]
Told    == [line : Lines, revision : Revision, text : Text, spoken : BOOLEAN]
Time    == Nat \cup {NoTime}

\* Every variable has its type.
TypeOK ==
    /\ integration \in {"Pending", "Integrated", "Unintegrated"}
    /\ screen \in {"Normal", "Alternate"}
    /\ followMode \in BOOLEAN /\ selfTalk \in BOOLEAN
    /\ active \in Nat /\ commands \in Nat
    /\ startedAt \in Nat /\ now \in Nat
    /\ pacing \in PacingState
    /\ unspoken \in UnspokenText
    /\ renderArmed \in BOOLEAN
    /\ lastLine \in Lines \cup {NoLine}
    /\ renderTimer \in Time /\ pacingTimer \in Time
    /\ told \in Seq(Told)
    /\ owed \in Text
    /\ unrendered \in Seq(Row)

\* The invariants entities/pacing_state.rs leaves to the policy: the auto-read
\* streak never passes the babble limit, and the run of unread output began no
\* later than the last output, which is not in the future.
PacingInvariants ==
    /\ pacing.reads <= BabbleLimit
    /\ pacing.continuousSince <= pacing.lastOutputAt
    /\ startedAt + pacing.lastOutputAt <= now

\* "patience_fired latches once per command", and so does the babble guard:
\* only a command's end unlatches them.
LatchesHold ==
    [][active' = active /\ active # NoCommand =>
          /\ pacing.patienceFired => pacing'.patienceFired
          /\ pacing.babbleTripped => pacing'.babbleTripped]_vars

\* A row never waits for the buffer without the tick that will send it, and
\* the flag that stops a second tick being armed agrees with the timer.
RowsWaitForATick ==
    /\ unrendered # <<>> => renderArmed
    /\ renderArmed <=> renderTimer # NoTime

\* With no command running nothing waits and no timer runs on, so a timer of
\* one command never fires in the next.
TimersServeTheCommand ==
    active = NoCommand =>
        /\ renderTimer = NoTime /\ pacingTimer = NoTime
        /\ unrendered = <<>> /\ owed = <<>>

\* Text waiting to be announced always has a wake coming, unless the babble
\* guard has silenced the command.
SpeechWaitsForAWake ==
    unspoken.any /\ pacingTimer = NoTime => pacing.babbleTripped

\* The wake comes no later than the quiescence window after the last text,
\* which chunks without text and a timer served late do not push back.
SpeechIsNotPostponed ==
    pacingTimer # NoTime =>
        \/ pacingTimer <= startedAt + pacing.lastOutputAt + Quiescence
        \/ pacingTimer <= now

\* The accumulator stands for exactly the tokens no verdict was given on, and
\* it drops their text only when the verdict on them can only be "too big".
NothingSpokenIsLost ==
    /\ unspoken.kept => Only(unspoken.text, Token \ {NL}) = owed
    /\ owed # <<>> => unspoken.any
    /\ unspoken.kept <=> verdict(size(unspoken)) = "Auto"

\* How many events of a kind were sent.
Count(kind) == Cardinality({i \in DOMAIN sent : sent[i].kind = kind})

\* Nothing is read twice or out of order, however flushes, ticks, follow mode
\* and the last row of a flood interleave.
ReadOnceInOrder ==
    \A i, j \in DOMAIN sent :
        i <= j /\ sent[i].kind = "ReadAloud" /\ sent[j].kind = "ReadAloud" =>
            \A n \in DOMAIN sent[i].text, m \in DOMAIN sent[j].text :
                /\ i = j => n < m
                /\ sent[i].text[n] # NL /\ sent[j].text[m] # NL
                => sent[i].text[n] < sent[j].text[m]

\* The rows among the events, as the buffer applies them, and what it shows once
\* those that wait are sent too.
RowsOf(events) ==
    FoldLeft(LAMBDA rows, e : IF e.kind = "Output" THEN Append(rows, e.row) ELSE rows,
             <<>>, events)
Showing == Buffered(RowsOf(sent) \o unrendered)
Asked   == Buffered(told)

\* When a text is read aloud the buffer is behind on no line: each says what the
\* pump last made of it, the text itself unless something took its place since.
BufferBeforeSpeech ==
    [][\A i \in DOMAIN sent' \ DOMAIN sent : sent'[i].kind = "ReadAloud" =>
          \E shown \in {Buffered(RowsOf(SubSeq(sent', 1, i - 1)))}, asked \in {Asked'} :
              \A line \in Lines : TextOf(shown, line) = TextOf(asked, line)]_vars

\* "So spoken text is already in the buffer" (protocol_events.rs): a token read
\* aloud went out to the buffer before.
ReadTextIsInTheBuffer ==
    \A i \in DOMAIN sent : sent[i].kind = "ReadAloud" =>
        \A n \in DOMAIN sent[i].text : sent[i].text[n] # NL =>
            \E j \in 1..(i - 1) :
                /\ sent[j].kind = "Output"
                /\ \E m \in DOMAIN sent[j].row.text :
                       sent[j].row.text[m] = sent[i].text[n]

\* Coalescing rows for a tick and dropping superseded ones never changes what
\* a line ends up saying in the buffer: "it always shows current state"
\* (docs/DESIGN.md).
BufferIsCurrent ==
    \A line \in Lines : TextOf(Showing, line) = TextOf(Asked, line)

\* Rows stand in the order their lines were announced in, an empty append
\* included: "announced at once with an empty Appended, so its place is fixed
\* before anything else is minted" (docs/specs/40).
RowsKeepTheirPlace ==
    Showing.order = SelectSeq(Asked.order, LAMBDA line : Contains(Showing.order, line))

\* "The last word is sent before terminal": once the event that ends a command
\* is out, the only thing still said about it is that it failed.
LastWordBeforeTheEnd ==
    \A i, j \in DOMAIN sent :
        /\ i < j
        /\ sent[i].kind \in {"CommandFinished", "CommandInterrupted"}
        => sent[j].kind \notin {"Output", "ReadAloud", "TooBig", "StillRunning",
                                "OutputContinues", "CommandFinished",
                                "CommandInterrupted", "FarEndLine"}

\* "still running" and "output continues" are each said once a command.
SaidOnce == Count("StillRunning") <= 1 /\ Count("OutputContinues") <= 1

\* Once "output continues" is said the running command is read no more; what
\* it still owes is read when it ends.
BabbleIsSilenced ==
    active # NoCommand =>
        \A i, j \in DOMAIN sent : i < j /\ sent[i].kind = "OutputContinues"
            => sent[j].kind \notin {"ReadAloud", "TooBig"}

\* A running command is never read more than BabbleLimit times between two
\* "too big" announcements, or before "output continues".
ReadsWithinTheLimit ==
    active # NoCommand =>
        \A i \in DOMAIN sent :
            LET streak == {j \in 1..i : /\ sent[j].kind = "ReadAloud"
                                        /\ \A k \in j..i : sent[k].kind # "TooBig"}
            IN  integration # "Unintegrated" => Cardinality(streak) <= BabbleLimit

\* What is sent during self-talk is never speech, except that a command failed.
NewEvents == SubSeq(sent', Len(sent) + 1, Len(sent'))
SelfTalkIsQuiet ==
    [][selfTalk /\ active # NoCommand =>
          \A i \in DOMAIN NewEvents :
              NewEvents[i].kind \notin Announcements \ {"Failed"}]_vars

\* "what comes back is rendered and never announced" (services/session.rs).
SelfTalkIsNeverAnnounced ==
    [][selfTalk /\ active # NoCommand =>
          \A i \in DOMAIN NewEvents : NewEvents[i].kind \notin Announcements]_vars

\* Follow mode reads text as it arrives, "ignoring thresholds and the babble
\* guard" (docs/DESIGN.md): text that, with what is waiting, is small enough to
\* be kept is read in the same step, whatever the guard and the timers say.
FollowReadsWhatFits ==
    [][followMode /\ ~selfTalk /\ Len(told') > Len(told) =>
          LET new       == told'[Len(told')]
              separated == IF lastLine \in {NoLine, new.line} THEN new.text
                           ELSE <<NL>> \o new.text
          IN  new.spoken /\ new.text # <<>> /\ push(unspoken, separated).kept =>
                 \E i \in DOMAIN NewEvents : /\ NewEvents[i].kind = "ReadAloud"
                                             /\ Contains(NewEvents[i].text, new.text[1])
      ]_vars

\* Every row reaches the buffer, whatever speech decides.
RowsReachTheBuffer == (unrendered # <<>>) ~> (unrendered = <<>>)

\* Text that is owed is decided about, in silence or after the command ends at
\* the latest, unless the babble guard has silenced the command.
SpeechIsDecided == (owed # <<>>) ~> (owed = <<>> \/ pacing.babbleTripped)
=============================================================================
