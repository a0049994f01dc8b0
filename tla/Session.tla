------------------------------ MODULE Session ------------------------------
(***************************************************************************)
(* A session at work (services/session.rs): the API, whose calls only try  *)
(* to send a request and read or set the running flag; the pump task,      *)
(* which takes one read, request or timer at a time; and the terminal.     *)
(*                                                                         *)
(* The pump hears the events of a read one by one.  Nothing but the API    *)
(* comes between two of them, and between two stores of the running flag.  *)
(***************************************************************************)
EXTENDS Pump

CONSTANTS Setup,         \* the line Acter sets the shell up with; <<>> for none
          Lines,         \* the lines the user submits
          Items,         \* what the terminal says: some of Item
          Capacity,      \* of the channel of requests
          BatchSize,     \* bound on the items of a read
          RowWidth,      \* bound on the text of a row
          MaxItems, MaxIds, MaxPresses    \* bounds on the session

Item == [kind : Osc133Markers \ {"CommandEnd"}] \cup [kind : {"CommandEnd"}, exit : Int]
        \cup [kind : {"Line"}, id : Rows, text : Seq(Tokens),
              revision : {"Appended", "Rewritten", "Settled"}]

ASSUME ItemsAssumption == Items \subseteq Item
ASSUME SetupAssumption == Setup \in Seq(Tokens)
ASSUME LinesAssumption == Lines \subseteq Seq(Tokens)
ASSUME CapacityAssumption == Capacity \in Nat \ {0}

VARIABLES tracker, pump,
          inbox,         \* the requests on their way to the pump
          caller,        \* where the API call under way stands
          connection,    \* Pump.spoken, and whether the loop still runs
          grace,         \* the integration timer
          reading,       \* whether a read is being heard
          events,        \* what is still to be heard of it
          scrolled,      \* the rows that have left the screen for good
          said,          \* history: how many items the terminal has said
          asked,         \* history: the submissions that were accepted, in order
          own,           \* history: the submissions Acter made itself
          aimed          \* history: per interrupt, the commands it was meant for

vars == <<tracker, pump, inbox, caller, connection, grace, reading, events,
          scrolled, said, asked, own, aimed>>

SubmitRequest(id, typed) == [kind |-> "Submit", id |-> id, line |-> typed]
InterruptRequest        == [kind |-> "Interrupt"]

Fresh(p) == [p EXCEPT !.told = <<>>]

Working == connection # "Disconnected"

\* The pump has made every store of its last step, and goes on.
AtRest == pump.running.stores = <<>>

-----------------------------------------------------------------------------
(* The API.  try_send fails when the channel is full or the pump is gone.  *)

HasRoom == Working /\ Len(inbox) < Capacity

\* The id is minted and answered whether or not the request gets through.
Submit(typed) ==
    /\ caller = "idle" /\ pump.nextId <= MaxIds
    /\ pump' = [Fresh(pump) EXCEPT !.nextId = @ + 1]
    /\ IF HasRoom
       THEN /\ inbox'  = Append(inbox, SubmitRequest(pump.nextId, typed))
            /\ asked'  = IF typed = <<>> THEN asked ELSE Append(asked, pump.nextId)
            /\ caller' = "storing"
       ELSE UNCHANGED <<inbox, asked, caller>>
    /\ UNCHANGED <<tracker, connection, grace, reading, events, scrolled, said, own, aimed>>

\* The pump may have taken the request by the time the flag is set.
Store ==
    /\ caller = "storing"
    /\ caller' = "idle"
    /\ pump' = [Fresh(pump) EXCEPT !.running.now = TRUE]
    /\ UNCHANGED <<tracker, inbox, connection, grace, reading, events, scrolled, said,
                   asked, own, aimed>>

\* What the user can mean to stop: the command that is running, or the lines
\* that are waiting to run.
Stoppable ==
    {id \in {pump.open} : id # NoCommand}
    \cup {pump.submitted[i].id : i \in DOMAIN pump.submitted}
    \cup {inbox[i].id : i \in {j \in DOMAIN inbox : inbox[j].kind = "Submit"}}

\* The interrupt key: nothing to act on unless the flag is set.
Press ==
    /\ caller = "idle" /\ Len(aimed) < MaxPresses
    /\ pump.running.now
    /\ aimed'  = Append(aimed, Stoppable)
    /\ caller' = "pressing"
    /\ pump'   = Fresh(pump)
    /\ UNCHANGED <<tracker, inbox, connection, grace, reading, events, scrolled, said,
                   asked, own>>

SendInterrupt ==
    /\ caller = "pressing"
    /\ caller' = "idle"
    /\ inbox'  = IF HasRoom THEN Append(inbox, InterruptRequest) ELSE inbox
    /\ pump'   = Fresh(pump)
    /\ UNCHANGED <<tracker, connection, grace, reading, events, scrolled, said, asked, own,
                   aimed>>

-----------------------------------------------------------------------------
(* The terminal.  A row appears with its first text and only then changes; *)
(* a read in which it leaves the screen says its text then, and nothing    *)
(* else of it.                                                             *)

LineItems(batch) == {i \in DOMAIN batch : batch[i].kind = "Line"}

Plausible(batch) ==
    \A i \in LineItems(batch) :
        LET item  == batch[i]
            row   == pump.lines[item.id]
            alone == \A j \in LineItems(batch) : batch[j].id = item.id => j = i
        IN  /\ item.id \notin scrolled
            /\ item.revision # "Appended" => alone
            /\ item.revision = "Rewritten" => row.seen
            /\ item.revision = "Appended" =>
                  Len(row.text) + Len(item.text) <= RowWidth

Scrolled(batch) == {batch[i].id : i \in {j \in LineItems(batch) :
                                            batch[j].revision = "Settled"}}

-----------------------------------------------------------------------------
(* The pump, one wake of its loop at a time.                               *)

\* One store of the running flag.
SettleRunning ==
    /\ ~AtRest
    /\ pump' = [Fresh(pump) EXCEPT !.running = [now    |-> Head(@.stores),
                                               stores |-> Tail(@.stores)]]
    /\ UNCHANGED <<tracker, inbox, caller, connection, grace, reading, events, scrolled,
                   said, asked, own, aimed>>

\* The engine and the tracker have gone through the read before the pump hears
\* of it; the first read arms the grace timer.
Receive(batch) ==
    /\ AtRest /\ Working /\ ~reading
    /\ said + Len(batch) <= MaxItems
    /\ Plausible(batch)
    /\ LET seen == Observed(tracker, batch)
       IN  tracker' = seen.tracker /\ events' = seen.events
    /\ IF connection = "Connecting"
       THEN /\ pump'  = Tell(Fresh(pump), Told("Connected"))
            /\ grace' = "armed"
       ELSE /\ pump'  = Fresh(pump)
            /\ UNCHANGED grace
    /\ connection' = "Connected"
    /\ reading'    = TRUE
    /\ scrolled'   = scrolled \cup Scrolled(batch)
    /\ said'       = said + Len(batch)
    /\ UNCHANGED <<inbox, caller, asked, own, aimed>>

Hear ==
    /\ AtRest /\ reading /\ events # <<>>
    /\ pump'   = Heard(Fresh(pump), tracker.region, Head(events))
    /\ events' = Tail(events)
    /\ UNCHANGED <<tracker, inbox, caller, connection, grace, reading, scrolled, said,
                   asked, own, aimed>>

FinishRead ==
    /\ AtRest /\ reading /\ events = <<>>
    /\ pump'    = set_up(prompt_finished(Fresh(pump), tracker.region))
    /\ own'     = own \cup {pump'.submitted[i].id :
                              i \in {j \in DOMAIN pump'.submitted : pump'.submitted[j].ours}}
    /\ reading' = FALSE
    /\ UNCHANGED <<tracker, inbox, caller, connection, grace, events, scrolled, said,
                   asked, aimed>>

TakeRequest ==
    /\ AtRest /\ Working /\ ~reading /\ inbox # <<>>
    /\ LET request == Head(inbox)
       IN  pump' = IF request.kind = "Submit"
                   THEN submit_line(Fresh(pump), request.id, request.line, FALSE)
                   ELSE interrupt(Fresh(pump))
    /\ inbox' = Tail(inbox)
    /\ UNCHANGED <<tracker, caller, connection, grace, reading, events, scrolled, said,
                   asked, own, aimed>>

GraceExpires ==
    /\ AtRest /\ Working /\ ~reading /\ grace = "armed"
    /\ grace' = "expired"
    /\ pump'  = grace_expired(Fresh(pump))
    /\ UNCHANGED <<tracker, inbox, caller, connection, reading, events, scrolled, said,
                   asked, own, aimed>>

\* The transport's channel closes, and the loop ends: the pump goes, and the
\* text it holds with it.
Disconnect ==
    /\ AtRest /\ Working /\ ~reading
    /\ connection' = "Disconnected"
    /\ pump' = Tell([Fresh(pump) EXCEPT !.held = NoHeld], Told("Disconnected"))
    /\ UNCHANGED <<tracker, inbox, caller, grace, reading, events, scrolled, said, asked, own,
                   aimed>>

Init ==
    /\ tracker = NewTracker /\ pump = NewPump(Setup)
    /\ inbox = <<>> /\ caller = "idle"
    /\ connection = "Connecting" /\ grace = "unarmed"
    /\ reading = FALSE /\ events = <<>>
    /\ scrolled = {} /\ said = 0
    /\ asked = <<>> /\ own = {} /\ aimed = <<>>

Next ==
    \/ \E typed \in Lines : Submit(typed)
    \/ Store \/ Press \/ SendInterrupt \/ SettleRunning
    \/ \E batch \in BoundedSeq(Items, BatchSize) : Receive(batch)
    \/ Hear \/ FinishRead \/ TakeRequest \/ GraceExpires \/ Disconnect

Spec == Init /\ [][Next]_vars

-----------------------------------------------------------------------------
(* Properties.                                                             *)

\* What is written in the fields the properties read.
TypeOK ==
    /\ tracker \in Tracker
    /\ pump.running \in [now : BOOLEAN, stores : Seq(BOOLEAN)] /\ pump.open \in Nat /\ pump.selfTalk \in Nat
    /\ pump.integration \in {"Pending", "Integrated", "Unintegrated"}
    /\ \A i \in DOMAIN pump.submitted : pump.submitted[i].line # <<>>
    /\ \A row \in Rows : pump.lines[row].text \in Seq(Tokens)
    /\ Len(inbox) <= Capacity /\ caller \in {"idle", "storing", "pressing"}

\* "the actor drops output arriving with no command active" (interrupt, in
\* services/session.rs): the pump never tells it what it would drop, and the
\* two never disagree about the command that is running or about self-talk.
ActorFollowsThePump ==
    /\ ~pump.actor.dropped
    /\ pump.actor.active = IF pump.unshown THEN NoCommand ELSE pump.open
    /\ pump.actor.selfTalk = (pump.selfTalk # NoCommand)

\* A command starts at most once, and the user's commands start in the order
\* they were submitted, whatever echoes the shell draws or leaves out.
CommandsStartInOrder ==
    LET begun == pump.actor.begun
    IN  \A i, j \in DOMAIN begun :
            /\ begun[i] = begun[j] => i = j
            /\ {begun[i], begun[j]} \subseteq Range(asked) /\ i < j => begun[i] < begun[j]

\* An accepted line waits, has started, or was given up for a later line, the
\* user's or Acter's own, that has started: claim "assumes a serial shell has
\* already disposed of the earlier lines".
NoLineVanishes ==
    Working =>
        \A k \in DOMAIN asked :
            \/ asked[k] \in Stoppable
            \/ \E i \in DOMAIN pump.actor.begun :
                  /\ pump.actor.begun[i] \in Range(asked) \cup own
                  /\ pump.actor.begun[i] >= asked[k]

\* The flag the interrupt key asks keeps up with the pump, whatever the API stored
\* in it meanwhile: between two steps of the pump it is set while a command runs or
\* a line the pump has taken waits, so the key is not answered then with "nothing
\* to act on".  Between two stores of one step, and while a line is still in the
\* inbox, it may be, see StopIsNeverRefused.
RunningCommandCanBeStopped == AtRest /\ IsRunning(pump) => pump.running.now

\* A block the tracker has open is a command of the pump's: its rows have
\* somewhere to go, and its end somebody to close.
OpenBlockHasACommand == tracker.blockOpen /\ ~reading => pump.open # NoCommand

\* A part of a text that was told as output of its row in the step at hand, before
\* the other part was told as part of the line of the command that starts.
Within(part, whole) ==
    \E k \in 0..(Len(whole) - Len(part)) : SubSeq(whole, k + 1, k + Len(part)) = part
Shown(told, i, row, text) ==
    told[i].kind = "Output" /\ told[i].line = row /\ told[i].text = text
Repeated(told, i, text) ==
    told[i].kind = "CommandStarted" /\ told[i].line # NoText /\ Within(text, told[i].line)
LetOut(told, row, text) ==
    \E n \in 0..Len(text) :
        LET before == SubSeq(text, 1, n)
            after  == SubSeq(text, n + 1, Len(text))
        IN  \/ after = <<>> /\ \E i \in DOMAIN told : Shown(told, i, row, before)
            \/ before = <<>> /\ \E i \in DOMAIN told : Repeated(told, i, after)
            \/ \E i, j \in DOMAIN told : /\ i < j /\ Shown(told, i, row, before)
                                         /\ Repeated(told, j, after)

\* Text held back as a possible echo stays held, with what its row says next,
\* until all of it is let out: what is before the echo to the block before, the
\* rest as the line of the command that starts.  Only the end of the session
\* drops it, see HeldTextOutlivesTheSession.
Gathered(held, event) ==
    IF event.revision = "Appended" THEN held.text \o event.text ELSE event.text
HeldTexts ==
    {pump.held.text}
    \cup {Gathered(pump.held, Head(events)) :
            i \in {j \in {1} \cap DOMAIN events : events[j].kind = "Line"
                                                /\ events[j].id = pump.held.line}}
HeldTextIsNotLost ==
    [][pump.held.text # <<>> /\ ~Disconnect =>
          \E text \in HeldTexts :
             \/ pump'.held.line = pump.held.line /\ pump'.held.text = text
             \/ LetOut(pump'.told, pump.held.line, text)]_vars

\* "After the ending, never before: the flush the ending triggers must be
\* quiet too" (close): speech comes back after the setup's ending was told.
SetupEndsInSilence ==
    \A i, j \in DOMAIN pump.told :
        /\ pump.told[i].kind = "SelfTalk" /\ ~pump.told[i].on
        /\ pump.told[j].kind \in {"CommandEnded", "CommandInterrupted"}
        => j < i

-----------------------------------------------------------------------------
(* What the sources say and the code does not do.                          *)

\* "a submitted command can be stopped before its block opens" (the name of a test
\* of services/session.rs): once a line is accepted the key is not refused while the
\* line waits or its command runs.
StopIsNeverRefused ==
    caller # "storing" /\ Working /\ Stoppable \cap Range(asked) # {} => pump.running.now

\* "never toward hidden text" (docs/DESIGN.md): what is held when the far end goes
\* away is let out before the pump goes.
HeldTextOutlivesTheSession ==
    [][Disconnect => \/ pump.held.text = <<>>
                     \/ LetOut(pump'.told, pump.held.line, pump.held.text)]_vars

\* "an interrupt does not outlive the command it was aimed at" (the name of a
\* test of services/session.rs): when a command is told to be interrupted, some
\* command the key was meant for was still running or waiting.
InterruptDiesWithItsCommand ==
    [][(\E i \in DOMAIN pump'.told : pump'.told[i].kind = "CommandInterrupted")
       => \E k \in DOMAIN aimed : aimed[k] \cap Stoppable # {}]_vars

\* "the setup block closing or the grace period expiring sets it to None"
\* (services/session.rs): while the session talks to itself, one of the two is
\* still to come.
SpeechCanComeBack ==
    pump.selfTalk # NoCommand /\ Working =>
        grace = "armed" \/ pump.selfTalk \in Stoppable

\* "The buffer applies every revision, so it always shows current state"
\* (docs/DESIGN.md): a row that leaves the screen with other text than was
\* last said of it is told once more, if its command is still open.
LastWordReachesTheBuffer ==
    [][Hear =>
          LET event == Head(events)
          IN  /\ event.kind = "Line" /\ event.revision = "Settled"
              /\ pump.open # NoCommand /\ pump.lines[event.id].shown = pump.open
              /\ event.text # pump.lines[event.id].text
              => \/ \E i \in DOMAIN pump'.told : pump'.told[i].kind = "Output"
                 \/ pump'.held.line = event.id
                 \/ ~wants(pump, event.region)]_vars
=============================================================================
