------------------------------ MODULE Announcer ------------------------------
(***************************************************************************)
(* The announcer (ui/src/adapters/announcer.ts): a queue of announcements  *)
(* drained one at a time, at a distance, into the live region of whatever  *)
(* is in front, and the dialogs that come and go around it: the New        *)
(* connection dialog, which says what it connected to when it closes, and  *)
(* the Save dialog, which is offered once that has been said (ui/src/      *)
(* main.ts, adapters/new_connection_dialog.ts, controllers/app.ts).        *)
(*                                                                         *)
(* Everything runs on the window's one thread.  A timer may fire late, and *)
(* timers that are due fire in any order.                                  *)
(***************************************************************************)
EXTENDS Integers, Sequences, FiniteSets

CONSTANTS
    SPACING,      \* DRAIN_SPACING_MS
    CLEAR_AFTER,  \* CLEAR_AFTER_MS
    STARTUP_HOLD, \* STARTUP_HOLD_MS
    MaxNow,       \* bound: the time
    MaxSaid,      \* bound: announcements
    MaxDialogs    \* bound: dialogs opened

ASSUME AnnouncerAssumption ==
    /\ {SPACING, CLEAR_AFTER, STARTUP_HOLD} \subseteq Nat \ {0}
    /\ {MaxNow, MaxSaid, MaxDialogs} \subseteq Nat

VARIABLES
    now,       \* the time
    queue,     \* what is still to be said
    drain,     \* when the next one is drained
    last,      \* when the last one was
    regions,   \* the lines each live region holds
    clears,    \* when each region is emptied
    dialogs,   \* the dialogs that are open
    offer,     \* offerToSave, where it waits
    returned,  \* external: regions that have just returned to the accessibility tree
    said,      \* history: what was announced, and the region it went to
    opened,    \* history: how many dialogs were opened
    closed     \* history: how many were closed

vars == <<now, queue, drain, last, regions, clears, dialogs, offer, returned, said, opened, closed>>
dialogVars == <<dialogs, offer, opened, closed>>

\* The regions, in document order.
Document == 0
New      == 1
Save     == 2
Dialogs  == {New, Save}
Regions  == {Document} \cup Dialogs

Never == -1
NoOffer == [stage |-> "none"]
Asking == [stage |-> "asking"]
Settling(before, due) == [stage |-> "settling", before |-> before, due |-> due]

Latest(S) == CHOOSE x \in S : \A y \in S : y <= x

-----------------------------------------------------------------------------
(* The queue.                                                              *)

\* What is said ("words", "connected", or the wordless "marker"), how many dialogs
\* had been closed when it was queued, and, once drained, where and when.
Announcement(text) ==
    [text |-> text, closed |-> closed', region |-> Never, at |-> Never, lost |-> FALSE]

Since(then) == IF last = Never THEN SPACING ELSE then - last

\* Fault: the gap is kept only while something is queued.
scheduleDrainAtOnce == Latest({now, STARTUP_HOLD})
scheduleDrain == Latest({now, now + SPACING - Since(now), STARTUP_HOLD})

\* Announced in one go; a drain is scheduled unless one is.
Announced(texts) ==
    /\ Len(said) + Len(texts) <= MaxSaid
    /\ said'  = said \o [i \in 1..Len(texts) |-> Announcement(texts[i])]
    /\ queue' = queue \o [i \in 1..Len(texts) |-> Len(said) + i]
    /\ drain' = IF drain = Never /\ texts # <<>> THEN scheduleDrain ELSE drain
    /\ UNCHANGED <<now, last, regions, clears>>

announce ==
    /\ UNCHANGED <<dialogVars, returned>>
    /\ Announced(<<"words">>)

Front(open) == Latest({Document} \cup open)
liveRegion == Front(dialogs)

\* Fault: a countdown that runs is left to run.
LeftToRun(region) == IF clears[region] = Never THEN now + CLEAR_AFTER ELSE clears[region]
Restarted(region) == now + CLEAR_AFTER

\* The first change into a region that has just returned is lost.
drainOne ==
    /\ drain # Never /\ drain <= now
    /\ LET region == liveRegion
           line   == Head(queue)
       IN  /\ said' = [said EXCEPT ![line].region = region, ![line].at = now,
                                   ![line].lost = region \in returned]
           /\ regions' = [regions EXCEPT ![region] = Append(@, line)]
           /\ clears'  = [clears EXCEPT ![region] = Restarted(region)]
           /\ returned' = returned \ {region}
    /\ queue' = Tail(queue)
    /\ last'  = now
    /\ drain' = IF Len(queue) > 1 THEN now + SPACING ELSE Never
    /\ UNCHANGED <<now, dialogVars>>

clear(region) ==
    /\ clears[region] # Never /\ clears[region] <= now
    /\ regions' = [regions EXCEPT ![region] = <<>>]
    /\ clears'  = [clears EXCEPT ![region] = Never]
    /\ UNCHANGED <<now, queue, drain, last, dialogVars, returned, said>>

-----------------------------------------------------------------------------
(* The dialogs.  A modal dialog is opened over nothing, or by another.     *)

Opens(dialog) ==
    /\ opened < MaxDialogs
    /\ dialogs' = dialogs \cup {dialog}
    /\ opened' = opened + 1

\* What is in front once a dialog has closed was inert until then.
Closes(dialog) ==
    /\ dialogs' = dialogs \ {dialog}
    /\ returned' = (returned \ {dialog}) \cup {Front(dialogs \ {dialog})}
    /\ closed' = closed + 1

open_new ==
    /\ dialogs = {}
    /\ Opens(New)
    /\ UNCHANGED <<now, queue, drain, last, regions, clears, offer, returned, said, closed>>

\* Escape or Cancel: nothing is said of it.
leave ==
    /\ dialogs # {}
    /\ Closes(Front(dialogs))
    /\ UNCHANGED <<now, queue, drain, last, regions, clears, offer, said, opened>>

\* Fault: the dialog says what it connected to first.
sayConnectedFirst == <<"connected", "connected", "marker">>
\* The wordless change comes before what is to be heard.
documentReturned_sayConnected == <<"marker", "connected", "connected">>

\* The connection is up: the dialog closes, says so, and the offer to save it begins.
started ==
    /\ Front(dialogs) = New /\ offer = NoOffer
    /\ Closes(New)
    /\ Announced(documentReturned_sayConnected)
    /\ offer' = Asking
    /\ UNCHANGED opened

\* What drained() does whenever it looks: it waits while anything is to be said,
\* and then for what is left of the gap after the last.
Owed == SPACING - Since(now)
Quiet == queue = <<>> /\ drain = Never

\* Fault: the queue is empty, so everything has been said.
SaidWhenQueued == queue = <<>> /\ drain = Never
SaidAndSpaced == Quiet /\ Owed <= 0
settle(before) ==
    /\ IF SaidAndSpaced
         THEN Opens(Save) /\ offer' = [stage |-> "offered", before |-> Len(said), at |-> now]
         ELSE /\ offer' = Settling(before, now + IF Quiet THEN Owed ELSE SPACING)
              /\ UNCHANGED <<dialogs, opened>>
    /\ UNCHANGED <<now, queue, drain, last, regions, clears, returned, said, closed>>

\* The settings say whether to offer; the answer takes its time.
offerToSave ==
    /\ offer = Asking
    /\ \/ settle(Len(said))
       \/ /\ offer' = NoOffer
          /\ UNCHANGED <<now, queue, drain, last, regions, clears, dialogs, returned, said,
                         opened, closed>>
settles ==
    /\ offer.stage = "settling" /\ offer.due <= now
    /\ settle(offer.before)

\* A name that is accepted closes the dialog, and that is said; a refusal is
\* said in the dialog.
saved ==
    /\ Front(dialogs) = Save
    /\ Closes(Save)
    /\ Announced(<<"marker", "words">>)
    /\ UNCHANGED <<offer, opened>>

-----------------------------------------------------------------------------
Tick ==
    /\ now < MaxNow
    /\ now' = now + 1
    /\ UNCHANGED <<queue, drain, last, regions, clears, dialogVars, returned, said>>

Init ==
    /\ now = 0 /\ queue = <<>> /\ drain = Never /\ last = Never
    /\ regions = [r \in Regions |-> <<>>] /\ clears = [r \in Regions |-> Never]
    /\ dialogs = {} /\ offer = NoOffer /\ returned = {}
    /\ said = <<>> /\ opened = 0 /\ closed = 0

Next ==
    \/ announce \/ drainOne \/ \E r \in Regions : clear(r)
    \/ open_new \/ leave \/ started \/ offerToSave \/ settles \/ saved
    \/ Tick

Spec == Init /\ [][Next]_vars

-----------------------------------------------------------------------------
(* Properties.                                                             *)

Drained == {i \in DOMAIN said : said[i].at # Never}

\* No two announcements reach the reader closer than the gap that keeps them
\* apart, whatever region each went to, and none while the page may be loading;
\* they are drained in the order they were announced.
AnnouncementsAreApart ==
    /\ \A i, j \in Drained : i < j => said[j].at >= said[i].at + SPACING
    /\ \A i \in Drained : said[i].at >= STARTUP_HOLD
    /\ \A i \in Drained, j \in DOMAIN said : j < i => j \in Drained

\* An announcement stays in its region for as long as a reader may need.
TextStands ==
    \A i \in Drained : now < said[i].at + CLEAR_AFTER
        => \E k \in DOMAIN regions[said[i].region] : regions[said[i].region][k] = i

\* "What is still queued when a dialog opens drains into the dialog's region, not
\* the document's" (announcer_view.ts): all that was announced before the Save
\* dialog was offered had been drained by then, and not just then.
NothingSpillsIntoTheOffer ==
    offer.stage = "offered"
        => \A i \in 1..offer.before : i \in Drained /\ said[i].at + SPACING <= offer.at

\* What tells of a connection is heard, whatever was queued before it, unless
\* another dialog was closed before it was its turn.
ConnectedIsHeard ==
    \A i \in Drained : said[i].text = "connected" /\ said[i].lost => said[i].closed < closed
=============================================================================
