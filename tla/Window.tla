------------------------------- MODULE Window -------------------------------
(***************************************************************************)
(* The window (ui/src/controllers/app.ts) and the sessions behind it: the  *)
(* sink that holds a session's events until the window attaches, and the   *)
(* inbox its requests wait in (crates/acter-core/src/services/session.rs). *)
(*                                                                         *)
(* The window calls the main thread, which runs the calls one at a time in *)
(* the order they were made and answers them in that order.  A session's   *)
(* events reach the window through a channel of their own.  Between a call *)
(* and its answer the window takes any event.                              *)
(***************************************************************************)
EXTENDS Integers, Sequences, FiniteSets

CONSTANTS
  MaxSessions,  \* bound: connections made
  MaxEvents,    \* bound: events of one session
  MaxCalls,     \* bound: submissions and toggles of one window
  BACKLOG,      \* events a sink holds before the window attaches
  REQUESTS      \* requests a session's inbox holds

ASSUME WindowAssumption ==
  /\ {MaxSessions, MaxEvents, MaxCalls, BACKLOG} \subseteq Nat
  /\ REQUESTS \in Nat \ {0}

VARIABLES
  current,   \* the session the service would reach
  arrived,   \* sessions connected and not yet shown
  sessions,  \* what each session keeps
  channel,   \* each session's events on their way to the window
  calls,     \* the window's calls on their way to the main thread
  answers,   \* the answers on their way back
  made,      \* how many submissions and toggles were made
  window     \* what the window keeps

vars == <<current, arrived, sessions, channel, calls, answers, made, window>>

Ids == 1..MaxSessions
LineOwners == {"Local", "FarEnd"}
Commands == 1..MaxEvents

None == 0
Unnamed == "none"
Someone == {"nobody", "submitted", "far_end"}
Events == [type : {"CommandStarted", "Output", "CommandFinished", "Disconnected"},
           session : Ids, id : Nat, n : Nat, of : Someone]
Requests == [request : {"Submit"}, id : Nat] \cup [request : {"Owner"}, owner : LineOwners]
Sessions == [alive : BOOLEAN, next_id : Nat, far_end_line : LineOwners, inbox : Seq(Requests),
             pump_owner : LineOwners, command : Nat, attached : BOOLEAN, backlog : Seq(Events),
             who : Someone, sent : Nat, lost : BOOLEAN]
NewSession ==
  [alive |-> TRUE, next_id |-> 1, far_end_line |-> "Local", inbox |-> <<>>,
   pump_owner |-> "Local", command |-> None, attached |-> FALSE, backlog |-> <<>>,
   who |-> "nobody", sent |-> 0, lost |-> FALSE]

NewWindow ==
  [session |-> None, lineOwner |-> "Local", openBlocks |-> {}, echoed |-> {},
   blocks |-> <<>>, heard |-> [s \in Ids |-> 0], over |-> {}]  \* over: history, ends taken

-----------------------------------------------------------------------------
(* The sink of a session.                                                  *)

Event(s, type, id) ==
  [type |-> type, session |-> s, id |-> id, n |-> sessions[s].sent + 1,
   of |-> sessions[s].who]

\* Events past the limit are the ones that are dropped.
DropOldest(backlog, event) ==
  IF Len(backlog) < BACKLOG THEN Append(backlog, event) ELSE Append(Tail(backlog), event)
Held(backlog, event) ==
  IF Len(backlog) < BACKLOG THEN Append(backlog, event) ELSE backlog

\* Forwarded under the lock, so nothing overtakes a backlog being flushed.
send(s, event, changed) ==
  /\ sessions[s].sent < MaxEvents
  /\ IF sessions[s].attached
       THEN /\ channel' = [channel EXCEPT ![s] = Append(@, event)]
            /\ sessions' = [sessions EXCEPT ![s] = [changed EXCEPT !.sent = @ + 1]]
       ELSE /\ sessions' =
                 [sessions EXCEPT ![s] =
                    [changed EXCEPT !.sent = @ + 1, !.backlog = Held(@, event),
                                    !.lost = @ \/ Len(changed.backlog) >= BACKLOG]]
            /\ UNCHANGED channel
  /\ UNCHANGED <<current, arrived, calls, answers, made, window>>

Discard(waiting, backlog) == waiting
Flush(waiting, backlog) == waiting \o backlog

-----------------------------------------------------------------------------
(* What the pump and the actor of a session do with its requests, as far   *)
(* as the window can tell.  A session that was replaced may go on for a    *)
(* while before it notices that nobody holds its inbox.                    *)

Takes(s) == [sessions[s] EXCEPT !.inbox = Tail(@)]
Waits(s, request) ==
  sessions[s].alive /\ sessions[s].inbox # <<>> /\ Head(sessions[s].inbox).request = request

minted(id) == id + 1
command_started(s) ==
  /\ Waits(s, "Submit") /\ sessions[s].command = None
  /\ LET id == Head(sessions[s].inbox).id
     IN send(s, [Event(s, "CommandStarted", id) EXCEPT !.of = "submitted"],
          [Takes(s) EXCEPT !.command = id, !.who = "submitted"])
\* A command the far end was given by its own line.
far_end_submitted(s) ==
  /\ sessions[s].alive /\ sessions[s].command = None
  /\ LET id == sessions[s].next_id
     IN send(s, [Event(s, "CommandStarted", id) EXCEPT !.of = "far_end"],
          [sessions[s] EXCEPT !.command = id, !.next_id = minted(id), !.who = "far_end"])
set_owner(s) ==
  /\ Waits(s, "Owner")
  /\ sessions' = [sessions EXCEPT
       ![s] = [Takes(s) EXCEPT !.pump_owner = Head(sessions[s].inbox).owner]]
  /\ UNCHANGED <<current, arrived, channel, calls, answers, made, window>>
output(s) ==
  /\ sessions[s].alive /\ sessions[s].command # None
  /\ send(s, Event(s, "Output", sessions[s].command), sessions[s])
command_finished(s) ==
  /\ sessions[s].alive /\ sessions[s].command # None
  /\ send(s, Event(s, "CommandFinished", sessions[s].command),
          [sessions[s] EXCEPT !.command = None])
\* The far end hangs up; a session that was replaced ends with its inbox, and
\* may do so without a word.
ends(s) ==
  /\ sessions[s].alive
  /\ \E told \in {TRUE} \cup {current = s} :
       IF told THEN send(s, Event(s, "Disconnected", None), [sessions[s] EXCEPT !.alive = FALSE])
       ELSE /\ sessions' = [sessions EXCEPT ![s].alive = FALSE]
            /\ UNCHANGED <<current, arrived, channel, calls, answers, made, window>>

Runs(s) == \/ command_started(s) \/ far_end_submitted(s) \/ set_owner(s) \/ output(s)
           \/ command_finished(s) \/ ends(s)

-----------------------------------------------------------------------------
(* The main thread: a call reaches the session it names only while that is *)
(* the session that is connected.                                          *)

Asked(request) ==
  IF sessions[current].alive /\ Len(sessions[current].inbox) < REQUESTS
    THEN Append(sessions[current].inbox, request)
    ELSE sessions[current].inbox
Reaches(call) == call.session = current
Answered(answer) == calls' = Tail(calls) /\ answers' = Append(answers, answer)

submit_command ==
  /\ calls # <<>> /\ Head(calls).call = "submit"
  /\ IF Reaches(Head(calls))
       THEN LET id == sessions[current].next_id
            IN /\ sessions' = [sessions EXCEPT
                    ![current].next_id = minted(id),
                    ![current].inbox = Asked([request |-> "Submit", id |-> id])]
               /\ Answered([Head(calls) EXCEPT !.id = id])
       ELSE Answered(Head(calls)) /\ UNCHANGED sessions
  /\ UNCHANGED <<current, arrived, channel, made, window>>

\* The flag the keys are read by, and a request for the pump to follow it.
FlagOnly(owner) == [sessions EXCEPT ![current].far_end_line = owner]
Owned(owner) ==
  [sessions EXCEPT ![current].far_end_line = owner,
                   ![current].inbox = Asked([request |-> "Owner", owner |-> owner])]
set_line_owner ==
  /\ calls # <<>> /\ Head(calls).call \in {"show", "toggle"}
  /\ sessions' = IF Reaches(Head(calls)) THEN Owned(Head(calls).owner) ELSE sessions
  /\ Answered(Head(calls))
  /\ UNCHANGED <<current, arrived, channel, made, window>>

attach_session ==
  /\ calls # <<>> /\ Head(calls).call = "attach"
  /\ IF Reaches(Head(calls))
       THEN /\ channel' = [channel EXCEPT ![current] = Flush(@, sessions[current].backlog)]
            /\ sessions' = [sessions EXCEPT ![current].attached = TRUE, ![current].backlog = <<>>]
       ELSE UNCHANGED <<channel, sessions>>
  /\ Answered(Head(calls))
  /\ UNCHANGED <<current, arrived, made, window>>

\* An attempt replaces the session that was connected; see Connect.
use_profile ==
  /\ current < MaxSessions
  /\ current' = current + 1
  /\ \E owner \in LineOwners :
       arrived' = Append(arrived, [session |-> current + 1, line_owner |-> owner])
  /\ UNCHANGED <<sessions, channel, calls, answers, made, window>>

-----------------------------------------------------------------------------
(* The window.                                                             *)

Call(call, session, owner) == [call |-> call, session |-> session, owner |-> owner, id |-> None]
Calls(call) == calls' = Append(calls, call)

show ==
  /\ arrived # <<>>
  /\ window' = [window EXCEPT !.session = Head(arrived).session, !.lineOwner = "Local",
                              !.openBlocks = {}, !.echoed = {}, !.blocks = <<>>, !.over = {}]
  /\ Calls(Call("show", Head(arrived).session, Head(arrived).line_owner))
  /\ arrived' = Tail(arrived)
  /\ UNCHANGED <<current, sessions, channel, answers, made>>

submit ==
  /\ window.session # None /\ made < MaxCalls
  /\ Calls(Call("submit", window.session, "Local"))
  /\ made' = made + 1
  /\ UNCHANGED <<current, arrived, sessions, channel, answers, window>>

\* What a toggle asks for, of a window that shows this owner.
Other(owner) == IF owner = "Local" THEN "FarEnd" ELSE "Local"
toggleLineOwner ==
  /\ window.session # None /\ made < MaxCalls
  /\ Calls(Call("toggle", window.session, Other(window.lineOwner)))
  /\ made' = made + 1
  /\ UNCHANGED <<current, arrived, sessions, channel, answers, window>>

\* An empty line never overwrites a heading, and never is one.
openBlock(blocks, id, heading, of) ==
  LET had == IF id \in DOMAIN blocks THEN blocks[id] ELSE [heading |-> Unnamed, of |-> {}]
      has == [heading |-> IF heading = Unnamed THEN had.heading ELSE heading,
              of |-> had.of \cup {of}]
  IN [b \in DOMAIN blocks \cup {id} |-> IF b = id THEN has ELSE blocks[b]]

TypedAnyway(id) == "typed"
TypedUnlessEchoed(id) == IF id \in window.echoed THEN Unnamed ELSE "typed"

\* The answer to a call: the window goes on where it waited for it.
answered ==
  /\ answers # <<>>
  /\ LET a == Head(answers)
     IN \/ /\ a.call = "submit"
           /\ window' = IF a.id = None THEN window
                        ELSE [window EXCEPT
                                !.blocks = openBlock(@, a.id, TypedUnlessEchoed(a.id),
                                                     <<a.session, "submitted">>),
                                !.openBlocks = @ \cup {a.id}]
           /\ UNCHANGED calls
        \/ /\ a.call = "toggle"
           /\ window' = [window EXCEPT !.lineOwner = a.owner]
           /\ UNCHANGED calls
        \/ /\ a.call = "show"
           /\ window' = [window EXCEPT !.lineOwner = a.owner]
           /\ Calls(Call("attach", a.session, a.owner))
        \/ a.call = "attach" /\ UNCHANGED <<calls, window>>
  /\ answers' = Tail(answers)
  /\ UNCHANGED <<current, arrived, sessions, channel, made>>

ensureBlock(w, e) ==
  IF e.id \in w.openBlocks THEN w
  ELSE [w EXCEPT !.blocks = openBlock(@, e.id, Unnamed, <<e.session, e.of>>),
                 !.openBlocks = @ \cup {e.id}]
\* A command started with a line the shell repeated is headed by it.
headByTheEcho(w, e) ==
  {w, [w EXCEPT !.blocks = openBlock(@, e.id, "echo", <<e.session, e.of>>),
                !.echoed = @ \cup {e.id}]}
Rows(w, e) == [w EXCEPT !.blocks[e.id].of = @ \cup {<<e.session, e.of>>}]

Handled(w, e) ==
  CASE e.type = "CommandStarted" -> headByTheEcho(ensureBlock(w, e), e)
    [] e.type = "Output" -> {Rows(ensureBlock(w, e), e)}
    [] e.type = "CommandFinished" ->
         {[ensureBlock(w, e) EXCEPT !.openBlocks = @ \ {e.id}, !.echoed = @ \ {e.id},
                                    !.over = @ \cup {e.id}]}
    [] e.type = "Disconnected" -> {[w EXCEPT !.session = None, !.lineOwner = "Local"]}

\* The window takes the next event of any channel it was ever attached to.
handleEvent(s) ==
  /\ channel[s] # <<>>
  /\ \E w \in Handled([window EXCEPT !.heard[s] = Head(channel[s]).n], Head(channel[s])) :
       window' = w
  /\ channel' = [channel EXCEPT ![s] = Tail(@)]
  /\ UNCHANGED <<current, arrived, sessions, calls, answers, made>>

Init ==
  /\ current = None /\ arrived = <<>> /\ made = 0
  /\ sessions = [s \in Ids |-> NewSession]
  /\ channel = [s \in Ids |-> <<>>]
  /\ calls = <<>> /\ answers = <<>>
  /\ window = NewWindow

Next ==
  \/ \E s \in 1..current : Runs(s)
  \/ \E s \in Ids : handleEvent(s)
  \/ submit_command \/ set_line_owner \/ attach_session \/ use_profile
  \/ show \/ submit \/ toggleLineOwner \/ answered
Spec == Init /\ [][Next]_vars

-----------------------------------------------------------------------------
(* Properties.                                                             *)

\* The calls and answers that are on their way, and what is kept for them.
CallsMade == [call : {"submit", "toggle", "show", "attach"}, session : Ids, owner : LineOwners,
              id : Nat]
TypeOK ==
  /\ current \in 0..MaxSessions /\ made \in Nat
  /\ arrived \in Seq([session : Ids, line_owner : LineOwners])
  /\ sessions \in [Ids -> Sessions] /\ channel \in [Ids -> Seq(Events)]
  /\ calls \in Seq(CallsMade) /\ answers \in Seq(CallsMade)
  /\ DOMAIN window = DOMAIN NewWindow
  /\ window.session \in Ids \cup {None} /\ window.lineOwner \in LineOwners
  /\ window.openBlocks \subseteq Nat /\ window.echoed \subseteq window.openBlocks
  /\ window.heard \in [Ids -> Nat] /\ window.over \subseteq Nat

\* What is on its way to the window is in the order it was sent, and nothing is
\* missing from it but what came after the backlog was full.
NothingIsOvertaken ==
  \A s \in Ids :
    LET way == channel[s] \o sessions[s].backlog
    IN /\ \A i \in 1..Len(way) : way[i].n > IF i = 1 THEN window.heard[s] ELSE way[i - 1].n
       /\ way # <<>> /\ window.heard[s] < BACKLOG => way[1].n = window.heard[s] + 1
       /\ ~sessions[s].lost => window.heard[s] + Len(way) = sessions[s].sent

\* The heading a shell gave a block stays its heading through every event and every
\* answer, whichever came first, until the end of the command is taken.  An answer
\* taken after that end does write the line that was typed over it, see
\* ShellHeadingStands.
EchoHeads(id) == id \in DOMAIN window.blocks /\ window.blocks[id].heading = "echo"
EchoKeepsTheHeading ==
  [][\A id \in DOMAIN window.blocks \ window.over : EchoHeads(id) => show \/ EchoHeads(id)']_vars

\* A late answer never overwrites a heading the shell gave.
ShellHeadingStands ==
  [][\A id \in DOMAIN window.blocks : EchoHeads(id) => show \/ EchoHeads(id)']_vars

\* Who holds the line is the same for the window, for the keys and for the pump,
\* once no change of it is under way.
OwnerRequests(s) ==
  {i \in 1..Len(sessions[s].inbox) : sessions[s].inbox[i].request = "Owner"}
OwnerIsSettled ==
  /\ \A i \in 1..Len(calls) : calls[i].call \notin {"show", "toggle"}
  /\ \A i \in 1..Len(answers) : answers[i].call \notin {"show", "toggle"}
  /\ OwnerRequests(current) = {}
OwnersAgree ==
  window.session # None /\ window.session = current /\ OwnerIsSettled /\ sessions[current].alive
    => /\ window.lineOwner = sessions[current].far_end_line
       /\ window.lineOwner = sessions[current].pump_owner

\* The two copies of the line owner in a session do not disagree.
OwnerCopiesAgree ==
  \A s \in Ids : sessions[s].alive /\ OwnerRequests(s) = {} =>
    sessions[s].far_end_line = sessions[s].pump_owner

\* The new session's output never lands under the old one's.
OneSessionPerBlock ==
  \A id \in DOMAIN window.blocks : Cardinality({o[1] : o \in window.blocks[id].of}) = 1
=============================================================================
