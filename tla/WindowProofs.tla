---------------------------- MODULE WindowProofs ----------------------------
(***************************************************************************)
(* What holds of the window and of its sessions' sinks for any number of   *)
(* sessions, events and calls, and any limits of the backlog and the inbox. *)
(***************************************************************************)
EXTENDS Window, TLAPS

LEMMA Limits == MaxSessions \in Nat /\ BACKLOG \in Nat
BY WindowAssumption

\* A session's events, the ones still on their way and the ones it holds.
LEMMA SendTyped ==
  ASSUME TypeOK, NEW s \in Ids, NEW event \in Events, NEW changed \in Sessions,
         send(s, event, changed)
  PROVE  /\ sessions' \in [Ids -> Sessions] /\ channel' \in [Ids -> Seq(Events)]
         /\ UNCHANGED <<current, arrived, calls, answers, made, window>>
<1>1. CASE sessions[s].attached
  <2>1. [changed EXCEPT !.sent = @ + 1] \in Sessions
    BY DEF Sessions
  <2>2. Append(channel[s], event) \in Seq(Events)
    BY DEF TypeOK
  <2>3. sessions' = [sessions EXCEPT ![s] = [changed EXCEPT !.sent = @ + 1]]
        /\ channel' = [channel EXCEPT ![s] = Append(channel[s], event)]
        /\ UNCHANGED <<current, arrived, calls, answers, made, window>>
    BY <1>1 DEF send
  <2> QED BY <2>1, <2>2, <2>3 DEF TypeOK
<1>2. CASE ~sessions[s].attached
  <2> DEFINE kept == Held(changed.backlog, event)
             gone == changed.lost \/ Len(changed.backlog) >= BACKLOG
  <2>1. kept \in Seq(Events) /\ gone \in BOOLEAN
    BY DEF Sessions, Held
  <2>2. sessions' = [sessions EXCEPT ![s] = [changed EXCEPT !.sent = @ + 1, !.backlog = kept,
                                                            !.lost = gone]]
        /\ UNCHANGED <<channel, current, arrived, calls, answers, made, window>>
    BY <1>2 DEF send
  <2> HIDE DEF kept, gone
  <2>3. [changed EXCEPT !.sent = @ + 1, !.backlog = kept, !.lost = gone] \in Sessions
    <3>1. [changed EXCEPT !.sent = @ + 1] \in Sessions
      BY DEF Sessions
    <3>2. \A r \in Sessions, b \in Seq(Events) : [r EXCEPT !.backlog = b] \in Sessions
      BY DEF Sessions
    <3>3. \A r \in Sessions, b \in BOOLEAN : [r EXCEPT !.lost = b] \in Sessions
      BY DEF Sessions
    <3>4. [changed EXCEPT !.sent = @ + 1, !.backlog = kept, !.lost = gone]
          = [[[changed EXCEPT !.sent = @ + 1] EXCEPT !.backlog = kept] EXCEPT !.lost = gone]
      OBVIOUS
    <3> QED BY <2>1, <3>1, <3>2, <3>3, <3>4
  <2> QED BY <2>2, <2>3 DEF TypeOK
<1> QED BY <1>1, <1>2

\* A session runs a step.
LEMMA TypeByRuns == ASSUME TypeOK, NEW s \in 1..current, Runs(s) PROVE TypeOK'
<1> DEFINE now == sessions[s]
<1>1. s \in Ids
  BY Limits DEF TypeOK, Ids
<1>2. now \in Sessions
  BY <1>1 DEF TypeOK
<1>3. \A type \in {"CommandStarted", "Output", "CommandFinished", "Disconnected"}, id \in Nat :
        Event(s, type, id) \in Events
  BY <1>1, <1>2 DEF Event, Events, Sessions
<1>4. ASSUME NEW event \in Events, NEW changed \in Sessions, send(s, event, changed)
      PROVE  TypeOK'
  BY <1>1, <1>4, SendTyped DEF TypeOK
<1>5. ASSUME now.inbox # <<>>
      PROVE  Head(now.inbox) \in Requests /\ Takes(s) \in Sessions
  <2>1. now.inbox \in Seq(Requests)
    BY <1>2 DEF Sessions
  <2>2. Head(now.inbox) \in Requests /\ Tail(now.inbox) \in Seq(Requests)
    BY <1>5, <2>1
  <2>3. Takes(s) = [now EXCEPT !.inbox = Tail(now.inbox)]
    BY DEF Takes
  <2> HIDE DEF now
  <2> QED BY <1>2, <2>2, <2>3 DEF Sessions
<1>6. CASE command_started(s)
  <2> DEFINE id == Head(now.inbox).id
             event == [Event(s, "CommandStarted", id) EXCEPT !.of = "submitted"]
             changed == [Takes(s) EXCEPT !.command = id, !.who = "submitted"]
  <2>1. id \in Nat /\ Takes(s) \in Sessions
    BY <1>5, <1>6 DEF command_started, Waits, Requests
  <2>2. event \in Events
    BY <1>3, <2>1 DEF Events, Someone
  <2>3. changed \in Sessions
    BY <2>1 DEF Sessions, Someone
  <2> QED BY <1>4, <1>6, <2>2, <2>3 DEF command_started
<1>7. CASE far_end_submitted(s)
  <2> DEFINE id == now.next_id
             event == [Event(s, "CommandStarted", id) EXCEPT !.of = "far_end"]
             changed == [now EXCEPT !.command = id, !.next_id = minted(id), !.who = "far_end"]
  <2>1. id \in Nat /\ minted(id) \in Nat
    BY <1>2 DEF Sessions, minted
  <2>2. event \in Events
    BY <1>3, <2>1 DEF Events, Someone
  <2>3. changed \in Sessions
    BY <1>2, <2>1 DEF Sessions, Someone
  <2> QED BY <1>4, <1>7, <2>2, <2>3 DEF far_end_submitted
<1>8. CASE set_owner(s)
  <2> DEFINE owner == Head(now.inbox).owner
             changed == [Takes(s) EXCEPT !.pump_owner = owner]
  <2>1. owner \in LineOwners /\ Takes(s) \in Sessions
    BY <1>5, <1>8 DEF set_owner, Waits, Requests
  <2>2. changed \in Sessions
    BY <2>1 DEF Sessions
  <2> QED BY <1>1, <1>8, <2>2 DEF set_owner, TypeOK
<1>9. CASE output(s)
  <2>1. now.command \in Nat
    BY <1>2 DEF Sessions
  <2> QED BY <1>2, <1>3, <1>4, <1>9, <2>1 DEF output
<1>10. CASE command_finished(s)
  <2>1. now.command \in Nat /\ [now EXCEPT !.command = None] \in Sessions
    BY <1>2 DEF Sessions, None
  <2> QED BY <1>3, <1>4, <1>10, <2>1 DEF command_finished
<1>11. CASE ends(s)
  <2>1. [now EXCEPT !.alive = FALSE] \in Sessions /\ None \in Nat
    BY <1>2 DEF Sessions, None
  <2>2. CASE send(s, Event(s, "Disconnected", None), [now EXCEPT !.alive = FALSE])
    BY <1>3, <1>4, <2>1, <2>2
  <2>3. CASE /\ sessions' = [sessions EXCEPT ![s].alive = FALSE]
             /\ UNCHANGED <<current, arrived, channel, calls, answers, made, window>>
    BY <1>1, <2>1, <2>3 DEF TypeOK
  <2> QED BY <1>11, <2>2, <2>3 DEF ends
<1> QED BY <1>6, <1>7, <1>8, <1>9, <1>10, <1>11 DEF Runs

\* The main thread answers the first of the calls.
LEMMA TypeByAnswers ==
  ASSUME TypeOK, calls # <<>>, NEW answer \in CallsMade, Answered(answer)
  PROVE  calls' \in Seq(CallsMade) /\ answers' \in Seq(CallsMade)
<1>1. calls \in Seq(CallsMade) /\ answers \in Seq(CallsMade)
  BY DEF TypeOK
<1> QED BY <1>1 DEF Answered

LEMMA AskedTyped ==
  ASSUME TypeOK, current \in Ids, NEW request \in Requests
  PROVE  Asked(request) \in Seq(Requests)
<1>1. sessions[current].inbox \in Seq(Requests)
  BY DEF TypeOK, Sessions
<1> QED BY <1>1 DEF Asked

LEMMA TypeByTheMainThread ==
  ASSUME TypeOK, submit_command \/ set_line_owner \/ attach_session
  PROVE  TypeOK'
<1> DEFINE call == Head(calls)
           now  == sessions[current]
<1>1. calls # <<>> /\ call \in CallsMade
  BY DEF submit_command, set_line_owner, attach_session, TypeOK
<1>2. ASSUME Reaches(call) PROVE current \in Ids /\ now \in Sessions
  BY <1>1, <1>2 DEF TypeOK, Reaches, CallsMade
<1>3. CASE submit_command
  <2>1. CASE ~Reaches(call)
    BY <1>1, <1>3, <2>1, TypeByAnswers DEF submit_command, TypeOK
  <2>2. CASE Reaches(call)
    <3> DEFINE id == now.next_id
               asked == Asked([request |-> "Submit", id |-> id])
               changed == [now EXCEPT !.next_id = minted(id), !.inbox = asked]
    <3>1. id \in Nat /\ minted(id) \in Nat
      BY <1>2, <2>2 DEF Sessions, minted
    <3>2. asked \in Seq(Requests)
      BY <1>2, <2>2, <3>1, AskedTyped DEF Requests
    <3>3. [call EXCEPT !.id = id] \in CallsMade
      BY <1>1, <3>1 DEF CallsMade
    <3>4. Answered([call EXCEPT !.id = id]) /\ sessions' = [sessions EXCEPT ![current] = changed]
      BY <1>2, <1>3, <2>2 DEF submit_command, TypeOK
    <3> HIDE DEF asked
    <3>5. changed \in Sessions
      BY <1>2, <2>2, <3>1, <3>2 DEF Sessions
    <3> HIDE DEF changed
    <3> QED BY <1>1, <1>2, <1>3, <2>2, <3>3, <3>4, <3>5, TypeByAnswers DEF submit_command, TypeOK
  <2> QED BY <2>1, <2>2
<1>4. CASE set_line_owner
  <2>1. CASE ~Reaches(call)
    BY <1>1, <1>4, <2>1, TypeByAnswers DEF set_line_owner, TypeOK
  <2>2. CASE Reaches(call)
    <3> DEFINE asked == Asked([request |-> "Owner", owner |-> call.owner])
               changed == [now EXCEPT !.far_end_line = call.owner, !.inbox = asked]
    <3>1. call.owner \in LineOwners
      BY <1>1 DEF CallsMade
    <3>2. asked \in Seq(Requests)
      BY <1>2, <2>2, <3>1, AskedTyped DEF Requests
    <3>3. sessions' = [sessions EXCEPT ![current] = changed]
      BY <1>2, <1>4, <2>2 DEF set_line_owner, Owned, TypeOK
    <3> HIDE DEF asked
    <3>4. changed \in Sessions
      BY <1>2, <2>2, <3>1, <3>2 DEF Sessions
    <3> HIDE DEF changed
    <3> QED BY <1>1, <1>2, <1>4, <2>2, <3>3, <3>4, TypeByAnswers DEF set_line_owner, TypeOK
  <2> QED BY <2>1, <2>2
<1>5. CASE attach_session
  <2>1. CASE ~Reaches(call)
    BY <1>1, <1>5, <2>1, TypeByAnswers DEF attach_session, TypeOK
  <2>2. CASE Reaches(call)
    <3> DEFINE way == Flush(channel[current], now.backlog)
               changed == [now EXCEPT !.attached = TRUE, !.backlog = <<>>]
    <3>1. way \in Seq(Events)
      BY <1>2, <2>2 DEF Flush, TypeOK, Sessions
    <3>2. changed \in Sessions
      <4>1. [now EXCEPT !.attached = TRUE] \in Sessions
        BY <1>2, <2>2 DEF Sessions
      <4>2. \A r \in Sessions, b \in Seq(Events) : [r EXCEPT !.backlog = b] \in Sessions
        BY DEF Sessions
      <4>3. changed = [[now EXCEPT !.attached = TRUE] EXCEPT !.backlog = <<>>]
        OBVIOUS
      <4>4. <<>> \in Seq(Events)
        OBVIOUS
      <4> QED BY <4>1, <4>2, <4>3, <4>4
    <3>3. /\ channel' = [channel EXCEPT ![current] = way]
          /\ sessions' = [sessions EXCEPT ![current] = changed]
      BY <1>2, <1>5, <2>2 DEF attach_session, TypeOK
    <3> HIDE DEF way, changed
    <3> QED BY <1>1, <1>2, <1>5, <2>2, <3>1, <3>2, <3>3, TypeByAnswers DEF attach_session, TypeOK
  <2> QED BY <2>1, <2>2
<1> QED BY <1>3, <1>4, <1>5

\* The window asks, and goes on where it was answered.
LEMMA TypeByTheWindow ==
  ASSUME TypeOK, show \/ submit \/ toggleLineOwner \/ answered \/ use_profile
  PROVE  TypeOK'
<1> USE DEF TypeOK
<1>1. ASSUME NEW call \in CallsMade, Calls(call) PROVE calls' \in Seq(CallsMade)
  BY <1>1 DEF Calls
<1>2. \A kind \in {"submit", "toggle", "show", "attach"}, session \in Ids, owner \in LineOwners :
        Call(kind, session, owner) \in CallsMade
  BY DEF Call, CallsMade, None
<1>3. CASE show
  <2>1. Head(arrived).session \in Ids /\ Head(arrived).line_owner \in LineOwners
        /\ Tail(arrived) \in Seq([session : Ids, line_owner : LineOwners])
    <3> DEFINE Arrivals == [session : Ids, line_owner : LineOwners]
    <3>1. arrived \in Seq(Arrivals) /\ arrived # <<>>
      BY <1>3 DEF show
    <3>2. Head(arrived) \in Arrivals /\ Tail(arrived) \in Seq(Arrivals)
      <4> HIDE DEF Arrivals
      <4> QED BY <3>1
    <3> QED BY <3>2
  <2>2. calls' \in Seq(CallsMade)
    BY <1>1, <1>2, <1>3, <2>1 DEF show
  <2> QED BY <1>3, <2>1, <2>2 DEF show, NewWindow, LineOwners
<1>4. CASE submit
  BY <1>1, <1>2, <1>4 DEF submit, LineOwners
<1>5. CASE toggleLineOwner
  BY <1>1, <1>2, <1>5 DEF toggleLineOwner, Other, LineOwners
<1>6. CASE answered
  <2> DEFINE a == Head(answers)
  <2>1. a \in CallsMade /\ answers' \in Seq(CallsMade)
    BY <1>6 DEF answered
  <2>2. a.session \in Ids /\ a.owner \in LineOwners /\ a.id \in Nat
    BY <2>1 DEF CallsMade
  <2>3. CASE /\ UNCHANGED calls
             /\ window' = [window EXCEPT
                    !.blocks = openBlock(@, a.id, TypedUnlessEchoed(a.id), <<a.session, "submitted">>),
                    !.openBlocks = @ \cup {a.id}]
    BY <1>6, <2>1, <2>2, <2>3 DEF answered, NewWindow
  <2>4. CASE UNCHANGED <<window, calls>>
    BY <1>6, <2>1, <2>4 DEF answered
  <2>5. CASE window' = [window EXCEPT !.lineOwner = a.owner]
             /\ (UNCHANGED calls \/ Calls(Call("attach", a.session, a.owner)))
    <3>1. calls' \in Seq(CallsMade)
      BY <1>1, <1>2, <2>2, <2>5
    <3> QED BY <1>6, <2>1, <2>2, <2>5, <3>1 DEF answered, NewWindow
  <2> QED BY <1>6, <2>3, <2>4, <2>5 DEF answered
<1>7. CASE use_profile
  <2>1. current + 1 \in Ids
    BY <1>7, Limits DEF use_profile, Ids
  <2>2. PICK owner \in LineOwners :
          arrived' = Append(arrived, [session |-> current + 1, line_owner |-> owner])
    BY <1>7 DEF use_profile
  <2>3. arrived' \in Seq([session : Ids, line_owner : LineOwners])
    <3> DEFINE Arrivals == [session : Ids, line_owner : LineOwners]
    <3>1. [session |-> current + 1, line_owner |-> owner] \in Arrivals
      BY <2>1
    <3> HIDE DEF Arrivals
    <3>2. arrived \in Seq(Arrivals)
      BY DEF Arrivals
    <3>3. arrived' \in Seq(Arrivals)
      BY <2>2, <3>1, <3>2
    <3> QED BY <3>3 DEF Arrivals
  <2> QED BY <1>7, <2>1, <2>3, Limits DEF use_profile, Ids
<1> QED BY <1>3, <1>4, <1>5, <1>6, <1>7

\* The window takes an event.
LEMMA TypeByEvents == ASSUME TypeOK, NEW s \in Ids, handleEvent(s) PROVE TypeOK'
<1> DEFINE e == Head(channel[s])
           w0 == [window EXCEPT !.heard[s] = e.n]
<1>1. e \in Events /\ Tail(channel[s]) \in Seq(Events)
  BY DEF handleEvent, TypeOK
<1>2. e.id \in Nat /\ e.n \in Nat
  BY <1>1 DEF Events
<1>3. window' \in Handled(w0, e) /\ channel' = [channel EXCEPT ![s] = Tail(@)]
      /\ UNCHANGED <<current, arrived, sessions, calls, answers, made>>
  BY DEF handleEvent
<1> DEFINE Good(w) ==
             /\ DOMAIN w = DOMAIN NewWindow
             /\ w.session \in Ids \cup {None} /\ w.lineOwner \in LineOwners
             /\ w.openBlocks \subseteq Nat /\ w.echoed \subseteq w.openBlocks
             /\ w.heard \in [Ids -> Nat] /\ w.over \subseteq Nat
<1>4. Good(w0)
  BY <1>2 DEF TypeOK, NewWindow
<1>5. Good(ensureBlock(w0, e)) /\ e.id \in ensureBlock(w0, e).openBlocks
  <2> HIDE DEF w0, e
  <2> QED BY <1>2, <1>4 DEF ensureBlock, NewWindow
<1>6. Good(window')
  <2> HIDE DEF w0, e
  <2>1. CASE e.type = "CommandStarted"
    <3> DEFINE w == ensureBlock(w0, e)
               blocks == openBlock(w.blocks, e.id, "echo", <<e.session, e.of>>)
    <3>1. window' = w \/ window' = [w EXCEPT !.blocks = blocks, !.echoed = @ \cup {e.id}]
      BY <1>3, <2>1 DEF Handled, headByTheEcho
    <3> HIDE DEF w, blocks
    <3>2. Good(w) /\ e.id \in w.openBlocks
      BY <1>5 DEF w
    <3> QED BY <1>2, <3>1, <3>2 DEF NewWindow
  <2>2. CASE e.type = "Output"
    BY <1>2, <1>3, <1>5, <2>2 DEF Handled, Rows, NewWindow
  <2>3. CASE e.type = "CommandFinished"
    <3> DEFINE w == ensureBlock(w0, e)
    <3>1. window' = [w EXCEPT !.openBlocks = @ \ {e.id}, !.echoed = @ \ {e.id},
                              !.over = @ \cup {e.id}]
      BY <1>3, <2>3 DEF Handled
    <3> HIDE DEF w
    <3>2. Good(w)
      BY <1>5 DEF w
    <3> QED BY <1>2, <3>1, <3>2 DEF NewWindow
  <2>4. CASE e.type = "Disconnected"
    BY <1>2, <1>3, <1>4, <2>4 DEF Handled, NewWindow, LineOwners
  <2>5. e.type \in {"CommandStarted", "Output", "CommandFinished", "Disconnected"}
    BY <1>1 DEF Events
  <2> QED BY <2>1, <2>2, <2>3, <2>4, <2>5
<1> QED BY <1>1, <1>3, <1>6 DEF TypeOK

LEMMA TypeByNext == TypeOK /\ [Next]_vars => TypeOK'
<1> SUFFICES ASSUME TypeOK, [Next]_vars PROVE TypeOK'
  OBVIOUS
<1>1. CASE Next
  BY <1>1, TypeByRuns, TypeByEvents, TypeByTheMainThread, TypeByTheWindow DEF Next
<1>2. CASE UNCHANGED vars
  BY <1>2 DEF vars, TypeOK
<1> QED BY <1>1, <1>2

LEMMA TypeAtFirst == Init => TypeOK
<1>1. NewSession \in Sessions
  BY DEF NewSession, Sessions, None, LineOwners, Someone
<1>2. None \in 0..MaxSessions
  BY Limits DEF None
<1> QED BY <1>1, <1>2 DEF Init, TypeOK, NewWindow, LineOwners, None

THEOREM TypesHold == Spec => []TypeOK
BY TypeAtFirst, TypeByNext, PTL DEF Spec

-----------------------------------------------------------------------------
(***************************************************************************)
(* What is on its way to the window, whole but for what was sent past the  *)
(* limit of the backlog: the events are numbered as they were sent, and    *)
(* the gap, if there is one, comes after as many as the backlog holds.     *)
(***************************************************************************)
Whole(way, heard, sent, lost) ==
  /\ heard <= sent
  /\ \A i \in 1..Len(way) : way[i].n \in (heard + 1)..sent
  /\ \A i, j \in 1..Len(way) : i < j => way[i].n < way[j].n
  /\ \A i \in 1..Len(way) : heard + i <= BACKLOG \/ ~lost => way[i].n = heard + i
  /\ IF lost THEN heard + Len(way) >= BACKLOG ELSE heard + Len(way) = sent
Way(s) == channel[s] \o sessions[s].backlog
WayIsWhole(s) ==
  /\ sessions[s].attached => sessions[s].backlog = <<>>
  /\ Whole(Way(s), window.heard[s], sessions[s].sent, sessions[s].lost)

LEMMA OneAfterTheOther ==
  ASSUME NEW a \in Seq(Events), NEW b \in Seq(Events)
  PROVE  /\ a \o b \in Seq(Events) /\ Len(a \o b) = Len(a) + Len(b)
         /\ Len(a) \in Nat /\ Len(b) \in Nat
         /\ (a \o b) \o <<>> = a \o b
         /\ \A e \in Events : a \o Append(b, e) = Append(a \o b, e)
OBVIOUS

\* One more event is sent, and kept.
LEMMA OneMoreIsSent ==
  ASSUME NEW way \in Seq(Events), NEW heard \in Nat, NEW sent \in Nat, NEW lost \in BOOLEAN,
         Whole(way, heard, sent, lost), NEW event \in Events, event.n = sent + 1
  PROVE  Whole(Append(way, event), heard, sent + 1, lost)
<1> DEFINE longer == Append(way, event)
<1>1. /\ longer \in Seq(Events) /\ Len(longer) = Len(way) + 1 /\ Len(way) \in Nat
      /\ \A i \in 1..Len(way) : longer[i] = way[i]
      /\ longer[Len(way) + 1] = event
  OBVIOUS
<1> HIDE DEF longer
<1>2. \A i \in 1..Len(way) : way[i].n \in (heard + 1)..sent
  BY DEF Whole
<1>3. heard <= sent /\ BACKLOG \in Nat
  BY Limits DEF Whole
<1>4. \A i \in 1..Len(longer) : i \in 1..Len(way) \/ i = Len(way) + 1
  BY <1>1
<1>5. \A i \in 1..Len(longer) : longer[i].n \in (heard + 1)..(sent + 1)
  BY <1>1, <1>2, <1>3, <1>4
<1>6. \A i, j \in 1..Len(longer) : i < j => longer[i].n < longer[j].n
  <2> SUFFICES ASSUME NEW i \in 1..Len(longer), NEW j \in 1..Len(longer), i < j
               PROVE  longer[i].n < longer[j].n
    OBVIOUS
  <2>1. i \in 1..Len(way)
    BY <1>1
  <2>2. CASE j = Len(way) + 1
    BY <1>1, <1>2, <2>1, <2>2
  <2>3. CASE j \in 1..Len(way)
    BY <1>1, <2>1, <2>3 DEF Whole
  <2> QED BY <1>4, <2>2, <2>3
<1>7. \A i \in 1..Len(longer) : heard + i <= BACKLOG \/ ~lost => longer[i].n = heard + i
  <2> SUFFICES ASSUME NEW i \in 1..Len(longer), heard + i <= BACKLOG \/ ~lost
               PROVE  longer[i].n = heard + i
    OBVIOUS
  <2>1. CASE i \in 1..Len(way)
    BY <1>1, <2>1 DEF Whole
  <2>2. CASE i = Len(way) + 1
    BY <1>1, <1>3, <2>2 DEF Whole
  <2> QED BY <1>4, <2>1, <2>2
<1>8. IF lost THEN heard + Len(longer) >= BACKLOG ELSE heard + Len(longer) = sent + 1
  BY <1>1, <1>3 DEF Whole
<1> QED BY <1>3, <1>5, <1>6, <1>7, <1>8 DEF Whole, longer

\* One more event is sent past the limit, and dropped.
LEMMA OneMoreIsDropped ==
  ASSUME NEW way \in Seq(Events), NEW heard \in Nat, NEW sent \in Nat, NEW lost \in BOOLEAN,
         Whole(way, heard, sent, lost), heard + Len(way) >= BACKLOG
  PROVE  Whole(way, heard, sent + 1, TRUE)
<1>1. BACKLOG \in Nat /\ Len(way) \in Nat
  BY Limits
<1>2. \A i \in 1..Len(way) : way[i].n \in (heard + 1)..(sent + 1)
  BY DEF Whole
<1> QED BY <1>1, <1>2 DEF Whole

\* The window takes the first event of those on their way.
LEMMA OneMoreIsHeard ==
  ASSUME NEW way \in Seq(Events), way # <<>>, NEW heard \in Nat, NEW sent \in Nat,
         NEW lost \in BOOLEAN, Whole(way, heard, sent, lost)
  PROVE  Whole(Tail(way), Head(way).n, sent, lost)
<1> DEFINE rest == Tail(way)
           now  == Head(way).n
<1>1. /\ Len(way) \in Nat /\ Len(way) > 0 /\ rest \in Seq(Events)
      /\ Len(rest) = Len(way) - 1 /\ now = way[1].n
      /\ \A i \in 1..Len(rest) : rest[i] = way[i + 1] /\ i + 1 \in 1..Len(way)
  OBVIOUS
<1> HIDE DEF rest, now
<1>2. BACKLOG \in Nat /\ 1 \in 1..Len(way)
  BY <1>1, Limits
<1>3. \A i \in 1..Len(way) : way[i].n \in (heard + 1)..sent
  BY DEF Whole
<1>4. now \in (heard + 1)..sent
  BY <1>1, <1>2, <1>3
<1>5. \A i \in 1..Len(rest) : rest[i].n \in (now + 1)..sent
  <2> SUFFICES ASSUME NEW i \in 1..Len(rest) PROVE rest[i].n \in (now + 1)..sent
    OBVIOUS
  <2>1. way[1].n < way[i + 1].n
    BY <1>1, <1>2 DEF Whole
  <2> QED BY <1>1, <1>3, <1>4, <2>1
<1>6. \A i, j \in 1..Len(rest) : i < j => rest[i].n < rest[j].n
  <2> SUFFICES ASSUME NEW i \in 1..Len(rest), NEW j \in 1..Len(rest), i < j
               PROVE  rest[i].n < rest[j].n
    OBVIOUS
  <2>1. i + 1 \in 1..Len(way) /\ j + 1 \in 1..Len(way) /\ i + 1 < j + 1
    BY <1>1
  <2>2. way[i + 1].n < way[j + 1].n
    BY <2>1 DEF Whole
  <2> QED BY <1>1, <2>2
<1>7. heard + 1 <= BACKLOG \/ ~lost => now = heard + 1
  BY <1>1, <1>2 DEF Whole
<1>8. \A i \in 1..Len(rest) : now + i <= BACKLOG \/ ~lost => rest[i].n = now + i
  <2> SUFFICES ASSUME NEW i \in 1..Len(rest), now + i <= BACKLOG \/ ~lost
               PROVE  rest[i].n = now + i
    OBVIOUS
  <2>1. now = heard + 1
    BY <1>2, <1>4, <1>7
  <2>2. heard + (i + 1) <= BACKLOG \/ ~lost
    BY <2>1
  <2>3. way[i + 1].n = heard + (i + 1)
    BY <1>1, <2>2 DEF Whole
  <2> QED BY <1>1, <2>1, <2>3
<1>9. IF lost THEN now + Len(rest) >= BACKLOG ELSE now + Len(rest) = sent
  BY <1>1, <1>2, <1>4, <1>7 DEF Whole
<1>10. now <= sent
  BY <1>4
<1> QED BY <1>5, <1>6, <1>8, <1>9, <1>10 DEF Whole, rest, now

\* A session sends an event: whatever else it changes, it is the next one.
LEMMA WholeBySend ==
  ASSUME TypeOK, NEW s \in Ids, NEW event \in Events, NEW changed \in Sessions,
         event.n = sessions[s].sent + 1, changed.sent = sessions[s].sent,
         changed.attached = sessions[s].attached, changed.backlog = sessions[s].backlog,
         changed.lost = sessions[s].lost,
         \A t \in Ids : WayIsWhole(t), send(s, event, changed)
  PROVE  \A t \in Ids : WayIsWhole(t)'
<1> DEFINE now  == sessions[s]
           next == sessions'[s]
<1>1. UNCHANGED window /\ \A t \in Ids \ {s} : sessions'[t] = sessions[t] /\ channel'[t] = channel[t]
  BY DEF send, TypeOK
<1>2. ASSUME NEW t \in Ids \ {s} PROVE WayIsWhole(t)'
  BY <1>1 DEF WayIsWhole, Way
<1>3. /\ now.sent \in Nat /\ now.lost \in BOOLEAN /\ now.attached \in BOOLEAN
      /\ now.backlog \in Seq(Events) /\ channel[s] \in Seq(Events)
      /\ Way(s) \in Seq(Events) /\ window.heard[s] \in Nat
  <2>1. now \in Sessions /\ channel[s] \in Seq(Events) /\ window.heard[s] \in Nat
    BY DEF TypeOK
  <2>2. /\ now.sent \in Nat /\ now.lost \in BOOLEAN /\ now.attached \in BOOLEAN
        /\ now.backlog \in Seq(Events)
    BY <2>1 DEF Sessions
  <2>3. Way(s) \in Seq(Events)
    <3>1. \A a, b \in Seq(Events) : a \o b \in Seq(Events)
      OBVIOUS
    <3> QED BY <2>1, <2>2, <3>1 DEF Way
  <2> QED BY <2>1, <2>2, <2>3
<1>4. Whole(Way(s), window.heard[s], now.sent, now.lost) /\ (now.attached => now.backlog = <<>>)
  BY DEF WayIsWhole
<1>5. CASE now.attached
  <2>1. /\ next = [changed EXCEPT !.sent = now.sent + 1]
        /\ channel'[s] = Append(channel[s], event)
    BY <1>5 DEF send, TypeOK
  <2>2. /\ next.sent = now.sent + 1 /\ next.lost = now.lost /\ next.attached = now.attached
        /\ next.backlog = <<>>
    BY <1>4, <1>5, <2>1 DEF Sessions
  <2>3. Way(s)' = Append(Way(s), event)
    <3>1. \A seq \in Seq(Events) : seq \o <<>> = seq
      OBVIOUS
    <3>2. Append(channel[s], event) \in Seq(Events)
      BY <1>3
    <3> QED BY <1>3, <1>4, <1>5, <2>1, <2>2, <3>1, <3>2 DEF Way
  <2>4. Whole(Append(Way(s), event), window.heard[s], now.sent + 1, now.lost)
    BY <1>3, <1>4, OneMoreIsSent
  <2> QED BY <1>1, <1>2, <2>2, <2>3, <2>4 DEF WayIsWhole
<1>6. CASE ~now.attached
  <2> DEFINE full == Len(now.backlog) >= BACKLOG
  <2>1. /\ next = [changed EXCEPT !.sent = @ + 1, !.backlog = Held(@, event),
                                  !.lost = @ \/ Len(changed.backlog) >= BACKLOG]
        /\ channel'[s] = channel[s]
    BY <1>6 DEF send, TypeOK
  <2>2. /\ next.sent = now.sent + 1 /\ next.attached = now.attached
        /\ next.backlog = Held(now.backlog, event)
    BY <2>1 DEF Sessions
  <2>3. CASE ~full
    <3>1. next.lost = now.lost
      BY <1>3, <2>1, <2>3 DEF Sessions
    <3>2. next.backlog = Append(now.backlog, event)
      BY <1>3, <2>2, <2>3, Limits DEF Held
    <3>3. Way(s)' = Append(Way(s), event)
      <4>1. channel'[s] = channel[s]
        BY <2>1
      <4>2. Way(s)' = channel[s] \o Append(now.backlog, event)
        BY <3>2, <4>1 DEF Way
      <4>3. channel[s] \o Append(now.backlog, event) = Append(channel[s] \o now.backlog, event)
        BY <1>3, OneAfterTheOther
      <4> QED BY <4>2, <4>3 DEF Way
    <3>4. Whole(Append(Way(s), event), window.heard[s], now.sent + 1, now.lost)
      BY <1>3, <1>4, OneMoreIsSent
    <3> QED BY <1>1, <1>2, <1>6, <2>2, <3>1, <3>3, <3>4 DEF WayIsWhole
  <2>4. CASE full
    <3>1. next.lost = TRUE
      BY <2>1, <2>4 DEF Sessions
    <3>2. next.backlog = now.backlog
      BY <1>3, <2>2, <2>4, Limits DEF Held
    <3>3. Way(s)' = Way(s)
      BY <2>1, <3>2 DEF Way
    <3>4. window.heard[s] + Len(Way(s)) >= BACKLOG
      <4>1. Len(Way(s)) = Len(channel[s]) + Len(now.backlog)
        BY <1>3, OneAfterTheOther DEF Way
      <4>2. Len(channel[s]) \in Nat /\ Len(now.backlog) \in Nat /\ BACKLOG \in Nat
        BY <1>3, Limits
      <4>3. window.heard[s] \in Nat /\ Len(now.backlog) >= BACKLOG
        BY <1>3, <2>4
      <4>4. \A a, b, h, limit \in Nat : b >= limit => h + (a + b) >= limit
        OBVIOUS
      <4> QED BY <4>1, <4>2, <4>3, <4>4, Zenon
    <3>5. Whole(Way(s), window.heard[s], now.sent + 1, TRUE)
      BY <1>3, <1>4, <3>4, OneMoreIsDropped
    <3> QED BY <1>1, <1>2, <1>6, <2>2, <3>1, <3>3, <3>5 DEF WayIsWhole
  <2> QED BY <2>3, <2>4
<1> QED BY <1>3, <1>5, <1>6

\* A session runs a step.
LEMMA WholeByRuns ==
  ASSUME TypeOK, \A t \in Ids : WayIsWhole(t), NEW s \in 1..current, Runs(s)
  PROVE  \A t \in Ids : WayIsWhole(t)'
<1> DEFINE now == sessions[s]
<1>1. s \in Ids
  BY Limits DEF TypeOK, Ids
<1>2. now \in Sessions
  BY <1>1 DEF TypeOK
<1>3. \A type \in {"CommandStarted", "Output", "CommandFinished", "Disconnected"}, id \in Nat :
        Event(s, type, id) \in Events /\ Event(s, type, id).n = now.sent + 1
  BY <1>1, <1>2 DEF Event, Events, Sessions
<1>4. ASSUME NEW changed \in Sessions, changed.attached = now.attached,
             changed.backlog = now.backlog, changed.sent = now.sent, changed.lost = now.lost,
             sessions' = [sessions EXCEPT ![s] = changed], UNCHANGED <<channel, window>>
      PROVE  \A t \in Ids : WayIsWhole(t)'
  BY <1>1, <1>4 DEF TypeOK, WayIsWhole, Way
<1>5. ASSUME NEW event \in Events, NEW changed \in Sessions, event.n = now.sent + 1,
             changed.attached = now.attached, changed.backlog = now.backlog,
             changed.sent = now.sent, changed.lost = now.lost, send(s, event, changed)
      PROVE  \A t \in Ids : WayIsWhole(t)'
  BY <1>1, <1>5, WholeBySend
<1>6. ASSUME now.inbox # <<>>
      PROVE  /\ Head(now.inbox) \in Requests /\ Takes(s) \in Sessions
             /\ Takes(s) = [now EXCEPT !.inbox = Tail(now.inbox)]
  <2>1. now.inbox \in Seq(Requests)
    BY <1>2 DEF Sessions
  <2>2. Head(now.inbox) \in Requests /\ Tail(now.inbox) \in Seq(Requests)
    BY <1>6, <2>1
  <2>3. Takes(s) = [now EXCEPT !.inbox = Tail(now.inbox)]
    BY DEF Takes
  <2> HIDE DEF now
  <2> QED BY <1>2, <2>2, <2>3 DEF Sessions
<1>7. CASE command_started(s)
  <2> DEFINE id == Head(now.inbox).id
             event == [Event(s, "CommandStarted", id) EXCEPT !.of = "submitted"]
             changed == [Takes(s) EXCEPT !.command = id, !.who = "submitted"]
  <2>1. id \in Nat /\ Takes(s) \in Sessions /\ Takes(s) = [now EXCEPT !.inbox = Tail(now.inbox)]
    BY <1>6, <1>7 DEF command_started, Waits, Requests
  <2>2. event \in Events /\ event.n = now.sent + 1
    BY <1>3, <2>1 DEF Events, Someone
  <2>3. /\ changed \in Sessions /\ changed.attached = now.attached
        /\ changed.backlog = now.backlog /\ changed.sent = now.sent /\ changed.lost = now.lost
    BY <1>2, <2>1 DEF Sessions, Someone
  <2>4. send(s, event, changed)
    BY <1>7 DEF command_started
  <2> HIDE DEF event, changed, now
  <2> QED BY <1>5, <2>2, <2>3, <2>4
<1>8. CASE far_end_submitted(s)
  <2> DEFINE id == now.next_id
             event == [Event(s, "CommandStarted", id) EXCEPT !.of = "far_end"]
             changed == [now EXCEPT !.command = id, !.next_id = minted(id), !.who = "far_end"]
  <2>1. id \in Nat /\ minted(id) \in Nat
    BY <1>2 DEF Sessions, minted
  <2>2. event \in Events /\ event.n = now.sent + 1
    BY <1>3, <2>1 DEF Events, Someone
  <2>3. /\ changed \in Sessions /\ changed.attached = now.attached
        /\ changed.backlog = now.backlog /\ changed.sent = now.sent /\ changed.lost = now.lost
    BY <1>2, <2>1 DEF Sessions, Someone
  <2>4. send(s, event, changed)
    BY <1>8 DEF far_end_submitted
  <2> HIDE DEF event, changed, now
  <2> QED BY <1>5, <2>2, <2>3, <2>4
<1>9. CASE set_owner(s)
  <2> DEFINE owner == Head(now.inbox).owner
             changed == [Takes(s) EXCEPT !.pump_owner = owner]
  <2>1. owner \in LineOwners /\ Takes(s) \in Sessions
        /\ Takes(s) = [now EXCEPT !.inbox = Tail(now.inbox)]
    BY <1>6, <1>9 DEF set_owner, Waits, Requests
  <2>2. /\ changed \in Sessions /\ changed.attached = now.attached
        /\ changed.backlog = now.backlog /\ changed.sent = now.sent /\ changed.lost = now.lost
    BY <1>2, <2>1 DEF Sessions
  <2>3. sessions' = [sessions EXCEPT ![s] = changed] /\ UNCHANGED <<channel, window>>
    BY <1>9 DEF set_owner
  <2> HIDE DEF changed, now
  <2> QED BY <1>4, <2>2, <2>3
<1>10. CASE output(s)
  <2>1. now.command \in Nat
    BY <1>2 DEF Sessions
  <2> QED BY <1>2, <1>3, <1>5, <1>10, <2>1 DEF output
<1>11. CASE command_finished(s)
  <2> DEFINE changed == [now EXCEPT !.command = None]
  <2>1. now.command \in Nat
    BY <1>2 DEF Sessions
  <2>2. /\ changed \in Sessions /\ changed.attached = now.attached
        /\ changed.backlog = now.backlog /\ changed.sent = now.sent /\ changed.lost = now.lost
    BY <1>2 DEF Sessions, None
  <2> QED BY <1>3, <1>5, <1>11, <2>1, <2>2 DEF command_finished
<1>12. CASE ends(s)
  <2> DEFINE changed == [now EXCEPT !.alive = FALSE]
  <2>1. /\ changed \in Sessions /\ changed.attached = now.attached
        /\ changed.backlog = now.backlog /\ changed.sent = now.sent /\ changed.lost = now.lost
    BY <1>2 DEF Sessions
  <2>2. None \in Nat
    BY DEF None
  <2>3. CASE send(s, Event(s, "Disconnected", None), changed)
    BY <1>3, <1>5, <2>1, <2>2, <2>3
  <2>4. CASE /\ sessions' = [sessions EXCEPT ![s].alive = FALSE]
             /\ UNCHANGED <<current, arrived, channel, calls, answers, made, window>>
    BY <1>1, <1>4, <2>1, <2>4 DEF TypeOK
  <2> QED BY <1>12, <2>3, <2>4 DEF ends
<1> QED BY <1>7, <1>8, <1>9, <1>10, <1>11, <1>12 DEF Runs

\* The main thread runs a call: what a session holds is flushed when it is
\* attached to, and nothing else is moved.
LEMMA WholeByTheMainThread ==
  ASSUME TypeOK, \A t \in Ids : WayIsWhole(t), submit_command \/ set_line_owner \/ attach_session
  PROVE  \A t \in Ids : WayIsWhole(t)'
<1> DEFINE call == Head(calls)
           now  == sessions[current]
<1>1. calls # <<>> /\ call \in CallsMade /\ UNCHANGED window
  BY DEF submit_command, set_line_owner, attach_session, TypeOK
<1>2. CASE UNCHANGED <<sessions, channel>>
  BY <1>1, <1>2 DEF WayIsWhole, Way
<1>3. ASSUME Reaches(call) PROVE current \in Ids
  BY <1>1, <1>3 DEF TypeOK, Reaches, CallsMade
<1>4. ASSUME current \in Ids, NEW id, NEW owner, NEW inbox, UNCHANGED channel,
             \/ sessions' = [sessions EXCEPT ![current].next_id = id, ![current].inbox = inbox]
             \/ sessions' = [sessions EXCEPT ![current].far_end_line = owner,
                                             ![current].inbox = inbox]
      PROVE  \A t \in Ids : WayIsWhole(t)'
  <2> DEFINE next == sessions'[current]
  <2>1. now \in Sessions
    BY <1>4 DEF TypeOK
  <2>2. \/ next = [now EXCEPT !.next_id = id, !.inbox = inbox]
        \/ next = [now EXCEPT !.far_end_line = owner, !.inbox = inbox]
    BY <1>4 DEF TypeOK
  <2>3. /\ next.attached = now.attached /\ next.backlog = now.backlog
        /\ next.sent = now.sent /\ next.lost = now.lost
    BY <2>1, <2>2 DEF Sessions
  <2>4. \A t \in Ids \ {current} : sessions'[t] = sessions[t]
    BY <1>4 DEF TypeOK
  <2> QED BY <1>1, <1>4, <2>3, <2>4 DEF WayIsWhole, Way
<1>5. CASE submit_command
  BY <1>2, <1>3, <1>4, <1>5 DEF submit_command
<1>6. CASE set_line_owner
  BY <1>2, <1>3, <1>4, <1>6 DEF set_line_owner, Owned
<1>7. CASE attach_session /\ Reaches(call)
  <2> DEFINE next == sessions'[current]
  <2>1. current \in Ids /\ now \in Sessions /\ channel[current] \in Seq(Events)
    BY <1>3, <1>7 DEF TypeOK
  <2>2. /\ next = [now EXCEPT !.attached = TRUE, !.backlog = <<>>]
        /\ channel'[current] = channel[current] \o now.backlog
        /\ \A t \in Ids \ {current} : sessions'[t] = sessions[t] /\ channel'[t] = channel[t]
    BY <1>7, <2>1 DEF attach_session, Flush, TypeOK
  <2>3. next.backlog = <<>> /\ next.sent = now.sent /\ next.lost = now.lost
    BY <2>1, <2>2 DEF Sessions
  <2>4. now.backlog \in Seq(Events)
    BY <2>1 DEF Sessions
  <2>5. Way(current)' = Way(current)
    <3>1. Way(current)' = channel'[current] \o sessions'[current].backlog
      <4> HIDE DEF next
      <4> QED BY <1>7 DEF Way, attach_session
    <3> QED BY <2>1, <2>2, <2>3, <2>4, <3>1, OneAfterTheOther DEF Way
  <2>6. WayIsWhole(current)'
    <3>1. Whole(Way(current), window.heard[current], now.sent, now.lost)
      BY <2>1 DEF WayIsWhole
    <3>2. Whole(Way(current)', window'.heard[current], next.sent, next.lost)
      BY <1>1, <2>3, <2>5, <3>1
    <3>3. current' = current
      BY <1>7 DEF attach_session
    <3> QED BY <2>3, <3>2, <3>3 DEF WayIsWhole
  <2>7. \A t \in Ids \ {current} : WayIsWhole(t)'
    <3> SUFFICES ASSUME NEW t \in Ids \ {current} PROVE WayIsWhole(t)'
      OBVIOUS
    <3>1. sessions'[t] = sessions[t] /\ channel'[t] = channel[t] /\ WayIsWhole(t)
      BY <2>2
    <3> QED BY <1>1, <3>1 DEF WayIsWhole, Way
  <2>8. current' = current
    BY <1>7 DEF attach_session
  <2> QED BY <2>6, <2>7, <2>8
<1> QED BY <1>2, <1>5, <1>6, <1>7 DEF submit_command, set_line_owner, attach_session

\* The window takes an event of a session that it is attached to.
LEMMA WholeByEvents ==
  ASSUME TypeOK, \A t \in Ids : WayIsWhole(t), NEW s \in Ids, handleEvent(s)
  PROVE  \A t \in Ids : WayIsWhole(t)'
<1> DEFINE e == Head(channel[s])
           w0 == [window EXCEPT !.heard[s] = e.n]
<1>1. /\ channel[s] # <<>> /\ UNCHANGED sessions
      /\ channel' = [channel EXCEPT ![s] = Tail(channel[s])]
      /\ window' \in Handled(w0, e)
  BY DEF handleEvent, TypeOK
<1>2. e \in Events /\ DOMAIN w0 = DOMAIN NewWindow /\ w0.heard = [window.heard EXCEPT ![s] = e.n]
  BY <1>1 DEF TypeOK, NewWindow
<1>3. window'.heard = w0.heard
  <2> HIDE DEF w0, e
  <2>1. /\ ensureBlock(w0, e).heard = w0.heard
        /\ DOMAIN ensureBlock(w0, e) = DOMAIN NewWindow
    BY <1>2 DEF ensureBlock, NewWindow
  <2>2. CASE e.type = "CommandStarted"
    BY <1>1, <2>1, <2>2 DEF Handled, headByTheEcho, NewWindow
  <2>3. CASE e.type = "Output"
    BY <1>1, <2>1, <2>3 DEF Handled, Rows, NewWindow
  <2>4. CASE e.type = "CommandFinished"
    BY <1>1, <2>1, <2>4 DEF Handled, NewWindow
  <2>5. CASE e.type = "Disconnected"
    BY <1>1, <1>2, <2>5 DEF Handled, NewWindow
  <2>6. e.type \in {"CommandStarted", "Output", "CommandFinished", "Disconnected"}
    BY <1>2 DEF Events
  <2> QED BY <2>2, <2>3, <2>4, <2>5, <2>6
<1>4. ASSUME NEW t \in Ids \ {s} PROVE WayIsWhole(t)'
  <2>1. channel'[t] = channel[t] /\ window'.heard[t] = window.heard[t]
    BY <1>1, <1>2, <1>3 DEF TypeOK
  <2> QED BY <1>1, <2>1 DEF WayIsWhole, Way
<1>5. WayIsWhole(s)'
  <2> DEFINE now == sessions[s]
  <2>1. channel'[s] = Tail(channel[s]) /\ window'.heard[s] = e.n
    BY <1>1, <1>2, <1>3 DEF TypeOK
  <2>2. now \in Sessions /\ channel[s] \in Seq(Events) /\ window.heard[s] \in Nat
    BY DEF TypeOK
  <2>3. now.backlog \in Seq(Events) /\ now.sent \in Nat /\ now.lost \in BOOLEAN
    BY <2>2 DEF Sessions
  <2>4. /\ Way(s) \in Seq(Events) /\ Way(s) # <<>> /\ Head(Way(s)) = e
        /\ Tail(channel[s]) \o now.backlog = Tail(Way(s))
    <3>1. Way(s) = channel[s] \o now.backlog
      BY DEF Way
    <3> HIDE DEF now
    <3>2. ASSUME NEW a \in Seq(Events), NEW b \in Seq(Events), a # <<>>
          PROVE  /\ a \o b \in Seq(Events) /\ a \o b # <<>> /\ Head(a \o b) = Head(a)
                 /\ Tail(a) \o b = Tail(a \o b)
      BY <3>2
    <3> QED BY <1>1, <2>2, <2>3, <3>1, <3>2
  <2>5. Whole(Way(s), window.heard[s], now.sent, now.lost)
    BY DEF WayIsWhole
  <2>6. Whole(Tail(Way(s)), e.n, now.sent, now.lost)
    BY <2>2, <2>3, <2>4, <2>5, OneMoreIsHeard
  <2> QED BY <1>1, <2>1, <2>4, <2>6 DEF WayIsWhole, Way
<1> QED BY <1>4, <1>5

LEMMA WholeByNext ==
  TypeOK /\ (\A s \in Ids : WayIsWhole(s)) /\ [Next]_vars => (\A s \in Ids : WayIsWhole(s)')
<1> SUFFICES ASSUME TypeOK, \A s \in Ids : WayIsWhole(s), [Next]_vars
             PROVE  \A s \in Ids : WayIsWhole(s)'
  OBVIOUS
<1>1. CASE show \/ submit \/ toggleLineOwner \/ answered \/ use_profile
  <2>1. UNCHANGED <<sessions, channel>>
    BY <1>1 DEF show, submit, toggleLineOwner, answered, use_profile
  <2>2. window'.heard = window.heard
    BY <1>1 DEF TypeOK, NewWindow, show, submit, toggleLineOwner, answered, use_profile
  <2> QED BY <2>1, <2>2 DEF WayIsWhole, Way
<1>2. CASE UNCHANGED vars
  BY <1>2 DEF vars, WayIsWhole, Way
<1> QED BY <1>1, <1>2, WholeByRuns, WholeByEvents, WholeByTheMainThread DEF Next

LEMMA WholeAtFirst == Init => \A s \in Ids : WayIsWhole(s)
<1> SUFFICES ASSUME Init, NEW s \in Ids PROVE WayIsWhole(s)
  OBVIOUS
<1>1. /\ sessions[s].backlog = <<>> /\ sessions[s].sent = 0 /\ ~sessions[s].lost
      /\ channel[s] = <<>> /\ window.heard[s] = 0
  BY DEF Init, NewSession, NewWindow
<1>2. Way(s) = <<>>
  BY <1>1 DEF Way
<1>3. \A i \in 1..Len(<<>>) : FALSE
  OBVIOUS
<1> QED BY <1>1, <1>2, <1>3 DEF WayIsWhole, Whole

LEMMA WholeIsNotOvertaken ==
  TypeOK /\ (\A s \in Ids : WayIsWhole(s)) => NothingIsOvertaken
<1> SUFFICES ASSUME TypeOK, NEW s \in Ids, WayIsWhole(s), NEW way, way = Way(s)
             PROVE  /\ \A i \in 1..Len(way) :
                         way[i].n > IF i = 1 THEN window.heard[s] ELSE way[i - 1].n
                    /\ way # <<>> /\ window.heard[s] < BACKLOG
                         => way[1].n = window.heard[s] + 1
                    /\ ~sessions[s].lost => window.heard[s] + Len(way) = sessions[s].sent
  BY DEF NothingIsOvertaken, Way
<1> DEFINE heard == window.heard[s]
           sent  == sessions[s].sent
           lost  == sessions[s].lost
<1>1. sessions[s] \in Sessions /\ channel[s] \in Seq(Events) /\ heard \in Nat
  BY DEF TypeOK
<1>2. sent \in Nat /\ lost \in BOOLEAN /\ sessions[s].backlog \in Seq(Events)
  BY <1>1 DEF Sessions
<1>3. way \in Seq(Events)
  <2>1. \A a, b \in Seq(Events) : a \o b \in Seq(Events)
    OBVIOUS
  <2> QED BY <1>1, <1>2, <2>1 DEF Way
<1>4. Whole(way, heard, sent, lost)
  BY DEF WayIsWhole
<1> HIDE DEF heard, sent, lost
<1>5. ASSUME NEW i \in 1..Len(way)
      PROVE  way[i].n > IF i = 1 THEN heard ELSE way[i - 1].n
  <2>1. way[i].n \in (heard + 1)..sent /\ way[i].n \in Int
    BY <1>1, <1>2, <1>4 DEF Whole
  <2>2. CASE i = 1
    BY <1>1, <2>1, <2>2
  <2>3. CASE i # 1
    <3>1. i - 1 \in 1..Len(way) /\ i - 1 < i
      BY <1>3, <2>3
    <3>2. way[i - 1].n < way[i].n /\ way[i - 1].n \in (heard + 1)..sent
      BY <1>4, <3>1 DEF Whole
    <3> QED BY <1>1, <1>2, <2>1, <2>3, <3>2
  <2> QED BY <2>2, <2>3
<1>6. way # <<>> /\ heard < BACKLOG => way[1].n = heard + 1
  <2>1. way # <<>> => 1 \in 1..Len(way)
    BY <1>3
  <2> QED BY <1>1, <1>4, <2>1, Limits DEF Whole
<1>7. ~lost => heard + Len(way) = sent
  BY <1>4 DEF Whole
<1> QED BY <1>5, <1>6, <1>7 DEF heard, sent, lost

(***************************************************************************)
(* Whatever a session's sink holds and whenever the window attaches, the   *)
(* events reach the window in the order they were sent, with none missing  *)
(* but what came after the backlog was full.                               *)
(***************************************************************************)
THEOREM EventsArriveInOrder == Spec => []NothingIsOvertaken
<1> DEFINE Inv == TypeOK /\ \A s \in Ids : WayIsWhole(s)
<1>1. Init => Inv
  BY TypeAtFirst, WholeAtFirst
<1>2. Inv /\ [Next]_vars => Inv'
  BY TypeByNext, WholeByNext
<1>3. Inv => NothingIsOvertaken
  BY WholeIsNotOvertaken
<1> HIDE DEF Inv
<1> QED BY <1>1, <1>2, <1>3, PTL DEF Spec

-----------------------------------------------------------------------------
(***************************************************************************)
(* A block headed by the line its shell repeated is one the window         *)
(* remembers as such, or one whose end it took.                            *)
(***************************************************************************)
Blocks(blocks) ==
  \A id \in DOMAIN blocks : DOMAIN blocks[id] = {"heading", "of"}
Echo(blocks, id) == id \in DOMAIN blocks /\ blocks[id].heading = "echo"
Headed(w) ==
  /\ Blocks(w.blocks)
  /\ \A id \in DOMAIN w.blocks : Echo(w.blocks, id) => id \in w.echoed \cup w.over
  /\ DOMAIN w = DOMAIN NewWindow

\* Opening a block leaves the others alone, and a heading that is none leaves its own.
Opened(blocks, opened, id, heading) ==
  /\ Blocks(opened) /\ DOMAIN opened = DOMAIN blocks \cup {id}
  /\ \A b \in DOMAIN blocks \ {id} : opened[b] = blocks[b]
  /\ heading # Unnamed => opened[id].heading = heading
  /\ heading = Unnamed /\ id \in DOMAIN blocks => opened[id].heading = blocks[id].heading
  /\ heading = Unnamed /\ id \notin DOMAIN blocks => opened[id].heading = Unnamed

LEMMA OpenedBlock ==
  ASSUME NEW blocks, Blocks(blocks), NEW id, NEW heading, NEW of
  PROVE  Opened(blocks, openBlock(blocks, id, heading, of), id, heading)
<1>1. openBlock(blocks, id, heading, of)
        = LET had == IF id \in DOMAIN blocks THEN blocks[id]
                     ELSE [heading |-> Unnamed, of |-> {}]
              has == [heading |-> IF heading = Unnamed THEN had.heading ELSE heading,
                      of |-> had.of \cup {of}]
          IN [b \in DOMAIN blocks \cup {id} |-> IF b = id THEN has ELSE blocks[b]]
  BY DEF openBlock
<1>2. CASE heading = Unnamed
  BY <1>1, <1>2 DEF Blocks, Opened
<1>3. CASE heading # Unnamed
  BY <1>1, <1>3 DEF Blocks, Opened
<1> QED BY <1>2, <1>3

\* The heading a shell gave is kept, but for an answer that comes after the end.
HeadingsKept(w, x, ended) ==
  \A id \in DOMAIN w.blocks \ ended : Echo(w.blocks, id) => Echo(x.blocks, id)

LEMMA HeadedByAnswers ==
  ASSUME TypeOK, Headed(window), answered
  PROVE  Headed(window') /\ HeadingsKept(window, window', window.over)
<1> DEFINE a == Head(answers)
           heading == TypedUnlessEchoed(a.id)
           blocks == openBlock(window.blocks, a.id, heading, <<a.session, "submitted">>)
<1>1. CASE window' = [window EXCEPT !.blocks = blocks, !.openBlocks = @ \cup {a.id}]
  <2>1. heading = IF a.id \in window.echoed THEN Unnamed ELSE "typed"
    BY DEF TypedUnlessEchoed
  <2>2. /\ window'.blocks = blocks /\ window'.echoed = window.echoed
        /\ window'.over = window.over /\ DOMAIN window' = DOMAIN window
    BY <1>1 DEF Headed, NewWindow
  <2>3. Blocks(window.blocks)
    BY DEF Headed
  <2> DEFINE of == <<a.session, "submitted">>
  <2> HIDE DEF a, heading, of
  <2>4. Opened(window.blocks, blocks, a.id, heading)
    BY <2>3, OpenedBlock DEF of
  <2> HIDE DEF blocks
  <2> QED BY <2>1, <2>2, <2>4 DEF Headed, HeadingsKept, Echo, Opened, Unnamed
<1>2. CASE window' = [window EXCEPT !.lineOwner = a.owner] \/ UNCHANGED window
  <2>1. /\ window'.blocks = window.blocks /\ window'.echoed = window.echoed
        /\ window'.over = window.over /\ DOMAIN window' = DOMAIN window
    BY <1>2 DEF Headed, NewWindow
  <2> QED BY <2>1 DEF Headed, HeadingsKept
<1> QED BY <1>1, <1>2 DEF answered

LEMMA HeadedByEvents ==
  ASSUME TypeOK, Headed(window), NEW s \in Ids, handleEvent(s)
  PROVE  Headed(window') /\ HeadingsKept(window, window', {})
<1> DEFINE e == Head(channel[s])
           of == <<e.session, e.of>>
           w0 == [window EXCEPT !.heard[s] = e.n]
           w  == ensureBlock(w0, e)
<1>1. window' \in Handled(w0, e) /\ e \in Events
  BY DEF handleEvent, TypeOK
<1>2. Headed(w0) /\ w0.blocks = window.blocks
  BY DEF Headed, NewWindow
<1> HIDE DEF w0, of
<1>3. Headed(w) /\ HeadingsKept(w0, w, {})
  <2>1. CASE e.id \in w0.openBlocks
    BY <1>2, <2>1 DEF ensureBlock, HeadingsKept
  <2>2. CASE e.id \notin w0.openBlocks
    <3> DEFINE blocks == openBlock(w0.blocks, e.id, Unnamed, of)
    <3>1. w = [w0 EXCEPT !.blocks = blocks, !.openBlocks = @ \cup {e.id}]
      BY <2>2 DEF ensureBlock, of
    <3>2. Blocks(w0.blocks)
      BY <1>2 DEF Headed
    <3> HIDE DEF e
    <3>3. Opened(w0.blocks, blocks, e.id, Unnamed)
      BY <3>2, OpenedBlock
    <3> HIDE DEF blocks, w
    <3>4. /\ w.blocks = blocks /\ w.echoed = w0.echoed /\ w.over = w0.over
          /\ DOMAIN w = DOMAIN w0
      BY <1>2, <3>1 DEF Headed, NewWindow
    <3> QED BY <1>2, <3>3, <3>4 DEF Headed, HeadingsKept, Echo, Opened, Unnamed
  <2> QED BY <2>1, <2>2
<1>4. CASE e.type = "CommandStarted"
  <2> DEFINE blocks == openBlock(w.blocks, e.id, "echo", of)
  <2>1. window' = w \/ window' = [w EXCEPT !.blocks = blocks, !.echoed = @ \cup {e.id}]
    BY <1>1, <1>4 DEF Handled, headByTheEcho, of
  <2>2. Blocks(w.blocks) /\ "echo" # Unnamed
    BY <1>3 DEF Headed, Unnamed
  <2> HIDE DEF e, w
  <2>3. Opened(w.blocks, blocks, e.id, "echo")
    BY <2>2, OpenedBlock
  <2> HIDE DEF blocks
  <2>4. CASE window' = [w EXCEPT !.blocks = blocks, !.echoed = @ \cup {e.id}]
    <3>1. /\ window'.blocks = blocks /\ window'.echoed = w.echoed \cup {e.id}
          /\ window'.over = w.over /\ DOMAIN window' = DOMAIN w
      BY <1>3, <2>4 DEF Headed, NewWindow
    <3> QED BY <1>2, <1>3, <2>2, <2>3, <3>1 DEF Headed, HeadingsKept, Echo, Opened
  <2>5. CASE window' = w
    BY <1>2, <1>3, <2>5 DEF HeadingsKept
  <2> QED BY <2>1, <2>4, <2>5
<1>5. CASE e.type = "Output"
  <2> DEFINE added == w.blocks[e.id].of \cup {of}
  <2>1. window' = [w EXCEPT !.blocks[e.id].of = added]
    BY <1>1, <1>5 DEF Handled, Rows, of
  <2> HIDE DEF added, w, e
  <2>2. /\ window'.blocks = [w.blocks EXCEPT ![e.id] = [w.blocks[e.id] EXCEPT !.of = added]]
        /\ window'.echoed = w.echoed /\ window'.over = w.over
        /\ DOMAIN window' = DOMAIN w
    BY <1>3, <2>1 DEF Headed, NewWindow
  <2>3. \A b \in DOMAIN w.blocks :
          /\ DOMAIN window'.blocks[b] = DOMAIN w.blocks[b]
          /\ "heading" \in DOMAIN w.blocks[b]
               => window'.blocks[b].heading = w.blocks[b].heading
    BY <2>2
  <2> QED BY <1>2, <1>3, <2>2, <2>3 DEF Headed, Blocks, HeadingsKept, Echo
<1>6. CASE e.type = "CommandFinished"
  <2>1. window' = [w EXCEPT !.openBlocks = @ \ {e.id}, !.echoed = @ \ {e.id},
                            !.over = @ \cup {e.id}]
    BY <1>1, <1>6 DEF Handled
  <2> HIDE DEF w, e
  <2>2. /\ window'.blocks = w.blocks /\ window'.echoed = w.echoed \ {e.id}
        /\ window'.over = w.over \cup {e.id} /\ DOMAIN window' = DOMAIN w
    BY <1>3, <2>1 DEF Headed, NewWindow
  <2> QED BY <1>2, <1>3, <2>2 DEF Headed, HeadingsKept
<1>7. CASE e.type = "Disconnected"
  <2>1. window' = [w0 EXCEPT !.session = None, !.lineOwner = "Local"]
    BY <1>1, <1>7 DEF Handled
  <2>2. /\ window'.blocks = w0.blocks /\ window'.echoed = w0.echoed
        /\ window'.over = w0.over /\ DOMAIN window' = DOMAIN w0
    BY <1>2, <2>1 DEF Headed, NewWindow
  <2> QED BY <1>2, <2>2 DEF Headed, HeadingsKept
<1>8. e.type \in {"CommandStarted", "Output", "CommandFinished", "Disconnected"}
  BY <1>1 DEF Events
<1> QED BY <1>4, <1>5, <1>6, <1>7, <1>8

LEMMA HeadedByNext ==
  ASSUME TypeOK, Headed(window), [Next]_vars
  PROVE  Headed(window') /\ (show \/ HeadingsKept(window, window', window.over))
<1>1. CASE show
  BY <1>1 DEF show, Headed, Blocks, Echo, NewWindow
<1>2. CASE answered
  BY <1>2, HeadedByAnswers
<1>3. ASSUME NEW s \in Ids, handleEvent(s)
      PROVE  Headed(window') /\ HeadingsKept(window, window', window.over)
  BY <1>3, HeadedByEvents DEF HeadingsKept
<1>4. CASE \/ submit \/ toggleLineOwner \/ use_profile \/ submit_command \/ set_line_owner
           \/ attach_session \/ UNCHANGED vars \/ \E s \in 1..current : Runs(s)
  <2>1. UNCHANGED window
    BY <1>4 DEF submit, toggleLineOwner, use_profile, submit_command, set_line_owner,
         attach_session, vars, Runs, command_started, far_end_submitted, output,
         command_finished, ends, send, set_owner
  <2> QED BY <2>1 DEF HeadingsKept
<1> QED BY <1>1, <1>2, <1>3, <1>4 DEF Next

(***************************************************************************)
(* The line a shell repeated stays the heading of its block through every  *)
(* event and answer, whichever came first, until the window takes the end  *)
(* of the command.                                                         *)
(***************************************************************************)
THEOREM TheEchoStands == Spec => EchoKeepsTheHeading
<1> DEFINE Keeps == \A id \in DOMAIN window.blocks \ window.over :
                      EchoHeads(id) => show \/ EchoHeads(id)'
<1>1. Init => Headed(window)
  BY DEF Init, Headed, Blocks, Echo, NewWindow
<1>2. TypeOK /\ Headed(window) /\ [Next]_vars => Headed(window)' /\ [Keeps]_vars
  BY HeadedByNext DEF Headed, Blocks, Echo, EchoHeads, HeadingsKept
<1>3. Spec => [][Keeps]_vars
  BY TypeAtFirst, TypeByNext, <1>1, <1>2, PTL DEF Spec
<1> QED BY <1>3 DEF EchoKeepsTheHeading

-----------------------------------------------------------------------------
(***************************************************************************)
(* Who holds the line.  A queue of changes ends with y, when it starts     *)
(* from x: y is the owner of its last change, or x when there is none.     *)
(***************************************************************************)
OwnerCalls  == {c \in CallsMade : c.call \in {"show", "toggle"}}
OwnerAsked  == {r \in Requests : r.request = "Owner"}
IsLast(q, C, i) == q[i] \in C /\ \A j \in 1..Len(q) : q[j] \in C => j <= i
HasNone(q, C) == \A i \in 1..Len(q) : q[i] \notin C
Ends(q, C, x, y) ==
  /\ \A i \in 1..Len(q) : IsLast(q, C, i) => q[i].owner = y
  /\ HasNone(q, C) => x = y

\* All that is left of a queue whose first is taken.
LEMMA TailIs ==
  ASSUME NEW S, NEW q \in Seq(S), q # <<>>
  PROVE  /\ Tail(q) \in Seq(S) /\ Head(q) = q[1] /\ Len(q) \in Nat \ {0}
         /\ Len(Tail(q)) = Len(q) - 1
         /\ \A i \in 1..Len(Tail(q)) : i + 1 \in 1..Len(q) /\ Tail(q)[i] = q[i + 1]
         /\ \A i \in 2..Len(q) : i - 1 \in 1..Len(Tail(q)) /\ Tail(q)[i - 1] = q[i]
OBVIOUS

LEMMA AppendIs ==
  ASSUME NEW S, NEW q \in Seq(S), NEW e \in S
  PROVE  /\ Append(q, e) \in Seq(S) /\ Len(q) \in Nat
         /\ Len(Append(q, e)) = Len(q) + 1 /\ Append(q, e)[Len(q) + 1] = e
         /\ \A i \in 1..Len(q) : i \in 1..(Len(q) + 1) /\ Append(q, e)[i] = q[i]
         /\ \A i \in 1..(Len(q) + 1) : i \in 1..Len(q) \/ i = Len(q) + 1
OBVIOUS

\* The last of what is left was the last.
LEMMA LastOfTail ==
  ASSUME NEW S, NEW q \in Seq(S), q # <<>>, NEW C
  PROVE  /\ \A i \in 1..Len(Tail(q)) : IsLast(Tail(q), C, i) => IsLast(q, C, i + 1)
         /\ HasNone(Tail(q), C) /\ Head(q) \in C => IsLast(q, C, 1)
         /\ HasNone(Tail(q), C) /\ Head(q) \notin C => HasNone(q, C)
         /\ HasNone(q, C) => HasNone(Tail(q), C)
<1> DEFINE t == Tail(q)
<1>1. /\ Head(q) = q[1] /\ Len(q) \in Nat \ {0} /\ Len(t) = Len(q) - 1
      /\ \A i \in 1..Len(t) : i + 1 \in 1..Len(q) /\ t[i] = q[i + 1]
      /\ \A i \in 2..Len(q) : i - 1 \in 1..Len(t) /\ t[i - 1] = q[i]
  BY TailIs
<1> HIDE DEF t
<1>2. \A j \in 1..Len(q) : j = 1 \/ j \in 2..Len(q)
  BY <1>1
<1>3. ASSUME NEW i \in 1..Len(t), IsLast(t, C, i) PROVE IsLast(q, C, i + 1)
  <2>1. q[i + 1] \in C
    BY <1>1, <1>3 DEF IsLast
  <2>2. ASSUME NEW j \in 1..Len(q), q[j] \in C PROVE j <= i + 1
    <3>1. CASE j = 1
      BY <1>1, <3>1
    <3>2. CASE j \in 2..Len(q)
      <4>1. j - 1 \in 1..Len(t) /\ t[j - 1] \in C
        BY <1>1, <2>2, <3>2
      <4>2. j - 1 <= i
        BY <1>3, <4>1 DEF IsLast
      <4> QED BY <1>1, <4>2
    <3> QED BY <1>2, <3>1, <3>2
  <2> QED BY <2>1, <2>2 DEF IsLast
<1>4. ASSUME HasNone(t, C) PROVE \A j \in 1..Len(q) : q[j] \in C => j = 1
  BY <1>1, <1>2, <1>4 DEF HasNone
<1>5. HasNone(t, C) /\ Head(q) \in C => IsLast(q, C, 1)
  BY <1>1, <1>4 DEF IsLast
<1>6. HasNone(t, C) /\ Head(q) \notin C => HasNone(q, C)
  BY <1>1, <1>4 DEF HasNone
<1>7. HasNone(q, C) => HasNone(t, C)
  BY <1>1 DEF HasNone
<1> QED BY <1>3, <1>5, <1>6, <1>7 DEF t

LEMMA LastOfMore ==
  ASSUME NEW S, NEW q \in Seq(S), NEW e \in S, NEW C
  PROVE  LET m == Append(q, e)
         IN  /\ e \in C => \A i \in 1..Len(m) : IsLast(m, C, i) => m[i] = e
             /\ e \in C => ~HasNone(m, C)
             /\ e \notin C => \A i \in 1..Len(m) : IsLast(m, C, i) =>
                                 i \in 1..Len(q) /\ m[i] = q[i] /\ IsLast(q, C, i)
             /\ HasNone(m, C) => HasNone(q, C)
<1> DEFINE m == Append(q, e)
           n == Len(q) + 1
<1>1. /\ Len(q) \in Nat /\ Len(m) = n /\ m[n] = e
      /\ \A i \in 1..Len(q) : i \in 1..n /\ m[i] = q[i]
      /\ \A i \in 1..n : i \in 1..Len(q) \/ i = n
  BY AppendIs
<1> HIDE DEF m
<1>2. n \in 1..n
  BY <1>1
<1>3. e \in C => \A i \in 1..Len(m) : IsLast(m, C, i) => m[i] = e
  <2> SUFFICES ASSUME e \in C, NEW i \in 1..Len(m), IsLast(m, C, i) PROVE i = n
    BY <1>1
  <2>1. n <= i
    BY <1>1, <1>2 DEF IsLast
  <2> QED BY <1>1, <2>1
<1>4. e \in C => ~HasNone(m, C)
  BY <1>1, <1>2 DEF HasNone
<1>5. ASSUME e \notin C, NEW i \in 1..Len(m), IsLast(m, C, i)
      PROVE  i \in 1..Len(q) /\ m[i] = q[i] /\ IsLast(q, C, i)
  <2>1. i \in 1..Len(q)
    BY <1>1, <1>5 DEF IsLast
  <2> QED BY <1>1, <1>5, <2>1 DEF IsLast
<1>6. HasNone(m, C) => HasNone(q, C)
  BY <1>1 DEF HasNone
<1> QED BY <1>3, <1>4, <1>5, <1>6 DEF m

LEMMA EndsOfTail ==
  ASSUME NEW S, NEW q \in Seq(S), q # <<>>, NEW C, NEW x, NEW y, Ends(q, C, x, y)
  PROVE  /\ Head(q) \notin C => Ends(Tail(q), C, x, y)
         /\ Head(q) \in C => Ends(Tail(q), C, Head(q).owner, y)
<1> DEFINE t == Tail(q)
<1>1. /\ Head(q) = q[1] /\ Len(q) \in Nat \ {0}
      /\ \A i \in 1..Len(t) : i + 1 \in 1..Len(q) /\ t[i] = q[i + 1]
  BY TailIs
<1>2. /\ \A i \in 1..Len(t) : IsLast(t, C, i) => IsLast(q, C, i + 1)
      /\ HasNone(t, C) /\ Head(q) \in C => IsLast(q, C, 1)
      /\ HasNone(t, C) /\ Head(q) \notin C => HasNone(q, C)
  BY LastOfTail
<1> HIDE DEF t
<1>3. \A i \in 1..Len(t) : IsLast(t, C, i) => t[i].owner = y
  BY <1>1, <1>2 DEF Ends
<1>4. HasNone(t, C) /\ Head(q) \notin C => x = y
  BY <1>2 DEF Ends
<1>5. HasNone(t, C) /\ Head(q) \in C => Head(q).owner = y
  <2>1. 1 \in 1..Len(q)
    BY <1>1
  <2> QED BY <1>1, <1>2, <2>1 DEF Ends
<1> QED BY <1>3, <1>4, <1>5 DEF Ends, t

LEMMA EndsOfMore ==
  ASSUME NEW S, NEW q \in Seq(S), NEW e \in S, NEW C, NEW x
  PROVE  /\ e \in C => Ends(Append(q, e), C, x, e.owner)
         /\ \A y : e \notin C /\ Ends(q, C, x, y) => Ends(Append(q, e), C, x, y)
<1> DEFINE m == Append(q, e)
<1>1. /\ e \in C => \A i \in 1..Len(m) : IsLast(m, C, i) => m[i] = e
      /\ e \in C => ~HasNone(m, C)
      /\ e \notin C => \A i \in 1..Len(m) : IsLast(m, C, i) =>
                          i \in 1..Len(q) /\ m[i] = q[i] /\ IsLast(q, C, i)
      /\ HasNone(m, C) => HasNone(q, C)
  BY LastOfMore
<1> HIDE DEF m
<1>2. e \in C => Ends(m, C, x, e.owner)
  BY <1>1 DEF Ends
<1>3. \A y : e \notin C /\ Ends(q, C, x, y) => Ends(m, C, x, y)
  BY <1>1 DEF Ends
<1> QED BY <1>2, <1>3 DEF m

(***************************************************************************)
(* The pump follows the flag the keys are read by, once it has taken every *)
(* change it was told of; and the window follows the flag of the session   *)
(* that is connected, once it has heard every answer: the last change on   *)
(* its way is of the session the window shows.                             *)
(***************************************************************************)
PumpFollows(s) ==
  sessions[s].alive =>
    Ends(sessions[s].inbox, OwnerAsked, sessions[s].pump_owner, sessions[s].far_end_line)

ShownArrived ==
  window.session <= current /\ \A i \in 1..Len(arrived) : arrived[i].session <= current

LastIsShown ==
  window.session # None =>
    \A i \in 1..Len(calls) : IsLast(calls, OwnerCalls, i) => calls[i].session = window.session

WindowFollows ==
  window.session # None /\ window.session = current /\ HasNone(calls, OwnerCalls) =>
    Ends(answers, OwnerCalls, window.lineOwner, sessions[current].far_end_line)

OwnersFollow ==
  /\ \A s \in Ids : PumpFollows(s)
  /\ ShownArrived /\ LastIsShown /\ WindowFollows

\* No change of the owner finds the inbox of its session full.
Room == set_line_owner /\ Reaches(Head(calls)) => Len(sessions[current].inbox) < REQUESTS
NoneIsRefused == [][Room]_vars

LEMMA FollowsByRuns ==
  ASSUME TypeOK, OwnersFollow, NEW s \in 1..current, Runs(s)
  PROVE  OwnersFollow'
<1> DEFINE now == sessions[s]
           new == sessions'[s]
           Kept(a, b) == /\ b.alive => a.alive
                         /\ b.inbox = a.inbox /\ b.pump_owner = a.pump_owner
                         /\ b.far_end_line = a.far_end_line
<1>1. s \in Ids /\ now \in Sessions /\ now.inbox \in Seq(Requests)
  <2>1. s \in Ids
    BY Limits DEF TypeOK, Ids
  <2> QED BY <2>1 DEF TypeOK, Sessions
<1>2. UNCHANGED <<current, arrived, calls, answers, window>>
  BY DEF Runs, command_started, far_end_submitted, set_owner, output, command_finished, ends, send
<1>3. ASSUME NEW event, NEW changed, DOMAIN changed = DOMAIN NewSession, send(s, event, changed)
      PROVE  (\A t \in Ids \ {s} : sessions'[t] = sessions[t]) /\ Kept(changed, new)
  <2>1. CASE now.attached
    <3>1. sessions' = [sessions EXCEPT ![s] = [changed EXCEPT !.sent = @ + 1]]
      BY <1>3, <2>1 DEF send
    <3> QED BY <1>1, <1>3, <3>1 DEF TypeOK, NewSession
  <2>2. CASE ~now.attached
    <3> DEFINE kept == Held(changed.backlog, event)
               gone == changed.lost \/ Len(changed.backlog) >= BACKLOG
    <3>1. sessions' = [sessions EXCEPT ![s] = [changed EXCEPT !.sent = @ + 1, !.backlog = kept,
                                                              !.lost = gone]]
      BY <1>3, <2>2 DEF send
    <3> HIDE DEF kept, gone
    <3> QED BY <1>1, <1>3, <3>1 DEF TypeOK, NewSession
  <2> QED BY <2>1, <2>2
<1>4. DOMAIN now = DOMAIN NewSession
  BY <1>1 DEF Sessions, NewSession
<1>5. ASSUME now.inbox # <<>>
      PROVE  /\ DOMAIN Takes(s) = DOMAIN NewSession
             /\ Takes(s).inbox = Tail(now.inbox) /\ Takes(s).alive = now.alive
             /\ Takes(s).pump_owner = now.pump_owner /\ Takes(s).far_end_line = now.far_end_line
             /\ Head(now.inbox) \in Requests
  BY <1>1, <1>4, <1>5 DEF Takes, NewSession
<1>6. PumpFollows(s)
  BY <1>1 DEF OwnersFollow
\* Requests that are no change are taken, and nothing is said of the owner.
<1>7. ASSUME \A t \in Ids \ {s} : sessions'[t] = sessions[t],
             \/ Kept(now, new)
             \/ /\ now.inbox # <<>> /\ Head(now.inbox).request = "Submit"
                /\ Kept([Takes(s) EXCEPT !.alive = now.alive], new)
             \/ ~new.alive /\ new.far_end_line = now.far_end_line
             \/ /\ now.inbox # <<>> /\ Head(now.inbox).request = "Owner"
                /\ new = [Takes(s) EXCEPT !.pump_owner = Head(now.inbox).owner]
      PROVE  OwnersFollow'
  <2>1. new.far_end_line = now.far_end_line
    BY <1>4, <1>5, <1>7 DEF NewSession
  <2>2. PumpFollows(s)'
    <3>1. CASE Kept(now, new)
      BY <1>6, <3>1 DEF PumpFollows
    <3>2. CASE /\ now.inbox # <<>> /\ Head(now.inbox).request = "Submit"
               /\ Kept([Takes(s) EXCEPT !.alive = now.alive], new)
      <4>1. /\ new.alive => now.alive
            /\ new.inbox = Tail(now.inbox) /\ new.pump_owner = now.pump_owner
        BY <1>5, <3>2 DEF NewSession
      <4>2. Head(now.inbox) \notin OwnerAsked
        BY <3>2 DEF OwnerAsked
      <4> HIDE DEF now, new
      <4>3. new.alive => Ends(Tail(now.inbox), OwnerAsked, now.pump_owner, now.far_end_line)
        BY <1>1, <1>6, <3>2, <4>1, <4>2, EndsOfTail DEF PumpFollows, now
      <4>4. new.alive => Ends(new.inbox, OwnerAsked, new.pump_owner, new.far_end_line)
        BY <2>1, <4>1, <4>3
      <4> QED BY <4>4 DEF PumpFollows, new
    <3>3. CASE ~new.alive
      BY <3>3 DEF PumpFollows
    <3>4. CASE /\ now.inbox # <<>> /\ Head(now.inbox).request = "Owner"
               /\ new = [Takes(s) EXCEPT !.pump_owner = Head(now.inbox).owner]
      <4>1. /\ new.alive = now.alive
            /\ new.inbox = Tail(now.inbox) /\ new.pump_owner = Head(now.inbox).owner
        BY <1>5, <3>4 DEF NewSession
      <4>2. Head(now.inbox) \in OwnerAsked
        BY <1>5, <3>4 DEF OwnerAsked
      <4> HIDE DEF now, new
      <4>3. new.alive => Ends(Tail(now.inbox), OwnerAsked, Head(now.inbox).owner, now.far_end_line)
        BY <1>1, <1>6, <3>4, <4>1, <4>2, EndsOfTail DEF PumpFollows, now
      <4>4. new.alive => Ends(new.inbox, OwnerAsked, new.pump_owner, new.far_end_line)
        BY <2>1, <4>1, <4>3
      <4> QED BY <4>4 DEF PumpFollows, new
    <3> QED BY <1>7, <3>1, <3>2, <3>3, <3>4
  <2>3. \A t \in Ids : PumpFollows(t)'
    <3> SUFFICES ASSUME NEW t \in Ids \ {s} PROVE PumpFollows(t)'
      BY <2>2
    <3>1. sessions'[t] = sessions[t] /\ PumpFollows(t)
      BY <1>7 DEF OwnersFollow
    <3> QED BY <3>1 DEF PumpFollows
  <2>4. window.session # None /\ window.session = current =>
           sessions'[current].far_end_line = sessions[current].far_end_line
    <3> SUFFICES ASSUME window.session # None, window.session = current
                 PROVE  sessions'[current].far_end_line = sessions[current].far_end_line
      OBVIOUS
    <3>1. current \in Ids
      BY DEF TypeOK
    <3> QED BY <1>7, <2>1, <3>1
  <2>5. ShownArrived' /\ LastIsShown' /\ WindowFollows'
    BY <1>2, <2>4 DEF OwnersFollow, ShownArrived, LastIsShown, WindowFollows
  <2> QED BY <2>3, <2>5 DEF OwnersFollow
<1>8. CASE command_started(s)
  <2> DEFINE id == Head(now.inbox).id
             changed == [Takes(s) EXCEPT !.command = id, !.who = "submitted"]
             event == [Event(s, "CommandStarted", id) EXCEPT !.of = "submitted"]
  <2>1. now.inbox # <<>> /\ Head(now.inbox).request = "Submit" /\ send(s, event, changed)
    BY <1>8 DEF command_started, Waits
  <2> HIDE DEF event, id
  <2>2. DOMAIN changed = DOMAIN NewSession /\ Kept([Takes(s) EXCEPT !.alive = now.alive], changed)
    BY <1>5, <2>1 DEF NewSession
  <2> HIDE DEF changed
  <2>3. (\A t \in Ids \ {s} : sessions'[t] = sessions[t]) /\ Kept(changed, new)
    BY <1>3, <2>1, <2>2
  <2>4. Kept([Takes(s) EXCEPT !.alive = now.alive], new)
    BY <2>2, <2>3
  <2> QED BY <1>7, <2>1, <2>3, <2>4
<1>9. CASE far_end_submitted(s)
  <2> DEFINE id == now.next_id
             changed == [now EXCEPT !.command = id, !.next_id = minted(id), !.who = "far_end"]
             event == [Event(s, "CommandStarted", id) EXCEPT !.of = "far_end"]
  <2>1. send(s, event, changed)
    BY <1>9 DEF far_end_submitted
  <2>2. DOMAIN changed = DOMAIN NewSession /\ Kept(now, changed)
    BY <1>4 DEF NewSession
  <2> HIDE DEF event, changed
  <2>3. (\A t \in Ids \ {s} : sessions'[t] = sessions[t]) /\ Kept(changed, new)
    BY <1>3, <2>1, <2>2
  <2>4. Kept(now, new)
    BY <2>2, <2>3
  <2> QED BY <1>7, <2>3, <2>4
<1>10. CASE set_owner(s)
  <2>1. /\ now.inbox # <<>> /\ Head(now.inbox).request = "Owner"
        /\ new = [Takes(s) EXCEPT !.pump_owner = Head(now.inbox).owner]
        /\ \A t \in Ids \ {s} : sessions'[t] = sessions[t]
    BY <1>1, <1>10 DEF set_owner, Waits, TypeOK
  <2> QED BY <1>7, <2>1
<1>11. CASE output(s)
  <2>1. (\A t \in Ids \ {s} : sessions'[t] = sessions[t]) /\ Kept(now, new)
    BY <1>3, <1>4, <1>11 DEF output
  <2> QED BY <1>7, <2>1
<1>12. CASE command_finished(s)
  <2> DEFINE changed == [now EXCEPT !.command = None]
  <2>1. send(s, Event(s, "CommandFinished", now.command), changed)
    BY <1>12 DEF command_finished
  <2>2. DOMAIN changed = DOMAIN NewSession /\ Kept(now, changed)
    BY <1>4 DEF NewSession
  <2> HIDE DEF changed
  <2>3. (\A t \in Ids \ {s} : sessions'[t] = sessions[t]) /\ Kept(changed, new)
    BY <1>3, <2>1, <2>2
  <2>4. Kept(now, new)
    BY <2>2, <2>3
  <2> QED BY <1>7, <2>3, <2>4
<1>13. CASE ends(s)
  <2> DEFINE off == FALSE
             changed == [now EXCEPT !.alive = off]
  <2>1. \/ send(s, Event(s, "Disconnected", None), changed)
        \/ sessions' = [sessions EXCEPT ![s] = changed]
    BY <1>13 DEF ends
  <2>2. DOMAIN changed = DOMAIN NewSession /\ ~changed.alive
        /\ changed.far_end_line = now.far_end_line
    BY <1>4 DEF NewSession
  <2> HIDE DEF changed
  <2>3. CASE send(s, Event(s, "Disconnected", None), changed)
    <3>1. (\A t \in Ids \ {s} : sessions'[t] = sessions[t]) /\ Kept(changed, new)
      BY <1>3, <2>2, <2>3
    <3>2. ~new.alive /\ new.far_end_line = now.far_end_line
      BY <2>2, <3>1
    <3> QED BY <1>7, <3>1, <3>2
  <2>4. CASE sessions' = [sessions EXCEPT ![s] = changed]
    <3>1. new = changed /\ \A t \in Ids \ {s} : sessions'[t] = sessions[t]
      BY <1>1, <2>4 DEF TypeOK
    <3>2. ~new.alive /\ new.far_end_line = now.far_end_line
      BY <2>2, <3>1
    <3> QED BY <1>7, <3>1, <3>2
  <2> QED BY <2>1, <2>3, <2>4
<1> QED BY <1>8, <1>9, <1>10, <1>11, <1>12, <1>13 DEF Runs

\* The first of the calls is answered; it is no change of the owner.
LEMMA FollowsByOtherAnswers ==
  ASSUME TypeOK, LastIsShown, WindowFollows, calls # <<>>, Head(calls) \notin OwnerCalls,
         NEW answer \in CallsMade \ OwnerCalls, Answered(answer), UNCHANGED <<window, current>>,
         window.session # None /\ window.session = current =>
            sessions'[current].far_end_line = sessions[current].far_end_line
  PROVE  LastIsShown' /\ WindowFollows'
<1>1. calls \in Seq(CallsMade) /\ answers \in Seq(CallsMade)
  BY DEF TypeOK
<1>2. calls' = Tail(calls) /\ answers' = Append(answers, answer)
  BY DEF Answered
<1>3. \A i \in 1..Len(calls') : /\ IsLast(calls', OwnerCalls, i) => IsLast(calls, OwnerCalls, i + 1)
                                /\ i + 1 \in 1..Len(calls) /\ calls'[i] = calls[i + 1]
  BY <1>1, <1>2, LastOfTail, TailIs
<1>4. HasNone(calls', OwnerCalls) => HasNone(calls, OwnerCalls)
  BY <1>1, <1>2, LastOfTail
<1>5. LastIsShown'
  BY <1>3 DEF LastIsShown
<1>6. WindowFollows'
  <2> SUFFICES ASSUME window.session # None, window.session = current,
                      HasNone(calls', OwnerCalls)
               PROVE  Ends(answers', OwnerCalls, window.lineOwner,
                           sessions'[current].far_end_line)
    BY DEF WindowFollows
  <2>1. Ends(answers, OwnerCalls, window.lineOwner, sessions[current].far_end_line)
    BY <1>4 DEF WindowFollows
  <2>2. Ends(Append(answers, answer), OwnerCalls, window.lineOwner,
             sessions[current].far_end_line)
    BY <1>1, <2>1, EndsOfMore
  <2> QED BY <1>2, <2>2
<1> QED BY <1>5, <1>6

LEMMA FollowsByTheMainThread ==
  ASSUME TypeOK, OwnersFollow, Room, submit_command \/ set_line_owner \/ attach_session
  PROVE  OwnersFollow'
<1> DEFINE call == Head(calls)
           now  == sessions[current]
<1>1. calls # <<>> /\ call \in CallsMade /\ calls \in Seq(CallsMade) /\ answers \in Seq(CallsMade)
  BY DEF submit_command, set_line_owner, attach_session, TypeOK
<1>2. ASSUME Reaches(call)
      PROVE  /\ current \in Ids /\ now \in Sessions /\ now.inbox \in Seq(Requests)
             /\ PumpFollows(current)
  <2>1. current \in Ids
    BY <1>1, <1>2 DEF Reaches, CallsMade
  <2> QED BY <2>1 DEF TypeOK, Sessions, OwnersFollow
<1>3. UNCHANGED <<current, arrived, window>>
  BY DEF submit_command, set_line_owner, attach_session
<1>4. ShownArrived'
  BY <1>3 DEF OwnersFollow, ShownArrived
<1>5. ASSUME NEW new, sessions' = [sessions EXCEPT ![current] = new], current \in Ids,
             new.alive => Ends(new.inbox, OwnerAsked, new.pump_owner, new.far_end_line)
      PROVE  \A t \in Ids : PumpFollows(t)'
  <2> SUFFICES ASSUME NEW t \in Ids PROVE PumpFollows(t)'
    OBVIOUS
  <2>1. PumpFollows(t)
    BY DEF OwnersFollow
  <2>2. CASE t = current
    <3>1. sessions'[t] = new
      BY <1>5, <2>2 DEF TypeOK
    <3> QED BY <1>5, <3>1 DEF PumpFollows
  <2>3. CASE t # current
    <3>1. sessions'[t] = sessions[t]
      BY <1>5, <2>3 DEF TypeOK
    <3> QED BY <2>1, <3>1 DEF PumpFollows
  <2> QED BY <2>2, <2>3
<1>6. ASSUME UNCHANGED sessions PROVE \A t \in Ids : PumpFollows(t)'
  BY <1>6 DEF OwnersFollow, PumpFollows
<1>7. ASSUME NEW request \in Requests, current \in Ids, now.inbox \in Seq(Requests), now.alive
      PROVE  \/ Asked(request) = now.inbox
             \/ Asked(request) = Append(now.inbox, request)
  BY DEF Asked
<1>8. CASE submit_command
  <2>1. call \notin OwnerCalls
    BY <1>8 DEF submit_command, OwnerCalls
  <2>2. CASE ~Reaches(call)
    <3>1. Answered(call) /\ UNCHANGED sessions
      BY <1>8, <2>2 DEF submit_command
    <3>2. LastIsShown' /\ WindowFollows'
      BY <1>1, <1>3, <2>1, <3>1, FollowsByOtherAnswers DEF OwnersFollow
    <3> QED BY <1>4, <1>6, <3>1, <3>2 DEF OwnersFollow
  <2>3. CASE Reaches(call)
    <3> DEFINE id == now.next_id
               request == [request |-> "Submit", id |-> id]
               asked == Asked(request)
               next == minted(id)
               new == [now EXCEPT !.next_id = next, !.inbox = asked]
               answer == [call EXCEPT !.id = id]
    <3>1. /\ Answered(answer) /\ sessions' = [sessions EXCEPT ![current] = new]
      BY <1>2, <1>8, <2>3 DEF submit_command, TypeOK
    <3>2. answer \in CallsMade \ OwnerCalls
      <4>1. id \in Nat
        BY <1>2, <2>3 DEF Sessions
      <4> HIDE DEF id
      <4> QED BY <1>1, <1>8, <4>1 DEF submit_command, OwnerCalls, CallsMade
    <3>3. request \in Requests /\ request \notin OwnerAsked
      BY <1>2, <2>3 DEF Sessions, Requests, OwnerAsked
    <3> HIDE DEF answer, request, next
    <3>4. DOMAIN now = DOMAIN NewSession
      BY <1>2, <2>3 DEF Sessions, NewSession
    <3>5. /\ new.alive = now.alive /\ new.inbox = asked /\ new.pump_owner = now.pump_owner
          /\ new.far_end_line = now.far_end_line
      <4> HIDE DEF now, asked
      <4> QED BY <3>4 DEF NewSession
    <3>6. new.alive => Ends(new.inbox, OwnerAsked, new.pump_owner, new.far_end_line)
      <4> SUFFICES ASSUME now.alive
                   PROVE  Ends(asked, OwnerAsked, now.pump_owner, now.far_end_line)
        BY <3>5
      <4>1. Ends(now.inbox, OwnerAsked, now.pump_owner, now.far_end_line)
        BY <1>2, <2>3 DEF PumpFollows
      <4>2. Ends(Append(now.inbox, request), OwnerAsked, now.pump_owner, now.far_end_line)
        BY <1>2, <2>3, <3>3, <4>1, EndsOfMore
      <4>3. asked = now.inbox \/ asked = Append(now.inbox, request)
        BY <1>2, <1>7, <2>3, <3>3
      <4> HIDE DEF asked
      <4> QED BY <4>1, <4>2, <4>3
    <3>7. sessions'[current].far_end_line = now.far_end_line
      BY <1>2, <2>3, <3>1, <3>5 DEF TypeOK
    <3> HIDE DEF new
    <3>8. LastIsShown' /\ WindowFollows'
      BY <1>1, <1>3, <2>1, <3>1, <3>2, <3>7, FollowsByOtherAnswers DEF OwnersFollow
    <3> QED BY <1>2, <1>4, <1>5, <2>3, <3>1, <3>6, <3>8 DEF OwnersFollow
  <2> QED BY <2>2, <2>3
<1>9. CASE attach_session
  <2>1. call \notin OwnerCalls /\ Answered(call)
    BY <1>9 DEF attach_session, OwnerCalls
  <2>2. CASE ~Reaches(call)
    <3>1. UNCHANGED sessions
      BY <1>9, <2>2 DEF attach_session
    <3>2. LastIsShown' /\ WindowFollows'
      BY <1>1, <1>3, <2>1, <3>1, FollowsByOtherAnswers DEF OwnersFollow
    <3> QED BY <1>4, <1>6, <3>1, <3>2 DEF OwnersFollow
  <2>3. CASE Reaches(call)
    <3> DEFINE on == TRUE
               new == [now EXCEPT !.attached = on, !.backlog = <<>>]
    <3>1. sessions' = [sessions EXCEPT ![current] = new]
      BY <1>2, <1>9, <2>3 DEF attach_session, TypeOK
    <3>2. DOMAIN now = DOMAIN NewSession
      BY <1>2, <2>3 DEF Sessions, NewSession
    <3>3. /\ new.alive = now.alive /\ new.inbox = now.inbox /\ new.pump_owner = now.pump_owner
          /\ new.far_end_line = now.far_end_line
      <4> HIDE DEF now, on
      <4> QED BY <3>2 DEF NewSession
    <3>4. new.alive => Ends(new.inbox, OwnerAsked, new.pump_owner, new.far_end_line)
      BY <1>2, <2>3, <3>3 DEF PumpFollows
    <3>5. sessions'[current].far_end_line = now.far_end_line
      BY <1>2, <2>3, <3>1, <3>3 DEF TypeOK
    <3> HIDE DEF new
    <3>6. LastIsShown' /\ WindowFollows'
      BY <1>1, <1>3, <2>1, <3>5, FollowsByOtherAnswers DEF OwnersFollow
    <3> QED BY <1>2, <1>4, <1>5, <2>3, <3>1, <3>4, <3>6 DEF OwnersFollow
  <2> QED BY <2>2, <2>3
<1>10. CASE set_line_owner
  <2>1. call \in OwnerCalls /\ Answered(call)
    BY <1>1, <1>10 DEF set_line_owner, OwnerCalls
  <2>2. calls' = Tail(calls) /\ answers' = Append(answers, call)
    BY <2>1 DEF Answered
  <2>3. /\ \A i \in 1..Len(calls') : IsLast(calls', OwnerCalls, i) => IsLast(calls, OwnerCalls, i + 1)
        /\ \A i \in 1..Len(calls') : i + 1 \in 1..Len(calls) /\ calls'[i] = calls[i + 1]
        /\ HasNone(calls', OwnerCalls) => IsLast(calls, OwnerCalls, 1)
        /\ call = calls[1] /\ 1 \in 1..Len(calls)
    BY <1>1, <2>1, <2>2, LastOfTail, TailIs
  <2>4. LastIsShown'
    BY <1>3, <2>3 DEF OwnersFollow, LastIsShown
  <2>5. ASSUME window.session # None, window.session = current, HasNone(calls', OwnerCalls)
        PROVE  Reaches(call)
    BY <2>3, <2>5 DEF OwnersFollow, LastIsShown, Reaches
  <2>6. Ends(answers', OwnerCalls, window.lineOwner, call.owner)
    BY <1>1, <2>1, <2>2, EndsOfMore
  <2>7. CASE ~Reaches(call)
    <3>1. UNCHANGED sessions
      BY <1>10, <2>7 DEF set_line_owner
    <3>2. WindowFollows'
      BY <1>3, <2>5, <2>7 DEF WindowFollows
    <3> QED BY <1>4, <1>6, <2>4, <3>1, <3>2 DEF OwnersFollow
  <2>8. CASE Reaches(call)
    <3> DEFINE owner == call.owner
               request == [request |-> "Owner", owner |-> owner]
               asked == Asked(request)
               new == [now EXCEPT !.far_end_line = owner, !.inbox = asked]
    <3>1. sessions' = [sessions EXCEPT ![current] = new]
      BY <1>2, <1>10, <2>8 DEF set_line_owner, Owned, TypeOK
    <3>2. request \in Requests /\ request \in OwnerAsked /\ request.owner = owner
      BY <1>1 DEF CallsMade, Requests, OwnerAsked
    <3> HIDE DEF owner, request
    <3>3. DOMAIN now = DOMAIN NewSession
      BY <1>2, <2>8 DEF Sessions, NewSession
    <3>4. /\ new.alive = now.alive /\ new.inbox = asked /\ new.pump_owner = now.pump_owner
          /\ new.far_end_line = owner
      <4> HIDE DEF now, asked
      <4> QED BY <3>3 DEF NewSession
    <3>5. new.alive => Ends(new.inbox, OwnerAsked, new.pump_owner, new.far_end_line)
      <4> SUFFICES ASSUME now.alive
                   PROVE  Ends(asked, OwnerAsked, now.pump_owner, owner)
        BY <3>4
      <4>1. asked = Append(now.inbox, request)
        BY <1>10, <2>8 DEF Room, Asked
      <4>2. Ends(Append(now.inbox, request), OwnerAsked, now.pump_owner, request.owner)
        BY <1>2, <2>8, <3>2, EndsOfMore
      <4> QED BY <3>2, <4>1, <4>2
    <3>6. sessions'[current].far_end_line = owner
      BY <1>2, <2>8, <3>1, <3>4 DEF TypeOK
    <3>7. WindowFollows'
      BY <1>3, <2>6, <3>6 DEF WindowFollows, owner
    <3> HIDE DEF new
    <3> QED BY <1>2, <1>4, <1>5, <2>4, <2>8, <3>1, <3>5, <3>7 DEF OwnersFollow
  <2> QED BY <2>7, <2>8
<1> QED BY <1>8, <1>9, <1>10

LEMMA FollowsByTheWindow ==
  ASSUME TypeOK, OwnersFollow, show \/ submit \/ toggleLineOwner \/ answered \/ use_profile
  PROVE  OwnersFollow'
<1>1. UNCHANGED sessions
  BY DEF show, submit, toggleLineOwner, answered, use_profile
<1>2. \A t \in Ids : PumpFollows(t)'
  BY <1>1 DEF OwnersFollow, PumpFollows
<1>3. calls \in Seq(CallsMade) /\ answers \in Seq(CallsMade)
  BY DEF TypeOK
\* A change of the owner is of the session shown, and the window waits for it.
<1>4. ASSUME NEW call \in OwnerCalls, Calls(call), call.session = window'.session
      PROVE  LastIsShown' /\ WindowFollows'
  <2>1. calls' = Append(calls, call) /\ call \in CallsMade
    BY <1>4 DEF Calls, OwnerCalls
  <2>2. /\ \A i \in 1..Len(calls') : IsLast(calls', OwnerCalls, i) => calls'[i] = call
        /\ ~HasNone(calls', OwnerCalls)
    BY <1>3, <1>4, <2>1, LastOfMore
  <2> QED BY <1>4, <2>2 DEF LastIsShown, WindowFollows
\* Any other call leaves the changes that are on their way as they are.
<1>5. ASSUME NEW call \in CallsMade \ OwnerCalls, Calls(call)
      PROVE  /\ \A i \in 1..Len(calls') : IsLast(calls', OwnerCalls, i) =>
                   i \in 1..Len(calls) /\ calls'[i] = calls[i] /\ IsLast(calls, OwnerCalls, i)
             /\ HasNone(calls', OwnerCalls) => HasNone(calls, OwnerCalls)
  <2>1. calls' = Append(calls, call)
    BY <1>5 DEF Calls
  <2> QED BY <1>3, <1>5, <2>1, LastOfMore
<1>6. \A kind \in {"submit", "toggle", "show", "attach"}, session \in Ids, owner \in LineOwners :
         /\ Call(kind, session, owner) \in CallsMade
         /\ Call(kind, session, owner).session = session
         /\ Call(kind, session, owner) \in OwnerCalls <=> kind \in {"toggle", "show"}
  BY DEF Call, CallsMade, None, OwnerCalls
<1>7. CASE show
  <2> DEFINE Arrivals == [session : Ids, line_owner : LineOwners]
             first == Head(arrived)
             call == Call("show", first.session, first.line_owner)
  <2>1. arrived \in Seq(Arrivals) /\ arrived # <<>>
    BY <1>7 DEF show, TypeOK
  <2> HIDE DEF Arrivals
  <2>2. /\ first = arrived[1] /\ 1 \in 1..Len(arrived) /\ first \in Arrivals
        /\ \A i \in 1..Len(Tail(arrived)) : i + 1 \in 1..Len(arrived)
                                            /\ Tail(arrived)[i] = arrived[i + 1]
    BY <2>1, TailIs
  <2>3. first.session \in Ids /\ first.line_owner \in LineOwners
    BY <2>2 DEF Arrivals
  <2>4. /\ window'.session = first.session /\ Calls(call)
        /\ arrived' = Tail(arrived) /\ current' = current
    BY <1>7 DEF show, TypeOK, NewWindow
  <2> HIDE DEF first
  <2>5. call \in OwnerCalls /\ call.session = window'.session
    BY <1>6, <2>3, <2>4
  <2>6. ShownArrived'
    BY <2>2, <2>4 DEF OwnersFollow, ShownArrived
  <2> HIDE DEF call
  <2> QED BY <1>2, <1>4, <2>4, <2>5, <2>6 DEF OwnersFollow
<1>8. CASE toggleLineOwner
  <2> DEFINE owner == Other(window.lineOwner)
             call == Call("toggle", window.session, owner)
  <2>1. owner \in LineOwners
    BY DEF Other, LineOwners
  <2>2. window.session \in Ids /\ Calls(call) /\ UNCHANGED <<window, current, arrived>>
    BY <1>8 DEF toggleLineOwner, TypeOK
  <2> HIDE DEF owner
  <2>3. call \in OwnerCalls /\ call.session = window'.session
    BY <1>6, <2>1, <2>2
  <2> HIDE DEF call
  <2>4. ShownArrived'
    BY <2>2 DEF OwnersFollow, ShownArrived
  <2> QED BY <1>2, <1>4, <2>2, <2>3, <2>4 DEF OwnersFollow
<1>9. CASE submit
  <2> DEFINE call == Call("submit", window.session, "Local")
  <2>1. /\ window.session \in Ids /\ Calls(call)
        /\ UNCHANGED <<window, current, arrived, answers>>
    BY <1>9 DEF submit, TypeOK
  <2>2. call \in CallsMade \ OwnerCalls
    <3>1. "Local" \in LineOwners
      BY DEF LineOwners
    <3> QED BY <1>6, <2>1, <3>1
  <2> HIDE DEF call
  <2>3. LastIsShown'
    BY <1>5, <2>1, <2>2 DEF OwnersFollow, LastIsShown
  <2>4. WindowFollows' /\ ShownArrived'
    BY <1>1, <1>5, <2>1, <2>2 DEF OwnersFollow, WindowFollows, ShownArrived
  <2> QED BY <1>2, <2>3, <2>4 DEF OwnersFollow
<1>10. CASE use_profile
  <2> DEFINE last(owner) == [session |-> current + 1, line_owner |-> owner]
             Arrivals == [session : Ids, line_owner : LineOwners]
  <2>1. PICK owner \in LineOwners : arrived' = Append(arrived, last(owner))
    BY <1>10 DEF use_profile
  <2>2. current' = current + 1 /\ UNCHANGED <<window, calls, answers>> /\ current \in Nat
        /\ current + 1 \in Ids
    BY <1>10, Limits DEF use_profile, TypeOK, Ids
  <2>3. last(owner) \in Arrivals /\ last(owner).session = current + 1
    BY <2>2
  <2>4. arrived \in Seq(Arrivals)
    BY DEF TypeOK
  <2> HIDE DEF Arrivals, last
  <2>5. /\ Len(arrived') = Len(arrived) + 1 /\ arrived'[Len(arrived) + 1] = last(owner)
        /\ \A i \in 1..Len(arrived) : arrived'[i] = arrived[i]
        /\ \A i \in 1..(Len(arrived) + 1) : i \in 1..Len(arrived) \/ i = Len(arrived) + 1
    BY <2>1, <2>3, <2>4, AppendIs
  <2>6. \A i \in 1..Len(arrived') : arrived'[i].session <= current + 1
    <3>1. \A i \in 1..Len(arrived) : arrived[i].session \in Nat /\ arrived[i].session <= current
      <4>1. \A i \in 1..Len(arrived) : arrived[i] \in Arrivals
        BY <2>4
      <4> QED BY <4>1 DEF Arrivals, Ids, OwnersFollow, ShownArrived
    <3>2. \A n \in Nat : n <= current => n <= current + 1
      BY <2>2
    <3> QED BY <2>2, <2>3, <2>5, <3>1, <3>2
  <2>7. window.session \in Nat /\ window.session <= current
    BY DEF TypeOK, Ids, None, OwnersFollow, ShownArrived
  <2>8. window.session <= current + 1 /\ window.session # current + 1
    BY <2>2, <2>7
  <2>9. ShownArrived' /\ LastIsShown' /\ WindowFollows'
    BY <2>2, <2>6, <2>8 DEF OwnersFollow, ShownArrived, LastIsShown, WindowFollows
  <2> QED BY <1>2, <2>9 DEF OwnersFollow
<1>11. CASE answered
  <2> DEFINE a == Head(answers)
             y == sessions[current].far_end_line
  <2>1. a \in CallsMade /\ answers # <<>> /\ answers' = Tail(answers)
        /\ UNCHANGED <<current, arrived>>
    BY <1>11 DEF answered, TypeOK
  <2>2. a.session \in Ids /\ a.owner \in LineOwners
    BY <2>1 DEF CallsMade
  <2>3. /\ \/ UNCHANGED calls
           \/ Calls(Call("attach", a.session, a.owner))
        /\ window'.session = window.session
        /\ window'.lineOwner = IF a \in OwnerCalls THEN a.owner ELSE window.lineOwner
    <3>1. /\ \/ UNCHANGED calls
             \/ Calls(Call("attach", a.session, a.owner))
          /\ window'.session = window.session
      BY <1>11 DEF answered, TypeOK, NewWindow
    <3>2. a \in OwnerCalls <=> a.call \in {"show", "toggle"}
      BY <2>1 DEF OwnerCalls
    <3>3. window'.lineOwner = IF a.call \in {"show", "toggle"} THEN a.owner ELSE window.lineOwner
      BY <1>11 DEF answered, TypeOK, NewWindow
    <3> QED BY <3>1, <3>2, <3>3
  <2> HIDE DEF a
  <2>4. /\ \A i \in 1..Len(calls') : IsLast(calls', OwnerCalls, i) =>
              i \in 1..Len(calls) /\ calls'[i] = calls[i] /\ IsLast(calls, OwnerCalls, i)
        /\ HasNone(calls', OwnerCalls) => HasNone(calls, OwnerCalls)
    <3>1. CASE UNCHANGED calls
      BY <3>1
    <3>2. CASE Calls(Call("attach", a.session, a.owner))
      <4> DEFINE call == Call("attach", a.session, a.owner)
      <4>1. call \in CallsMade \ OwnerCalls
        BY <1>6, <2>2
      <4> HIDE DEF call
      <4> QED BY <1>5, <3>2, <4>1 DEF call
    <3> QED BY <2>3, <3>1, <3>2
  <2>5. LastIsShown' /\ ShownArrived'
    BY <2>1, <2>3, <2>4 DEF OwnersFollow, LastIsShown, ShownArrived
  <2>6. WindowFollows'
    <3> SUFFICES ASSUME window.session # None, window.session = current,
                        HasNone(calls', OwnerCalls)
                 PROVE  Ends(answers', OwnerCalls, window'.lineOwner, y)
      BY <1>1, <2>1, <2>3 DEF WindowFollows
    <3>1. Ends(answers, OwnerCalls, window.lineOwner, y)
      BY <2>4 DEF OwnersFollow, WindowFollows
    <3> HIDE DEF y
    <3>2. /\ a \notin OwnerCalls => Ends(Tail(answers), OwnerCalls, window.lineOwner, y)
          /\ a \in OwnerCalls => Ends(Tail(answers), OwnerCalls, a.owner, y)
      BY <1>3, <2>1, <3>1, EndsOfTail DEF a
    <3> QED BY <2>1, <2>3, <3>2
  <2> QED BY <1>2, <2>5, <2>6 DEF OwnersFollow
<1> QED BY <1>7, <1>8, <1>9, <1>10, <1>11

\* An event changes who holds the line only with the session that has ended.
LEMMA FollowsByEvents ==
  ASSUME TypeOK, OwnersFollow, NEW s \in Ids, handleEvent(s)
  PROVE  OwnersFollow'
<1> DEFINE e == Head(channel[s])
           w0 == [window EXCEPT !.heard[s] = e.n]
           Shows(w) == w.session = window.session /\ w.lineOwner = window.lineOwner
<1>1. /\ window' \in Handled(w0, e) /\ e \in Events
      /\ UNCHANGED <<current, arrived, sessions, calls, answers>>
  BY DEF handleEvent, TypeOK
<1>2. DOMAIN w0 = DOMAIN NewWindow /\ Shows(w0)
  BY DEF TypeOK, NewWindow
<1> HIDE DEF w0, e
<1>3. Shows(window') \/ window'.session = None
  <2> DEFINE w == ensureBlock(w0, e)
  <2>1. DOMAIN w = DOMAIN NewWindow /\ Shows(w)
    BY <1>2 DEF ensureBlock, NewWindow
  <2> HIDE DEF w
  <2>2. CASE e.type = "CommandStarted"
    BY <1>1, <2>1, <2>2 DEF Handled, headByTheEcho, NewWindow, w
  <2>3. CASE e.type = "Output"
    BY <1>1, <2>1, <2>3 DEF Handled, Rows, NewWindow, w
  <2>4. CASE e.type = "CommandFinished"
    BY <1>1, <2>1, <2>4 DEF Handled, NewWindow, w
  <2>5. CASE e.type = "Disconnected"
    BY <1>1, <1>2, <2>5 DEF Handled, NewWindow
  <2>6. e.type \in {"CommandStarted", "Output", "CommandFinished", "Disconnected"}
    BY <1>1 DEF Events
  <2> QED BY <2>2, <2>3, <2>4, <2>5, <2>6
<1>4. \A t \in Ids : PumpFollows(t)'
  BY <1>1 DEF OwnersFollow, PumpFollows
<1>5. CASE Shows(window')
  <2>1. window'.session = window.session /\ window'.lineOwner = window.lineOwner
    BY <1>5
  <2>2. ShownArrived' /\ LastIsShown' /\ WindowFollows'
    BY <1>1, <2>1 DEF OwnersFollow, ShownArrived, LastIsShown, WindowFollows
  <2> QED BY <1>4, <2>2 DEF OwnersFollow
<1>6. CASE window'.session = None
  <2>1. None <= current
    BY DEF TypeOK, None
  <2>2. ShownArrived' /\ LastIsShown' /\ WindowFollows'
    BY <1>1, <1>6, <2>1 DEF OwnersFollow, ShownArrived, LastIsShown, WindowFollows
  <2> QED BY <1>4, <2>2 DEF OwnersFollow
<1> QED BY <1>3, <1>5, <1>6

LEMMA FollowsByNext == TypeOK /\ OwnersFollow /\ [Next]_vars /\ [Room]_vars => OwnersFollow'
<1> SUFFICES ASSUME TypeOK, OwnersFollow, [Next]_vars, [Room]_vars PROVE OwnersFollow'
  OBVIOUS
<1>1. CASE UNCHANGED vars
  BY <1>1 DEF vars, OwnersFollow, PumpFollows, ShownArrived, LastIsShown, WindowFollows
<1>2. CASE Next /\ Room
  BY <1>2, FollowsByRuns, FollowsByEvents, FollowsByTheMainThread, FollowsByTheWindow DEF Next
<1> QED BY <1>1, <1>2

LEMMA FollowsAtFirst == Init => OwnersFollow
<1> SUFFICES ASSUME Init PROVE OwnersFollow
  OBVIOUS
<1>1. Len(<<>>) = 0 /\ \A i \in 1..0 : FALSE
  OBVIOUS
<1>2. ASSUME NEW s \in Ids PROVE PumpFollows(s)
  <2>1. sessions[s].inbox = <<>> /\ sessions[s].pump_owner = sessions[s].far_end_line
    BY DEF Init, NewSession
  <2> QED BY <1>1, <2>1 DEF PumpFollows, Ends
<1>3. window.session = None /\ current = None /\ arrived = <<>>
  BY DEF Init, NewWindow
<1>4. None <= None
  BY DEF None
<1> QED BY <1>1, <1>2, <1>3, <1>4 DEF OwnersFollow, ShownArrived, LastIsShown, WindowFollows

LEMMA FollowersAgree == TypeOK /\ OwnersFollow => OwnersAgree
<1> SUFFICES ASSUME TypeOK, OwnersFollow, window.session # None, window.session = current,
                    OwnerIsSettled, sessions[current].alive
             PROVE  /\ window.lineOwner = sessions[current].far_end_line
                    /\ window.lineOwner = sessions[current].pump_owner
  BY DEF OwnersAgree
<1>1. current \in Ids
  BY DEF TypeOK
<1>2. HasNone(calls, OwnerCalls) /\ HasNone(answers, OwnerCalls)
  BY DEF OwnerIsSettled, HasNone, OwnerCalls
<1>3. HasNone(sessions[current].inbox, OwnerAsked)
  BY DEF OwnerIsSettled, OwnerRequests, HasNone, OwnerAsked
<1>4. window.lineOwner = sessions[current].far_end_line
  BY <1>2 DEF OwnersFollow, WindowFollows, Ends
<1>5. sessions[current].pump_owner = sessions[current].far_end_line
  BY <1>1, <1>3 DEF OwnersFollow, PumpFollows, Ends
<1> QED BY <1>4, <1>5

(***************************************************************************)
(* As long as no change of the owner finds the inbox full, the window, the *)
(* keys and the pump agree about who holds the line whenever no change is  *)
(* under way: for any number of sessions, and however calls, answers and   *)
(* events cross.                                                           *)
(***************************************************************************)
THEOREM OwnersComeToAgree == Spec /\ NoneIsRefused => []OwnersAgree
<1> DEFINE Inv == TypeOK /\ OwnersFollow
<1>1. Init => Inv
  BY TypeAtFirst, FollowsAtFirst
<1>2. Inv /\ [Next]_vars /\ [Room]_vars => Inv'
  BY TypeByNext, FollowsByNext
<1>3. Inv => OwnersAgree
  BY FollowersAgree
<1> HIDE DEF Inv
<1> QED BY <1>1, <1>2, <1>3, PTL DEF Spec, NoneIsRefused
=============================================================================
