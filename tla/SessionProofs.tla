---------------------------- MODULE SessionProofs ----------------------------
(***************************************************************************)
(* What holds of a session for every kind of shell, every line, every text *)
(* it may draw, and any capacity of the channel of requests.               *)
(*                                                                         *)
(* The pump's methods are operators on a record, so each has a lemma of    *)
(* its own about any pump; a step of the session is then one of them.  In  *)
(* these lemmas A are the submissions the session accepted, O Acter's own, *)
(* L the requests that have not reached the pump, and K these with those   *)
(* that the step under way is about to give up.                            *)
(***************************************************************************)
EXTENDS Session, WellFoundedInduction, TLAPS

(***************************************************************************)
(* The invariant.                                                          *)
(***************************************************************************)
Submission == [id : Nat, line : Seq(Tokens), ours : BOOLEAN]
Actor      == [active : Nat, begun : Seq(Nat), dropped : BOOLEAN, selfTalk : BOOLEAN]

\* What the flag is once the stores under way are made.
Flag == [now : BOOLEAN, stores : Seq(BOOLEAN)]
StopFlag(p) == IF p.running.stores = <<>> THEN p.running.now
               ELSE p.running.stores[Len(p.running.stores)]

\* The fields the invariant reads have their types.
Formed(p) ==
    /\ DOMAIN p = DOMAIN NewPump(<<>>)
    /\ p.nextId \in Nat \ {0}
    /\ p.running \in Flag /\ p.unshown \in BOOLEAN
    /\ p.open \in Nat /\ p.selfTalk \in Nat
    /\ p.submitted \in Seq(Submission)
    /\ p.setup \in Seq(Tokens)
    /\ DOMAIN p.lines = Rows
    /\ \A row \in Rows : DOMAIN p.lines[row] = DOMAIN UnseenRow /\ p.lines[row].shown \in Nat
    /\ p.actor \in Actor

\* ActorFollowsThePump of any pump, and what it rests on: a block that is not
\* shown yet has an identity, and no row was ever told of it.
Followed(p) ==
    /\ ~p.actor.dropped
    /\ p.actor.active = IF p.unshown THEN NoCommand ELSE p.open
    /\ p.actor.selfTalk = (p.selfTalk # NoCommand)
    /\ p.unshown => p.open # NoCommand
    /\ \A row \in Rows : p.lines[row].shown < p.nextId
    /\ p.unshown => \A row \in Rows : p.lines[row].shown # p.open

\* Identities are minted one after the other: one that was never asked for is
\* not that of a line.
Numbered(p, A, O, L) ==
    /\ \A a \in A \cup O \cup L : a \in Nat /\ 0 < a /\ a < p.nextId
    /\ \A a \in A : a \notin O
    /\ \A i \in 1..Len(p.submitted) :
          p.submitted[i].id \in A \cup O /\ (p.submitted[i].ours => p.submitted[i].id \in O)
    /\ \A i \in 1..Len(p.actor.begun) : p.actor.begun[i] < p.nextId
    /\ p.open < p.nextId
    /\ p.unshown => /\ p.open \notin A \cup O \cup L
                    /\ \A i \in 1..Len(p.actor.begun) : p.actor.begun[i] # p.open

\* One command is before another: it is another one, and if both are lines
\* and the first is the user's it was submitted first.
Precedes(a, b, A, O) == a # b /\ (a \in A /\ b \in A \cup O => a < b)

\* What has begun, what waits at the pump and what is on its way to it.
InTurn(p, A, O, L) ==
    LET begun == p.actor.begun
        waits == p.submitted
    IN  /\ \A i, j \in 1..Len(begun) : i < j => Precedes(begun[i], begun[j], A, O)
        /\ \A i, j \in 1..Len(waits) : i < j => Precedes(waits[i].id, waits[j].id, A, O)
        /\ \A i \in 1..Len(begun) : \A j \in 1..Len(waits) :
              Precedes(begun[i], waits[j].id, A, O)
        /\ \A i \in 1..Len(begun) : \A l \in L : Precedes(begun[i], l, A, O)
        /\ \A j \in 1..Len(waits) : \A l \in L : Precedes(waits[j].id, l, A, O)

\* Each line waits, or has a line after it that has begun, but for those in K.
Accounted(p, A, O, K) ==
    \A a \in A :
        \/ a \in K
        \/ \E i \in 1..Len(p.submitted) : p.submitted[i].id = a
        \/ \E i \in 1..Len(p.actor.begun) :
              p.actor.begun[i] \in A \cup O /\ p.actor.begun[i] >= a

Sound(p, A, O, L, K) ==
    Formed(p) /\ Followed(p) /\ Numbered(p, A, O, L) /\ InTurn(p, A, O, L)
    /\ Accounted(p, A, O, K)

\* And the interrupt key finds it running, if it is.
Whole(p, A, O, L, K) == Sound(p, A, O, L, K) /\ (IsRunning(p) => StopFlag(p))

\* The requests on their way, in the order they were made; the blank ones are
\* those no accepted line has the identity of.
IsSubmit(request) == request.kind = "Submit"
Ids(q) == {q[i].id : i \in {j \in 1..Len(q) : IsSubmit(q[j])}}
Request == [kind : {"Submit"}, id : Nat, line : Seq(Tokens)] \cup [kind : {"Interrupt"}]
MadeInTurn(q, A) ==
    /\ q \in Seq(Request)
    /\ \A i, j \in 1..Len(q) : i < j /\ IsSubmit(q[i]) /\ IsSubmit(q[j]) =>
          q[i].id < q[j].id
    /\ \A i \in 1..Len(q) : IsSubmit(q[i]) => (q[i].id \in A <=> q[i].line # <<>>)

\* The events of a read.
Event == [kind : {"MarkersObserved", "BlockStarted"}] \cup [kind : {"BlockEnded"}, exit : Int]
         \cup [kind : {"Line"}, region : Regions, id : Rows, text : Seq(Tokens),
               revision : {"Appended", "Rewritten", "Settled"}]

IInv ==
    /\ tracker \in Tracker /\ events \in Seq(Event)
    /\ asked \in Seq(Nat)
    /\ MadeInTurn(inbox, Range(asked))
    /\ Whole(pump, Range(asked), own, Ids(inbox), Ids(inbox))

-----------------------------------------------------------------------------
(***************************************************************************)
(* A pump that agrees with another in what the invariant reads of it, but  *)
(* for rows that were forgotten or told of now, is as sound.               *)
(***************************************************************************)
SameLines(q, p) ==
    /\ DOMAIN q.lines = Rows
    /\ \A row \in Rows : /\ DOMAIN q.lines[row] = DOMAIN UnseenRow
                         /\ \/ q.lines[row].shown \in {p.lines[row].shown, NoCommand}
                            \/ ~p.unshown /\ q.lines[row].shown = p.open

Same(q, p) ==
    /\ DOMAIN q = DOMAIN p
    /\ q.nextId = p.nextId /\ q.running = p.running /\ q.unshown = p.unshown
    /\ q.open = p.open /\ q.selfTalk = p.selfTalk
    /\ q.submitted = p.submitted /\ q.setup = p.setup
    /\ q.actor = p.actor
    /\ SameLines(q, p)

LEMMA BegunAreIds ==
  ASSUME NEW p, Formed(p)
  PROVE  /\ p.actor.begun \in Seq(Nat) /\ Len(p.actor.begun) \in Nat
         /\ \A i \in 1..Len(p.actor.begun) : p.actor.begun[i] \in Nat
<1>1. p.actor.begun \in Seq(Nat)
  BY DEF Formed, Actor
<1> QED BY <1>1

LEMMA SameIsSound ==
  ASSUME NEW p, NEW q, NEW A, NEW O, NEW L, NEW K, Sound(p, A, O, L, K), Same(q, p)
  PROVE  Sound(q, A, O, L, K)
<1>1. Formed(q)
  BY DEF Sound, Formed, Same, SameLines, NoCommand
<1>2. Followed(q)
  BY DEF Sound, Formed, Followed, Numbered, Same, SameLines, NoCommand
<1>3. Numbered(q, A, O, L) /\ InTurn(q, A, O, L) /\ Accounted(q, A, O, K)
  BY DEF Sound, Numbered, InTurn, Accounted, Same
<1> QED BY <1>1, <1>2, <1>3 DEF Sound

LEMMA SameIsTransitive ==
  ASSUME NEW p, NEW q, NEW r, Same(q, p), Same(r, q)
  PROVE  Same(r, p)
BY DEF Same, SameLines

LEMMA SameAsItself == ASSUME NEW p, Formed(p) PROVE Same(p, p)
BY DEF Same, SameLines, Formed

\* What the actor makes of what it is told is no matter of the pump's.
Quiet == {"PromptDrawn", "Connected", "Disconnected", "MarkersObserved", "GracePeriodExpired"}

LEMMA TellIs ==
  ASSUME NEW p, DOMAIN p = DOMAIN NewPump(<<>>), NEW input
  PROVE  LET q == Tell(p, input)
         IN  /\ DOMAIN q = DOMAIN p
             /\ q.nextId = p.nextId /\ q.running = p.running /\ q.unshown = p.unshown
             /\ q.open = p.open /\ q.selfTalk = p.selfTalk
             /\ q.submitted = p.submitted /\ q.setup = p.setup /\ q.lines = p.lines
             /\ q.actor = Hears(p.actor, input)
             /\ q.told = Append(p.told, input)
BY DEF Tell, NewPump

LEMMA TellQuietly ==
  ASSUME NEW p, Formed(p), NEW input, input.kind \in Quiet
  PROVE  Same(Tell(p, input), p)
<1>1. Hears(p.actor, input) = p.actor
  BY DEF Hears, Quiet
<1>2. DOMAIN p = DOMAIN NewPump(<<>>)
  BY DEF Formed
<1> DEFINE q == Tell(p, input)
<1>3. /\ DOMAIN q = DOMAIN p
      /\ q.nextId = p.nextId /\ q.running = p.running /\ q.unshown = p.unshown
      /\ q.open = p.open /\ q.selfTalk = p.selfTalk
      /\ q.submitted = p.submitted /\ q.setup = p.setup /\ q.lines = p.lines
      /\ q.actor = p.actor
  BY <1>1, <1>2, TellIs
<1> HIDE DEF q
<1>4. Same(q, p)
  BY <1>3 DEF Same, SameLines, Formed
<1> QED BY <1>4 DEF q

\* The mirror of what runs.
LEMMA SettleIs ==
  ASSUME NEW p, NEW A, NEW O, NEW L, NEW K, Sound(p, A, O, L, K)
  PROVE  LET q == settle_running(p)
         IN  /\ Sound(q, A, O, L, K)
             /\ IsRunning(q) => StopFlag(q)
             /\ DOMAIN q = DOMAIN p
             /\ q.nextId = p.nextId /\ q.unshown = p.unshown
             /\ q.open = p.open /\ q.selfTalk = p.selfTalk
             /\ q.submitted = p.submitted /\ q.setup = p.setup /\ q.lines = p.lines
             /\ q.actor = p.actor /\ q.told = p.told
<1> DEFINE q == settle_running(p)
<1>1. DOMAIN p = DOMAIN NewPump(<<>>)
  BY DEF Sound, Formed
<1>2. /\ DOMAIN q = DOMAIN p
      /\ q.nextId = p.nextId /\ q.unshown = p.unshown
      /\ q.running = [p.running EXCEPT !.stores = Append(@, IsRunning(p))]
      /\ q.open = p.open /\ q.selfTalk = p.selfTalk
      /\ q.submitted = p.submitted /\ q.setup = p.setup /\ q.lines = p.lines
      /\ q.actor = p.actor /\ q.told = p.told
  BY <1>1 DEF settle_running, NewPump
<1> HIDE DEF q
<1> DEFINE runs == IsRunning(p)
<1>6. IsRunning(q) = runs /\ runs \in BOOLEAN
  BY <1>2 DEF IsRunning
<1>7. p.running \in Flag /\ q.running = [p.running EXCEPT !.stores = Append(@, runs)]
  BY <1>2 DEF Sound, Formed
<1> HIDE DEF runs
<1>8. q.running \in Flag /\ q.running.stores = Append(p.running.stores, runs)
  BY <1>6, <1>7 DEF Flag
<1>9. StopFlag(q) = runs
  BY <1>6, <1>7, <1>8 DEF StopFlag, Flag
<1>3. IsRunning(q) => StopFlag(q)
  BY <1>6, <1>9
<1>4. Formed(q)
  BY <1>2, <1>8 DEF Sound, Formed
<1>5. Followed(q) /\ Numbered(q, A, O, L) /\ InTurn(q, A, O, L) /\ Accounted(q, A, O, K)
  BY <1>2 DEF Sound, Followed, Numbered, InTurn, Accounted
<1> QED BY <1>2, <1>3, <1>4, <1>5 DEF Sound, q

\* What the actor is told of self-talk is what the pump takes it to be.
LEMMA MuteIsSound ==
  ASSUME NEW p, NEW A, NEW O, NEW L, NEW K, Sound(p, A, O, L, K),
         NEW talk \in Nat, NEW on \in BOOLEAN, on <=> talk # NoCommand
  PROVE  LET q == Tell([p EXCEPT !.selfTalk = talk], SelfTalk(on))
         IN  /\ Sound(q, A, O, L, K)
             /\ DOMAIN q = DOMAIN p
             /\ q.nextId = p.nextId /\ q.running = p.running /\ q.unshown = p.unshown
             /\ q.open = p.open /\ q.submitted = p.submitted /\ q.setup = p.setup
             /\ q.lines = p.lines /\ q.selfTalk = talk
             /\ q.actor.active = p.actor.active /\ q.actor.begun = p.actor.begun
<1> DEFINE r == [p EXCEPT !.selfTalk = talk]
           input == SelfTalk(on)
           q == Tell(r, input)
<1>1. DOMAIN p = DOMAIN NewPump(<<>>) /\ p.actor \in Actor
  BY DEF Sound, Formed
<1>2. /\ DOMAIN r = DOMAIN p
      /\ r.nextId = p.nextId /\ r.running = p.running /\ r.unshown = p.unshown
      /\ r.open = p.open /\ r.submitted = p.submitted /\ r.setup = p.setup
      /\ r.lines = p.lines /\ r.actor = p.actor /\ r.selfTalk = talk
  BY <1>1 DEF NewPump
<1>3. Hears(r.actor, input) = [p.actor EXCEPT !.selfTalk = on]
  BY <1>2 DEF Hears, SelfTalk
<1> HIDE DEF r, input
<1>4. DOMAIN r = DOMAIN NewPump(<<>>)
  BY <1>1, <1>2
<1>5. /\ DOMAIN q = DOMAIN p
      /\ q.nextId = p.nextId /\ q.running = p.running /\ q.unshown = p.unshown
      /\ q.open = p.open /\ q.submitted = p.submitted /\ q.setup = p.setup
      /\ q.lines = p.lines /\ q.selfTalk = talk
  BY <1>2, <1>4, TellIs
<1>6. q.actor = [p.actor EXCEPT !.selfTalk = on]
  BY <1>3, <1>4, TellIs
<1> HIDE DEF q
<1>7. q.actor \in Actor
  BY <1>1, <1>6 DEF Actor
<1>8. /\ q.actor.active = p.actor.active /\ q.actor.begun = p.actor.begun
      /\ q.actor.dropped = p.actor.dropped
  BY <1>1, <1>6 DEF Actor
<1>9. q.actor.selfTalk = on
  BY <1>1, <1>6 DEF Actor
<1>10. Formed(q)
  BY <1>1, <1>5, <1>7 DEF Sound, Formed
<1>11. Followed(q)
  <2>1. ~q.actor.dropped
    BY <1>8 DEF Sound, Followed
  <2>2. q.actor.selfTalk = (q.selfTalk # NoCommand)
    BY <1>5, <1>9
  <2> QED BY <1>5, <1>8, <2>1, <2>2 DEF Sound, Followed
<1>12. Numbered(q, A, O, L) /\ InTurn(q, A, O, L) /\ Accounted(q, A, O, K)
  BY <1>5, <1>8 DEF Sound, Numbered, InTurn, Accounted
<1>13. Sound(q, A, O, L, K)
  BY <1>10, <1>11, <1>12 DEF Sound
<1> QED BY <1>5, <1>8, <1>13 DEF q, r, input
-----------------------------------------------------------------------------
(***************************************************************************)
(* Blocks.  A pump in which a command has started that can come next.      *)
(***************************************************************************)
CanStart(p, id, A, O, L) ==
    /\ p.actor.active = NoCommand
    /\ id \in Nat /\ 0 < id /\ id < p.nextId
    /\ \A i \in 1..Len(p.actor.begun) : Precedes(p.actor.begun[i], id, A, O)
    /\ \A j \in 1..Len(p.submitted) : Precedes(id, p.submitted[j].id, A, O)
    /\ \A l \in L : Precedes(id, l, A, O)

HasStarted(q, p, id) ==
    /\ DOMAIN q = DOMAIN p
    /\ q.nextId = p.nextId /\ q.running = p.running /\ q.selfTalk = p.selfTalk
    /\ q.submitted = p.submitted /\ q.setup = p.setup /\ q.lines = p.lines
    /\ q.open = id /\ q.unshown = FALSE
    /\ q.actor = [p.actor EXCEPT !.active = id, !.begun = Append(@, id),
                                 !.dropped = @ \/ p.actor.active # NoCommand]

LEMMA StartIsSound ==
  ASSUME NEW p, NEW q, NEW A, NEW O, NEW L, NEW K, NEW id, Sound(p, A, O, L, K),
         CanStart(p, id, A, O, L), HasStarted(q, p, id)
  PROVE  /\ Sound(q, A, O, L, K)
         /\ \E i \in 1..Len(q.actor.begun) : q.actor.begun[i] = id
<1> DEFINE was == p.actor.begun
           now == q.actor.begun
<1>1. /\ q.actor \in Actor /\ now = Append(was, id)
      /\ q.actor.active = id /\ ~q.actor.dropped /\ q.actor.selfTalk = p.actor.selfTalk
  <2>1. p.actor \in Actor /\ ~p.actor.dropped /\ p.actor.active = NoCommand
    BY DEF Sound, Formed, Followed, CanStart
  <2>2. q.actor = [p.actor EXCEPT !.active = id, !.begun = Append(@, id),
                                  !.dropped = @ \/ p.actor.active # NoCommand]
    BY DEF HasStarted
  <2>3. q.actor = [p.actor EXCEPT !.active = id, !.begun = Append(@, id), !.dropped = FALSE]
    BY <2>1, <2>2 DEF Actor
  <2>4. Append(was, id) \in Seq(Nat)
    BY <2>1 DEF CanStart, Actor
  <2> HIDE DEF was
  <2>5. q.actor = [p.actor EXCEPT !.active = id, !.begun = Append(was, id), !.dropped = FALSE]
    BY <2>3 DEF was
  <2> QED BY <2>1, <2>4, <2>5 DEF CanStart, Actor
<1>2. /\ was \in Seq(Nat) /\ Len(was) \in Nat /\ Len(now) = Len(was) + 1
      /\ \A i \in 1..Len(was) : now[i] = was[i]
      /\ now[Len(was) + 1] = id
  BY <1>1 DEF Sound, Formed, Actor, CanStart
<1> HIDE DEF was, now
<1>3. \A i \in 1..Len(now) : \/ i \in 1..Len(was) /\ now[i] = was[i]
                             \/ now[i] = id
  BY <1>2
<1>4. Formed(q)
  BY <1>1 DEF Sound, Formed, CanStart, HasStarted
<1>5. Followed(q)
  BY <1>1 DEF Sound, Followed, HasStarted, Formed
<1>6. Numbered(q, A, O, L)
  BY <1>3 DEF Sound, Numbered, CanStart, HasStarted, was, now
<1>7. InTurn(q, A, O, L)
  <2>1. \A i, j \in 1..Len(now) : i < j => Precedes(now[i], now[j], A, O)
    <3> SUFFICES ASSUME NEW i \in 1..Len(now), NEW j \in 1..Len(now), i < j
                 PROVE  Precedes(now[i], now[j], A, O)
      OBVIOUS
    <3>1. i \in 1..Len(was) /\ now[i] = was[i]
      BY <1>2, <1>3
    <3>2. CASE j \in 1..Len(was) /\ now[j] = was[j]
      BY <3>1, <3>2 DEF Sound, InTurn, was
    <3>3. CASE now[j] = id
      BY <3>1, <3>3 DEF CanStart, was
    <3> QED BY <1>3, <3>2, <3>3
  <2>2. \A i \in 1..Len(now) : \A j \in 1..Len(p.submitted) :
           Precedes(now[i], p.submitted[j].id, A, O)
    BY <1>3 DEF Sound, InTurn, CanStart, was
  <2>3. \A i \in 1..Len(now) : \A l \in L : Precedes(now[i], l, A, O)
    BY <1>3 DEF Sound, InTurn, CanStart, was
  <2>4. \A i, j \in 1..Len(p.submitted) : i < j =>
           Precedes(p.submitted[i].id, p.submitted[j].id, A, O)
    BY DEF Sound, InTurn
  <2>5. \A j \in 1..Len(p.submitted) : \A l \in L : Precedes(p.submitted[j].id, l, A, O)
    BY DEF Sound, InTurn
  <2>6. q.submitted = p.submitted
    BY DEF HasStarted
  <2> QED BY <2>1, <2>2, <2>3, <2>4, <2>5, <2>6 DEF InTurn, now
<1>8. Accounted(q, A, O, K)
  <2>1. \A i \in 1..Len(was) : i \in 1..Len(now) /\ now[i] = was[i]
    BY <1>2
  <2>2. q.submitted = p.submitted
    BY DEF HasStarted
  <2> QED BY <2>1, <2>2 DEF Sound, Accounted, was, now
<1>9. \E i \in 1..Len(now) : now[i] = id
  <2>1. Len(was) + 1 \in 1..Len(now)
    BY <1>2
  <2> QED BY <1>2, <2>1
<1> QED BY <1>4, <1>5, <1>6, <1>7, <1>8, <1>9 DEF Sound, now

LEMMA OpenStarts ==
  ASSUME NEW p, NEW id, NEW typed, Formed(p)
  PROVE  HasStarted(open(p, id, typed), p, id)
<1> DEFINE r == [p EXCEPT !.open = id, !.unshown = FALSE]
           q == Tell(r, Started(id, typed))
<1>1. DOMAIN p = DOMAIN NewPump(<<>>)
  BY DEF Formed
<1>2. /\ DOMAIN r = DOMAIN p
      /\ r.nextId = p.nextId /\ r.running = p.running /\ r.selfTalk = p.selfTalk
      /\ r.submitted = p.submitted /\ r.setup = p.setup /\ r.lines = p.lines
      /\ r.open = id /\ r.unshown = FALSE /\ r.actor = p.actor
  BY <1>1 DEF NewPump
<1>3. Hears(r.actor, Started(id, typed)) =
        [p.actor EXCEPT !.active = id, !.begun = Append(@, id),
                        !.dropped = @ \/ p.actor.active # NoCommand]
  BY <1>2 DEF Hears, Started
<1> HIDE DEF r
<1>4. HasStarted(q, p, id)
  BY <1>1, <1>2, <1>3, TellIs DEF HasStarted
<1> QED BY <1>4 DEF open, r

\* A block that is not shown yet: its identity was just minted.
LEMMA OpenUnshownIsSound ==
  ASSUME NEW p, NEW q, NEW A, NEW O, NEW L, NEW K, Sound(p, A, O, L, K), p.open = NoCommand,
         q = open_unshown([p EXCEPT !.nextId = @ + 1], p.nextId)
  PROVE  Sound(q, A, O, L, K) /\ q.submitted = p.submitted /\ q.told = p.told
<1>1. DOMAIN p = DOMAIN NewPump(<<>>) /\ p.nextId \in Nat \ {0} /\ ~p.unshown
  BY DEF Sound, Formed, Followed, NoCommand
<1>2. /\ DOMAIN q = DOMAIN p
      /\ q.nextId = p.nextId + 1 /\ q.running = p.running /\ q.selfTalk = p.selfTalk
      /\ q.submitted = p.submitted /\ q.setup = p.setup /\ q.lines = p.lines
      /\ q.open = p.nextId /\ q.unshown = TRUE /\ q.actor = p.actor /\ q.told = p.told
  BY <1>1 DEF NewPump, open_unshown
<1>3. Formed(q)
  <2>1. Formed(p)
    BY DEF Sound
  <2>2. q.nextId \in Nat \ {0}
    BY <1>1, <1>2
  <2>5. q.unshown \in BOOLEAN
    <3>1. q.unshown = TRUE
      BY <1>2
    <3> QED BY <3>1
  <2>3. q.open \in Nat /\ q.running \in Flag /\ q.selfTalk \in Nat /\ q.actor \in Actor
    BY <1>1, <1>2, <2>1 DEF Formed
  <2>4. /\ q.submitted \in Seq(Submission) /\ q.setup \in Seq(Tokens)
        /\ DOMAIN q.lines = Rows
        /\ \A row \in Rows : DOMAIN q.lines[row] = DOMAIN UnseenRow /\ q.lines[row].shown \in Nat
    BY <1>2, <2>1 DEF Formed
  <2> QED BY <1>1, <1>2, <2>2, <2>3, <2>4, <2>5 DEF Formed
<1>4. Followed(q)
  BY <1>1, <1>2 DEF Sound, Formed, Followed, NoCommand
<1>5. Numbered(q, A, O, L)
  <2>1. \A i \in 1..Len(p.actor.begun) : p.actor.begun[i] \in Nat
    BY DEF Sound, Formed, Actor
  <2>2. Numbered(p, A, O, L)
    BY DEF Sound
  <2> QED BY <1>1, <1>2, <2>1, <2>2 DEF Numbered
<1>6. InTurn(q, A, O, L) /\ Accounted(q, A, O, K)
  BY <1>2 DEF Sound, InTurn, Accounted
<1> QED BY <1>2, <1>3, <1>4, <1>5, <1>6 DEF Sound

\* No block is open, and Acter is heard again about what it ran itself.
HasClosed(q, p) ==
    /\ DOMAIN q = DOMAIN p
    /\ q.nextId = p.nextId /\ q.submitted = p.submitted /\ q.setup = p.setup
    /\ q.open = NoCommand /\ q.unshown = FALSE
    /\ q.actor.active = NoCommand /\ q.actor.begun = p.actor.begun

LEMMA CloseIsSound ==
  ASSUME NEW p, NEW exit, NEW A, NEW O, NEW L, NEW K, Sound(p, A, O, L, K)
  PROVE  LET q == close(p, exit)
         IN  /\ Sound(q, A, O, L, K)
             /\ HasClosed(q, p)
             /\ (IsRunning(p) => StopFlag(p)) => (IsRunning(q) => StopFlag(q))
<1> DEFINE q == close(p, exit)
<1>1. CASE p.open = NoCommand
  BY <1>1 DEF close, HasClosed, Sound, Followed, Formed
<1>2. CASE p.open # NoCommand
  <2> DEFINE s == Shut(p)
             t == IF p.unshown THEN s ELSE Tell(s, Ending(p, exit))
             u == Unmuted(t, p.open)
  <2>1. DOMAIN p = DOMAIN NewPump(<<>>) /\ p.actor \in Actor /\ DOMAIN p.lines = Rows
    BY DEF Sound, Formed
  <2>2. /\ DOMAIN s = DOMAIN p
        /\ s.nextId = p.nextId /\ s.running = p.running /\ s.selfTalk = p.selfTalk
        /\ s.submitted = p.submitted /\ s.setup = p.setup
        /\ s.open = NoCommand /\ s.unshown = FALSE /\ s.actor = p.actor
        /\ s.lines = [row \in Rows |-> [p.lines[row] EXCEPT !.owed = FALSE]]
    BY <2>1 DEF Shut, NewPump
  <2>3. SameLines(s, p)
    BY <2>2 DEF SameLines, Sound, Formed, UnseenRow
  <2> HIDE DEF s
  <2>4. /\ DOMAIN t = DOMAIN p
        /\ t.nextId = p.nextId /\ t.running = p.running /\ t.selfTalk = p.selfTalk
        /\ t.submitted = p.submitted /\ t.setup = p.setup /\ t.lines = s.lines
        /\ t.open = NoCommand /\ t.unshown = FALSE
        /\ t.actor = [p.actor EXCEPT !.active = NoCommand]
    <3>1. CASE p.unshown
      <4>1. t = s /\ p.actor = [p.actor EXCEPT !.active = NoCommand]
        BY <3>1 DEF Sound, Followed, Actor, Formed
      <4> QED BY <2>2, <4>1
    <3>2. CASE ~p.unshown
      <4>1. p.actor.active = p.open /\ ~p.actor.dropped
        BY <3>2 DEF Sound, Followed
      <4>2. Hears(s.actor, Ending(p, exit)) = [p.actor EXCEPT !.active = NoCommand]
        BY <2>1, <2>2, <4>1 DEF Hears, Ending, Ended, Interrupted, Actor
      <4>3. t = Tell(s, Ending(p, exit))
        BY <3>2
      <4> QED BY <2>1, <2>2, <4>2, <4>3, TellIs
    <3> QED BY <3>1, <3>2 DEF Sound, Formed
  <2> HIDE DEF t
  <2>5. Sound(t, A, O, L, K)
    <3>1. t.actor \in Actor /\ t.actor.active = NoCommand
      BY <2>1, <2>4 DEF Actor, NoCommand
    <3>2. t.actor.begun = p.actor.begun
      BY <2>1, <2>4 DEF Actor
    <3>3. t.actor.dropped = p.actor.dropped
      BY <2>1, <2>4 DEF Actor
    <3>4. t.actor.selfTalk = p.actor.selfTalk
      BY <2>1, <2>4 DEF Actor
    <3>5. Formed(t)
      <4>1. Formed(p)
        BY DEF Sound
      <4>2. t.unshown \in BOOLEAN
        <5>1. t.unshown = FALSE
          BY <2>4
        <5> QED BY <5>1
      <4>3. /\ DOMAIN t.lines = Rows
            /\ \A row \in Rows : /\ DOMAIN t.lines[row] = DOMAIN UnseenRow
                                 /\ t.lines[row].shown \in Nat
        BY <2>3, <2>4, <4>1 DEF Formed, SameLines, NoCommand
      <4>4. /\ t.nextId \in Nat \ {0} /\ t.open \in Nat /\ t.running \in Flag
            /\ t.selfTalk \in Nat
        BY <2>4, <4>1 DEF Formed, NoCommand
      <4>5. t.submitted \in Seq(Submission) /\ t.setup \in Seq(Tokens)
        BY <2>4, <4>1 DEF Formed
      <4> QED BY <2>1, <2>4, <3>1, <4>2, <4>3, <4>4, <4>5 DEF Formed
    <3>6. Followed(t)
      <4>1. \A row \in Rows : t.lines[row].shown < t.nextId
        BY <2>3, <2>4 DEF Sound, Formed, Followed, Numbered, SameLines, NoCommand
      <4>2. ~t.actor.dropped /\ t.actor.selfTalk = (t.selfTalk # NoCommand)
        BY <2>4, <3>3, <3>4 DEF Sound, Followed
      <4> QED BY <2>4, <3>1, <4>1, <4>2 DEF Followed, NoCommand
    <3>7. Numbered(t, A, O, L) /\ InTurn(t, A, O, L) /\ Accounted(t, A, O, K)
      BY <2>4, <3>2 DEF Sound, Formed, Numbered, InTurn, Accounted, NoCommand
    <3> QED BY <3>5, <3>6, <3>7 DEF Sound
  <2>6. /\ Sound(u, A, O, L, K) /\ DOMAIN u = DOMAIN p
        /\ u.nextId = p.nextId /\ u.running = p.running
        /\ u.submitted = p.submitted /\ u.setup = p.setup
        /\ u.open = NoCommand /\ u.unshown = FALSE
        /\ u.actor.active = NoCommand /\ u.actor.begun = p.actor.begun
    <3>1. t.actor.active = NoCommand /\ t.actor.begun = p.actor.begun
      BY <2>1, <2>4 DEF Actor
    <3>2. CASE t.selfTalk # p.open
      <4>1. u = t
        BY <3>2 DEF Unmuted
      <4> QED BY <2>4, <2>5, <3>1, <4>1
    <3>3. CASE t.selfTalk = p.open
      <4> DEFINE off == FALSE
      <4>1. u = Tell([t EXCEPT !.selfTalk = NoCommand], SelfTalk(off))
        BY <3>3 DEF Unmuted
      <4>2. NoCommand \in Nat /\ off \in BOOLEAN /\ (off <=> NoCommand # NoCommand)
        BY DEF NoCommand
      <4> HIDE DEF u, off
      <4>3. /\ Sound(u, A, O, L, K) /\ DOMAIN u = DOMAIN t
            /\ u.nextId = t.nextId /\ u.running = t.running /\ u.unshown = t.unshown
            /\ u.open = t.open /\ u.submitted = t.submitted /\ u.setup = t.setup
            /\ u.actor.active = t.actor.active /\ u.actor.begun = t.actor.begun
        BY <2>5, <4>1, <4>2, MuteIsSound
      <4> QED BY <2>4, <3>1, <4>3
    <3> QED BY <3>2, <3>3
  <2> HIDE DEF u
  <2>7. q = settle_running(u)
    BY <1>2 DEF close, u, t, s
  <2> HIDE DEF q
  <2>8. Sound(q, A, O, L, K) /\ (IsRunning(q) => StopFlag(q)) /\ HasClosed(q, p)
    BY <2>6, <2>7, SettleIs DEF HasClosed
  <2> QED BY <2>8 DEF q
<1> QED BY <1>1, <1>2

-----------------------------------------------------------------------------
(***************************************************************************)
(* What is told to the frontend on the way to the next block: nothing      *)
(* waits less, and only blocks that nobody submitted start.                *)
(***************************************************************************)
Published(q, p) ==
    /\ q.submitted = p.submitted
    /\ p.nextId <= q.nextId
    /\ q.unshown => p.nextId <= q.open \/ (p.unshown /\ q.open = p.open)
    /\ \A i \in 1..Len(q.actor.begun) :
          \/ \E j \in 1..Len(p.actor.begun) : q.actor.begun[i] = p.actor.begun[j]
          \/ p.nextId <= q.actor.begun[i]
          \/ p.unshown /\ q.actor.begun[i] = p.open

LEMMA PublishedIsTransitive ==
  ASSUME NEW p, NEW q, NEW r, Formed(p), Formed(q), Formed(r),
         Published(q, p), Published(r, q)
  PROVE  Published(r, p)
<1>1. p.nextId \in Nat /\ q.nextId \in Nat /\ r.nextId \in Nat
      /\ q.open \in Nat /\ r.open \in Nat
  BY DEF Formed
<1>2. (\A i \in 1..Len(q.actor.begun) : q.actor.begun[i] \in Nat)
      /\ (\A i \in 1..Len(r.actor.begun) : r.actor.begun[i] \in Nat)
  BY BegunAreIds
<1>3. r.submitted = p.submitted /\ p.nextId <= r.nextId
  BY <1>1 DEF Published
<1>4. r.unshown => p.nextId <= r.open \/ (p.unshown /\ r.open = p.open)
  BY <1>1 DEF Published
<1>5. ASSUME NEW i \in 1..Len(r.actor.begun)
      PROVE  \/ \E j \in 1..Len(p.actor.begun) : r.actor.begun[i] = p.actor.begun[j]
             \/ p.nextId <= r.actor.begun[i]
             \/ p.unshown /\ r.actor.begun[i] = p.open
  <2>1. CASE \E j \in 1..Len(q.actor.begun) : r.actor.begun[i] = q.actor.begun[j]
    BY <2>1 DEF Published
  <2>2. CASE q.nextId <= r.actor.begun[i]
    BY <1>1, <1>2, <2>2 DEF Published
  <2>3. CASE q.unshown /\ r.actor.begun[i] = q.open
    BY <2>3 DEF Published
  <2> QED BY <2>1, <2>2, <2>3 DEF Published
<1> QED BY <1>3, <1>4, <1>5 DEF Published

LEMMA SameIsPublished ==
  ASSUME NEW p, NEW q, Formed(p), Same(q, p)
  PROVE  Published(q, p)
<1>1. p.nextId \in Nat
  BY DEF Formed
<1> QED BY <1>1 DEF Same, Published

\* What has not begun is still not begun, and nothing came before it.
Coming(p, id, A, O, L) ==
    /\ id \in Nat /\ 0 < id /\ id < p.nextId
    /\ p.unshown => p.open # id
    /\ \A i \in 1..Len(p.actor.begun) : Precedes(p.actor.begun[i], id, A, O)
    /\ \A j \in 1..Len(p.submitted) : Precedes(id, p.submitted[j].id, A, O)
    /\ \A l \in L : Precedes(id, l, A, O)

LEMMA StillComing ==
  ASSUME NEW p, NEW q, NEW A, NEW O, NEW L, NEW K, NEW id, Sound(p, A, O, L, K),
         Sound(q, A, O, L, K), Published(q, p), Coming(p, id, A, O, L)
  PROVE  Coming(q, id, A, O, L)
<1>1. p.nextId \in Nat /\ q.nextId \in Nat /\ p.open \in Nat /\ q.open \in Nat
  BY DEF Sound, Formed
<1>2. \A i \in 1..Len(q.actor.begun) : q.actor.begun[i] \in Nat
  BY BegunAreIds DEF Sound
<1>3. id \in Nat /\ 0 < id /\ id < p.nextId /\ p.nextId <= q.nextId
      /\ q.submitted = p.submitted
  BY DEF Published, Coming
<1>4. q.unshown => q.open # id
  BY <1>1, <1>3 DEF Published, Coming
<1>5. ASSUME NEW i \in 1..Len(q.actor.begun)
      PROVE  Precedes(q.actor.begun[i], id, A, O)
  <2>1. CASE \E j \in 1..Len(p.actor.begun) : q.actor.begun[i] = p.actor.begun[j]
    BY <2>1 DEF Coming
  <2>2. CASE p.nextId <= q.actor.begun[i]
    <3>1. q.actor.begun[i] # id /\ \A a \in A : q.actor.begun[i] # a
      BY <1>1, <1>2, <1>3, <2>2 DEF Sound, Numbered
    <3> QED BY <3>1 DEF Precedes
  <2>3. CASE p.unshown /\ q.actor.begun[i] = p.open
    <3>1. p.open # id /\ p.open \notin A
      BY <2>3 DEF Coming, Sound, Numbered
    <3> QED BY <2>3, <3>1 DEF Precedes
  <2> QED BY <2>1, <2>2, <2>3 DEF Published
<1> QED BY <1>1, <1>3, <1>4, <1>5 DEF Coming

\* Output is told while a command is active.
LEMMA TellOutput ==
  ASSUME NEW p, NEW A, NEW O, NEW L, NEW K, Sound(p, A, O, L, K),
         p.open # NoCommand, ~p.unshown, NEW id, NEW news
  PROVE  Same(Tell(p, Output(id, news)), p)
<1> DEFINE word == Output(id, news)
<1>1. p.actor.active # NoCommand /\ p.actor \in Actor /\ ~p.actor.dropped
  BY DEF Sound, Formed, Followed
<1>2. Hears(p.actor, word) = p.actor
  BY <1>1 DEF Hears, Output, Actor
<1>3. DOMAIN p = DOMAIN NewPump(<<>>)
  BY DEF Sound, Formed
<1> HIDE DEF word
<1> DEFINE q == Tell(p, word)
<1>4. /\ DOMAIN q = DOMAIN p
      /\ q.nextId = p.nextId /\ q.running = p.running /\ q.unshown = p.unshown
      /\ q.open = p.open /\ q.selfTalk = p.selfTalk
      /\ q.submitted = p.submitted /\ q.setup = p.setup /\ q.lines = p.lines
      /\ q.actor = p.actor
  BY <1>2, <1>3, TellIs
<1> HIDE DEF q
<1>5. Same(q, p)
  BY <1>4 DEF Same, SameLines, Sound, Formed
<1> QED BY <1>5 DEF q, word

LEMMA ClosePublishes ==
  ASSUME NEW p, NEW exit, NEW A, NEW O, NEW L, NEW K, Whole(p, A, O, L, K)
  PROVE  LET q == close(p, exit)
         IN  /\ Whole(q, A, O, L, K) /\ Published(q, p)
             /\ q.open = NoCommand /\ q.actor.active = NoCommand
<1> DEFINE q == close(p, exit)
<1>1. Sound(q, A, O, L, K) /\ HasClosed(q, p) /\ (IsRunning(q) => StopFlag(q))
  BY CloseIsSound DEF Whole
<1> HIDE DEF q
<1>2. p.nextId \in Nat
  BY DEF Whole, Sound, Formed
<1>3. Published(q, p)
  BY <1>1, <1>2 DEF HasClosed, Published
<1>4. Whole(q, A, O, L, K) /\ Published(q, p) /\ q.open = NoCommand
      /\ q.actor.active = NoCommand
  BY <1>1, <1>3 DEF HasClosed, Whole
<1> QED BY <1>4 DEF q

LEMMA UnclaimedPublishes ==
  ASSUME NEW p, NEW A, NEW O, NEW L, NEW K, Whole(p, A, O, L, K), p.open = NoCommand
  PROVE  LET q == unclaimed(p)
         IN  /\ Whole(q, A, O, L, K) /\ Published(q, p) /\ q.open # NoCommand
<1> DEFINE r == open_unshown([p EXCEPT !.nextId = @ + 1], p.nextId)
           q == settle_running(r)
<1>1. Sound(r, A, O, L, K) /\ r.submitted = p.submitted
  BY OpenUnshownIsSound DEF Whole
<1>2. p.nextId \in Nat \ {0} /\ DOMAIN p = DOMAIN NewPump(<<>>)
  BY DEF Whole, Sound, Formed
<1>3. r.open = p.nextId /\ r.nextId = p.nextId + 1 /\ r.actor = p.actor
  BY <1>2 DEF open_unshown, NewPump
<1> HIDE DEF r
<1>4. /\ Sound(q, A, O, L, K) /\ (IsRunning(q) => StopFlag(q))
      /\ q.nextId = r.nextId /\ q.open = r.open /\ q.submitted = r.submitted
      /\ q.actor = r.actor
  BY <1>1, SettleIs
<1> HIDE DEF q
<1>5. p.nextId <= q.nextId /\ p.nextId <= q.open /\ q.open # NoCommand
  BY <1>2, <1>3, <1>4 DEF NoCommand
<1>6. Published(q, p)
  BY <1>1, <1>3, <1>4, <1>5 DEF Published
<1>7. Whole(q, A, O, L, K) /\ Published(q, p) /\ q.open # NoCommand
  BY <1>4, <1>5, <1>6 DEF Whole
<1> QED BY <1>7 DEF q, r, unclaimed

\* A block shows with its first text.
LEMMA ShowIsSound ==
  ASSUME NEW p, NEW A, NEW O, NEW L, NEW K, Sound(p, A, O, L, K), p.unshown
  PROVE  LET q == settle_running(Tell([p EXCEPT !.unshown = FALSE], Started(p.open, NoText)))
         IN  /\ Whole(q, A, O, L, K) /\ Published(q, p)
             /\ q.open = p.open /\ ~q.unshown /\ q.lines = p.lines
<1> DEFINE s == [p EXCEPT !.unshown = FALSE]
           start == Started(p.open, NoText)
           r == Tell(s, start)
           q == settle_running(r)
<1>1. Formed(p) /\ DOMAIN p = DOMAIN NewPump(<<>>)
  BY DEF Sound, Formed
<1>2. /\ DOMAIN s = DOMAIN p
      /\ s.nextId = p.nextId /\ s.running = p.running /\ s.selfTalk = p.selfTalk
      /\ s.submitted = p.submitted /\ s.setup = p.setup /\ s.lines = p.lines
      /\ s.open = p.open /\ s.unshown = FALSE /\ s.actor = p.actor
  BY <1>1 DEF NewPump
<1>3. Hears(s.actor, start) =
        [p.actor EXCEPT !.active = p.open, !.begun = Append(@, p.open),
                        !.dropped = @ \/ p.actor.active # NoCommand]
  BY <1>2 DEF Hears, Started
<1> HIDE DEF s, start
<1>4. HasStarted(r, p, p.open)
  BY <1>1, <1>2, <1>3, TellIs DEF HasStarted
<1>5. CanStart(p, p.open, A, O, L)
  <2>1. p.open \in Nat /\ 0 < p.open /\ p.open < p.nextId /\ p.actor.active = NoCommand
    BY DEF Sound, Formed, Followed, Numbered, NoCommand
  <2>2. p.open \notin A \cup O \cup L
        /\ \A i \in 1..Len(p.actor.begun) : p.actor.begun[i] # p.open
    BY DEF Sound, Numbered
  <2>3. \A j \in 1..Len(p.submitted) : p.submitted[j].id \in A \cup O
    BY DEF Sound, Numbered
  <2>4. \A i \in 1..Len(p.actor.begun) : Precedes(p.actor.begun[i], p.open, A, O)
    BY <2>2 DEF Precedes
  <2>5. \A j \in 1..Len(p.submitted) : Precedes(p.open, p.submitted[j].id, A, O)
    BY <2>2, <2>3 DEF Precedes
  <2>6. \A l \in L : Precedes(p.open, l, A, O)
    BY <2>2 DEF Precedes
  <2> QED BY <2>1, <2>4, <2>5, <2>6 DEF CanStart
<1>6. Sound(r, A, O, L, K)
  BY <1>4, <1>5, StartIsSound
<1> HIDE DEF r
<1>7. /\ Sound(q, A, O, L, K) /\ (IsRunning(q) => StopFlag(q))
      /\ q.nextId = r.nextId /\ q.open = r.open /\ q.submitted = r.submitted
      /\ q.actor = r.actor /\ q.lines = r.lines /\ q.unshown = r.unshown
  BY <1>6, SettleIs
<1> HIDE DEF q
<1>8. Published(q, p)
  <2>1. p.nextId \in Nat /\ p.actor.begun \in Seq(Nat) /\ p.open \in Nat /\ p.actor \in Actor
    BY <1>1 DEF Formed, Actor
  <2>2. q.actor.begun = Append(p.actor.begun, p.open)
    BY <1>4, <1>7, <2>1 DEF HasStarted, Actor
  <2>3. \A i \in 1..Len(q.actor.begun) :
          \/ \E j \in 1..Len(p.actor.begun) : q.actor.begun[i] = p.actor.begun[j]
          \/ q.actor.begun[i] = p.open
    <3> DEFINE b == p.actor.begun
    <3>1. \A i \in 1..Len(Append(b, p.open)) :
             \/ i \in 1..Len(b) /\ Append(b, p.open)[i] = b[i]
             \/ Append(b, p.open)[i] = p.open
      BY <2>1
    <3> QED BY <2>2, <3>1
  <2>4. q.unshown = FALSE /\ q.nextId = p.nextId /\ q.submitted = p.submitted
    BY <1>4, <1>7 DEF HasStarted
  <2> QED BY <2>1, <2>3, <2>4 DEF Published
<1>9. Whole(q, A, O, L, K) /\ q.open = p.open /\ ~q.unshown /\ q.lines = p.lines
  BY <1>4, <1>7 DEF HasStarted, Whole
<1> QED BY <1>8, <1>9 DEF q, r, s, start

LEMMA SameIsWhole ==
  ASSUME NEW p, NEW q, NEW A, NEW O, NEW L, NEW K, Whole(p, A, O, L, K), Same(q, p)
  PROVE  Whole(q, A, O, L, K) /\ Published(q, p) /\ q.open = p.open
<1>1. Sound(q, A, O, L, K) /\ Published(q, p)
  BY SameIsSound, SameIsPublished DEF Whole, Sound
<1>2. IsRunning(q) = IsRunning(p) /\ StopFlag(q) = StopFlag(p) /\ q.open = p.open
  BY DEF Same, IsRunning, StopFlag
<1> QED BY <1>1, <1>2 DEF Whole

\* One publication after another.
LEMMA PublishOnceMore ==
  ASSUME NEW p, NEW q, NEW r, NEW A, NEW O, NEW L, NEW K, Whole(p, A, O, L, K),
         Whole(q, A, O, L, K), Published(q, p), Whole(r, A, O, L, K), Published(r, q)
  PROVE  Published(r, p)
BY PublishedIsTransitive DEF Whole, Sound

LEMMA OutputPublishes ==
  ASSUME NEW p, NEW A, NEW O, NEW L, NEW K, Whole(p, A, O, L, K), p.open # NoCommand,
         NEW id, NEW news
  PROVE  LET q == output(p, id, news)
         IN  Whole(q, A, O, L, K) /\ Published(q, p) /\ q.open = p.open
<1>1. CASE p.unshown /\ news.text = <<>>
  <2>1. output(p, id, news) = p /\ Same(p, p)
    BY <1>1, SameAsItself DEF output, Whole, Sound
  <2> QED BY <2>1, SameIsWhole
<1>2. CASE ~(p.unshown /\ news.text = <<>>)
  <2> DEFINE s == IF p.unshown
                  THEN settle_running(Tell([p EXCEPT !.unshown = FALSE],
                                           Started(p.open, NoText)))
                  ELSE p
             mark == IF p.lines[id].seen THEN p.open ELSE s.lines[id].shown
             r == [s EXCEPT !.lines[id].shown = mark]
             q == Tell(r, Output(id, news))
  <2>1. Whole(s, A, O, L, K) /\ Published(s, p) /\ s.open = p.open /\ ~s.unshown
    <3>1. CASE p.unshown
      BY <3>1, ShowIsSound DEF Whole
    <3>2. CASE ~p.unshown
      <4>1. s = p /\ Same(p, p)
        BY <3>2, SameAsItself DEF Whole, Sound
      <4> QED BY <3>2, <4>1, SameIsWhole
    <3> QED BY <3>1, <3>2
  <2>2. output(p, id, news) = q
    BY <1>2 DEF output
  <2>3. mark \in {p.open, s.lines[id].shown}
    OBVIOUS
  <2> HIDE DEF s, mark
  <2>4. Same(r, s)
    <3>1. Formed(s) /\ DOMAIN s = DOMAIN NewPump(<<>>)
      BY <2>1 DEF Whole, Sound, Formed
    <3>2. /\ DOMAIN r = DOMAIN s
          /\ r.nextId = s.nextId /\ r.running = s.running /\ r.unshown = s.unshown
          /\ r.open = s.open /\ r.selfTalk = s.selfTalk
          /\ r.submitted = s.submitted /\ r.setup = s.setup /\ r.actor = s.actor
          /\ r.lines = [s.lines EXCEPT ![id] = [s.lines[id] EXCEPT !.shown = mark]]
      BY <3>1 DEF NewPump
    <3> HIDE DEF r
    <3>3. SameLines(r, s)
      BY <2>1, <2>3, <3>1, <3>2 DEF SameLines, Formed, UnseenRow
    <3>4. Same(r, s)
      BY <3>2, <3>3 DEF Same
    <3> QED BY <3>4 DEF r
  <2> HIDE DEF r
  <2>5. Whole(r, A, O, L, K) /\ Published(r, s) /\ r.open = p.open /\ ~r.unshown
    BY <2>1, <2>4, SameIsWhole DEF Same
  <2>6. Whole(q, A, O, L, K) /\ Published(q, r) /\ q.open = p.open
    <3>1. Same(q, r)
      BY <2>5, TellOutput DEF Whole
    <3> QED BY <2>5, <3>1, SameIsWhole
  <2> HIDE DEF q
  <2>7. Published(q, p)
    BY <2>1, <2>5, <2>6, PublishOnceMore
  <2> QED BY <2>2, <2>6, <2>7
<1> QED BY <1>1, <1>2

LEMMA PublishPublishes ==
  ASSUME NEW p, NEW A, NEW O, NEW L, NEW K, Whole(p, A, O, L, K), NEW id, NEW news
  PROVE  LET q == publish(p, id, news)
         IN  Whole(q, A, O, L, K) /\ Published(q, p) /\ q.open # NoCommand
<1> DEFINE r == IF p.open = NoCommand THEN unclaimed(p) ELSE p
           q == output(r, id, news)
<1>1. Whole(r, A, O, L, K) /\ Published(r, p) /\ r.open # NoCommand
  <2>1. CASE p.open = NoCommand
    BY <2>1, UnclaimedPublishes
  <2>2. CASE p.open # NoCommand
    <3>1. r = p /\ Same(p, p)
      BY <2>2, SameAsItself DEF Whole, Sound
    <3> QED BY <2>2, <3>1, SameIsWhole
  <2> QED BY <2>1, <2>2
<1> HIDE DEF r
<1>2. Whole(q, A, O, L, K) /\ Published(q, r) /\ q.open = r.open
  BY <1>1, OutputPublishes
<1> HIDE DEF q
<1>3. Published(q, p)
  BY <1>1, <1>2, PublishOnceMore
<1>4. Whole(q, A, O, L, K) /\ Published(q, p) /\ q.open # NoCommand
  BY <1>1, <1>2, <1>3
<1> QED BY <1>4 DEF publish, q, r

\* Fields of no concern here.
LEMMA OtherFields ==
  ASSUME NEW p, Formed(p)
  PROVE  /\ \A held : Same([p EXCEPT !.held = held], p)
         /\ \A row : Same([p EXCEPT !.row = row], p)
         /\ \A echo : Same([p EXCEPT !.echo = echo], p)
         /\ \A drawing : Same([p EXCEPT !.drawing = drawing], p)
         /\ \A standing : Same([p EXCEPT !.standing = standing], p)
         /\ \A integration : Same([p EXCEPT !.integration = integration], p)
         /\ \A pending : Same([p EXCEPT !.pendingRow = pending], p)
         /\ Same([p EXCEPT !.interrupted = TRUE], p)
         /\ Same([p EXCEPT !.told = <<>>], p)
<1>1. DOMAIN p = DOMAIN NewPump(<<>>)
  BY DEF Formed
<1> QED BY <1>1 DEF Formed, Same, SameLines, NewPump

LEMMA SpillPublishes ==
  ASSUME NEW p, NEW A, NEW O, NEW L, NEW K, Whole(p, A, O, L, K)
  PROVE  LET q == spill(p) IN Whole(q, A, O, L, K) /\ Published(q, p)
<1>1. CASE p.held = NoHeld
  <2>1. spill(p) = p /\ Same(p, p)
    BY <1>1, SameAsItself DEF spill, Whole, Sound
  <2> QED BY <2>1, SameIsWhole
<1>2. CASE p.held # NoHeld
  <2> DEFINE r == [p EXCEPT !.held = NoHeld]
             q == publish(r, p.held.line, HeldDue(p.held))
  <2>1. Same(r, p)
    BY OtherFields DEF Whole, Sound
  <2> HIDE DEF r
  <2>2. Whole(r, A, O, L, K) /\ Published(r, p)
    BY <2>1, SameIsWhole
  <2>3. Whole(q, A, O, L, K) /\ Published(q, r)
    BY <2>2, PublishPublishes
  <2> HIDE DEF q
  <2>4. Published(q, p)
    BY <2>2, <2>3, PublishOnceMore
  <2>5. spill(p) = q
    BY <1>2 DEF spill, q, r
  <2> QED BY <2>3, <2>4, <2>5
<1> QED BY <1>1, <1>2

LEMMA HoldPublishes ==
  ASSUME NEW p, NEW A, NEW O, NEW L, NEW K, Whole(p, A, O, L, K), NEW id, NEW news
  PROVE  LET q == hold(p, id, news) IN Whole(q, A, O, L, K) /\ Published(q, p)
<1>1. CASE window(p) = 0
  <2> DEFINE s == spill(p)
             q == publish(s, id, news)
  <2>1. Whole(s, A, O, L, K) /\ Published(s, p)
    BY SpillPublishes
  <2> HIDE DEF s
  <2>2. Whole(q, A, O, L, K) /\ Published(q, s)
    BY <2>1, PublishPublishes
  <2> HIDE DEF q
  <2>3. Published(q, p)
    BY <2>1, <2>2, PublishOnceMore
  <2>4. hold(p, id, news) = q
    BY <1>1 DEF hold, q, s
  <2> QED BY <2>2, <2>3, <2>4
<1>2. CASE window(p) # 0
  <2> DEFINE kept == IF p.held.line = id THEN p ELSE spill(p)
             now  == [kept EXCEPT !.held = absorb(kept.held, id, news)]
             q    == IF Len(now.held.text) > window(p) THEN spill(now) ELSE now
  <2>1. Whole(kept, A, O, L, K) /\ Published(kept, p)
    <3>1. CASE p.held.line = id
      <4>1. kept = p /\ Same(p, p)
        BY <3>1, SameAsItself DEF Whole, Sound
      <4> QED BY <4>1, SameIsWhole
    <3>2. CASE p.held.line # id
      BY <3>2, SpillPublishes
    <3> QED BY <3>1, <3>2
  <2> HIDE DEF kept
  <2>2. Same(now, kept)
    BY <2>1, OtherFields DEF Whole, Sound
  <2> HIDE DEF now
  <2>3. Whole(now, A, O, L, K) /\ Published(now, kept)
    BY <2>1, <2>2, SameIsWhole
  <2>4. Published(now, p)
    BY <2>1, <2>3, PublishOnceMore
  <2>5. Whole(q, A, O, L, K) /\ Published(q, now)
    <3>1. CASE Len(now.held.text) > window(p)
      BY <3>1, <2>3, SpillPublishes
    <3>2. CASE ~(Len(now.held.text) > window(p))
      <4>1. q = now /\ Same(now, now)
        BY <3>2, <2>3, SameAsItself DEF Whole, Sound
      <4> QED BY <2>3, <4>1, SameIsWhole
    <3> QED BY <3>1, <3>2
  <2> HIDE DEF q
  <2>6. Published(q, p)
    BY <2>3, <2>4, <2>5, PublishOnceMore
  <2>7. hold(p, id, news) = q
    BY <1>2 DEF hold, q, now, kept
  <2> QED BY <2>5, <2>6, <2>7
<1> QED BY <1>1, <1>2

-----------------------------------------------------------------------------
(***************************************************************************)
(* Submissions.                                                            *)
(***************************************************************************)

\* An identity is minted: of an accepted line, of one of Acter's own, of a
\* request on its way, or of a block nobody submitted.
HasMinted(q, p) ==
    /\ DOMAIN q = DOMAIN p
    /\ q.nextId = p.nextId + 1 /\ q.running = p.running /\ q.unshown = p.unshown
    /\ q.open = p.open /\ q.selfTalk = p.selfTalk
    /\ q.submitted = p.submitted /\ q.setup \in Seq(Tokens) /\ q.lines = p.lines
    /\ q.actor = p.actor

Mints(id, A, O, L, K, A2, O2, L2, K2) ==
    /\ A2 \in {A, A \cup {id}} /\ O2 \in {O, O \cup {id}} /\ L2 \in {L, L \cup {id}}
    /\ id \in A2 => id \in K2 /\ id \notin O2
    /\ \A a \in A : a \in K => a \in K2

LEMMA MintIsSound ==
  ASSUME NEW p, NEW q, NEW A, NEW O, NEW L, NEW K, Sound(p, A, O, L, K), HasMinted(q, p),
         NEW A2, NEW O2, NEW L2, NEW K2, Mints(p.nextId, A, O, L, K, A2, O2, L2, K2)
  PROVE  Sound(q, A2, O2, L2, K2)
<1> DEFINE n == p.nextId
           b == p.actor.begun
           w == p.submitted
<1>0. /\ A2 \in {A, A \cup {n}} /\ O2 \in {O, O \cup {n}} /\ L2 \in {L, L \cup {n}}
      /\ n \in A2 => n \in K2 /\ n \notin O2
      /\ \A a \in A : a \in K => a \in K2
  BY DEF Mints
<1>1. n \in Nat \ {0} /\ q.nextId = n + 1 /\ p.open \in Nat /\ Len(b) \in Nat
      /\ \A i \in 1..Len(b) : b[i] \in Nat
  BY BegunAreIds DEF Sound, Formed, HasMinted
<1>2. /\ \A i \in 1..Len(b) : b[i] < n /\ b[i] # n
      /\ \A i \in 1..Len(w) : w[i].id \in A \cup O
      /\ p.open < n /\ p.open # n
  BY <1>1 DEF Sound, Numbered
<1>3. \A a \in A \cup O \cup L : a \in Nat /\ 0 < a /\ a < n /\ a # n
  BY <1>1 DEF Sound, Numbered
<1>4. Formed(q)
  BY <1>1 DEF Sound, Formed, HasMinted
<1>5. Followed(q)
  BY <1>1 DEF Sound, Formed, Followed, HasMinted
<1>6. Numbered(q, A2, O2, L2)
  <2>1. Numbered(p, A, O, L)
    BY DEF Sound
  <2>2. \A a \in A2 \cup O2 \cup L2 : a \in A \cup O \cup L \/ a = n
    BY <1>0
  <2>3. \A a \in A2 \cup O2 \cup L2 : a \in Nat /\ 0 < a /\ a < q.nextId
    BY <1>1, <1>3, <2>2
  <2>4. \A a \in A2 : a \notin O2
    BY <1>0, <1>3, <2>1 DEF Numbered
  <2>5. \A i \in 1..Len(w) : w[i].id \in A2 \cup O2 /\ (w[i].ours => w[i].id \in O2)
    BY <1>0, <2>1 DEF Numbered
  <2>6. \A i \in 1..Len(b) : b[i] < q.nextId
    BY <1>1, <1>2
  <2>7. p.open < q.nextId
    BY <1>1, <1>2
  <2>8. p.unshown => p.open \notin A2 \cup O2 \cup L2 /\ \A i \in 1..Len(b) : b[i] # p.open
    BY <1>2, <2>1, <2>2 DEF Numbered
  <2> QED BY <2>3, <2>4, <2>5, <2>6, <2>7, <2>8 DEF Numbered, HasMinted
<1>7. InTurn(q, A2, O2, L2)
  <2>1. InTurn(p, A, O, L)
    BY DEF Sound
  <2>2. ASSUME NEW a, NEW c, Precedes(a, c, A, O), c # n, a # n
        PROVE  Precedes(a, c, A2, O2)
    BY <1>0, <2>2 DEF Precedes
  <2>3. ASSUME NEW a \in Nat, a < n
        PROVE  Precedes(a, n, A2, O2)
    BY <1>0, <1>1, <2>3 DEF Precedes
  <2>4. \A i \in 1..Len(w) : w[i].id \in Nat /\ w[i].id < n /\ w[i].id # n
    BY <1>2, <1>3
  <2>5. \A l \in L2 : l \in L \/ l = n
    BY <1>0
  <2>6. \A i, j \in 1..Len(b) : i < j => Precedes(b[i], b[j], A2, O2)
    BY <1>2, <2>1, <2>2 DEF InTurn
  <2>7. \A i, j \in 1..Len(w) : i < j => Precedes(w[i].id, w[j].id, A2, O2)
    BY <2>1, <2>2, <2>4 DEF InTurn
  <2>8. \A i \in 1..Len(b) : \A j \in 1..Len(w) : Precedes(b[i], w[j].id, A2, O2)
    BY <1>2, <2>1, <2>2, <2>4 DEF InTurn
  <2>9. \A i \in 1..Len(b) : \A l \in L2 : Precedes(b[i], l, A2, O2)
    BY <1>1, <1>2, <1>3, <2>1, <2>2, <2>3, <2>5 DEF InTurn
  <2>10. \A j \in 1..Len(w) : \A l \in L2 : Precedes(w[j].id, l, A2, O2)
    BY <1>3, <2>1, <2>2, <2>3, <2>4, <2>5 DEF InTurn
  <2> QED BY <2>6, <2>7, <2>8, <2>9, <2>10 DEF InTurn, HasMinted
<1>8. Accounted(q, A2, O2, K2)
  <2>1. Accounted(p, A, O, K)
    BY DEF Sound
  <2>2. ASSUME NEW a \in A2
        PROVE  \/ a \in K2
               \/ \E i \in 1..Len(w) : w[i].id = a
               \/ \E i \in 1..Len(b) : b[i] \in A2 \cup O2 /\ b[i] >= a
    <3>1. CASE a = n
      BY <1>0, <3>1
    <3>2. CASE a \in A
      BY <1>0, <2>1, <3>2 DEF Accounted
    <3> QED BY <1>0, <3>1, <3>2
  <2> QED BY <2>2 DEF Accounted, HasMinted
<1> QED BY <1>4, <1>5, <1>6, <1>7, <1>8 DEF Sound

\* A blank line waits for nothing.
LEMMA LessOnItsWay ==
  ASSUME NEW p, NEW A, NEW O, NEW L, NEW K, Sound(p, A, O, L, K),
         NEW L2, L2 \subseteq L, NEW K2, \A a \in A : a \in K => a \in K2
  PROVE  Sound(p, A, O, L2, K2)
<1>1. Numbered(p, A, O, L2)
  BY DEF Sound, Numbered
<1>2. InTurn(p, A, O, L2)
  BY DEF Sound, InTurn
<1>3. Accounted(p, A, O, K2)
  BY DEF Sound, Accounted
<1> QED BY <1>1, <1>2, <1>3 DEF Sound

\* A line waits behind the others.
CanWait(p, id, A, O, L, K, L2, K2) ==
    /\ L2 \subseteq L
    /\ \A a \in A : a \in K => a \in K2 \/ a = id
    /\ id \in A \cup O /\ id < p.nextId
    /\ \A i \in 1..Len(p.actor.begun) : Precedes(p.actor.begun[i], id, A, O)
    /\ \A j \in 1..Len(p.submitted) : Precedes(p.submitted[j].id, id, A, O)
    /\ \A l \in L2 : Precedes(id, l, A, O)

LEMMA SubmitIsSound ==
  ASSUME NEW p, NEW A, NEW O, NEW L, NEW K, Sound(p, A, O, L, K),
         NEW L2, NEW K2, NEW id, CanWait(p, id, A, O, L, K, L2, K2),
         NEW typed \in Seq(Tokens), typed # <<>>,
         NEW ours \in BOOLEAN, ours => id \in O
  PROVE  LET q == submit_line(p, id, typed, ours)
         IN  /\ Whole(q, A, O, L2, K2)
             /\ q.submitted = Append(p.submitted, [id |-> id, line |-> typed, ours |-> ours])
<1> DEFINE last == [id |-> id, line |-> typed, ours |-> ours]
           r == [p EXCEPT !.submitted = Append(@, last), !.pendingRow = p.cursor]
           q == settle_running(r)
           w == p.submitted
           x == r.submitted
<1>0. /\ L2 \subseteq L
      /\ \A a \in A : a \in K => a \in K2 \/ a = id
      /\ id \in A \cup O /\ id < p.nextId
      /\ \A i \in 1..Len(p.actor.begun) : Precedes(p.actor.begun[i], id, A, O)
      /\ \A j \in 1..Len(w) : Precedes(w[j].id, id, A, O)
      /\ \A l \in L2 : Precedes(id, l, A, O)
  BY DEF CanWait
<1>1. DOMAIN p = DOMAIN NewPump(<<>>) /\ w \in Seq(Submission)
  BY DEF Sound, Formed
<1>2. /\ DOMAIN r = DOMAIN p
      /\ r.nextId = p.nextId /\ r.running = p.running /\ r.unshown = p.unshown
      /\ r.open = p.open /\ r.selfTalk = p.selfTalk /\ r.setup = p.setup
      /\ r.lines = p.lines /\ r.actor = p.actor /\ x = Append(w, last)
  BY <1>1 DEF NewPump
<1>3. last \in Submission /\ last.id = id /\ last.ours = ours
  BY <1>0 DEF Sound, Numbered, Submission
<1> HIDE DEF r, last
<1>4. /\ x \in Seq(Submission) /\ Len(w) \in Nat /\ Len(x) = Len(w) + 1
      /\ \A i \in 1..Len(w) : i \in 1..Len(x) /\ x[i] = w[i]
      /\ x[Len(w) + 1] = last
  BY <1>1, <1>2, <1>3
<1>5. \A i \in 1..Len(x) : i \in 1..Len(w) \/ i = Len(w) + 1
  BY <1>4
<1> HIDE DEF w, x
<1>6. Formed(r)
  BY <1>2, <1>4 DEF Sound, Formed, x
<1>7. Followed(r)
  BY <1>2 DEF Sound, Followed
<1>8. Numbered(r, A, O, L2)
  <2>1. \A i \in 1..Len(x) : x[i].id \in A \cup O /\ (x[i].ours => x[i].id \in O)
    <3>1. \A i \in 1..Len(w) : w[i].id \in A \cup O /\ (w[i].ours => w[i].id \in O)
      BY DEF Sound, Numbered, w
    <3> QED BY <1>0, <1>3, <1>4, <1>5, <3>1
  <2> QED BY <1>0, <1>2, <2>1 DEF Sound, Numbered, x
<1>9. InTurn(r, A, O, L2)
  <2>1. \A i, j \in 1..Len(x) : i < j => Precedes(x[i].id, x[j].id, A, O)
    <3> SUFFICES ASSUME NEW i \in 1..Len(x), NEW j \in 1..Len(x), i < j
                 PROVE  Precedes(x[i].id, x[j].id, A, O)
      OBVIOUS
    <3>1. i \in 1..Len(w) /\ x[i] = w[i]
      BY <1>4, <1>5
    <3>2. CASE j \in 1..Len(w)
      BY <1>4, <3>1, <3>2 DEF Sound, InTurn, w
    <3>3. CASE j = Len(w) + 1
      BY <1>0, <1>3, <1>4, <3>1, <3>3 DEF w
    <3> QED BY <1>5, <3>2, <3>3
  <2>2. \A i \in 1..Len(p.actor.begun) : \A j \in 1..Len(x) :
           Precedes(p.actor.begun[i], x[j].id, A, O)
    BY <1>0, <1>3, <1>4, <1>5 DEF Sound, InTurn, w
  <2>3. \A j \in 1..Len(x) : \A l \in L2 : Precedes(x[j].id, l, A, O)
    BY <1>0, <1>3, <1>4, <1>5 DEF Sound, InTurn, w
  <2> QED BY <1>0, <1>2, <2>1, <2>2, <2>3 DEF Sound, InTurn, x
<1>10. Accounted(r, A, O, K2)
  <2>1. ASSUME NEW a \in A
        PROVE  \/ a \in K2
               \/ \E i \in 1..Len(x) : x[i].id = a
               \/ \E i \in 1..Len(p.actor.begun) :
                     p.actor.begun[i] \in A \cup O /\ p.actor.begun[i] >= a
    <3>1. CASE a \in K
      <4>1. Len(w) + 1 \in 1..Len(x)
        BY <1>4
      <4> QED BY <1>0, <1>3, <1>4, <3>1, <4>1
    <3>2. CASE a \notin K
      BY <1>4, <3>2 DEF Sound, Accounted, w
    <3> QED BY <3>1, <3>2
  <2> QED BY <1>2, <2>1 DEF Accounted, x
<1>11. Sound(r, A, O, L2, K2)
  BY <1>6, <1>7, <1>8, <1>9, <1>10 DEF Sound
<1>12. Whole(q, A, O, L2, K2) /\ q.submitted = r.submitted
  BY <1>11, SettleIs DEF Whole
<1>13. submit_line(p, id, typed, ours) = q
  BY DEF submit_line, q, r, last
<1> HIDE DEF q
<1> QED BY <1>2, <1>12, <1>13 DEF x, w, last

\* The lines before the one that was read are given up with it.
GivenUp(p, index) == {p.submitted[i].id : i \in 1..index}

LEMMA AdoptIsWhole ==
  ASSUME NEW p, NEW A, NEW O, NEW L, NEW K, Whole(p, A, O, L, K),
         NEW index \in 1..Len(p.submitted)
  PROVE  LET q  == adopt(p, index)
             id == p.submitted[index].id
         IN  /\ Whole(q, A, O, L, K \cup GivenUp(p, index))
             /\ Coming(q, id, A, O, L)
             /\ id \in A \cup O
             /\ \A a \in GivenUp(p, index) : a \in A => a <= id
             /\ q.open = p.open /\ q.actor = p.actor
<1> DEFINE q == adopt(p, index)
           w == p.submitted
           x == q.submitted
           id == w[index].id
<1>1. DOMAIN p = DOMAIN NewPump(<<>>) /\ w \in Seq(Submission)
  BY DEF Whole, Sound, Formed
<1>2. /\ DOMAIN q = DOMAIN p
      /\ q.nextId = p.nextId /\ q.running = p.running /\ q.unshown = p.unshown
      /\ q.open = p.open /\ q.selfTalk = p.selfTalk /\ q.setup = p.setup
      /\ q.lines = p.lines /\ q.actor = p.actor /\ x = SubSeq(w, index + 1, Len(w))
  BY <1>1 DEF NewPump, adopt
<1>3. /\ x \in Seq(Submission) /\ Len(x) = Len(w) - index /\ Len(w) \in Nat
      /\ \A i \in 1..Len(x) : i + index \in 1..Len(w) /\ x[i] = w[i + index]
  BY <1>1, <1>2
<1> HIDE DEF q, w, x, id
<1>4. Formed(q)
  BY <1>2, <1>3 DEF Whole, Sound, Formed, x
<1>5. Followed(q)
  BY <1>2 DEF Whole, Sound, Followed
<1>6. Numbered(q, A, O, L)
  <2>1. \A i \in 1..Len(w) : w[i].id \in A \cup O /\ (w[i].ours => w[i].id \in O)
    BY DEF Whole, Sound, Numbered, w
  <2>2. \A i \in 1..Len(x) : x[i].id \in A \cup O /\ (x[i].ours => x[i].id \in O)
    BY <1>3, <2>1
  <2> QED BY <1>2, <2>2 DEF Whole, Sound, Numbered, x
<1>7. InTurn(q, A, O, L)
  <2>1. \A i, j \in 1..Len(w) : i < j => Precedes(w[i].id, w[j].id, A, O)
    BY DEF Whole, Sound, InTurn, w
  <2>2. \A i, j \in 1..Len(x) : i < j => Precedes(x[i].id, x[j].id, A, O)
    <3> SUFFICES ASSUME NEW i \in 1..Len(x), NEW j \in 1..Len(x), i < j
                 PROVE  Precedes(x[i].id, x[j].id, A, O)
      OBVIOUS
    <3>1. /\ i + index \in 1..Len(w) /\ x[i] = w[i + index]
          /\ j + index \in 1..Len(w) /\ x[j] = w[j + index] /\ i + index < j + index
      BY <1>3
    <3> QED BY <2>1, <3>1
  <2>3. \A i \in 1..Len(p.actor.begun) : \A j \in 1..Len(x) :
           Precedes(p.actor.begun[i], x[j].id, A, O)
    BY <1>3 DEF Whole, Sound, InTurn, w
  <2>4. \A j \in 1..Len(x) : \A l \in L : Precedes(x[j].id, l, A, O)
    BY <1>3 DEF Whole, Sound, InTurn, w
  <2> QED BY <1>2, <2>2, <2>3, <2>4 DEF Whole, Sound, InTurn, x
<1>8. Accounted(q, A, O, K \cup GivenUp(p, index))
  <2>1. ASSUME NEW a \in A
        PROVE  \/ a \in K \cup GivenUp(p, index)
               \/ \E i \in 1..Len(x) : x[i].id = a
               \/ \E i \in 1..Len(p.actor.begun) :
                     p.actor.begun[i] \in A \cup O /\ p.actor.begun[i] >= a
    <3>1. CASE \E i \in 1..Len(w) : w[i].id = a
      <4>1. PICK i \in 1..Len(w) : w[i].id = a
        BY <3>1
      <4>2. CASE i \in 1..index
        BY <4>1, <4>2 DEF GivenUp, w
      <4>3. CASE i \notin 1..index
        <5>1. i - index \in 1..Len(x)
          BY <1>3, <4>3
        <5>2. x[i - index] = w[(i - index) + index] /\ (i - index) + index = i
          BY <1>3, <5>1
        <5> QED BY <4>1, <5>1, <5>2
      <4> QED BY <4>2, <4>3
    <3> QED BY <3>1 DEF Whole, Sound, Accounted, w
  <2> QED BY <1>2, <2>1 DEF Accounted, x
<1>9. Whole(q, A, O, L, K \cup GivenUp(p, index))
  <2>1. q.submitted # <<>> => p.submitted # <<>>
    BY <1>3 DEF x, w
  <2>3. StopFlag(q) = StopFlag(p)
    BY <1>2 DEF StopFlag
  <2>2. IsRunning(q) => StopFlag(q)
    BY <1>2, <2>1, <2>3 DEF Whole, IsRunning
  <2> QED BY <1>4, <1>5, <1>6, <1>7, <1>8, <2>2 DEF Whole, Sound
<1>10. id \in A \cup O /\ id \in Nat /\ 0 < id /\ id < p.nextId
  <2>1. index \in 1..Len(w)
    BY DEF w
  <2>2. id \in A \cup O
    BY <2>1 DEF Whole, Sound, Numbered, w, id
  <2> QED BY <2>2 DEF Whole, Sound, Numbered
<1>11. Coming(q, id, A, O, L)
  <2>1. q.unshown => q.open # id
    BY <1>2, <1>10 DEF Whole, Sound, Numbered
  <2>2. \A i \in 1..Len(q.actor.begun) : Precedes(q.actor.begun[i], id, A, O)
    BY <1>2 DEF Whole, Sound, InTurn, id, w
  <2>3. \A j \in 1..Len(x) : Precedes(id, x[j].id, A, O)
    <3>1. \A i, j \in 1..Len(w) : i < j => Precedes(w[i].id, w[j].id, A, O)
      BY DEF Whole, Sound, InTurn, w
    <3>2. index \in 1..Len(w)
      BY DEF w
    <3> SUFFICES ASSUME NEW j \in 1..Len(x) PROVE Precedes(id, x[j].id, A, O)
      OBVIOUS
    <3>3. j + index \in 1..Len(w) /\ x[j] = w[j + index] /\ index < j + index
      BY <1>3
    <3> QED BY <3>1, <3>2, <3>3 DEF id
  <2>4. \A l \in L : Precedes(id, l, A, O)
    BY DEF Whole, Sound, InTurn, id, w
  <2> QED BY <1>2, <1>10, <2>1, <2>2, <2>3, <2>4 DEF Coming, x
<1>12. \A a \in GivenUp(p, index) : a \in A => a <= id
  <2> SUFFICES ASSUME NEW i \in 1..index, w[i].id \in A PROVE w[i].id <= id
    BY DEF GivenUp, w
  <2>1. i \in 1..Len(w) /\ index \in 1..Len(w)
    BY <1>3 DEF w
  <2>2. CASE i = index
    BY <1>10, <2>2 DEF id
  <2>3. CASE i # index
    <3>1. i < index
      BY <2>3
    <3>2. Precedes(w[i].id, id, A, O)
      BY <2>1, <3>1 DEF Whole, Sound, InTurn, w, id
    <3>3. w[i].id \in Nat
      BY DEF Whole, Sound, Numbered
    <3> QED BY <1>10, <3>2, <3>3 DEF Precedes
  <2> QED BY <2>2, <2>3
<1> QED BY <1>2, <1>9, <1>10, <1>11, <1>12 DEF q, id, w

\* The next command starts: what was given up for it is accounted for.
LEMMA NextStarts ==
  ASSUME NEW p, NEW A, NEW O, NEW L, NEW K, Sound(p, A, O, L, K), NEW id, NEW typed,
         Coming(p, id, A, O, L), p.actor.active = NoCommand,
         NEW K2, \A a \in A : a \in K => a \in K2 \/ (id \in A \cup O /\ a <= id)
  PROVE  LET q == settle_running(open(p, id, typed))
         IN  Whole(q, A, O, L, K2)
<1> DEFINE r == open(p, id, typed)
           q == settle_running(r)
<1>1. HasStarted(r, p, id)
  BY OpenStarts DEF Sound
<1>2. CanStart(p, id, A, O, L)
  BY DEF Coming, CanStart
<1> HIDE DEF r
<1>3. /\ Sound(r, A, O, L, K)
      /\ \E i \in 1..Len(r.actor.begun) : r.actor.begun[i] = id
  BY <1>1, <1>2, StartIsSound
<1>4. Accounted(r, A, O, K2)
  <2>1. \A a \in A : a \in Nat
    BY DEF Sound, Numbered
  <2>2. id \in Nat
    BY DEF Coming
  <2>3. \A a \in A : id \in A \cup O /\ a <= id =>
           \E i \in 1..Len(r.actor.begun) :
              r.actor.begun[i] \in A \cup O /\ r.actor.begun[i] >= a
    BY <1>3, <2>1, <2>2
  <2> QED BY <1>3, <2>3 DEF Sound, Accounted
<1>5. Sound(r, A, O, L, K2)
  BY <1>3, <1>4 DEF Sound
<1>6. Whole(q, A, O, L, K2)
  BY <1>5, SettleIs DEF Whole
<1> QED BY <1>6 DEF q, r

LEMMA EchoedIsWhole ==
  ASSUME NEW p, NEW A, NEW O, NEW L, Whole(p, A, O, L, L),
         NEW index \in 1..Len(p.submitted), NEW whole
  PROVE  Whole(Echoed(p, index, whole), A, O, L, L)
<1> DEFINE typed  == p.submitted[index].line
           id     == p.submitted[index].id
           K      == L \cup GivenUp(p, index)
           taken  == adopt(p, index)
           freed  == [taken EXCEPT !.held = NoHeld]
           before == before_echo(p.held.text, whole, typed)
           news   == [HeldDue(p.held) EXCEPT !.text = IF before = NoText THEN @ ELSE before]
           after  == IF p.held = NoHeld \/ before = <<>> THEN freed
                     ELSE publish(freed, p.held.line, news)
           shut   == close(after, NoExit)
           begun  == settle_running(open(shut, id, typed))
<1>1. /\ Whole(taken, A, O, L, K) /\ Coming(taken, id, A, O, L) /\ id \in A \cup O
      /\ \A a \in GivenUp(p, index) : a \in A => a <= id
  BY AdoptIsWhole
<1>2. Echoed(p, index, whole) = [begun EXCEPT !.row = <<>>]
  BY DEF Echoed
<1> HIDE DEF taken, id, before, news, typed
<1>3. Same(freed, taken)
  BY <1>1, OtherFields DEF Whole, Sound
<1> HIDE DEF freed
<1>4. Whole(freed, A, O, L, K) /\ Published(freed, taken)
  BY <1>1, <1>3, SameIsWhole
<1>5. Whole(after, A, O, L, K) /\ Published(after, freed)
  <2>1. CASE p.held = NoHeld \/ before = <<>>
    <3>1. after = freed /\ Same(freed, freed)
      BY <1>4, <2>1, SameAsItself DEF Whole, Sound
    <3> QED BY <1>4, <3>1, SameIsWhole
  <2>2. CASE ~(p.held = NoHeld \/ before = <<>>)
    BY <1>4, <2>2, PublishPublishes
  <2> QED BY <2>1, <2>2
<1> HIDE DEF after
<1>6. /\ Whole(shut, A, O, L, K) /\ Published(shut, after)
      /\ shut.actor.active = NoCommand
  BY <1>5, ClosePublishes
<1> HIDE DEF shut
<1>7. Coming(shut, id, A, O, L)
  <2>1. Published(after, taken)
    BY <1>1, <1>4, <1>5, PublishOnceMore
  <2>2. Published(shut, taken)
    BY <1>1, <1>5, <1>6, <2>1, PublishOnceMore
  <2> QED BY <1>1, <1>6, <2>2, StillComing DEF Whole
<1>8. \A a \in A : a \in K => a \in L \/ (id \in A \cup O /\ a <= id)
  BY <1>1
<1> HIDE DEF K
<1>9. Whole(begun, A, O, L, L)
  BY <1>6, <1>7, <1>8, NextStarts DEF Whole
<1> HIDE DEF begun
<1>10. Same([begun EXCEPT !.row = <<>>], begun)
  BY <1>9, OtherFields DEF Whole, Sound
<1> QED BY <1>2, <1>9, <1>10, SameIsWhole

LEMMA LeastOfNat ==
  ASSUME NEW S, S \subseteq Nat, S # {}
  PROVE  \E x \in S : \A y \in S : x <= y
<1> DEFINE R == OpToRel(<, Nat)
<1>1. PICK x \in S : \A y \in S : ~ (<<y, x>> \in R)
  <2> HIDE DEF R
  <2> QED BY WFMin, NatLessThanWellFounded DEF R
<1>2. \A y \in S : ~(y < x)
  <2> SUFFICES ASSUME NEW y \in S, y < x PROVE FALSE
    OBVIOUS
  <2>1. <<y, x>> \in Nat \X Nat /\ <<y, x>>[1] < <<y, x>>[2]
    OBVIOUS
  <2> QED BY <1>1, <2>1 DEF OpToRel
<1> HIDE DEF R
<1>3. \A y \in S : x \in Nat /\ y \in Nat
  OBVIOUS
<1> QED BY <1>2, <1>3

LEMMA MinIsIn ==
  ASSUME NEW S, S \subseteq Nat, S # {}
  PROVE  Min(S) \in S
BY LeastOfNat DEF Min

LEMMA BoundaryIsWhole ==
  ASSUME NEW p, NEW A, NEW O, NEW L, Whole(p, A, O, L, L),
         NEW region, NEW id, NEW text, NEW revision
  PROVE  Whole(boundary(p, region, id, text, revision), A, O, L, L)
<1> DEFINE grown == IF revision = "Appended" THEN p.row \o text ELSE text
           row   == SubSeq(grown, 1 + Max({0, Len(grown) - window(p)}), Len(grown))
           which == echoed(p, row)
           whole == IF revision = "Appended" THEN NoText ELSE text
           q     == boundary(p, region, id, text, revision)
<1>1. p.submitted \in Seq(Submission)
  BY DEF Whole, Sound, Formed
<1>2. which \subseteq 1..Len(p.submitted)
  BY <1>1 DEF echoed
<1> HIDE DEF row, which, whole
<1>3. \/ q = [p EXCEPT !.row = <<>>]
      \/ q = [p EXCEPT !.row = row]
      \/ which # {} /\ q = Echoed(p, Min(which), whole)
  BY DEF boundary, which, row, whole
<1> HIDE DEF q
<1>4. CASE q = [p EXCEPT !.row = <<>>] \/ q = [p EXCEPT !.row = row]
  <2>1. Same(q, p)
    BY <1>4, OtherFields DEF Whole, Sound
  <2>2. Whole(q, A, O, L, L)
    BY <2>1, SameIsWhole
  <2> QED BY <2>2 DEF q
<1>5. CASE which # {} /\ q = Echoed(p, Min(which), whole)
  <2>1. Min(which) \in 1..Len(p.submitted)
    <3>1. which \subseteq Nat
      BY <1>2
    <3>2. Min(which) \in which
      BY <1>5, <3>1, MinIsIn
    <3> QED BY <1>2, <3>2
  <2>2. Whole(q, A, O, L, L)
    BY <1>5, <2>1, EchoedIsWhole
  <2> QED BY <2>2 DEF q
<1> QED BY <1>3, <1>4, <1>5

LEMMA BlockStartedIsWhole ==
  ASSUME NEW p, NEW A, NEW O, NEW L, Whole(p, A, O, L, L)
  PROVE  Whole(block_started(p), A, O, L, L)
<1> DEFINE echo    == IF p.echo.text = <<>> THEN NoText ELSE p.echo.text
           taken   == [p EXCEPT !.echo = [prompt |-> <<>>, text |-> <<>>]]
           shut    == close(taken, NoExit)
           claimed == claim(shut, echo)
           typed   == IF echo # NoText THEN echo ELSE claimed.line
           q       == block_started(p)
<1>1. \/ q = taken
      \/ /\ p.open = NoCommand \/ p.submitted # <<>>
         /\ q = settle_running(IF claimed.minted /\ typed = NoText
                               THEN open_unshown(claimed.pump, claimed.id)
                               ELSE open(claimed.pump, claimed.id, typed))
  BY DEF block_started
<1> HIDE DEF q, echo
<1>2. Same(taken, p)
  BY OtherFields DEF Whole, Sound
<1> HIDE DEF taken
<1>3. Whole(taken, A, O, L, L) /\ taken.submitted = p.submitted /\ taken.open = p.open
  BY <1>2, SameIsWhole DEF Same
<1>4. /\ Whole(shut, A, O, L, L) /\ Published(shut, taken)
      /\ shut.open = NoCommand /\ shut.actor.active = NoCommand
  BY <1>3, ClosePublishes
<1> HIDE DEF shut
<1>5. CASE q = taken
  BY <1>3, <1>5 DEF q
<1>6. CASE /\ shut.submitted = <<>>
           /\ q = settle_running(IF claimed.minted /\ typed = NoText
                                 THEN open_unshown(claimed.pump, claimed.id)
                                 ELSE open(claimed.pump, claimed.id, typed))
  <2> DEFINE r == [shut EXCEPT !.nextId = @ + 1]
             n == shut.nextId
  <2>1. claimed.pump = r /\ claimed.id = n /\ claimed.minted
    BY <1>6 DEF claim
  <2> HIDE DEF claimed
  <2>2. CASE typed = NoText
    <3>1. q = unclaimed(shut)
      BY <1>6, <2>1, <2>2 DEF unclaimed
    <3>2. Whole(q, A, O, L, L)
      BY <1>4, <3>1, UnclaimedPublishes
    <3> QED BY <3>2 DEF q
  <2>3. CASE typed # NoText
    <3>1. DOMAIN shut = DOMAIN NewPump(<<>>) /\ shut.setup \in Seq(Tokens)
      BY <1>4 DEF Whole, Sound, Formed
    <3>2. HasMinted(r, shut)
      BY <3>1 DEF HasMinted, NewPump
    <3> HIDE DEF r
    <3>3. /\ n \in Nat \ {0} /\ shut.open < n /\ n \notin A \cup O \cup L
          /\ \A i \in 1..Len(shut.actor.begun) : shut.actor.begun[i] < n
          /\ \A j \in 1..Len(shut.submitted) : shut.submitted[j].id \in A \cup O
      BY <1>4 DEF Whole, Sound, Formed, Numbered
    <3>4. Sound(r, A, O, L, L)
      <4>1. Mints(n, A, O, L, L, A, O, L, L)
        BY <3>3 DEF Mints
      <4> QED BY <1>4, <3>2, <4>1, MintIsSound DEF Whole
    <3>5. Coming(r, n, A, O, L)
      <4>1. /\ r.nextId = n + 1 /\ r.unshown = shut.unshown /\ r.open = shut.open
            /\ r.submitted = shut.submitted /\ r.actor = shut.actor
        BY <3>2 DEF HasMinted
      <4>2. \A i \in 1..Len(r.actor.begun) : Precedes(r.actor.begun[i], n, A, O)
        <5>1. \A i \in 1..Len(r.actor.begun) : r.actor.begun[i] # n
          <6>1. \A i \in 1..Len(shut.actor.begun) : shut.actor.begun[i] \in Nat
            BY <1>4, BegunAreIds DEF Whole, Sound
          <6> QED BY <3>3, <4>1, <6>1
        <5> QED BY <3>3, <5>1 DEF Precedes
      <4>3. \A j \in 1..Len(r.submitted) : Precedes(n, r.submitted[j].id, A, O)
        BY <3>3, <4>1 DEF Precedes
      <4>4. \A l \in L : Precedes(n, l, A, O)
        BY <3>3 DEF Precedes
      <4>5. n < r.nextId /\ r.open # n /\ 0 < n
        <5>1. shut.open \in Nat
          BY <1>4 DEF Whole, Sound, Formed
        <5> QED BY <3>3, <4>1, <5>1
      <4> QED BY <3>3, <4>2, <4>3, <4>4, <4>5 DEF Coming
    <3>6. r.actor.active = NoCommand
      BY <1>4, <3>2 DEF HasMinted
    <3>7. q = settle_running(open(r, n, typed))
      BY <1>6, <2>1, <2>3
    <3> HIDE DEF n, typed
    <3>8. Whole(q, A, O, L, L)
      BY <3>4, <3>5, <3>6, <3>7, NextStarts
    <3> QED BY <3>8 DEF q
  <2> QED BY <2>2, <2>3
<1>7. CASE /\ shut.submitted # <<>>
           /\ q = settle_running(IF claimed.minted /\ typed = NoText
                                 THEN open_unshown(claimed.pump, claimed.id)
                                 ELSE open(claimed.pump, claimed.id, typed))
  <2> DEFINE named == {i \in DOMAIN shut.submitted : shut.submitted[i].line = echo}
             first == IF named = {} THEN 1 ELSE Min(named)
             r     == adopt(shut, first)
             id    == shut.submitted[first].id
             K     == L \cup GivenUp(shut, first)
  <2>1. shut.submitted \in Seq(Submission)
    BY <1>4 DEF Whole, Sound, Formed
  <2>2. first \in 1..Len(shut.submitted)
    <3>1. named \subseteq 1..Len(shut.submitted) /\ named \subseteq Nat
      BY <2>1
    <3>2. 1 \in 1..Len(shut.submitted)
      BY <1>7, <2>1
    <3> HIDE DEF named
    <3>3. named # {} => Min(named) \in named
      BY <3>1, MinIsIn
    <3> QED BY <3>1, <3>2, <3>3
  <2>3. claimed.pump = r /\ claimed.id = id /\ ~claimed.minted
    BY <1>7 DEF claim
  <2>4. q = settle_running(open(r, id, typed))
    BY <1>7, <2>3
  <2> HIDE DEF first, claimed, typed
  <2>5. /\ Whole(r, A, O, L, K) /\ Coming(r, id, A, O, L) /\ id \in A \cup O
        /\ \A a \in GivenUp(shut, first) : a \in A => a <= id
        /\ r.actor = shut.actor
    BY <1>4, <2>2, AdoptIsWhole
  <2> HIDE DEF r, id
  <2>6. \A a \in A : a \in K => a \in L \/ (id \in A \cup O /\ a <= id)
    BY <2>5
  <2> HIDE DEF K
  <2>7. Whole(q, A, O, L, L)
    BY <1>4, <2>4, <2>5, <2>6, NextStarts DEF Whole
  <2> QED BY <2>7 DEF q
<1> QED BY <1>1, <1>5, <1>6, <1>7

-----------------------------------------------------------------------------
(***************************************************************************)
(* Lines, and what else the pump hears.                                    *)
(***************************************************************************)
LEMMA PromptFinishedIsSame ==
  ASSUME NEW p, NEW now, Formed(p)
  PROVE  Same(prompt_finished(p, now), p)
<1> DEFINE q == prompt_finished(p, now)
           r == [p EXCEPT !.drawing = NoText]
           s == [r EXCEPT !.standing = p.drawing]
<1>1. Same(p, p) /\ Same(r, p)
  BY SameAsItself, OtherFields
<1>2. Formed(r)
  <2>1. DOMAIN p = DOMAIN NewPump(<<>>)
    BY DEF Formed
  <2> QED BY <2>1 DEF Formed, NewPump
<1> HIDE DEF r
<1>3. Same(s, r) /\ Formed(s)
  <2>1. DOMAIN r = DOMAIN NewPump(<<>>)
    BY <1>2 DEF Formed
  <2> QED BY <1>2, <2>1, OtherFields DEF Formed, NewPump
<1> HIDE DEF s
<1>4. Same(Tell(s, PromptDrawn(p.drawing)), s)
  <2>1. PromptDrawn(p.drawing).kind \in Quiet
    BY DEF PromptDrawn, Quiet
  <2> QED BY <1>3, <2>1, TellQuietly
<1>5. Same(Tell(s, PromptDrawn(p.drawing)), p)
  BY <1>1, <1>3, <1>4, SameIsTransitive
<1>6. q = p \/ q = r \/ q = Tell(s, PromptDrawn(p.drawing))
  BY DEF prompt_finished, r, s
<1> QED BY <1>1, <1>5, <1>6

LEMMA DrawnIsSame ==
  ASSUME NEW p, NEW now, NEW region, NEW text, NEW revision, Formed(p)
  PROVE  Same(drawn(p, now, region, text, revision), p)
<1> DEFINE more == IF revision = "Appended" /\ p.drawing # NoText
                   THEN p.drawing \o text ELSE text
           q == drawn(p, now, region, text, revision)
<1>1. q = p \/ q = prompt_finished(p, now) \/ q = [p EXCEPT !.drawing = more]
  BY DEF drawn
<1> HIDE DEF more, q
<1>2. Same(q, p)
  BY <1>1, SameAsItself, PromptFinishedIsSame, OtherFields
<1> QED BY <1>2 DEF q

Revisions == {"Appended", "Rewritten", "Settled"}

\* A row is recorded before anything is made of it.
RowHeard(p, now, region, id, text, revision) ==
    [drawn(p, now, region, text, revision) EXCEPT
        !.echo   = observe_echo(@, region, text, revision),
        !.cursor = IF revision = "Settled" THEN @ ELSE id,
        !.lines[id] = Recorded(@, text, revision)]

LEMMA RowHeardIsWhole ==
  ASSUME NEW p, NEW A, NEW O, NEW L, Whole(p, A, O, L, L),
         NEW now, NEW region, NEW id \in Rows, NEW text, NEW revision \in Revisions
  PROVE  LET q == RowHeard(p, now, region, id, text, revision)
         IN  Whole(q, A, O, L, L) /\ q.open = p.open /\ q.submitted = p.submitted
<1> DEFINE prior   == drawn(p, now, region, text, revision)
           row     == Recorded(prior.lines[id], text, revision)
           echo    == observe_echo(prior.echo, region, text, revision)
           cursor  == IF revision = "Settled" THEN prior.cursor ELSE id
           heard   == [prior EXCEPT !.echo = echo, !.cursor = cursor, !.lines[id] = row]
<1>1. Formed(p) /\ Same(p, p)
  BY SameAsItself DEF Whole, Sound
<1>2. Same(prior, p)
  BY <1>1, DrawnIsSame
<1>3. RowHeard(p, now, region, id, text, revision) = heard
  BY DEF RowHeard
<1> HIDE DEF prior
<1>4. Formed(prior)
  BY <1>2, SameIsWhole DEF Whole, Sound
<1>5. /\ DOMAIN row = DOMAIN UnseenRow
      /\ row.shown \in {prior.lines[id].shown, NoCommand}
  <2>1. DOMAIN prior.lines[id] = DOMAIN UnseenRow
    BY <1>4 DEF Formed
  <2> QED BY <2>1 DEF Recorded, Revisions, UnseenRow
<1> HIDE DEF row, echo, cursor
<1>6. Same(heard, prior)
  <2>1. DOMAIN prior = DOMAIN NewPump(<<>>) /\ DOMAIN prior.lines = Rows
    BY <1>4 DEF Formed
  <2>2. /\ DOMAIN heard = DOMAIN prior
        /\ heard.nextId = prior.nextId /\ heard.running = prior.running
        /\ heard.unshown = prior.unshown
        /\ heard.open = prior.open /\ heard.selfTalk = prior.selfTalk
        /\ heard.submitted = prior.submitted /\ heard.setup = prior.setup
        /\ heard.actor = prior.actor
        /\ heard.lines = [prior.lines EXCEPT ![id] = row]
    BY <2>1 DEF NewPump
  <2> HIDE DEF heard
  <2>3. SameLines(heard, prior)
    BY <1>4, <1>5, <2>1, <2>2 DEF SameLines, Formed
  <2>4. Same(heard, prior)
    BY <2>2, <2>3 DEF Same
  <2> QED BY <2>4 DEF heard
<1> HIDE DEF heard
<1>7. Same(heard, p)
  BY <1>2, <1>6, SameIsTransitive
<1>8. Whole(heard, A, O, L, L) /\ heard.open = p.open /\ heard.submitted = p.submitted
  BY <1>7, SameIsWhole DEF Same
<1> QED BY <1>3, <1>8

LEMMA LineIsWhole ==
  ASSUME NEW p, NEW A, NEW O, NEW L, Whole(p, A, O, L, L),
         NEW now, NEW region, NEW id \in Rows, NEW text, NEW revision \in Revisions
  PROVE  Whole(line(p, now, region, id, text, revision), A, O, L, L)
<1> DEFINE heard   == RowHeard(p, now, region, id, text, revision)
           news    == due(p.lines[id], text, revision)
           passed  == IF news = NoDue \/ ~wants(p, region) THEN heard
                      ELSE IF p.open # NoCommand /\ ~pending_echo(p, id)
                      THEN output(heard, id, news)
                      ELSE hold(heard, id, news)
           bounded == boundary(passed, region, id, text, revision)
           q       == line(p, now, region, id, text, revision)
<1>1. q = IF recoloured(p, id, text, revision) THEN recolour(p, id, text)
          ELSE IF bounded.submitted = <<>> THEN spill(bounded) ELSE bounded
  BY DEF line, RowHeard
<1>2. Formed(p) /\ Same(p, p)
  BY SameAsItself DEF Whole, Sound
<1>3. CASE recoloured(p, id, text, revision)
  <2>1. CASE q = p
    <3>1. Whole(q, A, O, L, L)
      BY <2>1
    <3> QED BY <3>1
  <2>2. CASE q # p
    <3> DEFINE again == [revision |-> "Rewritten", text |-> text, spoken |-> FALSE]
    <3>1. /\ q = Tell(p, Output(id, again))
          /\ p.open # NoCommand /\ p.lines[id].shown = p.open
      BY <1>1, <1>3, <2>2 DEF recolour
    <3>2. ~p.unshown
      BY <3>1 DEF Whole, Sound, Followed
    <3> HIDE DEF again, q
    <3>3. Same(q, p)
      BY <3>1, <3>2, TellOutput DEF Whole
    <3>4. Whole(q, A, O, L, L)
      BY <3>3, SameIsWhole
    <3> QED BY <3>4 DEF q
  <2> QED BY <2>1, <2>2
<1>4. CASE ~recoloured(p, id, text, revision)
  <2>1. Whole(heard, A, O, L, L) /\ heard.open = p.open
    BY RowHeardIsWhole
  <2> HIDE DEF heard, news
  <2>2. Whole(passed, A, O, L, L)
    <3>1. CASE passed = heard
      BY <2>1, <3>1
    <3>2. CASE p.open # NoCommand /\ passed = output(heard, id, news)
      BY <2>1, <3>2, OutputPublishes
    <3>3. CASE passed = hold(heard, id, news)
      BY <2>1, <3>3, HoldPublishes
    <3> QED BY <3>1, <3>2, <3>3
  <2> HIDE DEF passed
  <2>3. Whole(bounded, A, O, L, L)
    BY <2>2, BoundaryIsWhole
  <2> HIDE DEF bounded
  <2>4. Whole(spill(bounded), A, O, L, L)
    BY <2>3, SpillPublishes
  <2> QED BY <1>1, <1>4, <2>3, <2>4
<1> QED BY <1>3, <1>4

LEMMA HeardIsWhole ==
  ASSUME NEW p, NEW A, NEW O, NEW L, Whole(p, A, O, L, L), NEW now, NEW event \in Event
  PROVE  Whole(Heard(p, now, event), A, O, L, L)
<1> DEFINE announced == Tell([p EXCEPT !.integration = "Integrated"], Told("MarkersObserved"))
           blank     == [p EXCEPT !.standing = NoText]
           ended     == close(blank, event.exit)
           lined     == line(p, now, event.region, event.id, event.text, event.revision)
           q == CASE event.kind = "MarkersObserved" -> announced
                  [] event.kind = "BlockStarted" -> block_started(blank)
                  [] event.kind = "BlockEnded"   -> ended
                  [] event.kind = "Line"         -> lined
<1>1. \/ event.kind = "MarkersObserved" \/ event.kind = "BlockStarted"
      \/ event.kind = "BlockEnded"
      \/ event.kind = "Line" /\ event.id \in Rows /\ event.revision \in Revisions
  BY DEF Event, Revisions
<1>2. Heard(p, now, event) = prompt_finished(q, now)
  BY DEF Heard
<1>3. Whole(announced, A, O, L, L)
  <2> DEFINE r == [p EXCEPT !.integration = "Integrated"]
  <2>1. Same(r, p)
    BY OtherFields DEF Whole, Sound
  <2> HIDE DEF r
  <2>2. Whole(r, A, O, L, L)
    BY <2>1, SameIsWhole
  <2>3. Told("MarkersObserved").kind \in Quiet
    BY DEF Told, Quiet
  <2>4. Same(announced, r)
    BY <2>2, <2>3, TellQuietly DEF Whole, Sound, r
  <2> HIDE DEF announced
  <2> QED BY <2>2, <2>4, SameIsWhole
<1>4. Whole(blank, A, O, L, L)
  <2>1. Same(blank, p)
    BY OtherFields DEF Whole, Sound
  <2> QED BY <2>1, SameIsWhole
<1> HIDE DEF announced, blank
<1>5. Whole(q, A, O, L, L)
  <2>1. CASE event.kind = "MarkersObserved"
    <3>1. q = announced
      BY <2>1
    <3> QED BY <1>3, <3>1
  <2>2. CASE event.kind = "BlockStarted"
    <3>1. q = block_started(blank)
      BY <2>2
    <3> QED BY <1>4, <3>1, BlockStartedIsWhole
  <2>3. CASE event.kind = "BlockEnded"
    <3>1. q = ended
      BY <2>3
    <3> QED BY <1>4, <3>1, ClosePublishes
  <2>4. CASE event.kind = "Line" /\ event.id \in Rows /\ event.revision \in Revisions
    <3>1. q = lined
      BY <2>4
    <3>2. Whole(lined, A, O, L, L)
      BY <2>4, LineIsWhole
    <3> QED BY <3>1, <3>2
  <2> QED BY <1>1, <2>1, <2>2, <2>3, <2>4
<1> HIDE DEF q
<1>6. Same(prompt_finished(q, now), q)
  BY <1>5, PromptFinishedIsSame DEF Whole, Sound
<1> QED BY <1>2, <1>5, <1>6, SameIsWhole

-----------------------------------------------------------------------------
(***************************************************************************)
(* What the tracker makes of a read.  A fold is a function of the sets of  *)
(* positions that are left, which exists, and its values have the type of  *)
(* what is folded: each by the least position where they would not.        *)
(***************************************************************************)
LEMMA MarkerTypes ==
  ASSUME NEW so \in Conclusion, NEW marker \in Osc133Markers
  PROVE  observe_marker(so, marker) \in Conclusion
<1> DEFINE seen == [so EXCEPT !.announced = ~so.tracker.markersSeen,
                              !.tracker.markersSeen = TRUE]
           shut == end_open_block(seen)
<1>1. seen \in Conclusion
  BY DEF Conclusion, Tracker
<1> HIDE DEF seen
<1>2. shut \in Conclusion
  BY <1>1 DEF end_open_block, Conclusion, Tracker
<1> HIDE DEF shut
<1>3. seen.tracker.promptRow \in Rows \cup {NoRow}
  BY <1>1 DEF Conclusion, Tracker
<1>4. ASSUME NEW e \in Conclusion PROVE AtPrompt(e) \in Conclusion
  BY DEF AtPrompt, Conclusion, Tracker, Regions
<1>5. PromptStart(seen) \in Conclusion
  <2>1. PromptStart(seen) = AtPrompt(IF marks_output_start THEN shut ELSE seen)
    BY DEF PromptStart, shut
  <2> QED BY <1>1, <1>2, <1>4, <2>1
<1>6. CommandStart(seen) \in Conclusion
  <2>1. CommandStart(seen) = AtCommandLine(shut, seen.tracker.promptRow)
    BY DEF CommandStart, shut
  <2>2. ASSUME NEW row \in Rows \cup {NoRow}
        PROVE  AtCommandLine(shut, row) \in Conclusion
    BY <1>2 DEF AtCommandLine, Conclusion, Tracker, Regions
  <2> QED BY <1>3, <2>1, <2>2
<1>7. OutputStart(seen) \in Conclusion
  BY <1>1 DEF OutputStart, Conclusion, Tracker, Regions
<1>8. CommandEnd(seen) \in Conclusion
  <2>1. CommandEnd(seen) = IF seen.tracker.blockOpen
                           THEN [shut EXCEPT !.tracker.region = "Unstructured"] ELSE seen
    BY DEF CommandEnd, shut
  <2>2. [shut EXCEPT !.tracker.region = "Unstructured"] \in Conclusion
    BY <1>2 DEF Conclusion, Tracker, Regions
  <2> QED BY <1>1, <2>1, <2>2
<1>9. observe_marker(so, marker) =
         CASE marker = "PromptStart"  -> PromptStart(seen)
           [] marker = "CommandStart" -> CommandStart(seen)
           [] marker = "OutputStart"  -> OutputStart(seen)
           [] marker = "CommandEnd"   -> CommandEnd(seen)
  BY DEF observe_marker, seen
<1> QED BY <1>5, <1>6, <1>7, <1>8, <1>9 DEF Osc133Markers

LEMMA ObserveTypes ==
  ASSUME NEW t \in Tracker, NEW item \in Item
  PROVE  observe(t, item) \in Conclusion
<1>1. Concluded(t) \in Conclusion
  BY DEF Concluded, Conclusion
<1>2. ASSUME NEW so \in Conclusion PROVE end_command_line(so) \in Conclusion
  BY DEF end_command_line, Conclusion, Tracker, Regions
<1>3. CASE item.kind = "Line"
  <2>1. item.id \in Rows
    BY <1>3 DEF Item, Osc133Markers
  <2>2. [t EXCEPT !.promptRow = item.id] \in Tracker
        /\ [t EXCEPT !.commandLineRow = item.id] \in Tracker
    BY <2>1 DEF Tracker
  <2>3. \A u \in Tracker : Concluded(u) \in Conclusion
    BY DEF Concluded, Conclusion
  <2>4. observe_row(t, item.id) \in
           {Concluded([t EXCEPT !.promptRow = item.id]), Concluded(t),
            Concluded([t EXCEPT !.commandLineRow = item.id]), end_command_line(Concluded(t))}
    BY DEF observe_row
  <2>5. observe_row(t, item.id) \in Conclusion
    BY <1>1, <1>2, <2>2, <2>3, <2>4
  <2> QED BY <1>3, <2>5 DEF observe
<1>4. CASE item.kind # "Line"
  <2>1. item.kind \in Osc133Markers
    BY <1>4 DEF Item, Osc133Markers
  <2>2. observe_marker(end_command_line(Concluded(t)), item.kind) \in Conclusion
    BY <1>1, <1>2, <2>1, MarkerTypes
  <2> QED BY <1>4, <2>2 DEF observe
<1> QED BY <1>3, <1>4

LEMMA SaysTypes ==
  ASSUME NEW so \in Conclusion, NEW item \in Item
  PROVE  Says(so, item) \in Seq(Event)
<1>1. BlockEvent("MarkersObserved") \in Event /\ BlockEvent("BlockStarted") \in Event
  BY DEF BlockEvent, Event
<1> DEFINE end  == [kind |-> "BlockEnded",
                    exit |-> IF item.kind = "CommandEnd" THEN item.exit ELSE NoExit]
           told == LineEvent(so.tracker.region, item)
<1>2. end \in Event
  <2>1. item.kind = "CommandEnd" => item.exit \in Int
    BY DEF Item, Osc133Markers
  <2> QED BY <2>1 DEF Event, NoExit
<1>3. item.kind = "Line" => told \in Event
  <2>1. item.kind = "Line" => item \in [kind : {"Line"}, id : Rows, text : Seq(Tokens),
                                        revision : {"Appended", "Rewritten", "Settled"}]
    BY DEF Item, Osc133Markers
  <2>2. so.tracker.region \in Regions
    BY DEF Conclusion, Tracker
  <2> QED BY <2>1, <2>2 DEF LineEvent, Event
<1> HIDE DEF end, told
<1> DEFINE a == IF so.announced THEN <<BlockEvent("MarkersObserved")>> ELSE <<>>
           b == IF so.started = 1 THEN <<BlockEvent("BlockStarted")>> ELSE <<>>
           c == IF so.ended = 1 THEN <<end>> ELSE <<>>
           d == IF item.kind = "Line" THEN <<told>> ELSE <<>>
<1>4. a \in Seq(Event) /\ b \in Seq(Event) /\ c \in Seq(Event) /\ d \in Seq(Event)
  BY <1>1, <1>2, <1>3
<1>5. Says(so, item) = a \o b \o c \o d
  BY DEF Says, end, told
<1> HIDE DEF a, b, c, d
<1> QED BY <1>4, <1>5

Sees(seen, item) ==
    LET so == observe(seen.tracker, item)
    IN  [tracker |-> so.tracker, events |-> seen.events \o Says(so, item)]

Seen == [tracker : Tracker, events : Seq(Event)]

LEMMA SeesTypes ==
  ASSUME NEW seen \in Seen, NEW item \in Item
  PROVE  Sees(seen, item) \in Seen
<1> DEFINE so == observe(seen.tracker, item)
<1>1. so \in Conclusion
  BY ObserveTypes DEF Seen
<1> HIDE DEF so
<1>2. so.tracker \in Tracker
  BY <1>1 DEF Conclusion
<1>3. Says(so, item) \in Seq(Event) /\ seen.events \in Seq(Event)
  BY <1>1, SaysTypes DEF Seen
<1>4. seen.events \o Says(so, item) \in Seq(Event)
  BY <1>3
<1> QED BY <1>2, <1>4 DEF Sees, Seen, so

Folds(g, batch, base, n) ==
    g = [s \in SUBSET (1..n) |->
            IF s = {} THEN base ELSE Sees(g[s \ {Max(s)}], batch[Max(s)])]

LEMMA ObservedIsTheFold ==
  ASSUME NEW t, NEW batch, NEW n, DOMAIN batch = 1..n
  PROVE  LET base == [tracker |-> t, events |-> <<>>]
         IN  Observed(t, batch) = (CHOOSE g : Folds(g, batch, base, n))[1..n]
BY DEF Observed, FoldLeft, MapThenFoldSet, Folds, Sees

\* The greatest of the positions up to one.
LEMMA GreatestOf ==
  ASSUME NEW n \in Nat, NEW s \in SUBSET (1..n), s # {}
  PROVE  Max(s) \in s /\ \A i \in s : i <= Max(s)
<1> DEFINE T == {i \in Nat : n - i \in s}
<1>1. \A i \in s : i \in 1..n /\ n - i \in T
  OBVIOUS
<1>2. PICK m \in T : \A i \in T : m <= i
  BY <1>1, LeastOfNat
<1>3. n - m \in s /\ \A i \in s : n - m >= i
  BY <1>1, <1>2
<1> QED BY <1>3 DEF Max

LEMMA FoldExists ==
  ASSUME NEW batch, NEW base, NEW n \in Nat
  PROVE  \E g : Folds(g, batch, base, n)
<1> DEFINE Missing == {k \in Nat : ~ \E g : Folds(g, batch, base, k)}
<1>1. SUFFICES ASSUME Missing # {} PROVE FALSE
  OBVIOUS
<1>2. PICK k \in Missing : \A i \in Missing : k <= i
  BY <1>1, LeastOfNat
<1>3. CASE k = 0
  <2> DEFINE g == [s \in SUBSET (1..0) |-> base]
  <2>1. \A s \in SUBSET (1..0) : s = {}
    OBVIOUS
  <2>2. g = [s \in SUBSET (1..0) |->
               IF s = {} THEN base ELSE Sees(g[s \ {Max(s)}], batch[Max(s)])]
    BY <2>1
  <2>3. Folds(g, batch, base, 0)
    BY <2>2 DEF Folds
  <2> QED BY <1>2, <1>3, <2>3
<1>4. CASE k # 0
  <2> DEFINE j == k - 1
  <2>1. j \in Nat /\ k = j + 1 /\ j \notin Missing
    BY <1>2, <1>4
  <2>2. PICK g : Folds(g, batch, base, j)
    BY <2>1
  <2> DEFINE h == [s \in SUBSET (1..k) |->
                      IF k \in s THEN Sees(g[s \ {k}], batch[k]) ELSE g[s]]
  <2>3. \A s \in SUBSET (1..k) : k \in s => Max(s) = k /\ s \ {k} \in SUBSET (1..j)
    <3> SUFFICES ASSUME NEW s \in SUBSET (1..k), k \in s
                 PROVE  Max(s) = k /\ s \ {k} \in SUBSET (1..j)
      OBVIOUS
    <3>1. Max(s) \in s /\ \A i \in s : i <= Max(s)
      BY <1>2, GreatestOf
    <3>2. Max(s) \in 1..k /\ k <= Max(s)
      BY <3>1
    <3> QED BY <2>1, <3>2
  <2>4. \A s \in SUBSET (1..k) : k \notin s => s \in SUBSET (1..j)
    BY <2>1
  <2>5. \A s \in SUBSET (1..j) : h[s] = g[s]
    BY <2>1
  <2>6. \A s \in SUBSET (1..j) :
           g[s] = IF s = {} THEN base ELSE Sees(g[s \ {Max(s)}], batch[Max(s)])
    BY <2>2 DEF Folds
  <2>7. ASSUME NEW s \in SUBSET (1..k)
        PROVE  h[s] = IF s = {} THEN base ELSE Sees(h[s \ {Max(s)}], batch[Max(s)])
    <3>1. CASE k \in s
      <4>1. Max(s) = k /\ s \ {k} \in SUBSET (1..j) /\ s # {}
        BY <2>3, <3>1
      <4>2. h[s \ {k}] = g[s \ {k}]
        BY <2>5, <4>1
      <4>3. h[s] = Sees(g[s \ {k}], batch[k])
        BY <3>1
      <4> QED BY <4>1, <4>2, <4>3
    <3>2. CASE k \notin s
      <4>1. s \in SUBSET (1..j) /\ s \ {Max(s)} \in SUBSET (1..j)
        BY <2>4, <3>2
      <4>2. h[s] = g[s] /\ h[s \ {Max(s)}] = g[s \ {Max(s)}]
        BY <2>5, <4>1
      <4> QED BY <2>6, <4>1, <4>2
    <3> QED BY <3>1, <3>2
  <2>8. h = [s \in SUBSET (1..k) |->
               IF s = {} THEN base ELSE Sees(h[s \ {Max(s)}], batch[Max(s)])]
    <3>1. h = [s \in SUBSET (1..k) |-> h[s]]
      OBVIOUS
    <3> HIDE DEF h
    <3> QED BY <2>7, <3>1
  <2> HIDE DEF h
  <2>9. Folds(h, batch, base, k)
    BY <2>8 DEF Folds
  <2> QED BY <1>2, <2>9
<1> QED BY <1>3, <1>4

LEMMA ObservedTypes ==
  ASSUME NEW t \in Tracker, NEW batch \in Seq(Item)
  PROVE  Observed(t, batch) \in Seen
<1> DEFINE n    == Len(batch)
           base == [tracker |-> t, events |-> <<>>]
           g    == CHOOSE f : Folds(f, batch, base, n)
<1>1. n \in Nat /\ DOMAIN batch = 1..n /\ \A i \in 1..n : batch[i] \in Item
  OBVIOUS
<1>2. base \in Seen
  BY DEF Seen
<1> HIDE DEF base
<1>3. Folds(g, batch, base, n)
  BY <1>1, FoldExists
<1> HIDE DEF n, g
<1>4. \A s \in SUBSET (1..n) :
         g[s] = IF s = {} THEN base ELSE Sees(g[s \ {Max(s)}], batch[Max(s)])
  BY <1>3 DEF Folds
<1> DEFINE Bad == {k \in Nat : k <= n /\ g[1..k] \notin Seen}
<1>5. Bad = {}
  <2> SUFFICES ASSUME Bad # {} PROVE FALSE
    OBVIOUS
  <2>1. PICK k \in Bad : \A i \in Bad : k <= i
    BY LeastOfNat
  <2>2. CASE k = 0
    <3>1. 1..k = {} /\ 1..k \in SUBSET (1..n)
      BY <2>2
    <3>2. g[1..k] = base
      BY <1>4, <3>1
    <3> QED BY <1>2, <2>1, <3>2
  <2>3. CASE k # 0
    <3>1. k - 1 \in Nat /\ k - 1 <= n /\ k - 1 \notin Bad /\ k \in 1..n
      BY <1>1, <2>1, <2>3
    <3>2. g[1..(k - 1)] \in Seen
      BY <3>1
    <3>3. 1..k \in SUBSET (1..k) /\ 1..k # {} /\ k \in 1..k /\ 1..k \in SUBSET (1..n)
      <4>1. k \in 1..k /\ \A i \in 1..k : i \in 1..n
        BY <1>1, <2>1, <2>3
      <4> QED BY <4>1
    <3>4. Max(1..k) \in 1..k /\ k <= Max(1..k)
      BY <2>1, <3>3, GreatestOf
    <3>5. Max(1..k) = k /\ (1..k) \ {k} = 1..(k - 1)
      BY <2>1, <3>4
    <3>6. g[1..k] = Sees(g[1..(k - 1)], batch[k])
      BY <1>4, <3>3, <3>5
    <3> QED BY <1>1, <2>1, <3>1, <3>2, <3>6, SeesTypes
  <2> QED BY <2>2, <2>3
<1>6. g[1..n] \in Seen
  BY <1>1, <1>5
<1>7. Observed(t, batch) = g[1..n]
  BY <1>1, ObservedIsTheFold DEF base, g
<1> QED BY <1>6, <1>7

-----------------------------------------------------------------------------
(***************************************************************************)
(* What the pump does at its own pace.                                     *)
(***************************************************************************)
LEMMA SetUpIsWhole ==
  ASSUME NEW p, NEW A, NEW O, NEW L, Whole(p, A, O, L, L), NEW q, q = set_up(p)
  PROVE  Whole(q, A, O \cup {q.submitted[i].id :
                               i \in {j \in DOMAIN q.submitted : q.submitted[j].ours}}, L, L)
<1> DEFINE Owned(w) == {w[i].id : i \in {j \in DOMAIN w : w[j].ours}}
<1>1. p.submitted \in Seq(Submission) /\ DOMAIN p = DOMAIN NewPump(<<>>) /\ Formed(p)
  BY DEF Whole, Sound, Formed
<1>2. Owned(p.submitted) \subseteq O
  <2>1. \A i \in 1..Len(p.submitted) : p.submitted[i].ours => p.submitted[i].id \in O
    BY DEF Whole, Sound, Numbered
  <2> QED BY <1>1, <2>1
<1>3. CASE p.cursor = NoRow \/ p.setup = <<>>
  <2>1. q = p
    BY <1>3 DEF set_up
  <2>2. O \cup Owned(q.submitted) = O
    BY <1>2, <2>1
  <2> QED BY <2>1, <2>2
<1>4. CASE ~(p.cursor = NoRow \/ p.setup = <<>>)
  <2> DEFINE n == p.nextId
             on == TRUE
             O1 == O \cup {n}
             r == [p EXCEPT !.setup = <<>>, !.nextId = @ + 1]
             s == [r EXCEPT !.selfTalk = n]
             t == Tell(s, SelfTalk(on))
             last == [id |-> n, line |-> p.setup, ours |-> on]
  <2>1. q = submit_line(t, n, p.setup, on)
    <3>1. s = [p EXCEPT !.setup = <<>>, !.nextId = @ + 1, !.selfTalk = p.nextId]
      BY <1>1 DEF NewPump
    <3> QED BY <1>4, <3>1 DEF set_up
  <2>2. HasMinted(r, p) /\ r.nextId = n + 1
    BY <1>1 DEF HasMinted, NewPump
  <2> HIDE DEF r
  <2>3. /\ n \in Nat \ {0} /\ n \notin A \cup O \cup L
        /\ \A i \in 1..Len(p.actor.begun) : p.actor.begun[i] \in Nat /\ p.actor.begun[i] < n
        /\ \A a \in A \cup O \cup L : a \in Nat /\ a < n
        /\ \A j \in 1..Len(p.submitted) : p.submitted[j].id \in A \cup O
    BY <1>1, BegunAreIds DEF Whole, Sound, Formed, Numbered
  <2>4. Sound(r, A, O1, L, L)
    <3>1. Mints(n, A, O, L, L, A, O1, L, L)
      BY <2>3 DEF Mints
    <3> HIDE DEF O1
    <3> QED BY <2>2, <3>1, MintIsSound DEF Whole
  <2>5. /\ Sound(t, A, O1, L, L) /\ t.nextId = n + 1
        /\ t.submitted = p.submitted /\ t.actor.begun = p.actor.begun
    <3>1. n \in Nat /\ on \in BOOLEAN /\ (on <=> n # NoCommand)
      BY <2>3 DEF NoCommand
    <3> HIDE DEF n, O1, on, t
    <3>2. /\ Sound(t, A, O1, L, L) /\ t.nextId = r.nextId
          /\ t.submitted = r.submitted /\ t.actor.begun = r.actor.begun
      BY <2>4, <3>1, MuteIsSound DEF t
    <3> QED BY <2>2, <3>2 DEF HasMinted
  <2>6. Whole(q, A, O1, L, L) /\ q.submitted = Append(p.submitted, last)
    <3> HIDE DEF n, O1, t
    <3>1. \A i \in 1..Len(t.actor.begun) : Precedes(t.actor.begun[i], n, A, O1)
      <4>1. \A b \in Nat : b < n => b # n
        BY <2>3
      <4> QED BY <2>3, <2>5, <4>1 DEF Precedes
    <3>2. \A j \in 1..Len(t.submitted) : Precedes(t.submitted[j].id, n, A, O1)
      <4>1. \A a \in A \cup O : a # n /\ a < n
        BY <2>3
      <4> QED BY <2>3, <2>5, <4>1 DEF Precedes
    <3>3. \A l \in L : Precedes(n, l, A, O1)
      BY <2>3 DEF Precedes
    <3>4. p.setup \in Seq(Tokens) /\ p.setup # <<>>
      BY <1>1, <1>4 DEF Formed
    <3>5. CanWait(t, n, A, O1, L, L, L, L)
      <4>1. n \in A \cup O1
        BY DEF O1
      <4>2. n < t.nextId
        BY <2>3, <2>5
      <4> QED BY <3>1, <3>2, <3>3, <4>1, <4>2 DEF CanWait
    <3>6. on => n \in O1
      BY DEF O1
    <3>8. on \in BOOLEAN
      OBVIOUS
    <3> DEFINE typed == p.setup
    <3> HIDE DEF on, typed
    <3>7. /\ Whole(q, A, O1, L, L)
          /\ q.submitted = Append(t.submitted, [id |-> n, line |-> typed, ours |-> on])
      BY <2>1, <2>5, <3>4, <3>5, <3>6, <3>8, SubmitIsSound DEF typed
    <3> QED BY <2>5, <3>7 DEF typed
  <2>7. O \cup Owned(q.submitted) = O1
    <3> DEFINE w == p.submitted
               x == q.submitted
    <3>1. last.ours /\ last.id = n /\ last \in Submission
      BY <1>1, <2>3 DEF Submission, Formed
    <3> HIDE DEF last, n, on
    <3>2. /\ Len(w) \in Nat /\ DOMAIN x = 1..(Len(w) + 1) /\ DOMAIN w = 1..Len(w)
          /\ \A i \in 1..Len(w) : x[i] = w[i]
          /\ x[Len(w) + 1] = last
      BY <1>1, <2>6, <3>1
    <3> HIDE DEF w, x
    <3>3. \A i \in DOMAIN x : i \in DOMAIN w \/ i = Len(w) + 1
      BY <3>2
    <3>4. \A i \in DOMAIN x : x[i].ours => x[i].id \in O1
      BY <1>2, <3>1, <3>2, <3>3 DEF w
    <3>5. Len(w) + 1 \in DOMAIN x
      BY <3>2
    <3>6. n \in Owned(x)
      BY <3>1, <3>2, <3>5
    <3> QED BY <3>4, <3>6 DEF x
  <2> QED BY <2>6, <2>7
<1> QED BY <1>3, <1>4

LEMMA GraceIsWhole ==
  ASSUME NEW p, NEW A, NEW O, NEW L, Whole(p, A, O, L, L)
  PROVE  Whole(grace_expired(p), A, O, L, L)
<1> DEFINE settled == IF p.integration = "Pending" THEN "Unintegrated" ELSE p.integration
           r == [p EXCEPT !.integration = settled]
           told == Tell(r, Told("GracePeriodExpired"))
           off == FALSE
           t == IF p.selfTalk = NoCommand THEN told
                ELSE Tell([told EXCEPT !.selfTalk = NoCommand], SelfTalk(off))
<1>1. grace_expired(p) = settle_running(t)
  BY DEF grace_expired
<1> HIDE DEF settled
<1>2. Same(r, p)
  BY OtherFields DEF Whole, Sound
<1> HIDE DEF r
<1>3. Whole(r, A, O, L, L)
  BY <1>2, SameIsWhole
<1>4. Same(told, r)
  <2>1. Told("GracePeriodExpired").kind \in Quiet
    BY DEF Told, Quiet
  <2> QED BY <1>3, <2>1, TellQuietly DEF Whole, Sound
<1> HIDE DEF told
<1>5. Sound(told, A, O, L, L)
  BY <1>3, <1>4, SameIsWhole DEF Whole
<1>6. NoCommand \in Nat /\ off \in BOOLEAN /\ (off <=> NoCommand # NoCommand)
  BY DEF NoCommand
<1> HIDE DEF off
<1>7. Sound(t, A, O, L, L)
  BY <1>5, <1>6, MuteIsSound
<1> HIDE DEF t
<1>8. Whole(settle_running(t), A, O, L, L)
  BY <1>7, SettleIs DEF Whole
<1> QED BY <1>1, <1>8

-----------------------------------------------------------------------------
(***************************************************************************)
(* The invariant holds at first, and every step keeps it.                  *)
(***************************************************************************)
LEMMA InitHolds == Init => IInv
<1> SUFFICES ASSUME Init PROVE IInv
  OBVIOUS
<1> DEFINE p == pump
<1>1. tracker \in Tracker
  BY DEF Init, NewTracker, Tracker, Regions
<1>2. events \in Seq(Event) /\ asked \in Seq(Nat) /\ inbox \in Seq(Request)
  BY DEF Init
<1>3. Range(asked) = {} /\ Ids(inbox) = {} /\ own = {}
  BY DEF Init, Range, Ids
<1>4. MadeInTurn(inbox, Range(asked))
  BY <1>2 DEF Init, MadeInTurn
<1>5. /\ DOMAIN p = DOMAIN NewPump(<<>>)
      /\ p.nextId = 1 /\ p.running = NewFlag /\ p.unshown = FALSE
      /\ p.open = NoCommand /\ p.selfTalk = NoCommand
      /\ p.submitted = <<>> /\ p.setup = Setup
      /\ p.lines = [row \in Rows |-> UnseenRow] /\ p.actor = NewActor
  BY DEF Init, NewPump
<1> HIDE DEF p
<1>6. p.actor \in Actor /\ p.actor.begun = <<>>
  BY <1>5 DEF NewActor, Actor, NoCommand
<1>7. Formed(p)
  <2>1. \A row \in Rows : DOMAIN p.lines[row] = DOMAIN UnseenRow /\ p.lines[row].shown = 0
    BY <1>5 DEF UnseenRow, NoCommand
  <2>2. p.unshown \in BOOLEAN
    <3>1. p.unshown = FALSE
      BY <1>5
    <3> QED BY <3>1
  <2>3. p.running \in Flag
    <3>1. p.running = NewFlag
      BY <1>5
    <3> QED BY <3>1 DEF NewFlag, Flag
  <2>4. p.submitted \in Seq(Submission) /\ p.setup \in Seq(Tokens)
    BY <1>5, SetupAssumption
  <2> QED BY <1>5, <1>6, <2>1, <2>2, <2>3, <2>4 DEF Formed, NoCommand
<1>8. Followed(p)
  <2>1. ~p.actor.dropped /\ p.actor.active = NoCommand
    BY <1>5 DEF NewActor
  <2>2. p.actor.selfTalk = FALSE
    BY <1>5 DEF NewActor
  <2>3. p.actor.selfTalk = (p.selfTalk # NoCommand)
    BY <1>5, <2>2
  <2>4. \A row \in Rows : p.lines[row].shown < p.nextId
    BY <1>5 DEF UnseenRow, NoCommand
  <2> QED BY <1>5, <2>1, <2>3, <2>4 DEF Followed
<1>9. Numbered(p, {}, {}, {}) /\ InTurn(p, {}, {}, {}) /\ Accounted(p, {}, {}, {})
  <2>1. Len(p.submitted) = 0 /\ Len(p.actor.begun) = 0
    BY <1>5, <1>6
  <2> QED BY <1>5, <2>1 DEF Numbered, InTurn, Accounted, NoCommand
<1>10. ~IsRunning(p)
  BY <1>5 DEF IsRunning
<1>11. Whole(p, {}, {}, {}, {})
  BY <1>7, <1>8, <1>9, <1>10 DEF Whole, Sound
<1> QED BY <1>1, <1>2, <1>3, <1>4, <1>11 DEF IInv, p

LEMMA FreshIsWhole ==
  ASSUME NEW p, NEW A, NEW O, NEW L, NEW K, Whole(p, A, O, L, K)
  PROVE  /\ Whole(Fresh(p), A, O, L, K) /\ Same(Fresh(p), p)
         /\ Fresh(p).told = <<>>
<1>1. Same(Fresh(p), p)
  BY OtherFields DEF Whole, Sound, Fresh
<1>2. Fresh(p).told = <<>>
  <2>1. DOMAIN p = DOMAIN NewPump(<<>>)
    BY DEF Whole, Sound, Formed
  <2> QED BY <2>1 DEF Fresh, NewPump
<1> QED BY <1>1, <1>2, SameIsWhole

\* The requests on their way, when one is made and when one is taken.
LEMMA MadeAre ==
  ASSUME NEW q \in Seq(Request), NEW request \in Request
  PROVE  Ids(Append(q, request)) =
            Ids(q) \cup {r.id : r \in {s \in {request} : IsSubmit(s)}}
<1> DEFINE x == Append(q, request)
<1>1. /\ Len(q) \in Nat /\ Len(x) = Len(q) + 1 /\ x[Len(q) + 1] = request
      /\ \A i \in 1..Len(q) : i \in 1..Len(x) /\ x[i] = q[i]
  OBVIOUS
<1> HIDE DEF x
<1>2. \A i \in 1..Len(x) : i \in 1..Len(q) \/ i = Len(q) + 1
  BY <1>1
<1>3. Len(q) + 1 \in 1..Len(x)
  BY <1>1
<1>4. Ids(x) = Ids(q) \cup {r.id : r \in {s \in {request} : IsSubmit(s)}}
  BY <1>1, <1>2, <1>3 DEF Ids
<1> QED BY <1>4 DEF x

LEMMA TakenAre ==
  ASSUME NEW q, NEW A, MadeInTurn(q, A), q # <<>>
  PROVE  /\ MadeInTurn(Tail(q), A) /\ Head(q) \in Request
         /\ Ids(Tail(q)) \subseteq Ids(q)
         /\ ~IsSubmit(Head(q)) => Ids(Tail(q)) = Ids(q)
         /\ IsSubmit(Head(q)) =>
               /\ Head(q).id \in Ids(q)
               /\ Head(q).id \in A <=> Head(q).line # <<>>
               /\ \A l \in Ids(q) : l \in Ids(Tail(q)) \/ l = Head(q).id
               /\ \A l \in Ids(Tail(q)) : Head(q).id < l
<1> DEFINE x == Tail(q)
           n == Len(q)
<1>1. /\ q \in Seq(Request) /\ n \in Nat /\ n > 0 /\ Head(q) = q[1] /\ q[1] \in Request
      /\ x \in Seq(Request) /\ Len(x) = n - 1
      /\ \A i \in 1..Len(x) : i + 1 \in 1..n /\ x[i] = q[i + 1]
  BY DEF MadeInTurn
<1>2. /\ \A i, j \in 1..n : i < j /\ IsSubmit(q[i]) /\ IsSubmit(q[j]) => q[i].id < q[j].id
      /\ \A i \in 1..n : IsSubmit(q[i]) => (q[i].id \in A <=> q[i].line # <<>>)
  BY DEF MadeInTurn
<1>3. Ids(q) = {q[i].id : i \in {j \in 1..n : IsSubmit(q[j])}}
      /\ Ids(x) = {x[i].id : i \in {j \in 1..Len(x) : IsSubmit(x[j])}}
  BY DEF Ids
<1> HIDE DEF x, n
<1>4. MadeInTurn(x, A)
  <2>1. ASSUME NEW i \in 1..Len(x), NEW j \in 1..Len(x), i < j, IsSubmit(x[i]), IsSubmit(x[j])
        PROVE  x[i].id < x[j].id
    <3>1. /\ i + 1 \in 1..n /\ x[i] = q[i + 1] /\ j + 1 \in 1..n /\ x[j] = q[j + 1]
          /\ i + 1 < j + 1
      BY <1>1, <2>1
    <3> QED BY <1>2, <2>1, <3>1
  <2> QED BY <1>1, <1>2, <2>1 DEF MadeInTurn
<1>5. \A i \in 1..n : i = 1 \/ (i - 1 \in 1..Len(x) /\ x[i - 1] = q[i])
  BY <1>1
<1>6. Ids(x) \subseteq Ids(q)
  BY <1>1, <1>3
<1>7. \A l \in Ids(q) : l \in Ids(x) \/ (IsSubmit(q[1]) /\ l = q[1].id)
  BY <1>3, <1>5
<1>8. IsSubmit(q[1]) => q[1].id \in Ids(q) /\ (q[1].id \in A <=> q[1].line # <<>>)
  BY <1>1, <1>2, <1>3
<1>9. IsSubmit(q[1]) => \A l \in Ids(x) : q[1].id < l
  <2> SUFFICES ASSUME IsSubmit(q[1]), NEW i \in 1..Len(x), IsSubmit(x[i])
               PROVE  q[1].id < x[i].id
    BY <1>3
  <2>1. 1 \in 1..n /\ i + 1 \in 1..n /\ 1 < i + 1 /\ x[i] = q[i + 1]
    BY <1>1
  <2> QED BY <1>2, <2>1
<1> QED BY <1>1, <1>4, <1>6, <1>7, <1>8, <1>9 DEF x

LEMMA SubmitHolds ==
  ASSUME IInv, NEW typed \in Lines, Submit(typed)
  PROVE  IInv'
<1> DEFINE A  == Range(asked)
           L  == Ids(inbox)
           n  == pump.nextId
           p  == Fresh(pump)
           q  == [p EXCEPT !.nextId = @ + 1]
<1>1. Whole(p, A, own, L, L) /\ p.nextId = n
  BY FreshIsWhole DEF IInv, Same
<1>2. HasMinted(q, p) /\ StopFlag(q) = StopFlag(p) /\ IsRunning(q) = IsRunning(p)
  <2>1. DOMAIN p = DOMAIN NewPump(<<>>) /\ p.setup \in Seq(Tokens)
    BY <1>1 DEF Whole, Sound, Formed
  <2> HIDE DEF p
  <2> QED BY <2>1 DEF HasMinted, NewPump, IsRunning, StopFlag
<1>3. pump' = q
  BY DEF Submit
<1>4. /\ n \in Nat /\ \A a \in A \cup own \cup L : a \in Nat /\ a < n
  BY DEF IInv, Whole, Sound, Formed, Numbered
<1>5. n \notin A /\ n \notin own /\ n \notin L
  BY <1>4
<1> HIDE DEF p, q
<1>6. ASSUME NEW A2, NEW L2, Mints(n, A, own, L, L, A2, own, L2, L2)
      PROVE  Whole(q, A2, own, L2, L2)
  BY <1>1, <1>2, <1>6, MintIsSound DEF Whole
<1>7. typed \in Seq(Tokens) /\ inbox \in Seq(Request) /\ asked \in Seq(Nat)
  BY LinesAssumption DEF IInv, MadeInTurn
<1>8. CASE HasRoom
  <2> DEFINE request == SubmitRequest(n, typed)
             A2 == Range(asked')
             L2 == Ids(inbox')
  <2>1. /\ inbox' = Append(inbox, request)
        /\ asked' = IF typed = <<>> THEN asked ELSE Append(asked, n)
        /\ UNCHANGED <<tracker, events, own>>
    BY <1>8 DEF Submit
  <2>2. request \in Request /\ IsSubmit(request) /\ request.id = n /\ request.line = typed
    BY <1>4, <1>7 DEF SubmitRequest, Request, IsSubmit
  <2> HIDE DEF request
  <2>3. L2 = L \cup {n}
    <3>1. Ids(Append(inbox, request)) =
             Ids(inbox) \cup {r.id : r \in {s \in {request} : IsSubmit(s)}}
      BY <1>7, <2>2, MadeAre
    <3>2. {r.id : r \in {s \in {request} : IsSubmit(s)}} = {n}
      BY <2>2
    <3> QED BY <2>1, <3>1, <3>2
  <2>4. /\ asked' \in Seq(Nat)
        /\ typed = <<>> => A2 = A
        /\ typed # <<>> => A2 = A \cup {n}
    <3>1. CASE typed = <<>>
      BY <1>7, <2>1, <3>1
    <3>2. CASE typed # <<>>
      <4>1. asked' = Append(asked, n) /\ asked' \in Seq(Nat)
        BY <1>4, <1>7, <2>1, <3>2
      <4>2. /\ DOMAIN asked' = 1..(Len(asked) + 1) /\ DOMAIN asked = 1..Len(asked)
            /\ asked'[Len(asked) + 1] = n /\ Len(asked) \in Nat
            /\ \A i \in 1..Len(asked) : asked'[i] = asked[i]
        BY <1>4, <1>7, <4>1
      <4>3. \A i \in DOMAIN asked' : i \in DOMAIN asked \/ i = Len(asked) + 1
        BY <4>2
      <4>4. Len(asked) + 1 \in DOMAIN asked' /\ \A i \in DOMAIN asked : i \in DOMAIN asked'
        BY <4>2
      <4>5. A2 = A \cup {n}
        BY <4>2, <4>3, <4>4 DEF Range
      <4> QED BY <3>2, <4>1, <4>5
    <3> QED BY <3>1, <3>2
  <2> HIDE DEF A, A2, L, L2
  <2>5. Mints(n, A, own, L, L, A2, own, L2, L2)
    BY <1>5, <2>3, <2>4 DEF Mints
  <2>6. Whole(q, A2, own, L2, L2)
    BY <1>6, <2>5
  <2>7. MadeInTurn(inbox', A2)
    <3> DEFINE x == inbox'
               m == Len(inbox)
    <3>1. /\ x \in Seq(Request) /\ m \in Nat /\ Len(x) = m + 1 /\ x[m + 1] = request
          /\ \A i \in 1..m : i \in 1..Len(x) /\ x[i] = inbox[i] /\ inbox[i] \in Request
      BY <1>7, <2>1, <2>2
    <3>2. /\ \A i, j \in 1..m : i < j /\ IsSubmit(inbox[i]) /\ IsSubmit(inbox[j]) =>
                inbox[i].id < inbox[j].id
          /\ \A i \in 1..m : IsSubmit(inbox[i]) =>
                (inbox[i].id \in A <=> inbox[i].line # <<>>)
          /\ \A i \in 1..m : IsSubmit(inbox[i]) => inbox[i].id \in L
      BY DEF IInv, MadeInTurn, A, L, Ids
    <3> HIDE DEF x, m
    <3>3. \A i \in 1..Len(x) : i \in 1..m \/ i = m + 1
      BY <3>1
    <3>4. \A i \in 1..m : IsSubmit(inbox[i]) => inbox[i].id < n /\ inbox[i].id # n
      BY <1>4, <3>2
    <3>5. ASSUME NEW i \in 1..Len(x), NEW j \in 1..Len(x), i < j, IsSubmit(x[i]), IsSubmit(x[j])
          PROVE  x[i].id < x[j].id
      <4>1. i \in 1..m /\ x[i] = inbox[i]
        BY <3>1, <3>3, <3>5
      <4>2. CASE j \in 1..m
        BY <3>1, <3>2, <3>5, <4>1, <4>2
      <4>3. CASE j = m + 1
        BY <2>2, <3>1, <3>4, <3>5, <4>1, <4>3
      <4> QED BY <3>3, <4>2, <4>3
    <3>6. ASSUME NEW i \in 1..Len(x), IsSubmit(x[i])
          PROVE  x[i].id \in A2 <=> x[i].line # <<>>
      <4>1. CASE i \in 1..m
        BY <2>4, <3>1, <3>2, <3>4, <3>6, <4>1
      <4>2. CASE i = m + 1
        BY <1>5, <2>2, <2>4, <3>1, <4>2 DEF A
      <4> QED BY <3>3, <4>1, <4>2
    <3>7. MadeInTurn(x, A2)
      BY <3>1, <3>5, <3>6 DEF MadeInTurn
    <3> QED BY <3>7 DEF x
  <2> QED BY <1>3, <2>1, <2>4, <2>6, <2>7 DEF IInv, A2, L2
<1>9. CASE ~HasRoom
  <2>1. UNCHANGED <<inbox, asked, tracker, events, own>>
    BY <1>9 DEF Submit
  <2>2. Mints(n, A, own, L, L, A, own, L, L)
    BY <1>5 DEF Mints
  <2>3. Whole(q, A, own, L, L)
    BY <1>6, <2>2
  <2> QED BY <1>3, <2>1, <2>3 DEF IInv
<1> QED BY <1>8, <1>9

LEMMA StoreHolds == ASSUME IInv, Store PROVE IInv'
<1> DEFINE p == Fresh(pump)
           q == [p EXCEPT !.running.now = TRUE]
           A == Range(asked)
           L == Ids(inbox)
<1>1. Whole(p, A, own, L, L)
  BY FreshIsWhole DEF IInv
<1> HIDE DEF p
<1>2. DOMAIN p = DOMAIN NewPump(<<>>)
  BY <1>1 DEF Whole, Sound, Formed
<1>3. /\ DOMAIN q = DOMAIN p
      /\ q.nextId = p.nextId /\ q.unshown = p.unshown
      /\ q.open = p.open /\ q.selfTalk = p.selfTalk
      /\ q.submitted = p.submitted /\ q.setup = p.setup /\ q.lines = p.lines
      /\ q.actor = p.actor
  BY <1>2 DEF NewPump
<1>4. q.running = [p.running EXCEPT !.now = TRUE]
  BY <1>2 DEF NewPump
<1> HIDE DEF q
<1>5. /\ q.running \in Flag
      /\ q.running.now = TRUE /\ q.running.stores = p.running.stores
  BY <1>1, <1>4 DEF Whole, Sound, Formed, Flag
<1>10. IsRunning(q) => StopFlag(q)
  BY <1>1, <1>3, <1>5 DEF Whole, IsRunning, StopFlag
<1>6. Formed(q)
  BY <1>1, <1>3, <1>5 DEF Whole, Sound, Formed
<1>7. Followed(q) /\ Numbered(q, A, own, L) /\ InTurn(q, A, own, L) /\ Accounted(q, A, own, L)
  BY <1>1, <1>3 DEF Whole, Sound, Followed, Numbered, InTurn, Accounted
<1>8. Whole(q, A, own, L, L)
  BY <1>6, <1>7, <1>10 DEF Whole, Sound
<1>9. pump' = q /\ UNCHANGED <<tracker, inbox, events, asked, own>>
  BY DEF Store, p, q
<1> QED BY <1>8, <1>9 DEF IInv

LEMMA TailIs ==
  ASSUME NEW S, NEW s \in Seq(S), s # <<>>
  PROVE  /\ Head(s) \in S /\ Tail(s) \in Seq(S) /\ Head(s) = s[1]
         /\ Tail(s) = <<>> => Head(s) = s[Len(s)]
         /\ Tail(s) # <<>> => Tail(s)[Len(Tail(s))] = s[Len(s)]
<1>1. Len(s) \in Nat \ {0} /\ Tail(s) \in Seq(S) /\ Len(Tail(s)) = Len(s) - 1
      /\ \A i \in 1..Len(Tail(s)) : Tail(s)[i] = s[i + 1]
  OBVIOUS
<1>2. Tail(s) = <<>> => Len(s) = 1
  <2>1. Tail(s) = <<>> => Len(Tail(s)) = Len(<<>>)
    BY Zenon
  <2>2. Len(<<>>) = 0
    OBVIOUS
  <2> QED BY <1>1, <2>1, <2>2
<1>3. Tail(s) # <<>> => Len(Tail(s)) \in 1..Len(Tail(s))
  BY <1>1
<1> QED BY <1>1, <1>2, <1>3

\* A store that is made is the flag's value; the last one is what it comes to.
LEMMA SettleRunningHolds == ASSUME IInv, SettleRunning PROVE IInv'
<1> DEFINE p == Fresh(pump)
           q == [p EXCEPT !.running = [now |-> Head(@.stores), stores |-> Tail(@.stores)]]
           A == Range(asked)
           L == Ids(inbox)
<1>1. Whole(p, A, own, L, L) /\ p.running = pump.running
  BY FreshIsWhole DEF IInv, Same
<1> HIDE DEF p
<1>2. DOMAIN p = DOMAIN NewPump(<<>>)
  BY <1>1 DEF Whole, Sound, Formed
<1>3. /\ DOMAIN q = DOMAIN p
      /\ q.nextId = p.nextId /\ q.unshown = p.unshown
      /\ q.open = p.open /\ q.selfTalk = p.selfTalk
      /\ q.submitted = p.submitted /\ q.setup = p.setup /\ q.lines = p.lines
      /\ q.actor = p.actor
  BY <1>2 DEF NewPump
<1>4. q.running = [now |-> Head(p.running.stores), stores |-> Tail(p.running.stores)]
  BY <1>2 DEF NewPump
<1> HIDE DEF q
<1>5. q.running \in Flag /\ StopFlag(q) = StopFlag(p)
  <2> DEFINE s == p.running.stores
  <2>1. s \in Seq(BOOLEAN) /\ s # <<>>
    BY <1>1 DEF Whole, Sound, Formed, Flag, SettleRunning, AtRest
  <2>2. q.running.now = Head(s) /\ q.running.stores = Tail(s)
    BY <1>4
  <2> DEFINE bools == BOOLEAN
  <2>3. /\ Head(s) \in bools /\ Tail(s) \in Seq(bools)
        /\ Tail(s) = <<>> => Head(s) = s[Len(s)]
        /\ Tail(s) # <<>> => Tail(s)[Len(Tail(s))] = s[Len(s)]
    <3> HIDE DEF s
    <3>1. s \in Seq(bools) /\ s # <<>>
      BY <2>1
    <3> HIDE DEF bools
    <3> QED BY <3>1, TailIs
  <2>4. StopFlag(p) = s[Len(s)]
    BY <2>1, Zenon DEF StopFlag
  <2>5. q.running \in Flag
    BY <1>4, <2>3 DEF Flag
  <2>8. StopFlag(q) = IF Tail(s) = <<>> THEN Head(s) ELSE Tail(s)[Len(Tail(s))]
    BY <2>2, Zenon DEF StopFlag
  <2> HIDE DEF s
  <2>6. CASE Tail(s) = <<>>
    BY <2>3, <2>4, <2>5, <2>6, <2>8, Zenon
  <2>7. CASE Tail(s) # <<>>
    BY <2>3, <2>4, <2>5, <2>7, <2>8, Zenon
  <2> QED BY <2>5, <2>6, <2>7
<1>6. Formed(q)
  BY <1>1, <1>3, <1>5 DEF Whole, Sound, Formed
<1>7. Followed(q) /\ Numbered(q, A, own, L) /\ InTurn(q, A, own, L) /\ Accounted(q, A, own, L)
  BY <1>1, <1>3 DEF Whole, Sound, Followed, Numbered, InTurn, Accounted
<1>8. Whole(q, A, own, L, L)
  <2>1. IsRunning(q) = IsRunning(p)
    BY <1>3 DEF IsRunning
  <2> QED BY <1>1, <1>5, <1>6, <1>7, <2>1 DEF Whole, Sound
<1>9. pump' = q /\ UNCHANGED <<tracker, inbox, events, asked, own>>
  BY DEF SettleRunning, p, q
<1> QED BY <1>8, <1>9 DEF IInv

LEMMA SendInterruptHolds == ASSUME IInv, SendInterrupt PROVE IInv'
<1> DEFINE A == Range(asked)
           L == Ids(inbox)
<1>1. Whole(pump', A, own, L, L)
  BY FreshIsWhole DEF IInv, SendInterrupt
<1>2. UNCHANGED <<tracker, events, asked, own>>
  BY DEF SendInterrupt
<1>3. CASE inbox' = inbox
  BY <1>1, <1>2, <1>3 DEF IInv
<1>4. CASE inbox' = Append(inbox, InterruptRequest)
  <2> DEFINE x == inbox'
             m == Len(inbox)
             request == InterruptRequest
  <2>1. inbox \in Seq(Request)
    BY DEF IInv, MadeInTurn
  <2>2. request \in Request /\ ~IsSubmit(request)
    BY DEF InterruptRequest, Request, IsSubmit
  <2> HIDE DEF request
  <2>3. /\ x \in Seq(Request) /\ m \in Nat /\ Len(x) = m + 1 /\ x[m + 1] = request
        /\ \A i \in 1..m : x[i] = inbox[i]
    BY <1>4, <2>1, <2>2 DEF request
  <2>4. Ids(x) = L
    <3>1. Ids(Append(inbox, request)) =
             Ids(inbox) \cup {r.id : r \in {s \in {request} : IsSubmit(s)}}
      BY <2>1, <2>2, MadeAre
    <3>2. {r.id : r \in {s \in {request} : IsSubmit(s)}} = {}
      BY <2>2
    <3> QED BY <1>4, <3>1, <3>2 DEF request
  <2> HIDE DEF x, m
  <2>5. \A i \in 1..Len(x) : IsSubmit(x[i]) => i \in 1..m
    BY <2>2, <2>3
  <2>6. MadeInTurn(x, A)
    <3>1. /\ \A i, j \in 1..m : i < j /\ IsSubmit(inbox[i]) /\ IsSubmit(inbox[j]) =>
                inbox[i].id < inbox[j].id
          /\ \A i \in 1..m : IsSubmit(inbox[i]) =>
                (inbox[i].id \in A <=> inbox[i].line # <<>>)
      BY DEF IInv, MadeInTurn, m
    <3> QED BY <2>3, <2>5, <3>1 DEF MadeInTurn
  <2> QED BY <1>1, <1>2, <2>4, <2>6 DEF IInv, x
<1> QED BY <1>3, <1>4 DEF SendInterrupt

LEMMA ReceiveHolds ==
  ASSUME IInv, NEW batch \in BoundedSeq(Items, BatchSize), Receive(batch)
  PROVE  IInv'
<1> DEFINE A == Range(asked)
           L == Ids(inbox)
           p == Fresh(pump)
<1>1. batch \in Seq(Item)
  <2>1. PICK n \in 0..BatchSize : batch \in [1..n -> Items]
    BY DEF BoundedSeq, SeqOf
  <2> QED BY <2>1, ItemsAssumption
<1>2. tracker' \in Tracker /\ events' \in Seq(Event)
  <2>1. Observed(tracker, batch) \in Seen
    BY <1>1, ObservedTypes DEF IInv
  <2> QED BY <2>1 DEF Receive, Seen
<1>3. Whole(p, A, own, L, L)
  BY FreshIsWhole DEF IInv
<1> HIDE DEF p
<1>4. Whole(Tell(p, Told("Connected")), A, own, L, L)
  <2>1. Told("Connected").kind \in Quiet
    BY DEF Told, Quiet
  <2>2. Same(Tell(p, Told("Connected")), p)
    BY <1>3, <2>1, TellQuietly DEF Whole, Sound
  <2> QED BY <1>3, <2>2, SameIsWhole
<1>5. pump' = p \/ pump' = Tell(p, Told("Connected"))
  BY DEF Receive, p
<1>6. UNCHANGED <<inbox, asked, own>>
  BY DEF Receive
<1> QED BY <1>2, <1>3, <1>4, <1>5, <1>6 DEF IInv

LEMMA HearHolds == ASSUME IInv, Hear PROVE IInv'
<1> DEFINE A == Range(asked)
           L == Ids(inbox)
           p == Fresh(pump)
<1>1. Whole(p, A, own, L, L)
  BY FreshIsWhole DEF IInv
<1> HIDE DEF p
<1>2. Head(events) \in Event /\ Tail(events) \in Seq(Event)
  BY DEF IInv, Hear
<1>3. Whole(Heard(p, tracker.region, Head(events)), A, own, L, L)
  BY <1>1, <1>2, HeardIsWhole
<1> QED BY <1>2, <1>3 DEF IInv, Hear, p

LEMMA FinishReadHolds == ASSUME IInv, FinishRead PROVE IInv'
<1> DEFINE A == Range(asked)
           L == Ids(inbox)
           p == Fresh(pump)
           r == prompt_finished(p, tracker.region)
           q == set_up(r)
<1>1. Whole(p, A, own, L, L)
  BY FreshIsWhole DEF IInv
<1> HIDE DEF p
<1>2. Same(r, p)
  BY <1>1, PromptFinishedIsSame DEF Whole, Sound
<1> HIDE DEF r
<1>3. Whole(r, A, own, L, L)
  BY <1>1, <1>2, SameIsWhole
<1> HIDE DEF q
<1>4. Whole(q, A, own \cup {q.submitted[i].id :
                              i \in {j \in DOMAIN q.submitted : q.submitted[j].ours}}, L, L)
  BY <1>3, SetUpIsWhole DEF q
<1>5. pump' = q
  BY DEF FinishRead, q, r, p
<1>6. own' = own \cup {pump'.submitted[i].id :
                         i \in {j \in DOMAIN pump'.submitted : pump'.submitted[j].ours}}
      /\ UNCHANGED <<tracker, inbox, events, asked>>
  BY DEF FinishRead
<1>7. Whole(pump', A, own', L, L)
  BY <1>4, <1>5, <1>6
<1> QED BY <1>6, <1>7 DEF IInv

LEMMA TakeRequestHolds == ASSUME IInv, TakeRequest PROVE IInv'
<1> DEFINE A  == Range(asked)
           L  == Ids(inbox)
           L2 == Ids(Tail(inbox))
           p  == Fresh(pump)
           request == Head(inbox)
<1>1. Whole(p, A, own, L, L)
  BY FreshIsWhole DEF IInv
<1>2. inbox # <<>> /\ MadeInTurn(inbox, A)
  BY DEF IInv, TakeRequest
<1>3. /\ MadeInTurn(Tail(inbox), A) /\ request \in Request
      /\ L2 \subseteq L
      /\ ~IsSubmit(request) => L2 = L
      /\ IsSubmit(request) =>
            /\ request.id \in L
            /\ request.id \in A <=> request.line # <<>>
            /\ \A l \in L : l \in L2 \/ l = request.id
            /\ \A l \in L2 : request.id < l
  BY <1>2, TakenAre
<1>4. /\ pump' = IF IsSubmit(request)
                 THEN submit_line(p, request.id, request.line, FALSE)
                 ELSE interrupt(p)
      /\ inbox' = Tail(inbox) /\ UNCHANGED <<tracker, events, asked, own>>
  BY DEF TakeRequest, IsSubmit
<1> HIDE DEF p, request, L, L2, A
<1>5. Whole(pump', A, own, L2, L2)
  <2>1. CASE ~IsSubmit(request)
    <3>1. Same(interrupt(p), p)
      BY <1>1, OtherFields DEF Whole, Sound, interrupt
    <3> QED BY <1>1, <1>3, <1>4, <2>1, <3>1, SameIsWhole
  <2>2. CASE IsSubmit(request) /\ request.line = <<>>
    <3>1. pump' = settle_running(p)
      BY <1>4, <2>2 DEF submit_line
    <3>2. \A a \in A : a \in L => a \in L2
      BY <1>3, <2>2
    <3>3. Sound(p, A, own, L2, L2)
      BY <1>1, <1>3, <3>2, LessOnItsWay DEF Whole
    <3> QED BY <3>1, <3>3, SettleIs DEF Whole
  <2>3. CASE IsSubmit(request) /\ request.line # <<>>
    <3> DEFINE id    == request.id
               typed == request.line
               ours  == FALSE
    <3>1. typed \in Seq(Tokens) /\ id \in Nat
      BY <1>3, <2>3 DEF Request, IsSubmit
    <3>2. id \in A /\ id \in L
      BY <1>3, <2>3
    <3>3. /\ id < p.nextId
          /\ \A a \in A \cup own \cup L : a \in Nat
          /\ \A i \in 1..Len(p.actor.begun) : Precedes(p.actor.begun[i], id, A, own)
          /\ \A j \in 1..Len(p.submitted) : Precedes(p.submitted[j].id, id, A, own)
      BY <1>1, <3>2 DEF Whole, Sound, Numbered, InTurn
    <3>4. \A l \in L2 : Precedes(id, l, A, own)
      BY <1>3, <2>3, <3>1, <3>3 DEF Precedes
    <3>5. \A a \in A : a \in L => a \in L2 \/ a = id
      BY <1>3, <2>3
    <3>6. CanWait(p, id, A, own, L, L, L2, L2)
      BY <1>3, <3>2, <3>3, <3>4, <3>5 DEF CanWait
    <3>7. pump' = submit_line(p, id, typed, ours)
      BY <1>4, <2>3
    <3>8. ours \in BOOLEAN /\ (ours => id \in own) /\ typed # <<>>
      BY <2>3
    <3> HIDE DEF id, typed, ours
    <3>9. Whole(submit_line(p, id, typed, ours), A, own, L2, L2)
      BY <1>1, <3>1, <3>6, <3>8, SubmitIsSound DEF Whole
    <3> QED BY <3>7, <3>9
  <2> QED BY <2>1, <2>2, <2>3
<1> QED BY <1>3, <1>4, <1>5 DEF IInv, A, L2

LEMMA NextHolds == IInv /\ [Next]_vars => IInv'
<1> SUFFICES ASSUME IInv, [Next]_vars PROVE IInv'
  OBVIOUS
<1> DEFINE A == Range(asked)
           L == Ids(inbox)
           p == Fresh(pump)
<1>0. Whole(p, A, own, L, L)
  BY FreshIsWhole DEF IInv
<1>1. ASSUME NEW typed \in Lines, Submit(typed) PROVE IInv'
  BY <1>1, SubmitHolds
<1>2. CASE Store
  BY <1>2, StoreHolds
<1>3. CASE Press
  BY <1>0, <1>3 DEF Press, IInv
<1>4. CASE SendInterrupt
  BY <1>4, SendInterruptHolds
<1>5. ASSUME NEW batch \in BoundedSeq(Items, BatchSize), Receive(batch) PROVE IInv'
  BY <1>5, ReceiveHolds
<1>6. CASE Hear
  BY <1>6, HearHolds
<1>7. CASE FinishRead
  BY <1>7, FinishReadHolds
<1>8. CASE TakeRequest
  BY <1>8, TakeRequestHolds
<1>9. CASE GraceExpires
  <2>1. Whole(grace_expired(p), A, own, L, L)
    BY <1>0, GraceIsWhole
  <2>2. pump' = grace_expired(p) /\ UNCHANGED <<tracker, inbox, events, asked, own>>
    BY <1>9 DEF GraceExpires
  <2> QED BY <2>1, <2>2 DEF IInv
<1>10. CASE Disconnect
  <2> DEFINE q == [p EXCEPT !.held = NoHeld]
  <2>1. Told("Disconnected").kind \in Quiet
    BY DEF Told, Quiet
  <2>5. Formed(p)
    BY <1>0 DEF Whole, Sound
  <2>6. Same(q, p)
    BY <2>5, OtherFields
  <2>7. Whole(q, A, own, L, L)
    BY <1>0, <2>6, SameIsWhole
  <2> HIDE DEF q
  <2>2. Same(Tell(q, Told("Disconnected")), q)
    BY <2>1, <2>7, TellQuietly DEF Whole, Sound
  <2>3. Whole(Tell(q, Told("Disconnected")), A, own, L, L)
    BY <2>2, <2>7, SameIsWhole
  <2>4. pump' = Tell(q, Told("Disconnected"))
        /\ UNCHANGED <<tracker, inbox, events, asked, own>>
    BY <1>10 DEF Disconnect, q
  <2> QED BY <2>3, <2>4 DEF IInv
<1>12. CASE SettleRunning
  BY <1>12, SettleRunningHolds
<1>11. CASE UNCHANGED vars
  BY <1>11 DEF vars, IInv
<1> QED BY <1>1, <1>2, <1>3, <1>4, <1>5, <1>6, <1>7, <1>8, <1>9, <1>10, <1>11,
          <1>12 DEF Next

\* The invariant is one: it holds at first, and every step keeps it.
THEOREM InvariantHolds == Spec => []IInv
<1>1. IInv /\ [Next]_vars => IInv'
  BY NextHolds
<1> QED BY <1>1, InitHolds, PTL DEF Spec

\* The pump never tells the actor what it would drop, and the two never
\* disagree about the command that is running or about self-talk.
THEOREM TheActorFollows == Spec => []ActorFollowsThePump
<1>1. IInv => ActorFollowsThePump
  BY DEF IInv, Whole, Sound, Followed, ActorFollowsThePump
<1> QED BY <1>1, InvariantHolds, PTL

\* A command starts at most once, and the user's commands start in the order
\* they were submitted, for every shell, echo and interleaving of the calls.
THEOREM CommandsStartInTurn == Spec => []CommandsStartInOrder
<1>1. IInv => CommandsStartInOrder
  <2> SUFFICES ASSUME IInv PROVE CommandsStartInOrder
    OBVIOUS
  <2> DEFINE b == pump.actor.begun
             A == Range(asked)
  <2>1. DOMAIN b = 1..Len(b)
    BY BegunAreIds DEF IInv, Whole, Sound
  <2>2. \A i, j \in 1..Len(b) : i < j => Precedes(b[i], b[j], A, own)
    BY DEF IInv, Whole, Sound, InTurn
  <2>3. Len(b) \in Nat
    BY BegunAreIds DEF IInv, Whole, Sound
  <2> HIDE DEF b, A
  <2>4. ASSUME NEW i \in 1..Len(b), NEW j \in 1..Len(b)
        PROVE  /\ b[i] = b[j] => i = j
               /\ {b[i], b[j]} \subseteq A /\ i < j => b[i] < b[j]
    <3>1. i < j \/ j < i \/ i = j
      BY <2>3
    <3>2. i < j => b[i] # b[j]
      BY <2>2 DEF Precedes
    <3>3. j < i => b[i] # b[j]
      BY <2>2 DEF Precedes
    <3>4. {b[i], b[j]} \subseteq A /\ i < j => b[i] < b[j]
      BY <2>2 DEF Precedes
    <3> QED BY <3>1, <3>2, <3>3, <3>4
  <2> QED BY <2>1, <2>4 DEF CommandsStartInOrder, b, A
<1> QED BY <1>1, InvariantHolds, PTL

\* An accepted line is on its way or waits, is the one that runs, or it or a
\* later one has started.
THEOREM LinesAreAccountedFor == Spec => []NoLineVanishes
<1>1. IInv => NoLineVanishes
  <2> SUFFICES ASSUME IInv, NEW k \in DOMAIN asked
               PROVE  \/ asked[k] \in Stoppable
                      \/ \E i \in DOMAIN pump.actor.begun :
                            /\ pump.actor.begun[i] \in Range(asked) \cup own
                            /\ pump.actor.begun[i] >= asked[k]
    BY DEF NoLineVanishes
  <2>1. asked[k] \in Range(asked)
    BY DEF Range
  <2>2. DOMAIN pump.actor.begun = 1..Len(pump.actor.begun)
    BY BegunAreIds DEF IInv, Whole, Sound
  <2>3. DOMAIN inbox = 1..Len(inbox) /\ DOMAIN pump.submitted = 1..Len(pump.submitted)
    BY DEF IInv, MadeInTurn, Whole, Sound, Formed
  <2>4. \/ asked[k] \in Ids(inbox)
        \/ \E i \in 1..Len(pump.submitted) : pump.submitted[i].id = asked[k]
        \/ \E i \in 1..Len(pump.actor.begun) :
              pump.actor.begun[i] \in Range(asked) \cup own /\ pump.actor.begun[i] >= asked[k]
    BY <2>1 DEF IInv, Whole, Sound, Accounted
  <2>5. CASE asked[k] \in Ids(inbox)
    BY <2>3, <2>5 DEF Ids, IsSubmit, Stoppable
  <2>6. CASE \E i \in 1..Len(pump.submitted) : pump.submitted[i].id = asked[k]
    BY <2>3, <2>6 DEF Stoppable
  <2> QED BY <2>2, <2>4, <2>5, <2>6
<1> QED BY <1>1, InvariantHolds, PTL

\* While a command runs or waits at the pump the interrupt key finds the flag
\* set between two steps of the pump, whatever the API stored in it meanwhile.
THEOREM WhatRunsCanBeStopped == Spec => []RunningCommandCanBeStopped
<1>1. IInv => RunningCommandCanBeStopped
  BY DEF IInv, Whole, RunningCommandCanBeStopped, AtRest, StopFlag
<1> QED BY <1>1, InvariantHolds, PTL

-----------------------------------------------------------------------------
(***************************************************************************)
(* Held text and the echo it may hold: a part of it is let out before the  *)
(* echo, and the rest is within the line of the command that starts.       *)
(***************************************************************************)
LEMMA SameTexts ==
  ASSUME NEW S, NEW s \in Seq(S), NEW t \in Seq(S), Len(s) = Len(t),
         \A i \in 1..Len(s) : s[i] = t[i]
  PROVE  s = t
OBVIOUS

LEMMA PartIs ==
  ASSUME NEW S, NEW s \in Seq(S), NEW m \in Nat, NEW n \in Nat, m <= n, n <= Len(s)
  PROVE  LET r == SubSeq(s, m + 1, n)
         IN  /\ r \in Seq(S) /\ Len(r) = n - m
             /\ \A i \in 1..(n - m) : r[i] = s[m + i]
<1> DEFINE r == SubSeq(s, m + 1, n)
<1>1. \A i \in (m + 1)..n : s[i] \in S
  OBVIOUS
<1>2. r \in Seq(S)
  BY <1>1
<1>3. Len(r) = n - m
  OBVIOUS
<1>4. \A i \in 1..(n - m) : r[i] = s[m + i]
  OBVIOUS
<1> QED BY <1>2, <1>3, <1>4

LEMMA WholeIs ==
  ASSUME NEW S, NEW s \in Seq(S)
  PROVE  /\ SubSeq(s, 1, Len(s)) = s
         /\ SubSeq(s, Len(s) + 1, Len(s)) = <<>>
         /\ SubSeq(s, 1, 0) = <<>>
<1>1. Len(s) \in Nat /\ 0 \in Nat
  OBVIOUS
<1>2. SubSeq(s, 0 + 1, Len(s)) = s
  <2> DEFINE r == SubSeq(s, 0 + 1, Len(s))
  <2>1. r \in Seq(S) /\ Len(r) = Len(s) /\ \A i \in 1..Len(s) : r[i] = s[0 + i]
    BY <1>1, PartIs
  <2> HIDE DEF r
  <2>2. r = s
    BY <1>1, <2>1, SameTexts
  <2> QED BY <2>2 DEF r
<1>3. ASSUME NEW m \in Nat, m <= Len(s) PROVE SubSeq(s, m + 1, m) = <<>>
  <2> DEFINE r == SubSeq(s, m + 1, m)
  <2>1. r \in Seq(S) /\ Len(r) = 0
    BY <1>1, <1>3, PartIs
  <2> HIDE DEF r
  <2>2. r = <<>>
    BY <2>1
  <2> QED BY <2>2 DEF r
<1>4. SubSeq(s, 0 + 1, 0) = <<>>
  BY <1>1, <1>3
<1>5. SubSeq(s, Len(s) + 1, Len(s)) = <<>>
  BY <1>1, <1>3
<1> QED BY <1>2, <1>4, <1>5

\* The row says the line last.
EndsIn(row, typed) ==
    /\ Len(typed) <= Len(row)
    /\ \A i \in 1..Len(typed) : typed[i] = row[Len(row) - Len(typed) + i]

LEMMA SuffixEnds ==
  ASSUME NEW S, NEW r \in Seq(S), NEW t \in Seq(S), IsSuffix(r, t)
  PROVE  EndsIn(t, r)
<1> DEFINE a == Reverse(r)
           b == Reverse(t)
           n == Len(r)
           m == Len(t)
<1>1. n \in Nat /\ m \in Nat
  OBVIOUS
<1>2. /\ a \in Seq(S) /\ Len(a) = n /\ \A i \in 1..n : a[i] = r[n - i + 1]
      /\ b \in Seq(S) /\ Len(b) = m /\ \A i \in 1..m : b[i] = t[m - i + 1]
  <2>1. ASSUME NEW s \in Seq(S)
        PROVE  Reverse(s) \in Seq(S) /\ Len(Reverse(s)) = Len(s)
               /\ \A i \in 1..Len(s) : Reverse(s)[i] = s[Len(s) - i + 1]
    <3>1. Len(s) \in Nat /\ \A i \in 1..Len(s) : Len(s) - i + 1 \in 1..Len(s)
      OBVIOUS
    <3>2. Reverse(s) = [i \in 1..Len(s) |-> s[(Len(s) - i) + 1]]
      BY DEF Reverse
    <3>3. \A i \in 1..Len(s) : s[(Len(s) - i) + 1] \in S
      BY <3>1
    <3> QED BY <3>1, <3>2, <3>3
  <2> QED BY <2>1
<1> HIDE DEF a, b
<1>3. n <= m /\ SubSeq(a, 1, n) = SubSeq(b, 1, n)
  BY <1>2 DEF IsSuffix, IsPrefix, a, b
<1>4. /\ \A i \in 1..n : SubSeq(a, 0 + 1, n)[i] = a[0 + i]
      /\ \A i \in 1..n : SubSeq(b, 0 + 1, n)[i] = b[0 + i]
  <2>1. 0 \in Nat /\ 0 <= n /\ n <= Len(a) /\ n <= Len(b) /\ n - 0 = n
    BY <1>1, <1>2, <1>3
  <2>2. \A i \in 1..(n - 0) : SubSeq(a, 0 + 1, n)[i] = a[0 + i]
    BY <1>1, <1>2, <2>1, PartIs
  <2>3. \A i \in 1..(n - 0) : SubSeq(b, 0 + 1, n)[i] = b[0 + i]
    BY <1>1, <1>2, <2>1, PartIs
  <2> QED BY <2>1, <2>2, <2>3
<1>5. \A i \in 1..n : a[i] = b[i]
  BY <1>1, <1>3, <1>4
<1>6. \A i \in 1..n : r[i] = t[m - n + i]
  <2> SUFFICES ASSUME NEW i \in 1..n PROVE r[i] = t[m - n + i]
    OBVIOUS
  <2> DEFINE k == n - i + 1
  <2>1. k \in 1..n /\ k \in 1..m /\ n - k + 1 = i /\ m - k + 1 = m - n + i
    BY <1>1, <1>3
  <2>2. a[k] = r[i] /\ b[k] = t[m - n + i]
    BY <1>2, <2>1
  <2> QED BY <1>5, <2>1, <2>2
<1> QED BY <1>3, <1>6 DEF EndsIn

LEMMA EmptyIsWithin ==
  ASSUME NEW S, NEW typed \in Seq(S) PROVE Within(<<>>, typed)
<1>1. Len(<<>>) = 0 /\ Len(typed) \in Nat /\ 0 \in 0..(Len(typed) - Len(<<>>))
  OBVIOUS
<1>2. SubSeq(typed, 0 + 1, 0 + Len(<<>>)) = <<>>
  BY <1>1, WholeIs
<1> QED BY <1>1, <1>2 DEF Within

\* A part that the row says where the line stands in it is within the line.
LEMMA OverlapIsWithin ==
  ASSUME NEW S, NEW part \in Seq(S), NEW typed \in Seq(S), NEW k \in Nat,
         k + Len(part) <= Len(typed), \A i \in 1..Len(part) : part[i] = typed[k + i]
  PROVE  Within(part, typed)
<1> DEFINE r == SubSeq(typed, k + 1, k + Len(part))
<1>1. Len(part) \in Nat /\ Len(typed) \in Nat /\ k \in 0..(Len(typed) - Len(part))
      /\ (k + Len(part)) - k = Len(part) /\ k + Len(part) \in Nat /\ k <= k + Len(part)
  OBVIOUS
<1>2. r \in Seq(S) /\ Len(r) = Len(part) /\ \A i \in 1..Len(part) : r[i] = typed[k + i]
  BY <1>1, PartIs
<1> HIDE DEF r
<1>3. r = part
  BY <1>1, <1>2, SameTexts
<1> QED BY <1>1, <1>3 DEF Within, r

LEMMA MaxIsIn ==
  ASSUME NEW n \in Int, NEW S \in SUBSET (0..n), S # {}
  PROVE  Max(S) \in S
<1> DEFINE T == {i \in Nat : n - i \in S}
<1>1. \A i \in S : i \in 0..n /\ n - i \in T
  OBVIOUS
<1>2. PICK m \in T : \A i \in T : m <= i
  BY <1>1, LeastOfNat
<1>3. n - m \in S /\ \A i \in S : n - m >= i
  BY <1>1, <1>2
<1> QED BY <1>3 DEF Max

\* The cut before_echo makes: what is after it is the echo's.
LEMMA BeforeTheEcho ==
  ASSUME NEW held \in Seq(Tokens), NEW typed \in Seq(Tokens), NEW whole,
         whole = NoText \/ (whole \in Seq(Tokens) /\ EndsIn(whole, typed)),
         NEW before, before = before_echo(held, whole, typed), before # NoText
  PROVE  \E n \in 0..Len(held) :
            /\ before = SubSeq(held, 1, n)
            /\ Within(SubSeq(held, n + 1, Len(held)), typed)
<1>1. Len(held) \in Nat /\ Len(typed) \in Nat
  OBVIOUS
<1>2. CASE whole = NoText
  <2> DEFINE n == Len(held) - Len(typed)
             after == SubSeq(held, n + 1, Len(held))
  <2>1. IsSuffix(typed, held) /\ before = SubSeq(held, 1, n)
    BY <1>2 DEF before_echo
  <2>2. EndsIn(held, typed)
    BY <2>1, SuffixEnds
  <2>3. n \in 0..Len(held) /\ n \in Nat /\ Len(held) - n = Len(typed) /\ n <= Len(held)
    BY <1>1, <2>2 DEF EndsIn
  <2>4. after \in Seq(Tokens) /\ Len(after) = Len(typed)
        /\ \A i \in 1..Len(typed) : after[i] = held[n + i]
    BY <1>1, <2>3, PartIs
  <2> HIDE DEF after
  <2>5. 0 \in Nat /\ 0 + Len(after) <= Len(typed)
        /\ \A i \in 1..Len(after) : after[i] = typed[0 + i]
    BY <1>1, <2>2, <2>4 DEF EndsIn
  <2>6. Within(after, typed)
    BY <2>4, <2>5, OverlapIsWithin
  <2> QED BY <2>1, <2>3, <2>6 DEF after
<1>3. CASE whole # NoText
  <2> DEFINE found == {i \in 0..(Len(whole) - Len(held)) :
                          SubSeq(whole, i + 1, i + Len(held)) = held}
             echoAt == Len(whole) - Len(typed)
             m == Max(found)
  <2>1. whole \in Seq(Tokens) /\ EndsIn(whole, typed) /\ Len(whole) \in Nat
    BY <1>3
  <2>2. /\ found # {}
        /\ before = IF echoAt <= m THEN <<>>
                    ELSE SubSeq(held, 1, Min({echoAt - m, Len(held)}))
    BY <1>3 DEF before_echo
  <2>3. /\ found \in SUBSET (0..(Len(whole) - Len(held)))
        /\ \A i \in found : SubSeq(whole, i + 1, i + Len(held)) = held
    OBVIOUS
  <2> HIDE DEF found
  <2>9. m \in found
    <3> DEFINE all == Len(whole) - Len(held)
    <3>1. all \in Int /\ found # {} /\ found \in SUBSET (0..all)
      BY <1>1, <2>1, <2>2, <2>3
    <3> HIDE DEF all
    <3> QED BY <3>1, MaxIsIn
  <2> HIDE DEF m
  <2>4. /\ m \in Nat /\ m + Len(held) <= Len(whole)
        /\ SubSeq(whole, m + 1, m + Len(held)) = held
    <3>1. m \in 0..(Len(whole) - Len(held)) /\ SubSeq(whole, m + 1, m + Len(held)) = held
      BY <2>3, <2>9
    <3> QED BY <1>1, <2>1, <3>1
  <2>5. \A i \in 1..Len(held) : held[i] = whole[m + i]
    <3> DEFINE e == m + Len(held)
    <3>1. e \in Nat /\ m <= e /\ e - m = Len(held) /\ e <= Len(whole)
      BY <1>1, <2>4
    <3>2. SubSeq(whole, m + 1, e) = held
      BY <2>4
    <3> HIDE DEF e
    <3>3. \A i \in 1..(e - m) : SubSeq(whole, m + 1, e)[i] = whole[m + i]
      BY <2>1, <2>4, <3>1, PartIs
    <3> QED BY <3>1, <3>2, <3>3
  <2>6. echoAt \in Nat /\ \A i \in 1..Len(typed) : typed[i] = whole[echoAt + i]
    BY <1>1, <2>1 DEF EndsIn
  <2>7. CASE echoAt <= m
    <3>1. before = SubSeq(held, 1, 0) /\ SubSeq(held, 0 + 1, Len(held)) = held
      BY <2>2, <2>7, WholeIs
    <3> DEFINE k == m - echoAt
    <3>2. k \in Nat /\ k + Len(held) <= Len(typed)
      BY <1>1, <2>1, <2>4, <2>6, <2>7
    <3>3. \A i \in 1..Len(held) : held[i] = typed[k + i]
      <4> SUFFICES ASSUME NEW i \in 1..Len(held) PROVE held[i] = typed[k + i]
        OBVIOUS
      <4>1. k + i \in 1..Len(typed) /\ echoAt + (k + i) = m + i
        BY <1>1, <2>4, <2>6, <3>2
      <4> QED BY <2>5, <2>6, <4>1
    <3>4. Within(held, typed)
      BY <3>2, <3>3, OverlapIsWithin
    <3>5. 0 \in 0..Len(held)
      BY <1>1
    <3> QED BY <3>1, <3>4, <3>5, Zenon
  <2>8. CASE ~(echoAt <= m)
    <3> DEFINE d == echoAt - m
               n == Min({d, Len(held)})
               after == SubSeq(held, n + 1, Len(held))
    <3>1. before = SubSeq(held, 1, n)
      BY <2>2, <2>8
    <3>2. d \in Nat
      BY <2>4, <2>6, <2>8
    <3> HIDE DEF d
    <3>3. n = IF d <= Len(held) THEN d ELSE Len(held)
      <4>1. {d, Len(held)} \subseteq Nat /\ {d, Len(held)} # {}
        BY <1>1, <3>2
      <4>2. n \in {d, Len(held)}
        BY <4>1, MinIsIn
      <4>3. n <= d /\ n <= Len(held)
        <5>1. PICK x \in {d, Len(held)} : \A y \in {d, Len(held)} : x <= y
          BY <4>1, LeastOfNat
        <5>2. \A y \in {d, Len(held)} : Min({d, Len(held)}) <= y
          BY <5>1 DEF Min
        <5> QED BY <5>2
      <4> QED BY <1>1, <3>2, <4>2, <4>3
    <3> HIDE DEF n
    <3>4. n \in 0..Len(held) /\ n \in Nat /\ n <= Len(held)
      BY <1>1, <3>2, <3>3
    <3>5. after \in Seq(Tokens) /\ Len(after) = Len(held) - n
          /\ \A i \in 1..(Len(held) - n) : after[i] = held[n + i]
      BY <1>1, <3>4, PartIs
    <3>6. Within(after, typed)
      <4>1. CASE d <= Len(held)
        <5>1. n = d /\ m + n = echoAt
          BY <2>4, <2>6, <3>3, <4>1 DEF d
        <5> HIDE DEF after
        <5>2. 0 \in Nat /\ 0 + Len(after) <= Len(typed)
          BY <1>1, <2>1, <2>4, <3>4, <3>5, <5>1
        <5>3. \A i \in 1..Len(after) : after[i] = typed[0 + i]
          <6> SUFFICES ASSUME NEW i \in 1..Len(after) PROVE after[i] = typed[0 + i]
            OBVIOUS
          <6>5. Len(after) = Len(held) - n /\ i \in 1..(Len(held) - n)
            BY <3>5
          <6>6. i \in Nat /\ m \in Nat
            BY <2>4
          <6>1. i \in 1..Len(typed) /\ n + i \in 1..Len(held) /\ m + (n + i) = echoAt + i
                /\ 0 + i = i /\ i \in 1..(Len(held) - n)
            BY <1>1, <3>4, <5>1, <5>2, <6>5, <6>6
          <6>2. after[i] = held[n + i]
            BY <3>5, <6>1
          <6>3. held[n + i] = whole[m + (n + i)]
            BY <2>5, <6>1
          <6>4. typed[i] = whole[echoAt + i]
            BY <2>6, <6>1
          <6> QED BY <6>1, <6>2, <6>3, <6>4
        <5> QED BY <3>5, <5>2, <5>3, OverlapIsWithin
      <4>2. CASE ~(d <= Len(held))
        <5>1. n = Len(held)
          BY <3>3, <4>2
        <5>2. after = <<>>
          BY <5>1, WholeIs
        <5> QED BY <5>2, EmptyIsWithin
      <4> QED BY <4>1, <4>2
    <3> QED BY <3>1, <3>4, <3>6
  <2> QED BY <2>7, <2>8
<1> QED BY <1>2, <1>3

LEMMA ShownIsLetOut ==
  ASSUME NEW text \in Seq(Tokens), NEW told, NEW row, \E i \in DOMAIN told : Shown(told, i, row, text)
  PROVE  LetOut(told, row, text)
<1>1. Len(text) \in 0..Len(text)
  OBVIOUS
<1>2. SubSeq(text, 1, Len(text)) = text /\ SubSeq(text, Len(text) + 1, Len(text)) = <<>>
  BY WholeIs
<1> QED BY <1>1, <1>2 DEF LetOut

-----------------------------------------------------------------------------
(***************************************************************************)
(* What a step tells the actor, and in what order.  Only a block that      *)
(* closes tells an ending, and it is the last to be silent.                *)
(***************************************************************************)
IsSeq(told)    == told \in Seq(Range(told))
IsEnding(word) == word.kind \in {"CommandEnded", "CommandInterrupted"}
IsUnmute(word) == word.kind = "SelfTalk" /\ ~word.on

Plain(told)   == \A i \in DOMAIN told : ~IsEnding(told[i]) /\ ~IsUnmute(told[i])
Quieted(told) == \A i, j \in DOMAIN told : IsUnmute(told[i]) /\ IsEnding(told[j]) => j < i

\* What was told stays told, where it was, and this word after it.
Extends(u, t)      == \A i \in DOMAIN t : i \in DOMAIN u /\ u[i] = t[i]
Latest(u, t, word) == \E j \in DOMAIN u : u[j] = word /\ \A i \in DOMAIN t : i < j

\* A text is told as output of its row.
IsShown(told, row, text) == \E i \in DOMAIN told : Shown(told, i, row, text)

Telling(p) == DOMAIN p = DOMAIN NewPump(<<>>) /\ IsSeq(p.told)

\* More was told, but neither an ending nor the end of a silence.
SpeaksOn(q, p) ==
    /\ Telling(q)
    /\ Plain(p.told) => Plain(q.told)
    /\ Quieted(p.told) => Quieted(q.told)
    /\ Extends(q.told, p.told)

Goes(q, p) == SpeaksOn(q, p) /\ q.held = p.held

LEMMA PlainIsQuieted == ASSUME NEW told, Plain(told) PROVE Quieted(told)
BY DEF Plain, Quieted

LEMMA SpeaksOnAndOn ==
  ASSUME NEW p, NEW q, NEW r, SpeaksOn(q, p), SpeaksOn(r, q)
  PROVE  SpeaksOn(r, p)
BY DEF SpeaksOn, Extends

LEMMA GoesOnAndOn ==
  ASSUME NEW p, NEW q, NEW r, Goes(q, p), Goes(r, q)
  PROVE  Goes(r, p)
BY DEF SpeaksOn, Goes, Extends

\* What is out stays out.
LEMMA LetOutStays ==
  ASSUME NEW u, NEW t, Extends(u, t), NEW row, NEW text
  PROVE  /\ LetOut(t, row, text) => LetOut(u, row, text)
         /\ IsShown(t, row, text) => IsShown(u, row, text)
<1>1. /\ \A i \in DOMAIN t : i \in DOMAIN u
      /\ \A i \in DOMAIN t : \A part : Shown(t, i, row, part) => Shown(u, i, row, part)
      /\ \A i \in DOMAIN t : \A part : Repeated(t, i, part) => Repeated(u, i, part)
  BY DEF Extends, Shown, Repeated
<1>2. LetOut(t, row, text) => LetOut(u, row, text)
  BY <1>1 DEF LetOut
<1>3. IsShown(t, row, text) => IsShown(u, row, text)
  BY <1>1 DEF IsShown
<1> QED BY <1>2, <1>3

LEMMA AppendIs ==
  ASSUME NEW told, IsSeq(told), NEW word
  PROVE  LET more == Append(told, word)
         IN  /\ IsSeq(more) /\ Len(told) \in Nat
             /\ DOMAIN told = 1..Len(told) /\ DOMAIN more = 1..(Len(told) + 1)
             /\ \A i \in DOMAIN told : i \in DOMAIN more /\ more[i] = told[i]
             /\ more[Len(told) + 1] = word
             /\ \A i \in DOMAIN more : i \in DOMAIN told \/ i = Len(told) + 1
<1> DEFINE S    == Range(told) \cup {word}
           more == Append(told, word)
<1>1. told \in Seq(S) /\ Len(told) \in Nat /\ DOMAIN told = 1..Len(told)
  BY DEF IsSeq
<1> HIDE DEF S
<1>2. /\ more \in Seq(S) /\ Len(more) = Len(told) + 1 /\ DOMAIN more = 1..(Len(told) + 1)
      /\ \A i \in 1..Len(told) : more[i] = told[i]
      /\ more[Len(told) + 1] = word
  BY <1>1 DEF S
<1> HIDE DEF more
<1>3. \A i \in DOMAIN more : i \in DOMAIN told \/ i = Len(told) + 1
  BY <1>1, <1>2
<1>4. \A i \in DOMAIN more : more[i] \in Range(more)
  BY DEF Range
<1>5. IsSeq(more)
  BY <1>2, <1>4 DEF IsSeq
<1> QED BY <1>1, <1>2, <1>3, <1>5 DEF more

LEMMA TellSpeaks ==
  ASSUME NEW p, Telling(p), NEW word, ~IsEnding(word), ~IsUnmute(word)
  PROVE  LET q == Tell(p, word)
         IN  Goes(q, p) /\ Latest(q.told, p.told, word)
<1> DEFINE q == Tell(p, word)
<1>1. DOMAIN q = DOMAIN p /\ q.told = Append(p.told, word) /\ q.held = p.held
  BY DEF Telling, Tell, NewPump
<1> HIDE DEF q
<1> DEFINE t == p.told
           u == q.told
<1>2. /\ IsSeq(u) /\ Len(t) \in Nat
      /\ DOMAIN t = 1..Len(t) /\ DOMAIN u = 1..(Len(t) + 1)
      /\ \A i \in DOMAIN t : i \in DOMAIN u /\ u[i] = t[i]
      /\ u[Len(t) + 1] = word
      /\ \A i \in DOMAIN u : i \in DOMAIN t \/ i = Len(t) + 1
  BY <1>1, AppendIs DEF Telling
<1>3. Len(t) + 1 \in DOMAIN u
  BY <1>2
<1> HIDE DEF t, u
<1>4. Plain(t) => Plain(u)
  BY <1>2 DEF Plain
<1>5. Quieted(t) => Quieted(u)
  <2> SUFFICES ASSUME Quieted(t), NEW i \in DOMAIN u, NEW j \in DOMAIN u,
                      IsUnmute(u[i]), IsEnding(u[j])
               PROVE  j < i
    BY DEF Quieted
  <2>1. i \in DOMAIN t /\ j \in DOMAIN t
    BY <1>2
  <2> QED BY <1>2, <2>1 DEF Quieted
<1>6. Extends(u, t)
  BY <1>2 DEF Extends
<1>7. Latest(u, t, word)
  BY <1>2, <1>3 DEF Latest
<1>8. Telling(q)
  BY <1>1, <1>2 DEF Telling, u
<1>9. Goes(q, p) /\ Latest(q.told, p.told, word)
  BY <1>1, <1>4, <1>5, <1>6, <1>7, <1>8 DEF Goes, SpeaksOn, t, u
<1> QED BY <1>9 DEF q

\* What speech has no part in.
LEMMA SilentFields ==
  ASSUME NEW p, Telling(p)
  PROVE  /\ Goes(p, p)
         /\ \A v : Goes([p EXCEPT !.running = v], p)
         /\ \A v : Goes([p EXCEPT !.nextId = v], p)
         /\ \A v : Goes([p EXCEPT !.unshown = v], p)
         /\ \A v : Goes([p EXCEPT !.lines = v], p)
         /\ \A v : Goes([p EXCEPT !.row = v], p)
         /\ \A v : Goes([p EXCEPT !.echo = v], p)
         /\ \A v : Goes([p EXCEPT !.drawing = v], p)
         /\ \A v : Goes([p EXCEPT !.standing = v], p)
         /\ \A v : Goes([p EXCEPT !.submitted = v], p)
         /\ \A v : Goes([p EXCEPT !.integration = v], p)
         /\ \A v : Goes([p EXCEPT !.selfTalk = v], p)
         /\ Goes(interrupt(p), p)
         /\ \A v : SpeaksOn([p EXCEPT !.held = v], p) /\ [p EXCEPT !.held = v].held = v
         /\ \A v : Goes([p EXCEPT !.open = v, !.unshown = FALSE], p)
         /\ \A v : Goes([p EXCEPT !.open = v, !.unshown = TRUE], p)
         /\ \A v, w : Goes([p EXCEPT !.submitted = v, !.pendingRow = w], p)
BY DEF Telling, Goes, SpeaksOn, Extends, NewPump, interrupt

LEMMA SettleSpeaks == ASSUME NEW p, Telling(p) PROVE Goes(settle_running(p), p)
BY SilentFields DEF settle_running

LEMMA OpenSpeaks ==
  ASSUME NEW p, Telling(p), NEW id, NEW typed
  PROVE  LET q == settle_running(open(p, id, typed))
         IN  Goes(q, p) /\ Latest(q.told, p.told, Started(id, typed))
<1> DEFINE s == [p EXCEPT !.open = id, !.unshown = FALSE]
           word == Started(id, typed)
           r == Tell(s, word)
           q == settle_running(r)
<1>1. Goes(s, p) /\ Telling(s) /\ s.told = p.told
  BY SilentFields DEF Goes, SpeaksOn, Telling, NewPump
<1>2. ~IsEnding(word) /\ ~IsUnmute(word)
  BY DEF Started, IsEnding, IsUnmute
<1> HIDE DEF s, word
<1>3. Goes(r, s) /\ Latest(r.told, s.told, word) /\ Telling(r)
  BY <1>1, <1>2, TellSpeaks DEF Goes, SpeaksOn
<1> HIDE DEF r
<1>4. Goes(q, r)
  BY <1>3, SettleSpeaks
<1> HIDE DEF q
<1>5. Goes(q, p)
  BY <1>1, <1>3, <1>4, GoesOnAndOn
<1>6. Latest(q.told, p.told, word)
  BY <1>1, <1>3, <1>4 DEF Goes, SpeaksOn, Extends, Latest
<1> QED BY <1>5, <1>6 DEF q, r, s, word, open

LEMMA UnclaimedSpeaks == ASSUME NEW p, Telling(p) PROVE Goes(unclaimed(p), p)
<1> DEFINE n == p.nextId
           r == [p EXCEPT !.nextId = n + 1]
           s == [r EXCEPT !.open = n, !.unshown = TRUE]
<1>1. Goes(r, p) /\ Telling(r)
  BY SilentFields DEF Goes, SpeaksOn
<1> HIDE DEF r
<1>2. Goes(s, r) /\ Telling(s)
  BY <1>1, SilentFields DEF Goes, SpeaksOn
<1> HIDE DEF s
<1>3. Goes(settle_running(s), s)
  BY <1>2, SettleSpeaks
<1>4. unclaimed(p) = settle_running(s)
  BY DEF unclaimed, open_unshown, s, r
<1> QED BY <1>1, <1>2, <1>3, <1>4, GoesOnAndOn

LEMMA OutputSpeaks ==
  ASSUME NEW p, Telling(p), NEW id, NEW news
  PROVE  LET q == output(p, id, news)
         IN  Goes(q, p) /\ (news.text # <<>> => IsShown(q.told, id, news.text))
<1>1. CASE p.unshown /\ news.text = <<>>
  BY <1>1, SilentFields DEF output
<1>2. CASE ~(p.unshown /\ news.text = <<>>)
  <2> DEFINE bare == [p EXCEPT !.unshown = FALSE]
             start == Started(p.open, NoText)
             s == IF p.unshown THEN settle_running(Tell(bare, start)) ELSE p
             mark == IF p.lines[id].seen THEN p.open ELSE s.lines[id].shown
             r == [s EXCEPT !.lines[id].shown = mark]
             word == Output(id, news)
             q == Tell(r, word)
  <2>1. output(p, id, news) = q
    BY <1>2 DEF output
  <2>2. Goes(bare, p) /\ Telling(bare)
    BY SilentFields DEF Goes, SpeaksOn
  <2>3. ~IsEnding(start) /\ ~IsUnmute(start)
    BY DEF Started, IsEnding, IsUnmute
  <2>4. /\ ~IsEnding(word) /\ ~IsUnmute(word)
        /\ word.kind = "Output" /\ word.line = id /\ word.text = news.text
    BY DEF Output, IsEnding, IsUnmute
  <2> HIDE DEF bare, start, word
  <2>5. Goes(Tell(bare, start), bare) /\ Telling(Tell(bare, start))
    BY <2>2, <2>3, TellSpeaks DEF Goes, SpeaksOn
  <2>6. Goes(settle_running(Tell(bare, start)), Tell(bare, start))
    BY <2>5, SettleSpeaks
  <2>7. Goes(s, p) /\ Telling(s)
    <3>1. Goes(settle_running(Tell(bare, start)), p)
      BY <2>2, <2>5, <2>6, GoesOnAndOn
    <3>2. Goes(s, p)
      BY <3>1, SilentFields
    <3> QED BY <3>2 DEF Goes, SpeaksOn
  <2> HIDE DEF s, mark
  <2>8. Goes(r, s) /\ Telling(r)
    <3>1. \A v : Goes([s EXCEPT !.lines = v], s)
      BY <2>7, SilentFields
    <3>2. r = [s EXCEPT !.lines = [s.lines EXCEPT ![id] = [s.lines[id] EXCEPT !.shown = mark]]]
      BY <2>7 DEF Telling, NewPump
    <3> QED BY <3>1, <3>2 DEF Goes, SpeaksOn
  <2> HIDE DEF r
  <2>9. Goes(q, r) /\ IsShown(q.told, id, news.text)
    <3>1. Goes(q, r) /\ Latest(q.told, r.told, word)
      BY <2>4, <2>8, TellSpeaks
    <3> HIDE DEF q
    <3> QED BY <2>4, <3>1 DEF Latest, IsShown, Shown
  <2> HIDE DEF q
  <2>10. Goes(q, p)
    BY <2>7, <2>8, <2>9, GoesOnAndOn
  <2> QED BY <2>1, <2>9, <2>10
<1> QED BY <1>1, <1>2

LEMMA PublishSpeaks ==
  ASSUME NEW p, Telling(p), NEW id, NEW news
  PROVE  LET q == publish(p, id, news)
         IN  Goes(q, p) /\ (news.text # <<>> => IsShown(q.told, id, news.text))
<1> DEFINE r == IF p.open = NoCommand THEN unclaimed(p) ELSE p
           q == output(r, id, news)
<1>1. Goes(r, p) /\ Telling(r)
  BY UnclaimedSpeaks, SilentFields DEF Goes, SpeaksOn
<1> HIDE DEF r
<1>2. Goes(q, r) /\ (news.text # <<>> => IsShown(q.told, id, news.text))
  BY <1>1, OutputSpeaks
<1> HIDE DEF q
<1>3. Goes(q, p)
  BY <1>1, <1>2, GoesOnAndOn
<1> QED BY <1>2, <1>3 DEF publish, q, r

LEMMA SpillSpeaks ==
  ASSUME NEW p, Telling(p)
  PROVE  LET q == spill(p)
         IN  /\ SpeaksOn(q, p)
             /\ p.held.text # <<>> => IsShown(q.told, p.held.line, p.held.text)
             /\ q.held = NoHeld
<1>1. CASE p.held = NoHeld
  <2>1. spill(p) = p /\ p.held.text = <<>>
    BY <1>1 DEF spill, NoHeld
  <2> QED BY <1>1, <2>1, SilentFields DEF Goes
<1>2. CASE p.held # NoHeld
  <2> DEFINE r == [p EXCEPT !.held = NoHeld]
             news == HeldDue(p.held)
             q == publish(r, p.held.line, news)
  <2>1. SpeaksOn(r, p) /\ Telling(r) /\ r.held = NoHeld
    BY SilentFields DEF SpeaksOn
  <2>2. news.text = p.held.text
    BY DEF HeldDue
  <2> HIDE DEF r, news
  <2>3. Goes(q, r) /\ (news.text # <<>> => IsShown(q.told, p.held.line, news.text))
    BY <2>1, PublishSpeaks
  <2>4. spill(p) = q
    BY <1>2 DEF spill, q, r, news
  <2> HIDE DEF q
  <2> QED BY <2>1, <2>2, <2>3, <2>4, SpeaksOnAndOn DEF Goes
<1> QED BY <1>1, <1>2

LEMMA GreatestValue ==
  ASSUME NEW n \in Nat \ {0}, NEW f, \A i \in 1..n : f[i] \in Nat
  PROVE  Max({f[i] : i \in 1..n}) \in Nat
<1> DEFINE Bounded(k) == \E m \in Nat : \A i \in 1..k : f[i] <= m
           Missing    == {k \in Nat : k <= n /\ ~Bounded(k)}
           S          == {f[i] : i \in 1..n}
<1>1. Bounded(0)
  OBVIOUS
<1>2. ASSUME NEW j \in Nat, j + 1 <= n, Bounded(j) PROVE Bounded(j + 1)
  <2>1. PICK m \in Nat : \A i \in 1..j : f[i] <= m
    BY <1>2
  <2>2. f[j + 1] \in Nat
    BY <1>2
  <2>3. PICK l \in Nat : m <= l /\ f[j + 1] <= l
    BY <2>2
  <2>4. \A i \in 1..(j + 1) : i \in 1..j \/ i = j + 1
    OBVIOUS
  <2>5. \A i \in 1..j : f[i] \in Nat
    BY <1>2
  <2>6. \A i \in 1..(j + 1) : f[i] <= l
    BY <2>1, <2>3, <2>4, <2>5
  <2> QED BY <2>6
<1> HIDE DEF Bounded
<1>3. Bounded(n)
  <2> SUFFICES ASSUME ~Bounded(n) PROVE FALSE
    OBVIOUS
  <2>1. Missing # {} /\ Missing \subseteq Nat
    OBVIOUS
  <2>2. PICK k \in Missing : \A i \in Missing : k <= i
    BY <2>1, LeastOfNat
  <2>3. k # 0
    BY <1>1, <2>2
  <2>4. k - 1 \in Nat /\ k - 1 <= n /\ k <= n /\ ~Bounded(k)
    BY <2>2, <2>3
  <2>5. k - 1 \notin Missing
    BY <2>2, <2>4
  <2> DEFINE j == k - 1
  <2>6. j \in Nat /\ j + 1 = k /\ Bounded(j)
    BY <2>4, <2>5
  <2> HIDE DEF j
  <2> QED BY <1>2, <2>4, <2>6
<1>4. PICK m \in Nat : \A i \in 1..n : f[i] <= m
  BY <1>3 DEF Bounded
<1> DEFINE T == {i \in Nat : m - i \in S}
<1>5. \A s \in S : s \in Nat /\ m - s \in T
  BY <1>4
<1>6. S # {}
  <2>1. 1 \in 1..n
    OBVIOUS
  <2> QED BY <2>1
<1> HIDE DEF S
<1>7. T # {} /\ T \subseteq Nat
  BY <1>5, <1>6
<1>8. PICK least \in T : \A i \in T : least <= i
  BY <1>7, LeastOfNat
<1>9. m - least \in S /\ \A s \in S : m - least >= s
  BY <1>5, <1>8
<1>10. Max(S) \in S
  BY <1>9 DEF Max
<1> QED BY <1>5, <1>10 DEF S

\* One more than the longest of the lines that wait.
LEMMA WindowIsWide ==
  ASSUME NEW p, p.submitted \in Seq(Submission), window(p) # 0
  PROVE  p.submitted # <<>> /\ window(p) \in Nat /\ 0 < window(p)
<1> DEFINE w == p.submitted
           n == Len(w)
           f == [i \in 1..n |-> Len(w[i].line)]
<1>1. w # <<>> /\ n \in Nat \ {0} /\ DOMAIN w = 1..n
  BY DEF window
<1>2. \A i \in 1..n : f[i] \in Nat
  BY <1>1 DEF Submission
<1>3. {f[i] : i \in 1..n} = {Len(w[i].line) : i \in DOMAIN w}
  BY <1>1
<1> HIDE DEF f
<1>4. Max({f[i] : i \in 1..n}) \in Nat
  BY <1>1, <1>2, GreatestValue
<1>5. window(p) = 1 + Max({f[i] : i \in 1..n})
  BY <1>1, <1>3 DEF window
<1> QED BY <1>1, <1>4, <1>5

\* Held text waits for as long as a line is waiting, and grows with its row.
Texted(held) == DOMAIN held = DOMAIN NoHeld /\ held.text \in Seq(Tokens)
Grown(was, revision, text) == IF revision = "Appended" THEN was.text \o text ELSE text

LEMMA HoldSpeaks ==
  ASSUME NEW p, Telling(p), p.submitted \in Seq(Submission), NEW id, NEW news,
         Texted(p.held), news.text \in Seq(Tokens),
         NEW q, q = hold(p, id, news), q.submitted = p.submitted
  PROVE  /\ SpeaksOn(q, p) /\ Texted(q.held)
         /\ p.held.text # <<>> =>
               \/ IsShown(q.told, p.held.line, p.held.text)
               \/ /\ id = p.held.line /\ q.held = NoHeld
                  /\ IsShown(q.told, id, Grown(p.held, news.revision, news.text))
               \/ /\ id = p.held.line /\ q.held.line = id /\ q.submitted # <<>>
                  /\ q.held.text = Grown(p.held, news.revision, news.text)
<1>0. NoHeld.text = <<>> /\ Texted(NoHeld)
  BY DEF NoHeld, Texted
<1>1. SpeaksOn(spill(p), p) /\ Telling(spill(p)) /\ spill(p).held = NoHeld
      /\ (p.held.text # <<>> => IsShown(spill(p).told, p.held.line, p.held.text))
  BY SpillSpeaks DEF SpeaksOn
<1>2. CASE window(p) = 0
  <2> DEFINE s == spill(p)
  <2>1. q = publish(s, id, news)
    BY <1>2 DEF hold
  <2> HIDE DEF s
  <2>2. Goes(publish(s, id, news), s)
    BY <1>1, PublishSpeaks DEF s
  <2>3. SpeaksOn(q, p) /\ q.held = NoHeld
    BY <1>1, <2>1, <2>2, SpeaksOnAndOn DEF s, Goes
  <2>4. p.held.text # <<>> => IsShown(q.told, p.held.line, p.held.text)
    BY <1>1, <2>1, <2>2, LetOutStays DEF SpeaksOn, Goes, s
  <2> QED BY <1>0, <2>3, <2>4
<1>3. CASE window(p) # 0
  <2> DEFINE kept == IF p.held.line = id THEN p ELSE spill(p)
             new  == absorb(kept.held, id, news)
             now  == [kept EXCEPT !.held = new]
  <2>1. p.submitted # <<>> /\ window(p) \in Nat /\ 0 < window(p)
    BY <1>3, WindowIsWide
  <2>2. q = IF Len(now.held.text) > window(p) THEN spill(now) ELSE now
    BY <1>3 DEF hold
  <2>3. SpeaksOn(kept, p) /\ Telling(kept)
    BY <1>1, SilentFields DEF Goes, SpeaksOn
  <2>4. p.held.text # <<>> /\ p.held.line # id => IsShown(kept.told, p.held.line, p.held.text)
    BY <1>1
  <2>5. p.held.line = id /\ p.held.text # <<>> =>
           new.line = id /\ new.text = Grown(p.held, news.revision, news.text)
    <3> SUFFICES ASSUME p.held.line = id, p.held.text # <<>>
                 PROVE  new.line = id /\ new.text = Grown(p.held, news.revision, news.text)
      OBVIOUS
    <3>1. kept.held = p.held /\ p.held # NoHeld
      BY <1>0
    <3> HIDE DEF kept
    <3> QED BY <3>1 DEF absorb, Grown, Texted, NoHeld
  <2>11. Texted(new)
    <3>1. Texted(kept.held)
      BY <1>0, <1>1
    <3> HIDE DEF kept
    <3>2. CASE kept.held = NoHeld
      BY <3>2 DEF absorb, Texted, NoHeld
    <3>3. CASE kept.held # NoHeld
      <4> DEFINE h == kept.held
      <4>1. /\ DOMAIN h = {"line", "revision", "text", "spoken"} /\ h.text \in Seq(Tokens)
        BY <3>1 DEF Texted, NoHeld
      <4>2. h.text \o news.text \in Seq(Tokens)
        BY <4>1
      <4>3. new = absorb(h, id, news) /\ h # NoHeld
        BY <3>3
      <4> HIDE DEF h, new
      <4>4. new.text \in {h.text \o news.text, news.text}
        BY <4>1, <4>3 DEF absorb
      <4>5. DOMAIN new = DOMAIN h
        BY <4>3 DEF absorb
      <4> QED BY <4>1, <4>2, <4>4, <4>5 DEF Texted, NoHeld
    <3> QED BY <3>2, <3>3
  <2> HIDE DEF kept, new
  <2>6. SpeaksOn(now, kept) /\ Telling(now) /\ now.held = new
    BY <2>3, SilentFields DEF SpeaksOn
  <2> HIDE DEF now
  <2>7. SpeaksOn(now, p)
    BY <2>3, <2>6, SpeaksOnAndOn
  <2>12. p.held.text # <<>> /\ p.held.line # id => IsShown(now.told, p.held.line, p.held.text)
    BY <2>4, <2>6, LetOutStays DEF SpeaksOn
  <2>8. SpeaksOn(spill(now), now) /\ spill(now).held = NoHeld
        /\ (now.held.text # <<>> => IsShown(spill(now).told, now.held.line, now.held.text))
    BY <2>6, SpillSpeaks
  <2>9. CASE q = now
    BY <2>1, <2>5, <2>6, <2>7, <2>9, <2>11, <2>12
  <2>10. CASE q = spill(now) /\ Len(now.held.text) > window(p)
    <3>1. now.held.text # <<>>
      <4> SUFFICES ASSUME now.held.text = <<>> PROVE FALSE
        OBVIOUS
      <4>1. Len(now.held.text) = 0
        OBVIOUS
      <4> QED BY <2>1, <2>10, <4>1
    <3>2. SpeaksOn(q, p)
      BY <2>7, <2>8, <2>10, SpeaksOnAndOn
    <3>3. p.held.text # <<>> /\ p.held.line # id => IsShown(q.told, p.held.line, p.held.text)
      BY <2>8, <2>10, <2>12, LetOutStays DEF SpeaksOn
    <3> QED BY <1>0, <2>5, <2>6, <2>8, <2>10, <3>1, <3>2, <3>3
  <2> QED BY <2>2, <2>9, <2>10
<1> QED BY <1>2, <1>3

\* The end of a silence may be told last.
Unmuteless(told) == \A i \in DOMAIN told : ~IsUnmute(told[i])

LEMMA AnyTell ==
  ASSUME NEW p, Telling(p), NEW word
  PROVE  LET q == Tell(p, word)
         IN  /\ Telling(q) /\ q.held = p.held
             /\ Unmuteless(p.told) => Quieted(q.told)
             /\ Unmuteless(p.told) /\ ~IsUnmute(word) => Unmuteless(q.told)
             /\ Extends(q.told, p.told)
<1> DEFINE q == Tell(p, word)
<1>1. DOMAIN q = DOMAIN p /\ q.told = Append(p.told, word) /\ q.held = p.held
  BY DEF Telling, Tell, NewPump
<1> HIDE DEF q
<1> DEFINE t == p.told
           u == q.told
<1>2. /\ IsSeq(u) /\ Len(t) \in Nat
      /\ DOMAIN t = 1..Len(t) /\ DOMAIN u = 1..(Len(t) + 1)
      /\ \A i \in DOMAIN t : i \in DOMAIN u /\ u[i] = t[i]
      /\ u[Len(t) + 1] = word
      /\ \A i \in DOMAIN u : i \in DOMAIN t \/ i = Len(t) + 1
  BY <1>1, AppendIs DEF Telling
<1> HIDE DEF t, u
<1>3. Unmuteless(t) => Quieted(u)
  <2> SUFFICES ASSUME Unmuteless(t), NEW i \in DOMAIN u, NEW j \in DOMAIN u,
                      IsUnmute(u[i]), IsEnding(u[j])
               PROVE  j < i
    BY DEF Quieted
  <2>1. ~(IsUnmute(u[j]) /\ IsEnding(u[j]))
    BY DEF IsUnmute, IsEnding
  <2>2. i = Len(t) + 1
    BY <1>2 DEF Unmuteless
  <2>3. j \in 1..(Len(t) + 1) /\ j # i
    BY <1>2, <2>1
  <2> QED BY <1>2, <2>2, <2>3
<1>4. Unmuteless(t) /\ ~IsUnmute(word) => Unmuteless(u)
  BY <1>2 DEF Unmuteless
<1>5. Extends(u, t)
  BY <1>2 DEF Extends
<1>6. Telling(q)
  BY <1>1, <1>2 DEF Telling, u
<1>7. /\ Telling(q) /\ q.held = p.held
      /\ Unmuteless(p.told) => Quieted(q.told)
      /\ Unmuteless(p.told) /\ ~IsUnmute(word) => Unmuteless(q.told)
      /\ Extends(q.told, p.told)
  BY <1>1, <1>3, <1>4, <1>5, <1>6 DEF t, u
<1> QED BY <1>7 DEF q

\* A step that begins with nothing told of an ending ends quietly.
Quiets(q, p) ==
    /\ Telling(q)
    /\ Plain(p.told) => Quieted(q.told)
    /\ Extends(q.told, p.told)

LEMMA SpeechQuiets ==
  ASSUME NEW p, NEW q, SpeaksOn(q, p)
  PROVE  Quiets(q, p)
BY PlainIsQuieted DEF SpeaksOn, Quiets

LEMMA SpeaksThenQuiets ==
  ASSUME NEW p, NEW q, NEW r, SpeaksOn(q, p), Quiets(r, q)
  PROVE  Quiets(r, p)
BY DEF SpeaksOn, Quiets, Extends

LEMMA QuietsThenSpeaks ==
  ASSUME NEW p, NEW q, NEW r, Quiets(q, p), SpeaksOn(r, q)
  PROVE  Quiets(r, p)
BY DEF SpeaksOn, Quiets, Extends

LEMMA CloseSpeaks ==
  ASSUME NEW p, Telling(p), NEW exit
  PROVE  LET q == close(p, exit) IN Quiets(q, p) /\ q.held = p.held
<1>1. CASE p.open = NoCommand
  <2>1. close(p, exit) = p
    BY <1>1 DEF close
  <2> QED BY <2>1, SilentFields, SpeechQuiets DEF Goes
<1>2. CASE p.open # NoCommand
  <2> DEFINE s == Shut(p)
             word == Ending(p, exit)
             t == IF p.unshown THEN s ELSE Tell(s, word)
             off == FALSE
             v == [t EXCEPT !.selfTalk = NoCommand]
             u == IF t.selfTalk = p.open THEN Tell(v, SelfTalk(off)) ELSE t
  <2>1. close(p, exit) = settle_running(u)
    BY <1>2 DEF close, Unmuted
  <2>2. Telling(s) /\ s.told = p.told /\ s.held = p.held /\ Extends(p.told, p.told)
    BY DEF Shut, Telling, NewPump, Extends
  <2>3. ~IsUnmute(word)
    BY DEF Ending, Interrupted, Ended, IsUnmute
  <2>4. Plain(p.told) => Unmuteless(p.told)
    BY DEF Plain, Unmuteless
  <2> HIDE DEF s, word
  <2>5. /\ Telling(t) /\ t.held = p.held
        /\ Plain(p.told) => Quieted(t.told) /\ Unmuteless(t.told)
        /\ Extends(t.told, p.told)
    <3>1. /\ Telling(Tell(s, word)) /\ Tell(s, word).held = s.held
          /\ Unmuteless(s.told) => Quieted(Tell(s, word).told)
          /\ Unmuteless(s.told) => Unmuteless(Tell(s, word).told)
          /\ Extends(Tell(s, word).told, s.told)
      BY <2>2, <2>3, AnyTell
    <3> QED BY <2>2, <2>4, <3>1, PlainIsQuieted
  <2> HIDE DEF t
  <2>6. Telling(v) /\ v.told = t.told /\ v.held = t.held
    BY <2>5 DEF Telling, NewPump
  <2> HIDE DEF v, off
  <2>7. /\ Telling(Tell(v, SelfTalk(off))) /\ Tell(v, SelfTalk(off)).held = v.held
        /\ Unmuteless(v.told) => Quieted(Tell(v, SelfTalk(off)).told)
        /\ Extends(Tell(v, SelfTalk(off)).told, v.told)
    BY <2>6, AnyTell
  <2>8. /\ Telling(u) /\ u.held = p.held
        /\ Plain(p.told) => Quieted(u.told)
        /\ Extends(u.told, p.told)
    BY <2>5, <2>6, <2>7 DEF Extends
  <2> HIDE DEF u
  <2>9. Quiets(u, p) /\ u.held = p.held
    BY <2>8 DEF Quiets
  <2>10. Goes(settle_running(u), u)
    BY <2>8, SettleSpeaks
  <2> QED BY <2>1, <2>9, <2>10, QuietsThenSpeaks DEF Goes
<1> QED BY <1>1, <1>2

LEMMA AdoptSpeaks ==
  ASSUME NEW p, Telling(p), NEW index
  PROVE  Goes(adopt(p, index), p)
BY SilentFields DEF adopt

\* An echo lets out whatever was held: what is before it to the block before.
LEMMA EchoedSpeaks ==
  ASSUME NEW p, Telling(p), p.submitted \in Seq(Submission), Texted(p.held),
         NEW index \in 1..Len(p.submitted),
         NEW whole, \/ whole = NoText
                    \/ whole \in Seq(Tokens) /\ EndsIn(whole, p.submitted[index].line)
  PROVE  LET q == Echoed(p, index, whole)
         IN  Quiets(q, p) /\ LetOut(q.told, p.held.line, p.held.text) /\ q.held = NoHeld
<1> DEFINE typed == p.submitted[index].line
           id == p.submitted[index].id
           text == p.held.text
           a == adopt(p, index)
           freed == [a EXCEPT !.held = NoHeld]
           before == before_echo(text, whole, typed)
           news == [HeldDue(p.held) EXCEPT !.text = IF before = NoText THEN @ ELSE before]
           after == IF p.held = NoHeld \/ before = <<>> THEN freed
                    ELSE publish(freed, p.held.line, news)
           c == close(after, NoExit)
           start == Started(id, typed)
           o == settle_running(open(c, id, typed))
           q == [o EXCEPT !.row = <<>>]
<1>1. Echoed(p, index, whole) = q
  BY DEF Echoed
<1>2. typed \in Seq(Tokens) /\ text \in Seq(Tokens)
  <2>1. p.submitted[index] \in Submission
    OBVIOUS
  <2> QED BY <2>1 DEF Submission, Texted
<1>3. typed # NoText
  BY <1>2, NoTextAssumption
<1>4. SpeaksOn(a, p) /\ Telling(a)
  BY AdoptSpeaks DEF Goes, SpeaksOn
<1>15. news.text = IF before = NoText THEN text ELSE before
  BY DEF HeldDue
<1>16. before # NoText =>
          \E n \in 0..Len(text) : /\ before = SubSeq(text, 1, n)
                                  /\ Within(SubSeq(text, n + 1, Len(text)), typed)
  BY <1>2, BeforeTheEcho
<1>17. start.kind = "CommandStarted" /\ start.line = typed
  BY DEF Started
<1>18. p.held = NoHeld => text = <<>>
  BY DEF NoHeld
<1> HIDE DEF a, typed, id, before, news, start, text
<1>5. SpeaksOn(freed, a) /\ Telling(freed) /\ freed.held = NoHeld
  BY <1>4, SilentFields DEF SpeaksOn
<1>6. SpeaksOn(freed, p)
  BY <1>4, <1>5, SpeaksOnAndOn
<1> HIDE DEF freed
<1>7. Goes(publish(freed, p.held.line, news), freed)
      /\ (news.text # <<>> =>
             IsShown(publish(freed, p.held.line, news).told, p.held.line, news.text))
  BY <1>5, PublishSpeaks
<1>8. SpeaksOn(after, p) /\ Telling(after) /\ after.held = NoHeld
  <2>1. SpeaksOn(publish(freed, p.held.line, news), p)
    BY <1>6, <1>7, SpeaksOnAndOn DEF Goes
  <2>2. SpeaksOn(after, p) /\ after.held = NoHeld
    BY <1>5, <1>6, <1>7, <2>1 DEF Goes
  <2> QED BY <2>2 DEF SpeaksOn
<1>19. p.held # NoHeld /\ before # <<>> /\ news.text # <<>> =>
          IsShown(after.told, p.held.line, news.text)
  BY <1>7
<1> HIDE DEF after
<1>9. Quiets(c, after) /\ Telling(c) /\ c.held = after.held
  BY <1>8, CloseSpeaks DEF Quiets
<1> HIDE DEF c
<1>10. Quiets(c, p)
  BY <1>8, <1>9, SpeaksThenQuiets
<1>11. Goes(o, c) /\ Telling(o) /\ Latest(o.told, c.told, start)
  BY <1>9, OpenSpeaks DEF Goes, SpeaksOn, start
<1> HIDE DEF o
<1>12. Goes(q, o) /\ q.told = o.told
  BY <1>11, SilentFields DEF Telling, NewPump
<1> HIDE DEF q
<1>13. Quiets(q, p)
  BY <1>10, <1>11, <1>12, SpeaksOnAndOn, QuietsThenSpeaks DEF Goes
<1>14. q.held = NoHeld
  BY <1>8, <1>9, <1>11, <1>12 DEF Goes
<1>20. /\ Extends(c.told, after.told) /\ Extends(q.told, c.told)
       /\ Latest(q.told, c.told, start)
  BY <1>9, <1>11, <1>12 DEF Quiets, Goes, SpeaksOn
<1>21. LetOut(q.told, p.held.line, text)
  <2>1. PICK j \in DOMAIN q.told : q.told[j] = start /\ \A i \in DOMAIN c.told : i < j
    BY <1>20 DEF Latest
  <2>2. \A part : Within(part, typed) => Repeated(q.told, j, part)
    BY <1>3, <1>17, <2>1 DEF Repeated
  <2>3. CASE text = <<>>
    <3>1. Within(<<>>, typed) /\ Len(text) = 0 /\ 0 \in 0..Len(text)
          /\ SubSeq(text, 1, 0) = <<>> /\ SubSeq(text, 0 + 1, Len(text)) = <<>>
      BY <1>2, <2>3, EmptyIsWithin, WholeIs
    <3>2. Repeated(q.told, j, <<>>)
      BY <2>2, <3>1
    <3> QED BY <2>1, <3>1, <3>2, Zenon DEF LetOut
  <2>4. CASE text # <<>> /\ before = NoText
    <3>1. NoText # <<>>
      BY DEF NoText
    <3>2. IsShown(after.told, p.held.line, text)
      BY <1>15, <1>18, <1>19, <2>4, <3>1
    <3>3. IsShown(q.told, p.held.line, text)
      BY <1>20, <3>2, LetOutStays
    <3> QED BY <1>2, <3>3, ShownIsLetOut DEF IsShown
  <2>5. CASE text # <<>> /\ before # NoText
    <3>1. PICK n \in 0..Len(text) : /\ before = SubSeq(text, 1, n)
                                    /\ Within(SubSeq(text, n + 1, Len(text)), typed)
      BY <1>16, <2>5
    <3>2. Repeated(q.told, j, SubSeq(text, n + 1, Len(text)))
      BY <2>2, <3>1
    <3>3. CASE before = <<>>
      BY <2>1, <3>1, <3>2, <3>3 DEF LetOut
    <3>4. CASE before # <<>>
      <4>1. IsShown(after.told, p.held.line, before)
        BY <1>15, <1>18, <1>19, <2>5, <3>4
      <4>2. IsShown(c.told, p.held.line, before)
        BY <1>20, <4>1, LetOutStays
      <4>3. PICK i \in DOMAIN c.told : Shown(c.told, i, p.held.line, before)
        BY <4>2 DEF IsShown
      <4>4. i \in DOMAIN q.told /\ i < j /\ Shown(q.told, i, p.held.line, before)
        BY <1>20, <2>1, <4>3 DEF Extends, Shown
      <4> QED BY <2>1, <3>1, <3>2, <4>4 DEF LetOut
    <3> QED BY <3>3, <3>4
  <2> QED BY <2>3, <2>4, <2>5
<1> QED BY <1>1, <1>13, <1>14, <1>21 DEF text

\* What is no echo leaves what is held alone.
LEMMA BoundarySpeaks ==
  ASSUME NEW p, Telling(p), p.submitted \in Seq(Submission), Texted(p.held),
         NEW region, NEW id, NEW text \in Seq(Tokens), NEW revision
  PROVE  LET q == boundary(p, region, id, text, revision)
         IN  /\ Quiets(q, p)
             /\ \/ q.held = NoHeld /\ LetOut(q.told, p.held.line, p.held.text)
                \/ q.held = p.held /\ q.submitted = p.submitted
<1> DEFINE q == boundary(p, region, id, text, revision)
           grown == IF revision = "Appended" THEN p.row \o text ELSE text
           from == Max({0, Len(grown) - window(p)})
           cut == SubSeq(grown, 1 + from, Len(grown))
           which == echoed(p, cut)
           whole == IF revision = "Appended" THEN NoText ELSE text
<1>1. \/ q = [p EXCEPT !.row = <<>>]
      \/ q = [p EXCEPT !.row = cut]
      \/ which # {} /\ q = Echoed(p, Min(which), whole)
  BY DEF boundary
<1>2. /\ which \subseteq 1..Len(p.submitted)
      /\ \A i \in which : IsSuffix(p.submitted[i].line, cut)
  BY DEF echoed, EndsWithWord
<1>5. ASSUME which # {}, revision # "Appended"
      PROVE  \A i \in which : EndsIn(text, p.submitted[i].line)
  <2>1. grown = text /\ Len(text) \in Nat
    BY <1>5
  <2> HIDE DEF which
  <2>2. p.submitted # <<>> /\ window(p) \in Nat
    <3>1. p.submitted # <<>>
      <4>1. SUFFICES ASSUME p.submitted = <<>> PROVE FALSE
        OBVIOUS
      <4>2. Len(p.submitted) = 0
        BY <4>1
      <4>3. PICK i \in which : i \in 1..Len(p.submitted)
        BY <1>2, <1>5
      <4> QED BY <4>2, <4>3
    <3>2. window(p) # 0 => window(p) \in Nat
      BY WindowIsWide
    <3> QED BY <3>1, <3>2
  <2>3. from \in Nat /\ from <= Len(text)
    <3> DEFINE over == Len(text) - window(p)
    <3>1. over \in Int /\ over <= Len(text)
      BY <2>1, <2>2
    <3>2. from = Max({0, over})
      BY <2>1
    <3> HIDE DEF over, from
    <3>3. \E x \in {0, over} : \A y \in {0, over} : x >= y
      BY <3>1
    <3>4. Max({0, over}) \in {0, over} /\ \A y \in {0, over} : Max({0, over}) >= y
      BY <3>3 DEF Max
    <3> QED BY <2>1, <3>1, <3>2, <3>4
  <2> HIDE DEF from
  <2>4. cut = SubSeq(text, from + 1, Len(text))
    <3>1. 1 + from = from + 1
      BY <2>3
    <3>2. cut = SubSeq(text, 1 + from, Len(text))
      BY <2>1
    <3> QED BY <3>1, <3>2
  <2> HIDE DEF cut
  <2>5. cut \in Seq(Tokens) /\ Len(cut) = Len(text) - from
        /\ \A i \in 1..(Len(text) - from) : cut[i] = text[from + i]
    <3> DEFINE part == SubSeq(text, from + 1, Len(text))
    <3>1. part \in Seq(Tokens) /\ Len(part) = Len(text) - from
          /\ \A i \in 1..(Len(text) - from) : part[i] = text[from + i]
      BY <2>1, <2>3, PartIs
    <3> QED BY <2>4, <3>1
  <2> SUFFICES ASSUME NEW i \in which PROVE EndsIn(text, p.submitted[i].line)
    OBVIOUS
  <2> DEFINE typed == p.submitted[i].line
  <2>6. typed \in Seq(Tokens) /\ IsSuffix(typed, cut)
    <3>1. p.submitted[i] \in Submission
      BY <1>2
    <3> QED BY <1>2, <3>1 DEF Submission
  <2> HIDE DEF typed
  <2>7. EndsIn(cut, typed) /\ Len(typed) \in Nat
    BY <2>5, <2>6, SuffixEnds
  <2>8. Len(typed) <= Len(text)
    BY <2>1, <2>3, <2>5, <2>7 DEF EndsIn
  <2>9. \A k \in 1..Len(typed) : typed[k] = text[Len(text) - Len(typed) + k]
    <3> SUFFICES ASSUME NEW k \in 1..Len(typed)
                 PROVE  typed[k] = text[Len(text) - Len(typed) + k]
      OBVIOUS
    <3> DEFINE l == Len(cut) - Len(typed) + k
    <3>1. l \in 1..(Len(text) - from) /\ from + l = Len(text) - Len(typed) + k
      BY <2>1, <2>3, <2>5, <2>7 DEF EndsIn
    <3>2. typed[k] = cut[l]
      BY <2>7 DEF EndsIn
    <3> QED BY <2>5, <3>1, <3>2
  <2> QED BY <2>8, <2>9 DEF EndsIn, typed
<1> HIDE DEF q, cut, which
<1>3. ASSUME NEW row, q = [p EXCEPT !.row = row]
      PROVE  Quiets(q, p) /\ q.held = p.held /\ q.submitted = p.submitted
  <2>1. Goes(q, p)
    BY <1>3, SilentFields
  <2>2. q.submitted = p.submitted
    BY <1>3 DEF Telling, NewPump
  <2> QED BY <2>1, <2>2, SpeechQuiets DEF Goes
<1>4. CASE which # {} /\ q = Echoed(p, Min(which), whole)
  <2>1. 1..Len(p.submitted) \subseteq Nat
    OBVIOUS
  <2>2. Min(which) \in which
    BY <1>2, <1>4, <2>1, MinIsIn
  <2>4. \/ whole = NoText
        \/ whole \in Seq(Tokens) /\ EndsIn(whole, p.submitted[Min(which)].line)
    BY <1>4, <1>5, <2>2
  <2> HIDE DEF whole
  <2>3. Quiets(q, p) /\ LetOut(q.told, p.held.line, p.held.text) /\ q.held = NoHeld
    BY <1>2, <1>4, <2>2, <2>4, EchoedSpeaks
  <2> QED BY <2>3 DEF q
<1> QED BY <1>1, <1>3, <1>4 DEF q

LEMMA BlockStartedSpeaks ==
  ASSUME NEW p, Telling(p)
  PROVE  LET q == block_started(p) IN Quiets(q, p) /\ q.held = p.held
<1> DEFINE echo == IF p.echo.text = <<>> THEN NoText ELSE p.echo.text
           taken == [p EXCEPT !.echo = [prompt |-> <<>>, text |-> <<>>]]
           c == close(taken, NoExit)
           claimed == claim(c, echo)
           r == claimed.pump
           typed == IF echo # NoText THEN echo ELSE claimed.line
           u == settle_running(open_unshown(r, claimed.id))
           o == settle_running(open(r, claimed.id, typed))
<1>1. block_started(p) \in {taken, u, o}
  BY DEF block_started
<1>2. Goes(taken, p) /\ Telling(taken)
  BY SilentFields DEF Goes, SpeaksOn
<1> HIDE DEF taken, echo
<1>3. Quiets(c, taken) /\ c.held = taken.held /\ Telling(c)
  BY <1>2, CloseSpeaks DEF Quiets
<1> HIDE DEF c
<1>4. Goes(r, c) /\ Telling(r)
  <2>1. \E index : r = adopt(c, index) \/ r = [c EXCEPT !.nextId = c.nextId + 1]
    BY DEF claim
  <2>2. Goes(r, c)
    <3>1. PICK index : r = adopt(c, index) \/ r = [c EXCEPT !.nextId = c.nextId + 1]
      BY <2>1
    <3>2. Goes(adopt(c, index), c)
      BY <1>3, AdoptSpeaks
    <3> DEFINE n == c.nextId + 1
    <3> HIDE DEF n
    <3>3. Goes([c EXCEPT !.nextId = n], c)
      BY <1>3, SilentFields
    <3> QED BY <3>1, <3>2, <3>3 DEF n
  <2> QED BY <2>2 DEF Goes, SpeaksOn
<1> HIDE DEF claimed, typed, r
<1>5. Goes(o, r)
  BY <1>4, OpenSpeaks
<1>6. Goes(u, r)
  <2> DEFINE w == open_unshown(r, claimed.id)
  <2>1. Goes(w, r) /\ Telling(w)
    BY <1>4, SilentFields DEF Goes, SpeaksOn, open_unshown
  <2> HIDE DEF w
  <2>2. Goes(settle_running(w), w)
    BY <2>1, SettleSpeaks
  <2>3. Goes(settle_running(w), r)
    BY <2>1, <2>2, GoesOnAndOn
  <2> QED BY <2>3 DEF w
<1> HIDE DEF u, o
<1>7. \A q : Goes(q, r) => Quiets(q, p) /\ q.held = p.held
  <2> SUFFICES ASSUME NEW q, Goes(q, r) PROVE Quiets(q, p) /\ q.held = p.held
    OBVIOUS
  <2>1. Goes(q, c)
    BY <1>4, GoesOnAndOn
  <2>2. Quiets(q, taken)
    BY <1>3, <2>1, QuietsThenSpeaks DEF Goes
  <2> QED BY <1>2, <1>3, <2>1, <2>2, SpeaksThenQuiets DEF Goes
<1>8. Quiets(taken, p) /\ taken.held = p.held
  BY <1>2, SpeechQuiets DEF Goes
<1> QED BY <1>1, <1>5, <1>6, <1>7, <1>8

LEMMA PromptFinishedSpeaks ==
  ASSUME NEW p, Telling(p), NEW now
  PROVE  Goes(prompt_finished(p, now), p)
<1> DEFINE q == prompt_finished(p, now)
           bare == [p EXCEPT !.drawing = NoText]
           told == [bare EXCEPT !.standing = p.drawing]
           word == PromptDrawn(p.drawing)
<1>1. q \in {p, bare, Tell(told, word)}
  BY DEF prompt_finished
<1>2. Goes(p, p) /\ Goes(bare, p) /\ Telling(bare)
  BY SilentFields DEF Goes, SpeaksOn
<1> HIDE DEF q, bare
<1>3. Goes(told, bare) /\ Telling(told)
  BY <1>2, SilentFields DEF Goes, SpeaksOn
<1>4. ~IsEnding(word) /\ ~IsUnmute(word)
  BY DEF PromptDrawn, IsEnding, IsUnmute
<1> HIDE DEF told, word
<1>5. Goes(Tell(told, word), told)
  BY <1>3, <1>4, TellSpeaks
<1> QED BY <1>1, <1>2, <1>3, <1>5, GoesOnAndOn DEF q

LEMMA DrawnSpeaks ==
  ASSUME NEW p, Telling(p), NEW now, NEW region, NEW text, NEW revision
  PROVE  Goes(drawn(p, now, region, text, revision), p)
<1>1. Goes(p, p) /\ \A v : Goes([p EXCEPT !.drawing = v], p)
  BY SilentFields
<1>2. Goes(prompt_finished(p, now), p)
  BY PromptFinishedSpeaks
<1> QED BY <1>1, <1>2 DEF drawn

\* What is said of a row ends quietly, and what was held, or is now with what
\* is said, is let out or stays.
Spoken(q, p, texts) ==
    /\ Quiets(q, p)
    /\ Texted(q.held)
    /\ p.held.text # <<>> =>
          \E text \in texts : \/ LetOut(q.told, p.held.line, text)
                              \/ q.held.line = p.held.line /\ q.held.text = text

LEMMA GoesThenSpoken ==
  ASSUME NEW p, NEW q, NEW r, NEW texts, Goes(q, p), Spoken(r, q, texts)
  PROVE  Spoken(r, p, texts)
<1>1. Quiets(r, p)
  BY SpeaksThenQuiets DEF Goes, Spoken
<1> QED BY <1>1 DEF Goes, Spoken

LEMMA SpokenThenGoes ==
  ASSUME NEW p, NEW q, NEW r, NEW texts, Spoken(q, p, texts), Goes(r, q)
  PROVE  Spoken(r, p, texts)
<1>1. Quiets(r, p)
  BY QuietsThenSpeaks DEF Goes, Spoken
<1>2. \A row, text : LetOut(q.told, row, text) => LetOut(r.told, row, text)
  BY LetOutStays DEF Goes, SpeaksOn
<1> QED BY <1>1, <1>2 DEF Goes, Spoken

LEMMA GoingIsSpoken ==
  ASSUME NEW p, NEW q, NEW texts, Goes(q, p), Texted(p.held), p.held.text \in texts
  PROVE  Spoken(q, p, texts)
BY SpeechQuiets DEF Goes, Spoken

LEMMA RowHeardSpeaks ==
  ASSUME NEW p, Telling(p), NEW now, NEW region, NEW id, NEW text, NEW revision
  PROVE  Goes(RowHeard(p, now, region, id, text, revision), p)
<1> DEFINE prior   == drawn(p, now, region, text, revision)
           lines   == [prior.lines EXCEPT ![id] = Recorded(@, text, revision)]
           echo    == observe_echo(prior.echo, region, text, revision)
           cursor  == IF revision = "Settled" THEN prior.cursor ELSE id
           heard   == [prior EXCEPT !.echo = echo, !.cursor = cursor, !.lines = lines]
<1>1. Goes(prior, p) /\ Telling(prior)
  BY DrawnSpeaks DEF Goes, SpeaksOn
<1>2. RowHeard(p, now, region, id, text, revision) = heard
  BY DEF RowHeard
<1> HIDE DEF prior, lines, echo, cursor
<1>3. Goes(heard, prior)
  BY <1>1 DEF Telling, Goes, SpeaksOn, NewPump, Extends
<1> QED BY <1>1, <1>2, <1>3, GoesOnAndOn

LEMMA LineSpeaks ==
  ASSUME NEW p, NEW A, NEW O, NEW L, Whole(p, A, O, L, L), Telling(p), Texted(p.held),
         NEW now, NEW region, NEW id \in Rows, NEW text \in Seq(Tokens),
         NEW revision \in Revisions,
         NEW texts, p.held.text \in texts,
         id = p.held.line => Grown(p.held, revision, text) \in texts
  PROVE  Spoken(line(p, now, region, id, text, revision), p, texts)
<1> DEFINE heard   == RowHeard(p, now, region, id, text, revision)
           news   == due(p.lines[id], text, revision)
           passed == IF news = NoDue \/ ~wants(p, region) THEN heard
                     ELSE IF p.open # NoCommand /\ ~pending_echo(p, id)
                     THEN output(heard, id, news)
                     ELSE hold(heard, id, news)
           b      == boundary(passed, region, id, text, revision)
           q      == IF b.submitted = <<>> THEN spill(b) ELSE b
<1>1. CASE recoloured(p, id, text, revision)
  <2> DEFINE word == Output(id, [revision |-> "Rewritten", text |-> text, spoken |-> FALSE])
  <2>1. line(p, now, region, id, text, revision) \in {p, Tell(p, word)}
    BY <1>1 DEF line, recolour
  <2>2. ~IsEnding(word) /\ ~IsUnmute(word)
    BY DEF Output, IsEnding, IsUnmute
  <2> HIDE DEF word
  <2>3. Goes(p, p) /\ Goes(Tell(p, word), p)
    BY <2>2, TellSpeaks, SilentFields
  <2> QED BY <2>1, <2>3, GoingIsSpoken
<1>2. CASE ~recoloured(p, id, text, revision)
  <2>1. line(p, now, region, id, text, revision) = q
    BY <1>2 DEF line, RowHeard
  <2>2. /\ Goes(heard, p) /\ Telling(heard)
        /\ Whole(heard, A, O, L, L) /\ heard.open = p.open
        /\ heard.submitted \in Seq(Submission)
    <3>1. Goes(heard, p) /\ Whole(heard, A, O, L, L) /\ heard.open = p.open
      BY RowHeardSpeaks, RowHeardIsWhole
    <3> HIDE DEF heard
    <3> QED BY <3>1 DEF Goes, SpeaksOn, Whole, Sound, Formed
  <2>10. news # NoDue => news.revision = revision /\ news.text = text
    BY DEF due
  <2> DEFINE row == p.held.line
  <2>11. /\ heard.held = p.held /\ Texted(heard.held)
         /\ Grown(p.held, revision, text) \in Seq(Tokens)
    BY <2>2 DEF Goes, Grown, Texted
  <2> HIDE DEF heard, news
  <2>3. /\ SpeaksOn(passed, heard) /\ passed.submitted = heard.submitted
        /\ Texted(passed.held)
        /\ p.held.text # <<>> =>
              \/ passed.held = p.held
              \/ \E t \in texts : LetOut(passed.told, row, t)
              \/ /\ passed.held.line = row /\ passed.held.text \in texts
                 /\ passed.submitted # <<>>
    <3>1. CASE passed = heard
      BY <2>2, <2>11, <3>1, SilentFields DEF Goes
    <3>2. CASE p.open # NoCommand /\ passed = output(heard, id, news)
      BY <2>2, <2>11, <3>2, OutputSpeaks, OutputPublishes DEF Goes, Published
    <3>3. CASE passed = hold(heard, id, news) /\ news # NoDue
      <4> HIDE DEF passed
      <4>1. passed.submitted = heard.submitted
        BY <2>2, <3>3, HoldPublishes DEF Published
      <4>2. news.revision = revision /\ news.text = text
        BY <2>10, <3>3
      <4>3. /\ SpeaksOn(passed, heard) /\ Texted(passed.held)
            /\ p.held.text # <<>> =>
                  \/ IsShown(passed.told, row, p.held.text)
                  \/ id = row /\ IsShown(passed.told, id, Grown(p.held, revision, text))
                  \/ /\ id = row /\ passed.held.line = id /\ passed.submitted # <<>>
                     /\ passed.held.text = Grown(p.held, revision, text)
        <5>1. /\ SpeaksOn(passed, heard) /\ Texted(passed.held)
              /\ heard.held.text # <<>> =>
                    \/ IsShown(passed.told, heard.held.line, heard.held.text)
                    \/ /\ id = heard.held.line /\ passed.held = NoHeld
                       /\ IsShown(passed.told, id, Grown(heard.held, news.revision, news.text))
                    \/ /\ id = heard.held.line /\ passed.held.line = id
                       /\ passed.submitted # <<>>
                       /\ passed.held.text = Grown(heard.held, news.revision, news.text)
          BY <2>2, <2>11, <3>3, <4>1, <4>2, HoldSpeaks
        <5> QED BY <2>11, <4>2, <5>1
      <4>4. \A t \in Seq(Tokens) : IsShown(passed.told, row, t) => LetOut(passed.told, row, t)
        BY ShownIsLetOut DEF IsShown
      <4> QED BY <2>11, <4>1, <4>3, <4>4 DEF Texted
    <3> QED BY <3>1, <3>2, <3>3
  <2> HIDE DEF passed, row
  <2>4. /\ Quiets(b, passed)
        /\ \/ b.held = NoHeld /\ LetOut(b.told, passed.held.line, passed.held.text)
           \/ b.held = passed.held /\ b.submitted = passed.submitted
    BY <2>2, <2>3, BoundarySpeaks DEF SpeaksOn
  <2> HIDE DEF b
  <2>5. Telling(b) /\ Quiets(b, heard)
    BY <2>3, <2>4, SpeaksThenQuiets DEF Quiets
  <2>6. SpeaksOn(spill(b), b) /\ spill(b).held = NoHeld
        /\ (b.held.text # <<>> => IsShown(spill(b).told, b.held.line, b.held.text))
    BY <2>5, SpillSpeaks
  <2>7. Quiets(q, heard) /\ Extends(q.told, b.told) /\ q.held \in {NoHeld, b.held}
    <3>1. Quiets(spill(b), heard)
      BY <2>5, <2>6, QuietsThenSpeaks
    <3>2. Extends(b.told, b.told)
      BY DEF Extends
    <3> QED BY <2>5, <2>6, <3>1, <3>2 DEF SpeaksOn
  <2>12. Texted(q.held)
    <3>1. Texted(NoHeld)
      BY DEF Texted, NoHeld
    <3> QED BY <2>3, <2>4, <2>7, <3>1
  <2>13. \A t : LetOut(b.told, row, t) => LetOut(q.told, row, t)
    BY <2>7, LetOutStays
  <2>8. p.held.text # <<>> =>
           \E t \in texts : \/ LetOut(q.told, row, t)
                            \/ q.held.line = row /\ q.held.text = t
    <3> SUFFICES ASSUME p.held.text # <<>>
                 PROVE  \E t \in texts : \/ LetOut(q.told, row, t)
                                         \/ q.held.line = row /\ q.held.text = t
      OBVIOUS
    <3>1. CASE passed.held = p.held
      <4>1. CASE LetOut(b.told, row, p.held.text)
        BY <2>13, <4>1
      <4>2. CASE b.held = p.held
        <5>1. CASE b.submitted = <<>>
          <6>1. IsShown(q.told, row, p.held.text) /\ p.held.text \in Seq(Tokens)
            BY <2>6, <4>2, <5>1 DEF row, Texted
          <6>2. LetOut(q.told, row, p.held.text)
            BY <6>1, ShownIsLetOut DEF IsShown
          <6> QED BY <6>2
        <5>2. CASE b.submitted # <<>>
          BY <4>2, <5>2 DEF row
        <5> QED BY <5>1, <5>2
      <4> QED BY <2>4, <3>1, <4>1, <4>2 DEF row
    <3>2. CASE \E t \in texts : LetOut(passed.told, row, t)
      <4>1. \A t : LetOut(passed.told, row, t) => LetOut(b.told, row, t)
        BY <2>4, LetOutStays DEF Quiets
      <4> QED BY <2>13, <3>2, <4>1
    <3>3. CASE /\ passed.held.line = row /\ passed.held.text \in texts
               /\ passed.submitted # <<>>
      BY <2>4, <2>13, <3>3
    <3> QED BY <2>3, <3>1, <3>2, <3>3
  <2> HIDE DEF q
  <2>9. Spoken(q, heard, texts)
    BY <2>7, <2>8, <2>11, <2>12 DEF Spoken, row
  <2> QED BY <2>1, <2>2, <2>9, GoesThenSpoken
<1> QED BY <1>1, <1>2

LEMMA HeardSpeaks ==
  ASSUME NEW p, NEW A, NEW O, NEW L, Whole(p, A, O, L, L), Telling(p), Texted(p.held),
         NEW now, NEW event \in Event,
         NEW texts, p.held.text \in texts,
         event.kind = "Line" /\ event.id = p.held.line =>
            Grown(p.held, event.revision, event.text) \in texts
  PROVE  Spoken(Heard(p, now, event), p, texts)
<1> DEFINE n == [p EXCEPT !.standing = NoText]
           t == [p EXCEPT !.integration = "Integrated"]
           word == Told("MarkersObserved")
           q == CASE event.kind = "MarkersObserved" -> Tell(t, word)
                  [] event.kind = "BlockStarted" -> block_started(n)
                  [] event.kind = "BlockEnded"   -> close(n, event.exit)
                  [] event.kind = "Line" ->
                        line(p, now, event.region, event.id, event.text, event.revision)
<1>1. Heard(p, now, event) = prompt_finished(q, now)
  BY DEF Heard
<1>2. Goes(n, p) /\ Telling(n) /\ Goes(t, p) /\ Telling(t) /\ n.held = p.held
  BY SilentFields DEF Goes, SpeaksOn
<1>3. ~IsEnding(word) /\ ~IsUnmute(word)
  BY DEF Told, IsEnding, IsUnmute
<1>4. event.kind \in {"MarkersObserved", "BlockStarted", "BlockEnded", "Line"}
  BY DEF Event
<1> HIDE DEF n, t, word
<1>11. \A r : Quiets(r, n) /\ r.held = n.held => Spoken(r, n, texts)
  BY <1>2 DEF Spoken
<1>5. ASSUME event.kind = "MarkersObserved" PROVE Spoken(q, p, texts)
  <2>1. q = Tell(t, word)
    BY <1>5
  <2>2. Goes(Tell(t, word), t)
    BY <1>2, <1>3, TellSpeaks
  <2> QED BY <1>2, <2>1, <2>2, GoesOnAndOn, GoingIsSpoken
<1>6. ASSUME event.kind = "BlockStarted" PROVE Spoken(q, p, texts)
  <2>1. q = block_started(n)
    BY <1>6
  <2>2. Spoken(block_started(n), n, texts)
    BY <1>2, <1>11, BlockStartedSpeaks
  <2> QED BY <1>2, <2>1, <2>2, GoesThenSpoken
<1>7. ASSUME event.kind = "BlockEnded" PROVE Spoken(q, p, texts)
  <2>1. q = close(n, event.exit)
    BY <1>7
  <2>2. Spoken(close(n, event.exit), n, texts)
    BY <1>2, <1>11, CloseSpeaks
  <2> QED BY <1>2, <2>1, <2>2, GoesThenSpoken
<1>8. ASSUME event.kind = "Line" PROVE Spoken(q, p, texts)
  <2>1. q = line(p, now, event.region, event.id, event.text, event.revision)
    BY <1>8
  <2>2. event.id \in Rows /\ event.revision \in Revisions /\ event.text \in Seq(Tokens)
    BY <1>8 DEF Event, Revisions
  <2>3. event.id = p.held.line => Grown(p.held, event.revision, event.text) \in texts
    BY <1>8
  <2> QED BY <2>1, <2>2, <2>3, LineSpeaks
<1>9. Spoken(q, p, texts)
  BY <1>4, <1>5, <1>6, <1>7, <1>8
<1> HIDE DEF q
<1>10. Goes(prompt_finished(q, now), q)
  BY <1>9, PromptFinishedSpeaks DEF Spoken, Quiets
<1> QED BY <1>1, <1>9, <1>10, SpokenThenGoes

LEMMA SubmitLineSpeaks ==
  ASSUME NEW p, Telling(p), NEW id, NEW typed, NEW ours
  PROVE  Goes(submit_line(p, id, typed, ours), p)
<1> DEFINE more == Append(p.submitted, [id |-> id, line |-> typed, ours |-> ours])
           r == [p EXCEPT !.submitted = more, !.pendingRow = p.cursor]
           q == IF typed = <<>> THEN p ELSE r
<1>1. submit_line(p, id, typed, ours) = settle_running(q)
  BY DEF submit_line
<1> HIDE DEF more
<1>2. Goes(q, p) /\ Telling(q)
  <2>1. Goes(r, p) /\ Goes(p, p)
    BY SilentFields
  <2>2. q \in {p, r}
    OBVIOUS
  <2> HIDE DEF q, r
  <2> QED BY <2>1, <2>2 DEF Goes, SpeaksOn
<1> HIDE DEF q
<1>3. Goes(settle_running(q), q)
  BY <1>2, SettleSpeaks
<1> QED BY <1>1, <1>2, <1>3, GoesOnAndOn

LEMMA SetUpSpeaks ==
  ASSUME NEW p, Telling(p)
  PROVE  Goes(set_up(p), p)
<1>1. CASE p.cursor = NoRow \/ p.setup = <<>>
  BY <1>1, SilentFields DEF set_up
<1>2. CASE ~(p.cursor = NoRow \/ p.setup = <<>>)
  <2> DEFINE on == TRUE
             word == SelfTalk(on)
             s == [p EXCEPT !.setup = <<>>, !.nextId = @ + 1, !.selfTalk = p.nextId]
             q == submit_line(Tell(s, word), p.nextId, p.setup, on)
  <2>1. set_up(p) = q
    BY <1>2 DEF set_up
  <2>2. Goes(s, p) /\ Telling(s)
    BY DEF Telling, Goes, SpeaksOn, NewPump, Extends
  <2>3. ~IsEnding(word) /\ ~IsUnmute(word)
    BY DEF SelfTalk, IsEnding, IsUnmute
  <2> HIDE DEF s, word, on
  <2>4. Goes(Tell(s, word), s) /\ Telling(Tell(s, word))
    BY <2>2, <2>3, TellSpeaks DEF Goes, SpeaksOn
  <2>5. Goes(q, Tell(s, word))
    BY <2>4, SubmitLineSpeaks
  <2> QED BY <2>1, <2>2, <2>4, <2>5, GoesOnAndOn
<1> QED BY <1>1, <1>2

LEMMA GraceSpeaks ==
  ASSUME NEW p, Telling(p), Texted(p.held), NEW texts, p.held.text \in texts
  PROVE  Spoken(grace_expired(p), p, texts)
<1> DEFINE settled == IF p.integration = "Pending" THEN "Unintegrated" ELSE p.integration
           r == [p EXCEPT !.integration = settled]
           word == Told("GracePeriodExpired")
           told == Tell(r, word)
           off == FALSE
           n == [told EXCEPT !.selfTalk = NoCommand]
           t == IF p.selfTalk = NoCommand THEN told ELSE Tell(n, SelfTalk(off))
<1>1. grace_expired(p) = settle_running(t)
  BY DEF grace_expired
<1>2. ~IsEnding(word) /\ ~IsUnmute(word)
  BY DEF Told, IsEnding, IsUnmute
<1> HIDE DEF settled, word, off
<1>3. Goes(r, p) /\ Telling(r)
  BY SilentFields DEF Goes, SpeaksOn
<1> HIDE DEF r
<1>4. Goes(told, r) /\ Telling(told)
  BY <1>2, <1>3, TellSpeaks DEF Goes, SpeaksOn
<1> HIDE DEF told
<1>5. Goes(n, told) /\ Telling(n)
  BY <1>4, SilentFields DEF Goes, SpeaksOn
<1>6. Goes(told, p) /\ Goes(n, p)
  BY <1>3, <1>4, <1>5, GoesOnAndOn
<1> HIDE DEF n
<1>7. /\ Telling(Tell(n, SelfTalk(off))) /\ Tell(n, SelfTalk(off)).held = n.held
      /\ Unmuteless(n.told) => Quieted(Tell(n, SelfTalk(off)).told)
      /\ Extends(Tell(n, SelfTalk(off)).told, n.told)
  BY <1>5, AnyTell
<1>8. Plain(n.told) => Unmuteless(n.told)
  BY DEF Plain, Unmuteless
<1>9. Spoken(Tell(n, SelfTalk(off)), n, texts)
  BY <1>6, <1>7, <1>8 DEF Spoken, Quiets, Goes
<1>10. Spoken(t, p, texts) /\ Telling(t)
  <2>1. Spoken(Tell(n, SelfTalk(off)), p, texts)
    BY <1>6, <1>9, GoesThenSpoken
  <2>2. Spoken(told, p, texts)
    BY <1>6, GoingIsSpoken
  <2> QED BY <2>1, <2>2 DEF Spoken, Quiets
<1> HIDE DEF t
<1>11. Goes(settle_running(t), t)
  BY <1>10, SettleSpeaks
<1> QED BY <1>1, <1>10, <1>11, SpokenThenGoes

\* A step tells what it tells from nothing.
LEMMA FreshTells ==
  ASSUME NEW p, DOMAIN p = DOMAIN NewPump(<<>>)
  PROVE  LET q == Fresh(p)
         IN  Telling(q) /\ q.held = p.held /\ Plain(q.told)
<1> DEFINE q == Fresh(p)
<1>1. DOMAIN q = DOMAIN p /\ q.told = <<>> /\ q.held = p.held
  BY DEF Fresh, NewPump
<1>2. IsSeq(q.told)
  BY <1>1 DEF IsSeq
<1>3. Plain(q.told)
  BY <1>1 DEF Plain
<1> HIDE DEF q
<1>4. Telling(q) /\ q.held = p.held /\ Plain(q.told)
  BY <1>1, <1>2, <1>3 DEF Telling
<1> QED BY <1>4 DEF q

StepSpeaks ==
    /\ Quieted(pump'.told)
    /\ Texted(pump'.held)
    /\ pump.held.text # <<>> /\ ~Disconnect =>
          \E text \in HeldTexts :
             \/ pump'.held.line = pump.held.line /\ pump'.held.text = text
             \/ LetOut(pump'.told, pump.held.line, text)

LEMMA NextSpeaks == IInv /\ Texted(pump.held) /\ Next => StepSpeaks
<1> SUFFICES ASSUME IInv, Texted(pump.held), Next PROVE StepSpeaks
  OBVIOUS
<1> DEFINE A == Range(asked)
           L == Ids(inbox)
           p == Fresh(pump)
           now == tracker.region
<1>1. Whole(p, A, own, L, L)
  BY FreshIsWhole DEF IInv
<1>2. DOMAIN pump = DOMAIN NewPump(<<>>)
  BY DEF IInv, Whole, Sound, Formed
<1>3. Telling(p) /\ p.held = pump.held /\ Plain(p.told)
  BY <1>2, FreshTells
<1>16. ASSUME Disconnect PROVE StepSpeaks
  <2> DEFINE q == [p EXCEPT !.held = NoHeld]
             word == Told("Disconnected")
  <2>1. pump' = Tell(q, word)
    BY <1>16 DEF Disconnect
  <2>2. ~IsEnding(word) /\ ~IsUnmute(word)
    BY DEF Told, IsEnding, IsUnmute
  <2> HIDE DEF p, word
  <2>3. SpeaksOn(q, p) /\ q.held = NoHeld /\ Telling(q)
    BY <1>3, SilentFields DEF SpeaksOn
  <2> HIDE DEF q
  <2>4. Goes(Tell(q, word), q)
    BY <2>2, <2>3, TellSpeaks
  <2>5. Quieted(Tell(q, word).told)
    BY <1>3, <2>3, <2>4, PlainIsQuieted DEF Goes, SpeaksOn
  <2>6. Texted(Tell(q, word).held)
    BY <2>3, <2>4 DEF Goes, Texted, NoHeld
  <2> QED BY <1>16, <2>1, <2>5, <2>6 DEF StepSpeaks
<1>17. pump.held.text \in HeldTexts
  BY DEF HeldTexts
<1>4. ASSUME Spoken(pump', p, HeldTexts) PROVE StepSpeaks
  BY <1>3, <1>4 DEF Spoken, Quiets, StepSpeaks
<1> SUFFICES ASSUME ~Disconnect PROVE Spoken(pump', p, HeldTexts)
  BY <1>4, <1>16
<1> DEFINE texts == HeldTexts
<1> HIDE DEF texts
<1>18. p.held.text \in texts /\ Texted(p.held)
  BY <1>3, <1>17 DEF texts
<1> SUFFICES Spoken(pump', p, texts)
  BY DEF texts
<1>5. \A q : Goes(q, p) => Spoken(q, p, texts)
  BY <1>18, GoingIsSpoken
<1>6. ASSUME NEW kind \in Quiet PROVE Spoken(Tell(p, Told(kind)), p, texts)
  <2>1. ~IsEnding(Told(kind)) /\ ~IsUnmute(Told(kind))
    BY DEF Told, IsEnding, IsUnmute, Quiet
  <2> QED BY <1>3, <1>5, <2>1, TellSpeaks
<1>7. /\ Goes(p, p) /\ Goes(interrupt(p), p)
      /\ \A v : Goes([p EXCEPT !.nextId = v], p)
      /\ \A v : Goes([p EXCEPT !.running = v], p)
  BY <1>3, SilentFields
<1>8. ASSUME NEW typed \in Lines, Submit(typed) PROVE Spoken(pump', p, texts)
  <2>1. \E v : pump' = [p EXCEPT !.nextId = v]
    BY <1>8 DEF Submit
  <2> QED BY <1>5, <1>7, <2>1
<1>9. CASE Store
  <2> DEFINE on == [p.running EXCEPT !.now = TRUE]
  <2>1. pump' = [p EXCEPT !.running = on]
    BY <1>9 DEF Store
  <2> HIDE DEF on, p
  <2> QED BY <1>5, <1>7, <2>1
<1>10. CASE Press \/ SendInterrupt
  <2>1. pump' = p
    BY <1>10 DEF Press, SendInterrupt
  <2> QED BY <1>5, <1>7, <2>1
<1>11. ASSUME NEW batch \in BoundedSeq(Items, BatchSize), Receive(batch)
       PROVE  Spoken(pump', p, texts)
  <2>1. pump' \in {p, Tell(p, Told("Connected"))}
    BY <1>11 DEF Receive
  <2>2. "Connected" \in Quiet
    BY DEF Quiet
  <2> QED BY <1>5, <1>6, <1>7, <2>1, <2>2
<1>12. CASE Hear
  <2>1. Head(events) \in Event
    BY <1>12 DEF IInv, Hear
  <2>2. pump' = Heard(p, now, Head(events))
    BY <1>12 DEF Hear
  <2> DEFINE event == Head(events)
  <2>3. event.kind = "Line" /\ event.id = p.held.line =>
           Grown(p.held, event.revision, event.text) \in texts
    <3> SUFFICES ASSUME event.kind = "Line", event.id = p.held.line
                 PROVE  Gathered(pump.held, event) \in texts
      BY <1>3 DEF Grown, Gathered
    <3>1. 1 \in DOMAIN events /\ event = events[1]
      BY <1>12 DEF IInv, Hear
    <3> HIDE DEF event
    <3>2. 1 \in {j \in {1} \cap DOMAIN events : events[j].kind = "Line"
                                            /\ events[j].id = pump.held.line}
      BY <1>3, <3>1
    <3> QED BY <3>2 DEF HeldTexts, texts, event
  <2> HIDE DEF p, event
  <2>4. Spoken(Heard(p, now, event), p, texts)
    BY <1>1, <1>3, <1>18, <2>1, <2>3, HeardSpeaks DEF event
  <2> QED BY <2>2, <2>4 DEF event
<1>13. CASE FinishRead
  <2> DEFINE r == prompt_finished(p, now)
  <2>1. pump' = set_up(r)
    BY <1>13 DEF FinishRead
  <2>2. Goes(r, p) /\ Telling(r)
    BY <1>3, PromptFinishedSpeaks DEF Goes, SpeaksOn
  <2> HIDE DEF p, r
  <2>3. Goes(set_up(r), r)
    BY <2>2, SetUpSpeaks
  <2> QED BY <1>5, <2>1, <2>2, <2>3, GoesOnAndOn
<1>14. CASE TakeRequest
  <2> DEFINE off == FALSE
             request == Head(inbox)
  <2>1. pump' \in {submit_line(p, request.id, request.line, off), interrupt(p)}
    BY <1>14 DEF TakeRequest
  <2> HIDE DEF off, p, request
  <2>2. Goes(submit_line(p, request.id, request.line, off), p)
    BY <1>3, SubmitLineSpeaks
  <2> QED BY <1>5, <1>7, <2>1, <2>2
<1>15. CASE GraceExpires
  <2>1. pump' = grace_expired(p)
    BY <1>15 DEF GraceExpires
  <2> QED BY <1>3, <1>18, <2>1, GraceSpeaks
<1>19. CASE SettleRunning
  <2> DEFINE now2 == [now    |-> Head(p.running.stores),
                      stores |-> Tail(p.running.stores)]
  <2>1. pump' = [p EXCEPT !.running = now2]
    BY <1>19 DEF SettleRunning
  <2> HIDE DEF now2, p
  <2> QED BY <1>5, <1>7, <2>1
<1> QED BY <1>8, <1>9, <1>10, <1>11, <1>12, <1>13, <1>14, <1>15, <1>19 DEF Next

LEMMA HeldIsText == Spec => []Texted(pump.held)
<1>1. Init => Texted(pump.held)
  <2>1. Texted(NoHeld)
    BY DEF Texted, NoHeld
  <2>2. Init => pump.held = NoHeld
    BY DEF Init, NewPump
  <2> QED BY <2>1, <2>2
<1>2. IInv /\ Texted(pump.held) /\ [Next]_vars => Texted(pump.held)'
  <2> SUFFICES ASSUME IInv, Texted(pump.held), [Next]_vars PROVE Texted(pump'.held)
    BY DEF Texted
  <2> QED BY NextSpeaks DEF StepSpeaks, vars
<1> QED BY <1>1, <1>2, InvariantHolds, PTL DEF Spec

\* Within a step speech comes back only after the ending was told, so that the
\* flush the ending triggers is quiet too: for every shell and every read.
THEOREM SetupIsQuietToTheEnd == Spec => []SetupEndsInSilence
<1>1. Init => SetupEndsInSilence
  BY DEF Init, NewPump, SetupEndsInSilence
<1>2. IInv /\ Texted(pump.held) /\ SetupEndsInSilence /\ [Next]_vars => SetupEndsInSilence'
  <2> SUFFICES ASSUME IInv, Texted(pump.held), SetupEndsInSilence, [Next]_vars
               PROVE SetupEndsInSilence'
    OBVIOUS
  <2>1. CASE Next
    BY <2>1, NextSpeaks DEF StepSpeaks, Quieted, IsUnmute, IsEnding, SetupEndsInSilence
  <2>2. CASE UNCHANGED vars
    BY <2>2 DEF vars, SetupEndsInSilence
  <2> QED BY <2>1, <2>2
<1> QED BY <1>1, <1>2, HeldIsText, InvariantHolds, PTL DEF Spec

\* Text held back as a possible echo stays held, with what its row says next, until
\* all of it is let out: what is before the echo to the block before, the rest as the
\* line of the command that starts.
THEOREM HeldTextIsLetOut == Spec => HeldTextIsNotLost
<1> DEFINE Kept == pump.held.text # <<>> /\ ~Disconnect =>
                      \E text \in HeldTexts :
                         \/ pump'.held.line = pump.held.line /\ pump'.held.text = text
                         \/ LetOut(pump'.told, pump.held.line, text)
<1>1. IInv /\ Texted(pump.held) /\ [Next]_vars => [Kept]_vars
  <2> SUFFICES ASSUME IInv, Texted(pump.held), Next PROVE Kept
    OBVIOUS
  <2> QED BY NextSpeaks DEF StepSpeaks
<1> QED BY <1>1, HeldIsText, InvariantHolds, PTL DEF Spec, HeldTextIsNotLost
=============================================================================
