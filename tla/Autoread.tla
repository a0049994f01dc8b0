------------------------------ MODULE Autoread ------------------------------
(***************************************************************************)
(* The pacing policy of one running command (policies/autoread.rs) and the *)
(* text it has not announced yet (entities/unspoken_text.rs): pure         *)
(* functions of a pacing state, a text size and an offset from the         *)
(* command's start.  The session actor is the only caller.                 *)
(*                                                                         *)
(* A text is a sequence of tokens.  A token is one piece of terminal text, *)
(* a positive number naming the chunk it came in, and counts as one        *)
(* character; NL is the line ending the actor puts between lines.          *)
(***************************************************************************)
EXTENDS Integers, Sequences, FiniteSets

CONSTANTS Quiescence,   \* silence after which the accumulated text becomes a chunk
          Patience,     \* continuous output for this long is announced once
          MaxLines,     \* more lines, or more characters, is "too big to read"
          MaxChars,
          BabbleLimit   \* consecutive auto-reads before the command goes quiet

ASSUME QuiescenceAssumption  == Quiescence \in Nat \ {0}
ASSUME PatienceAssumption    == Patience \in Nat \ {0}
ASSUME ThresholdAssumption   == MaxLines \in Nat /\ MaxChars \in Nat
ASSUME BabbleLimitAssumption == BabbleLimit \in Nat

NL     == 0
NoTime == -1            \* no wake is wanted, or no timer is armed
Token  == Nat
Text   == Seq(Token)

\* Duration::saturating_sub, which every subtraction of the policy is.
Less(a, b)   == IF a >= b THEN a - b ELSE 0
Sooner(a, b) == IF a <= b THEN a ELSE b

-----------------------------------------------------------------------------
(* Sizes and verdicts.                                                     *)

Size     == [lines : Nat, chars : Nat]
NoSize   == [lines |-> 0, chars |-> 0]
ReadMode == {"Auto", "TooBig", "Quiet"}

Newlines(text)   == Cardinality({i \in DOMAIN text : text[i] = NL})
EndsInNL(text)   == text # <<>> /\ text[Len(text)] = NL

\* Fault: the last character is taken for a line ending.
measureShort(text) ==
    [lines |-> Newlines(text) + (IF text = <<>> \/ EndsInNL(text) THEN 0 ELSE 1),
     chars |-> (Len(text) - Newlines(text)) - 1]

\* Characters are the tokens plus one separator between two lines.
measure(text) ==
    LET lines == Newlines(text)
                 + (IF text = <<>> \/ EndsInNL(text) THEN 0 ELSE 1)
    IN  [lines |-> lines,
         chars |-> (Len(text) - Newlines(text)) + Less(lines, 1)]

verdict(size) ==
    IF size.lines > MaxLines \/ size.chars > MaxChars THEN "TooBig" ELSE "Auto"

-----------------------------------------------------------------------------
(* UnspokenText: once the verdict is "too big" the text is dropped (kept is *)
(* FALSE) and only the counts and the last row stay.                       *)

UnspokenText == [kept : BOOLEAN, text : Text, newlines : Nat, chars : Nat,
                 ended : BOOLEAN, any : BOOLEAN, lastLine : Text]

NothingUnspoken == [kept |-> TRUE, text |-> <<>>, newlines |-> 0, chars |-> 0,
                    ended |-> FALSE, any |-> FALSE, lastLine |-> <<>>]

size(unspoken) ==
    [lines |-> unspoken.newlines
               + (IF unspoken.any /\ ~unspoken.ended THEN 1 ELSE 0),
     chars |-> unspoken.chars]

\* A chunk is the text of one line, after a line ending when the line is new.
LastRow(chunk) == IF Head(chunk) = NL THEN Tail(chunk) ELSE chunk

\* Fault: the text is dropped a chunk late, on the size it had before.
pushLate(unspoken, chunk) ==
    IF chunk = <<>>
    THEN unspoken
    ELSE LET text == unspoken.text \o chunk
             late == unspoken.kept /\ verdict(size(unspoken)) = "TooBig"
         IN  [kept |-> unspoken.kept /\ ~late,
              text |-> IF unspoken.kept /\ ~late THEN text ELSE <<>>,
              newlines |-> unspoken.newlines + Newlines(chunk),
              chars |-> measure(text).chars,
              ended |-> EndsInNL(chunk), any |-> TRUE,
              lastLine |-> LastRow(chunk)]

push(unspoken, chunk) ==
    IF chunk = <<>>
    THEN unspoken
    ELSE LET text  == unspoken.text \o chunk
             grown == [unspoken EXCEPT
                        !.text     = text,
                        !.newlines = @ + Newlines(chunk),
                        !.chars    = measure(text).chars,
                        !.ended    = EndsInNL(chunk),
                        !.any      = TRUE,
                        !.lastLine = IF Head(chunk) = NL
                                     THEN LastRow(chunk) ELSE @ \o chunk]
         IN  IF ~unspoken.kept
             THEN [grown EXCEPT !.text  = <<>>,
                                !.chars = unspoken.chars + Len(chunk)]
             ELSE IF verdict(size(grown)) = "TooBig"
                  THEN [grown EXCEPT !.kept = FALSE, !.text = <<>>]
                  ELSE grown

-----------------------------------------------------------------------------
(* The pacing policy.  An outcome is the next pacing state, the action and *)
(* the delay until the next wake, NoTime for none.                         *)

PacingState == [reads : Nat,              \* consecutive_auto_reads
                patienceFired  : BOOLEAN,
                babbleTripped  : BOOLEAN,
                lastOutputAt    : Nat,
                continuousSince : Nat]

FreshPacing == [reads |-> 0, patienceFired |-> FALSE, babbleTripped |-> FALSE,
                lastOutputAt |-> 0, continuousSince |-> 0]

PacingAction == {"None", "StillRunning", "OutputContinues"} \cup ReadMode

Flushes(action) == action \in ReadMode

Outcome(state, action, wake) ==
    [state |-> state, action |-> action, wake |-> wake]

\* Fault: one read more than the limit.
flushOnceMore(state, unspoken) ==
    IF unspoken = NoSize THEN Outcome(state, "None", NoTime)
    ELSE IF state.babbleTripped THEN Outcome(state, "Quiet", NoTime)
    ELSE IF verdict(unspoken) = "TooBig"
    THEN Outcome([state EXCEPT !.reads = 0], "TooBig", NoTime)
    ELSE IF state.reads > BabbleLimit
    THEN Outcome([state EXCEPT !.babbleTripped = TRUE], "OutputContinues", NoTime)
    ELSE Outcome([state EXCEPT !.reads = @ + 1], "Auto", NoTime)

\* Fault: a flood clears the guard with the streak.
flushForgives(state, unspoken) ==
    IF unspoken = NoSize THEN Outcome(state, "None", NoTime)
    ELSE IF verdict(unspoken) = "TooBig"
    THEN Outcome([state EXCEPT !.reads = 0, !.babbleTripped = FALSE], "TooBig", NoTime)
    ELSE IF state.babbleTripped THEN Outcome(state, "Quiet", NoTime)
    ELSE IF state.reads >= BabbleLimit
    THEN Outcome([state EXCEPT !.babbleTripped = TRUE], "OutputContinues", NoTime)
    ELSE Outcome([state EXCEPT !.reads = @ + 1], "Auto", NoTime)

flush_with_babble_guard(state, unspoken) ==
    IF unspoken = NoSize
    THEN Outcome(state, "None", NoTime)
    ELSE IF state.babbleTripped
    THEN Outcome(state, "Quiet", NoTime)
    ELSE IF verdict(unspoken) = "TooBig"
    THEN Outcome([state EXCEPT !.reads = 0], "TooBig", NoTime)
    ELSE IF state.reads >= BabbleLimit
    THEN Outcome([state EXCEPT !.babbleTripped = TRUE], "OutputContinues", NoTime)
    ELSE Outcome([state EXCEPT !.reads = @ + 1], "Auto", NoTime)

\* Fault: the window starts again whenever a wake is asked for.
next_wakeAnew(state, at) ==
    IF state.patienceFired
    THEN Quiescence
    ELSE Sooner(Quiescence, Less(Patience, Less(at, state.continuousSince)))

next_wake(state, at) ==
    LET quiet == Less(Quiescence, Less(at, state.lastOutputAt))
    IN  IF state.patienceFired
        THEN quiet
        ELSE Sooner(quiet, Less(Patience, Less(at, state.continuousSince)))

\* Fault: a chunk without text drops the deadline.
on_outputDrops(state, sz, at, follow) ==
    LET freshRun == follow \/ Less(at, state.lastOutputAt) >= Quiescence
        next     == [state EXCEPT
                       !.lastOutputAt    = at,
                       !.continuousSince = IF freshRun THEN at ELSE @]
    IN  IF sz = NoSize THEN Outcome(state, "None", NoTime)
        ELSE IF follow THEN Outcome(next, "Auto", NoTime)
        ELSE Outcome(next, "None", next_wake(next, at))

\* Fault: follow mode waits for a quiet spell as the default mode does.
on_outputWaits(state, sz, at, follow) ==
    LET freshRun == follow \/ Less(at, state.lastOutputAt) >= Quiescence
        next     == [state EXCEPT
                       !.lastOutputAt    = at,
                       !.continuousSince = IF freshRun THEN at ELSE @]
    IN  IF sz = NoSize
        THEN Outcome(state, "None", IF follow THEN NoTime ELSE next_wake(state, at))
        ELSE Outcome(next, "None", next_wake(next, at))

\* A chunk of this size arrived.
on_output(state, sz, at, follow) ==
    LET freshRun == follow \/ Less(at, state.lastOutputAt) >= Quiescence
        next     == [state EXCEPT
                       !.lastOutputAt    = at,
                       !.continuousSince = IF freshRun THEN at ELSE @]
    IN  IF sz = NoSize
        THEN Outcome(state, "None", IF follow THEN NoTime ELSE next_wake(state, at))
        ELSE IF follow
             THEN Outcome(next, "Auto", NoTime)
             ELSE Outcome(next, "None", next_wake(next, at))

\* Fault: patience does not latch.
on_wakeAgain(state, unspoken, at) ==
    LET gap == Less(at, state.lastOutputAt)
    IN  IF gap >= Quiescence
        THEN flush_with_babble_guard(state, unspoken)
        ELSE IF Less(at, state.continuousSince) >= Patience
        THEN Outcome(state, "StillRunning", Less(Quiescence, gap))
        ELSE Outcome(state, "None", Less(Quiescence, gap))

\* The wake that was asked for came.
on_wake(state, unspoken, at) ==
    LET gap       == Less(at, state.lastOutputAt)
        remaining == Less(Quiescence, gap)
    IN  IF gap >= Quiescence
        THEN flush_with_babble_guard(state, unspoken)
        ELSE IF ~state.patienceFired
                /\ Less(at, state.continuousSince) >= Patience
        THEN Outcome([state EXCEPT !.patienceFired = TRUE], "StillRunning", remaining)
        ELSE Outcome(state, "None", remaining)

on_command_end(state, unspoken) ==
    Outcome(state,
            IF unspoken = NoSize THEN "None" ELSE verdict(unspoken),
            NoTime)
=============================================================================
