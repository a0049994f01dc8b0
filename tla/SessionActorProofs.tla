------------------------- MODULE SessionActorProofs -------------------------
(***************************************************************************)
(* Proofs about the session actor, for every pacing configuration, every   *)
(* set of chunks and every length of session.                              *)
(*                                                                         *)
(* The inductive invariant IInv adds to the properties two facts: a        *)
(* command did not start in the future, and an accumulator with text has   *)
(* lines, so a wake that finds nothing to decide left nothing behind.      *)
(***************************************************************************)
EXTENDS SessionActor, FiniteSetTheorems, SequenceTheorems, WellFoundedInduction, TLAPS

-----------------------------------------------------------------------------
(***************************************************************************)
(* Lemmas the proofs rest on: what the operators of Autoread return, for   *)
(* every size and every offset, what the folds of the library compute, and *)
(* a few facts about sequences.                                            *)
(***************************************************************************)

\* The line endings of a text are counted by a natural number, not zero when
\* the text ends in one.
LEMMA NewlinesType ==
  ASSUME NEW text \in Text
  PROVE  /\ Newlines(text) \in Nat
         /\ Newlines(text) <= Len(text)
         /\ EndsInNL(text) => Newlines(text) > 0
<1> DEFINE S == {i \in DOMAIN text : text[i] = NL}
<1>0. Len(text) \in Nat
  BY DEF Text
<1>1. IsFiniteSet(1..Len(text)) /\ Cardinality(1..Len(text)) = Len(text)
  BY <1>0, FS_Interval
<1>2. S \subseteq 1..Len(text)
  BY DEF Text
<1>3. IsFiniteSet(S) /\ Cardinality(S) \in Nat /\ Cardinality(S) <= Len(text)
  BY <1>1, <1>2, FS_Subset, FS_CardinalityType
<1>4. ASSUME EndsInNL(text) PROVE Cardinality(S) > 0
  <2>1. Len(text) \in S
    BY <1>4 DEF EndsInNL, Text
  <2> QED BY <2>1, <1>3, FS_EmptySet
<1> QED BY <1>3, <1>4 DEF Newlines

\* A measured text has a size.
LEMMA MeasureType ==
  ASSUME NEW text \in Text
  PROVE  measure(text) \in Size
<1>1. Newlines(text) \in Nat /\ Newlines(text) <= Len(text) /\ Len(text) \in Nat
  BY NewlinesType DEF Text
<1> QED BY <1>1 DEF measure, Size, Less

\* The size of an accumulator is a size.
LEMMA SizeType ==
  ASSUME NEW waiting \in UnspokenText
  PROVE  size(waiting) \in Size
BY DEF size, Size, UnspokenText

\* Pushing a chunk leaves an accumulator, and one that has text counts at
\* least one line.
HasLines(waiting) == waiting.any => size(waiting).lines > 0

LEMMA PushType ==
  ASSUME NEW waiting \in UnspokenText, NEW chunk \in Text
  PROVE  /\ push(waiting, chunk) \in UnspokenText
         /\ HasLines(waiting) => HasLines(push(waiting, chunk))
         /\ chunk # <<>> => push(waiting, chunk).any
<1>1. CASE chunk = <<>>
  BY <1>1 DEF push
<1>2. CASE chunk # <<>>
  <2> DEFINE text == waiting.text \o chunk
             last == IF Head(chunk) = NL THEN LastRow(chunk) ELSE waiting.lastLine \o chunk
  <2>1. text \in Text /\ LastRow(chunk) \in Text /\ last \in Text
    BY <1>2 DEF Text, LastRow, UnspokenText
  <2>2. measure(text).chars \in Nat
    BY <2>1, MeasureType DEF Size
  <2>3. /\ Newlines(chunk) \in Nat
        /\ EndsInNL(chunk) \in BOOLEAN
        /\ EndsInNL(chunk) => Newlines(chunk) > 0
    BY NewlinesType DEF EndsInNL
  <2>4. Len(chunk) \in Nat /\ <<>> \in Text
    BY DEF Text
  <2> DEFINE lines == waiting.newlines + Newlines(chunk)
             chars == measure(text).chars
             ended == EndsInNL(chunk)
             grown == [waiting EXCEPT !.text = text, !.newlines = lines, !.chars = chars,
                                       !.ended = ended, !.any = TRUE, !.lastLine = last]
  <2>5. push(waiting, chunk) \in {grown, [grown EXCEPT !.kept = FALSE, !.text = <<>>],
                  [grown EXCEPT !.text = <<>>, !.chars = waiting.chars + Len(chunk)]}
    BY <1>2 DEF push, UnspokenText
  <2>6. grown \in UnspokenText
    <3>1. lines \in Nat /\ chars \in Nat /\ ended \in BOOLEAN
      BY <2>2, <2>3 DEF UnspokenText
    <3> HIDE DEF text, last, lines, chars, ended
    <3> QED BY <2>1, <3>1 DEF UnspokenText
  <2>7. push(waiting, chunk) \in UnspokenText
    <3>1. waiting.chars + Len(chunk) \in Nat
      BY <2>4 DEF UnspokenText
    <3>2. [grown EXCEPT !.kept = FALSE, !.text = <<>>] \in UnspokenText
      <4> HIDE DEF grown
      <4> QED BY <2>4, <2>6 DEF UnspokenText
    <3>3. [grown EXCEPT !.text = <<>>, !.chars = waiting.chars + Len(chunk)]
             \in UnspokenText
      <4> HIDE DEF grown
      <4> QED BY <2>4, <2>6, <3>1 DEF UnspokenText
    <3> QED BY <2>5, <2>6, <3>2, <3>3
  <2>8. /\ push(waiting, chunk).any
        /\ push(waiting, chunk).newlines = waiting.newlines + Newlines(chunk)
        /\ push(waiting, chunk).ended = EndsInNL(chunk)
    BY <2>5, <2>6 DEF UnspokenText
  <2> QED BY <2>3, <2>7, <2>8 DEF HasLines, size, UnspokenText
<1> QED BY <1>1, <1>2

-----------------------------------------------------------------------------
(* The invariants of a pacing state at an offset, and of every outcome.     *)

PacingHolds(state, offset) ==
    /\ state \in PacingState
    /\ state.reads <= BabbleLimit
    /\ state.continuousSince <= state.lastOutputAt
    /\ state.lastOutputAt <= offset

\* Nothing but a new command unlatches patience or the babble guard.
Latched(state, next) ==
    /\ state.patienceFired => next.patienceFired
    /\ state.babbleTripped => next.babbleTripped

\* A wake asked for at an offset comes by the end of the quiescence window.
WakeInWindow(state, offset, wake) ==
    wake \in Nat /\ (wake = 0 \/ offset + wake <= state.lastOutputAt + Quiescence)

\* The next wake falls within the quiescence window.
LEMMA NextWakeInWindow ==
  ASSUME NEW state, NEW offset \in Nat, PacingHolds(state, offset)
  PROVE  WakeInWindow(state, offset, next_wake(state, offset))
BY QuiescenceAssumption, PatienceAssumption
   DEF PacingHolds, PacingState, WakeInWindow, next_wake, Less, Sooner

\* A chunk keeps the invariants of the state; outside follow mode it decides
\* nothing and always leaves a wake.
LEMMA OnOutputHolds ==
  ASSUME NEW state, NEW offset \in Nat, PacingHolds(state, offset),
         NEW sz \in Size, NEW follow \in BOOLEAN
  PROVE  LET outcome == on_output(state, sz, offset, follow)
         IN  /\ PacingHolds(outcome.state, offset)
             /\ Latched(state, outcome.state)
             /\ outcome.action \in {"None", "Auto"}
             /\ follow => outcome.wake = NoTime
             /\ ~follow => /\ outcome.action = "None"
                           /\ WakeInWindow(outcome.state, offset, outcome.wake)
<1> DEFINE since == IF follow \/ Less(offset, state.lastOutputAt) >= Quiescence
                    THEN offset ELSE state.continuousSince
           next  == [state EXCEPT !.lastOutputAt = offset, !.continuousSince = since]
<1>1. since \in Nat /\ since <= offset
  BY DEF PacingHolds, PacingState
<1>2. /\ PacingHolds(next, offset)
      /\ Latched(state, next)
  <2> HIDE DEF since
  <2>1. /\ next \in PacingState
        /\ next.reads = state.reads
        /\ next.patienceFired = state.patienceFired
        /\ next.babbleTripped = state.babbleTripped
        /\ next.lastOutputAt = offset
        /\ next.continuousSince = since
    BY <1>1 DEF PacingHolds, PacingState
  <2> HIDE DEF next
  <2> QED BY <1>1, <2>1 DEF PacingHolds, Latched
<1>3. next = [state EXCEPT
                !.lastOutputAt    = offset,
                !.continuousSince = IF follow \/ Less(offset, state.lastOutputAt) >= Quiescence
                                    THEN offset ELSE @]
  BY DEF PacingHolds, PacingState
<1> HIDE DEF since, next
<1>4. Latched(state, state)
  BY DEF Latched
<1>5. WakeInWindow(state, offset, next_wake(state, offset))
      /\ WakeInWindow(next, offset, next_wake(next, offset))
  BY <1>2, NextWakeInWindow
<1>6. CASE sz = NoSize
  BY <1>4, <1>5, <1>6 DEF on_output, Outcome
<1>7. CASE sz # NoSize /\ follow
  BY <1>2, <1>3, <1>7 DEF on_output, Outcome
<1>8. CASE sz # NoSize /\ ~follow
  BY <1>2, <1>3, <1>5, <1>8 DEF on_output, Outcome
<1> QED BY <1>6, <1>7, <1>8

\* A wake keeps the invariants of the state; if it asks for no further wake it
\* either decided about all the text or silenced the command.
LEMMA OnWakeHolds ==
  ASSUME NEW state, NEW offset \in Nat, PacingHolds(state, offset),
         NEW waiting \in Size
  PROVE  LET outcome == on_wake(state, waiting, offset)
         IN  /\ PacingHolds(outcome.state, offset)
             /\ Latched(state, outcome.state)
             /\ outcome.action \in PacingAction
             /\ \/ WakeInWindow(outcome.state, offset, outcome.wake)
                \/ /\ outcome.wake = NoTime
                   /\ \/ waiting = NoSize
                      \/ Flushes(outcome.action)
                      \/ outcome.state.babbleTripped
<1> USE DEF PacingHolds, PacingState, Latched, PacingAction, ReadMode, Flushes, Outcome
<1>1. CASE Less(offset, state.lastOutputAt) >= Quiescence
  <2>1. on_wake(state, waiting, offset) = flush_with_babble_guard(state, waiting)
    BY <1>1 DEF on_wake
  <2>2. CASE waiting = NoSize \/ state.babbleTripped
    BY <2>1, <2>2 DEF flush_with_babble_guard
  <2>3. CASE ~(waiting = NoSize \/ state.babbleTripped) /\ verdict(waiting) = "TooBig"
    BY <2>1, <2>3, BabbleLimitAssumption DEF flush_with_babble_guard
  <2>4. CASE /\ ~(waiting = NoSize \/ state.babbleTripped)
             /\ verdict(waiting) # "TooBig"
             /\ state.reads >= BabbleLimit
    <3> DEFINE next == [state EXCEPT !.babbleTripped = TRUE]
    <3>1. on_wake(state, waiting, offset) =
             [state |-> next, action |-> "OutputContinues", wake |-> NoTime]
      BY <2>1, <2>4 DEF flush_with_babble_guard
    <3>2. /\ next \in PacingState
          /\ next.reads = state.reads
          /\ next.lastOutputAt = state.lastOutputAt
          /\ next.continuousSince = state.continuousSince
          /\ next.patienceFired = state.patienceFired
          /\ next.babbleTripped
      OBVIOUS
    <3> HIDE DEF next
    <3> QED BY <3>1, <3>2
  <2>5. CASE /\ ~(waiting = NoSize \/ state.babbleTripped)
             /\ verdict(waiting) # "TooBig"
             /\ ~(state.reads >= BabbleLimit)
    <3>1. state.reads + 1 <= BabbleLimit /\ state.reads + 1 \in Nat
      BY <2>5, BabbleLimitAssumption
    <3> QED BY <2>1, <2>5, <3>1 DEF flush_with_babble_guard
  <2> QED BY <2>2, <2>3, <2>4, <2>5
<1>2. CASE ~(Less(offset, state.lastOutputAt) >= Quiescence)
  <2> DEFINE remaining == Less(Quiescence, Less(offset, state.lastOutputAt))
             fires     == ~state.patienceFired
                          /\ Less(offset, state.continuousSince) >= Patience
  <2>1. remaining \in Nat /\ offset + remaining <= state.lastOutputAt + Quiescence
    BY <1>2, QuiescenceAssumption DEF Less
  <2>2. CASE fires
    BY <1>2, <2>1, <2>2 DEF on_wake, WakeInWindow
  <2>3. CASE ~fires
    BY <1>2, <2>1, <2>3 DEF on_wake, WakeInWindow
  <2> QED BY <2>2, <2>3
<1> QED BY <1>1, <1>2

\* What a command's end decides is nothing or a verdict on the text.
LEMMA OnCommandEndType ==
  ASSUME NEW state, NEW waiting \in Size
  PROVE  on_command_end(state, waiting).action \in PacingAction
BY DEF on_command_end, Outcome, verdict, PacingAction, ReadMode

-----------------------------------------------------------------------------
(***************************************************************************)
(* Folds.  The library states what a fold computes with an operator as a   *)
(* parameter; here a fold runs along a function F, and its successive      *)
(* values make a chain.  Induction is by the least counterexample.         *)
(***************************************************************************)

\* A set of natural numbers has a least one.
LEMMA LeastOfNat ==
  ASSUME NEW S, S \subseteq Nat, S # {}
  PROVE  \E x \in S : \A y \in S : x <= y
<1> DEFINE R == OpToRel(<, Nat)
<1>1. PICK x \in S : \A y \in S : ~ (<<y, x>> \in R)
  <2> HIDE DEF R
  <2> QED BY WFMin, NatLessThanWellFounded DEF R
<1>2. \A y \in S : ~(y < x)
  <2> SUFFICES ASSUME NEW y \in S, y < x PROVE FALSE
    OBVIOUS
  <2>1. <<y, x>> \in Nat \X Nat /\ <<y, x>>[1] < <<y, x>>[2]
    OBVIOUS
  <2> QED BY <1>1, <2>1 DEF OpToRel
<1> HIDE DEF R
<1>3. \A y \in S : x \in Nat /\ y \in Nat
  OBVIOUS
<1> QED BY <1>2, <1>3

\* The positions up to one have a greatest, and it is that one.
LEMMA GreatestOf ==
  ASSUME NEW n \in Nat, NEW s \in SUBSET (1..n), s # {}
  PROVE  Max(s) \in s /\ \A i \in s : i <= Max(s)
<1> DEFINE T == {i \in Nat : n - i \in s}
<1>1. \A i \in s : i \in 1..n /\ n - i \in T
  OBVIOUS
<1>2. PICK m \in T : \A i \in T : m <= i
  BY <1>1, LeastOfNat
<1>3. n - m \in s /\ \A i \in s : n - m >= i
  BY <1>1, <1>2
<1> QED BY <1>3 DEF Max

\* The positions up to k are a set whose greatest is k.
LEMMA UpTo ==
  ASSUME NEW n \in Nat, NEW k \in 1..n
  PROVE  /\ 1..k \in SUBSET (1..n) /\ 1..k # {}
         /\ Max(1..k) = k /\ (1..k) \ {k} = 1..(k - 1)
<1>1. k \in Nat /\ 1..k \in SUBSET (1..k) /\ k \in 1..k /\ \A i \in 1..k : i \in 1..n
  OBVIOUS
<1>2. Max(1..k) \in 1..k /\ k <= Max(1..k)
  BY <1>1, GreatestOf
<1> QED BY <1>1, <1>2

\* What the fold of the library looks for, on the first n of the elements.
Folded(g, F, b, n, s) ==
    \A x \in SUBSET (1..n) :
        g[x] = IF x = {} THEN b ELSE F[<<g[x \ {Max(x)}], s[Max(x)]>>]

\* There is such a function: the fold of the library is one, not a choice of
\* nothing.
LEMMA FoldExists ==
  ASSUME NEW A, NEW E, NEW F \in [A \X E -> A], NEW b \in A,
         NEW n \in Nat, NEW s, \A i \in 1..n : s[i] \in E
  PROVE  \E g \in [SUBSET (1..n) -> A] : Folded(g, F, b, n, s)
<1> DEFINE Is(k) == \E g \in [SUBSET (1..k) -> A] : Folded(g, F, b, k, s)
           Missing == {k \in Nat : k <= n /\ ~Is(k)}
<1>1. SUFFICES ASSUME Missing # {} PROVE FALSE
  <2>1. Is(n) => \E g \in [SUBSET (1..n) -> A] : Folded(g, F, b, n, s)
    OBVIOUS
  <2> HIDE DEF Is
  <2>2. n <= n
    OBVIOUS
  <2> QED BY <2>1, <2>2
<1>2. PICK k \in Missing : \A i \in Missing : k <= i
  BY <1>1, LeastOfNat
<1>3. CASE k = 0
  <2> DEFINE g == [x \in SUBSET (1..0) |-> b]
  <2>1. \A x \in SUBSET (1..0) : x = {}
    OBVIOUS
  <2>2. g \in [SUBSET (1..0) -> A] /\ Folded(g, F, b, 0, s)
    BY <2>1 DEF Folded
  <2> HIDE DEF g
  <2>3. Is(0)
    BY <2>2
  <2> QED BY <1>2, <1>3, <2>3
<1>4. CASE k # 0
  <2> DEFINE j == k - 1
  <2>1. j \in Nat /\ k = j + 1 /\ j \notin Missing /\ j <= n /\ k \in 1..n
    BY <1>2, <1>4
  <2>2. PICK g \in [SUBSET (1..j) -> A] : Folded(g, F, b, j, s)
    BY <2>1
  <2>3. \A x \in SUBSET (1..k) : k \in x => Max(x) = k /\ x \ {k} \in SUBSET (1..j)
    <3> SUFFICES ASSUME NEW x \in SUBSET (1..k), k \in x
                 PROVE  Max(x) = k /\ x \ {k} \in SUBSET (1..j)
      OBVIOUS
    <3>1. Max(x) \in x /\ \A i \in x : i <= Max(x)
      BY <1>2, GreatestOf
    <3>2. Max(x) \in 1..k /\ k <= Max(x)
      BY <3>1
    <3> QED BY <2>1, <3>2
  <2>4. \A x \in SUBSET (1..k) : k \notin x => x \in SUBSET (1..j)
    BY <2>1
  <2> DEFINE h == [x \in SUBSET (1..k) |->
                      IF k \in x THEN F[<<g[x \ {k}], s[k]>>] ELSE g[x]]
  <2>5. \A x \in SUBSET (1..j) : h[x] = g[x] /\ g[x] \in A
    BY <2>1
  <2>6. h \in [SUBSET (1..k) -> A]
    <3>1. ASSUME NEW x \in SUBSET (1..k) PROVE h[x] \in A
      <4>1. CASE k \in x
        <5>1. g[x \ {k}] \in A /\ s[k] \in E
          BY <2>1, <2>3, <2>5, <4>1
        <5>2. <<g[x \ {k}], s[k]>> \in A \X E
          BY <5>1
        <5> HIDE DEF h
        <5>3. h[x] = F[<<g[x \ {k}], s[k]>>]
          BY <4>1 DEF h
        <5> QED BY <5>2, <5>3
      <4>2. CASE k \notin x
        BY <2>4, <2>5, <4>2
      <4> QED BY <4>1, <4>2
    <3> QED BY <3>1
  <2>7. ASSUME NEW x \in SUBSET (1..k)
        PROVE  h[x] = IF x = {} THEN b ELSE F[<<h[x \ {Max(x)}], s[Max(x)]>>]
    <3>1. CASE k \in x
      <4>1. Max(x) = k /\ x \ {k} \in SUBSET (1..j) /\ x # {}
        BY <2>3, <3>1
      <4>2. h[x \ {k}] = g[x \ {k}]
        BY <2>5, <4>1
      <4>3. h[x] = F[<<g[x \ {k}], s[k]>>]
        BY <3>1
      <4> QED BY <4>1, <4>2, <4>3
    <3>2. CASE k \notin x
      <4>1. x \in SUBSET (1..j) /\ x \ {Max(x)} \in SUBSET (1..j)
        BY <2>4, <3>2
      <4>2. h[x] = g[x] /\ h[x \ {Max(x)}] = g[x \ {Max(x)}]
        BY <2>5, <4>1
      <4> QED BY <2>2, <4>1, <4>2 DEF Folded
    <3> QED BY <3>1, <3>2
  <2> HIDE DEF h
  <2>8. Folded(h, F, b, k, s)
    BY <2>7 DEF Folded
  <2> QED BY <1>2, <2>6, <2>8
<1> QED BY <1>3, <1>4

\* The successive values of a fold.
Chain(h, F, b, n, s) ==
    h[0] = b /\ \A k \in 1..n : h[k] = F[<<h[k - 1], s[k]>>]

Grows(h, F, b, n, s, A) ==
    h[0] = b /\ \A k \in 1..n : h[k - 1] \in A => h[k] = F[<<h[k - 1], s[k]>>]

\* The values of a chain stay in the set F maps into.
LEMMA ChainTyped ==
  ASSUME NEW A, NEW E, NEW F \in [A \X E -> A], NEW b \in A,
         NEW n \in Nat, NEW s, \A i \in 1..n : s[i] \in E, NEW h,
         Grows(h, F, b, n, s, A)
  PROVE  Chain(h, F, b, n, s) /\ \A k \in 0..n : h[k] \in A
<1> USE DEF Grows
<1> DEFINE Bad == {k \in Nat : k <= n /\ h[k] \notin A}
<1>1. Bad = {}
  <2> SUFFICES ASSUME Bad # {} PROVE FALSE
    OBVIOUS
  <2>1. PICK k \in Bad : \A i \in Bad : k <= i
    BY LeastOfNat
  <2>2. CASE k = 0
    BY <2>1, <2>2
  <2>3. CASE k # 0
    <3>1. k - 1 \in Nat /\ k - 1 <= n /\ k - 1 \notin Bad /\ k \in 1..n
      BY <2>1, <2>3
    <3>2. h[k - 1] \in A /\ s[k] \in E
      BY <3>1
    <3>3. <<h[k - 1], s[k]>> \in A \X E
      BY <3>2
    <3>4. h[k] \in A
      BY <3>1, <3>2, <3>3
    <3> QED BY <2>1, <3>4
  <2> QED BY <2>2, <2>3
<1>2. \A k \in 0..n : h[k] \in A
  BY <1>1
<1> QED BY <1>2 DEF Chain

\* A chain is one only: one more element is one more step.
LEMMA ChainStep ==
  ASSUME NEW F, NEW b, NEW n \in Nat, NEW s, NEW t, NEW g, NEW h,
         \A i \in 1..n : s[i] = t[i],
         Chain(g, F, b, n, s), Chain(h, F, b, n + 1, t)
  PROVE  h[n + 1] = F[<<g[n], t[n + 1]>>]
<1> DEFINE Bad == {k \in Nat : k <= n /\ h[k] # g[k]}
<1>1. Bad = {}
  <2> SUFFICES ASSUME Bad # {} PROVE FALSE
    OBVIOUS
  <2>1. PICK k \in Bad : \A i \in Bad : k <= i
    BY LeastOfNat
  <2>2. CASE k = 0
    BY <2>1, <2>2 DEF Chain
  <2>3. CASE k # 0
    <3>1. k - 1 \in Nat /\ k - 1 <= n /\ k - 1 \notin Bad /\ k \in 1..n /\ k \in 1..(n + 1)
      BY <2>1, <2>3
    <3>2. h[k - 1] = g[k - 1] /\ s[k] = t[k]
      BY <3>1
    <3>3. h[k] = F[<<h[k - 1], t[k]>>] /\ g[k] = F[<<g[k - 1], s[k]>>]
      BY <3>1 DEF Chain
    <3> QED BY <2>1, <3>2, <3>3
  <2> QED BY <2>2, <2>3
<1>2. h[n] = g[n]
  BY <1>1
<1>3. n + 1 \in 1..(n + 1) /\ (n + 1) - 1 = n
  OBVIOUS
<1> QED BY <1>2, <1>3 DEF Chain

\* The values of a fold of the library grow along F, when F is what it does.
FoldGrows(f, F, b, n, s, A) ==
    /\ f[{}] = b
    /\ \A k \in 1..n :
          f[1..(k - 1)] \in A => f[1..k] = F[<<f[1..(k - 1)], s[k]>>]

Values(f, n) == [k \in 0..n |-> f[1..k]]

\* What the fold finds on the positions up to each k is a chain along F.
LEMMA FoldIsChain ==
  ASSUME NEW A, NEW E, NEW F \in [A \X E -> A], NEW b \in A,
         NEW n \in Nat, NEW s, \A i \in 1..n : s[i] \in E, NEW f,
         FoldGrows(f, F, b, n, s, A)
  PROVE  Chain(Values(f, n), F, b, n, s) /\ \A k \in 0..n : Values(f, n)[k] \in A
<1> DEFINE h == Values(f, n)
<1>1. h[0] = b
  <2>1. 1..0 = {} /\ 0 \in 0..n
    OBVIOUS
  <2> QED BY <2>1 DEF Values, FoldGrows
<1>2. ASSUME NEW k \in 1..n, h[k - 1] \in A
      PROVE  h[k] = F[<<h[k - 1], s[k]>>]
  <2>1. h[k] = f[1..k] /\ h[k - 1] = f[1..(k - 1)]
    BY DEF Values
  <2> HIDE DEF h
  <2> QED BY <1>2, <2>1 DEF FoldGrows
<1> HIDE DEF h
<1>3. Grows(h, F, b, n, s, A)
  BY <1>1, <1>2 DEF Grows
<1>4. Chain(h, F, b, n, s) /\ \A k \in 0..n : h[k] \in A
  BY <1>3, ChainTyped
<1> QED BY <1>4 DEF h

-----------------------------------------------------------------------------
(***************************************************************************)
(* The elements of a sequence that are in a set.                           *)
(***************************************************************************)
Keeps(E, S) ==
    [p \in Seq(E) \X E |-> IF p[2] \in S THEN Append(p[1], p[2]) ELSE p[1]]

Keeping(f, s, S, n) ==
    f = [x \in SUBSET (1..n) |->
            IF x = {} THEN <<>>
            ELSE IF s[Max(x)] \in S THEN Append(f[x \ {Max(x)}], s[Max(x)])
                                    ELSE f[x \ {Max(x)}]]

\* Only is such a fold.
LEMMA OnlyIsTheFold ==
  ASSUME NEW s, NEW S, NEW n, DOMAIN s = 1..n
  PROVE  Only(s, S) = (CHOOSE f : Keeping(f, s, S, n))[1..n]
BY DEF Only, FoldLeft, MapThenFoldSet, Keeping

OnlyAlong(h, s, S, E) ==
    /\ Chain(h, Keeps(E, S), <<>>, Len(s), s)
    /\ Only(s, S) = h[Len(s)] /\ h[Len(s)] \in Seq(E)

\* The elements kept so far make a chain.
LEMMA OnlyIsChain ==
  ASSUME NEW E, NEW S, NEW s \in Seq(E)
  PROVE  \E h : OnlyAlong(h, s, S, E)
<1> DEFINE n == Len(s)
           F == Keeps(E, S)
           f == CHOOSE g : Keeping(g, s, S, n)
           h == Values(f, n)
<1>1. n \in Nat /\ DOMAIN s = 1..n /\ \A i \in 1..n : s[i] \in E
  OBVIOUS
<1>2. \A a \in Seq(E), e \in E : /\ F[<<a, e>>] = IF e \in S THEN Append(a, e) ELSE a
                                /\ F[<<a, e>>] \in Seq(E)
  BY DEF Keeps
<1>3. F \in [Seq(E) \X E -> Seq(E)] /\ <<>> \in Seq(E)
  BY DEF Keeps
<1> HIDE DEF F, n
<1>4. PICK g \in [SUBSET (1..n) -> Seq(E)] : Folded(g, F, <<>>, n, s)
  BY <1>1, <1>3, FoldExists
<1>5. ASSUME NEW x \in SUBSET (1..n), x # {}
      PROVE  /\ Max(x) \in 1..n /\ g[x \ {Max(x)}] \in Seq(E)
             /\ F[<<g[x \ {Max(x)}], s[Max(x)]>>]
                  = IF s[Max(x)] \in S THEN Append(g[x \ {Max(x)}], s[Max(x)])
                                       ELSE g[x \ {Max(x)}]
  <2>1. Max(x) \in x
    BY <1>1, <1>5, GreatestOf
  <2>2. s[Max(x)] \in E /\ x \ {Max(x)} \in SUBSET (1..n)
    BY <1>1, <2>1
  <2>3. g[x \ {Max(x)}] \in Seq(E)
    BY <2>2
  <2> QED BY <1>2, <2>1, <2>2, <2>3
<1>6. Keeping(g, s, S, n)
  <2>1. g = [x \in SUBSET (1..n) |-> g[x]]
    OBVIOUS
  <2> QED BY <1>4, <1>5, <2>1 DEF Keeping, Folded
<1>7. Keeping(f, s, S, n)
  BY <1>6
<1> HIDE DEF f
<1>8. f[{}] = <<>>
  BY <1>7 DEF Keeping
<1>9. ASSUME NEW k \in 1..n, f[1..(k - 1)] \in Seq(E)
      PROVE  f[1..k] = F[<<f[1..(k - 1)], s[k]>>]
  <2>1. 1..k \in SUBSET (1..n) /\ 1..k # {} /\ Max(1..k) = k /\ (1..k) \ {k} = 1..(k - 1)
    BY <1>1, UpTo
  <2>2. f[1..k] = IF s[k] \in S THEN Append(f[1..(k - 1)], s[k]) ELSE f[1..(k - 1)]
    BY <1>7, <2>1 DEF Keeping
  <2> QED BY <1>1, <1>2, <1>9, <2>2
<1> HIDE DEF h
<1>10. Chain(h, F, <<>>, n, s) /\ \A k \in 0..n : h[k] \in Seq(E)
  <2>1. FoldGrows(f, F, <<>>, n, s, Seq(E))
    BY <1>8, <1>9 DEF FoldGrows
  <2>2. \A i \in 1..n : s[i] \in E
    BY <1>1
  <2> QED BY <1>1, <1>3, <2>1, <2>2, FoldIsChain DEF h
<1>11. Only(s, S) = h[n] /\ n \in 0..n
  BY <1>1, OnlyIsTheFold DEF f, h, Values
<1> QED BY <1>10, <1>11 DEF F, n, OnlyAlong

\* No elements, none kept.
LEMMA OnlyOfNone == \A S : Only(<<>>, S) = <<>>
<1> SUFFICES ASSUME NEW S PROVE Only(<<>>, S) = <<>>
  OBVIOUS
<1> DEFINE E == {}
<1>1. <<>> \in Seq(E) /\ Len(<<>>) = 0
  OBVIOUS
<1> HIDE DEF E
<1>2. PICK h : OnlyAlong(h, <<>>, S, E)
  BY <1>1, OnlyIsChain
<1> QED BY <1>1, <1>2 DEF Chain, OnlyAlong

\* One element more is kept or it is not.
LEMMA OnlyAppend ==
  ASSUME NEW E, NEW S, NEW s \in Seq(E), NEW e \in E
  PROVE  /\ Only(s, S) \in Seq(E)
         /\ Only(Append(s, e), S) = IF e \in S THEN Append(Only(s, S), e) ELSE Only(s, S)
<1> DEFINE t == Append(s, e)
           n == Len(s)
<1>1. /\ t \in Seq(E) /\ n \in Nat /\ Len(t) = n + 1 /\ t[n + 1] = e
      /\ \A i \in 1..n : s[i] = t[i]
  OBVIOUS
<1> HIDE DEF t, n
<1>2. PICK g : OnlyAlong(g, s, S, E)
  BY OnlyIsChain
<1>3. PICK h : OnlyAlong(h, t, S, E)
  BY <1>1, OnlyIsChain
<1>4. h[n + 1] = Keeps(E, S)[<<g[n], t[n + 1]>>]
  <2> DEFINE b == <<>>
  <2>1. Chain(g, Keeps(E, S), b, n, s) /\ Chain(h, Keeps(E, S), b, n + 1, t)
    BY <1>1, <1>2, <1>3 DEF n, OnlyAlong
  <2>2. n \in Nat /\ \A i \in 1..n : s[i] = t[i]
    BY <1>1
  <2> DEFINE F == Keeps(E, S)
  <2>3. Chain(g, F, b, n, s) /\ Chain(h, F, b, n + 1, t)
    BY <2>1
  <2> HIDE DEF b, F
  <2>4. h[n + 1] = F[<<g[n], t[n + 1]>>]
    BY <2>2, <2>3, ChainStep
  <2> QED BY <2>4 DEF F
<1>5. <<g[n], e>> \in Seq(E) \X E
  BY <1>2 DEF OnlyAlong, n
<1>6. Keeps(E, S)[<<g[n], e>>] = IF e \in S THEN Append(g[n], e) ELSE g[n]
  BY <1>5 DEF Keeps
<1>7. Only(s, S) = g[n] /\ g[n] \in Seq(E) /\ Only(t, S) = h[n + 1]
  BY <1>1, <1>2, <1>3 DEF OnlyAlong, n
<1> QED BY <1>1, <1>4, <1>6, <1>7 DEF t

\* A sequence that is not empty is one with an element more.
LEMMA LastOff ==
  ASSUME NEW E, NEW s \in Seq(E), Len(s) # 0
  PROVE  \E r \in Seq(E), e \in E : s = Append(r, e) /\ Len(r) = Len(s) - 1
<1> DEFINE n == Len(s) - 1
           r == [i \in 1..n |-> s[i]]
           e == s[Len(s)]
<1>1. n \in Nat /\ Len(s) = n + 1 /\ e \in E /\ \A i \in 1..n : s[i] \in E
  OBVIOUS
<1> HIDE DEF n
<1>2. r \in Seq(E) /\ Len(r) = n
  BY <1>1
<1>3. s = Append(r, e)
  <2>1. Append(r, e) \in Seq(E) /\ Len(Append(r, e)) = n + 1
    BY <1>1, <1>2
  <2>2. \A i \in 1..(n + 1) : Append(r, e)[i] = s[i]
    BY <1>1, <1>2
  <2> QED BY <1>1, <2>1, <2>2, SeqEqual
<1> QED BY <1>1, <1>2, <1>3 DEF n

\* A set of elements is what is left of it in the sequence.
LEMMA OnlyRange ==
  ASSUME NEW E, NEW S, NEW s \in Seq(E)
  PROVE  /\ Only(s, S) \in Seq(E)
         /\ Range(Only(s, S)) = Range(s) \cap S
<1> DEFINE P(r) == Only(r, S) \in Seq(E) /\ Range(Only(r, S)) = Range(r) \cap S
           Bad == {k \in Nat : \E r \in Seq(E) : Len(r) = k /\ ~P(r)}
<1>1. Bad = {}
  <2> SUFFICES ASSUME Bad # {} PROVE FALSE
    OBVIOUS
  <2>1. PICK k \in Bad : \A i \in Bad : k <= i
    BY LeastOfNat
  <2>2. PICK r \in Seq(E) : Len(r) = k /\ ~P(r)
    BY <2>1
  <2>3. CASE k = 0
    <3>1. r = <<>>
      BY <2>2, <2>3
    <3>2. Only(r, S) = <<>>
      BY <3>1, OnlyOfNone
    <3>3. Range(<<>>) = {} /\ <<>> \in Seq(E)
      BY DEF Range
    <3> QED BY <2>2, <3>1, <3>2, <3>3
  <2>4. CASE k # 0
    <3>1. PICK q \in Seq(E), e \in E : r = Append(q, e) /\ Len(q) = k - 1
      <4>1. Len(r) # 0
        BY <2>2, <2>4
      <4>2. \E q \in Seq(E), e \in E : r = Append(q, e) /\ Len(q) = Len(r) - 1
        BY <4>1, LastOff
      <4> QED BY <2>2, <4>2
    <3>2. P(q)
      <4>1. k - 1 \in Nat /\ k - 1 \notin Bad
        BY <2>1, <2>4
      <4> HIDE DEF P
      <4> QED BY <3>1, <4>1
    <3>3. /\ Only(q, S) \in Seq(E)
          /\ Only(r, S) = IF e \in S THEN Append(Only(q, S), e) ELSE Only(q, S)
      BY <3>1, OnlyAppend
    <3>4. \A u \in Seq(E) : Range(Append(u, e)) = Range(u) \cup {e}
      <4> SUFFICES ASSUME NEW u \in Seq(E) PROVE Range(Append(u, e)) = Range(u) \cup {e}
        OBVIOUS
      <4>1. /\ DOMAIN Append(u, e) = 1..(Len(u) + 1) /\ DOMAIN u = 1..Len(u) /\ Len(u) \in Nat
            /\ \A i \in 1..Len(u) : Append(u, e)[i] = u[i]
            /\ Append(u, e)[Len(u) + 1] = e
        OBVIOUS
      <4>2. 1..(Len(u) + 1) = (1..Len(u)) \cup {Len(u) + 1}
        BY <4>1
      <4> QED BY <4>1, <4>2 DEF Range
    <3>5. Range(r) = Range(q) \cup {e}
      BY <3>1, <3>4
    <3>6. CASE e \in S
      <4>1. Range(Only(r, S)) = Range(Only(q, S)) \cup {e}
        BY <3>3, <3>4, <3>6
      <4>2. Only(r, S) \in Seq(E)
        BY <3>3, <3>6
      <4> QED BY <2>2, <3>2, <3>5, <3>6, <4>1, <4>2
    <3>7. CASE e \notin S
      <4>1. Only(r, S) = Only(q, S)
        BY <3>3, <3>7
      <4> QED BY <2>2, <3>2, <3>5, <3>7, <4>1
    <3> QED BY <3>6, <3>7
  <2> QED BY <2>3, <2>4
<1>2. Len(s) \in Nat /\ Len(s) \notin Bad
  BY <1>1
<1> HIDE DEF P
<1>3. P(s)
  BY <1>2
<1> QED BY <1>3 DEF P

-----------------------------------------------------------------------------
(* Sequences.                                                              *)

\* The elements of one sequence after another are those of the two.
LEMMA Joined ==
  ASSUME NEW S, NEW s \in Seq(S), NEW t \in Seq(S), NEW m, NEW n, m = Len(s), n = Len(t)
  PROVE  /\ s \o t \in Seq(S) /\ Len(s \o t) = m + n /\ DOMAIN (s \o t) = 1..(m + n)
         /\ \A i \in 1..m : i \in 1..(m + n) /\ (s \o t)[i] = s[i]
         /\ \A i \in 1..n : m + i \in 1..(m + n) /\ (s \o t)[m + i] = t[i]
         /\ \A i \in 1..(m + n) : \/ i \in 1..m /\ (s \o t)[i] = s[i]
                                  \/ i - m \in 1..n /\ (s \o t)[i] = t[i - m]
BY ConcatProperties

\* Two sequences of one element make one of two.
LEMMA Pair ==
  ASSUME NEW a, NEW b
  PROVE  <<a>> \o <<b>> = <<a, b>> /\ <<a>> \o <<>> = <<a>>
<1> DEFINE S == {a, b}
<1>1. \A s, t, both \in Seq(S) :
         /\ Len(s) = 1 /\ Len(t) = 1 /\ Len(both) = 2 /\ both[1] = s[1] /\ both[2] = t[1]
         => s \o t = both
  <2> HIDE DEF S
  <2> SUFFICES ASSUME NEW s \in Seq(S), NEW t \in Seq(S), NEW both \in Seq(S),
                      Len(s) = 1, Len(t) = 1, Len(both) = 2, both[1] = s[1], both[2] = t[1]
               PROVE  s \o t = both
    OBVIOUS
  <2>1. s \o t \in Seq(S) /\ Len(s \o t) = 2 /\ (s \o t)[1] = s[1] /\ (s \o t)[2] = t[1]
    <3>1. s \o t \in Seq(S) /\ Len(s \o t) = Len(s) + Len(t)
      BY ConcatProperties
    <3>3. \A i \in 1..Len(s) : (s \o t)[i] = s[i]
      BY ConcatProperties
    <3>4. \A i \in 1..Len(t) : (s \o t)[Len(s) + i] = t[i]
      <4>1. \A i \in 1..Len(t) : /\ Len(s) + i \in 1..(Len(s) + Len(t))
                                 /\ ~(Len(s) + i <= Len(s)) /\ (Len(s) + i) - Len(s) = i
        OBVIOUS
      <4>2. \A i \in 1..(Len(s) + Len(t)) :
               (s \o t)[i] = IF i <= Len(s) THEN s[i] ELSE t[i - Len(s)]
        BY ConcatProperties
      <4> QED BY <4>1, <4>2
    <3>2. 1 \in 1..Len(s) /\ 1 \in 1..Len(t)
      OBVIOUS
    <3> QED BY <3>1, <3>2, <3>3, <3>4
  <2>2. \A i \in 1..2 : i = 1 \/ i = 2
    OBVIOUS
  <2>3. \A i \in 1..Len(both) : (s \o t)[i] = both[i]
    BY <2>1, <2>2
  <2> QED BY <2>1, <2>3, SeqEqual
<1>2. /\ <<a>> \in Seq(S) /\ <<b>> \in Seq(S) /\ <<a, b>> \in Seq(S)
      /\ Len(<<a>>) = 1 /\ Len(<<b>>) = 1 /\ Len(<<a, b>>) = 2
      /\ <<a, b>>[1] = <<a>>[1] /\ <<a, b>>[2] = <<b>>[1]
  OBVIOUS
<1>3. <<a>> \o <<b>> = <<a, b>>
  BY <1>1, <1>2, Zenon
<1>4. <<a>> \o <<>> = <<a>>
  BY <1>2, ConcatEmptySeq
<1> QED BY <1>3, <1>4

\* What holds of no elements, and of one more whenever it holds, holds of
\* every sequence.
LEMMA OneMore ==
  ASSUME NEW E, NEW P, <<>> \in P,
         \A q \in Seq(E), e \in E : q \in P => Append(q, e) \in P
  PROVE  Seq(E) \subseteq P
<1> DEFINE Bad == {k \in Nat : \E r \in Seq(E) : Len(r) = k /\ r \notin P}
<1>1. Bad = {}
  <2> SUFFICES ASSUME Bad # {} PROVE FALSE
    OBVIOUS
  <2>1. PICK k \in Bad : \A i \in Bad : k <= i
    BY LeastOfNat
  <2>2. PICK r \in Seq(E) : Len(r) = k /\ r \notin P
    BY <2>1
  <2>3. Len(r) # 0
    BY <2>2
  <2>4. PICK q \in Seq(E), e \in E : r = Append(q, e) /\ Len(q) = Len(r) - 1
    BY <2>3, LastOff
  <2>5. k - 1 \in Nat /\ k - 1 \notin Bad /\ Len(q) = k - 1
    BY <2>1, <2>2, <2>3, <2>4
  <2>6. q \in P
    BY <2>5
  <2> QED BY <2>2, <2>4, <2>6
<1>2. \A r \in Seq(E) : Len(r) \in Nat
  OBVIOUS
<1> QED BY <1>1, <1>2

\* A sequence and one that is longer by an element.
LEMMA ConcatAppend ==
  ASSUME NEW E, NEW s \in Seq(E), NEW q \in Seq(E), NEW e \in E
  PROVE  s \o Append(q, e) = Append(s \o q, e) /\ s \o q \in Seq(E)
<1> DEFINE one == <<e>>
<1>1. one \in Seq(E) /\ s \o q \in Seq(E)
  OBVIOUS
<1>2. Append(q, e) = q \o one /\ Append(s \o q, e) = (s \o q) \o one
  BY <1>1, AppendIsConcat
<1> HIDE DEF one
<1>3. s \o (q \o one) = (s \o q) \o one
  BY <1>1, ConcatAssociative
<1> QED BY <1>1, <1>2, <1>3

-----------------------------------------------------------------------------
(* The inductive invariant.                                                *)

TimersOK == RowsWaitForATick /\ TimersServeTheCommand /\ SpeechIsNotPostponed

IInv == /\ TypeOK
        /\ startedAt <= now
        /\ PacingInvariants
        /\ TimersOK
        /\ HasLines(unspoken)
        /\ owed # <<>> => unspoken.any

-----------------------------------------------------------------------------
(* Facts about the state and the helpers.                                  *)

\* The offset from the command's start is what the policy's invariants are
\* about.
LEMMA OffsetHolds ==
  ASSUME IInv
  PROVE  /\ at \in Nat /\ startedAt + at = now
         /\ PacingHolds(pacing, at)
BY DEF IInv, TypeOK, PacingInvariants, PacingHolds, PacingState, at, Less

\* An accumulator with nothing unspoken.
LEMMA NothingUnspokenType ==
  /\ NothingUnspoken \in UnspokenText
  /\ HasLines(NothingUnspoken)
  /\ ~NothingUnspoken.any
  /\ <<>> \in Text
  /\ <<>> \in Seq(Row) /\ <<>> \in Seq(Told)
  /\ FreshPacing \in PacingState
BY DEF NothingUnspoken, UnspokenText, HasLines, Text, FreshPacing, PacingState

\* Whatever was decided, self-talk makes of it an action that flushes exactly
\* when the decision did.
LEMMA AsideFlushes ==
  ASSUME NEW action \in PacingAction
  PROVE  aside(action) \in PacingAction /\ (Flushes(aside(action)) <=> Flushes(action))
BY DEF aside, Flushes, PacingAction, ReadMode

\* Coalescing a row with those in waiting gives rows.
LEMMA RenderType ==
  ASSUME NEW rows \in Seq(Row), NEW row \in Row
  PROVE  render(rows, row) \in Seq(Row)
<1> DEFINE others == {pending \in Range(rows) : pending.line # row.line}
           last   == rows[Len(rows)]
<1>1. CASE row.revision = "Appended" /\ rows # <<>> /\ rows[Len(rows)].line = row.line
  <2>1. last \in Row /\ Len(rows) \in DOMAIN rows
    BY <1>1
  <2>2. [last EXCEPT !.text = @ \o row.text] \in Row
    <3>1. last.text \o row.text \in Text
      BY <2>1 DEF Row, Text
    <3> HIDE DEF last
    <3> QED BY <2>1, <3>1 DEF Row
  <2>3. render(rows, row) = [rows EXCEPT ![Len(rows)] = [last EXCEPT !.text = @ \o row.text]]
    BY <1>1 DEF render
  <2> DEFINE joined == [last EXCEPT !.text = @ \o row.text]
  <2> HIDE DEF last
  <2>4. joined \in Row /\ render(rows, row) = [rows EXCEPT ![Len(rows)] = joined]
    BY <2>2, <2>3
  <2> HIDE DEF joined
  <2> QED BY <2>1, <2>4, ExceptSeq
<1>2. CASE ~(row.revision = "Appended" /\ rows # <<>> /\ rows[Len(rows)].line = row.line)
  <2> DEFINE kept == Only(rows, others)
  <2> HIDE DEF others
  <2>1. kept \in Seq(Row)
    BY OnlyRange
  <2>2. \/ render(rows, row) = Append(rows, row)
        \/ render(rows, row) = Append(kept, row)
    BY <1>2 DEF render, others
  <2> HIDE DEF kept
  <2>3. Append(rows, row) \in Seq(Row) /\ Append(kept, row) \in Seq(Row)
    BY <2>1, AppendProperties
  <2> QED BY <2>2, <2>3
<1> QED BY <1>1, <1>2

\* Carrying out an action keeps the accumulator well formed, and takes all of
\* it when the action flushes.
LEMMA ApplyHolds ==
  ASSUME NEW action \in PacingAction, NEW rows,
         NEW heard \in UnspokenText, HasLines(heard),
         NEW undecided \in Text, undecided # <<>> => heard.any,
         apply(action, rows, heard, undecided)
  PROVE  /\ unspoken' \in UnspokenText /\ HasLines(unspoken')
         /\ owed' \in Text /\ (owed' # <<>> => unspoken'.any)
         /\ unrendered' \in {<<>>, rows}
         /\ unspoken' = IF Flushes(action) THEN NothingUnspoken ELSE heard
         /\ owed' = IF Flushes(action) THEN <<>> ELSE undecided
BY NothingUnspokenType, AsideFlushes DEF apply

-----------------------------------------------------------------------------
(* The invariant holds initially and every action preserves it.             *)

\* The initial state.
LEMMA InitHolds == Init => IInv
<1> SUFFICES ASSUME Init PROVE IInv
  OBVIOUS
<1>1. TypeOK
  <2>1. <<>> \in Seq(Told)
    OBVIOUS
  <2> QED BY <2>1, NothingUnspokenType DEF Init, TypeOK, Time, NoTime, NoCommand
<1>2. PacingInvariants
  BY BabbleLimitAssumption DEF Init, PacingInvariants, FreshPacing
<1>3. TimersOK
  BY DEF Init, TimersOK, RowsWaitForATick, TimersServeTheCommand, SpeechIsNotPostponed
<1> QED BY <1>1, <1>2, <1>3, NothingUnspokenType DEF Init, IInv

\* A step that leaves the command and its timers alone, and does not turn the
\* clock back.
LEMMA AsideHolds ==
  ASSUME IInv, UNCHANGED <<command, timers, commands, told, owed>>,
         now' \in Nat, now' >= now,
         integration' \in {"Pending", "Integrated", "Unintegrated"},
         screen' \in {"Normal", "Alternate"},
         followMode' \in BOOLEAN, selfTalk' \in BOOLEAN
  PROVE  IInv'
<1> USE DEF command, timers
<1>1. TypeOK'
  BY DEF IInv, TypeOK
<1>2. startedAt' <= now' /\ PacingInvariants'
  BY DEF IInv, TypeOK, PacingInvariants, PacingState
<1>3. RowsWaitForATick' /\ TimersServeTheCommand'
  BY DEF IInv, TimersOK, RowsWaitForATick, TimersServeTheCommand
<1>4. SpeechIsNotPostponed'
  BY DEF IInv, TimersOK, SpeechIsNotPostponed, TypeOK, Time, NoTime
<1>5. HasLines(unspoken') /\ (owed' # <<>> => unspoken'.any)
  BY DEF IInv
<1> QED BY <1>1, <1>2, <1>3, <1>4, <1>5 DEF IInv, TimersOK, HasLines

\* A command starting, and one ending, leave everything about a command fresh.
LEMMA FreshHolds ==
  ASSUME IInv, Fresh, UNCHANGED <<session, now>>, startedAt' = now,
         active' \in Nat, commands' \in Nat, told' \in Seq(Told),
         \/ UNCHANGED timers /\ active = NoCommand
         \/ renderTimer' = NoTime /\ pacingTimer' = NoTime
  PROVE  IInv'
<1>1. renderTimer' = NoTime /\ pacingTimer' = NoTime
  BY DEF IInv, TimersOK, TimersServeTheCommand, timers
<1>2. TypeOK'
  BY <1>1, NothingUnspokenType
     DEF IInv, TypeOK, Fresh, session, Time, NoTime
<1>3. startedAt' <= now' /\ PacingInvariants'
  BY BabbleLimitAssumption
     DEF IInv, TypeOK, Fresh, session, PacingInvariants, FreshPacing
<1>4. TimersOK'
  BY <1>1 DEF Fresh, TimersOK, RowsWaitForATick, TimersServeTheCommand, SpeechIsNotPostponed
<1> QED BY <1>2, <1>3, <1>4, NothingUnspokenType DEF IInv, Fresh, HasLines

\* A row arriving.
LEMMA OutputHolds ==
  ASSUME IInv, NEW chunk \in Chunks, Output(chunk)
  PROVE  IInv' /\ Latched(pacing, pacing')
<1> DEFINE token     == Len(told) + 1
           text      == IF chunk.some THEN <<token>> ELSE <<>>
           separated == IF lastLine \notin {NoLine, chunk.line}
                        THEN <<NL>> \o text ELSE text
           heard     == push(unspoken, separated)
           outcome   == on_output(pacing, measure(separated), at, followMode)
           shown     == chunk.revision # "Appended" \/ chunk.some
<1>1. chunk \in Chunk
  BY ChunksAssumption
<1>2. text \in Text /\ separated \in Text /\ measure(separated) \in Size
  <2>1. text \in Text /\ separated \in Text
    BY <1>1 DEF IInv, TypeOK, Chunk, Text, Token, NL
  <2> HIDE DEF text, separated
  <2> QED BY <2>1, MeasureType
<1>3. told' = Append(told, [line |-> chunk.line, revision |-> chunk.revision,
                            text |-> text, spoken |-> chunk.spoken])
  BY DEF Output
<1>4. told' \in Seq(Told)
  <2> HIDE DEF text
  <2>1. [line |-> chunk.line, revision |-> chunk.revision,
         text |-> text, spoken |-> chunk.spoken] \in Told
    BY <1>1, <1>2 DEF Told, Chunk
  <2>2. told \in Seq(Told)
    BY DEF IInv, TypeOK
  <2> QED BY <1>3, <2>1, <2>2
<1>5. /\ active # NoCommand
      /\ renderArmed' = (renderArmed \/ shown)
      /\ renderTimer' = IF shown /\ ~renderArmed THEN now + RenderTick ELSE renderTimer
      /\ UNCHANGED <<session, active, startedAt, now, commands>>
  BY DEF Output
<1>6. renderArmed' \in BOOLEAN /\ renderTimer' \in Time /\ (renderArmed' <=> renderTimer' # NoTime)
  <2>1. now + RenderTick \in Time /\ now + RenderTick # NoTime
    BY RenderTickAssumption DEF IInv, TypeOK, Time, NoTime
  <2>2. renderArmed \in BOOLEAN /\ renderTimer \in Time /\ (renderArmed <=> renderTimer # NoTime)
    BY DEF IInv, TypeOK, TimersOK, RowsWaitForATick
  <2>3. CASE shown /\ ~renderArmed
    BY <1>5, <2>1, <2>3
  <2>4. CASE ~(shown /\ ~renderArmed)
    <3>1. renderTimer' = renderTimer
      BY <1>5, <2>4
    <3>2. renderArmed' <=> renderArmed
      BY <1>5, <2>4
    <3>3. renderArmed' \in BOOLEAN
      BY <1>5
    <3> QED BY <2>2, <3>1, <3>2, <3>3
  <2> QED BY <2>3, <2>4
<1>7. shown \/ unrendered' = unrendered \/ unrendered' = <<>>
  BY DEF Output, apply
<1>75. unrendered' \in Seq(Row)
  <2> DEFINE row  == [line |-> chunk.line, revision |-> chunk.revision, text |-> text]
             rows == IF shown THEN render(unrendered, row) ELSE unrendered
  <2>1. row \in Row
    <3> HIDE DEF text
    <3> QED BY <1>1, <1>2 DEF Row, Chunk
  <2>2. unrendered' = rows \/ unrendered' = <<>>
    BY DEF Output, apply
  <2> HIDE DEF row, shown
  <2>3. rows \in Seq(Row)
    <3>1. unrendered \in Seq(Row)
      BY DEF IInv, TypeOK
    <3>2. render(unrendered, row) \in Seq(Row)
      BY <2>1, <3>1, RenderType
    <3> QED BY <3>1, <3>2
  <2> HIDE DEF rows
  <2> QED BY <2>2, <2>3, NothingUnspokenType
<1>8. RowsWaitForATick' /\ TimersServeTheCommand'
  <2> HIDE DEF shown
  <2>1. unrendered' # <<>> => renderArmed'
    BY <1>5, <1>7 DEF IInv, TimersOK, RowsWaitForATick
  <2>2. RowsWaitForATick'
    BY <2>1, <1>6 DEF RowsWaitForATick
  <2> QED BY <1>5, <2>2 DEF TimersServeTheCommand
<1>9. CASE chunk.spoken
  <2>1. /\ PacingHolds(pacing, at) /\ at \in Nat /\ startedAt + at = now
        /\ followMode \in BOOLEAN
    BY OffsetHolds DEF IInv, TypeOK
  <2>2. /\ pacing' = outcome.state
        /\ lastLine' = chunk.line
        /\ pacingTimer' = Arm(outcome.wake)
        /\ \E rows : apply(outcome.action, rows, heard, owed \o text)
    BY <1>9 DEF Output
  <2> HIDE DEF text, separated
  <2>3. /\ PacingHolds(outcome.state, at)
        /\ Latched(pacing, outcome.state)
        /\ outcome.action \in {"None", "Auto"}
        /\ \/ outcome.wake = NoTime
           \/ WakeInWindow(outcome.state, at, outcome.wake)
    BY <1>2, <2>1, OnOutputHolds
  <2>4. heard \in UnspokenText /\ HasLines(heard) /\ (separated # <<>> => heard.any)
    BY <1>2, PushType DEF IInv, TypeOK
  <2>5. owed \o text \in Text /\ (owed \o text # <<>> => heard.any)
    <3>1. owed \o text \in Text
      BY <1>2 DEF IInv, TypeOK, Text
    <3>2. text # <<>> => separated # <<>>
      BY <1>2 DEF text, separated, NL
    <3>3. separated = <<>> => heard = unspoken
      BY DEF push
    <3>4. owed \o text # <<>> => owed # <<>> \/ text # <<>>
      BY <1>2 DEF IInv, TypeOK, Text
    <3> HIDE DEF heard
    <3> QED BY <2>4, <3>1, <3>2, <3>3, <3>4 DEF IInv
  <2> HIDE DEF heard, outcome
  <2>6. outcome.action \in PacingAction
    BY <2>3 DEF PacingAction, ReadMode
  <2>7. /\ unspoken' \in UnspokenText /\ HasLines(unspoken')
        /\ owed' \in Text /\ (owed' # <<>> => unspoken'.any)
    BY <2>2, <2>4, <2>5, <2>6, ApplyHolds
  <2>8. /\ pacing' \in PacingState
        /\ startedAt' <= now' /\ PacingInvariants'
    BY <1>5, <2>1, <2>2, <2>3 DEF PacingHolds, PacingInvariants, PacingState, IInv, TypeOK
  <2>9. pacingTimer' \in Time /\ SpeechIsNotPostponed'
    <3>1. /\ now' = now /\ startedAt' = startedAt /\ now \in Nat /\ startedAt \in Nat
          /\ pacing'.lastOutputAt \in Nat
      BY <1>5, <2>2, <2>3 DEF IInv, TypeOK, PacingHolds, PacingState
    <3>2. CASE outcome.wake = NoTime
      BY <2>2, <3>2 DEF SpeechIsNotPostponed, Arm, Time
    <3>3. CASE WakeInWindow(outcome.state, at, outcome.wake)
      <4>1. /\ pacingTimer' = now + outcome.wake /\ outcome.wake \in Nat
            /\ \/ outcome.wake = 0
               \/ at + outcome.wake <= pacing'.lastOutputAt + Quiescence
        BY <2>2, <3>3 DEF Arm, WakeInWindow, NoTime
      <4> QED BY <2>1, <3>1, <4>1, QuiescenceAssumption DEF SpeechIsNotPostponed, Time
    <3> QED BY <2>3, <3>2, <3>3
  <2>10. TypeOK'
    BY <1>1, <1>4, <1>5, <1>6, <1>75, <2>2, <2>7, <2>8, <2>9
       DEF TypeOK, IInv, session, Chunk
  <2> QED BY <1>8, <2>2, <2>3, <2>7, <2>8, <2>9, <2>10 DEF IInv, TimersOK, HasLines
<1>10. CASE ~chunk.spoken
  <2>1. UNCHANGED <<lastLine, pacing, unspoken, owed, pacingTimer>>
    BY <1>10 DEF Output
  <2>2. TypeOK'
    BY <1>4, <1>5, <1>6, <1>75, <2>1 DEF TypeOK, IInv, session
  <2>3. startedAt' <= now' /\ PacingInvariants' /\ SpeechIsNotPostponed'
    BY <1>5, <2>1 DEF IInv, TimersOK, PacingInvariants, SpeechIsNotPostponed
  <2> QED BY <1>8, <2>1, <2>2, <2>3 DEF IInv, TimersOK, HasLines, Latched
<1> QED BY <1>9, <1>10

\* The pacing timer firing.
LEMMA WakePacingHolds ==
  ASSUME IInv, WakePacing
  PROVE  /\ IInv'
         /\ Latched(pacing, pacing')
         /\ unspoken'.any /\ pacingTimer' = NoTime => pacing'.babbleTripped
<1> DEFINE outcome == on_wake(pacing, size(unspoken), at)
<1>1. /\ pacing' = outcome.state
      /\ pacingTimer' = Arm(outcome.wake)
      /\ apply(outcome.action, unrendered, unspoken, owed)
      /\ UNCHANGED <<session, active, startedAt, renderArmed, lastLine, renderTimer,
                     now, commands, told>>
      /\ active # NoCommand
  BY DEF WakePacing
<1>2. /\ PacingHolds(pacing, at) /\ at \in Nat /\ startedAt + at = now
      /\ size(unspoken) \in Size
      /\ unspoken \in UnspokenText /\ HasLines(unspoken)
      /\ owed \in Text /\ (owed # <<>> => unspoken.any)
  BY OffsetHolds, SizeType DEF IInv, TypeOK
<1>3. /\ PacingHolds(outcome.state, at)
      /\ Latched(pacing, outcome.state)
      /\ outcome.action \in PacingAction
      /\ \/ WakeInWindow(outcome.state, at, outcome.wake)
         \/ /\ outcome.wake = NoTime
            /\ \/ size(unspoken) = NoSize
               \/ Flushes(outcome.action)
               \/ outcome.state.babbleTripped
  BY <1>2, OnWakeHolds
<1> HIDE DEF outcome
<1>4. /\ unspoken' \in UnspokenText /\ HasLines(unspoken')
      /\ owed' \in Text /\ (owed' # <<>> => unspoken'.any)
      /\ unrendered' \in {<<>>, unrendered}
      /\ unspoken' = IF Flushes(outcome.action) THEN NothingUnspoken ELSE unspoken
  BY <1>1, <1>2, <1>3, ApplyHolds
<1>5. /\ now' = now /\ startedAt' = startedAt /\ now \in Nat /\ startedAt \in Nat
      /\ startedAt <= now
      /\ pacing' \in PacingState /\ pacing'.lastOutputAt \in Nat
  BY <1>1, <1>3 DEF IInv, TypeOK, PacingHolds, PacingState
<1>6. PacingInvariants'
  BY <1>1, <1>2, <1>3, <1>5 DEF PacingHolds, PacingInvariants, PacingState
<1>7. pacingTimer' \in Time /\ SpeechIsNotPostponed'
  <2>1. CASE outcome.wake = NoTime
    BY <1>1, <2>1 DEF SpeechIsNotPostponed, Arm, Time
  <2>2. CASE WakeInWindow(outcome.state, at, outcome.wake)
    <3>1. /\ pacingTimer' = now + outcome.wake /\ outcome.wake \in Nat
          /\ \/ outcome.wake = 0
             \/ at + outcome.wake <= pacing'.lastOutputAt + Quiescence
      BY <1>1, <2>2 DEF Arm, WakeInWindow, NoTime
    <3> QED BY <1>2, <1>5, <3>1, QuiescenceAssumption DEF SpeechIsNotPostponed, Time
  <2> QED BY <1>3, <2>1, <2>2
<1>8. RowsWaitForATick' /\ TimersServeTheCommand'
  BY <1>1, <1>4 DEF IInv, TimersOK, RowsWaitForATick, TimersServeTheCommand
<1>9. TypeOK'
  <2>1. unrendered' \in Seq(Row)
    BY <1>4, NothingUnspokenType DEF IInv, TypeOK
  <2> QED BY <1>1, <1>4, <1>5, <1>7, <2>1 DEF IInv, TypeOK, session
<1>10. unspoken'.any /\ pacingTimer' = NoTime => pacing'.babbleTripped
  <2> SUFFICES ASSUME unspoken'.any, pacingTimer' = NoTime PROVE pacing'.babbleTripped
    OBVIOUS
  <2>1. ~WakeInWindow(outcome.state, at, outcome.wake)
    BY <1>1, <1>5 DEF WakeInWindow, Arm, NoTime
  <2>2. ~Flushes(outcome.action) /\ unspoken.any
    BY <1>4, NothingUnspokenType
  <2>3. size(unspoken) # NoSize
    BY <1>2, <2>2 DEF HasLines, NoSize
  <2> QED BY <1>1, <1>3, <2>1, <2>2, <2>3
<1> QED BY <1>1, <1>3, <1>4, <1>5, <1>6, <1>7, <1>8, <1>9, <1>10 DEF IInv, TimersOK, HasLines

\* Rows going to the buffer, at a tick or ahead of the far end's line.
LEMMA RenderHolds ==
  ASSUME IInv, unrendered' = <<>>,
         UNCHANGED <<session, active, startedAt, pacing, unspoken, lastLine,
                     pacingTimer, now, commands, told, owed>>,
         \/ renderTimer' = NoTime /\ renderArmed' = FALSE
         \/ UNCHANGED <<renderTimer, renderArmed>>
  PROVE  IInv'
<1>1. TypeOK'
  <2>1. unrendered' \in Seq(Row)
    BY NothingUnspokenType
  <2> QED BY <2>1 DEF IInv, TypeOK, session, Time
<1>2. TimersOK'
  BY DEF IInv, TimersOK, RowsWaitForATick, TimersServeTheCommand, SpeechIsNotPostponed
<1> QED BY <1>1, <1>2 DEF IInv, PacingInvariants, HasLines

\* A command's end, however it comes.
LEMMA CloseHolds ==
  ASSUME IInv, NEW terminal, NEW after, Close(terminal, after)
  PROVE  IInv'
<1>1. /\ Fresh /\ UNCHANGED <<session, now>> /\ startedAt' = now
      /\ active' = NoCommand /\ commands' = commands /\ told' = told
      /\ renderTimer' = NoTime /\ pacingTimer' = NoTime
  BY DEF Close
<1>2. active' \in Nat /\ commands' \in Nat /\ told' \in Seq(Told)
  BY <1>1 DEF IInv, TypeOK, NoCommand
<1> QED BY <1>1, <1>2, FreshHolds

\* Every step of the actor preserves the invariant, and none but the start of
\* a command unlatches patience or the babble guard.
LEMMA NextHolds ==
  ASSUME IInv, [Next]_vars
  PROVE  /\ IInv'
         /\ active' = active /\ active # NoCommand => Latched(pacing, pacing')
<1>0. ASSUME pacing' = pacing PROVE Latched(pacing, pacing')
  BY <1>0 DEF Latched
<1>1. CASE CommandStarted
  <2>1. /\ Fresh /\ UNCHANGED <<session, timers, now>> /\ startedAt' = now
        /\ active = NoCommand
        /\ active' = commands + 1 /\ commands' = commands + 1 /\ told' = <<>>
    BY <1>1 DEF CommandStarted
  <2>2. active' \in Nat /\ commands' \in Nat /\ told' \in Seq(Told)
    BY <2>1 DEF IInv, TypeOK
  <2> QED BY <2>1, <2>2, FreshHolds
<1>2. ASSUME NEW chunk \in Chunks, Output(chunk)
      PROVE  IInv' /\ Latched(pacing, pacing')
  BY <1>2, OutputHolds
<1>3. ASSUME NEW exit \in ExitCodes, CommandEnded(exit)
      PROVE  IInv' /\ active' = NoCommand
  BY <1>3, CloseHolds DEF CommandEnded, Close
<1>4. CASE CommandInterrupted
  BY <1>4, CloseHolds DEF CommandInterrupted, Close
<1>5. CASE FarEndLine
  BY <1>0, <1>5, RenderHolds DEF FarEndLine, timers
<1>6. CASE WakeRender
  BY <1>0, <1>6, RenderHolds DEF WakeRender
<1>7. CASE WakePacing
  BY <1>7, WakePacingHolds
<1>8. IInv => /\ now \in Nat /\ integration \in {"Pending", "Integrated", "Unintegrated"}
              /\ screen \in {"Normal", "Alternate"}
              /\ followMode \in BOOLEAN /\ selfTalk \in BOOLEAN
  BY DEF IInv, TypeOK
<1>9. ASSUME UNCHANGED <<command, timers, commands, told, owed>>,
             now' \in {now, now + 1},
             integration' \in {integration, "Integrated", "Unintegrated"},
             screen' \in Screens \cup {screen},
             followMode' \in FollowModes \cup {followMode},
             selfTalk' \in SelfTalks \cup {selfTalk}
      PROVE  IInv' /\ Latched(pacing, pacing')
  <2>1. now' \in Nat /\ now' >= now
    BY <1>8, <1>9
  <2>2. /\ integration' \in {"Pending", "Integrated", "Unintegrated"}
        /\ screen' \in {"Normal", "Alternate"}
        /\ followMode' \in BOOLEAN /\ selfTalk' \in BOOLEAN
    BY <1>8, <1>9, SwitchesAssumption
  <2>3. pacing' = pacing
    BY <1>9 DEF command
  <2> QED BY <1>0, <1>9, <2>1, <2>2, <2>3, AsideHolds
<1>10. CASE \E kind \in {"PromptDrawn", "ConnectionChanged"} : Forwarded(kind)
  BY <1>9, <1>10 DEF Forwarded, session
<1>11. CASE MarkersObserved \/ GracePeriodExpired
  BY <1>9, <1>11 DEF MarkersObserved, GracePeriodExpired, history
<1>12. CASE \E on \in FollowModes : FollowMode(on)
  BY <1>9, <1>12 DEF FollowMode, history
<1>13. CASE \E on \in SelfTalks : SelfTalk(on)
  BY <1>9, <1>13 DEF SelfTalk, history
<1>14. CASE \E to \in Screens : ScreenSwitched(to)
  BY <1>9, <1>14 DEF ScreenSwitched, history
<1>15. CASE Tick
  BY <1>9, <1>15 DEF Tick, session, history
<1>16. CASE UNCHANGED vars
  BY <1>9, <1>16 DEF vars, session, history
<1> QED
  BY <1>1, <1>2, <1>3, <1>4, <1>5, <1>6, <1>7, <1>10, <1>11, <1>12, <1>13, <1>14,
     <1>15, <1>16 DEF Next

-----------------------------------------------------------------------------
(* The theorems.                                                           *)

\* The inductive invariant holds of every session.
THEOREM InvariantHolds == Spec => []IInv
<1>1. IInv /\ [Next]_vars => IInv'
  BY NextHolds
<1> QED BY <1>1, InitHolds, PTL DEF Spec

\* The invariants entities/pacing_state.rs documents hold of every session.
THEOREM PacingInvariantsHold == Spec => []PacingInvariants
<1>1. IInv => PacingInvariants
  BY DEF IInv
<1> QED BY <1>1, InvariantHolds, PTL

\* Rows wait only for a tick that is coming, no timer outlives its command,
\* and no wake is pushed past the quiescence window.
THEOREM TimersHold ==
  Spec => [](RowsWaitForATick /\ TimersServeTheCommand /\ SpeechIsNotPostponed)
<1>1. IInv => RowsWaitForATick /\ TimersServeTheCommand /\ SpeechIsNotPostponed
  BY DEF IInv, TimersOK
<1> QED BY <1>1, InvariantHolds, PTL

\* The wake comes no later than the quiescence window after the last text.
THEOREM SpeechComesInTime == Spec => []SpeechIsNotPostponed
<1>1. IInv => SpeechIsNotPostponed
  BY DEF IInv, TimersOK
<1> QED BY <1>1, InvariantHolds, PTL

\* Patience and the babble guard latch for the life of a command.
THEOREM LatchesAreHeld == Spec => LatchesHold
<1>1. IInv /\ [Next]_vars =>
        [active' = active /\ active # NoCommand =>
          /\ pacing.patienceFired => pacing'.patienceFired
          /\ pacing.babbleTripped => pacing'.babbleTripped]_vars
  BY NextHolds DEF Latched
<1> QED BY <1>1, InvariantHolds, PTL DEF Spec, LatchesHold

-----------------------------------------------------------------------------
(***************************************************************************)
(* The events sent.                                                        *)
(***************************************************************************)
Terminal  == {"CommandFinished", "CommandInterrupted"}
Passed    == {"PromptDrawn", "ConnectionChanged", "IntegrationUnavailable"}
Paced     == {"StillRunning", "OutputContinues"}
Plain     == Terminal \cup Passed \cup Paced \cup {"CommandStarted", "FarEndLine"}

Sent == [kind : Plain] \cup [kind : {"Output"}, row : Row]
        \cup [kind : {"ReadAloud"}, text : Text] \cup [kind : {"TooBig"}, lines : Nat]
        \cup [kind : {"Failed"}, exit : ExitCodes]

\* Only the last two follow what an announcement is decided from.
Afters == {<<>>} \cup {<<Failed(exit)>> : exit \in ExitCodes}
Extras == {<<>>, <<Event("FarEndLine")>>}

\* What the steps of the actor do to the stream of events.
Starts == /\ active = NoCommand /\ active' # NoCommand
          /\ sent' = <<Event("CommandStarted")>> /\ told' = <<>> /\ Fresh

Renders ==
    /\ active # NoCommand /\ unrendered' = <<>>
    /\ \E extra \in Extras : sent' = sent \o OutputEvents(unrendered) \o extra
    /\ UNCHANGED <<session, active, startedAt, pacing, unspoken, lastLine, told, owed>>

Passes == /\ \/ sent' = sent
             \/ \E kind \in Passed : sent' = Append(sent, Event(kind))
          /\ UNCHANGED <<command, told, owed>>

Closes(terminal, after) ==
    /\ terminal \in Terminal /\ after \in Afters
    /\ Close(terminal, after)

\* Every step of the actor is one of these.
LEMMA StepIs ==
  ASSUME IInv, [Next]_vars
  PROVE  \/ Starts
         \/ \E chunk \in Chunks : Output(chunk)
         \/ \E terminal \in Terminal, after \in Afters : Close(terminal, after)
         \/ Renders
         \/ WakePacing
         \/ Passes
<1>1. CASE CommandStarted
  <2>1. active' # NoCommand
    BY <1>1 DEF CommandStarted, IInv, TypeOK, NoCommand
  <2> QED BY <1>1, <2>1 DEF CommandStarted, Starts
<1>2. ASSUME NEW exit \in ExitCodes, CommandEnded(exit)
      PROVE  \E terminal \in Terminal, after \in Afters : Close(terminal, after)
  BY <1>2 DEF CommandEnded, Terminal, Afters
<1>3. CASE CommandInterrupted
  BY <1>3 DEF CommandInterrupted, Terminal, Afters
<1>4. CASE FarEndLine
  <2>1. active # NoCommand
    BY <1>4 DEF FarEndLine, IInv, TimersOK, TimersServeTheCommand
  <2> QED BY <1>4, <2>1 DEF FarEndLine, Renders, Extras, timers
<1>5. CASE WakeRender
  <2>1. active # NoCommand
    BY <1>5 DEF WakeRender, Due, IInv, TimersOK, TimersServeTheCommand
  <2>2. sent' = sent \o OutputEvents(unrendered)
    BY <1>5 DEF WakeRender
  <2> QED BY <1>5, <2>1, <2>2 DEF WakeRender, Renders, Extras
<1>6. ASSUME NEW kind \in {"PromptDrawn", "ConnectionChanged"}, Forwarded(kind)
      PROVE  Passes
  BY <1>6 DEF Forwarded, Passes, Passed
<1>7. CASE MarkersObserved \/ GracePeriodExpired
  BY <1>7 DEF MarkersObserved, GracePeriodExpired, history, Passes, Passed
<1>8. CASE \/ \E on \in FollowModes : FollowMode(on)
           \/ \E on \in SelfTalks : SelfTalk(on)
           \/ \E to \in Screens : ScreenSwitched(to)
           \/ Tick
           \/ UNCHANGED vars
  BY <1>8 DEF FollowMode, SelfTalk, ScreenSwitched, Tick, vars, history, Passes
<1> QED BY <1>1, <1>2, <1>3, <1>4, <1>5, <1>6, <1>7, <1>8 DEF Next

\* Rows become events one by one.
LEMMA OutputEventsAre ==
  ASSUME NEW rows \in Seq(Row)
  PROVE  /\ OutputEvents(rows) \in Seq(Sent) /\ Len(OutputEvents(rows)) = Len(rows)
         /\ \A i \in 1..Len(rows) :
               /\ OutputEvents(rows)[i] = OutputEvent(rows[i])
               /\ OutputEvents(rows)[i].kind = "Output"
               /\ OutputEvents(rows)[i].row = rows[i] /\ rows[i] \in Row
<1>1. DOMAIN rows = 1..Len(rows) /\ Len(rows) \in Nat /\ \A i \in 1..Len(rows) : rows[i] \in Row
  OBVIOUS
<1>2. \A row \in Row : OutputEvent(row) \in Sent /\ OutputEvent(row).kind = "Output"
                        /\ OutputEvent(row).row = row
  BY DEF OutputEvent, Sent
<1>3. OutputEvents(rows) = [i \in 1..Len(rows) |-> OutputEvent(rows[i])]
  BY <1>1 DEF OutputEvents
<1> HIDE DEF OutputEvents, Sent, Row
<1>4. \A i \in 1..Len(rows) : OutputEvents(rows)[i] = OutputEvent(rows[i])
  BY <1>3
<1>5. OutputEvents(rows) \in [1..Len(rows) -> Sent]
  BY <1>1, <1>2, <1>3
<1>6. OutputEvents(rows) \in Seq(Sent) /\ Len(OutputEvents(rows)) = Len(rows)
  BY <1>1, <1>3, <1>5
<1> QED BY <1>1, <1>2, <1>4, <1>6

\* What is said when an action is carried out.
Speech == {"ReadAloud", "TooBig"} \cup Paced

Says(said, action, heard) ==
    /\ said \in Seq(Sent)
    /\ \A i \in 1..Len(said) :
          /\ said[i].kind \in Speech
          /\ said[i].kind = "OutputContinues" =>
                action = "OutputContinues" /\ Len(said) = 1
          /\ said[i].kind \in {"ReadAloud", "TooBig"} =>
                action \in {"Auto", "TooBig"} /\ Flushes(action)
          /\ said[i].kind = "ReadAloud" =>
                said[i].text = heard.lastLine \/ (heard.kept /\ said[i].text = heard.text)
    /\ \A i, j \in 1..Len(said) :
          said[i].kind = "ReadAloud" /\ said[j].kind = "ReadAloud" => i = j
    /\ selfTalk => said = <<>>
    /\ ~selfTalk /\ action = "Auto" /\ heard.kept => said = <<ReadAloud(heard.text)>>

\* The announcements of an action that has passed aside are of these kinds.
LEMMA SaidIs ==
  ASSUME NEW action \in PacingAction, NEW heard \in UnspokenText
  PROVE  Says(Said(aside(action), heard), action, heard)
<1> DEFINE did == aside(action)
           said == Said(did, heard)
<1>1. heard.text \in Text /\ heard.lastLine \in Text /\ size(heard).lines \in Nat
  BY SizeType DEF UnspokenText, Size
<1>2. /\ ReadAloud(heard.text) \in Sent /\ ReadAloud(heard.lastLine) \in Sent
      /\ TooBig(size(heard).lines) \in Sent
      /\ \A kind \in Paced : Event(kind) \in Sent
  BY <1>1 DEF Sent, ReadAloud, TooBig, Event, Plain
<1>3. /\ ReadAloud(heard.text).kind = "ReadAloud" /\ ReadAloud(heard.text).text = heard.text
      /\ ReadAloud(heard.lastLine).kind = "ReadAloud"
      /\ ReadAloud(heard.lastLine).text = heard.lastLine
      /\ TooBig(size(heard).lines).kind = "TooBig"
      /\ \A kind \in Paced : Event(kind).kind = kind
  BY DEF ReadAloud, TooBig, Event
<1>4. \/ said = <<>> /\ (selfTalk \/ ~(action = "Auto" /\ heard.kept))
      \/ said = <<ReadAloud(heard.text)>> /\ ~selfTalk /\ action = "Auto" /\ heard.kept
      \/ said = <<TooBig(size(heard).lines)>> /\ ~selfTalk /\ action = "TooBig"
      \/ /\ said = <<TooBig(size(heard).lines), ReadAloud(heard.lastLine)>>
         /\ ~selfTalk /\ action = "TooBig"
      \/ /\ \E kind \in Paced : said = <<Event(kind)>> /\ action = kind
         /\ ~selfTalk
  <2>1. CASE selfTalk
    BY <2>1 DEF Said, aside
  <2>2. CASE ~selfTalk
    <3>1. said = Said(action, heard)
      BY <2>2 DEF aside
    <3> HIDE DEF said, did
    <3>2. CASE action = "Auto" /\ heard.kept
      BY <2>2, <3>1, <3>2 DEF Said
    <3>3. CASE action = "TooBig"
      <4> DEFINE a == TooBig(size(heard).lines)
                 b == ReadAloud(heard.lastLine)
      <4>1. <<a>> \o <<b>> = <<a, b>> /\ <<a>> \o <<>> = <<a>>
        BY Pair
      <4>2. said = <<a>> \o <<b>> \/ said = <<a>> \o <<>>
        BY <3>1, <3>3 DEF Said
      <4> QED BY <2>2, <3>3, <4>1, <4>2
    <3>4. CASE action \in Paced
      BY <2>2, <3>1, <3>4 DEF Said, Paced
    <3>5. CASE ~(action = "Auto" /\ heard.kept) /\ action # "TooBig" /\ action \notin Paced
      BY <3>1, <3>5 DEF Said, Paced
    <3> QED BY <3>2, <3>3, <3>4, <3>5
  <2> QED BY <2>1, <2>2
<1> SUFFICES Says(said, action, heard)
  OBVIOUS
<1> HIDE DEF did, said
<1> DEFINE tooBig == TooBig(size(heard).lines)
           aloud == ReadAloud(heard.text)
           last == ReadAloud(heard.lastLine)
<1>5. CASE said = <<>> /\ (selfTalk \/ ~(action = "Auto" /\ heard.kept))
  BY <1>5 DEF Says
<1>6. CASE said = <<aloud>> /\ ~selfTalk /\ action = "Auto" /\ heard.kept
  BY <1>2, <1>3, <1>6 DEF Says, Speech, Flushes, ReadMode
<1>7. CASE said = <<tooBig>> /\ ~selfTalk /\ action = "TooBig"
  BY <1>2, <1>3, <1>7 DEF Says, Speech, Flushes, ReadMode
<1>8. CASE said = <<tooBig, last>> /\ ~selfTalk /\ action = "TooBig"
  <2>1. tooBig \in Sent /\ last \in Sent
    BY <1>2
  <2>2. tooBig.kind = "TooBig" /\ last.kind = "ReadAloud" /\ last.text = heard.lastLine
    BY <1>3
  <2> HIDE DEF tooBig, last
  <2>3. /\ said \in Seq(Sent) /\ Len(said) = 2 /\ said[1] = tooBig /\ said[2] = last
        /\ 1..Len(said) = {1, 2} /\ said # <<>>
    BY <1>8, <2>1
  <2>4. action = "TooBig" /\ ~selfTalk /\ Flushes(action)
    BY <1>8 DEF Flushes, ReadMode
  <2>5. \A i \in 1..Len(said) : i = 1 \/ i = 2
    BY <2>3
  <2>6. \A i \in 1..Len(said) :
           /\ said[i].kind \in {"TooBig", "ReadAloud"}
           /\ said[i].kind = "ReadAloud" => i = 2
    BY <2>2, <2>3, <2>5
  <2>7. \A i \in 1..Len(said) :
           /\ said[i].kind \in Speech
           /\ said[i].kind # "OutputContinues"
           /\ said[i].kind = "ReadAloud" => said[i].text = heard.lastLine
    BY <2>2, <2>3, <2>5, <2>6 DEF Speech
  <2>8. \A i, j \in 1..Len(said) :
           said[i].kind = "ReadAloud" /\ said[j].kind = "ReadAloud" => i = j
    BY <2>6
  <2>9. said \in Seq(Sent)
    BY <2>3
  <2>10. selfTalk => said = <<>>
    BY <2>4
  <2>11. ~selfTalk /\ action = "Auto" /\ heard.kept => said = <<ReadAloud(heard.text)>>
    BY <2>4
  <2>12. \A i \in 1..Len(said) :
          /\ said[i].kind \in Speech
          /\ said[i].kind = "OutputContinues" =>
                action = "OutputContinues" /\ Len(said) = 1
          /\ said[i].kind \in {"ReadAloud", "TooBig"} =>
                action \in {"Auto", "TooBig"} /\ Flushes(action)
          /\ said[i].kind = "ReadAloud" =>
                said[i].text = heard.lastLine \/ (heard.kept /\ said[i].text = heard.text)
    <3> SUFFICES ASSUME NEW i \in 1..Len(said)
                 PROVE  /\ said[i].kind \in Speech
                        /\ said[i].kind # "OutputContinues"
                        /\ action \in {"Auto", "TooBig"} /\ Flushes(action)
                        /\ said[i].kind = "ReadAloud" => said[i].text = heard.lastLine
      OBVIOUS
    <3> QED BY <2>4, <2>7
  <2> QED BY <2>8, <2>9, <2>10, <2>11, <2>12 DEF Says
<1>9. CASE /\ \E kind \in Paced : said = <<Event(kind)>> /\ action = kind
           /\ ~selfTalk
  BY <1>2, <1>3, <1>9 DEF Says, Speech, Paced
<1> QED BY <1>4, <1>5, <1>6, <1>7, <1>8, <1>9

\* A step that adds to the stream adds rows, and then what it says.
Adds(shown, said) == sent' = sent \o OutputEvents(shown) \o said

\* The stream after such a step: what was sent, the rows, what is said.
LEMMA AddsAre ==
  ASSUME sent \in Seq(Sent), NEW shown \in Seq(Row), NEW said \in Seq(Sent), Adds(shown, said)
  PROVE  /\ sent' \in Seq(Sent)
         /\ Len(sent) \in Nat /\ Len(shown) \in Nat /\ Len(said) \in Nat
         /\ DOMAIN sent = 1..Len(sent)
         /\ DOMAIN sent' = 1..(Len(sent) + Len(shown) + Len(said))
         /\ \A i \in 1..Len(sent) : i \in DOMAIN sent' /\ sent'[i] = sent[i]
         /\ \A i \in 1..Len(shown) :
               /\ Len(sent) + i \in DOMAIN sent'
               /\ sent'[Len(sent) + i].kind = "Output"
               /\ sent'[Len(sent) + i].row = shown[i]
         /\ \A i \in 1..Len(said) :
               /\ Len(sent) + Len(shown) + i \in DOMAIN sent'
               /\ sent'[Len(sent) + Len(shown) + i] = said[i]
         /\ \A i \in DOMAIN sent' :
               \/ i \in 1..Len(sent) /\ sent'[i] = sent[i]
               \/ /\ i - Len(sent) \in 1..Len(shown)
                  /\ sent'[i].kind = "Output" /\ sent'[i].row = shown[i - Len(sent)]
               \/ /\ i - Len(sent) - Len(shown) \in 1..Len(said)
                  /\ sent'[i] = said[i - Len(sent) - Len(shown)]
<1> DEFINE rows == OutputEvents(shown)
           s1   == sent \o rows
           a    == Len(sent)
           b    == Len(shown)
           c    == Len(said)
<1>1. /\ rows \in Seq(Sent) /\ Len(rows) = b
      /\ \A i \in 1..b : rows[i].kind = "Output" /\ rows[i].row = shown[i]
  BY OutputEventsAre
<1>2. a \in Nat /\ b \in Nat /\ c \in Nat /\ DOMAIN sent = 1..a
  OBVIOUS
<1> HIDE DEF rows
<1>3. /\ s1 \in Seq(Sent) /\ Len(s1) = a + b
      /\ \A i \in 1..a : i \in 1..(a + b) /\ s1[i] = sent[i]
      /\ \A i \in 1..b : a + i \in 1..(a + b) /\ s1[a + i] = rows[i]
      /\ \A i \in 1..(a + b) : \/ i \in 1..a /\ s1[i] = sent[i]
                               \/ i - a \in 1..b /\ s1[i] = rows[i - a]
  <2>1. rows \in Seq(Sent) /\ b = Len(rows) /\ a = Len(sent)
    BY <1>1
  <2> HIDE DEF a, b
  <2> QED BY <2>1, Joined
<1>4. sent' = s1 \o said
  BY DEF Adds, rows
<1> HIDE DEF s1, a, b, c
<1>5. /\ s1 \o said \in Seq(Sent) /\ DOMAIN (s1 \o said) = 1..(a + b + c)
      /\ \A i \in 1..(a + b) : i \in 1..(a + b + c) /\ (s1 \o said)[i] = s1[i]
      /\ \A i \in 1..c : a + b + i \in 1..(a + b + c) /\ (s1 \o said)[a + b + i] = said[i]
      /\ \A i \in 1..(a + b + c) : \/ i \in 1..(a + b) /\ (s1 \o said)[i] = s1[i]
                                   \/ i - (a + b) \in 1..c /\ (s1 \o said)[i] = said[i - (a + b)]
  <2> DEFINE m == a + b
  <2>1. s1 \in Seq(Sent) /\ m = Len(s1) /\ c = Len(said)
    BY <1>3 DEF c
  <2> HIDE DEF m
  <2>2. /\ s1 \o said \in Seq(Sent) /\ DOMAIN (s1 \o said) = 1..(m + c)
        /\ \A i \in 1..m : i \in 1..(m + c) /\ (s1 \o said)[i] = s1[i]
        /\ \A i \in 1..c : m + i \in 1..(m + c) /\ (s1 \o said)[m + i] = said[i]
        /\ \A i \in 1..(m + c) : \/ i \in 1..m /\ (s1 \o said)[i] = s1[i]
                                 \/ i - m \in 1..c /\ (s1 \o said)[i] = said[i - m]
    BY <2>1, Joined
  <2> QED BY <2>2 DEF m
<1>6. /\ \A i \in 1..a : i \in DOMAIN sent' /\ sent'[i] = sent[i]
      /\ \A i \in 1..b : a + i \in DOMAIN sent' /\ sent'[a + i] = rows[i]
  BY <1>2, <1>3, <1>4, <1>5
<1>7. \A i \in DOMAIN sent' :
         \/ i \in 1..a /\ sent'[i] = sent[i]
         \/ i - a \in 1..b /\ sent'[i] = rows[i - a]
         \/ i - a - b \in 1..c /\ sent'[i] = said[i - a - b]
  <2> SUFFICES ASSUME NEW i \in 1..(a + b + c)
               PROVE  \/ i \in 1..a /\ sent'[i] = sent[i]
                      \/ i - a \in 1..b /\ sent'[i] = rows[i - a]
                      \/ i - a - b \in 1..c /\ sent'[i] = said[i - a - b]
    BY <1>4, <1>5
  <2>1. CASE i \in 1..(a + b)
    BY <1>3, <1>4, <1>5, <2>1
  <2>2. CASE i \notin 1..(a + b)
    <3>1. i - (a + b) = i - a - b
      BY <1>2
    <3> QED BY <1>4, <1>5, <2>2, <3>1
  <2> QED BY <2>1, <2>2
<1>8. /\ \A i \in 1..b :
            /\ a + i \in DOMAIN sent'
            /\ sent'[a + i].kind = "Output" /\ sent'[a + i].row = shown[i]
      /\ \A i \in 1..c : a + b + i \in DOMAIN sent' /\ sent'[a + b + i] = said[i]
  <2>1. ASSUME NEW i \in 1..b
        PROVE  /\ a + i \in DOMAIN sent'
               /\ sent'[a + i].kind = "Output" /\ sent'[a + i].row = shown[i]
    <3>1. rows[i].kind = "Output" /\ rows[i].row = shown[i]
      BY <1>1
    <3>2. a + i \in DOMAIN sent' /\ sent'[a + i] = rows[i]
      BY <1>6
    <3> QED BY <3>1, <3>2
  <2>2. ASSUME NEW i \in 1..c
        PROVE  a + b + i \in DOMAIN sent' /\ sent'[a + b + i] = said[i]
    BY <1>4, <1>5
  <2> QED BY <2>1, <2>2
<1>9. \A i \in DOMAIN sent' :
         \/ i \in 1..a /\ sent'[i] = sent[i]
         \/ /\ i - a \in 1..b
            /\ sent'[i].kind = "Output" /\ sent'[i].row = shown[i - a]
         \/ i - a - b \in 1..c /\ sent'[i] = said[i - a - b]
  BY <1>1, <1>7
<1>10. sent' \in Seq(Sent) /\ DOMAIN sent' = 1..(a + b + c)
  BY <1>4, <1>5
<1> QED BY <1>2, <1>6, <1>8, <1>9, <1>10 DEF a, b, c

\* Carrying out an action adds the rows if it flushes, and what it says.
LEMMA ApplyAdds ==
  ASSUME NEW action \in PacingAction, NEW rows \in Seq(Row), NEW heard \in UnspokenText,
         NEW undecided, apply(action, rows, heard, undecided), sent \in Seq(Sent)
  PROVE  \E shown \in Seq(Row), said \in Seq(Sent) :
            /\ Adds(shown, said) /\ Says(said, action, heard)
            /\ IF Flushes(action) THEN shown = rows /\ unrendered' = <<>>
                                  ELSE shown = <<>> /\ unrendered' = rows
<1> DEFINE said == Said(aside(action), heard)
<1>1. Says(said, action, heard)
  BY SaidIs
<1>2. said \in Seq(Sent)
  BY <1>1 DEF Says
<1>3. Flushes(aside(action)) <=> Flushes(action)
  BY AsideFlushes
<1>4. IF Flushes(action) THEN sent' = sent \o OutputEvents(rows) \o said /\ unrendered' = <<>>
                         ELSE sent' = sent \o said /\ unrendered' = rows
  BY <1>3 DEF apply
<1> HIDE DEF said
<1>5. CASE Flushes(action)
  BY <1>1, <1>2, <1>4, <1>5 DEF Adds
<1>6. CASE ~Flushes(action)
  <2>1. sent \o OutputEvents(<<>>) = sent
    BY ConcatEmptySeq DEF OutputEvents
  <2>2. <<>> \in Seq(Row)
    OBVIOUS
  <2>3. Adds(<<>>, said)
    BY <1>4, <1>6, <2>1 DEF Adds
  <2> QED BY <1>1, <1>2, <1>4, <1>6, <2>2, <2>3
<1> QED BY <1>5, <1>6

-----------------------------------------------------------------------------
(***************************************************************************)
(* What each kind of step does to the text and to the stream of events.    *)
(***************************************************************************)
NewText(chunk)   == IF chunk.some THEN <<Len(told) + 1>> ELSE <<>>
NewRow(chunk)    == [line |-> chunk.line, revision |-> chunk.revision, text |-> NewText(chunk)]
NewRows(chunk)   == IF chunk.revision # "Appended" \/ chunk.some
                    THEN render(unrendered, NewRow(chunk)) ELSE unrendered
Separated(chunk) == IF lastLine \notin {NoLine, chunk.line}
                    THEN <<NL>> \o NewText(chunk) ELSE NewText(chunk)
Heard(chunk)     == push(unspoken, Separated(chunk))
NewTold(chunk)   == [line |-> chunk.line, revision |-> chunk.revision,
                     text |-> NewText(chunk), spoken |-> chunk.spoken]

\* An action is carried out on these rows and this text.
Does(action, rows, heard, undecided, shown, said) ==
    /\ action \in PacingAction /\ Adds(shown, said) /\ Says(said, action, heard)
    /\ IF Flushes(action)
       THEN shown = rows /\ unrendered' = <<>> /\ unspoken' = NothingUnspoken /\ owed' = <<>>
       ELSE shown = <<>> /\ unrendered' = rows /\ unspoken' = heard /\ owed' = undecided

\* A row arrives; only when it is spoken is there anything to decide.
Tells(chunk, shown, said, action) ==
    /\ active # NoCommand /\ UNCHANGED <<session, active>>
    /\ told' = Append(told, NewTold(chunk))
    /\ NewRows(chunk) \in Seq(Row) /\ NewText(chunk) \in Text /\ Separated(chunk) \in Text
    /\ Latched(pacing, pacing')
    /\ action \in {"None", "Auto"} /\ (~followMode => action = "None")
    /\ chunk.spoken =>
          /\ Heard(chunk) \in UnspokenText
          /\ Does(action, NewRows(chunk), Heard(chunk), owed \o NewText(chunk), shown, said)
          /\ followMode /\ Separated(chunk) # <<>> => action = "Auto"
    /\ ~chunk.spoken =>
          /\ Adds(shown, said) /\ shown = <<>> /\ said = <<>>
          /\ unrendered' = NewRows(chunk) /\ UNCHANGED <<unspoken, owed>>

\* Text that is there has a size.
LEMMA TextHasSize ==
  ASSUME NEW text \in Text, text # <<>>
  PROVE  measure(text) # NoSize
<1>1. /\ Newlines(text) \in Nat
      /\ EndsInNL(text) => Newlines(text) > 0
  BY NewlinesType DEF Text
<1>2. measure(text).lines > 0
  BY <1>1 DEF measure
<1> QED BY <1>2 DEF NoSize

\* The handler of a row does just that.
LEMMA OutputTells ==
  ASSUME IInv, sent \in Seq(Sent), NEW chunk \in Chunks, Output(chunk)
  PROVE  \E shown \in Seq(Row), said \in Seq(Sent), action \in PacingAction : Tells(chunk, shown, said, action)
<1> DEFINE text      == NewText(chunk)
           separated == Separated(chunk)
           heard     == Heard(chunk)
           rows      == NewRows(chunk)
           outcome   == on_output(pacing, measure(separated), at, followMode)
<1>1. chunk \in Chunk
  BY ChunksAssumption
<1>2. text \in Text /\ separated \in Text /\ measure(separated) \in Size
  <2>1. text \in Text /\ separated \in Text
    BY <1>1 DEF IInv, TypeOK, Chunk, Text, Token, NL, NewText, Separated
  <2> HIDE DEF text, separated
  <2> QED BY <2>1, MeasureType
<1>3. rows \in Seq(Row)
  <2>1. NewRow(chunk) \in Row
    BY <1>1, <1>2 DEF NewRow, Row, Chunk
  <2>2. unrendered \in Seq(Row)
    BY DEF IInv, TypeOK
  <2>3. render(unrendered, NewRow(chunk)) \in Seq(Row)
    BY <2>1, <2>2, RenderType
  <2> QED BY <2>2, <2>3 DEF NewRows
<1>4. /\ active # NoCommand /\ UNCHANGED <<session, active>>
      /\ told' = Append(told, NewTold(chunk))
  BY DEF Output, NewTold, NewText
<1>5. Latched(pacing, pacing')
  BY OutputHolds
<1>6. CASE chunk.spoken
  <2>1. /\ PacingHolds(pacing, at) /\ at \in Nat /\ followMode \in BOOLEAN
        /\ unspoken \in UnspokenText
    BY OffsetHolds DEF IInv, TypeOK
  <2>2. apply(outcome.action, rows, heard, owed \o text)
    BY <1>6 DEF Output, NewText, NewRow, NewRows, Separated, Heard
  <2> HIDE DEF text, separated, rows
  <2>3. /\ outcome.action \in {"None", "Auto"}
        /\ ~followMode => outcome.action = "None"
    BY <1>2, <2>1, OnOutputHolds
  <2>4. heard \in UnspokenText
    BY <1>2, <2>1, PushType DEF Heard, separated
  <2>5. followMode /\ separated # <<>> => outcome.action = "Auto"
    BY <1>2, TextHasSize DEF on_output, Outcome
  <2> HIDE DEF outcome, heard
  <2>6. outcome.action \in PacingAction
    BY <2>3 DEF PacingAction, ReadMode
  <2> DEFINE action == outcome.action
             undecided == owed \o text
  <2> HIDE DEF action, undecided
  <2>7. apply(action, rows, heard, undecided)
    BY <2>2 DEF action, undecided
  <2>8. PICK shown \in Seq(Row), said \in Seq(Sent) :
            /\ Adds(shown, said) /\ Says(said, action, heard)
            /\ IF Flushes(action) THEN shown = rows /\ unrendered' = <<>>
                                  ELSE shown = <<>> /\ unrendered' = rows
    BY <1>3, <2>4, <2>6, <2>7, ApplyAdds DEF action
  <2>9. /\ unspoken' = IF Flushes(action) THEN NothingUnspoken ELSE heard
        /\ owed' = IF Flushes(action) THEN <<>> ELSE undecided
    BY <2>6, <2>7, AsideFlushes DEF apply, action
  <2>10. Does(action, rows, heard, undecided, shown, said)
    BY <2>6, <2>8, <2>9 DEF Does, action
  <2> QED BY <1>2, <1>3, <1>4, <1>5, <1>6, <2>3, <2>4, <2>5, <2>6, <2>10
          DEF Tells, action, undecided, text, separated, heard, rows
<1>7. CASE ~chunk.spoken
  <2>1. /\ unrendered' = rows /\ UNCHANGED <<unspoken, owed, sent>>
    BY <1>7 DEF Output, NewText, NewRow, NewRows
  <2> DEFINE none == <<>>
  <2>2. none \in Seq(Row) /\ none \in Seq(Sent) /\ sent \o OutputEvents(none) \o none = sent
    BY ConcatEmptySeq DEF OutputEvents
  <2>3. Adds(none, none)
    BY <2>1, <2>2 DEF Adds
  <2>4. Tells(chunk, none, none, "None")
    BY <1>2, <1>3, <1>4, <1>5, <1>7, <2>1, <2>3 DEF Tells
  <2>5. "None" \in PacingAction
    BY DEF PacingAction
  <2> QED BY <2>2, <2>4, <2>5
<1> QED BY <1>6, <1>7

\* The pacing timer asks what to do with the text that waits.
Wakes(shown, said, action) ==
    /\ active # NoCommand /\ UNCHANGED <<session, active, told>>
    /\ Does(action, unrendered, unspoken, owed, shown, said)
    /\ Latched(pacing, pacing')
    /\ pacing.babbleTripped => action \notin {"Auto", "TooBig"}
    /\ action = "OutputContinues" => pacing'.babbleTripped

\* The handler of the pacing timer does just that.
LEMMA WakePacingWakes ==
  ASSUME IInv, sent \in Seq(Sent), WakePacing
  PROVE  \E shown \in Seq(Row), said \in Seq(Sent), action \in PacingAction : Wakes(shown, said, action)
<1> DEFINE outcome == on_wake(pacing, size(unspoken), at)
           action  == outcome.action
<1>1. /\ pacing' = outcome.state
      /\ apply(action, unrendered, unspoken, owed)
      /\ UNCHANGED <<session, active, told>> /\ active # NoCommand
  BY DEF WakePacing
<1>2. /\ PacingHolds(pacing, at) /\ at \in Nat
      /\ size(unspoken) \in Size /\ unspoken \in UnspokenText /\ unrendered \in Seq(Row)
  BY OffsetHolds, SizeType DEF IInv, TypeOK
<1>3. action \in PacingAction
  BY <1>2, OnWakeHolds
<1>4. Latched(pacing, pacing')
  BY WakePacingHolds
<1>5. /\ pacing.babbleTripped => action \notin {"Auto", "TooBig"}
      /\ action = "OutputContinues" => outcome.state.babbleTripped
  <2>1. pacing \in PacingState
    BY <1>2 DEF PacingHolds
  <2>2. [pacing EXCEPT !.babbleTripped = TRUE].babbleTripped
    BY <2>1 DEF PacingState
  <2> QED BY <2>2 DEF on_wake, flush_with_babble_guard, Outcome
<1> HIDE DEF outcome, action
<1>6. PICK shown \in Seq(Row), said \in Seq(Sent) :
          /\ Adds(shown, said) /\ Says(said, action, unspoken)
          /\ IF Flushes(action) THEN shown = unrendered /\ unrendered' = <<>>
                                ELSE shown = <<>> /\ unrendered' = unrendered
  BY <1>1, <1>2, <1>3, ApplyAdds
<1>7. /\ unspoken' = IF Flushes(action) THEN NothingUnspoken ELSE unspoken
      /\ owed' = IF Flushes(action) THEN <<>> ELSE owed
  BY <1>1, <1>3, AsideFlushes DEF apply
<1>8. Does(action, unrendered, unspoken, owed, shown, said)
  BY <1>3, <1>6, <1>7 DEF Does
<1> QED BY <1>1, <1>3, <1>4, <1>5, <1>8 DEF Wakes

\* A command ends: the last word, the end, and whether it failed.
Ends(said, last, terminal, action) ==
    /\ active # NoCommand /\ active' = NoCommand /\ UNCHANGED <<session, told>> /\ Fresh
    /\ Adds(unrendered, said)
    /\ Says(last, action, unspoken)
    /\ Len(last) \in Nat /\ Len(said) \in {Len(last) + 1, Len(last) + 2}
    /\ \A i \in 1..Len(last) : said[i] = last[i]
    /\ said[Len(last) + 1].kind = terminal
    /\ Len(said) = Len(last) + 2 => said[Len(last) + 2].kind = "Failed"

\* The last word, one event that ends the command, and perhaps one more.
Closure(S, last, end, after, said) ==
    /\ last \in Seq(S) /\ end \in Seq(S) /\ after \in Seq(S)
    /\ Len(end) = 1 /\ (Len(after) = 0 \/ Len(after) = 1)
    /\ said = last \o end \o after

\* Where the parts of a closing stand.
LEMMA Closing ==
  ASSUME NEW S, NEW last, NEW end, NEW after, NEW said, Closure(S, last, end, after, said)
  PROVE  /\ said \in Seq(S) /\ Len(last) \in Nat
         /\ Len(said) = Len(last) + 1 + Len(after)
         /\ \A i \in 1..Len(last) : said[i] = last[i]
         /\ said[Len(last) + 1] = end[1]
         /\ Len(after) = 1 => said[Len(last) + 2] = after[1]
<1> DEFINE m == Len(last)
           n == Len(end)
           k == Len(after)
           x == last \o end
           j == m + n
<1>1. last \in Seq(S) /\ end \in Seq(S) /\ after \in Seq(S)
  BY DEF Closure
<1>2. m \in Nat /\ n \in Nat /\ k \in Nat
  BY <1>1
<1>3. n = 1 /\ (k = 0 \/ k = 1)
  BY DEF Closure
<1>4. m = Len(last) /\ n = Len(end) /\ k = Len(after)
  OBVIOUS
<1>5. said = x \o after
  BY DEF Closure
<1>6. x = last \o end
  OBVIOUS
<1> HIDE DEF m, n, k, x
<1>7. /\ x \in Seq(S) /\ Len(x) = m + n
      /\ \A i \in 1..m : x[i] = last[i]
      /\ \A i \in 1..n : x[m + i] = end[i]
  BY <1>1, <1>4, <1>6, Joined
<1>8. x \in Seq(S) /\ j = Len(x) /\ j \in Nat
  BY <1>2, <1>7
<1> HIDE DEF j
<1>9. /\ said \in Seq(S) /\ Len(said) = j + k
      /\ \A i \in 1..j : said[i] = x[i]
      /\ \A i \in 1..k : said[j + i] = after[i]
  BY <1>1, <1>4, <1>5, <1>8, Joined
<1>10. j = m + 1
  BY <1>3 DEF j
<1>11. \A i \in 1..m : said[i] = last[i]
  <2>1. \A i \in 1..m : i \in 1..j
    BY <1>2, <1>10
  <2> QED BY <1>7, <1>9, <2>1
<1>12. said[m + 1] = end[1]
  <2>1. 1 \in 1..n /\ m + 1 \in 1..j
    BY <1>2, <1>3, <1>10
  <2>2. said[m + 1] = x[m + 1]
    BY <1>9, <2>1
  <2>3. x[m + 1] = end[1]
    BY <1>7, <2>1
  <2> QED BY <2>2, <2>3
<1>13. k = 1 => said[m + 2] = after[1]
  <2>1. k = 1 => 1 \in 1..k
    OBVIOUS
  <2>2. j + 1 = m + 2
    BY <1>2, <1>10
  <2>3. k = 1 => said[j + 1] = after[1]
    BY <1>9, <2>1
  <2> QED BY <2>2, <2>3
<1>14. said \in Seq(S) /\ m \in Nat /\ Len(said) = m + 1 + k
  BY <1>2, <1>9, <1>10
<1> QED BY <1>11, <1>12, <1>13, <1>14 DEF m, k

\* The handlers that end a command do just that.
LEMMA CloseEnds ==
  ASSUME IInv, sent \in Seq(Sent), NEW terminal \in Terminal, NEW after \in Afters,
         Close(terminal, after)
  PROVE  \E said \in Seq(Sent), last \in Seq(Sent), action \in PacingAction :
            Ends(said, last, terminal, action)
<1> DEFINE action == on_command_end(pacing, size(unspoken)).action
           last   == Said(aside(action), unspoken)
           end    == <<Event(terminal)>>
           said   == last \o end \o after
           s1     == OutputEvents(unrendered)
<1>1. unspoken \in UnspokenText /\ size(unspoken) \in Size /\ unrendered \in Seq(Row)
  BY SizeType DEF IInv, TypeOK
<1>2. action \in PacingAction
  BY <1>1, OnCommandEndType
<1>3. sent' = sent \o s1 \o last \o end \o after
  BY DEF Close
<1>4. /\ active # NoCommand /\ active' = NoCommand /\ UNCHANGED <<session, told>> /\ Fresh
  BY DEF Close
<1> HIDE DEF action
<1>5. Says(last, action, unspoken)
  BY <1>1, <1>2, SaidIs
<1>6. last \in Seq(Sent)
  BY <1>5 DEF Says
<1>7. end \in Seq(Sent) /\ Len(end) = 1 /\ end[1].kind = terminal
  BY DEF Event, Sent, Plain
<1>8. /\ after \in Seq(Sent) /\ (Len(after) = 0 \/ Len(after) = 1)
      /\ Len(after) = 1 => after[1].kind = "Failed"
  <2>1. CASE after = <<>>
    BY <2>1
  <2>2. ASSUME NEW exit \in ExitCodes, after = <<Failed(exit)>>
        PROVE  /\ after \in Seq(Sent) /\ (Len(after) = 0 \/ Len(after) = 1)
               /\ Len(after) = 1 => after[1].kind = "Failed"
    <3>1. Failed(exit) \in Sent /\ Failed(exit).kind = "Failed"
      BY DEF Failed, Sent
    <3> QED BY <2>2, <3>1
  <2> QED BY <2>1, <2>2 DEF Afters
<1>9. s1 \in Seq(Sent)
  BY <1>1, OutputEventsAre
<1> HIDE DEF s1, last, end
<1>10. Closure(Sent, last, end, after, said)
  BY <1>6, <1>7, <1>8 DEF Closure
<1>11. /\ said \in Seq(Sent) /\ Len(last) \in Nat
       /\ Len(said) = Len(last) + 1 + Len(after)
       /\ \A i \in 1..Len(last) : said[i] = last[i]
       /\ said[Len(last) + 1] = end[1]
       /\ Len(after) = 1 => said[Len(last) + 2] = after[1]
  <2> HIDE DEF said
  <2> QED BY <1>10, Closing
<1>12. sent' = sent \o s1 \o said
  <2> DEFINE s2 == sent \o s1
  <2>1. s2 \in Seq(Sent)
    BY <1>9, ConcatProperties
  <2>2. sent' = s2 \o last \o end \o after
    BY <1>3
  <2>3. last \in Seq(Sent) /\ end \in Seq(Sent) /\ after \in Seq(Sent)
    BY <1>10 DEF Closure
  <2> HIDE DEF s2
  <2>4. s2 \o last \o end \o after = s2 \o (last \o end \o after)
    <3> DEFINE body == last \o end
    <3>1. body \in Seq(Sent)
      BY <2>3, ConcatProperties
    <3>2. s2 \o last \o end = s2 \o body
      BY <2>1, <2>3, ConcatAssociative
    <3> HIDE DEF body
    <3>3. s2 \o body \o after = s2 \o (body \o after)
      BY <2>1, <2>3, <3>1, ConcatAssociative
    <3> QED BY <3>2, <3>3 DEF body
  <2> QED BY <2>2, <2>4 DEF s2
<1>13. Adds(unrendered, said)
  BY <1>12 DEF Adds, s1
<1> HIDE DEF said
<1>14. said[Len(last) + 1].kind = terminal
  BY <1>7, <1>11
<1>15. CASE Len(after) = 0
  <2>1. Len(said) = Len(last) + 1 /\ Len(said) # Len(last) + 2
    BY <1>11, <1>15
  <2> QED BY <1>2, <1>4, <1>5, <1>6, <1>11, <1>13, <1>14, <2>1 DEF Ends
<1>16. CASE Len(after) = 1
  <2>1. Len(said) = Len(last) + 2
    BY <1>11, <1>16
  <2>2. said[Len(last) + 2].kind = "Failed"
    BY <1>8, <1>11, <1>16
  <2> QED BY <1>2, <1>4, <1>5, <1>6, <1>11, <1>13, <1>14, <2>1, <2>2 DEF Ends
<1> QED BY <1>8, <1>15, <1>16

\* The rows that wait are sent, before the far end's own line if it has one.
SendsRows(shown, said) ==
    /\ active # NoCommand /\ shown = unrendered /\ unrendered' = <<>>
    /\ Adds(shown, said) /\ \A i \in 1..Len(said) : said[i].kind = "FarEndLine"
    /\ UNCHANGED <<session, active, pacing, unspoken, lastLine, told, owed>>

\* The command is left alone.
LeavesAlone(shown, said) ==
    /\ shown = <<>> /\ Adds(shown, said)
    /\ \A i \in 1..Len(said) : said[i].kind \in Passed
    /\ UNCHANGED <<command, told, owed>>

\* A step that does not start a command adds to what was sent.
Step(shown, said) ==
    \/ \E chunk \in Chunks, action \in PacingAction : Tells(chunk, shown, said, action)
    \/ \E terminal \in Terminal, last \in Seq(Sent), action \in PacingAction :
          shown = unrendered /\ Ends(said, last, terminal, action)
    \/ SendsRows(shown, said)
    \/ \E action \in PacingAction : Wakes(shown, said, action)
    \/ LeavesAlone(shown, said)

\* What is known of every state the theorems below build on.
Typed == IInv /\ sent \in Seq(Sent)

\* Every step starts a command or adds rows and then words to the stream.
LEMMA StepAdds ==
  ASSUME Typed, [Next]_vars
  PROVE  \/ Starts
         \/ \E shown \in Seq(Row), said \in Seq(Sent) : Step(shown, said) /\ Adds(shown, said)
<1>1. IInv /\ sent \in Seq(Sent) /\ unrendered \in Seq(Row)
  BY DEF Typed, IInv, TypeOK
<1>2. ASSUME NEW chunk \in Chunks, Output(chunk)
      PROVE  \E shown \in Seq(Row), said \in Seq(Sent) : Step(shown, said) /\ Adds(shown, said)
  <2>1. PICK shown \in Seq(Row), said \in Seq(Sent), action \in PacingAction : Tells(chunk, shown, said, action)
    BY <1>1, <1>2, OutputTells
  <2>2. Adds(shown, said)
    BY <2>1 DEF Tells, Does
  <2> QED BY <2>1, <2>2 DEF Step
<1>3. ASSUME NEW terminal \in Terminal, NEW after \in Afters, Close(terminal, after)
      PROVE  \E shown \in Seq(Row), said \in Seq(Sent) : Step(shown, said) /\ Adds(shown, said)
  <2>1. PICK said \in Seq(Sent), last \in Seq(Sent), action \in PacingAction :
           Ends(said, last, terminal, action)
    BY <1>1, <1>3, CloseEnds
  <2>2. Adds(unrendered, said)
    BY <2>1 DEF Ends
  <2>3. Step(unrendered, said)
    BY <2>1 DEF Step
  <2> QED BY <1>1, <2>2, <2>3
<1>4. CASE Renders
  <2>1. PICK extra \in Extras : sent' = sent \o OutputEvents(unrendered) \o extra
    BY <1>4 DEF Renders
  <2>2. extra \in Seq(Sent) /\ \A i \in 1..Len(extra) : extra[i].kind = "FarEndLine"
    <3> DEFINE news == Event("FarEndLine")
    <3>1. news \in Sent /\ news.kind = "FarEndLine"
      BY DEF Event, Sent, Plain
    <3>2. extra = <<>> \/ extra = <<news>>
      BY DEF Extras
    <3> HIDE DEF news
    <3>3. CASE extra = <<>>
      BY <3>3
    <3>4. CASE extra = <<news>>
      BY <3>1, <3>4
    <3> QED BY <3>2, <3>3, <3>4
  <2>3. Adds(unrendered, extra)
    BY <2>1 DEF Adds
  <2>4. SendsRows(unrendered, extra)
    BY <1>4, <2>2, <2>3 DEF SendsRows, Renders
  <2> QED BY <1>1, <2>2, <2>3, <2>4 DEF Step
<1>5. CASE WakePacing
  <2>1. PICK shown \in Seq(Row), said \in Seq(Sent), action \in PacingAction : Wakes(shown, said, action)
    BY <1>1, <1>5, WakePacingWakes
  <2>2. Adds(shown, said)
    BY <2>1 DEF Wakes, Does
  <2> QED BY <2>1, <2>2 DEF Step
<1>6. CASE Passes
  <2> DEFINE none == <<>>
  <2>1. none \in Seq(Row) /\ OutputEvents(none) = <<>> /\ sent \o <<>> = sent
    BY <1>1, ConcatEmptySeq DEF OutputEvents
  <2>2. UNCHANGED <<command, told, owed>>
    BY <1>6 DEF Passes
  <2>3. PICK said \in Seq(Sent) : sent' = sent \o said /\ \A i \in 1..Len(said) : said[i].kind \in Passed
    <3>1. CASE sent' = sent
      <4>1. none \in Seq(Sent) /\ sent' = sent \o none
        BY <2>1, <3>1
      <4>2. \A i \in 1..Len(none) : none[i].kind \in Passed
        OBVIOUS
      <4> HIDE DEF none
      <4> QED BY <4>1, <4>2
    <3>2. ASSUME NEW kind \in Passed, sent' = Append(sent, Event(kind))
          PROVE  \E said \in Seq(Sent) : sent' = sent \o said /\ \A i \in 1..Len(said) : said[i].kind \in Passed
      <4> DEFINE news == Event(kind)
                 said == <<news>>
      <4>1. news \in Sent /\ news.kind \in Passed
        BY DEF Event, Sent, Plain
      <4>2. sent' = Append(sent, news)
        BY <3>2
      <4> HIDE DEF news
      <4>3. said \in Seq(Sent) /\ sent \o said = Append(sent, news) /\ \A i \in 1..Len(said) : said[i].kind \in Passed
        BY <1>1, <4>1, AppendIsConcat
      <4> QED BY <4>2, <4>3
    <3> QED BY <1>6, <3>1, <3>2 DEF Passes
  <2>4. Adds(none, said)
    BY <2>1, <2>3 DEF Adds
  <2>5. LeavesAlone(none, said)
    BY <2>2, <2>3, <2>4 DEF LeavesAlone
  <2> QED BY <2>1, <2>4, <2>5 DEF Step
<1> QED BY <1>1, <1>2, <1>3, <1>4, <1>5, <1>6, StepIs

\* The stream of events has its type.
LEMMA StreamTyped == Spec => []Typed
<1>1. Init => sent \in Seq(Sent)
  BY DEF Init
<1>2. IInv /\ IInv' /\ sent \in Seq(Sent) /\ [Next]_vars => (sent \in Seq(Sent))'
  <2> SUFFICES ASSUME IInv, sent \in Seq(Sent), [Next]_vars PROVE sent' \in Seq(Sent)
    OBVIOUS
  <2>1. CASE Starts
    <3> DEFINE first == Event("CommandStarted")
    <3>1. first \in Sent /\ sent' = <<first>>
      BY <2>1 DEF Starts, Event, Sent, Plain
    <3> HIDE DEF first
    <3> QED BY <3>1
  <2>2. ASSUME NEW shown \in Seq(Row), NEW said \in Seq(Sent), Adds(shown, said)
        PROVE  sent' \in Seq(Sent)
    BY <2>2, AddsAre
  <2> QED BY <2>1, <2>2, StepAdds DEF Typed
<1>3. Spec => []IInv
  BY InvariantHolds
<1> QED BY <1>1, <1>2, <1>3, PTL DEF Spec, Typed

-----------------------------------------------------------------------------
(***************************************************************************)
(* The order of the events: the last word, the babble guard and self-talk. *)
(***************************************************************************)
OfTheCommand == {"Output", "ReadAloud", "TooBig", "StillRunning", "OutputContinues",
                 "CommandFinished", "CommandInterrupted", "FarEndLine"}

\* What a step says is said after what it shows, and neither is the end of the
\* command unless the command ends.
LEMMA KindsOfAStep ==
  ASSUME Typed, NEW shown \in Seq(Row), NEW said \in Seq(Sent), Step(shown, said)
  PROVE  /\ \/ \A i \in 1..Len(said) : said[i].kind \notin Terminal
            \/ active # NoCommand /\ active' = NoCommand
         /\ \/ active # NoCommand
            \/ /\ shown = <<>> /\ active' = active
               /\ \A i \in 1..Len(said) : said[i].kind \in Passed
         /\ \A i, j \in 1..Len(said) :
               i < j /\ said[i].kind \in Terminal => said[j].kind \notin OfTheCommand
<1>1. ASSUME NEW action \in PacingAction, NEW heard, Says(said, action, heard)
      PROVE  \A i \in 1..Len(said) : said[i].kind \notin Terminal
  BY <1>1 DEF Says, Speech, Paced, Terminal
<1>2. ASSUME NEW chunk \in Chunks, NEW action \in PacingAction, Tells(chunk, shown, said, action)
      PROVE  \A i \in 1..Len(said) : said[i].kind \notin Terminal
  <2>1. CASE chunk.spoken
    BY <1>1, <1>2, <2>1 DEF Tells, Does
  <2>2. CASE ~chunk.spoken
    BY <1>2, <2>2 DEF Tells
  <2> QED BY <2>1, <2>2
<1>3. ASSUME NEW action \in PacingAction, Wakes(shown, said, action)
      PROVE  \A i \in 1..Len(said) : said[i].kind \notin Terminal
  BY <1>1, <1>3 DEF Wakes, Does
<1>4. CASE \E chunk \in Chunks, action \in PacingAction : Tells(chunk, shown, said, action)
  BY <1>2, <1>4 DEF Tells
<1>5. CASE \E action \in PacingAction : Wakes(shown, said, action)
  BY <1>3, <1>5 DEF Wakes
<1>6. CASE SendsRows(shown, said)
  BY <1>6 DEF SendsRows, Terminal
<1>7. CASE LeavesAlone(shown, said)
  <2>1. active' = active
    BY <1>7 DEF LeavesAlone, command
  <2> QED BY <1>7, <2>1 DEF LeavesAlone, Passed, Terminal
<1>8. ASSUME NEW terminal \in Terminal, NEW last \in Seq(Sent), NEW action \in PacingAction,
             Ends(said, last, terminal, action)
      PROVE  /\ active # NoCommand /\ active' = NoCommand
             /\ \A i, j \in 1..Len(said) :
                   i < j /\ said[i].kind \in Terminal => said[j].kind \notin OfTheCommand
  <2> DEFINE m == Len(last)
  <2>1. /\ m \in Nat /\ (Len(said) = m + 1 \/ Len(said) = m + 2)
        /\ \A i \in 1..m : said[i] = last[i]
        /\ Len(said) = m + 2 => said[m + 2].kind = "Failed"
    BY <1>8 DEF Ends
  <2>2. \A i \in 1..m : said[i].kind \notin Terminal
    <3>1. \A i \in 1..m : last[i].kind \notin Terminal
      BY <1>8 DEF Ends, Says, Speech, Paced, Terminal
    <3> QED BY <2>1, <3>1
  <2>3. ASSUME NEW i \in 1..Len(said), NEW j \in 1..Len(said), i < j, said[i].kind \in Terminal
        PROVE  said[j].kind \notin OfTheCommand
    <3> HIDE DEF m
    <3>1. i \notin 1..m
      BY <2>2, <2>3
    <3>2. Len(said) = m + 2 /\ j = m + 2
      BY <2>1, <2>3, <3>1
    <3> QED BY <2>1, <3>2 DEF OfTheCommand
  <2> QED BY <1>8, <2>3 DEF Ends
<1> QED BY <1>2, <1>3, <1>4, <1>5, <1>6, <1>7, <1>8 DEF Step

\* While a command runs, nothing sent was its end.
LastWord ==
    /\ LastWordBeforeTheEnd
    /\ active # NoCommand => \A i \in DOMAIN sent : sent[i].kind \notin Terminal

\* After the end of a command nothing more is said of it.
LEMMA LastWordHolds ==
  ASSUME Typed, LastWord, [Next]_vars
  PROVE  LastWord'
<1>1. CASE Starts
  <2> DEFINE first == Event("CommandStarted")
  <2>1. first.kind = "CommandStarted" /\ sent' = <<first>>
    BY <1>1 DEF Starts, Event
  <2> HIDE DEF first
  <2>2. DOMAIN sent' = {1} /\ sent'[1].kind = "CommandStarted"
    BY <2>1
  <2> QED BY <2>2 DEF LastWord, LastWordBeforeTheEnd, Terminal
<1>2. ASSUME NEW shown \in Seq(Row), NEW said \in Seq(Sent), Step(shown, said), Adds(shown, said)
      PROVE  LastWord'
  <2> DEFINE a == Len(sent)
             b == Len(shown)
             c == Len(said)
  <2>1. /\ a \in Nat /\ b \in Nat /\ c \in Nat /\ DOMAIN sent = 1..a
        /\ DOMAIN sent' = 1..(a + b + c)
        /\ \A i \in DOMAIN sent' :
              \/ i \in 1..a /\ sent'[i] = sent[i]
              \/ i - a \in 1..b /\ sent'[i].kind = "Output"
              \/ i - a - b \in 1..c /\ sent'[i] = said[i - a - b]
    BY <1>2, AddsAre DEF Typed
  <2>2. /\ \/ \A i \in 1..c : said[i].kind \notin Terminal
           \/ active # NoCommand /\ active' = NoCommand
        /\ \/ active # NoCommand
           \/ /\ b = 0 /\ active' = active
              /\ \A i \in 1..c : said[i].kind \in Passed
        /\ \A i, j \in 1..c :
              i < j /\ said[i].kind \in Terminal => said[j].kind \notin OfTheCommand
    BY <1>2, KindsOfAStep
  <2>3. active' # NoCommand => active # NoCommand
    BY <2>2
  <2> HIDE DEF a, b, c
  <2>4. active' # NoCommand => \A i \in DOMAIN sent' : sent'[i].kind \notin Terminal
    <3> SUFFICES ASSUME active' # NoCommand, NEW i \in DOMAIN sent'
                 PROVE  sent'[i].kind \notin Terminal
      OBVIOUS
    <3>1. \A k \in 1..a : sent[k].kind \notin Terminal
      BY <2>1, <2>3 DEF LastWord
    <3>2. \A k \in 1..c : said[k].kind \notin Terminal
      BY <2>2
    <3> QED BY <2>1, <3>1, <3>2 DEF Terminal
  <2>5. ASSUME NEW i \in DOMAIN sent', NEW j \in DOMAIN sent', i < j, sent'[i].kind \in Terminal
        PROVE  sent'[j].kind \notin OfTheCommand
    <3>1. CASE i \in 1..a /\ sent'[i] = sent[i]
      <4>1. active = NoCommand
        BY <2>1, <2>5, <3>1 DEF LastWord
      <4>2. CASE j \in 1..a /\ sent'[j] = sent[j]
        BY <2>1, <2>5, <3>1, <4>2 DEF LastWord, LastWordBeforeTheEnd, OfTheCommand, Terminal
      <4>3. CASE j - a - b \in 1..c /\ sent'[j] = said[j - a - b]
        BY <2>2, <4>1, <4>3 DEF Passed, OfTheCommand
      <4> QED BY <2>1, <2>2, <2>5, <4>1, <4>2, <4>3
    <3>2. CASE i - a \in 1..b /\ sent'[i].kind = "Output"
      BY <2>5, <3>2 DEF Terminal
    <3>3. CASE i - a - b \in 1..c /\ sent'[i] = said[i - a - b]
      <4>1. j - a - b \in 1..c /\ sent'[j] = said[j - a - b] /\ i - a - b < j - a - b
        BY <2>1, <2>5, <3>3
      <4> QED BY <2>2, <2>5, <3>3, <4>1
    <3> QED BY <2>1, <2>5, <3>1, <3>2, <3>3
  <2> QED BY <2>4, <2>5 DEF LastWord, LastWordBeforeTheEnd, OfTheCommand, Terminal
<1> QED BY <1>1, <1>2, StepAdds

\* "The last word is sent before terminal": after the event that ends a command
\* neither rows nor announcements of it follow, only that it failed.
THEOREM TheEndIsLast == Spec => []LastWordBeforeTheEnd
<1>1. Init => LastWord
  BY DEF Init, LastWord, LastWordBeforeTheEnd
<1>2. Typed /\ LastWord /\ [Next]_vars => LastWord'
  BY LastWordHolds
<1>3. LastWord => LastWordBeforeTheEnd
  BY DEF LastWord
<1> QED BY <1>1, <1>2, <1>3, StreamTyped, PTL DEF Spec

\* A running command that was told its output continues has its guard tripped.
Silenced ==
    /\ BabbleIsSilenced
    /\ active # NoCommand /\ (\E i \in DOMAIN sent : sent[i].kind = "OutputContinues")
          => pacing.babbleTripped

\* Once the guard is tripped nothing is read; what trips it is said alone.
LEMMA WhatIsReadOfAStep ==
  ASSUME Typed, ~followMode, NEW shown \in Seq(Row), NEW said \in Seq(Sent), Step(shown, said)
  PROVE  \/ active' = NoCommand
         \/ /\ active' = active
            /\ pacing.babbleTripped => pacing'.babbleTripped
            /\ \A i \in 1..Len(said) :
                  /\ pacing.babbleTripped => said[i].kind \notin {"ReadAloud", "TooBig"}
                  /\ said[i].kind = "OutputContinues" => pacing'.babbleTripped /\ Len(said) = 1
<1>1. ASSUME NEW chunk \in Chunks, NEW action \in PacingAction, Tells(chunk, shown, said, action)
      PROVE  /\ active' = active /\ (pacing.babbleTripped => pacing'.babbleTripped)
             /\ \A i \in 1..Len(said) :
                   said[i].kind \notin {"ReadAloud", "TooBig", "OutputContinues"}
  <2>1. /\ active' = active /\ (pacing.babbleTripped => pacing'.babbleTripped)
        /\ action = "None"
    BY <1>1 DEF Tells, Latched
  <2>2. CASE chunk.spoken
    <3>1. Says(said, action, Heard(chunk))
      BY <1>1, <2>2 DEF Tells, Does
    <3> QED BY <2>1, <3>1 DEF Says
  <2>3. CASE ~chunk.spoken
    BY <1>1, <2>1, <2>3 DEF Tells
  <2> QED BY <2>1, <2>2, <2>3
<1>2. ASSUME NEW action \in PacingAction, Wakes(shown, said, action)
      PROVE  /\ active' = active /\ (pacing.babbleTripped => pacing'.babbleTripped)
             /\ \A i \in 1..Len(said) :
                  /\ pacing.babbleTripped => said[i].kind \notin {"ReadAloud", "TooBig"}
                  /\ said[i].kind = "OutputContinues" => pacing'.babbleTripped /\ Len(said) = 1
  <2>1. Says(said, action, unspoken)
    BY <1>2 DEF Wakes, Does
  <2>2. /\ active' = active /\ (pacing.babbleTripped => pacing'.babbleTripped)
        /\ pacing.babbleTripped => action \notin {"Auto", "TooBig"}
        /\ action = "OutputContinues" => pacing'.babbleTripped
    BY <1>2 DEF Wakes, Latched
  <2> QED BY <2>1, <2>2 DEF Says
<1>3. CASE SendsRows(shown, said)
  BY <1>3 DEF SendsRows
<1>4. CASE LeavesAlone(shown, said)
  <2>1. active' = active /\ pacing' = pacing
    BY <1>4 DEF LeavesAlone, command
  <2> QED BY <1>4, <2>1 DEF LeavesAlone, Passed
<1>5. CASE \E terminal \in Terminal, last \in Seq(Sent), action \in PacingAction :
              shown = unrendered /\ Ends(said, last, terminal, action)
  BY <1>5 DEF Ends
<1> QED BY <1>1, <1>2, <1>3, <1>4, <1>5 DEF Step

\* After "output continues" the guard has tripped and nothing is read.
LEMMA SilencedHolds ==
  ASSUME Typed, Silenced, ~followMode, [Next]_vars
  PROVE  Silenced'
<1>1. CASE Starts
  <2> DEFINE first == Event("CommandStarted")
  <2>1. first.kind = "CommandStarted" /\ sent' = <<first>>
    BY <1>1 DEF Starts, Event
  <2> HIDE DEF first
  <2>2. DOMAIN sent' = {1} /\ sent'[1].kind = "CommandStarted"
    BY <2>1
  <2> QED BY <2>2 DEF Silenced, BabbleIsSilenced
<1>2. ASSUME NEW shown \in Seq(Row), NEW said \in Seq(Sent), Step(shown, said), Adds(shown, said)
      PROVE  Silenced'
  <2> SUFFICES ASSUME active' # NoCommand PROVE Silenced'
    BY DEF Silenced, BabbleIsSilenced
  <2> DEFINE a == Len(sent)
             b == Len(shown)
             c == Len(said)
  <2>1. /\ a \in Nat /\ b \in Nat /\ c \in Nat /\ DOMAIN sent = 1..a
        /\ DOMAIN sent' = 1..(a + b + c)
        /\ \A i \in DOMAIN sent' :
              \/ i \in 1..a /\ sent'[i] = sent[i]
              \/ i - a \in 1..b /\ sent'[i].kind = "Output"
              \/ i - a - b \in 1..c /\ sent'[i] = said[i - a - b]
    BY <1>2, AddsAre DEF Typed
  <2>2. /\ active' = active
        /\ pacing.babbleTripped => pacing'.babbleTripped
        /\ \A i \in 1..c :
              /\ pacing.babbleTripped => said[i].kind \notin {"ReadAloud", "TooBig"}
              /\ said[i].kind = "OutputContinues" => pacing'.babbleTripped /\ c = 1
    BY <1>2, WhatIsReadOfAStep
  <2> HIDE DEF a, b, c
  <2>3. \A i \in 1..a : sent[i].kind = "OutputContinues" => pacing.babbleTripped
    BY <2>1, <2>2 DEF Silenced
  <2>4. ASSUME NEW i \in DOMAIN sent', sent'[i].kind = "OutputContinues" PROVE pacing'.babbleTripped
    BY <2>1, <2>2, <2>3, <2>4
  <2>5. ASSUME NEW i \in DOMAIN sent', NEW j \in DOMAIN sent', i < j,
               sent'[i].kind = "OutputContinues"
        PROVE  sent'[j].kind \notin {"ReadAloud", "TooBig"}
    <3>1. CASE i \in 1..a /\ sent'[i] = sent[i]
      <4>1. pacing.babbleTripped
        BY <2>3, <2>5, <3>1
      <4>2. CASE j \in 1..a /\ sent'[j] = sent[j]
        BY <2>1, <2>2, <2>5, <3>1, <4>2 DEF Silenced, BabbleIsSilenced
      <4>3. CASE j - a - b \in 1..c /\ sent'[j] = said[j - a - b]
        BY <2>2, <4>1, <4>3
      <4>4. CASE j - a \in 1..b /\ sent'[j].kind = "Output"
        BY <4>4
      <4> QED BY <2>1, <2>5, <4>2, <4>3, <4>4
    <3>2. CASE i - a - b \in 1..c /\ sent'[i] = said[i - a - b]
      <4>1. c = 1
        BY <2>2, <2>5, <3>2
      <4> QED BY <2>1, <2>5, <3>2, <4>1
    <3> QED BY <2>1, <2>5, <3>1, <3>2
  <2> QED BY <2>4, <2>5 DEF Silenced, BabbleIsSilenced
<1> QED BY <1>1, <1>2, StepAdds

\* Outside follow mode, which "ignores thresholds and the babble guard", the
\* words "output continues" are the last a running command has read.
THEOREM BabbleStaysSilenced == Spec /\ []~followMode => []BabbleIsSilenced
<1>1. Init => Silenced
  BY DEF Init, Silenced, BabbleIsSilenced
<1>2. Typed /\ ~followMode /\ Silenced /\ [Next]_vars => Silenced'
  BY SilencedHolds
<1>3. Silenced => BabbleIsSilenced
  BY DEF Silenced
<1> QED BY <1>1, <1>2, <1>3, StreamTyped, PTL DEF Spec

-----------------------------------------------------------------------------
(***************************************************************************)
(* What one step sends.                                                    *)
(***************************************************************************)
\* What a step adds are its rows, and then what it says.
LEMMA NewEventsAre ==
  ASSUME sent \in Seq(Sent), NEW shown \in Seq(Row), NEW said \in Seq(Sent), Adds(shown, said)
  PROVE  /\ DOMAIN NewEvents = 1..(Len(shown) + Len(said))
         /\ \A i \in 1..Len(shown) : NewEvents[i].kind = "Output"
         /\ \A i \in 1..Len(said) : NewEvents[Len(shown) + i] = said[i]
<1> DEFINE a == Len(sent)
           b == Len(shown)
           c == Len(said)
<1>1. /\ sent' \in Seq(Sent) /\ a \in Nat /\ b \in Nat /\ c \in Nat
      /\ DOMAIN sent' = 1..(a + b + c)
      /\ \A i \in 1..b : sent'[a + i].kind = "Output"
      /\ \A i \in 1..c : sent'[a + b + i] = said[i]
  BY AddsAre
<1>2. Len(sent') = a + b + c
  BY <1>1
<1> HIDE DEF a, b, c
<1>3. /\ NewEvents \in Seq(Sent) /\ Len(NewEvents) = b + c
      /\ \A i \in 1..(b + c) : NewEvents[i] = sent'[a + i]
  <2> DEFINE m == a + 1
             n == a + b + c
  <2>1. m \in Int /\ n \in Int /\ \A i \in m..n : sent'[i] \in Sent
    BY <1>1
  <2>2. NewEvents = SubSeq(sent', m, n)
    BY <1>2 DEF NewEvents, a
  <2>3. n - m + 1 = b + c /\ (m <= n <=> b + c > 0) /\ \A i \in 1..(b + c) : m + i - 1 = a + i
    BY <1>1
  <2> HIDE DEF m, n
  <2>4. /\ SubSeq(sent', m, n) \in Seq(Sent)
        /\ Len(SubSeq(sent', m, n)) = IF m <= n THEN n - m + 1 ELSE 0
        /\ \A i \in 1..(n - m + 1) : SubSeq(sent', m, n)[i] = sent'[m + i - 1]
    BY <2>1, SubSeqProperties
  <2>5. Len(NewEvents) = b + c
    BY <1>1, <2>2, <2>3, <2>4
  <2>6. \A i \in 1..(b + c) : NewEvents[i] = sent'[a + i]
    BY <2>2, <2>3, <2>4
  <2> QED BY <2>2, <2>4, <2>5, <2>6
<1>5. \A i \in 1..b : i \in 1..(b + c)
  BY <1>1
<1>6. \A i \in 1..c : b + i \in 1..(b + c) /\ a + (b + i) = a + b + i
  BY <1>1
<1>7. \A i \in 1..c : NewEvents[b + i] = said[i]
  <2> SUFFICES ASSUME NEW i \in 1..c PROVE NewEvents[b + i] = said[i]
    OBVIOUS
  <2>1. NewEvents[b + i] = sent'[a + (b + i)]
    BY <1>3, <1>6
  <2> QED BY <1>1, <1>6, <2>1
<1>8. \A i \in 1..b : NewEvents[i].kind = "Output"
  BY <1>1, <1>3, <1>5
<1>9. DOMAIN NewEvents = 1..(b + c)
  BY <1>3
<1> QED BY <1>7, <1>8, <1>9 DEF b, c

\* During self-talk a step says nothing about the output.
LEMMA SelfTalkSays ==
  ASSUME Typed, selfTalk, active # NoCommand,
         NEW shown \in Seq(Row), NEW said \in Seq(Sent), Step(shown, said)
  PROVE  \A i \in 1..Len(said) : said[i].kind \notin Announcements \ {"Failed"}
<1>1. ASSUME NEW action \in PacingAction, NEW heard, Says(said, action, heard)
      PROVE  \A i \in 1..Len(said) : said[i].kind \notin Announcements \ {"Failed"}
  BY <1>1 DEF Says
<1>2. ASSUME NEW chunk \in Chunks, NEW action \in PacingAction, Tells(chunk, shown, said, action)
      PROVE  \A i \in 1..Len(said) : said[i].kind \notin Announcements \ {"Failed"}
  <2>1. CASE chunk.spoken
    BY <1>1, <1>2, <2>1 DEF Tells, Does
  <2>2. CASE ~chunk.spoken
    BY <1>2, <2>2 DEF Tells
  <2> QED BY <2>1, <2>2
<1>3. ASSUME NEW action \in PacingAction, Wakes(shown, said, action)
      PROVE  \A i \in 1..Len(said) : said[i].kind \notin Announcements \ {"Failed"}
  BY <1>1, <1>3 DEF Wakes, Does
<1>4. CASE SendsRows(shown, said)
  BY <1>4 DEF SendsRows, Announcements
<1>5. CASE LeavesAlone(shown, said)
  BY <1>5 DEF LeavesAlone, Passed, Announcements
<1>6. ASSUME NEW terminal \in Terminal, NEW last \in Seq(Sent), NEW action \in PacingAction,
             Ends(said, last, terminal, action)
      PROVE  \A i \in 1..Len(said) : said[i].kind \notin Announcements \ {"Failed"}
  <2>1. last = <<>> /\ Len(last) = 0
    BY <1>6 DEF Ends, Says
  <2>2. /\ said[1].kind = terminal
        /\ Len(said) = 1 \/ (Len(said) = 2 /\ said[2].kind = "Failed")
    BY <1>6, <2>1 DEF Ends
  <2> QED BY <2>2 DEF Announcements, Terminal
<1> QED BY <1>2, <1>3, <1>4, <1>5, <1>6 DEF Step

\* While Acter talks to itself nothing is announced, except that a command
\* failed.
THEOREM SelfTalkStaysQuiet == Spec => SelfTalkIsQuiet
<1>1. ASSUME Typed, [Next]_vars, selfTalk, active # NoCommand
      PROVE  \A i \in DOMAIN NewEvents : NewEvents[i].kind \notin Announcements \ {"Failed"}
  <2>1. PICK shown \in Seq(Row), said \in Seq(Sent) : Step(shown, said) /\ Adds(shown, said)
    BY <1>1, StepAdds DEF Starts
  <2> DEFINE b == Len(shown)
             c == Len(said)
  <2>2. /\ b \in Nat /\ c \in Nat /\ DOMAIN NewEvents = 1..(b + c)
        /\ \A i \in 1..b : NewEvents[i].kind = "Output"
        /\ \A i \in 1..c : NewEvents[b + i] = said[i]
    BY <1>1, <2>1, NewEventsAre DEF Typed
  <2>3. \A i \in 1..c : said[i].kind \notin Announcements \ {"Failed"}
    BY <1>1, <2>1, SelfTalkSays
  <2> HIDE DEF b, c
  <2> SUFFICES ASSUME NEW i \in 1..(b + c)
               PROVE  NewEvents[i].kind \notin Announcements \ {"Failed"}
    BY <2>2
  <2>4. CASE i \in 1..b
    BY <2>2, <2>4 DEF Announcements
  <2>5. CASE i \notin 1..b
    <3>1. i - b \in 1..c /\ b + (i - b) = i
      BY <2>2, <2>5
    <3> QED BY <2>2, <2>3, <3>1
  <2> QED BY <2>4, <2>5
<1>2. Typed /\ [Next]_vars =>
         [selfTalk /\ active # NoCommand =>
            \A i \in DOMAIN NewEvents : NewEvents[i].kind \notin Announcements \ {"Failed"}]_vars
  BY <1>1
<1> QED BY <1>2, StreamTyped, PTL DEF Spec, SelfTalkIsQuiet

\* The text an accumulator still keeps ends with what was pushed.
LEMMA PushedIsKept ==
  ASSUME NEW waiting \in UnspokenText, NEW chunk \in Text, chunk # <<>>,
         push(waiting, chunk).kept
  PROVE  push(waiting, chunk).text = waiting.text \o chunk /\ waiting.kept
<1> DEFINE text  == waiting.text \o chunk
           grown == [waiting EXCEPT
                        !.text     = text,
                        !.newlines = @ + Newlines(chunk),
                        !.chars    = measure(text).chars,
                        !.ended    = EndsInNL(chunk),
                        !.any      = TRUE,
                        !.lastLine = IF Head(chunk) = NL
                                     THEN LastRow(chunk) ELSE @ \o chunk]
<1>1. grown.text = text
  BY DEF UnspokenText
<1>2. push(waiting, chunk) =
         IF ~waiting.kept
         THEN [grown EXCEPT !.text = <<>>, !.chars = waiting.chars + Len(chunk)]
         ELSE IF verdict(size(grown)) = "TooBig"
              THEN [grown EXCEPT !.kept = FALSE, !.text = <<>>]
              ELSE grown
  BY DEF push
<1>3. grown.kept = waiting.kept /\ DOMAIN grown = DOMAIN waiting
  BY DEF UnspokenText
<1>4. "kept" \in DOMAIN waiting
  BY DEF UnspokenText
<1> HIDE DEF grown, text
<1>5. [grown EXCEPT !.text = <<>>, !.chars = waiting.chars + Len(chunk)].kept = grown.kept
  OBVIOUS
<1>6. ~[grown EXCEPT !.kept = FALSE, !.text = <<>>].kept
  BY <1>3, <1>4
<1> QED BY <1>1, <1>2, <1>3, <1>5, <1>6 DEF text

\* In follow mode text that is small enough, with what is waiting, is read in
\* the step it arrives in.
THEOREM FollowModeReads == Spec => FollowReadsWhatFits
<1> DEFINE new       == told'[Len(told')]
           separated == IF lastLine \in {NoLine, new.line} THEN new.text
                        ELSE <<NL>> \o new.text
           reads     == new.spoken /\ new.text # <<>> /\ push(unspoken, separated).kept =>
                           \E i \in DOMAIN NewEvents : /\ NewEvents[i].kind = "ReadAloud"
                                                       /\ Contains(NewEvents[i].text, new.text[1])
<1>1. ASSUME Typed, [Next]_vars, followMode /\ ~selfTalk /\ Len(told') > Len(told)
      PROVE  reads
  <2>1. told \in Seq(Told) /\ unspoken \in UnspokenText /\ sent \in Seq(Sent)
    BY <1>1 DEF Typed, IInv, TypeOK
  <2>2. ~Starts /\ told' # told
    BY <1>1, <2>1 DEF Starts
  <2>3. PICK shown \in Seq(Row), said \in Seq(Sent) : Step(shown, said) /\ Adds(shown, said)
    BY <1>1, <2>2, StepAdds
  <2>4. PICK chunk \in Chunks, action \in PacingAction : Tells(chunk, shown, said, action)
    BY <2>2, <2>3 DEF Step, Ends, SendsRows, Wakes, LeavesAlone
  <2>5. new = NewTold(chunk)
    BY <2>1, <2>4 DEF Tells
  <2>6. new.line = chunk.line /\ new.text = NewText(chunk) /\ new.spoken = chunk.spoken
    BY <2>5 DEF NewTold
  <2>7. separated = Separated(chunk)
    BY <2>6 DEF Separated
  <2> HIDE DEF new, separated
  <2> DEFINE token == new.text[1]
             heard == Heard(chunk)
  <2> SUFFICES ASSUME new.spoken, new.text # <<>>, push(unspoken, separated).kept
               PROVE  \E i \in DOMAIN NewEvents : /\ NewEvents[i].kind = "ReadAloud"
                                                  /\ Contains(NewEvents[i].text, token)
    OBVIOUS
  <2>8. new.text = <<Len(told) + 1>>
    BY <2>6 DEF NewText
  <2>9. /\ separated \in Text /\ separated # <<>>
        /\ \E n \in 1..Len(separated) : separated[n] = token
    <3>1. separated \in Text
      BY <2>4, <2>7 DEF Tells
    <3>2. separated = <<Len(told) + 1>> \/ separated = <<NL, Len(told) + 1>>
      <4> DEFINE t == Len(told) + 1
      <4>1. <<NL>> \o <<t>> = <<NL, t>>
        BY Pair
      <4>2. separated = <<t>> \/ separated = <<NL>> \o <<t>>
        BY <2>6, <2>7, <2>8 DEF Separated
      <4> QED BY <4>1, <4>2
    <3>3. token = Len(told) + 1
      BY <2>8
    <3> HIDE DEF token
    <3>4. CASE separated = <<Len(told) + 1>>
      BY <3>1, <3>3, <3>4
    <3>5. CASE separated = <<NL, Len(told) + 1>>
      BY <3>1, <3>3, <3>5
    <3> QED BY <3>2, <3>4, <3>5
  <2>10. heard = push(unspoken, separated)
    BY <2>7 DEF Heard
  <2>11. heard.kept /\ heard.text = unspoken.text \o separated
    BY <2>1, <2>9, <2>10, PushedIsKept
  <2>12. Contains(heard.text, token)
    <3>1. PICK n \in 1..Len(separated) : separated[n] = token
      BY <2>9
    <3> DEFINE s == unspoken.text
               m == Len(s)
               k == Len(separated)
    <3>2. s \in Text /\ m = Len(s) /\ k = Len(separated) /\ s \in Seq(Token) /\ separated \in Seq(Token)
      BY <2>1, <2>9 DEF UnspokenText, Text
    <3> HIDE DEF s, m, k
    <3>3. s \o separated \in Seq(Token) /\ DOMAIN (s \o separated) = 1..(m + k)
          /\ m + n \in 1..(m + k) /\ (s \o separated)[m + n] = separated[n]
      BY <3>1, <3>2, Joined
    <3>4. Len(s \o separated) = m + k
      BY <3>2, Joined
    <3> HIDE DEF token
    <3>5. Contains(s \o separated, token)
      BY <3>1, <3>3, <3>4 DEF Contains
    <3> QED BY <2>11, <3>5 DEF s
  <2>13. said = <<ReadAloud(heard.text)>>
    <3>1. Does(action, NewRows(chunk), heard, owed \o NewText(chunk), shown, said)
      BY <2>4, <2>6 DEF Tells
    <3>2. action = "Auto"
      BY <1>1, <2>4, <2>6, <2>7, <2>9 DEF Tells
    <3> QED BY <1>1, <2>11, <3>1, <3>2 DEF Does, Says
  <2> DEFINE aloud == ReadAloud(heard.text)
             b     == Len(shown)
  <2>14. aloud.kind = "ReadAloud" /\ aloud.text = heard.text /\ said = <<aloud>>
    BY <2>13 DEF ReadAloud
  <2> HIDE DEF aloud, token, heard
  <2>15. b \in Nat /\ Len(said) = 1 /\ said[1] = aloud
    BY <2>14
  <2>16. DOMAIN NewEvents = 1..(b + 1) /\ NewEvents[b + 1] = aloud
    <3>1. /\ DOMAIN NewEvents = 1..(Len(shown) + Len(said))
          /\ \A i \in 1..Len(said) : NewEvents[Len(shown) + i] = said[i]
      BY <2>1, <2>3, NewEventsAre
    <3>2. 1 \in 1..Len(said)
      BY <2>15
    <3>3. NewEvents[b + 1] = said[1]
      BY <3>1, <3>2
    <3>4. DOMAIN NewEvents = 1..(b + 1)
      BY <2>15, <3>1
    <3> QED BY <2>15, <3>3, <3>4
  <2> HIDE DEF b
  <2>17. b + 1 \in DOMAIN NewEvents
    BY <2>15, <2>16
  <2> QED BY <2>12, <2>14, <2>16, <2>17
<1>2. Typed /\ [Next]_vars => [followMode /\ ~selfTalk /\ Len(told') > Len(told) => reads]_vars
  BY <1>1
<1> QED BY <1>2, StreamTyped, PTL DEF Spec, FollowReadsWhatFits

-----------------------------------------------------------------------------
(***************************************************************************)
(* What is read: the order of its tokens.                                  *)
(***************************************************************************)
\* The tokens of a text: which there are, that they ascend, and that those of
\* one text come before those of another.  Line endings are not counted.
Within(text, k)     == \A n \in DOMAIN text : text[n] # NL => text[n] \in 1..k
Ascends(text)       == \A n, m \in DOMAIN text :
                           n < m /\ text[n] # NL /\ text[m] # NL => text[n] < text[m]
Before(text, other) == \A n \in DOMAIN text, m \in DOMAIN other :
                           text[n] # NL /\ other[m] # NL => text[n] < other[m]

\* What a row adds to a text: at most a line ending and the row's one token.
Piece(piece, k) == \/ piece = <<>> \/ piece = <<NL>> \/ piece = <<k>> \/ piece = <<NL, k>>

\* Such a piece is a text whose tokens ascend, and its last row is another.
LEMMA PieceIs ==
  ASSUME NEW k \in Nat, NEW piece, Piece(piece, k + 1)
  PROVE  /\ piece \in Text /\ Ascends(piece)
         /\ \A n \in DOMAIN piece : piece[n] # NL => piece[n] = k + 1
         /\ piece # <<>> => /\ Piece(LastRow(piece), k + 1)
                            /\ Range(LastRow(piece)) \subseteq Range(piece)
<1> DEFINE t == k + 1
<1>1. t \in Nat
  OBVIOUS
<1> HIDE DEF t
<1>2. Piece(piece, t)
  BY DEF t
<1>3. CASE piece = <<>>
  <2>1. piece \in Text /\ DOMAIN piece = {}
    BY <1>3 DEF Text
  <2> QED BY <1>3, <2>1 DEF Ascends
<1>4. CASE piece = <<NL>>
  <2>1. piece \in Text /\ DOMAIN piece = {1} /\ piece[1] = NL
    BY <1>4 DEF Text, Token, NL
  <2>2. LastRow(piece) = <<>>
    BY <1>4 DEF LastRow
  <2>3. Range(LastRow(piece)) = {}
    BY <2>2 DEF Range
  <2> QED BY <2>1, <2>2, <2>3 DEF Ascends, Piece
<1>5. CASE piece = <<t>>
  <2>1. piece \in Text /\ DOMAIN piece = {1} /\ piece[1] = t
    BY <1>1, <1>5 DEF Text, Token
  <2>2. LastRow(piece) = piece \/ LastRow(piece) = <<>>
    BY <1>5 DEF LastRow
  <2>3. Range(LastRow(piece)) \subseteq Range(piece)
    BY <2>2 DEF Range
  <2> QED BY <1>2, <2>1, <2>2, <2>3 DEF Ascends, Piece, t
<1>6. CASE piece = <<NL, t>>
  <2>1. piece \in Text /\ DOMAIN piece = {1, 2} /\ piece[1] = NL /\ piece[2] = t
    BY <1>1, <1>6 DEF Text, Token, NL
  <2>2. LastRow(piece) = <<t>>
    BY <1>6 DEF LastRow
  <2>3. Ascends(piece)
    BY <2>1 DEF Ascends
  <2>4. Range(LastRow(piece)) \subseteq Range(piece)
    <3>1. Range(<<t>>) = {t}
      BY DEF Range
    <3>2. t \in Range(piece)
      BY <2>1 DEF Range
    <3> QED BY <2>2, <3>1, <3>2
  <2> QED BY <2>1, <2>2, <2>3, <2>4 DEF Piece, t
<1> QED BY <1>2, <1>3, <1>4, <1>5, <1>6 DEF Piece

\* Text that grows by a later piece stays in order, and after what came before.
LEMMA GrowsInOrder ==
  ASSUME NEW k \in Nat, NEW text \in Text, Within(text, k), Ascends(text),
         NEW piece, Piece(piece, k + 1)
  PROVE  /\ text \o piece \in Text /\ Within(text \o piece, k + 1) /\ Ascends(text \o piece)
         /\ \A other : Within(other, k) /\ Before(other, text) => Before(other, text \o piece)
         /\ \A n \in DOMAIN (text \o piece) :
               \/ \E m \in DOMAIN text : (text \o piece)[n] = text[m]
               \/ (text \o piece)[n] \in Range(piece)
<1> DEFINE a    == Len(text)
           b    == Len(piece)
           both == text \o piece
<1>1. piece \in Seq(Token) /\ text \in Seq(Token) /\ a = Len(text) /\ b = Len(piece)
  BY PieceIs DEF Text
<1>2. Ascends(piece) /\ \A n \in DOMAIN piece : piece[n] # NL => piece[n] = k + 1
  BY PieceIs
<1>3. a \in Nat /\ b \in Nat /\ DOMAIN text = 1..a /\ DOMAIN piece = 1..b
  BY <1>1
<1>4. both = text \o piece
  OBVIOUS
<1> HIDE DEF a, b, both
<1>5. /\ both \in Seq(Token) /\ DOMAIN both = 1..(a + b)
      /\ \A i \in 1..(a + b) : \/ i \in 1..a /\ both[i] = text[i]
                               \/ i - a \in 1..b /\ both[i] = piece[i - a]
  BY <1>1, <1>4, Joined
<1>6. \A n \in DOMAIN text : text[n] # NL => text[n] \in 1..k
  BY DEF Within
<1>7. Within(both, k + 1)
  BY <1>2, <1>3, <1>5, <1>6 DEF Within
<1>8. Ascends(both)
  <2> SUFFICES ASSUME NEW n \in 1..(a + b), NEW m \in 1..(a + b), n < m,
                      both[n] # NL, both[m] # NL
               PROVE  both[n] < both[m]
    BY <1>5 DEF Ascends
  <2>1. CASE n \in 1..a /\ both[n] = text[n]
    <3>1. CASE m \in 1..a /\ both[m] = text[m]
      BY <1>3, <2>1, <3>1 DEF Ascends
    <3>2. CASE m - a \in 1..b /\ both[m] = piece[m - a]
      BY <1>2, <1>3, <1>6, <2>1, <3>2
    <3> QED BY <1>5, <3>1, <3>2
  <2>2. CASE n - a \in 1..b /\ both[n] = piece[n - a]
    <3>1. m - a \in 1..b /\ both[m] = piece[m - a] /\ n - a < m - a
      BY <1>3, <1>5, <2>2
    <3> QED BY <1>2, <1>3, <2>2, <3>1 DEF Ascends
  <2> QED BY <1>5, <2>1, <2>2
<1>9. ASSUME NEW other, Within(other, k), Before(other, text)
      PROVE  Before(other, both)
  <2> SUFFICES ASSUME NEW n \in DOMAIN other, NEW m \in 1..(a + b), other[n] # NL, both[m] # NL
               PROVE  other[n] < both[m]
    BY <1>5 DEF Before
  <2>1. other[n] \in 1..k
    BY <1>9 DEF Within
  <2>2. CASE m \in 1..a /\ both[m] = text[m]
    BY <1>3, <1>9, <2>2 DEF Before
  <2>3. CASE m - a \in 1..b /\ both[m] = piece[m - a]
    BY <1>2, <1>3, <2>1, <2>3
  <2> QED BY <1>5, <2>2, <2>3
<1>10. \A n \in DOMAIN both : (\E m \in DOMAIN text : both[n] = text[m]) \/ both[n] \in Range(piece)
  BY <1>3, <1>5 DEF Range
<1>11. both \in Text
  BY <1>5 DEF Text
<1> QED BY <1>4, <1>7, <1>8, <1>9, <1>10, <1>11

\* The texts an accumulator may have read from it.
ReadFrom(waiting) == {waiting.text, waiting.lastLine}

\* Pushing a piece makes each of them longer by it, or starts it anew.
LEMMA PushedTexts ==
  ASSUME NEW k \in Nat, NEW waiting \in UnspokenText, NEW piece, Piece(piece, k + 1)
  PROVE  \A new \in ReadFrom(push(waiting, piece)) :
            \/ new \in ReadFrom(waiting)
            \/ \E old \in ReadFrom(waiting) \cup {<<>>} :
                  \E more : /\ Piece(more, k + 1) /\ Range(more) \subseteq Range(piece)
                            /\ new = old \o more
<1> DEFINE heard == push(waiting, piece)
           text  == waiting.text \o piece
           last  == IF Head(piece) = NL THEN LastRow(piece) ELSE waiting.lastLine \o piece
           grown == [waiting EXCEPT
                        !.text     = text,
                        !.newlines = @ + Newlines(piece),
                        !.chars    = measure(text).chars,
                        !.ended    = EndsInNL(piece),
                        !.any      = TRUE,
                        !.lastLine = last]
<1>1. CASE piece = <<>>
  BY <1>1 DEF push
<1>2. CASE piece # <<>>
  <2>1. heard = IF ~waiting.kept
                THEN [grown EXCEPT !.text = <<>>, !.chars = waiting.chars + Len(piece)]
                ELSE IF verdict(size(grown)) = "TooBig"
                     THEN [grown EXCEPT !.kept = FALSE, !.text = <<>>]
                     ELSE grown
    BY <1>2 DEF push
  <2>2. grown.text = text /\ grown.lastLine = last /\ DOMAIN grown = DOMAIN waiting
        /\ "text" \in DOMAIN waiting
    BY DEF UnspokenText
  <2> HIDE DEF grown, text, last, heard
  <2>3. [grown EXCEPT !.text = <<>>, !.chars = waiting.chars + Len(piece)].text = <<>>
        /\ [grown EXCEPT !.text = <<>>, !.chars = waiting.chars + Len(piece)].lastLine = grown.lastLine
    BY <2>2
  <2>4. [grown EXCEPT !.kept = FALSE, !.text = <<>>].text = <<>>
        /\ [grown EXCEPT !.kept = FALSE, !.text = <<>>].lastLine = grown.lastLine
    BY <2>2
  <2>5. (heard.text = <<>> \/ heard.text = text) /\ heard.lastLine = last
    BY <2>1, <2>2, <2>3, <2>4
  <2>6. /\ Piece(LastRow(piece), k + 1) /\ Range(LastRow(piece)) \subseteq Range(piece)
        /\ LastRow(piece) \in Text
    <3>1. Piece(LastRow(piece), k + 1) /\ Range(LastRow(piece)) \subseteq Range(piece)
      BY <1>2, PieceIs
    <3> QED BY <3>1, PieceIs
  <2>7. <<>> \o LastRow(piece) = LastRow(piece) /\ <<>> \o <<>> = <<>> /\ Piece(<<>>, k + 1)
        /\ Range(<<>>) \subseteq Range(piece)
    BY <2>6, ConcatEmptySeq DEF Text, Piece, Range
  <2>8. \/ heard.lastLine = <<>> \o LastRow(piece)
        \/ heard.lastLine = waiting.lastLine \o piece
    BY <2>5, <2>7 DEF last
  <2>9. heard.text = <<>> \o <<>> \/ heard.text = waiting.text \o piece
    BY <2>5, <2>7 DEF text
  <2>10. /\ waiting.text \in ReadFrom(waiting) \cup {<<>>}
         /\ waiting.lastLine \in ReadFrom(waiting) \cup {<<>>}
         /\ <<>> \in ReadFrom(waiting) \cup {<<>>}
    BY DEF ReadFrom
  <2>11. \E old \in ReadFrom(waiting) \cup {<<>>} :
            \E more : /\ Piece(more, k + 1) /\ Range(more) \subseteq Range(piece)
                      /\ heard.text = old \o more
    BY <2>7, <2>9, <2>10
  <2>12. \E old \in ReadFrom(waiting) \cup {<<>>} :
            \E more : /\ Piece(more, k + 1) /\ Range(more) \subseteq Range(piece)
                      /\ heard.lastLine = old \o more
    BY <2>6, <2>8, <2>10
  <2>13. \A new \in ReadFrom(heard) : new = heard.text \/ new = heard.lastLine
    BY DEF ReadFrom
  <2>14. heard = push(waiting, piece)
    BY DEF heard
  <2> QED BY <2>11, <2>12, <2>13, <2>14
<1> QED BY <1>1, <1>2

\* What is known of the rows told (t), the events sent (s) and the text that
\* waits to be read.
TextsInOrder(t, waiting) == \A x \in ReadFrom(waiting) : Within(x, Len(t)) /\ Ascends(x)

ReadBefore(t, s, waiting) ==
    \A i \in 1..Len(s) : s[i].kind = "ReadAloud" =>
        /\ Within(s[i].text, Len(t)) /\ Ascends(s[i].text)
        /\ \A x \in ReadFrom(waiting) : Before(s[i].text, x)

ReadInOrder(s) ==
    \A i, j \in 1..Len(s) :
        i < j /\ s[i].kind = "ReadAloud" /\ s[j].kind = "ReadAloud" => Before(s[i].text, s[j].text)

Reading(t, s, waiting) ==
    TextsInOrder(t, waiting) /\ ReadBefore(t, s, waiting) /\ ReadInOrder(s)

\* With nothing waiting only what was read is left to say something of.
LEMMA NothingToRead ==
  ASSUME NEW t
  PROVE  /\ TextsInOrder(t, NothingUnspoken)
         /\ \A text : \A x \in ReadFrom(NothingUnspoken) : Before(text, x)
<1>1. ReadFrom(NothingUnspoken) = {<<>>}
  BY DEF ReadFrom, NothingUnspoken
<1> QED BY <1>1 DEF TextsInOrder, Before, Within, Ascends

\* The text a row brings: its one token, perhaps after a line ending.
LEMMA RowText ==
  ASSUME told \in Seq(Told), NEW chunk \in Chunks
  PROVE  /\ Len(told) \in Nat /\ Piece(Separated(chunk), Len(told) + 1)
         /\ \A token \in Range(Separated(chunk)) : token # NL =>
               /\ token = Len(told) + 1 /\ NewText(chunk) = <<token>> /\ chunk.some
         /\ \A n \in DOMAIN NewText(chunk) : NewText(chunk)[n] = Len(told) + 1
<1> DEFINE k    == Len(told) + 1
           text == NewText(chunk)
           sep  == Separated(chunk)
<1>1. Len(told) \in Nat /\ k \in Nat
  OBVIOUS
<1>2. text = <<>> \/ (text = <<k>> /\ chunk.some)
  BY DEF NewText
<1>3. sep = text \/ sep = <<NL>> \o text
  BY DEF Separated
<1> HIDE DEF k, text, sep
<1>4. <<NL>> \o <<>> = <<NL>> /\ <<NL>> \o <<k>> = <<NL, k>>
  BY Pair
<1>5. \/ sep = <<>> \/ sep = <<NL>>
      \/ (sep = <<k>> \/ sep = <<NL, k>>) /\ text = <<k>> /\ chunk.some
  BY <1>2, <1>3, <1>4
<1>6. Range(<<>>) = {} /\ Range(<<NL>>) = {NL} /\ Range(<<k>>) = {k} /\ Range(<<NL, k>>) = {NL, k}
  BY DEF Range
<1>7. \A token \in Range(sep) : token # NL => token = k /\ text = <<token>> /\ chunk.some
  BY <1>5, <1>6
<1>8. \A n \in DOMAIN text : text[n] = k
  BY <1>2
<1>9. Piece(sep, k)
  BY <1>5 DEF Piece
<1> QED BY <1>1, <1>7, <1>8, <1>9 DEF k, text, sep

\* A row that arrives is heard.
LEMMA ReadingTells ==
  ASSUME Typed, Reading(told, sent, unspoken), NEW chunk \in Chunks,
         NEW t, t = Append(told, NewTold(chunk)), NewText(chunk) \in Text,
         NEW waiting \in {unspoken, Heard(chunk)}
  PROVE  Reading(t, sent, waiting)
<1> DEFINE k     == Len(told)
           piece == Separated(chunk)
<1>1. told \in Seq(Told) /\ unspoken \in UnspokenText /\ sent \in Seq(Sent)
  BY DEF Typed, IInv, TypeOK
<1>2. /\ k \in Nat /\ Piece(piece, k + 1)
      /\ \A token \in Range(piece) : token # NL =>
               token = k + 1 /\ NewText(chunk) = <<token>> /\ chunk.some
      /\ \A n \in DOMAIN NewText(chunk) : NewText(chunk)[n] = k + 1
  BY <1>1, RowText
<1>3. Len(t) = k + 1 /\ t[k + 1] = NewTold(chunk) /\ \A token \in 1..k : t[token] = told[token]
  BY <1>1
<1>6. TextsInOrder(told, unspoken) /\ ReadBefore(told, sent, unspoken) /\ ReadInOrder(sent)
  BY DEF Reading
<1> HIDE DEF k, piece
<1>9. ASSUME NEW x \in ReadFrom(waiting)
      PROVE  \/ x \in ReadFrom(unspoken)
             \/ \E old \in ReadFrom(unspoken) \cup {<<>>} :
                   \E more : /\ Piece(more, k + 1) /\ Range(more) \subseteq Range(piece)
                             /\ x = old \o more
  <2>1. CASE waiting = unspoken
    BY <1>9, <2>1
  <2>2. CASE waiting = Heard(chunk)
    <3>1. waiting = push(unspoken, piece)
      BY <2>2 DEF Heard, piece
    <3>2. \A new \in ReadFrom(push(unspoken, piece)) :
             \/ new \in ReadFrom(unspoken)
             \/ \E old \in ReadFrom(unspoken) \cup {<<>>} :
                   \E more : /\ Piece(more, k + 1) /\ Range(more) \subseteq Range(piece)
                             /\ new = old \o more
      BY <1>1, <1>2, PushedTexts
    <3> QED BY <1>9, <3>1, <3>2
  <2> QED BY <2>1, <2>2
<1>10. \A x \in ReadFrom(unspoken) \cup {<<>>} : x \in Text /\ Within(x, k) /\ Ascends(x)
  <2>1. ASSUME NEW x \in ReadFrom(unspoken)
        PROVE  x \in Text /\ Within(x, k) /\ Ascends(x)
    <3>1. x \in Text
      BY <1>1 DEF ReadFrom, UnspokenText
    <3> QED BY <1>6, <3>1 DEF TextsInOrder, k
  <2>2. <<>> \in Text /\ Within(<<>>, k) /\ Ascends(<<>>)
    BY DEF Text, Within, Ascends
  <2> QED BY <2>1, <2>2
<1>11. ASSUME NEW x, Within(x, k) PROVE Within(x, k + 1)
  BY <1>2, <1>11 DEF Within
<1>12. TextsInOrder(t, waiting)
  <2> SUFFICES ASSUME NEW x \in ReadFrom(waiting) PROVE Within(x, k + 1) /\ Ascends(x)
    BY <1>3 DEF TextsInOrder
  <2>1. CASE x \in ReadFrom(unspoken)
    BY <1>10, <1>11, <2>1
  <2>2. ASSUME NEW old \in ReadFrom(unspoken) \cup {<<>>}, NEW more, Piece(more, k + 1), x = old \o more
        PROVE  Within(x, k + 1) /\ Ascends(x)
    BY <1>2, <1>10, <2>2, GrowsInOrder
  <2> QED BY <1>9, <2>1, <2>2
<1>16. ReadBefore(t, sent, waiting)
  <2> SUFFICES ASSUME NEW i \in 1..Len(sent), sent[i].kind = "ReadAloud"
               PROVE  /\ Within(sent[i].text, k + 1) /\ Ascends(sent[i].text)
                      /\ \A x \in ReadFrom(waiting) : Before(sent[i].text, x)
    BY <1>3 DEF ReadBefore
  <2>1. /\ Within(sent[i].text, k) /\ Ascends(sent[i].text)
        /\ \A x \in ReadFrom(unspoken) : Before(sent[i].text, x)
    BY <1>6 DEF ReadBefore, k
  <2>2. ASSUME NEW x \in ReadFrom(waiting) PROVE Before(sent[i].text, x)
    <3>1. CASE x \in ReadFrom(unspoken)
      BY <2>1, <3>1
    <3>2. ASSUME NEW old \in ReadFrom(unspoken) \cup {<<>>}, NEW more, Piece(more, k + 1), x = old \o more
          PROVE  Before(sent[i].text, x)
      <4>1. Before(sent[i].text, old)
        BY <2>1, <3>2 DEF Before
      <4>2. old \in Text /\ Within(old, k) /\ Ascends(old)
        BY <1>10
      <4> QED BY <1>2, <2>1, <3>2, <4>1, <4>2, GrowsInOrder
    <3> QED BY <1>9, <2>2, <3>1, <3>2
  <2> QED BY <1>11, <2>1, <2>2
<1> QED BY <1>6, <1>12, <1>16 DEF Reading

\* Rows are shown or stay; what is read was waiting, and all of it is taken
\* once the rows are shown.
ReadsFrom(said, waiting) ==
    /\ \A i \in 1..Len(said) : said[i].kind = "ReadAloud" => said[i].text \in ReadFrom(waiting)
    /\ \A i, j \in 1..Len(said) :
          said[i].kind = "ReadAloud" /\ said[j].kind = "ReadAloud" => i = j

Takes(shown, said, rows, left, waiting, later) ==
    /\ shown \in Seq(Row) /\ said \in Seq(Sent)
    /\ \/ shown = rows /\ left = <<>>
       \/ shown = <<>> /\ left = rows
    /\ \/ later = waiting /\ \A i \in 1..Len(said) : said[i].kind # "ReadAloud"
       \/ shown = rows /\ later = NothingUnspoken /\ ReadsFrom(said, waiting)

\* What an action reads keeps to the order.
LEMMA ReadingTakes ==
  ASSUME sent \in Seq(Sent), NEW t, NEW rows, NEW left, NEW waiting, NEW later,
         Reading(t, sent, waiting), NEW shown, NEW said, Adds(shown, said),
         Takes(shown, said, rows, left, waiting, later)
  PROVE  Reading(t, sent', later)
<1> DEFINE a == Len(sent)
           b == Len(shown)
           c == Len(said)
           e == Len(sent')
<1>0. shown \in Seq(Row) /\ said \in Seq(Sent)
  BY DEF Takes
<1>1. /\ a \in Nat /\ b \in Nat /\ c \in Nat
      /\ DOMAIN sent' = 1..(a + b + c) /\ sent' \in Seq(Sent)
      /\ \A i \in 1..a : sent'[i] = sent[i]
      /\ \A i \in 1..b : sent'[a + i].kind = "Output" /\ sent'[a + i].row = shown[i]
      /\ \A i \in DOMAIN sent' :
            \/ i \in 1..a /\ sent'[i] = sent[i]
            \/ i - a \in 1..b /\ sent'[i].kind = "Output"
            \/ i - a - b \in 1..c /\ sent'[i] = said[i - a - b]
  BY <1>0, AddsAre
<1>2. e = a + b + c
  BY <1>1
<1>4. /\ \/ shown = rows /\ left = <<>>
         \/ shown = <<>> /\ left = rows
      /\ \/ later = waiting /\ \A i \in 1..c : said[i].kind # "ReadAloud"
         \/ shown = rows /\ later = NothingUnspoken /\ ReadsFrom(said, waiting)
  BY DEF Takes
<1>5. TextsInOrder(t, waiting) /\ ReadBefore(t, sent, waiting) /\ ReadInOrder(sent)
  BY DEF Reading
<1>6. a = Len(sent) /\ e = Len(sent')
  OBVIOUS
<1> HIDE DEF a, b, c, e
<1>12. ASSUME NEW i \in DOMAIN sent', sent'[i].kind = "ReadAloud"
       PROVE  \/ i \in 1..a /\ sent'[i] = sent[i]
              \/ /\ shown = rows /\ later = NothingUnspoken
                 /\ i - a - b \in 1..c /\ sent'[i] = said[i - a - b]
                 /\ sent'[i].text \in ReadFrom(waiting)
  <2>1. CASE i - a - b \in 1..c /\ sent'[i] = said[i - a - b]
    <3> DEFINE k == i - a - b
    <3>1. k \in 1..Len(said) /\ said[k].kind = "ReadAloud" /\ sent'[i] = said[k]
      BY <1>12, <2>1 DEF c
    <3>2. shown = rows /\ later = NothingUnspoken /\ ReadsFrom(said, waiting)
      BY <1>4, <3>1 DEF c
    <3>3. sent'[i].text \in ReadFrom(waiting)
      BY <3>1, <3>2 DEF ReadsFrom
    <3> QED BY <2>1, <3>2, <3>3
  <2> QED BY <1>1, <1>12, <2>1
<1>13. TextsInOrder(t, later)
  BY <1>4, <1>5, NothingToRead
<1>16. ReadBefore(t, sent', later)
  <2> SUFFICES ASSUME NEW i \in DOMAIN sent', sent'[i].kind = "ReadAloud"
               PROVE  /\ Within(sent'[i].text, Len(t)) /\ Ascends(sent'[i].text)
                      /\ \A x \in ReadFrom(later) : Before(sent'[i].text, x)
    BY <1>1, <1>2, <1>6 DEF ReadBefore
  <2>1. CASE i \in 1..a /\ sent'[i] = sent[i]
    <3>1. /\ Within(sent[i].text, Len(t)) /\ Ascends(sent[i].text)
          /\ \A x \in ReadFrom(waiting) : Before(sent[i].text, x)
      BY <1>5, <1>6, <2>1 DEF ReadBefore
    <3> QED BY <1>4, <2>1, <3>1, NothingToRead
  <2>2. CASE later = NothingUnspoken /\ sent'[i].text \in ReadFrom(waiting)
    BY <1>5, <2>2, NothingToRead DEF TextsInOrder
  <2> QED BY <1>12, <2>1, <2>2
<1>17. ReadInOrder(sent')
  <2> SUFFICES ASSUME NEW i \in DOMAIN sent', NEW j \in DOMAIN sent', i < j,
                      sent'[i].kind = "ReadAloud", sent'[j].kind = "ReadAloud"
               PROVE  Before(sent'[i].text, sent'[j].text)
    BY <1>1, <1>2, <1>6 DEF ReadInOrder
  <2>1. CASE j \in 1..a /\ sent'[j] = sent[j]
    <3>1. i \in 1..a /\ sent'[i] = sent[i]
      BY <1>1, <2>1
    <3> QED BY <1>5, <1>6, <2>1, <3>1 DEF ReadInOrder
  <2>2. CASE /\ shown = rows /\ later = NothingUnspoken
             /\ j - a - b \in 1..c /\ sent'[j] = said[j - a - b]
             /\ sent'[j].text \in ReadFrom(waiting)
    <3>1. CASE i \in 1..a /\ sent'[i] = sent[i]
      BY <1>5, <1>6, <2>2, <3>1 DEF ReadBefore
    <3>2. CASE i - a - b \in 1..c /\ sent'[i] = said[i - a - b]
      <4>1. ReadsFrom(said, waiting)
        <5>1. said[i - a - b].kind = "ReadAloud"
          BY <3>2
        <5> QED BY <1>4, <3>2, <5>1
      <4>2. i - a - b = j - a - b
        BY <2>2, <3>2, <4>1 DEF ReadsFrom, c
      <4> QED BY <1>1, <4>2
    <3> QED BY <1>12, <3>1, <3>2
  <2> QED BY <1>12, <2>1, <2>2
<1> QED BY <1>13, <1>16, <1>17 DEF Reading

\* An action that is carried out takes what it reads.
LEMMA DoesTakes ==
  ASSUME NEW action, NEW rows, NEW heard, NEW undecided,
         NEW shown \in Seq(Row), NEW said \in Seq(Sent),
         Does(action, rows, heard, undecided, shown, said)
  PROVE  Takes(shown, said, rows, unrendered', heard, unspoken')
<1>1. \A i \in 1..Len(said) : said[i].kind = "ReadAloud" =>
         Flushes(action) /\ said[i].text \in ReadFrom(heard)
  BY DEF Does, Says, ReadFrom
<1>2. ReadsFrom(said, heard)
  BY <1>1 DEF Does, Says, ReadsFrom
<1>3. CASE Flushes(action)
  BY <1>2, <1>3 DEF Does, Takes
<1>4. CASE ~Flushes(action)
  BY <1>1, <1>4 DEF Does, Takes
<1> QED BY <1>3, <1>4

\* Every step keeps to the order.
LEMMA ReadingHolds ==
  ASSUME Typed, Reading(told, sent, unspoken), [Next]_vars
  PROVE  Reading(told', sent', unspoken')
<1>0. sent \in Seq(Sent) /\ unrendered \in Seq(Row)
  BY DEF Typed, IInv, TypeOK
<1>1. CASE Starts
  <2> DEFINE first == Event("CommandStarted")
  <2>1. first.kind = "CommandStarted" /\ sent' = <<first>> /\ told' = <<>>
        /\ unrendered' = <<>> /\ unspoken' = NothingUnspoken
    BY <1>1 DEF Starts, Event, Fresh
  <2> HIDE DEF first
  <2>2. DOMAIN sent' = {1} /\ 1..Len(sent') = {1} /\ sent'[1].kind = "CommandStarted"
    BY <2>1
  <2>3. ReadBefore(told', sent', NothingUnspoken) /\ ReadInOrder(sent')
    BY <2>2 DEF ReadBefore, ReadInOrder
  <2> QED BY <2>1, <2>3, NothingToRead DEF Reading
<1>2. ASSUME NEW shown \in Seq(Row), NEW said \in Seq(Sent), Step(shown, said), Adds(shown, said)
      PROVE  Reading(told', sent', unspoken')
  <2>1. ASSUME NEW chunk \in Chunks, NEW action \in PacingAction, Tells(chunk, shown, said, action)
        PROVE  Reading(told', sent', unspoken')
    <3>1. /\ told' = Append(told, NewTold(chunk)) /\ NewText(chunk) \in Text
          /\ unspoken \in {unspoken, Heard(chunk)} /\ Heard(chunk) \in {unspoken, Heard(chunk)}
      BY <2>1 DEF Tells
    <3>2. CASE chunk.spoken
      <4>1. Reading(told', sent, Heard(chunk))
        BY <3>1, ReadingTells
      <4>2. Does(action, NewRows(chunk), Heard(chunk), owed \o NewText(chunk), shown, said)
        BY <2>1, <3>2 DEF Tells
      <4>3. Takes(shown, said, NewRows(chunk), unrendered', Heard(chunk), unspoken')
        BY <4>2, DoesTakes
      <4> QED BY <1>0, <1>2, <4>1, <4>3, ReadingTakes
    <3>3. CASE ~chunk.spoken
      <4>1. Reading(told', sent, unspoken)
        BY <3>1, ReadingTells
      <4>2. Takes(shown, said, NewRows(chunk), unrendered', unspoken, unspoken')
        BY <2>1, <3>3 DEF Tells, Takes
      <4> QED BY <1>0, <1>2, <4>1, <4>2, ReadingTakes
    <3> QED BY <3>2, <3>3
  <2>2. ASSUME told' = told, Takes(shown, said, unrendered, unrendered', unspoken, unspoken')
        PROVE  Reading(told', sent', unspoken')
    BY <1>0, <1>2, <2>2, ReadingTakes
  <2>3. ASSUME NEW action \in PacingAction, Wakes(shown, said, action)
        PROVE  Reading(told', sent', unspoken')
    <3>1. told' = told /\ Does(action, unrendered, unspoken, owed, shown, said)
      BY <2>3 DEF Wakes
    <3> QED BY <2>2, <3>1, DoesTakes
  <2>4. CASE SendsRows(shown, said)
    BY <1>0, <2>2, <2>4 DEF SendsRows, Takes
  <2>5. CASE LeavesAlone(shown, said)
    <3>1. UNCHANGED <<told, unrendered, unspoken>> /\ shown = <<>>
          /\ \A i \in 1..Len(said) : said[i].kind # "ReadAloud"
      BY <2>5 DEF LeavesAlone, command, Passed
    <3> QED BY <2>2, <3>1 DEF Takes
  <2>6. ASSUME NEW terminal \in Terminal, NEW last \in Seq(Sent), NEW action \in PacingAction,
               shown = unrendered, Ends(said, last, terminal, action)
        PROVE  Reading(told', sent', unspoken')
    <3> DEFINE m == Len(last)
    <3>1. /\ m \in Nat /\ (Len(said) = m + 1 \/ Len(said) = m + 2)
          /\ \A i \in 1..m : said[i] = last[i]
          /\ said[m + 1].kind = terminal
          /\ Len(said) = m + 2 => said[m + 2].kind = "Failed"
      BY <2>6 DEF Ends
    <3>2. Says(last, action, unspoken)
      BY <2>6 DEF Ends
    <3>3. /\ \A i \in 1..m : last[i].kind = "ReadAloud" => last[i].text \in ReadFrom(unspoken)
          /\ \A i, j \in 1..m : last[i].kind = "ReadAloud" /\ last[j].kind = "ReadAloud" => i = j
      BY <3>2 DEF Says, ReadFrom
    <3> HIDE DEF m
    <3>4. \A i \in 1..Len(said) : said[i].kind = "ReadAloud" => i \in 1..m
      <4>1. \A i \in 1..Len(said) : i \in 1..m \/ i = m + 1 \/ (i = m + 2 /\ Len(said) = m + 2)
        BY <3>1
      <4> QED BY <3>1, <4>1 DEF Terminal
    <3>5. ReadsFrom(said, unspoken)
      BY <3>1, <3>3, <3>4 DEF ReadsFrom
    <3>6. told' = told /\ unrendered' = <<>> /\ unspoken' = NothingUnspoken
      BY <2>6 DEF Ends, Fresh
    <3> QED BY <1>0, <2>2, <2>6, <3>5, <3>6 DEF Takes
  <2> QED BY <1>2, <2>1, <2>3, <2>4, <2>5, <2>6 DEF Step
<1> QED BY <1>1, <1>2, StepAdds
\* So it is in every state.
LEMMA ReadingAlways == Spec => []Reading(told, sent, unspoken)
<1>1. Init => Reading(told, sent, unspoken)
  <2> SUFFICES ASSUME Init PROVE Reading(told, sent, unspoken)
    OBVIOUS
  <2>1. told = <<>> /\ sent = <<>> /\ unrendered = <<>> /\ unspoken = NothingUnspoken
    BY DEF Init
  <2>2. ReadBefore(told, sent, NothingUnspoken) /\ ReadInOrder(sent)
    BY <2>1 DEF ReadBefore, ReadInOrder
  <2> QED BY <2>1, <2>2, NothingToRead DEF Reading
<1>2. Typed /\ Reading(told, sent, unspoken) /\ [Next]_vars
         => Reading(told, sent, unspoken)'
  BY ReadingHolds
<1> QED BY <1>1, <1>2, StreamTyped, PTL DEF Spec

\* Nothing is read twice or out of order, however flushes, ticks, follow mode
\* and the last row of a flood interleave.
THEOREM NothingIsReadTwice == Spec => []ReadOnceInOrder
<1>1. ASSUME Typed, Reading(told, sent, unspoken) PROVE ReadOnceInOrder
  <2>1. DOMAIN sent = 1..Len(sent) /\ Len(sent) \in Nat
    BY <1>1 DEF Typed
  <2> SUFFICES ASSUME NEW i \in 1..Len(sent), NEW j \in 1..Len(sent), i <= j,
                      sent[i].kind = "ReadAloud", sent[j].kind = "ReadAloud",
                      NEW n \in DOMAIN sent[i].text, NEW m \in DOMAIN sent[j].text,
                      i = j => n < m,
                      sent[i].text[n] # NL, sent[j].text[m] # NL
               PROVE  sent[i].text[n] < sent[j].text[m]
    BY <2>1 DEF ReadOnceInOrder
  <2>2. CASE i = j
    BY <1>1, <2>2 DEF Reading, ReadBefore, Ascends
  <2>3. CASE i < j
    BY <1>1, <2>3 DEF Reading, ReadInOrder, Before
  <2> QED BY <2>1, <2>2, <2>3
<1> QED BY <1>1, StreamTyped, ReadingAlways, PTL

-----------------------------------------------------------------------------
(***************************************************************************)
(* What is owed.                                                           *)
(***************************************************************************)
Printed == Token \ {NL}

\* The tokens an accumulator stands for, and when it keeps their text.
Accounts(waiting, due) ==
    /\ waiting.kept => Only(waiting.text, Printed) = due
    /\ due # <<>> => waiting.any
    /\ waiting.kept <=> verdict(size(waiting)) = "Auto"

\* A row adds its one token to the tokens of a text.
LEMMA OnlyOfPiece ==
  ASSUME told \in Seq(Told), NEW chunk \in Chunks, NEW text \in Text
  PROVE  Only(text \o Separated(chunk), Printed) = Only(text, Printed) \o NewText(chunk)
<1> DEFINE k    == Len(told) + 1
           new  == NewText(chunk)
           sep  == Separated(chunk)
           some == Only(text, Printed)
           nl   == Append(text, NL)
<1>1. k \in Token /\ k \in Printed /\ NL \in Token /\ NL \notin Printed /\ text \in Seq(Token)
  BY DEF Token, Printed, NL, Text
<1>2. new = <<>> \/ new = <<k>>
  BY DEF NewText
<1>3. sep = new \/ sep = <<NL>> \o new
  BY DEF Separated
<1> SUFFICES Only(text \o sep, Printed) = some \o new
  OBVIOUS
<1> HIDE DEF k, new, sep
<1>4. some \in Seq(Token) /\ nl \in Seq(Token)
  BY <1>1, OnlyRange
<1>5. some \o <<>> = some /\ text \o <<>> = text
  BY <1>1, <1>4, ConcatEmptySeq
<1>6. Append(some, k) = some \o <<k>> /\ Append(text, k) = text \o <<k>> /\ nl = text \o <<NL>>
      /\ Append(nl, k) = nl \o <<k>>
  BY <1>1, <1>4, AppendIsConcat
<1>7. Only(nl, Printed) = some
  BY <1>1, OnlyAppend
<1> HIDE DEF nl
<1>8. Only(Append(text, k), Printed) = Append(some, k)
  BY <1>1, OnlyAppend
<1>9. Only(Append(nl, k), Printed) = Append(some, k)
  BY <1>1, <1>4, <1>7, OnlyAppend
<1>10. CASE new = <<>>
  <2>1. sep = <<>> \/ sep = <<NL>>
    BY <1>3, <1>10, Pair
  <2> QED BY <1>5, <1>6, <1>7, <1>10, <2>1
<1>11. CASE new = <<k>>
  <2>1. CASE sep = <<k>>
    BY <1>6, <1>8, <1>11, <2>1
  <2>2. CASE sep = <<NL>> \o <<k>>
    <3> DEFINE e == <<NL>>
               r == <<k>>
    <3>1. e \in Seq(Token) /\ r \in Seq(Token)
      BY <1>1
    <3> HIDE DEF e, r
    <3>2. text \o (e \o r) = (text \o e) \o r
      BY <1>1, <3>1, ConcatAssociative
    <3>3. text \o sep = nl \o <<k>>
      BY <1>6, <2>2, <3>2 DEF e, r
    <3> QED BY <1>6, <1>9, <1>11, <3>3
  <2> QED BY <1>3, <1>11, <2>1, <2>2
<1> QED BY <1>2, <1>10, <1>11

\* Text that was too big stays too big, and text is dropped when it becomes so.
LEMMA PushVerdict ==
  ASSUME NEW waiting \in UnspokenText, NEW chunk \in Text,
         waiting.kept <=> verdict(size(waiting)) = "Auto"
  PROVE  push(waiting, chunk).kept <=> verdict(size(push(waiting, chunk))) = "Auto"
<1> DEFINE text  == waiting.text \o chunk
           more  == Newlines(chunk)
           len   == Len(chunk)
           ends  == EndsInNL(chunk)
           last  == IF Head(chunk) = NL THEN LastRow(chunk) ELSE waiting.lastLine \o chunk
           chars == measure(text).chars
           grown == [waiting EXCEPT
                        !.text     = text,
                        !.newlines = @ + more,
                        !.chars    = chars,
                        !.ended    = ends,
                        !.any      = TRUE,
                        !.lastLine = last]
           heard == push(waiting, chunk)
<1>1. CASE chunk = <<>>
  BY <1>1 DEF push
<1>2. CASE chunk # <<>>
  <2>1. heard = IF ~waiting.kept
                THEN [grown EXCEPT !.text = <<>>, !.chars = waiting.chars + len]
                ELSE IF verdict(size(grown)) = "TooBig"
                     THEN [grown EXCEPT !.kept = FALSE, !.text = <<>>]
                     ELSE grown
    BY <1>2 DEF push
  <2>2. more \in Nat /\ len \in Nat /\ (ends => more > 0) /\ ends \in BOOLEAN
    BY NewlinesType DEF Text, EndsInNL
  <2>3. waiting.newlines \in Nat /\ waiting.chars \in Nat /\ DOMAIN grown = DOMAIN waiting
        /\ {"kept", "text", "newlines", "chars", "ended", "any", "lastLine"} = DOMAIN waiting
    BY DEF UnspokenText
  <2> HIDE DEF text, more, len, ends, last, chars, heard
  <2>4. /\ grown.kept = waiting.kept
        /\ grown.newlines = waiting.newlines + more /\ grown.chars = chars
    BY <2>3
  <2>5. grown.any
    BY <2>3
  <2>6. grown.ended <=> ends
    BY <2>3
  <2> HIDE DEF grown
  <2>7. CASE ~waiting.kept
    <3> DEFINE dropped == [grown EXCEPT !.text = <<>>, !.chars = waiting.chars + len]
    <3>1. heard = dropped
      BY <2>1, <2>7
    <3>2. /\ dropped.newlines = waiting.newlines + more
          /\ dropped.chars = waiting.chars + len
      BY <2>3, <2>4
    <3>3. dropped.any
      BY <2>3, <2>5
    <3>4. dropped.ended <=> ends
      BY <2>3, <2>6
    <3>5. dropped.kept <=> waiting.kept
      BY <2>3, <2>4
    <3> HIDE DEF dropped
    <3>6. size(waiting).lines > MaxLines \/ size(waiting).chars > MaxChars
      BY <2>7 DEF verdict
    <3>7. size(waiting).chars = waiting.chars /\ size(dropped).chars = waiting.chars + len
      BY <3>2 DEF size
    <3>8. size(waiting).lines \in Nat /\ size(waiting).lines <= waiting.newlines + 1
          /\ size(waiting).lines \in {waiting.newlines, waiting.newlines + 1}
      BY <2>3 DEF size
    <3>9. size(dropped).lines = waiting.newlines + more + (IF ends THEN 0 ELSE 1)
      BY <3>2, <3>3, <3>4 DEF size
    <3>10. size(dropped).lines >= size(waiting).lines /\ size(dropped).lines \in Nat
      BY <2>2, <2>3, <3>8, <3>9
    <3>11. size(dropped).lines > MaxLines \/ size(dropped).chars > MaxChars
      BY <2>2, <2>3, <3>6, <3>7, <3>8, <3>10, ThresholdAssumption
    <3>12. verdict(size(dropped)) = "TooBig"
      BY <3>11 DEF verdict
    <3> QED BY <2>7, <3>1, <3>5, <3>12 DEF heard
  <2>8. CASE waiting.kept /\ verdict(size(grown)) = "TooBig"
    <3> DEFINE dropped == [grown EXCEPT !.kept = FALSE, !.text = <<>>]
    <3>1. heard = dropped
      BY <2>1, <2>8
    <3>2. ~dropped.kept
      BY <2>3
    <3>3. dropped.newlines = grown.newlines /\ dropped.chars = grown.chars
      BY <2>3
    <3>4. (dropped.any <=> grown.any) /\ (dropped.ended <=> grown.ended)
      BY <2>3
    <3> HIDE DEF dropped
    <3>5. size(dropped) = size(grown)
      BY <3>3, <3>4 DEF size
    <3> QED BY <2>8, <3>1, <3>2, <3>5 DEF heard
  <2>9. CASE waiting.kept /\ verdict(size(grown)) # "TooBig"
    <3>1. heard = grown /\ verdict(size(grown)) = "Auto"
      BY <2>1, <2>9 DEF verdict
    <3> QED BY <2>4, <2>9, <3>1 DEF heard
  <2> QED BY <2>7, <2>8, <2>9
<1> QED BY <1>1, <1>2

\* A row that arrives is accounted for.
LEMMA AccountsTells ==
  ASSUME Typed, Accounts(unspoken, owed), NEW chunk \in Chunks
  PROVE  Accounts(Heard(chunk), owed \o NewText(chunk))
<1> DEFINE sep   == Separated(chunk)
           new   == NewText(chunk)
           heard == push(unspoken, sep)
<1>1. told \in Seq(Told) /\ unspoken \in UnspokenText /\ owed \in Seq(Token) /\ unspoken.text \in Text
  BY DEF Typed, IInv, TypeOK, Text, UnspokenText
<1>2. sep \in Text
  BY <1>1, RowText, PieceIs
<1>3. Only(unspoken.text \o sep, Printed) = Only(unspoken.text, Printed) \o new
  BY <1>1, OnlyOfPiece
<1>4. heard.kept <=> verdict(size(heard)) = "Auto"
  BY <1>1, <1>2, PushVerdict DEF Accounts
<1>5. sep = <<>> => new = <<>>
  <2>1. new = <<>> \/ new = <<Len(told) + 1>>
    BY DEF NewText
  <2>2. sep = new \/ sep = <<NL>> \o new
    BY DEF Separated
  <2> HIDE DEF sep, new
  <2>3. <<NL>> \o <<>> = <<NL>> /\ <<NL>> \o <<Len(told) + 1>> = <<NL, Len(told) + 1>>
    BY Pair
  <2> QED BY <2>1, <2>2, <2>3
<1>6. owed \o <<>> = owed
  BY <1>1, ConcatEmptySeq
<1> HIDE DEF sep, new
<1>7. CASE sep = <<>>
  BY <1>5, <1>6, <1>7 DEF Accounts, Heard, push, sep, new
<1>8. CASE sep # <<>>
  <2>1. heard.kept => Only(heard.text, Printed) = owed \o new
    <3> SUFFICES ASSUME heard.kept PROVE Only(heard.text, Printed) = owed \o new
      OBVIOUS
    <3>1. heard.text = unspoken.text \o sep /\ unspoken.kept
      BY <1>1, <1>2, <1>8, PushedIsKept
    <3> QED BY <1>3, <3>1 DEF Accounts
  <2>2. heard.any
    BY <1>1, <1>2, <1>8, PushType
  <2> QED BY <1>4, <2>1, <2>2 DEF Accounts, Heard, sep, new
<1> QED BY <1>7, <1>8

\* The empty accumulator stands for nothing.
LEMMA NothingAccounts == Accounts(NothingUnspoken, <<>>)
<1>1. NothingUnspoken.kept /\ NothingUnspoken.text = <<>>
  BY DEF NothingUnspoken
<1>2. size(NothingUnspoken).lines = 0 /\ size(NothingUnspoken).chars = 0
  BY DEF NothingUnspoken, size
<1>3. verdict(size(NothingUnspoken)) = "Auto"
  BY <1>2, ThresholdAssumption DEF verdict
<1> QED BY <1>1, <1>3, OnlyOfNone DEF Accounts

\* The accumulator stands for exactly the tokens no verdict was given on, and
\* it drops their text only when the verdict on them can only be "too big".
THEOREM NoTokenIsLost == Spec => []NothingSpokenIsLost
<1>1. Init => Accounts(unspoken, owed)
  BY NothingAccounts DEF Init
<1>2. ASSUME Typed, Accounts(unspoken, owed), [Next]_vars
      PROVE  Accounts(unspoken', owed')
  <2>1. CASE Starts
    BY <2>1, NothingAccounts DEF Starts, Fresh
  <2>2. ASSUME NEW action, NEW rows, NEW heard, NEW undecided, NEW shown, NEW said,
               Does(action, rows, heard, undecided, shown, said), Accounts(heard, undecided)
        PROVE  Accounts(unspoken', owed')
    BY <2>2, NothingAccounts DEF Does
  <2>3. ASSUME UNCHANGED <<unspoken, owed>>
        PROVE  Accounts(unspoken', owed')
    BY <1>2, <2>3
  <2>4. ASSUME NEW shown \in Seq(Row), NEW said \in Seq(Sent), Step(shown, said)
        PROVE  Accounts(unspoken', owed')
    <3>1. ASSUME NEW chunk \in Chunks, NEW action \in PacingAction, Tells(chunk, shown, said, action)
          PROVE  Accounts(unspoken', owed')
      BY <1>2, <2>2, <2>3, <3>1, AccountsTells DEF Tells
    <3>2. ASSUME NEW action \in PacingAction, Wakes(shown, said, action)
          PROVE  Accounts(unspoken', owed')
      BY <1>2, <2>2, <3>2 DEF Wakes
    <3>3. CASE SendsRows(shown, said) \/ LeavesAlone(shown, said)
      BY <2>3, <3>3 DEF SendsRows, LeavesAlone, command
    <3>4. ASSUME NEW terminal, NEW last, NEW action, Ends(said, last, terminal, action)
          PROVE  Accounts(unspoken', owed')
      BY <3>4, NothingAccounts DEF Ends, Fresh
    <3> QED BY <2>4, <3>1, <3>2, <3>3, <3>4 DEF Step
  <2> QED BY <1>2, <2>1, <2>4, StepAdds
<1>3. Typed /\ Accounts(unspoken, owed) /\ [Next]_vars => Accounts(unspoken, owed)'
  BY <1>2
<1>4. Accounts(unspoken, owed) => NothingSpokenIsLost
  BY DEF Accounts, NothingSpokenIsLost, Printed
<1> QED BY <1>1, <1>3, <1>4, StreamTyped, PTL DEF Spec

-----------------------------------------------------------------------------
(***************************************************************************)
(* What a line says in the results buffer.                                 *)
(***************************************************************************)
\* A buffer with one row for each of its lines.
Wire    == Row \cup Told
Buffers == {b \in [order : Seq(Lines), text : Seq(Text)] :
               /\ Len(b.order) = Len(b.text)
               /\ \A i, j \in 1..Len(b.order) : b.order[i] = b.order[j] => i = j}

\* In such a buffer the text of a line is that of its row.
LEMMA TextAt ==
  ASSUME NEW b \in Buffers
  PROVE  /\ \A i \in 1..Len(b.order) : TextOf(b, b.order[i]) = b.text[i]
         /\ \A line : (\A i \in 1..Len(b.order) : b.order[i] # line) => TextOf(b, line) = <<>>
         /\ \A line : TextOf(b, line) \in Text
<1>1. /\ b.order \in Seq(Lines) /\ b.text \in Seq(Text) /\ Len(b.order) = Len(b.text)
      /\ \A i, j \in 1..Len(b.order) : b.order[i] = b.order[j] => i = j
  BY DEF Buffers
<1>2. DOMAIN b.order = 1..Len(b.order)
  BY <1>1
<1>3. ASSUME NEW i \in 1..Len(b.order) PROVE TextOf(b, b.order[i]) = b.text[i]
  <2> DEFINE at1 == CHOOSE j \in DOMAIN b.order : b.order[j] = b.order[i]
  <2>1. at1 \in DOMAIN b.order /\ b.order[at1] = b.order[i]
    BY <1>2
  <2>2. at1 = i
    BY <1>1, <1>2, <2>1
  <2>3. TextOf(b, b.order[i]) = b.text[at1]
    BY DEF TextOf, Contains
  <2> QED BY <2>2, <2>3
<1>4. \A line : (\A i \in 1..Len(b.order) : b.order[i] # line) => TextOf(b, line) = <<>>
  BY DEF TextOf, Contains
<1>5. \A i \in 1..Len(b.order) : b.text[i] \in Text
  BY <1>1
<1>6. <<>> \in Text
  BY DEF Text
<1> QED BY <1>3, <1>4, <1>5, <1>6

\* What a row makes of the text of a line.
Revised(text, row, line) ==
    IF row.line # line THEN text
    ELSE IF row.revision = "Appended" THEN text \o row.text ELSE row.text

\* Applying a row revises the text of its line and of no other.
LEMMA ApplyLineIs ==
  ASSUME NEW b \in Buffers, NEW row \in Wire
  PROVE  /\ applyLine(b, row) \in Buffers
         /\ \A line : TextOf(applyLine(b, row), line) = Revised(TextOf(b, line), row, line)
<1> DEFINE order == b.order
           text  == b.text
           n     == Len(order)
           l     == row.line
           more  == row.text
           c     == applyLine(b, row)
<1>1. /\ order \in Seq(Lines) /\ text \in Seq(Text) /\ n = Len(text) /\ n = Len(order) /\ n \in Nat
      /\ \A i, j \in 1..n : order[i] = order[j] => i = j
      /\ l \in Lines /\ more \in Text
  BY DEF Buffers, Wire, Row, Told
<1>2. /\ DOMAIN order = 1..n /\ DOMAIN text = 1..n
  BY <1>1
<1>3. \A i \in 1..n : TextOf(b, order[i]) = text[i]
  BY TextAt
<1>4. \A line : (\A i \in 1..n : order[i] # line) => TextOf(b, line) = <<>>
  BY TextAt
<1>5. CASE \A i \in 1..n : order[i] # l
  <2> DEFINE o == Append(order, l)
             t == Append(text, more)
  <2>1. c = [order |-> o, text |-> t]
    BY <1>5 DEF applyLine, Contains
  <2> HIDE DEF c
  <2>2. /\ o \in Seq(Lines) /\ t \in Seq(Text) /\ Len(o) = n + 1 /\ Len(t) = n + 1
        /\ \A i \in 1..n : i \in 1..(n + 1) /\ o[i] = order[i] /\ t[i] = text[i]
        /\ o[n + 1] = l /\ t[n + 1] = more
        /\ \A i \in 1..(n + 1) : i \in 1..n \/ i = n + 1
    <3> HIDE DEF order, text, n, l, more
    <3>1. /\ o \in Seq(Lines) /\ Len(o) = n + 1 /\ o[n + 1] = l
          /\ \A i \in 1..n : o[i] = order[i]
      BY <1>1
    <3>2. /\ t \in Seq(Text) /\ Len(t) = n + 1 /\ t[n + 1] = more
          /\ \A i \in 1..n : t[i] = text[i]
      <4>1. text \in Seq(Text) /\ more \in Text /\ n = Len(text)
        BY <1>1
      <4>2. /\ t \in Seq(Text) /\ Len(t) = Len(text) + 1 /\ t[Len(text) + 1] = more
            /\ \A i \in 1..Len(text) : t[i] = text[i]
        BY <4>1, AppendProperties
      <4> HIDE DEF t
      <4> QED BY <4>1, <4>2
    <3>3. \A i \in 1..n : i \in 1..(n + 1)
      BY <1>1
    <3>4. \A i \in 1..(n + 1) : i \in 1..n \/ i = n + 1
      BY <1>1
    <3> HIDE DEF o, t
    <3> QED BY <3>1, <3>2, <3>3, <3>4
  <2> HIDE DEF o, t, order, text, n, l, more
  <2>3. c.order = o /\ c.text = t
    BY <2>1
  <2>4. \A i, j \in 1..(n + 1) : o[i] = o[j] => i = j
    BY <1>1, <1>5, <2>2
  <2>5. c \in Buffers
    BY <2>1, <2>2, <2>4 DEF Buffers
  <2>6. /\ \A i \in 1..(n + 1) : TextOf(c, o[i]) = t[i]
        /\ \A line : (\A i \in 1..(n + 1) : o[i] # line) => TextOf(c, line) = <<>>
    BY <2>2, <2>3, <2>5, TextAt
  <2>7. <<>> \o more = more
    BY <1>1, ConcatEmptySeq DEF Text
  <2>8. ASSUME NEW line PROVE TextOf(c, line) = Revised(TextOf(b, line), row, line)
    <3>1. CASE line = l
      <4>1. TextOf(c, line) = more
        BY <1>1, <2>2, <2>6, <3>1
      <4>2. TextOf(b, line) = <<>>
        BY <1>4, <1>5, <3>1
      <4> QED BY <2>7, <3>1, <4>1, <4>2 DEF Revised, l, more
    <3>2. CASE line # l
      <4>1. Revised(TextOf(b, line), row, line) = TextOf(b, line)
        BY <3>2 DEF Revised, l
      <4>2. ASSUME NEW i \in 1..n, order[i] = line PROVE TextOf(c, line) = TextOf(b, line)
        BY <1>3, <2>2, <2>6, <4>2
      <4>3. CASE \A i \in 1..n : order[i] # line
        <5>1. \A i \in 1..(n + 1) : o[i] # line
          BY <2>2, <3>2, <4>3
        <5>2. TextOf(c, line) = <<>> /\ TextOf(b, line) = <<>>
          BY <1>4, <2>6, <4>3, <5>1
        <5> QED BY <4>1, <5>2
      <4> QED BY <4>1, <4>2, <4>3
    <3> QED BY <3>1, <3>2
  <2> QED BY <2>5, <2>8 DEF c
<1>6. ASSUME NEW k \in 1..n, order[k] = l
      PROVE  c \in Buffers /\ \A line : TextOf(c, line) = Revised(TextOf(b, line), row, line)
  <2> DEFINE at1 == CHOOSE i \in DOMAIN b.order : b.order[i] = row.line
             new == IF row.revision = "Appended" THEN text[k] \o more ELSE more
             t   == [text EXCEPT ![k] = new]
  <2>1. at1 \in 1..n /\ order[at1] = l
    BY <1>2, <1>6
  <2>2. at1 = k
    BY <1>1, <1>6, <2>1
  <2>3. c = [b EXCEPT !.text[at1] = IF row.revision = "Appended" THEN @ \o row.text ELSE row.text]
    BY <1>6 DEF applyLine, Contains
  <2>4. b = [order |-> order, text |-> text]
    BY DEF Buffers
  <2>5. c = [b EXCEPT !.text = t]
    BY <2>2, <2>3
  <2>6. new \in Text
    <3>1. text[k] \in Text
      BY <1>1
    <3>2. text[k] \o more \in Text
      BY <1>1, <3>1 DEF Text
    <3> QED BY <1>1, <3>2
  <2> HIDE DEF at1, c, new
  <2>7. /\ t \in Seq(Text) /\ Len(t) = n /\ t[k] = new
        /\ \A i \in 1..n : i # k => t[i] = text[i]
    <3> HIDE DEF order, text, n, l, more
    <3>1. k \in DOMAIN text
      BY <1>2
    <3> QED BY <1>1, <1>2, <2>6, ExceptSeq
  <2> HIDE DEF t
  <2>8. c.order = order /\ c.text = t /\ c \in [order : Seq(Lines), text : Seq(Text)]
    BY <1>1, <2>4, <2>5, <2>7
  <2> HIDE DEF order, text, n, l, more
  <2>9. c \in Buffers
    BY <1>1, <2>7, <2>8 DEF Buffers
  <2>10. /\ \A i \in 1..n : TextOf(c, order[i]) = t[i]
         /\ \A line : (\A i \in 1..n : order[i] # line) => TextOf(c, line) = <<>>
    BY <1>1, <2>8, <2>9, TextAt
  <2>11. ASSUME NEW line PROVE TextOf(c, line) = Revised(TextOf(b, line), row, line)
    <3>1. CASE line = l
      <4>1. TextOf(c, line) = new /\ TextOf(b, line) = text[k]
        BY <1>3, <1>6, <2>7, <2>10, <3>1
      <4> QED BY <3>1, <4>1 DEF Revised, l, more, new
    <3>2. CASE line # l
      <4>1. Revised(TextOf(b, line), row, line) = TextOf(b, line)
        BY <3>2 DEF Revised, l
      <4>2. ASSUME NEW i \in 1..n, order[i] = line PROVE TextOf(c, line) = TextOf(b, line)
        <5>1. i # k
          BY <1>6, <3>2, <4>2
        <5> QED BY <1>3, <2>7, <2>10, <4>2, <5>1
      <4>3. CASE \A i \in 1..n : order[i] # line
        BY <1>4, <2>10, <4>1, <4>3
      <4> QED BY <4>1, <4>2, <4>3
    <3> QED BY <3>1, <3>2
  <2> QED BY <2>9, <2>11
<1> QED BY <1>5, <1>6

\* The buffer is the fold of its rows: one row more is one row applied.
Applies == [p \in Buffers \X Wire |-> applyLine(p[1], p[2])]

Applying(f, s, n) ==
    f = [x \in SUBSET (1..n) |->
            IF x = {} THEN NoRows ELSE applyLine(f[x \ {Max(x)}], s[Max(x)])]

\* Buffered is such a fold.
LEMMA BufferedIsTheFold ==
  ASSUME NEW s, NEW n, DOMAIN s = 1..n
  PROVE  Buffered(s) = (CHOOSE f : Applying(f, s, n))[1..n]
BY DEF Buffered, FoldLeft, MapThenFoldSet, Applying

BufferedAlong(h, s) ==
    /\ Chain(h, Applies, NoRows, Len(s), s)
    /\ Buffered(s) = h[Len(s)] /\ h[Len(s)] \in Buffers

\* The buffers after each row make a chain.
LEMMA BufferedIsChain ==
  ASSUME NEW s \in Seq(Wire)
  PROVE  \E h : BufferedAlong(h, s)
<1> DEFINE n == Len(s)
           F == Applies
           b == NoRows
           f == CHOOSE g : Applying(g, s, n)
           h == Values(f, n)
<1>1. n \in Nat /\ DOMAIN s = 1..n /\ \A i \in 1..n : s[i] \in Wire
  OBVIOUS
<1>2. \A a \in Buffers, e \in Wire : /\ F[<<a, e>>] = applyLine(a, e)
                                     /\ F[<<a, e>>] \in Buffers
  BY ApplyLineIs DEF Applies
<1>3. F \in [Buffers \X Wire -> Buffers] /\ b \in Buffers
  <2>1. F \in [Buffers \X Wire -> Buffers]
    BY ApplyLineIs DEF Applies
  <2>2. b \in Buffers
    BY DEF NoRows, Buffers
  <2> QED BY <2>1, <2>2
<1> HIDE DEF F, n
<1>4. PICK g \in [SUBSET (1..n) -> Buffers] : Folded(g, F, b, n, s)
  <2> HIDE DEF b
  <2> QED BY <1>1, <1>3, FoldExists
<1>5. ASSUME NEW x \in SUBSET (1..n), x # {}
      PROVE  /\ Max(x) \in 1..n /\ g[x \ {Max(x)}] \in Buffers
             /\ F[<<g[x \ {Max(x)}], s[Max(x)]>>] = applyLine(g[x \ {Max(x)}], s[Max(x)])
  <2>1. Max(x) \in x
    BY <1>1, <1>5, GreatestOf
  <2>2. s[Max(x)] \in Wire /\ x \ {Max(x)} \in SUBSET (1..n)
    BY <1>1, <2>1
  <2>3. g[x \ {Max(x)}] \in Buffers
    BY <2>2
  <2> QED BY <1>2, <2>1, <2>2, <2>3
<1>6. Applying(g, s, n)
  <2>1. g = [x \in SUBSET (1..n) |-> g[x]]
    OBVIOUS
  <2> QED BY <1>4, <1>5, <2>1 DEF Applying, Folded
<1>7. Applying(f, s, n)
  BY <1>6
<1> HIDE DEF f
<1>8. f[{}] = b
  BY <1>7 DEF Applying
<1>9. ASSUME NEW k \in 1..n, f[1..(k - 1)] \in Buffers
      PROVE  f[1..k] = F[<<f[1..(k - 1)], s[k]>>]
  <2>1. 1..k \in SUBSET (1..n) /\ 1..k # {} /\ Max(1..k) = k /\ (1..k) \ {k} = 1..(k - 1)
    BY <1>1, UpTo
  <2>2. f[1..k] = applyLine(f[1..(k - 1)], s[k])
    BY <1>7, <2>1 DEF Applying
  <2> QED BY <1>1, <1>2, <1>9, <2>2
<1> HIDE DEF h, b
<1>10. Chain(h, F, b, n, s) /\ \A k \in 0..n : h[k] \in Buffers
  <2>1. FoldGrows(f, F, b, n, s, Buffers)
    BY <1>8, <1>9 DEF FoldGrows
  <2>2. \A i \in 1..n : s[i] \in Wire
    BY <1>1
  <2> QED BY <1>1, <1>3, <2>1, <2>2, FoldIsChain DEF h
<1>11. Buffered(s) = f[1..n]
  BY <1>1, BufferedIsTheFold DEF f
<1>12. Buffered(s) = h[n] /\ n \in 0..n
  BY <1>1, <1>11 DEF h, Values
<1> QED BY <1>10, <1>12 DEF F, n, b, BufferedAlong

\* One row more is one row applied.
LEMMA BufferedAppend ==
  ASSUME NEW s \in Seq(Wire), NEW e \in Wire
  PROVE  Buffered(s) \in Buffers /\ Buffered(Append(s, e)) = applyLine(Buffered(s), e)
<1> DEFINE t == Append(s, e)
           n == Len(s)
<1>1. /\ t \in Seq(Wire) /\ n \in Nat /\ Len(t) = n + 1 /\ t[n + 1] = e
      /\ \A i \in 1..n : s[i] = t[i]
  OBVIOUS
<1> HIDE DEF t, n
<1>2. PICK g : BufferedAlong(g, s)
  BY BufferedIsChain
<1>3. PICK h : BufferedAlong(h, t)
  BY <1>1, BufferedIsChain
<1>4. h[n + 1] = Applies[<<g[n], t[n + 1]>>]
  <2> DEFINE b == NoRows
  <2>1. Chain(g, Applies, b, n, s) /\ Chain(h, Applies, b, n + 1, t)
    BY <1>1, <1>2, <1>3 DEF n, BufferedAlong
  <2>2. n \in Nat /\ \A i \in 1..n : s[i] = t[i]
    BY <1>1
  <2> HIDE DEF b
  <2> QED BY <2>1, <2>2, ChainStep
<1>5. <<g[n], e>> \in Buffers \X Wire
  BY <1>2 DEF BufferedAlong, n
<1>6. Applies[<<g[n], e>>] = applyLine(g[n], e)
  BY <1>5 DEF Applies
<1>7. Buffered(s) = g[n] /\ g[n] \in Buffers /\ Buffered(t) = h[n + 1]
  BY <1>1, <1>2, <1>3 DEF BufferedAlong, n
<1> QED BY <1>1, <1>4, <1>6, <1>7 DEF t

\* What a line says after these rows.
Reads(rows, line) == TextOf(Buffered(rows), line)

\* One row more revises what its line says.
LEMMA ReadsOf ==
  /\ \A line : Reads(<<>>, line) = <<>>
  /\ \A s \in Seq(Wire) : \A e \in Wire : \A line :
        Reads(s, line) \in Text /\ Reads(Append(s, e), line) = Revised(Reads(s, line), e, line)
<1>1. Buffered(<<>>) = NoRows
  <2>1. <<>> \in Seq(Wire) /\ Len(<<>>) = 0
    OBVIOUS
  <2>2. PICK h : BufferedAlong(h, <<>>)
    BY <2>1, BufferedIsChain
  <2> QED BY <2>1, <2>2 DEF BufferedAlong, Chain
<1>2. \A line : TextOf(NoRows, line) = <<>>
  BY DEF NoRows, TextOf, Contains
<1>3. ASSUME NEW s \in Seq(Wire), NEW e \in Wire, NEW line
      PROVE  Reads(s, line) \in Text /\ Reads(Append(s, e), line) = Revised(Reads(s, line), e, line)
  <2>1. Buffered(s) \in Buffers /\ Buffered(Append(s, e)) = applyLine(Buffered(s), e)
    BY <1>3, BufferedAppend
  <2>2. TextOf(Buffered(s), line) \in Text
    BY <2>1, TextAt
  <2>3. TextOf(applyLine(Buffered(s), e), line) = Revised(TextOf(Buffered(s), line), e, line)
    BY <1>3, <2>1, ApplyLineIs
  <2> QED BY <2>1, <2>2, <2>3 DEF Reads
<1> QED BY <1>1, <1>2, <1>3 DEF Reads

-----------------------------------------------------------------------------
\* The step of the fold RowsOf is, as a function of the two it takes.
Outputs == [p \in Seq(Row) \X Sent |->
               IF p[2].kind = "Output" THEN Append(p[1], p[2].row) ELSE p[1]]

Collecting(f, s, n) ==
    f = [x \in SUBSET (1..n) |->
            IF x = {} THEN <<>>
            ELSE IF s[Max(x)].kind = "Output" THEN Append(f[x \ {Max(x)}], s[Max(x)].row)
                                              ELSE f[x \ {Max(x)}]]

\* RowsOf is such a fold.
LEMMA RowsOfIsTheFold ==
  ASSUME NEW s, NEW n, DOMAIN s = 1..n
  PROVE  RowsOf(s) = (CHOOSE f : Collecting(f, s, n))[1..n]
BY DEF RowsOf, FoldLeft, MapThenFoldSet, Collecting

RowsAlong(h, s) ==
    /\ Chain(h, Outputs, <<>>, Len(s), s)
    /\ RowsOf(s) = h[Len(s)] /\ h[Len(s)] \in Seq(Row)

\* The rows collected so far make a chain.
LEMMA RowsOfIsChain ==
  ASSUME NEW s \in Seq(Sent)
  PROVE  \E h : RowsAlong(h, s)
<1> DEFINE n == Len(s)
           A == Seq(Row)
           F == Outputs
           b == <<>>
           f == CHOOSE g : Collecting(g, s, n)
           h == Values(f, n)
<1>1. n \in Nat /\ DOMAIN s = 1..n /\ \A i \in 1..n : s[i] \in Sent
  OBVIOUS
<1>2. \A a \in A, e \in Sent : /\ F[<<a, e>>] = IF e.kind = "Output" THEN Append(a, e.row) ELSE a
                               /\ F[<<a, e>>] \in A
  <2> SUFFICES ASSUME NEW a \in A, NEW e \in Sent
               PROVE  /\ F[<<a, e>>] = IF e.kind = "Output" THEN Append(a, e.row) ELSE a
                      /\ F[<<a, e>>] \in A
    OBVIOUS
  <2>1. F[<<a, e>>] = IF e.kind = "Output" THEN Append(a, e.row) ELSE a
    BY DEF Outputs
  <2>2. e.kind = "Output" => e.row \in Row
    BY DEF Sent, Plain, Terminal, Passed, Paced
  <2> QED BY <2>1, <2>2
<1>3. F \in [A \X Sent -> A] /\ b \in A
  <2>1. DOMAIN F = A \X Sent /\ F = [p \in DOMAIN F |-> F[p]]
    BY DEF Outputs
  <2> HIDE DEF F, A
  <2>2. \A p \in A \X Sent : F[p] \in A
    BY <1>2
  <2>3. b \in A
    BY DEF A
  <2> QED BY <2>1, <2>2, <2>3
<1> HIDE DEF F, n, A
<1>4. PICK g \in [SUBSET (1..n) -> A] : Folded(g, F, b, n, s)
  <2> HIDE DEF b
  <2> QED BY <1>1, <1>3, FoldExists
<1>5. ASSUME NEW x \in SUBSET (1..n), x # {}
      PROVE  /\ Max(x) \in 1..n /\ g[x \ {Max(x)}] \in A
             /\ F[<<g[x \ {Max(x)}], s[Max(x)]>>]
                  = IF s[Max(x)].kind = "Output" THEN Append(g[x \ {Max(x)}], s[Max(x)].row)
                                                 ELSE g[x \ {Max(x)}]
  <2>1. Max(x) \in x
    BY <1>1, <1>5, GreatestOf
  <2>2. s[Max(x)] \in Sent /\ x \ {Max(x)} \in SUBSET (1..n)
    BY <1>1, <2>1
  <2>3. g[x \ {Max(x)}] \in A
    BY <2>2
  <2> QED BY <1>2, <2>1, <2>2, <2>3
<1>6. Collecting(g, s, n)
  <2>1. g = [x \in SUBSET (1..n) |-> g[x]]
    OBVIOUS
  <2> QED BY <1>4, <1>5, <2>1 DEF Collecting, Folded
<1>7. Collecting(f, s, n)
  BY <1>6
<1> HIDE DEF f
<1>8. f[{}] = b
  BY <1>7 DEF Collecting
<1>9. ASSUME NEW k \in 1..n, f[1..(k - 1)] \in A
      PROVE  f[1..k] = F[<<f[1..(k - 1)], s[k]>>]
  <2>1. 1..k \in SUBSET (1..n) /\ 1..k # {} /\ Max(1..k) = k /\ (1..k) \ {k} = 1..(k - 1)
    BY <1>1, UpTo
  <2>2. f[1..k] = IF s[k].kind = "Output" THEN Append(f[1..(k - 1)], s[k].row) ELSE f[1..(k - 1)]
    BY <1>7, <2>1 DEF Collecting
  <2> QED BY <1>1, <1>2, <1>9, <2>2
<1> HIDE DEF h, b
<1>10. Chain(h, F, b, n, s) /\ \A k \in 0..n : h[k] \in A
  <2>1. FoldGrows(f, F, b, n, s, A)
    BY <1>8, <1>9 DEF FoldGrows
  <2>2. \A i \in 1..n : s[i] \in Sent
    BY <1>1
  <2> QED BY <1>1, <1>3, <2>1, <2>2, FoldIsChain DEF h
<1>11. RowsOf(s) = f[1..n]
  BY <1>1, RowsOfIsTheFold DEF f
<1>12. RowsOf(s) = h[n] /\ n \in 0..n
  BY <1>1, <1>11 DEF h, Values
<1> QED BY <1>10, <1>12 DEF F, n, b, A, RowsAlong

\* One event more is a row more, or it is not.
LEMMA RowsOfAppend ==
  ASSUME NEW s \in Seq(Sent), NEW e \in Sent
  PROVE  /\ RowsOf(s) \in Seq(Row)
         /\ RowsOf(Append(s, e)) = IF e.kind = "Output" THEN Append(RowsOf(s), e.row) ELSE RowsOf(s)
<1> DEFINE t == Append(s, e)
           n == Len(s)
<1>1. /\ t \in Seq(Sent) /\ n \in Nat /\ Len(t) = n + 1 /\ t[n + 1] = e
      /\ \A i \in 1..n : s[i] = t[i]
  OBVIOUS
<1> HIDE DEF t, n
<1>2. PICK g : RowsAlong(g, s)
  BY RowsOfIsChain
<1>3. PICK h : RowsAlong(h, t)
  BY <1>1, RowsOfIsChain
<1>4. h[n + 1] = Outputs[<<g[n], t[n + 1]>>]
  <2> DEFINE b == <<>>
  <2>1. Chain(g, Outputs, b, n, s) /\ Chain(h, Outputs, b, n + 1, t)
    BY <1>1, <1>2, <1>3 DEF n, RowsAlong
  <2>2. n \in Nat /\ \A i \in 1..n : s[i] = t[i]
    BY <1>1
  <2> HIDE DEF b
  <2> QED BY <2>1, <2>2, ChainStep
<1>5. <<g[n], e>> \in Seq(Row) \X Sent
  BY <1>2 DEF RowsAlong, n
<1>6. Outputs[<<g[n], e>>] = IF e.kind = "Output" THEN Append(g[n], e.row) ELSE g[n]
  BY <1>5 DEF Outputs
<1>7. RowsOf(s) = g[n] /\ g[n] \in Seq(Row) /\ RowsOf(t) = h[n + 1]
  BY <1>1, <1>2, <1>3 DEF RowsAlong, n
<1> QED BY <1>1, <1>4, <1>6, <1>7 DEF t

\* No events, no rows.
LEMMA RowsOfNone == RowsOf(<<>>) = <<>>
<1>1. <<>> \in Seq(Sent) /\ Len(<<>>) = 0
  OBVIOUS
<1>2. PICK h : RowsAlong(h, <<>>)
  BY <1>1, RowsOfIsChain
<1> QED BY <1>1, <1>2 DEF RowsAlong, Chain

\* Rows become events, and the rows among those events are the rows.
LEMMA RowsOfRows ==
  ASSUME NEW s \in Seq(Sent), NEW rows \in Seq(Row)
  PROVE  RowsOf(s \o OutputEvents(rows)) = RowsOf(s) \o rows
<1> DEFINE P == {q \in Seq(Row) : RowsOf(s \o OutputEvents(q)) = RowsOf(s) \o q}
<1>1. RowsOf(s) \in Seq(Row)
  <2>1. Event("FarEndLine") \in Sent
    BY DEF Event, Sent, Plain
  <2> QED BY <2>1, RowsOfAppend
<1>2. <<>> \in P
  <2>1. OutputEvents(<<>>) = <<>> /\ s \o <<>> = s /\ RowsOf(s) \o <<>> = RowsOf(s)
        /\ <<>> \in Seq(Row)
    BY <1>1, ConcatEmptySeq DEF OutputEvents
  <2> QED BY <2>1
<1>3. ASSUME NEW q \in Seq(Row), NEW e \in Row, q \in P
      PROVE  Append(q, e) \in P
  <2> DEFINE more == OutputEvents(q)
             news == OutputEvent(e)
             all  == Append(q, e)
             some == RowsOf(s)
  <2>1. more \in Seq(Sent) /\ Len(more) = Len(q) /\ \A i \in 1..Len(q) : more[i] = OutputEvent(q[i])
    BY OutputEventsAre
  <2>2. news \in Sent /\ news.kind = "Output" /\ news.row = e
    BY DEF OutputEvent, Sent
  <2>3. /\ all \in Seq(Row) /\ Len(all) = Len(q) + 1 /\ all[Len(q) + 1] = e /\ Len(q) \in Nat
        /\ \A i \in 1..Len(q) : all[i] = q[i]
    OBVIOUS
  <2>4. /\ OutputEvents(all) \in Seq(Sent) /\ Len(OutputEvents(all)) = Len(q) + 1
        /\ \A i \in 1..(Len(q) + 1) : OutputEvents(all)[i] = OutputEvent(all[i])
    BY <2>3, OutputEventsAre
  <2> HIDE DEF more, all
  <2>5. OutputEvents(all) = Append(more, news)
    <3>1. /\ Append(more, news) \in Seq(Sent) /\ Len(Append(more, news)) = Len(q) + 1
          /\ Append(more, news)[Len(q) + 1] = news
          /\ \A i \in 1..Len(q) : Append(more, news)[i] = more[i]
      BY <2>1, <2>2
    <3>2. \A i \in 1..(Len(q) + 1) : i \in 1..Len(q) \/ i = Len(q) + 1
      BY <2>3
    <3>3. \A i \in 1..(Len(q) + 1) : OutputEvents(all)[i] = Append(more, news)[i]
      BY <2>1, <2>3, <2>4, <3>1, <3>2
    <3> QED BY <2>4, <3>1, <3>3, SeqEqual
  <2> HIDE DEF news, some
  <2>6. s \o Append(more, news) = Append(s \o more, news) /\ s \o more \in Seq(Sent)
    BY <2>1, <2>2, ConcatAppend
  <2>7. RowsOf(Append(s \o more, news)) = Append(RowsOf(s \o more), e)
    <3> DEFINE u == s \o more
    <3>1. u \in Seq(Sent)
      BY <2>6
    <3> HIDE DEF u
    <3>2. RowsOf(Append(u, news)) = Append(RowsOf(u), e)
      BY <2>2, <3>1, RowsOfAppend
    <3> QED BY <3>2 DEF u
  <2>8. RowsOf(s \o more) = some \o q
    BY <1>3 DEF more, some
  <2>9. some \o all = Append(some \o q, e)
    <3>1. some \in Seq(Row)
      BY <1>1 DEF some
    <3>2. some \o Append(q, e) = Append(some \o q, e)
      BY <3>1, ConcatAppend
    <3> QED BY <3>2 DEF all
  <2>10. RowsOf(s \o OutputEvents(all)) = some \o all
    BY <2>5, <2>6, <2>7, <2>8, <2>9
  <2> QED BY <2>3, <2>10 DEF all, some
<1> HIDE DEF P
<1>4. Seq(Row) \subseteq P
  BY <1>2, <1>3, OneMore
<1> QED BY <1>4 DEF P

\* Events that are no rows leave the rows among the events as they are.
LEMMA RowsOfOthers ==
  ASSUME NEW s \in Seq(Sent), NEW said \in Seq(Sent),
         \A i \in 1..Len(said) : said[i].kind # "Output"
  PROVE  RowsOf(s \o said) = RowsOf(s)
<1> DEFINE E == {e \in Sent : e.kind # "Output"}
           P == {q \in Seq(E) : RowsOf(s \o q) = RowsOf(s)}
<1>1. E \subseteq Sent
  OBVIOUS
<1>2. \A e \in E : e.kind # "Output"
  OBVIOUS
<1>3. said \in Seq(E)
  <2>1. \A i \in 1..Len(said) : said[i] \in E
    OBVIOUS
  <2> HIDE DEF E
  <2> QED BY <2>1
<1> HIDE DEF E
<1>4. <<>> \in P
  BY ConcatEmptySeq
<1>5. ASSUME NEW q \in Seq(E), NEW e \in E, q \in P
      PROVE  Append(q, e) \in P
  <2> DEFINE u == s \o q
  <2>1. q \in Seq(Sent) /\ e \in Sent /\ e.kind # "Output" /\ Append(q, e) \in Seq(E)
    BY <1>1, <1>2
  <2>2. s \o Append(q, e) = Append(u, e) /\ u \in Seq(Sent)
    BY <2>1, ConcatAppend
  <2>3. RowsOf(u) = RowsOf(s)
    BY <1>5
  <2> HIDE DEF u
  <2>4. RowsOf(Append(u, e)) = RowsOf(u)
    BY <2>1, <2>2, RowsOfAppend
  <2> QED BY <2>1, <2>2, <2>3, <2>4
<1> HIDE DEF P
<1>6. Seq(E) \subseteq P
  BY <1>4, <1>5, OneMore
<1> QED BY <1>3, <1>6 DEF P

\* A step sends the rows it shows and no others.
LEMMA RowsAdded ==
  ASSUME sent \in Seq(Sent), NEW shown \in Seq(Row), NEW said \in Seq(Sent),
         Adds(shown, said), \A i \in 1..Len(said) : said[i].kind # "Output"
  PROVE  RowsOf(sent') = RowsOf(sent) \o shown
<1> DEFINE u == sent \o OutputEvents(shown)
<1>1. RowsOf(u) = RowsOf(sent) \o shown
  BY RowsOfRows
<1>2. u \in Seq(Sent)
  <2>1. OutputEvents(shown) \in Seq(Sent)
    BY OutputEventsAre
  <2> QED BY <2>1, ConcatProperties
<1>3. sent' = u \o said
  BY DEF Adds
<1> HIDE DEF u
<1>4. RowsOf(u \o said) = RowsOf(u)
  BY <1>2, RowsOfOthers
<1> QED BY <1>1, <1>3, <1>4

\* What a step says is no row.
LEMMA StepSaysNoRows ==
  ASSUME NEW shown \in Seq(Row), NEW said \in Seq(Sent), Step(shown, said)
  PROVE  \A i \in 1..Len(said) : said[i].kind # "Output"
<1>1. ASSUME NEW some, NEW action, NEW heard, Says(some, action, heard)
      PROVE  \A i \in 1..Len(some) : some[i].kind # "Output"
  <2>1. "Output" \notin Speech
    BY DEF Speech, Paced
  <2> QED BY <1>1, <2>1 DEF Says
<1>2. ASSUME NEW chunk \in Chunks, NEW action \in PacingAction, Tells(chunk, shown, said, action)
      PROVE  \A i \in 1..Len(said) : said[i].kind # "Output"
  <2>1. CASE chunk.spoken
    BY <1>1, <1>2, <2>1 DEF Tells, Does
  <2>2. CASE ~chunk.spoken
    <3>1. said = <<>>
      BY <1>2, <2>2 DEF Tells
    <3> QED BY <3>1
  <2> QED BY <2>1, <2>2
<1>3. ASSUME NEW terminal \in Terminal, NEW last \in Seq(Sent), NEW action,
             Ends(said, last, terminal, action)
      PROVE  \A i \in 1..Len(said) : said[i].kind # "Output"
  <2>1. /\ Len(last) \in Nat /\ Len(said) \in {Len(last) + 1, Len(last) + 2}
        /\ \A i \in 1..Len(last) : said[i] = last[i]
        /\ said[Len(last) + 1].kind = terminal
        /\ Len(said) = Len(last) + 2 => said[Len(last) + 2].kind = "Failed"
    BY <1>3 DEF Ends
  <2>2. \A i \in 1..Len(last) : last[i].kind # "Output"
    BY <1>1, <1>3 DEF Ends
  <2>3. terminal # "Output"
    BY DEF Terminal
  <2>4. \A i \in 1..Len(said) :
           \/ i \in 1..Len(last) \/ i = Len(last) + 1
           \/ i = Len(last) + 2 /\ Len(said) = Len(last) + 2
    BY <2>1
  <2> QED BY <2>1, <2>2, <2>3, <2>4
<1>4. CASE SendsRows(shown, said)
  BY <1>4 DEF SendsRows
<1>5. ASSUME NEW action \in PacingAction, Wakes(shown, said, action)
      PROVE  \A i \in 1..Len(said) : said[i].kind # "Output"
  BY <1>1, <1>5 DEF Wakes, Does
<1>6. CASE LeavesAlone(shown, said)
  BY <1>6 DEF LeavesAlone, Passed
<1> QED BY <1>2, <1>3, <1>4, <1>5, <1>6 DEF Step

\* One row more, after the rows of the buffer and those that wait.
LEMMA ReadsAppend ==
  ASSUME NEW p \in Seq(Row), NEW q \in Seq(Row), NEW row \in Row, NEW line
  PROVE  /\ Reads(p \o Append(q, row), line) = Revised(Reads(p \o q, line), row, line)
         /\ Reads(p \o q, line) \in Text
<1> DEFINE u == p \o q
<1>1. p \o Append(q, row) = Append(u, row) /\ u \in Seq(Row)
  BY ConcatAppend
<1>2. u \in Seq(Wire) /\ row \in Wire
  <2> HIDE DEF u
  <2>1. Row \subseteq Wire
    BY DEF Wire
  <2> QED BY <1>1, <2>1
<1> HIDE DEF u
<1>3. Reads(Append(u, row), line) = Revised(Reads(u, line), row, line) /\ Reads(u, line) \in Text
  BY <1>2, ReadsOf
<1> QED BY <1>1, <1>3 DEF u

\* Rows of one line that are dropped change nothing on the others.
Spares(rows, S, l, line) == line # l /\ \A e \in Range(rows) : e \in S \/ e.line = l

LEMMA OnlyReads ==
  ASSUME NEW p \in Seq(Row), NEW rows \in Seq(Row), NEW S, NEW l, NEW line,
         Spares(rows, S, l, line)
  PROVE  Reads(p \o Only(rows, S), line) = Reads(p \o rows, line)
<1> DEFINE E == {e \in Row : e \in S \/ e.line = l}
           P == {q \in Seq(E) : Reads(p \o Only(q, S), line) = Reads(p \o q, line)}
<1>1. E \subseteq Row /\ \A e \in E : e \in S \/ e.line = l
  OBVIOUS
<1>2. rows \in Seq(E)
  <2>1. \A i \in 1..Len(rows) : rows[i] \in Range(rows) /\ rows[i] \in Row
    BY DEF Range
  <2>2. \A i \in 1..Len(rows) : rows[i] \in E
    BY <2>1 DEF Spares
  <2> HIDE DEF E
  <2> QED BY <2>2
<1> HIDE DEF E
<1>3. <<>> \in P
  <2>1. Only(<<>>, S) = <<>> /\ <<>> \in Seq(E)
    BY OnlyOfNone
  <2> QED BY <2>1
<1>4. ASSUME NEW q \in Seq(E), NEW e \in E, q \in P
      PROVE  Append(q, e) \in P
  <2> DEFINE k == Only(q, S)
  <2>1. q \in Seq(Row) /\ e \in Row /\ Append(q, e) \in Seq(E)
    BY <1>1
  <2>2. k \in Seq(Row) /\ Only(Append(q, e), S) = IF e \in S THEN Append(k, e) ELSE k
    BY <2>1, OnlyAppend
  <2>3. Reads(p \o k, line) = Reads(p \o q, line)
    BY <1>4
  <2> HIDE DEF k
  <2>4. /\ Reads(p \o Append(q, e), line) = Revised(Reads(p \o q, line), e, line)
        /\ Reads(p \o Append(k, e), line) = Revised(Reads(p \o k, line), e, line)
    BY <2>1, <2>2, ReadsAppend
  <2>5. CASE e \in S
    <3>1. Only(Append(q, e), S) = Append(k, e)
      BY <2>2, <2>5
    <3> QED BY <2>1, <2>3, <2>4, <3>1
  <2>6. CASE e \notin S
    <3>1. e.line # line
      BY <1>1, <2>6 DEF Spares
    <3>2. Reads(p \o Append(q, e), line) = Reads(p \o q, line)
      BY <2>4, <3>1 DEF Revised
    <3>3. Only(Append(q, e), S) = k
      BY <2>2, <2>6
    <3> QED BY <2>1, <2>3, <3>2, <3>3
  <2> QED BY <2>5, <2>6
<1> HIDE DEF P
<1>5. Seq(E) \subseteq P
  BY <1>3, <1>4, OneMore
<1> QED BY <1>2, <1>5 DEF P

\* Whatever coalescing does to the rows that wait, each line says in the end
\* what the new row makes of it.
LEMMA RenderReads ==
  ASSUME NEW p \in Seq(Row), NEW rows \in Seq(Row), NEW row \in Row, NEW line
  PROVE  Reads(p \o render(rows, row), line) = Revised(Reads(p \o rows, line), row, line)
<1>1. CASE row.revision = "Appended" /\ rows # <<>> /\ rows[Len(rows)].line = row.line
  <2> DEFINE joined == [rows EXCEPT ![Len(rows)].text = @ \o row.text]
  <2>1. PICK front \in Seq(Row), last \in Row : rows = Append(front, last) /\ Len(front) = Len(rows) - 1
    <3>1. Len(rows) # 0
      BY <1>1
    <3> QED BY <3>1, LastOff
  <2> DEFINE new == [last EXCEPT !.text = @ \o row.text]
             n   == Len(rows)
  <2>2. /\ n \in Nat /\ n = Len(front) + 1 /\ n \in DOMAIN rows /\ rows[n] = last
        /\ DOMAIN rows = 1..n /\ Len(front) \in Nat
        /\ \A i \in 1..Len(front) : rows[i] = front[i]
    BY <2>1
  <2>3. /\ new \in Row /\ new.line = last.line /\ new.revision = last.revision
        /\ new.text = last.text \o row.text
        /\ last.text \in Text /\ row.text \in Text
    <3>1. last.text \in Text /\ row.text \in Text
      BY DEF Row
    <3>2. last.text \o row.text \in Text
      BY <3>1 DEF Text
    <3> QED BY <3>1, <3>2 DEF Row
  <2>4. render(rows, row) = joined
    BY <1>1 DEF render
  <2>5. joined = [rows EXCEPT ![n] = new]
    BY <2>2
  <2>6. last.line = row.line
    BY <1>1, <2>2
  <2> HIDE DEF joined, new, n
  <2>7. joined = Append(front, new)
    <3>1. /\ joined \in Seq(Row) /\ Len(joined) = n /\ joined[n] = new
          /\ \A i \in 1..n : i # n => joined[i] = rows[i]
      BY <2>2, <2>3, <2>5, ExceptSeq
    <3>2. /\ Append(front, new) \in Seq(Row) /\ Len(Append(front, new)) = n
          /\ Append(front, new)[n] = new
          /\ \A i \in 1..Len(front) : Append(front, new)[i] = front[i]
      BY <2>2, <2>3
    <3>3. \A i \in 1..n : i = n \/ (i # n /\ i \in 1..Len(front))
      BY <2>2
    <3>4. \A i \in 1..n : joined[i] = Append(front, new)[i]
      BY <2>2, <3>1, <3>2, <3>3
    <3> QED BY <3>1, <3>2, <3>4, SeqEqual
  <2> DEFINE text == Reads(p \o front, line)
  <2>8. /\ Reads(p \o joined, line) = Revised(text, new, line)
        /\ Reads(p \o rows, line) = Revised(text, last, line)
        /\ text \in Text
    BY <2>1, <2>3, <2>7, ReadsAppend
  <2> HIDE DEF text
  <2>9. text \o (last.text \o row.text) = (text \o last.text) \o row.text
    <3> DEFINE a == last.text
               b == row.text
    <3>1. text \in Seq(Token) /\ a \in Seq(Token) /\ b \in Seq(Token)
      BY <2>3, <2>8 DEF Text
    <3> HIDE DEF a, b
    <3>2. text \o (a \o b) = (text \o a) \o b
      BY <3>1, ConcatAssociative
    <3> QED BY <3>2 DEF a, b
  <2>10. Revised(text, new, line) = Revised(Revised(text, last, line), row, line)
    BY <1>1, <2>3, <2>6, <2>9 DEF Revised
  <2> QED BY <2>4, <2>8, <2>10
<1>2. CASE row.revision = "Appended" /\ ~(rows # <<>> /\ rows[Len(rows)].line = row.line)
  <2>1. render(rows, row) = Append(rows, row)
    BY <1>2 DEF render
  <2> QED BY <2>1, ReadsAppend
<1>3. CASE row.revision # "Appended"
  <2> DEFINE others == {pending \in Range(rows) : pending.line # row.line}
             kept   == Only(rows, others)
  <2>1. render(rows, row) = Append(kept, row)
    BY <1>3 DEF render
  <2>2. \A e \in Range(rows) : e \in others \/ e.line = row.line
    OBVIOUS
  <2> HIDE DEF others
  <2>3. kept \in Seq(Row)
    BY OnlyRange
  <2>4. CASE line = row.line
    <3> HIDE DEF kept
    <3>1. Reads(p \o Append(kept, row), line) = Revised(Reads(p \o kept, line), row, line)
      BY <2>3, ReadsAppend
    <3> QED BY <1>3, <2>1, <2>4, <3>1 DEF Revised
  <2>5. CASE line # row.line
    <3> DEFINE l == row.line
    <3>1. Spares(rows, others, l, line)
      BY <2>2, <2>5 DEF Spares
    <3> HIDE DEF l
    <3>2. Reads(p \o Only(rows, others), line) = Reads(p \o rows, line)
      BY <3>1, OnlyReads
    <3>4. kept = Only(rows, others)
      OBVIOUS
    <3> HIDE DEF kept
    <3>3. Reads(p \o Append(kept, row), line) = Revised(Reads(p \o kept, line), row, line)
      BY <2>3, ReadsAppend
    <3> QED BY <2>1, <3>2, <3>3, <3>4
  <2> QED BY <2>4, <2>5
<1> QED BY <1>1, <1>2, <1>3

\* A row as the pump sent it makes of a line what the actor's copy makes of it.
ReadsAsTold(waiting) ==
    \A line : Reads(RowsOf(sent) \o waiting, line) = Reads(told, line)

\* A row that arrives makes each line say what the pump asked for.
LEMMA TellsReads ==
  ASSUME Typed, ReadsAsTold(unrendered), NEW chunk \in Chunks,
         NewRows(chunk) \in Seq(Row), NewText(chunk) \in Text
  PROVE  \A line : Reads(RowsOf(sent) \o NewRows(chunk), line)
                     = Reads(Append(told, NewTold(chunk)), line)
<1> SUFFICES ASSUME NEW line
             PROVE  Reads(RowsOf(sent) \o NewRows(chunk), line)
                      = Reads(Append(told, NewTold(chunk)), line)
  OBVIOUS
<1> DEFINE p    == RowsOf(sent)
           row  == NewRow(chunk)
           tale == NewTold(chunk)
<1>1. chunk \in Chunk
  BY ChunksAssumption
<1>2. row \in Row /\ tale \in Told /\ tale \in Wire
  BY <1>1 DEF NewRow, NewTold, Row, Told, Chunk, Wire
<1>3. row.line = tale.line /\ row.revision = tale.revision /\ row.text = tale.text
      /\ row.text = NewText(chunk) /\ row.revision = chunk.revision
  BY DEF NewRow, NewTold
<1>4. p \in Seq(Row) /\ unrendered \in Seq(Row) /\ told \in Seq(Wire)
  <2>1. Event("FarEndLine") \in Sent
    BY DEF Event, Sent, Plain
  <2>2. sent \in Seq(Sent) /\ told \in Seq(Told) /\ unrendered \in Seq(Row)
    BY DEF Typed, IInv, TypeOK
  <2>3. Told \subseteq Wire
    BY DEF Wire
  <2> QED BY <2>1, <2>2, <2>3, RowsOfAppend
<1> HIDE DEF p, row, tale
<1>5. Reads(p \o unrendered, line) = Reads(told, line)
  BY DEF ReadsAsTold, p
<1>6. /\ Reads(told, line) \in Text
      /\ Reads(Append(told, tale), line) = Revised(Reads(told, line), tale, line)
  BY <1>2, <1>4, ReadsOf
<1>7. Revised(Reads(told, line), tale, line) = Revised(Reads(told, line), row, line)
  BY <1>3 DEF Revised
<1>8. CASE chunk.revision # "Appended" \/ chunk.some
  <2>1. NewRows(chunk) = render(unrendered, row)
    BY <1>8 DEF NewRows, row
  <2>2. Reads(p \o render(unrendered, row), line) = Revised(Reads(p \o unrendered, line), row, line)
    BY <1>2, <1>4, RenderReads
  <2> QED BY <1>5, <1>6, <1>7, <2>1, <2>2 DEF p, tale
<1>9. CASE ~(chunk.revision # "Appended" \/ chunk.some)
  <2>1. NewRows(chunk) = unrendered /\ row.text = <<>> /\ row.revision = "Appended"
    BY <1>3, <1>9 DEF NewRows, NewText
  <2>2. Reads(told, line) \o <<>> = Reads(told, line)
    BY <1>6, ConcatEmptySeq DEF Text
  <2>3. Revised(Reads(told, line), row, line) = Reads(told, line)
    BY <2>1, <2>2 DEF Revised
  <2> QED BY <1>5, <1>6, <1>7, <2>1, <2>3 DEF p, tale
<1> QED BY <1>8, <1>9

\* So it is in every state.
LEMMA AsToldAlways == Spec => []ReadsAsTold(unrendered)
<1>1. Init => ReadsAsTold(unrendered)
  <2> SUFFICES ASSUME Init PROVE ReadsAsTold(unrendered)
    OBVIOUS
  <2>1. sent = <<>> /\ told = <<>> /\ unrendered = <<>>
    BY DEF Init
  <2>2. RowsOf(sent) \o unrendered = told
    BY <2>1, RowsOfNone
  <2> QED BY <2>2 DEF ReadsAsTold
<1>2. ASSUME Typed, ReadsAsTold(unrendered), [Next]_vars
      PROVE  ReadsAsTold(unrendered)'
  <2> DEFINE p == RowsOf(sent)
  <2>1. p \in Seq(Row) /\ sent \in Seq(Sent) /\ unrendered \in Seq(Row)
    <3>1. Event("FarEndLine") \in Sent
      BY DEF Event, Sent, Plain
    <3>2. sent \in Seq(Sent) /\ unrendered \in Seq(Row)
      BY <1>2 DEF Typed, IInv, TypeOK
    <3> QED BY <3>1, <3>2, RowsOfAppend
  <2>2. CASE Starts
    <3> DEFINE news == Event("CommandStarted")
    <3>1. sent' = Append(<<>>, news) /\ told' = <<>> /\ unrendered' = <<>>
      BY <2>2 DEF Starts, Fresh
    <3>2. news \in Sent /\ news.kind # "Output" /\ <<>> \in Seq(Sent)
      BY DEF Event, Sent, Plain
    <3> DEFINE none == <<>>
    <3>3. none \in Seq(Sent)
      BY <3>2
    <3> HIDE DEF news, none
    <3>4. RowsOf(Append(none, news)) = RowsOf(none)
      BY <3>2, <3>3, RowsOfAppend
    <3>5. RowsOf(sent') \o unrendered' = told'
      BY <3>1, <3>4, RowsOfNone DEF none
    <3> QED BY <3>5 DEF ReadsAsTold
  <2>3. ASSUME NEW shown \in Seq(Row), NEW said \in Seq(Sent), Step(shown, said), Adds(shown, said)
        PROVE  ReadsAsTold(unrendered)'
    <3>1. RowsOf(sent') = p \o shown
      BY <2>1, <2>3, StepSaysNoRows, RowsAdded
    <3>2. ASSUME NEW rows \in Seq(Row),
                 \/ shown = rows /\ unrendered' = <<>>
                 \/ shown = <<>> /\ unrendered' = rows,
                 \A line : Reads(p \o rows, line) = Reads(told', line)
          PROVE  ReadsAsTold(unrendered)'
      <4>1. p \o <<>> = p /\ p \o rows \in Seq(Row) /\ (p \o rows) \o <<>> = p \o rows
        <5>1. p \o rows \in Seq(Row)
          BY <2>1, ConcatProperties
        <5> DEFINE u == p \o rows
        <5> HIDE DEF u
        <5>2. u \o <<>> = u /\ p \o <<>> = p
          BY <2>1, <5>1, ConcatEmptySeq DEF u
        <5> QED BY <5>1, <5>2 DEF u
      <4>2. RowsOf(sent') \o unrendered' = p \o rows
        BY <3>1, <3>2, <4>1
      <4> QED BY <3>2, <4>2 DEF ReadsAsTold
    <3>3. \A line : Reads(p \o unrendered, line) = Reads(told, line)
      BY <1>2 DEF ReadsAsTold
    <3> HIDE DEF p
    <3>4. ASSUME NEW action, NEW rows \in Seq(Row), NEW heard, NEW undecided,
                 Does(action, rows, heard, undecided, shown, said),
                 \A line : Reads(p \o rows, line) = Reads(told', line)
          PROVE  ReadsAsTold(unrendered)'
      <4>1. \/ shown = rows /\ unrendered' = <<>>
            \/ shown = <<>> /\ unrendered' = rows
        BY <3>4 DEF Does
      <4> QED BY <3>2, <3>4, <4>1
    <3>5. ASSUME NEW chunk \in Chunks, NEW action \in PacingAction, Tells(chunk, shown, said, action)
          PROVE  ReadsAsTold(unrendered)'
      <4>1. NewRows(chunk) \in Seq(Row) /\ NewText(chunk) \in Text
            /\ told' = Append(told, NewTold(chunk))
        BY <3>5 DEF Tells
      <4>2. \A line : Reads(p \o NewRows(chunk), line) = Reads(told', line)
        BY <1>2, <4>1, TellsReads DEF p
      <4>3. CASE chunk.spoken
        BY <3>4, <3>5, <4>1, <4>2, <4>3 DEF Tells
      <4>4. CASE ~chunk.spoken
        <5>1. shown = <<>> /\ unrendered' = NewRows(chunk)
          BY <3>5, <4>4 DEF Tells
        <5> QED BY <3>2, <4>1, <4>2, <5>1
      <4> QED BY <4>3, <4>4
    <3>6. ASSUME NEW action \in PacingAction, Wakes(shown, said, action)
          PROVE  ReadsAsTold(unrendered)'
      <4>1. told' = told /\ Does(action, unrendered, unspoken, owed, shown, said)
        BY <3>6 DEF Wakes
      <4> QED BY <2>1, <3>3, <3>4, <4>1
    <3>7. CASE SendsRows(shown, said)
      <4>1. told' = told /\ shown = unrendered /\ unrendered' = <<>>
        BY <3>7 DEF SendsRows
      <4> QED BY <2>1, <3>2, <3>3, <4>1
    <3>8. CASE LeavesAlone(shown, said)
      <4>1. told' = told /\ shown = <<>> /\ unrendered' = unrendered
        BY <3>8 DEF LeavesAlone, command
      <4> QED BY <2>1, <3>2, <3>3, <4>1
    <3>9. ASSUME NEW terminal, NEW last, NEW action, shown = unrendered,
                 Ends(said, last, terminal, action)
          PROVE  ReadsAsTold(unrendered)'
      <4>1. told' = told /\ unrendered' = <<>>
        BY <3>9 DEF Ends, Fresh
      <4> QED BY <2>1, <3>2, <3>3, <3>9, <4>1
    <3> QED BY <2>3, <3>5, <3>6, <3>7, <3>8, <3>9 DEF Step
  <2> QED BY <1>2, <2>2, <2>3, StepAdds
<1>3. Typed /\ ReadsAsTold(unrendered) /\ [Next]_vars => ReadsAsTold(unrendered)'
  BY <1>2
<1> QED BY <1>1, <1>3, StreamTyped, PTL DEF Spec

\* Coalescing rows for a tick and dropping superseded ones never changes what
\* a line ends up saying in the buffer.
THEOREM TheBufferKeepsUp == Spec => []BufferIsCurrent
<1>1. ReadsAsTold(unrendered) => BufferIsCurrent
  <2> SUFFICES ASSUME ReadsAsTold(unrendered), NEW line \in Lines
               PROVE  TextOf(Showing, line) = TextOf(Asked, line)
    BY DEF BufferIsCurrent
  <2>1. Showing = Buffered(RowsOf(sent) \o unrendered) /\ Asked = Buffered(told)
    BY DEF Showing, Asked
  <2> QED BY <2>1 DEF ReadsAsTold, Reads
<1> QED BY <1>1, AsToldAlways, PTL

\* A step that reads aloud leaves no row waiting for the tick.
LEMMA ReadingLeavesNoRow ==
  ASSUME NEW shown \in Seq(Row), NEW said \in Seq(Sent), Step(shown, said),
         NEW i \in 1..Len(said), said[i].kind = "ReadAloud"
  PROVE  unrendered' = <<>>
<1>1. ASSUME NEW action, NEW rows, NEW heard, NEW undecided,
             Does(action, rows, heard, undecided, shown, said)
      PROVE  unrendered' = <<>>
  BY <1>1 DEF Does, Says
<1>2. ASSUME NEW chunk \in Chunks, NEW action \in PacingAction, Tells(chunk, shown, said, action)
      PROVE  unrendered' = <<>>
  <2>1. CASE chunk.spoken
    BY <1>1, <1>2, <2>1 DEF Tells
  <2>2. CASE ~chunk.spoken
    BY <1>2, <2>2 DEF Tells
  <2> QED BY <2>1, <2>2
<1>3. ASSUME NEW terminal, NEW last, NEW action, Ends(said, last, terminal, action)
      PROVE  unrendered' = <<>>
  BY <1>3 DEF Ends, Fresh
<1>4. CASE SendsRows(shown, said)
  BY <1>4 DEF SendsRows
<1>5. ASSUME NEW action \in PacingAction, Wakes(shown, said, action)
      PROVE  unrendered' = <<>>
  BY <1>1, <1>5 DEF Wakes
<1>6. CASE LeavesAlone(shown, said)
  BY <1>6 DEF LeavesAlone, Passed
<1> QED BY <1>2, <1>3, <1>4, <1>5, <1>6 DEF Step

\* The first n of a sequence.
LEMMA FirstOnes ==
  ASSUME NEW S, NEW s \in Seq(S), NEW n \in Nat, n <= Len(s)
  PROVE  /\ SubSeq(s, 1, n) \in Seq(S) /\ Len(SubSeq(s, 1, n)) = n
         /\ \A j \in 1..n : SubSeq(s, 1, n)[j] = s[j]
<1>1. \A j \in 1..n : s[j] \in S
  OBVIOUS
<1>2. /\ SubSeq(s, 1, n) \in Seq(S)
      /\ Len(SubSeq(s, 1, n)) = IF 1 <= n THEN n - 1 + 1 ELSE 0
      /\ \A j \in 1..(n - 1 + 1) : SubSeq(s, 1, n)[j] = s[1 + j - 1]
  BY <1>1, SubSeqProperties
<1> QED BY <1>2

\* The first of two sequences joined, with some of the second.
LEMMA JoinedPart ==
  ASSUME NEW S, NEW s \in Seq(S), NEW t \in Seq(S), NEW n \in Nat, n <= Len(t)
  PROVE  SubSeq(s \o t, 1, Len(s) + n) = s \o SubSeq(t, 1, n)
<1> DEFINE a    == Len(s)
           b    == Len(t)
           both == s \o t
           part == SubSeq(t, 1, n)
           head == SubSeq(both, 1, a + n)
<1>1. a \in Nat /\ b \in Nat /\ n <= b /\ a = Len(s) /\ b = Len(t)
  OBVIOUS
<1>2. part \in Seq(S) /\ Len(part) = n /\ \A j \in 1..n : part[j] = t[j]
  BY FirstOnes
<1>3. /\ both \in Seq(S) /\ Len(both) = a + b
      /\ \A j \in 1..a : both[j] = s[j]
      /\ \A j \in 1..b : both[a + j] = t[j]
  BY <1>1, Joined
<1> HIDE DEF a, b, both, part
<1>4. /\ head \in Seq(S) /\ Len(head) = a + n
      /\ \A j \in 1..(a + n) : head[j] = both[j]
  BY <1>1, <1>3, FirstOnes
<1>5. /\ s \o part \in Seq(S) /\ Len(s \o part) = a + n
      /\ \A j \in 1..a : (s \o part)[j] = s[j]
      /\ \A j \in 1..n : (s \o part)[a + j] = part[j]
  BY <1>1, <1>2, Joined
<1> HIDE DEF head
<1>6. ASSUME NEW j \in 1..(a + n) PROVE head[j] = (s \o part)[j]
  <2>1. CASE j \in 1..a
    BY <1>3, <1>4, <1>5, <2>1
  <2>2. CASE j \notin 1..a
    <3>1. PICK k \in 1..n : j = a + k
      <4>1. j - a \in 1..n /\ j = a + (j - a)
        BY <1>1, <2>2
      <4> QED BY <4>1
    <3>2. k \in 1..b
      BY <1>1, <3>1
    <3>3. both[a + k] = t[k] /\ (s \o part)[a + k] = part[k] /\ part[k] = t[k]
      BY <1>2, <1>3, <1>5, <3>1, <3>2
    <3> QED BY <1>4, <3>1, <3>3
  <2> QED BY <2>1, <2>2
<1>7. head = s \o part
  BY <1>4, <1>5, <1>6, SeqEqual
<1> QED BY <1>7 DEF head, both, part, a

\* The rows sent before any word of a step are all the rows it sends.
LEMMA RowsBeforeWords ==
  ASSUME sent \in Seq(Sent), NEW shown \in Seq(Row), NEW said \in Seq(Sent), Adds(shown, said),
         \A k \in 1..Len(said) : said[k].kind # "Output",
         NEW i \in DOMAIN sent', i \notin DOMAIN sent, sent'[i].kind = "ReadAloud"
  PROVE  /\ RowsOf(SubSeq(sent', 1, i - 1)) = RowsOf(sent')
         /\ \E k \in 1..Len(said) : said[k] = sent'[i]
<1> DEFINE a    == Len(sent)
           b    == Len(shown)
           c    == Len(said)
           rows == OutputEvents(shown)
           u    == sent \o rows
           k    == i - a - b
           n    == k - 1
           part == SubSeq(said, 1, n)
<1>1. /\ sent' \in Seq(Sent) /\ a \in Nat /\ b \in Nat /\ c \in Nat
      /\ DOMAIN sent' = 1..(a + b + c) /\ DOMAIN sent = 1..a
      /\ \A j \in DOMAIN sent' :
            \/ j \in 1..a /\ sent'[j] = sent[j]
            \/ j - a \in 1..b /\ sent'[j].kind = "Output"
            \/ j - a - b \in 1..c /\ sent'[j] = said[j - a - b]
  BY AddsAre
<1>2. rows \in Seq(Sent) /\ Len(rows) = b /\ a = Len(sent)
  BY OutputEventsAre
<1>3. sent' = u \o said
  BY DEF Adds
<1> HIDE DEF rows, a, b
<1>4. u \in Seq(Sent) /\ Len(u) = a + b
  BY <1>1, <1>2, Joined
<1> HIDE DEF u
<1>5. k \in 1..c /\ sent'[i] = said[k]
  BY <1>1
<1>6. n \in Nat /\ n <= c /\ i - 1 = (a + b) + n
  BY <1>1, <1>5
<1>7. c = Len(said)
  OBVIOUS
<1> HIDE DEF k, n, c
<1>8. part \in Seq(Sent) /\ Len(part) = n /\ \A j \in 1..n : part[j] = said[j]
  BY <1>6, <1>7, FirstOnes
<1>9. SubSeq(u \o said, 1, Len(u) + n) = u \o part
  BY <1>4, <1>6, <1>7, JoinedPart
<1>10. RowsOf(u \o part) = RowsOf(u)
  <2>1. \A j \in 1..Len(part) : part[j].kind # "Output"
    BY <1>1, <1>6, <1>7, <1>8
  <2> HIDE DEF part
  <2> QED BY <1>4, <1>8, <2>1, RowsOfOthers
<1>11. RowsOf(u \o said) = RowsOf(u)
  BY <1>4, RowsOfOthers
<1>12. SubSeq(sent', 1, i - 1) = u \o part
  BY <1>3, <1>4, <1>6, <1>9
<1> QED BY <1>3, <1>5, <1>7, <1>10, <1>11, <1>12

\* When a text is read aloud the buffer is behind on no line: each says what the
\* pump last made of it, the text itself unless something took its place since.
THEOREM SpeechFollowsTheBuffer == Spec => BufferBeforeSpeech
<1>1. ASSUME Typed, ReadsAsTold(unrendered)', [Next]_vars,
             NEW i \in DOMAIN sent' \ DOMAIN sent, sent'[i].kind = "ReadAloud", NEW line \in Lines
      PROVE  TextOf(Buffered(RowsOf(SubSeq(sent', 1, i - 1))), line) = TextOf(Asked', line)
  <2>1. CASE Starts
    <3> DEFINE first == Event("CommandStarted")
    <3>1. first.kind = "CommandStarted" /\ sent' = <<first>>
      BY <2>1 DEF Starts, Event
    <3> HIDE DEF first
    <3>2. DOMAIN sent' = {1} /\ sent'[1].kind = "CommandStarted"
      BY <3>1
    <3> QED BY <1>1, <3>2
  <2>2. ASSUME NEW shown \in Seq(Row), NEW said \in Seq(Sent), Step(shown, said), Adds(shown, said)
        PROVE  TextOf(Buffered(RowsOf(SubSeq(sent', 1, i - 1))), line) = TextOf(Asked', line)
    <3>1. \A k \in 1..Len(said) : said[k].kind # "Output"
      BY <2>2, StepSaysNoRows
    <3>2. /\ RowsOf(SubSeq(sent', 1, i - 1)) = RowsOf(sent')
          /\ \E k \in 1..Len(said) : said[k] = sent'[i]
      BY <1>1, <2>2, <3>1, RowsBeforeWords DEF Typed
    <3>3. unrendered' = <<>>
      BY <1>1, <2>2, <3>2, ReadingLeavesNoRow
    <3>4. sent' \in Seq(Sent)
      BY <1>1, <2>2, AddsAre DEF Typed
    <3>5. RowsOf(sent') \in Seq(Row)
      BY <2>2, <3>2, <3>4, RowsOfAppend
    <3>6. RowsOf(sent') \o unrendered' = RowsOf(sent')
      BY <3>3, <3>5, ConcatEmptySeq
    <3>7. Reads(RowsOf(sent') \o unrendered', line) = Reads(told', line)
      BY <1>1 DEF ReadsAsTold
    <3> QED BY <3>2, <3>6, <3>7 DEF Reads, Asked
  <2> QED BY <1>1, <2>1, <2>2, StepAdds
<1>2. Typed /\ ReadsAsTold(unrendered)' /\ [Next]_vars
         => [\A i \in DOMAIN sent' \ DOMAIN sent : sent'[i].kind = "ReadAloud" =>
                \E shown \in {Buffered(RowsOf(SubSeq(sent', 1, i - 1)))}, asked \in {Asked'} :
                    \A line \in Lines : TextOf(shown, line) = TextOf(asked, line)]_vars
  BY <1>1
<1> QED BY <1>2, StreamTyped, AsToldAlways, PTL DEF Spec, BufferBeforeSpeech
=============================================================================
