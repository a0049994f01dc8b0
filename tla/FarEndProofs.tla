---------------------------- MODULE FarEndProofs ----------------------------
(***************************************************************************)
(* Proofs about the line in the far end's hands, for every set of rows,    *)
(* every set of keys and every length of session.                          *)
(***************************************************************************)
EXTENDS FarEndSteps, SequenceTheorems, WellFoundedInduction, TLAPS

-----------------------------------------------------------------------------
(***************************************************************************)
(* Folds.  The library states what a fold computes with an operator as a   *)
(* parameter; here the folds of this model are the cases of one operator,  *)
(* so that what holds of all of them is shown once.                        *)
(***************************************************************************)
\* A set of natural numbers has a least one.
LEMMA LeastOfNat ==
  ASSUME NEW S, S \subseteq Nat, S # {}
  PROVE  \E x \in S : \A y \in S : x <= y
<1> DEFINE R == OpToRel(<, Nat)
<1>1. PICK x \in S : \A y \in S : ~ (<<y, x>> \in R)
  <2> HIDE DEF R
  <2> QED BY WFMin, NatLessThanWellFounded DEF R
<1>2. \A y \in S : ~(y < x)
  <2> SUFFICES ASSUME NEW y \in S, y < x PROVE FALSE
    OBVIOUS
  <2>1. <<y, x>> \in Nat \X Nat /\ <<y, x>>[1] < <<y, x>>[2]
    OBVIOUS
  <2> QED BY <1>1, <2>1 DEF OpToRel
<1> HIDE DEF R
<1>3. \A y \in S : x \in Nat /\ y \in Nat
  OBVIOUS
<1> QED BY <1>2, <1>3

\* And a set of numbers up to one has a greatest.
LEMMA GreatestOf ==
  ASSUME NEW n \in Nat, NEW s \in SUBSET (0..n), s # {}
  PROVE  Max(s) \in s /\ \A i \in s : i <= Max(s)
<1> DEFINE T == {i \in Nat : n - i \in s}
<1>1. \A i \in s : i \in 0..n /\ n - i \in T
  OBVIOUS
<1>2. PICK m \in T : \A i \in T : m <= i
  BY <1>1, LeastOfNat
<1>3. n - m \in s /\ \A i \in s : n - m >= i
  BY <1>1, <1>2
<1> QED BY <1>3 DEF Max

\* The positions up to k are a set whose greatest is k.
LEMMA UpTo ==
  ASSUME NEW n \in Nat, NEW k \in 1..n
  PROVE  /\ 1..k \in SUBSET (1..n) /\ 1..k # {}
         /\ Max(1..k) = k /\ (1..k) \ {k} = 1..(k - 1)
<1>1. k \in Nat /\ 1..k \in SUBSET (0..k) /\ k \in 1..k /\ \A i \in 1..k : i \in 1..n
  OBVIOUS
<1>2. Max(1..k) \in 1..k /\ k <= Max(1..k)
  BY <1>1, GreatestOf
<1> QED BY <1>1, <1>2

\* The fold of the library is one, not a choice of nothing.
LEMMA RunExists ==
  ASSUME NEW what, NEW base, NEW n \in Nat, NEW s
  PROVE  \E g : Runs(g, what, base, n, s)
<1> DEFINE Missing == {k \in Nat : ~ \E g : Runs(g, what, base, k, s)}
<1>1. SUFFICES ASSUME Missing # {} PROVE FALSE
  OBVIOUS
<1>2. PICK k \in Missing : \A i \in Missing : k <= i
  BY <1>1, LeastOfNat
<1>3. CASE k = 0
  <2> DEFINE g == [x \in SUBSET (1..0) |-> base]
  <2>1. \A x \in SUBSET (1..0) : x = {}
    OBVIOUS
  <2>2. g = [x \in SUBSET (1..0) |->
               IF x = {} THEN base ELSE Does(what, g[x \ {Max(x)}], s[Max(x)])]
    BY <2>1
  <2>3. Runs(g, what, base, 0, s)
    BY <2>2 DEF Runs
  <2> QED BY <1>2, <1>3, <2>3
<1>4. CASE k # 0
  <2> DEFINE j == k - 1
  <2>1. j \in Nat /\ k = j + 1 /\ j \notin Missing
    BY <1>2, <1>4
  <2>2. PICK g : Runs(g, what, base, j, s)
    BY <2>1
  <2> DEFINE h == [x \in SUBSET (1..k) |->
                      IF k \in x THEN Does(what, g[x \ {k}], s[k]) ELSE g[x]]
  <2>3. \A x \in SUBSET (1..k) : k \in x => Max(x) = k /\ x \ {k} \in SUBSET (1..j)
    <3> SUFFICES ASSUME NEW x \in SUBSET (1..k), k \in x
                 PROVE  Max(x) = k /\ x \ {k} \in SUBSET (1..j)
      OBVIOUS
    <3>1. Max(x) \in x /\ \A i \in x : i <= Max(x)
      <4>1. x \in SUBSET (0..k) /\ k \in Nat
        BY <1>2
      <4> QED BY <4>1, GreatestOf
    <3>2. Max(x) \in 1..k /\ k <= Max(x)
      BY <3>1
    <3> QED BY <2>1, <3>2
  <2>4. \A x \in SUBSET (1..k) : k \notin x => x \in SUBSET (1..j)
    BY <2>1
  <2>5. \A x \in SUBSET (1..j) : h[x] = g[x]
    BY <2>1
  <2>6. \A x \in SUBSET (1..j) :
           g[x] = IF x = {} THEN base ELSE Does(what, g[x \ {Max(x)}], s[Max(x)])
    BY <2>2 DEF Runs
  <2>7. ASSUME NEW x \in SUBSET (1..k)
        PROVE  h[x] = IF x = {} THEN base ELSE Does(what, h[x \ {Max(x)}], s[Max(x)])
    <3>1. CASE k \in x
      <4>1. Max(x) = k /\ x \ {k} \in SUBSET (1..j) /\ x # {}
        BY <2>3, <3>1
      <4>2. h[x \ {k}] = g[x \ {k}]
        BY <2>5, <4>1
      <4>3. h[x] = Does(what, g[x \ {k}], s[k])
        BY <3>1
      <4> QED BY <4>1, <4>2, <4>3
    <3>2. CASE k \notin x
      <4>1. x \in SUBSET (1..j) /\ x \ {Max(x)} \in SUBSET (1..j)
        BY <2>4, <3>2
      <4>2. h[x] = g[x] /\ h[x \ {Max(x)}] = g[x \ {Max(x)}]
        BY <2>5, <4>1
      <4> QED BY <2>6, <4>1, <4>2
    <3> QED BY <3>1, <3>2
  <2>8. h = [x \in SUBSET (1..k) |->
               IF x = {} THEN base ELSE Does(what, h[x \ {Max(x)}], s[Max(x)])]
    <3>1. h = [x \in SUBSET (1..k) |-> h[x]]
      OBVIOUS
    <3> HIDE DEF h
    <3> QED BY <2>7, <3>1
  <2> HIDE DEF h
  <2>9. Runs(h, what, base, k, s)
    BY <2>8 DEF Runs
  <2> QED BY <1>2, <2>9
<1> QED BY <1>3, <1>4

LEMMA RunSteps ==
  ASSUME NEW what, NEW base, NEW n \in Nat, NEW s, NEW g, Runs(g, what, base, n, s)
  PROVE  Steps(g, what, base, n, s)
<1>1. \A x \in SUBSET (1..n) :
         g[x] = IF x = {} THEN base ELSE Does(what, g[x \ {Max(x)}], s[Max(x)])
  BY DEF Runs
<1>2. 1..0 = {} /\ {} \in SUBSET (1..n)
  OBVIOUS
<1>3. ASSUME NEW k \in 1..n PROVE g[1..k] = Does(what, g[1..(k - 1)], s[k])
  <2>1. 1..k \in SUBSET (1..n) /\ 1..k # {} /\ Max(1..k) = k /\ (1..k) \ {k} = 1..(k - 1)
    BY UpTo
  <2> QED BY <1>1, <2>1
<1> QED BY <1>1, <1>2, <1>3 DEF Steps

LEMMA RunsAgree ==
  ASSUME NEW what, NEW base, NEW m \in Nat, NEW n \in Nat, n <= m, NEW s, NEW t,
         Alike(s, t, n),
         NEW g, Runs(g, what, base, n, s), NEW h, Runs(h, what, base, m, t)
  PROVE  g[1..n] = h[1..n]
<1> DEFINE Bad == {k \in Nat : k <= n /\ g[1..k] # h[1..k]}
<1>1. /\ g[1..0] = base /\ h[1..0] = base
      /\ \A k \in 1..n : g[1..k] = Does(what, g[1..(k - 1)], s[k])
      /\ \A k \in 1..m : h[1..k] = Does(what, h[1..(k - 1)], t[k])
  <2>1. Steps(g, what, base, n, s) /\ Steps(h, what, base, m, t)
    BY RunSteps
  <2> QED BY <2>1 DEF Steps
<1>2. Bad = {}
  <2> SUFFICES ASSUME Bad # {} PROVE FALSE
    OBVIOUS
  <2>1. PICK k \in Bad : \A i \in Bad : k <= i
    BY LeastOfNat
  <2>2. k # 0
    BY <1>1, <2>1
  <2>3. k - 1 \in Nat /\ k - 1 <= n /\ k - 1 \notin Bad /\ k \in 1..n /\ k \in 1..m
    BY <2>1, <2>2
  <2>4. g[1..(k - 1)] = h[1..(k - 1)] /\ s[k] = t[k]
    BY <2>3 DEF Alike
  <2>5. g[1..k] = h[1..k]
    BY <1>1, <2>3, <2>4
  <2> QED BY <2>1, <2>5
<1> QED BY <1>2

LEMMA ResultRuns ==
  ASSUME NEW what, NEW base, NEW s, Len(s) \in Nat
  PROVE  \E g : Runs(g, what, base, Len(s), s) /\ Result(what, base, s) = g[1..Len(s)]
<1> DEFINE g == CHOOSE f : Runs(f, what, base, Len(s), s)
<1>1. Runs(g, what, base, Len(s), s)
  BY RunExists
<1> QED BY <1>1 DEF Result

\* Nothing folded is the base; one element more is one step more.
LEMMA ResultOfNone ==
  ASSUME NEW what, NEW base PROVE Result(what, base, <<>>) = base
<1> DEFINE s == <<>>
           n == Len(s)
<1>1. n \in Nat /\ n = 0
  OBVIOUS
<1> HIDE DEF s
<1>2. PICK g : Runs(g, what, base, n, s) /\ Result(what, base, s) = g[1..n]
  BY <1>1, ResultRuns
<1> HIDE DEF n
<1>3. g[1..0] = base
  <2>1. Steps(g, what, base, n, s)
    BY <1>1, <1>2, RunSteps
  <2> QED BY <2>1 DEF Steps
<1> QED BY <1>1, <1>2, <1>3 DEF s

LEMMA ResultAppend ==
  ASSUME NEW what, NEW base, NEW X, NEW s \in Seq(X), NEW x
  PROVE  Result(what, base, Append(s, x)) = Does(what, Result(what, base, s), x)
<1> DEFINE t == Append(s, x)
           n == Len(s)
<1>1. n \in Nat /\ Len(t) = n + 1 /\ t[n + 1] = x /\ Alike(s, t, n)
  <2>1. s \in Seq(X \cup {x}) /\ x \in X \cup {x}
    OBVIOUS
  <2> QED BY <2>1 DEF Alike
<1> HIDE DEF t, n
<1>2. PICK g : Runs(g, what, base, n, s) /\ Result(what, base, s) = g[1..n]
  BY <1>1, ResultRuns DEF n
<1>3. PICK h : Runs(h, what, base, n + 1, t) /\ Result(what, base, t) = h[1..(n + 1)]
  BY <1>1, ResultRuns
<1>4. g[1..n] = h[1..n]
  <2>1. n + 1 \in Nat /\ n <= n + 1
    BY <1>1
  <2> QED BY <1>1, <1>2, <1>3, <2>1, RunsAgree
<1>5. h[1..(n + 1)] = Does(what, h[1..n], t[n + 1])
  <2>1. n + 1 \in Nat /\ n + 1 \in 1..(n + 1) /\ (n + 1) - 1 = n
    BY <1>1
  <2>2. \A k \in 1..(n + 1) : h[1..k] = Does(what, h[1..(k - 1)], t[k])
    BY <1>3, <2>1, RunSteps DEF Steps
  <2> QED BY <2>1, <2>2
<1> QED BY <1>1, <1>2, <1>3, <1>4, <1>5 DEF t

LEMMA ResultIs ==
  ASSUME NEW what, NEW base, NEW s, Len(s) \in Nat, NEW g, Runs(g, what, base, Len(s), s)
  PROVE  Result(what, base, s) = g[1..Len(s)]
<1>1. PICK h : Runs(h, what, base, Len(s), s) /\ Result(what, base, s) = h[1..Len(s)]
  BY ResultRuns
<1>2. Alike(s, s, Len(s)) /\ Len(s) <= Len(s)
  BY DEF Alike
<1>3. h[1..Len(s)] = g[1..Len(s)]
  BY <1>1, <1>2, RunsAgree
<1> QED BY <1>1, <1>3

LEMMA ShowRunsAre ==
  ASSUME NEW g, NEW base, NEW n, NEW s
  PROVE  ShowRuns(g, base, n, s) <=> Runs(g, [fold |-> "show"], base, n, s)
<1>1. \A acc, x : Does([fold |-> "show"], acc, x) = Shows(acc, x)
  BY DEF Does
<1> QED BY <1>1 DEF ShowRuns, Runs

LEMMA ShownIsTheFold ==
  ASSUME NEW base, NEW s, Len(s) \in Nat, DOMAIN s = 1..Len(s)
  PROVE  Shown(base, s) = Result([fold |-> "show"], base, s)
<1> DEFINE n == Len(s)
           g == CHOOSE h : ShowRuns(h, base, n, s)
<1>1. Shown(base, s) = g[1..n]
  BY DEF Shown, FoldLeft, MapThenFoldSet, ShowRuns, Shows
<1>2. \E h : ShowRuns(h, base, n, s)
  BY RunExists, ShowRunsAre
<1>3. ShowRuns(g, base, n, s)
  BY <1>2
<1> HIDE DEF g
<1>4. Runs(g, [fold |-> "show"], base, n, s)
  BY <1>3, ShowRunsAre
<1> QED BY <1>1, <1>4, ResultIs

LEMMA HeadRunsAre ==
  ASSUME NEW g, NEW base, NEW n, NEW s
  PROVE  HeadRuns(g, base, n, s) <=> Runs(g, [fold |-> "head"], base, n, s)
<1>1. \A acc, x : Does([fold |-> "head"], acc, x) = Heads(acc, x)
  BY DEF Does
<1> QED BY <1>1 DEF HeadRuns, Runs

LEMMA HeadedIsTheFold ==
  ASSUME NEW base, NEW s, Len(s) \in Nat, DOMAIN s = 1..Len(s)
  PROVE  Headed(base, s) = Result([fold |-> "head"], base, s)
<1> DEFINE n == Len(s)
           g == CHOOSE h : HeadRuns(h, base, n, s)
<1>1. Headed(base, s) = g[1..n]
  BY DEF Headed, FoldLeft, MapThenFoldSet, HeadRuns, Heads
<1>2. \E h : HeadRuns(h, base, n, s)
  BY RunExists, HeadRunsAre
<1>3. HeadRuns(g, base, n, s)
  BY <1>2
<1> HIDE DEF g
<1>4. Runs(g, [fold |-> "head"], base, n, s)
  BY <1>3, HeadRunsAre
<1> QED BY <1>1, <1>4, ResultIs

LEMMA KeepRunsAre ==
  ASSUME NEW g, NEW base, NEW n, NEW s
  PROVE  KeepRuns(g, base, n, s) <=> Runs(g, [fold |-> "keep"], base, n, s)
<1>1. \A acc, x : Does([fold |-> "keep"], acc, x) = Keeps(acc, x)
  BY DEF Does
<1> QED BY <1>1 DEF KeepRuns, Runs

LEMMA KeptIsTheFold ==
  ASSUME NEW s, Len(s) \in Nat, DOMAIN s = 1..Len(s)
  PROVE  Kept(s) = Result([fold |-> "keep"], <<>>, s)
<1> DEFINE n == Len(s)
           base == <<>>
           g == CHOOSE h : KeepRuns(h, base, n, s)
<1>1. Kept(s) = g[1..n]
  BY DEF Kept, FoldLeft, MapThenFoldSet, KeepRuns, Keeps
<1>2. \E h : KeepRuns(h, base, n, s)
  BY RunExists, KeepRunsAre
<1>3. KeepRuns(g, base, n, s)
  BY <1>2
<1> HIDE DEF g
<1>4. Runs(g, [fold |-> "keep"], base, n, s)
  BY <1>3, KeepRunsAre
<1> QED BY <1>1, <1>4, ResultIs

LEMMA SeeRunsAre ==
  ASSUME NEW g, NEW base, NEW n, NEW s
  PROVE  SeeRuns(g, base, n, s) <=> Runs(g, [fold |-> "observe"], base, n, s)
<1>1. \A acc, x : Does([fold |-> "observe"], acc, x) = Sees(acc, x)
  BY DEF Does
<1> QED BY <1>1 DEF SeeRuns, Runs

LEMMA ObservedIsTheFold ==
  ASSUME NEW s, Len(s) \in Nat, DOMAIN s = 1..Len(s), NEW t
  PROVE  Observed(t, s) = Result([fold |-> "observe"], [tracker |-> t, events |-> <<>>], s)
<1> DEFINE n == Len(s)
           base == [tracker |-> t, events |-> <<>>]
           g == CHOOSE h : SeeRuns(h, base, n, s)
<1>1. Observed(t, s) = g[1..n]
  BY DEF Observed, FoldLeft, MapThenFoldSet, SeeRuns, Sees
<1>2. \E h : SeeRuns(h, base, n, s)
  BY RunExists, SeeRunsAre
<1>3. SeeRuns(g, base, n, s)
  BY <1>2
<1> HIDE DEF g
<1>4. Runs(g, [fold |-> "observe"], base, n, s)
  BY <1>3, SeeRunsAre
<1> QED BY <1>1, <1>4, ResultIs

LEMMA FeedRunsAre ==
  ASSUME NEW g, NEW now, NEW base, NEW n, NEW s
  PROVE  FeedRuns(g, now, base, n, s) <=> Runs(g, [fold |-> "feed", now |-> now], base, n, s)
<1>1. \A acc, x : Does([fold |-> "feed", now |-> now], acc, x) = Feeds(acc, now, x)
  BY DEF Does
<1> QED BY <1>1 DEF FeedRuns, Runs

LEMMA FeedFarEndIsTheFold ==
  ASSUME NEW base, NEW s, Len(s) \in Nat, DOMAIN s = 1..Len(s), NEW now
  PROVE  feedFarEnd(base, now, s) = prompt_finished(Result([fold |-> "feed", now |-> now], base, s), now)
<1> DEFINE n == Len(s)
           g == CHOOSE h : FeedRuns(h, now, base, n, s)
<1>1. feedFarEnd(base, now, s) = prompt_finished(g[1..n], now)
  BY DEF feedFarEnd, FoldLeft, MapThenFoldSet, FeedRuns, Feeds
<1>2. \E h : FeedRuns(h, now, base, n, s)
  BY RunExists, FeedRunsAre
<1>3. FeedRuns(g, now, base, n, s)
  BY <1>2
<1> HIDE DEF g
<1>4. Runs(g, [fold |-> "feed", now |-> now], base, n, s)
  BY <1>3, FeedRunsAre
<1> QED BY <1>1, <1>4, ResultIs

LEMMA PrintRunsAre ==
  ASSUME NEW g, NEW fields, NEW base, NEW n, NEW s
  PROVE  PrintRuns(g, fields, base, n, s) <=> Runs(g, [fold |-> "print", fields |-> fields], base, n, s)
<1>1. \A acc, x : Does([fold |-> "print", fields |-> fields], acc, x) = Prints(acc, fields, x)
  BY DEF Does
<1> QED BY <1>1 DEF PrintRuns, Runs

LEMMA PrintedIsTheFold ==
  ASSUME NEW p, NEW n \in Nat, n = Len(p.far.printed), DOMAIN p.far.printed = 1..n
  PROVE  printed(p) = Result([fold |-> "print", fields |-> Fields(p)],
                             [p EXCEPT !.far.printed = <<>>], p.far.printed)
<1> DEFINE s    == p.far.printed
           base == [p EXCEPT !.far.printed = <<>>]
           f == Fields(p)
           g == CHOOSE h : PrintRuns(h, f, base, n, s)
<1>1. printed(p) = g[1..n]
  BY DEF printed, FoldLeft, MapThenFoldSet, PrintRuns, Prints
<1> HIDE DEF s, base, f
<1>2. \E h : PrintRuns(h, f, base, n, s)
  BY RunExists, PrintRunsAre
<1>3. PrintRuns(g, f, base, n, s)
  BY <1>2
<1> HIDE DEF g
<1>4. Runs(g, [fold |-> "print", fields |-> f], base, n, s)
  BY <1>3, PrintRunsAre
<1>5. n = Len(s)
  BY DEF s
<1>6. Result([fold |-> "print", fields |-> f], base, s) = g[1..n]
  BY <1>4, <1>5, ResultIs
<1> QED BY <1>1, <1>6 DEF s, base, f

-----------------------------------------------------------------------------
(* The pump.                                                               *)
LEMMA CalmIsTransitive ==
  ASSUME NEW p, NEW q, NEW r, Calm(q, p), Calm(r, q) PROVE Calm(r, p)
BY DEF Calm

LEMMA CalmAsItself == ASSUME NEW p, Formed(p) PROVE Calm(p, p)
BY DEF Calm

\* What is added to a sequence of anything.
LEMMA AppendIsSeq ==
  ASSUME NEW s, IsSeq(s), NEW x
  PROVE  IsSeq(Append(s, x)) /\ Len(s) \in Nat /\ DOMAIN s = 1..Len(s)
<1>1. PICK S : s \in Seq(S)
  BY DEF IsSeq
<1>2. Append(s, x) \in Seq(S \cup {x})
  <2>1. s \in Seq(S \cup {x})
    BY <1>1
  <2> QED BY <2>1
<1> QED BY <1>1, <1>2 DEF IsSeq

LEMMA ResultOfMore ==
  ASSUME NEW what, NEW base, NEW s, IsSeq(s), NEW x
  PROVE  Result(what, base, Append(s, x)) = Does(what, Result(what, base, s), x)
<1>1. PICK S : s \in Seq(S)
  BY DEF IsSeq
<1> QED BY <1>1, ResultAppend

LEMMA ShownMore ==
  ASSUME NEW rows, NEW told, IsSeq(told), NEW t
  PROVE  Shown(rows, Append(told, t)) = Shows(Shown(rows, told), t)
<1> DEFINE what == [fold |-> "show"]
           more == Append(told, t)
<1>1. Shown(rows, told) = Result(what, rows, told)
  BY AppendIsSeq, ShownIsTheFold
<1>2. IsSeq(more)
  BY AppendIsSeq
<1>3. Len(more) \in Nat /\ DOMAIN more = 1..Len(more)
  BY <1>2, AppendIsSeq
<1>4. Shown(rows, more) = Result(what, rows, more)
  BY <1>3, ShownIsTheFold
<1>5. Result(what, rows, more) = Does(what, Result(what, rows, told), t)
  BY ResultOfMore
<1> QED BY <1>1, <1>4, <1>5 DEF Does

LEMMA HeadedMore ==
  ASSUME NEW heads, NEW told, IsSeq(told), NEW t
  PROVE  Headed(heads, Append(told, t)) = Heads(Headed(heads, told), t)
<1> DEFINE what == [fold |-> "head"]
           more == Append(told, t)
<1>1. Headed(heads, told) = Result(what, heads, told)
  BY AppendIsSeq, HeadedIsTheFold
<1>2. IsSeq(more)
  BY AppendIsSeq
<1>3. Len(more) \in Nat /\ DOMAIN more = 1..Len(more)
  BY <1>2, AppendIsSeq
<1>4. Headed(heads, more) = Result(what, heads, more)
  BY <1>3, HeadedIsTheFold
<1>5. Result(what, heads, more) = Does(what, Result(what, heads, told), t)
  BY ResultOfMore
<1> QED BY <1>1, <1>4, <1>5 DEF Does

LEMMA KeptMore ==
  ASSUME NEW heads, IsSeq(heads), NEW heading
  PROVE  Kept(Append(heads, heading)) = Keeps(Kept(heads), heading)
<1> DEFINE what == [fold |-> "keep"]
           more == Append(heads, heading)
<1>1. Kept(heads) = Result(what, <<>>, heads)
  BY AppendIsSeq, KeptIsTheFold
<1>2. IsSeq(more)
  BY AppendIsSeq
<1>3. Len(more) \in Nat /\ DOMAIN more = 1..Len(more)
  BY <1>2, AppendIsSeq
<1>4. Kept(more) = Result(what, <<>>, more)
  BY <1>3, KeptIsTheFold
<1>5. Result(what, <<>>, more) = Does(what, Result(what, <<>>, heads), heading)
  BY ResultOfMore
<1> QED BY <1>1, <1>4, <1>5 DEF Does

LEMMA TellIs ==
  ASSUME NEW p, Formed(p), NEW t
  PROVE  LET q == Tell(p, t)
         IN  /\ Formed(q)
             /\ q.far = p.far /\ q.field = p.field /\ q.cursor = p.cursor /\ q.echo = p.echo
             /\ q.integration = p.integration /\ q.lines = p.lines
             /\ q.open = p.open /\ q.unshown = p.unshown /\ q.nextId = p.nextId
             /\ Results(q) = Shows(Results(p), t) /\ Headings(q) = Heads(Headings(p), t)
<1> DEFINE q == Tell(p, t)
<1>1. /\ DOMAIN q = DOMAIN p
      /\ q.far = p.far /\ q.field = p.field /\ q.cursor = p.cursor /\ q.echo = p.echo
      /\ q.integration = p.integration /\ q.lines = p.lines
      /\ q.open = p.open /\ q.unshown = p.unshown /\ q.nextId = p.nextId
      /\ q.submitted = p.submitted /\ q.held = p.held /\ q.selfTalk = p.selfTalk
      /\ q.told = Append(p.told, t)
  BY DEF Tell, NewPump, Formed
<1> HIDE DEF q
<1>2. IsSeq(p.told)
  BY DEF Formed
<1>3. Formed(q)
  BY <1>1, <1>2, AppendIsSeq DEF Formed
<1>4. Results(q) = Shows(Results(p), t) /\ Headings(q) = Heads(Headings(p), t)
  BY <1>1, <1>2, ShownMore, HeadedMore DEF Results, Headings
<1> QED BY <1>1, <1>3, <1>4 DEF q

\* Told of anything but text and headings, nobody sees a thing.
LEMMA TellCalmly ==
  ASSUME NEW p, Formed(p), NEW t, t.kind # "Output",
         t.kind # "CommandStarted" \/ t.line = NoText
  PROVE  LET q == Tell(p, t)
         IN  Calm(q, p) /\ q.open = p.open /\ q.unshown = p.unshown /\ q.nextId = p.nextId
<1>1. Shows(Results(p), t) = Results(p) /\ Heads(Headings(p), t) = Headings(p)
  BY DEF Shows, Heads
<1> QED BY <1>1, TellIs DEF Calm

LEMMA SettleIs ==
  ASSUME NEW p, Formed(p)
  PROVE  LET q == settle_running(p)
         IN  /\ Calm(q, p) /\ q.lines = p.lines
             /\ q.open = p.open /\ q.unshown = p.unshown /\ q.nextId = p.nextId
<1> DEFINE q == settle_running(p)
<1>1. /\ DOMAIN q = DOMAIN p
      /\ q.far = p.far /\ q.field = p.field /\ q.cursor = p.cursor /\ q.echo = p.echo
      /\ q.integration = p.integration /\ q.lines = p.lines
      /\ q.open = p.open /\ q.unshown = p.unshown /\ q.nextId = p.nextId
      /\ q.submitted = p.submitted /\ q.held = p.held /\ q.selfTalk = p.selfTalk
      /\ q.told = p.told
  BY DEF settle_running, NewPump, Formed
<1> HIDE DEF q
<1>2. Formed(q)
  BY <1>1 DEF Formed
<1> QED BY <1>1, <1>2 DEF Calm, Results, Headings, q

LEMMA OpenIs ==
  ASSUME NEW p, Formed(p), NEW id \in Nat \ {0}, NEW heading
  PROVE  LET q == open(p, id, heading)
         IN  /\ Apart(q, p) /\ q.echo = p.echo /\ q.open = id
             /\ Results(q) = Results(p)
             /\ Headings(q) = Heads(Headings(p), Started(id, heading))
<1> DEFINE r == [p EXCEPT !.open = id, !.unshown = FALSE]
<1>1. /\ DOMAIN r = DOMAIN p
      /\ r.far = p.far /\ r.field = p.field /\ r.cursor = p.cursor /\ r.echo = p.echo
      /\ r.integration = p.integration /\ r.lines = p.lines
      /\ r.open = id /\ r.unshown = FALSE /\ r.nextId = p.nextId
      /\ r.submitted = p.submitted /\ r.held = p.held /\ r.selfTalk = p.selfTalk
      /\ r.told = p.told
  BY DEF NewPump, Formed
<1>2. open(p, id, heading) = Tell(r, Started(id, heading))
  BY DEF open
<1> HIDE DEF r
<1>3. Formed(r) /\ Results(r) = Results(p) /\ Headings(r) = Headings(p)
  BY <1>1 DEF Formed, Results, Headings
<1>4. Shows(Results(r), Started(id, heading)) = Results(r)
  BY DEF Shows, Started
<1> QED BY <1>1, <1>2, <1>3, <1>4, TellIs DEF Apart

\* Nothing that is told at the end of a block shows.
LEMMA CloseIs ==
  ASSUME NEW p, Formed(p), NEW exit
  PROVE  LET q == close(p, exit)
         IN  Calm(q, p) /\ q.open = NoCommand /\ q.nextId = p.nextId
<1> DEFINE r == Shut(p)
           t == Ending(p, exit)
           told == IF p.unshown THEN r ELSE Tell(r, t)
<1>1. CASE p.open = NoCommand
  BY <1>1, CalmAsItself DEF close
<1>2. CASE p.open # NoCommand
  <2>1. /\ DOMAIN r = DOMAIN p
        /\ r.far = p.far /\ r.field = p.field /\ r.cursor = p.cursor /\ r.echo = p.echo
        /\ r.integration = p.integration
        /\ r.lines = [row \in Rows |-> [p.lines[row] EXCEPT !.owed = FALSE]]
        /\ r.open = NoCommand /\ r.unshown = FALSE /\ r.nextId = p.nextId
        /\ r.submitted = p.submitted /\ r.held = p.held /\ r.selfTalk = p.selfTalk
        /\ r.told = p.told
    BY DEF Shut, NewPump, Formed
  <2>2. t.kind \in {"CommandEnded", "CommandInterrupted"}
    BY DEF Ending, Interrupted, Ended
  <2>3. close(p, exit) = settle_running(told)
    <3>1. Unmuted(told, p.open) = told
      <4>1. r.selfTalk = NoCommand /\ Formed(p)
        BY <2>1 DEF Formed
      <4>2. told.selfTalk = r.selfTalk
        BY <2>1 DEF Tell, NewPump, Formed
      <4> QED BY <1>2, <4>1, <4>2 DEF Unmuted
    <3> QED BY <1>2, <3>1 DEF close
  <2> HIDE DEF r, t
  <2>4. r.lines \in [Rows -> Recording] /\ \A row \in Rows : r.lines[row].text = p.lines[row].text
    <3>1. \A row \in Rows : p.lines[row] \in Recording
      BY DEF Formed
    <3>2. \A row \in Rows : /\ [p.lines[row] EXCEPT !.owed = FALSE] \in Recording
                            /\ [p.lines[row] EXCEPT !.owed = FALSE].text = p.lines[row].text
      BY <3>1 DEF Recording
    <3> QED BY <2>1, <3>2
  <2>5. Calm(r, p)
    <3>1. Formed(r)
      <4>1. r.open \in Nat
        BY <2>1 DEF NoCommand
      <4>2. ~r.unshown /\ r.unshown \in BOOLEAN
        BY <2>1
      <4> QED BY <2>1, <2>4, <4>1, <4>2 DEF Formed
    <3> QED BY <2>1, <2>4, <3>1 DEF Calm, Results, Headings
  <2>6. Calm(told, r) /\ told.open = NoCommand /\ told.nextId = p.nextId
    BY <2>1, <2>2, <2>5, TellCalmly, CalmAsItself DEF Calm
  <2> HIDE DEF told
  <2>7. Calm(settle_running(told), told) /\ settle_running(told).open = NoCommand
        /\ settle_running(told).nextId = p.nextId
    BY <2>6, SettleIs DEF Calm
  <2> QED BY <2>3, <2>5, <2>6, <2>7, CalmIsTransitive
<1> QED BY <1>1, <1>2

LEMMA UnshownIs ==
  ASSUME NEW p, Formed(p), NEW r, r = [p EXCEPT !.nextId = @ + 1]
  PROVE  LET q == settle_running(open_unshown(r, p.nextId))
         IN  Calm(q, p) /\ q.open # NoCommand /\ q.unshown
<1> DEFINE s == open_unshown(r, p.nextId)
<1>1. /\ DOMAIN s = DOMAIN p
      /\ s.far = p.far /\ s.field = p.field /\ s.cursor = p.cursor /\ s.echo = p.echo
      /\ s.integration = p.integration /\ s.lines = p.lines
      /\ s.open = p.nextId /\ s.unshown = TRUE /\ s.nextId = p.nextId + 1
      /\ s.submitted = p.submitted /\ s.held = p.held /\ s.selfTalk = p.selfTalk
      /\ s.told = p.told
  BY DEF open_unshown, NewPump, Formed
<1> HIDE DEF s
<1>2. Formed(s) /\ s.open # NoCommand
  <2>1. p.nextId \in Nat \ {0}
    BY DEF Formed
  <2>2. s.open \in Nat /\ s.open # NoCommand /\ s.nextId \in Nat \ {0}
    BY <1>1, <2>1 DEF NoCommand
  <2>3. s.unshown \in BOOLEAN
    BY <1>1
  <2> QED BY <1>1, <2>2, <2>3 DEF Formed
<1>3. Calm(s, p)
  BY <1>1, <1>2 DEF Calm, Results, Headings
<1>4. Calm(settle_running(s), s) /\ settle_running(s).open = s.open
      /\ settle_running(s).unshown = s.unshown
  BY <1>2, SettleIs
<1> QED BY <1>1, <1>2, <1>3, <1>4, CalmIsTransitive DEF s

LEMMA OutputPublishes ==
  ASSUME NEW p, Formed(p), p.open # NoCommand, NEW id \in Rows, NEW d \in Due,
         d.text # <<>> \/ ~p.unshown
  PROVE  Publishes(output(p, id, d), p, id, d)
<1> DEFINE r     == [p EXCEPT !.unshown = FALSE]
           shown == IF p.unshown THEN settle_running(Tell(r, Started(p.open, NoText))) ELSE p
           s     == [shown EXCEPT !.lines[id].shown = IF p.lines[id].seen THEN p.open ELSE @]
<1>1. Calm(shown, p) /\ shown.open = p.open
  <2>1. CASE p.unshown
    <3>1. /\ DOMAIN r = DOMAIN p
          /\ r.far = p.far /\ r.field = p.field /\ r.cursor = p.cursor /\ r.echo = p.echo
          /\ r.integration = p.integration /\ r.lines = p.lines
          /\ r.open = p.open /\ r.unshown = FALSE /\ r.nextId = p.nextId
          /\ r.submitted = p.submitted /\ r.held = p.held /\ r.selfTalk = p.selfTalk
          /\ r.told = p.told
      BY DEF NewPump, Formed
    <3>2. shown = settle_running(Tell(r, Started(p.open, NoText)))
      BY <2>1
    <3> HIDE DEF r, shown
    <3>3. Formed(r) /\ Calm(r, p)
      BY <3>1 DEF Calm, Formed, Results, Headings
    <3> DEFINE t == Tell(r, Started(p.open, NoText))
    <3>4. Calm(t, r) /\ t.open = r.open
      BY <3>3, TellCalmly DEF Started
    <3> HIDE DEF t
    <3>5. Calm(settle_running(t), t) /\ settle_running(t).open = t.open
      BY <3>4, SettleIs DEF Calm
    <3> QED BY <3>1, <3>2, <3>3, <3>4, <3>5, CalmIsTransitive DEF t
  <2> QED BY <2>1, CalmAsItself
<1>2. output(p, id, d) = Tell(s, Output(id, d))
  BY DEF output
<1> HIDE DEF shown
<1>3. Formed(shown)
  BY <1>1 DEF Calm
<1>4. /\ DOMAIN s = DOMAIN shown
      /\ s.far = shown.far /\ s.field = shown.field /\ s.cursor = shown.cursor
      /\ s.echo = shown.echo /\ s.integration = shown.integration
      /\ s.open = shown.open /\ s.unshown = shown.unshown /\ s.nextId = shown.nextId
      /\ s.submitted = shown.submitted /\ s.held = shown.held /\ s.selfTalk = shown.selfTalk
      /\ s.told = shown.told
  BY <1>3 DEF NewPump, Formed
<1>5. s.lines \in [Rows -> Recording]
      /\ \A row \in Rows : s.lines[row].text = shown.lines[row].text
  <2>1. shown.lines \in [Rows -> Recording] /\ p.open \in Nat
    BY <1>3 DEF Formed
  <2> DEFINE to == IF p.lines[id].seen THEN p.open ELSE shown.lines[id].shown
  <2>2. s.lines = [shown.lines EXCEPT ![id] = [shown.lines[id] EXCEPT !.shown = to]]
    BY <1>3, <2>1 DEF NewPump, Formed, Recording
  <2>3. to \in Nat
    BY <2>1 DEF Recording
  <2> HIDE DEF to, s
  <2>4. [shown.lines[id] EXCEPT !.shown = to] \in Recording
        /\ [shown.lines[id] EXCEPT !.shown = to].text = shown.lines[id].text
    BY <2>1, <2>3 DEF Recording
  <2> QED BY <2>1, <2>2, <2>4
<1> HIDE DEF s
<1>6. Formed(s) /\ Results(s) = Results(shown) /\ Headings(s) = Headings(shown)
  BY <1>3, <1>4, <1>5 DEF Formed, Results, Headings
<1>7. Heads(Headings(s), Output(id, d)) = Headings(s)
  BY DEF Heads, Output
<1>8. /\ Formed(Tell(s, Output(id, d)))
      /\ Tell(s, Output(id, d)).far = s.far /\ Tell(s, Output(id, d)).field = s.field
      /\ Tell(s, Output(id, d)).cursor = s.cursor /\ Tell(s, Output(id, d)).echo = s.echo
      /\ Tell(s, Output(id, d)).integration = s.integration
      /\ Tell(s, Output(id, d)).lines = s.lines /\ Tell(s, Output(id, d)).open = s.open
      /\ Results(Tell(s, Output(id, d))) = Shows(Results(s), Output(id, d))
      /\ Headings(Tell(s, Output(id, d))) = Headings(s)
  BY <1>6, <1>7, TellIs
<1> QED BY <1>1, <1>2, <1>4, <1>5, <1>6, <1>8 DEF Publishes, Apart, Calm

LEMMA PublishPublishes ==
  ASSUME NEW p, Formed(p), NEW id \in Rows, NEW d \in Due, d.text # <<>>
  PROVE  Publishes(publish(p, id, d), p, id, d)
<1>1. CASE p.open # NoCommand
  BY <1>1, OutputPublishes DEF publish
<1>2. CASE p.open = NoCommand
  <2> DEFINE r == unclaimed(p)
  <2>1. Calm(r, p) /\ r.open # NoCommand
    BY UnshownIs DEF unclaimed
  <2>2. publish(p, id, d) = output(r, id, d)
    BY <1>2 DEF publish
  <2> HIDE DEF r
  <2>3. Publishes(output(r, id, d), r, id, d)
    BY <2>1, OutputPublishes DEF Calm
  <2> QED BY <2>1, <2>2, <2>3 DEF Publishes, Calm, Apart
<1> QED BY <1>1, <1>2

\* The last prompt is told of; that is no heading.
LEMMA PromptFinishedIs ==
  ASSUME NEW p, Formed(p), NEW now
  PROVE  LET q == prompt_finished(p, now) IN Calm(q, p) /\ q.open = p.open
<1> DEFINE r == [p EXCEPT !.drawing = NoText]
           s == [r EXCEPT !.standing = p.drawing]
<1>1. CASE now = "Prompt" \/ p.drawing = NoText
  BY <1>1, CalmAsItself DEF prompt_finished
<1>2. CASE ~(now = "Prompt" \/ p.drawing = NoText)
  <2>1. /\ DOMAIN r = DOMAIN p
        /\ r.far = p.far /\ r.field = p.field /\ r.cursor = p.cursor /\ r.echo = p.echo
        /\ r.integration = p.integration /\ r.lines = p.lines
        /\ r.open = p.open /\ r.unshown = p.unshown /\ r.nextId = p.nextId
        /\ r.submitted = p.submitted /\ r.held = p.held /\ r.selfTalk = p.selfTalk
        /\ r.told = p.told
    BY DEF NewPump, Formed
  <2>2. Calm(r, p)
    BY <2>1 DEF Calm, Formed, Results, Headings
  <2>3. /\ DOMAIN s = DOMAIN p
        /\ s.far = p.far /\ s.field = p.field /\ s.cursor = p.cursor /\ s.echo = p.echo
        /\ s.integration = p.integration /\ s.lines = p.lines
        /\ s.open = p.open /\ s.unshown = p.unshown /\ s.nextId = p.nextId
        /\ s.submitted = p.submitted /\ s.held = p.held /\ s.selfTalk = p.selfTalk
        /\ s.told = p.told
    BY DEF NewPump, Formed
  <2>4. prompt_finished(p, now) = r \/ prompt_finished(p, now) = Tell(s, PromptDrawn(p.drawing))
    BY <1>2 DEF prompt_finished
  <2> HIDE DEF r, s
  <2>5. Calm(s, p)
    BY <2>3 DEF Calm, Formed, Results, Headings
  <2>6. Calm(Tell(s, PromptDrawn(p.drawing)), s)
        /\ Tell(s, PromptDrawn(p.drawing)).open = s.open
    BY <2>5, TellCalmly DEF Calm, PromptDrawn
  <2> QED BY <2>1, <2>2, <2>3, <2>4, <2>5, <2>6, CalmIsTransitive
<1> QED BY <1>1, <1>2

\* The part of a text.
LEMMA PartOf ==
  ASSUME NEW S, NEW s \in Seq(S), NEW m \in Nat \ {0}, NEW n \in Nat, n <= Len(s)
  PROVE  /\ SubSeq(s, m, n) \in Seq(S)
         /\ Len(SubSeq(s, m, n)) = IF m <= n THEN n - m + 1 ELSE 0
         /\ \A i \in 1..(n - m + 1) : SubSeq(s, m, n)[i] = s[m + i - 1]
<1>1. \A i \in m..n : s[i] \in S
  OBVIOUS
<1> QED BY <1>1, SubSeqProperties

LEMMA EchoTypes ==
  ASSUME NEW echo \in Echoes, NEW region, NEW text \in Texts, NEW revision
  PROVE  observe_echo(echo, region, text, revision) \in Echoes
<1> DEFINE rest == SubSeq(text, Len(echo.prompt) + 1, Len(text))
<1>1. echo.prompt \in Texts /\ echo.text \in Texts \cup {NoText} /\ <<>> \in Texts
  BY DEF Echoes, Texts
<1>2. rest \in Texts
  <2>1. Len(echo.prompt) + 1 \in Nat \ {0} /\ Len(text) \in Nat /\ Len(text) <= Len(text)
    BY <1>1 DEF Texts
  <2> QED BY <2>1, PartOf DEF Texts
<1>3. echo.prompt \o text \in Texts
  BY <1>1 DEF Texts
<1>4. echo.text # NoText => echo.text \o text \in Texts
  BY <1>1 DEF Texts
<1> HIDE DEF rest
<1>5. /\ [echo EXCEPT !.text = NoText] \in Echoes
      /\ [echo EXCEPT !.text = rest] \in Echoes
      /\ \A t \in Texts : [echo EXCEPT !.text = t] \in Echoes
      /\ \A t \in Texts : [prompt |-> t, text |-> <<>>] \in Echoes
  BY <1>1, <1>2 DEF Echoes
<1>6. CASE region = "CommandLine"
  <2>1. observe_echo(echo, region, text, revision) =
          [echo EXCEPT !.text =
                IF revision = "Appended"
                THEN IF echo.text = NoText THEN NoText ELSE echo.text \o text
                ELSE IF IsPrefix(echo.prompt, text)
                     THEN rest ELSE NoText]
    BY <1>6 DEF observe_echo, Echoes, rest
  <2> QED BY <2>1, <1>2, <1>4, <1>5
<1>7. CASE region = "Prompt"
  <2>1. observe_echo(echo, region, text, revision) =
          [prompt |-> IF revision = "Appended" THEN echo.prompt \o text ELSE text,
             text   |-> <<>>]
    BY <1>7 DEF observe_echo
  <2> QED BY <2>1, <1>3, <1>5
<1>8. CASE region # "CommandLine" /\ region # "Prompt"
  <2>1. observe_echo(echo, region, text, revision) = [prompt |-> <<>>, text |-> <<>>]
    BY <1>8 DEF observe_echo
  <2> QED BY <2>1, <1>1, <1>5
<1> QED BY <1>6, <1>7, <1>8

\* A block that the tracker starts: within one nothing but the echo is reset,
\* otherwise the echo heads it, if it is any.
LEMMA BlockStartedIs ==
  ASSUME NEW p, Formed(p)
  PROVE  LET q == block_started(p)
         IN  /\ Apart(q, p) /\ q.echo = NoEcho /\ q.open # NoCommand
             /\ Results(q) = Results(p)
             /\ Headings(q) = IF p.open # NoCommand \/ p.echo.text \in {<<>>, NoText}
                              THEN Headings(p) ELSE Append(Headings(p), p.echo.text)
<1> DEFINE echo    == IF p.echo.text = <<>> THEN NoText ELSE p.echo.text
           taken   == [p EXCEPT !.echo = NoEcho]
           c       == close(taken, NoExit)
           r       == [c EXCEPT !.nextId = @ + 1]
<1>1. /\ DOMAIN taken = DOMAIN p
      /\ taken.far = p.far /\ taken.field = p.field /\ taken.cursor = p.cursor
      /\ taken.echo = NoEcho
      /\ taken.integration = p.integration /\ taken.lines = p.lines
      /\ taken.open = p.open /\ taken.unshown = p.unshown /\ taken.nextId = p.nextId
      /\ taken.submitted = p.submitted /\ taken.held = p.held /\ taken.selfTalk = p.selfTalk
      /\ taken.told = p.told
  BY DEF NewPump, Formed
<1>2. NoEcho \in [prompt : Texts, text : Texts \cup {NoText}]
  BY DEF NoEcho, Texts
<1>3. block_started(p) =
         IF p.open # NoCommand /\ p.submitted = <<>>
         THEN taken
         ELSE LET claimed == claim(c, echo)
                  named   == IF echo # NoText THEN echo ELSE claimed.line
              IN  settle_running(
                IF claimed.minted /\ named = NoText
                THEN open_unshown(claimed.pump, claimed.id)
                ELSE open(claimed.pump, claimed.id, named))
  BY DEF block_started, NoEcho
<1> HIDE DEF taken
<1>4. Formed(taken)
  BY <1>1, <1>2 DEF Formed
<1>5. Apart(taken, p) /\ Results(taken) = Results(p) /\ Headings(taken) = Headings(p)
  BY <1>1, <1>4 DEF Apart, Results, Headings
<1>6. CASE p.open # NoCommand
  <2>1. block_started(p) = taken
    BY <1>3, <1>6 DEF Formed
  <2> QED BY <1>1, <1>5, <1>6, <2>1
<1>7. CASE p.open = NoCommand
  <2>1. Calm(c, taken) /\ c.nextId = p.nextId
    BY <1>1, <1>4, CloseIs
  <2> HIDE DEF c
  <2>2. Formed(c) /\ c.submitted = <<>>
    BY <2>1 DEF Calm, Formed
  <2>3. /\ claim(c, echo).pump = r /\ claim(c, echo).id = c.nextId
        /\ claim(c, echo).line = NoText /\ claim(c, echo).minted = TRUE
    BY <2>2 DEF claim
  <2>4. block_started(p) = settle_running(IF echo = NoText THEN open_unshown(r, c.nextId)
                                          ELSE open(r, c.nextId, echo))
    <3> HIDE DEF echo, r
    <3> QED BY <1>3, <1>7, <2>3
  <2>5. CASE echo = NoText
    <3>1. Calm(settle_running(open_unshown(r, c.nextId)), c)
          /\ settle_running(open_unshown(r, c.nextId)).open # NoCommand
      BY <2>2, UnshownIs
    <3>2. p.echo.text \in {<<>>, NoText}
      BY <2>5
    <3> HIDE DEF r, echo
    <3> QED BY <1>1, <1>5, <2>1, <2>4, <2>5, <3>1, <3>2 DEF Calm, Apart
  <2>6. CASE echo # NoText
    <3>1. echo = p.echo.text /\ p.echo.text \notin {<<>>, NoText}
      BY <2>6
    <3>2. /\ DOMAIN r = DOMAIN c
          /\ r.far = c.far /\ r.field = c.field /\ r.cursor = c.cursor /\ r.echo = c.echo
          /\ r.integration = c.integration /\ r.lines = c.lines
          /\ r.open = c.open /\ r.unshown = c.unshown /\ r.nextId = c.nextId + 1
          /\ r.submitted = c.submitted /\ r.held = c.held /\ r.selfTalk = c.selfTalk
          /\ r.told = c.told
      BY <2>2 DEF NewPump, Formed
    <3> HIDE DEF r, echo
    <3>3. c.nextId \in Nat \ {0} /\ r.nextId \in Nat \ {0}
      BY <2>2, <3>2 DEF Formed
    <3>4. Formed(r) /\ Calm(r, c)
      <4>1. Formed(r)
        BY <2>2, <3>2, <3>3 DEF Formed
      <4> QED BY <3>2, <4>1 DEF Calm, Results, Headings
    <3> DEFINE o == open(r, c.nextId, echo)
               heading == Started(c.nextId, echo)
    <3>5. /\ Apart(o, r) /\ o.echo = r.echo /\ o.open = c.nextId
          /\ Results(o) = Results(r) /\ Headings(o) = Heads(Headings(r), heading)
      BY <3>3, <3>4, OpenIs
    <3>6. Heads(Headings(r), heading) = Append(Headings(r), echo)
      BY <2>6 DEF Heads, Started
    <3> HIDE DEF o, heading
    <3>7. Calm(settle_running(o), o) /\ settle_running(o).open = o.open
      BY <3>5, SettleIs DEF Apart
    <3>8. block_started(p) = settle_running(o)
      BY <2>4, <2>6 DEF o
    <3>9. o.open # NoCommand
      BY <3>3, <3>5 DEF NoCommand
    <3> QED BY <1>1, <1>5, <1>7, <2>1, <3>1, <3>4, <3>5, <3>6, <3>7, <3>8, <3>9
            DEF Calm, Apart
  <2> QED BY <2>5, <2>6
<1> QED BY <1>6, <1>7

LEMMA RecordedIs ==
  ASSUME NEW row \in Recording, NEW text \in Texts, NEW revision \in Revisions
  PROVE  /\ Recorded(row, text, revision) \in Recording
         /\ Recorded(row, text, revision).text = After(row.text, text, revision)
<1>1. row.text \o text \in Texts
  BY DEF Recording, Texts
<1>2. CASE revision = "Appended"
  <2>1. Recorded(row, text, revision) =
           [row EXCEPT !.seen = TRUE, !.owed = FALSE, !.text = row.text \o text]
    BY <1>2 DEF Recorded, Recording
  <2> QED BY <1>1, <1>2, <2>1 DEF Recording, After
<1>3. CASE revision = "Rewritten"
  <2>1. Recorded(row, text, revision) =
           [row EXCEPT !.seen = TRUE, !.owed = TRUE, !.text = text]
    BY <1>3 DEF Recorded
  <2> QED BY <1>3, <2>1 DEF Recording, After
<1> QED BY <1>2, <1>3 DEF Revisions

LEMMA DrawnIs ==
  ASSUME NEW p, Formed(p), reports_exit_code, NEW now, NEW region, NEW text, NEW revision
  PROVE  LET q == drawn(p, now, region, text, revision) IN Calm(q, p) /\ q.open = p.open
<1>1. CASE region # "Prompt"
  BY <1>1, PromptFinishedIs DEF drawn
<1>2. CASE region = "Prompt"
  <2> DEFINE to == IF revision = "Appended" /\ p.drawing # NoText
                   THEN p.drawing \o text ELSE text
             q  == [p EXCEPT !.drawing = to]
  <2>1. drawn(p, now, region, text, revision) = q
    BY <1>2 DEF drawn, NewPump, Formed
  <2> HIDE DEF to
  <2>2. /\ DOMAIN q = DOMAIN p
        /\ q.far = p.far /\ q.field = p.field /\ q.cursor = p.cursor /\ q.echo = p.echo
        /\ q.integration = p.integration /\ q.lines = p.lines
        /\ q.open = p.open /\ q.unshown = p.unshown /\ q.nextId = p.nextId
        /\ q.submitted = p.submitted /\ q.held = p.held /\ q.selfTalk = p.selfTalk
        /\ q.told = p.told
    BY DEF NewPump, Formed
  <2> HIDE DEF q
  <2>3. Formed(q)
    BY <2>2 DEF Formed
  <2> QED BY <2>1, <2>2, <2>3 DEF Calm, Results, Headings
<1> QED BY <1>1, <1>2

LEMMA LineIsDrawn ==
  ASSUME NEW p, Formed(p), reports_exit_code, NEW now,
         NEW region \in {"Prompt", "CommandLine", "Output"}, NEW id \in Rows,
         NEW text \in Texts, NEW revision \in Revisions,
         region = "Output" => text # <<>>,
         ~recoloured(p, id, text, revision)
  PROVE  IsDrawn(line(p, now, region, id, text, revision), p, region, id, text, revision)
<1> DEFINE d     == drawn(p, now, region, text, revision)
           heard == [d EXCEPT !.echo   = observe_echo(@, region, text, revision),
                              !.cursor = IF revision = "Settled" THEN @ ELSE id,
                              !.lines[id] = Recorded(@, text, revision)]
           news  == due(p.lines[id], text, revision)
           passed  == IF news = NoDue \/ ~wants(p, region) THEN heard
                    ELSE IF p.open # NoCommand /\ ~pending_echo(p, id)
                    THEN output(heard, id, news)
                    ELSE hold(heard, id, news)
           bounded == boundary(passed, region, id, text, revision)
<1>1. Calm(d, p) /\ d.open = p.open /\ Formed(d)
  BY DrawnIs DEF Calm
<1>2. line(p, now, region, id, text, revision) =
         IF bounded.submitted = <<>> THEN spill(bounded) ELSE bounded
  BY DEF line
<1> HIDE DEF d
<1>3. revision # "Settled"
  BY DEF Revisions
<1>4. /\ DOMAIN heard = DOMAIN d
      /\ heard.far = d.far /\ heard.field = d.field /\ heard.cursor = id
      /\ heard.echo = observe_echo(d.echo, region, text, revision)
      /\ heard.integration = d.integration
      /\ heard.lines = [d.lines EXCEPT ![id] = Recorded(d.lines[id], text, revision)]
      /\ heard.open = d.open /\ heard.unshown = d.unshown /\ heard.nextId = d.nextId
      /\ heard.submitted = d.submitted /\ heard.held = d.held /\ heard.selfTalk = d.selfTalk
      /\ heard.told = d.told
  BY <1>1, <1>3 DEF NewPump, Formed
<1> HIDE DEF heard
<1>5. d.lines \in [Rows -> Recording] /\ p.lines \in [Rows -> Recording]
      /\ d.echo \in Echoes /\ d.echo = p.echo
      /\ \A row \in Rows : d.lines[row].text = p.lines[row].text
  BY <1>1 DEF Formed, Echoes, Calm
<1>6. heard.lines \in [Rows -> Recording]
      /\ \A row \in Rows : heard.lines[row].text = IF row = id
                                             THEN After(p.lines[row].text, text, revision)
                                             ELSE p.lines[row].text
  <2>1. /\ Recorded(d.lines[id], text, revision) \in Recording
        /\ Recorded(d.lines[id], text, revision).text = After(p.lines[id].text, text, revision)
    BY <1>5, RecordedIs
  <2> QED BY <1>4, <1>5, <2>1
<1>7. Formed(heard)
  <2>1. heard.echo \in [prompt : Texts, text : Texts \cup {NoText}]
    BY <1>4, <1>5, EchoTypes DEF Echoes
  <2>2. heard.cursor \in Places
    BY <1>4 DEF Places
  <2> QED BY <1>1, <1>4, <1>6, <2>1, <2>2 DEF Formed
<1>8. Results(heard) = Results(p) /\ Headings(heard) = Headings(p)
  BY <1>1, <1>4 DEF Results, Headings, Calm
<1>9. news = [revision |-> revision, text |-> text, spoken |-> revision # "Rewritten"]
  BY <1>3 DEF due
<1> HIDE DEF news
<1>10. news \in Due /\ news.text = text /\ news # NoDue
  <2>1. news \in Due /\ news.text = text /\ news.revision = revision
    BY <1>9 DEF Due, Revisions
  <2>2. NoDue.revision = "None" /\ revision # "None"
    BY DEF NoDue, Revisions
  <2> QED BY <2>1, <2>2
<1>11. CASE region # "Output" \/ ~wants(p, region)
  <2>1. region # "Output"
    <3>1. wants(p, "Output")
      BY DEF wants, marked, Formed
    <3> QED BY <1>11, <3>1
  <2>2. ~wants(p, region)
    BY <2>1 DEF wants, marked
  <2>3. passed = heard
    BY <2>2
  <2> HIDE DEF passed
  <2>4. bounded = [heard EXCEPT !.row = <<>>]
    BY <1>7, <2>3 DEF boundary, Formed
  <2> HIDE DEF bounded
  <2>5. /\ DOMAIN bounded = DOMAIN heard
        /\ bounded.far = heard.far /\ bounded.field = heard.field
        /\ bounded.cursor = heard.cursor /\ bounded.echo = heard.echo
        /\ bounded.integration = heard.integration /\ bounded.lines = heard.lines
        /\ bounded.open = heard.open /\ bounded.unshown = heard.unshown
        /\ bounded.nextId = heard.nextId
        /\ bounded.submitted = heard.submitted /\ bounded.held = heard.held
        /\ bounded.selfTalk = heard.selfTalk /\ bounded.told = heard.told
    BY <1>7, <2>4 DEF NewPump, Formed
  <2>6. Formed(bounded)
    BY <1>7, <2>5 DEF Formed
  <2>7. line(p, now, region, id, text, revision) = bounded
    BY <1>2, <2>6 DEF spill, Formed
  <2> QED BY <1>1, <1>4, <1>5, <1>6, <1>8, <2>1, <2>5, <2>6, <2>7
          DEF IsDrawn, Calm, Results, Headings
<1>12. CASE region = "Output" /\ wants(p, region)
  <2>1. Publishes(passed, heard, id, news)
    <3>1. CASE p.open # NoCommand /\ ~pending_echo(p, id)
      <4>1. passed = output(heard, id, news)
        BY <1>10, <1>12, <3>1
      <4>2. heard.open # NoCommand
        BY <1>1, <1>4, <3>1
      <4> QED BY <1>7, <1>10, <1>12, <4>1, <4>2, OutputPublishes
    <3>2. CASE ~(p.open # NoCommand /\ ~pending_echo(p, id))
      <4>1. passed = hold(heard, id, news)
        BY <1>10, <1>12, <3>2
      <4>2. hold(heard, id, news) = publish(heard, id, news)
        BY <1>7 DEF hold, window, spill, Formed
      <4> QED BY <1>7, <1>10, <1>12, <4>1, <4>2, PublishPublishes
    <3> QED BY <3>1, <3>2
  <2> HIDE DEF passed
  <2>2. Formed(passed)
    BY <2>1 DEF Publishes, Apart
  <2>3. bounded = [passed EXCEPT !.row = <<>>]
    BY <2>2 DEF boundary, Formed
  <2> HIDE DEF bounded
  <2>4. /\ DOMAIN bounded = DOMAIN passed
        /\ bounded.far = passed.far /\ bounded.field = passed.field
        /\ bounded.cursor = passed.cursor /\ bounded.echo = passed.echo
        /\ bounded.integration = passed.integration /\ bounded.lines = passed.lines
        /\ bounded.open = passed.open /\ bounded.unshown = passed.unshown
        /\ bounded.nextId = passed.nextId
        /\ bounded.submitted = passed.submitted /\ bounded.held = passed.held
        /\ bounded.selfTalk = passed.selfTalk /\ bounded.told = passed.told
    BY <2>2, <2>3 DEF NewPump, Formed
  <2>5. Formed(bounded)
    BY <2>2, <2>4 DEF Formed
  <2>6. line(p, now, region, id, text, revision) = bounded
    BY <1>2, <2>5 DEF spill, Formed
  <2>7. Results(bounded) = Shows(Results(heard), Output(id, news))
        /\ Headings(bounded) = Headings(heard)
    BY <2>1, <2>4 DEF Publishes, Results, Headings
  <2>8. /\ bounded.far = heard.far /\ bounded.field = heard.field
        /\ bounded.cursor = heard.cursor /\ bounded.echo = heard.echo
        /\ bounded.integration = heard.integration /\ bounded.open # NoCommand
        /\ \A row \in Rows : bounded.lines[row].text = heard.lines[row].text
    BY <2>1, <2>4 DEF Publishes, Apart
  <2> QED BY <1>1, <1>4, <1>5, <1>6, <1>8, <1>9, <1>12, <2>5, <2>6, <2>7, <2>8
          DEF IsDrawn, Calm
<1> QED BY <1>11, <1>12

\* A row drawn again as it was only changes its colours.
LEMMA LineIsRecoloured ==
  ASSUME NEW p, Formed(p), NEW now, NEW region, NEW id \in Rows,
         NEW text \in Texts, NEW revision, recoloured(p, id, text, revision)
  PROVE  LET q == line(p, now, region, id, text, revision)
         IN  /\ Apart(q, p) /\ q.echo = p.echo /\ q.open = p.open
             /\ Headings(q) = Headings(p)
             /\ \/ Results(q) = Results(p)
                \/ \E d \in Due : Results(q) = Shows(Results(p), Output(id, d))
<1> DEFINE d == [revision |-> "Rewritten", text |-> text, spoken |-> FALSE]
<1>1. line(p, now, region, id, text, revision) \in {p, Tell(p, Output(id, d))}
  BY DEF line, recolour
<1>2. d \in Due /\ Heads(Headings(p), Output(id, d)) = Headings(p)
  BY DEF Due, Heads, Output
<1> HIDE DEF d
<1>3. CASE line(p, now, region, id, text, revision) = p
  BY <1>3 DEF Apart
<1>4. CASE line(p, now, region, id, text, revision) = Tell(p, Output(id, d))
  BY <1>2, <1>4, TellIs DEF Apart
<1> QED BY <1>1, <1>3, <1>4

\* The least of the positions that are marked out.
LEMMA LeastOf ==
  ASSUME NEW S \in SUBSET Nat, S # {}
  PROVE  Min(S) \in S /\ \A i \in S : Min(S) <= i
<1>1. \E x \in S : \A y \in S : x <= y
  BY LeastOfNat
<1> QED BY <1>1 DEF Min

LEMMA NotedTypes ==
  ASSUME NEW far \in FarEndLines, NEW id \in Rows, NEW before \in Texts, NEW after \in Texts
  PROVE  Noted(far, id, before, after) \in Seq(Change)
<1> DEFINE c == far.changed
<1>1. c \in Seq(Change) /\ Len(c) \in Nat /\ DOMAIN c = 1..Len(c)
  BY DEF FarEndLines
<1>2. [line |-> id, before |-> before, after |-> after] \in Change
  BY DEF Change
<1>3. CASE far.owner # "FarEnd" \/ ~far.watching
  BY <1>1, <1>3 DEF Noted
<1>4. CASE ~(far.owner # "FarEnd" \/ ~far.watching) /\ Notes(far, id) = {}
  BY <1>1, <1>2, <1>4 DEF Noted
<1>5. CASE ~(far.owner # "FarEnd" \/ ~far.watching) /\ Notes(far, id) # {}
  <2> DEFINE m == Min(Notes(far, id))
  <2>1. m \in 1..Len(c)
    <3>1. Notes(far, id) \in SUBSET Nat /\ Notes(far, id) \subseteq 1..Len(c)
      BY <1>1 DEF Notes
    <3> QED BY <1>5, <3>1, LeastOf
  <2>2. Noted(far, id, before, after) = [c EXCEPT ![m] = [c[m] EXCEPT !.after = after]]
    BY <1>5 DEF Noted
  <2> HIDE DEF m
  <2>3. [c[m] EXCEPT !.after = after] \in Change
    <3>1. c[m] \in Change
      BY <1>1, <2>1
    <3> HIDE DEF c
    <3> QED BY <3>1 DEF Change
  <2> QED BY <1>1, <2>1, <2>2, <2>3, ExceptSeq
<1> QED BY <1>3, <1>4, <1>5

LEMMA NoteChangeIs ==
  ASSUME NEW p, Formed(p), NEW id \in Rows, NEW before \in Texts, NEW after \in Texts
  PROVE  LET q == note_change(p, id, before, after)
         IN  /\ Formed(q)
             /\ q.far = [p.far EXCEPT !.changed = Noted(p.far, id, before, after)]
             /\ q.field = p.field /\ q.cursor = p.cursor /\ q.echo = p.echo
             /\ q.integration = p.integration /\ q.lines = p.lines /\ q.open = p.open
             /\ Results(q) = Results(p) /\ Headings(q) = Headings(p)
<1> DEFINE q == note_change(p, id, before, after)
           c == Noted(p.far, id, before, after)
<1>1. p.far \in FarEndLines
  BY DEF Formed
<1>2. c \in Seq(Change)
  BY <1>1, NotedTypes
<1>3. \/ q = p /\ [p.far EXCEPT !.changed = c] = p.far
      \/ q = [p EXCEPT !.far = [p.far EXCEPT !.changed = c]]
  <2>1. CASE p.far.owner # "FarEnd" \/ ~p.far.watching
    <3>1. c = p.far.changed /\ q = p
      BY <2>1 DEF Noted, note_change
    <3>2. [p.far EXCEPT !.changed = c] = p.far
      BY <1>1, <3>1 DEF FarEndLines
    <3> QED BY <3>1, <3>2
  <2>2. CASE ~(p.far.owner # "FarEnd" \/ ~p.far.watching) /\ Notes(p.far, id) = {}
    <3>1. c = Append(p.far.changed, [line |-> id, before |-> before, after |-> after])
      BY <2>2 DEF Noted
    <3>2. q = [p EXCEPT !.far.changed =
                 Append(@, [line |-> id, before |-> before, after |-> after])]
      BY <2>2 DEF note_change, Notes
    <3> HIDE DEF c, q
    <3> QED BY <1>1, <3>1, <3>2 DEF FarEndLines
  <2>3. CASE ~(p.far.owner # "FarEnd" \/ ~p.far.watching) /\ Notes(p.far, id) # {}
    <3> DEFINE m == Min(Notes(p.far, id))
    <3>1. c = [p.far.changed EXCEPT ![m] = [@ EXCEPT !.after = after]]
      BY <2>3 DEF Noted
    <3>2. q = [p EXCEPT !.far.changed[m].after = after]
      BY <2>3 DEF note_change, Notes
    <3> HIDE DEF c, q, m
    <3> QED BY <1>1, <3>1, <3>2 DEF FarEndLines
  <2> QED BY <2>1, <2>2, <2>3
<1>4. [p.far EXCEPT !.changed = c] \in FarEndLines
  BY <1>1, <1>2 DEF FarEndLines
<1> HIDE DEF q, c
<1>5. /\ DOMAIN q = DOMAIN p
      /\ q.far = [p.far EXCEPT !.changed = c] /\ q.field = p.field
      /\ q.cursor = p.cursor /\ q.echo = p.echo
      /\ q.integration = p.integration /\ q.lines = p.lines
      /\ q.open = p.open /\ q.unshown = p.unshown /\ q.nextId = p.nextId
      /\ q.submitted = p.submitted /\ q.held = p.held /\ q.selfTalk = p.selfTalk
      /\ q.told = p.told
  BY <1>3 DEF NewPump, Formed
<1>6. Formed(q)
  BY <1>4, <1>5 DEF Formed
<1> QED BY <1>5, <1>6 DEF q, c, Results, Headings

LEMMA DrawnRowIs ==
  ASSUME NEW p, Formed(p), NEW now, NEW event,
         event.region \in {"Prompt", "CommandLine", "Output"}, event.id \in Rows,
         event.text \in Texts, event.revision \in Revisions, reports_exit_code,
         NEW l, l = line(p, now, event.region, event.id, event.text, event.revision),
         Formed(l), l.far = p.far
  PROVE  LET q == DrawnRow(p, now, event)
         IN  /\ Formed(q)
             /\ q.far = FarAfter(p, event.region, event.id, event.text, event.revision)
             /\ q.field = l.field /\ q.cursor = l.cursor /\ q.echo = l.echo
             /\ q.integration = l.integration /\ q.lines = l.lines /\ q.open = l.open
             /\ Results(q) = Results(l) /\ Headings(q) = Headings(l)
<1> DEFINE id     == event.id
           before == p.lines[id].text
           after  == After(before, event.text, event.revision)
           n      == note_change(l, id, before, after)
           e      == Entry(id, event.text, event.revision)
           q      == DrawnRow(p, now, event)
<1>1. before \in Texts /\ after \in Texts
  <2>1. before \in Texts
    BY DEF Formed, Recording
  <2> HIDE DEF before
  <2> QED BY <2>1 DEF After, Texts
<1>2. /\ Formed(n)
      /\ n.far = [p.far EXCEPT !.changed = Noted(p.far, id, before, after)]
      /\ n.field = l.field /\ n.cursor = l.cursor /\ n.echo = l.echo
      /\ n.integration = l.integration /\ n.lines = l.lines /\ n.open = l.open
      /\ Results(n) = Results(l) /\ Headings(n) = Headings(l)
  BY <1>1, NoteChangeIs
<1>3. due(p.lines[id], event.text, event.revision) = e.due
  BY DEF due, Entry, Revisions
<1>4. wants(p, event.region) <=> event.region = "Output"
  BY DEF wants, marked, Formed
<1>5. q = IF event.region = "Output" \/ p.far.owner # "FarEnd" THEN n
          ELSE [n EXCEPT !.far.printed = Append(@, [id |-> id, due |-> e.due])]
  BY <1>3, <1>4 DEF DrawnRow, After
<1>6. [id |-> id, due |-> e.due] = e /\ e \in [id : Rows, due : Due]
  BY DEF Entry, Due, Revisions
<1> HIDE DEF n, e, q
<1>7. CASE event.region = "Output" \/ p.far.owner # "FarEnd"
  <2>1. n.far = FarAfter(p, event.region, event.id, event.text, event.revision)
    <3>1. n.far.printed = p.far.printed
      BY <1>2 DEF Formed, FarEndLines
    <3>2. p.far \in FarEndLines /\ n.far \in FarEndLines
      BY <1>2 DEF Formed
    <3> QED BY <1>2, <1>7, <3>1, <3>2 DEF FarAfter, FarEndLines
  <2> QED BY <1>2, <1>5, <1>7, <2>1 DEF q
<1>8. CASE ~(event.region = "Output" \/ p.far.owner # "FarEnd")
  <2>1. q = [n EXCEPT !.far = [n.far EXCEPT !.printed = Append(n.far.printed, e)]]
    BY <1>2, <1>5, <1>6, <1>8 DEF Formed
  <2>2. n.far \in FarEndLines /\ p.far \in FarEndLines
    BY <1>2 DEF Formed
  <2>3. [n.far EXCEPT !.printed = Append(n.far.printed, e)] \in FarEndLines
    <3>1. Append(n.far.printed, e) \in Seq([id : Rows, due : Due])
      BY <1>6, <2>2 DEF FarEndLines
    <3> QED BY <2>2, <3>1 DEF FarEndLines
  <2>4. [n.far EXCEPT !.printed = Append(n.far.printed, e)]
          = FarAfter(p, event.region, event.id, event.text, event.revision)
    BY <1>2, <1>8, <2>2 DEF FarAfter, FarEndLines, e
  <2>5. /\ DOMAIN q = DOMAIN n
        /\ q.far = FarAfter(p, event.region, event.id, event.text, event.revision)
        /\ q.field = n.field /\ q.cursor = n.cursor /\ q.echo = n.echo
        /\ q.integration = n.integration /\ q.lines = n.lines
        /\ q.open = n.open /\ q.unshown = n.unshown /\ q.nextId = n.nextId
        /\ q.submitted = n.submitted /\ q.held = n.held /\ q.selfTalk = n.selfTalk
        /\ q.told = n.told
    BY <1>2, <2>1, <2>4 DEF NewPump, Formed
  <2>6. Formed(q)
    BY <1>2, <2>3, <2>4, <2>5 DEF Formed
  <2> QED BY <1>2, <2>5, <2>6 DEF q, Results, Headings
<1> QED BY <1>7, <1>8

LEMMA FeedLine ==
  ASSUME NEW p, Formed(p), reports_exit_code, NEW now, NEW event, IsLine(event),
         ~recoloured(p, event.id, event.text, event.revision)
  PROVE  Fed(Feeds(p, now, event), p, event.region, event.id, event.text, event.revision)
<1> DEFINE l == line(p, now, event.region, event.id, event.text, event.revision)
           d == DrawnRow(p, now, event)
           q == prompt_finished(d, now)
<1>1. /\ event.region \in {"Prompt", "CommandLine", "Output"} /\ event.id \in Rows
      /\ event.text \in Texts /\ event.revision \in Revisions
      /\ event.region = "Output" => event.text # <<>>
      /\ Feeds(p, now, event) = q
  BY DEF IsLine, Feeds
<1>2. IsDrawn(l, p, event.region, event.id, event.text, event.revision)
  BY <1>1, LineIsDrawn
<1> HIDE DEF l
<1>3. Formed(l) /\ l.far = p.far
  BY <1>2 DEF IsDrawn
<1>4. /\ Formed(d)
      /\ d.far = FarAfter(p, event.region, event.id, event.text, event.revision)
      /\ d.field = l.field /\ d.cursor = l.cursor /\ d.echo = l.echo
      /\ d.integration = l.integration /\ d.lines = l.lines /\ d.open = l.open
      /\ Results(d) = Results(l) /\ Headings(d) = Headings(l)
  BY <1>1, <1>3, DrawnRowIs DEF l
<1> HIDE DEF d
<1>5. Calm(q, d) /\ q.open = d.open
  BY <1>4, PromptFinishedIs
<1> HIDE DEF q
<1>6. Entry(event.id, event.text, event.revision).due
         = [revision |-> event.revision, text |-> event.text,
            spoken |-> event.revision # "Rewritten"]
  BY DEF Entry
<1> QED BY <1>1, <1>2, <1>4, <1>5, <1>6 DEF Fed, IsDrawn, Calm

LEMMA FeedAgain ==
  ASSUME NEW p, Formed(p), reports_exit_code, NEW now, NEW event, IsLine(event),
         recoloured(p, event.id, event.text, event.revision)
  PROVE  LET q == Feeds(p, now, event)
         IN  /\ Formed(q)
             /\ q.far = FarAfter(p, event.region, event.id, event.text, event.revision)
             /\ q.field = p.field /\ q.integration = p.integration /\ q.cursor = p.cursor
             /\ q.echo = p.echo /\ q.open = p.open
             /\ \A row \in Rows : q.lines[row].text = p.lines[row].text
             /\ \/ Results(q) = Results(p)
                \/ \E d \in Due : Results(q) = Shows(Results(p), Output(event.id, d))
             /\ Headings(q) = Headings(p)
<1> DEFINE l == line(p, now, event.region, event.id, event.text, event.revision)
           d == DrawnRow(p, now, event)
           q == prompt_finished(d, now)
<1>1. /\ event.region \in {"Prompt", "CommandLine", "Output"} /\ event.id \in Rows
      /\ event.text \in Texts /\ event.revision \in Revisions
      /\ Feeds(p, now, event) = q
  BY DEF IsLine, Feeds
<1>2. /\ Apart(l, p) /\ l.echo = p.echo /\ l.open = p.open
             /\ Headings(l) = Headings(p)
             /\ \/ Results(l) = Results(p)
                \/ \E r \in Due : Results(l) = Shows(Results(p), Output(event.id, r))
  BY <1>1, LineIsRecoloured
<1> HIDE DEF l
<1>3. Formed(l) /\ l.far = p.far
  BY <1>2 DEF Apart
<1>4. /\ Formed(d)
      /\ d.far = FarAfter(p, event.region, event.id, event.text, event.revision)
      /\ d.field = l.field /\ d.cursor = l.cursor /\ d.echo = l.echo
      /\ d.integration = l.integration /\ d.lines = l.lines /\ d.open = l.open
      /\ Results(d) = Results(l) /\ Headings(d) = Headings(l)
  BY <1>1, <1>3, DrawnRowIs DEF l
<1> HIDE DEF d
<1>5. Calm(q, d) /\ q.open = d.open
  BY <1>4, PromptFinishedIs
<1> HIDE DEF q
<1> QED BY <1>1, <1>2, <1>4, <1>5 DEF Apart, Calm

LEMMA FeedMarkers ==
  ASSUME NEW p, Formed(p), NEW now
  PROVE  LET q == Feeds(p, now, BlockEvent("MarkersObserved"))
         IN  /\ Formed(q) /\ q.far = p.far /\ q.field = p.field /\ q.cursor = p.cursor
             /\ q.echo = p.echo /\ q.integration = "Integrated" /\ q.open = p.open
             /\ \A row \in Rows : q.lines[row].text = p.lines[row].text
             /\ Results(q) = Results(p) /\ Headings(q) = Headings(p)
<1> DEFINE r == [p EXCEPT !.integration = "Integrated"]
           t == Tell(r, Told("MarkersObserved"))
           q == prompt_finished(t, now)
<1>1. Feeds(p, now, BlockEvent("MarkersObserved")) = q
  BY DEF Feeds, Heard, BlockEvent
<1>2. /\ DOMAIN r = DOMAIN p
      /\ r.far = p.far /\ r.field = p.field /\ r.cursor = p.cursor /\ r.echo = p.echo
      /\ r.integration = "Integrated" /\ r.lines = p.lines
      /\ r.open = p.open /\ r.unshown = p.unshown /\ r.nextId = p.nextId
      /\ r.submitted = p.submitted /\ r.held = p.held /\ r.selfTalk = p.selfTalk
      /\ r.told = p.told
  BY DEF NewPump, Formed
<1> HIDE DEF r
<1>3. Formed(r)
  BY <1>2 DEF Formed
<1>4. Calm(t, r) /\ t.open = r.open
  BY <1>3, TellCalmly DEF Told
<1> HIDE DEF t
<1>5. Calm(q, t) /\ q.open = t.open
  BY <1>4, PromptFinishedIs DEF Calm
<1> HIDE DEF q
<1> QED BY <1>1, <1>2, <1>4, <1>5 DEF Calm, Results, Headings

LEMMA StandingIs ==
  ASSUME NEW p, Formed(p), NEW r, r = [p EXCEPT !.standing = NoText]
  PROVE  Calm(r, p) /\ r.open = p.open
<1>1. /\ DOMAIN r = DOMAIN p
      /\ r.far = p.far /\ r.field = p.field /\ r.cursor = p.cursor /\ r.echo = p.echo
      /\ r.integration = p.integration /\ r.lines = p.lines
      /\ r.open = p.open /\ r.unshown = p.unshown /\ r.nextId = p.nextId
      /\ r.submitted = p.submitted /\ r.held = p.held /\ r.selfTalk = p.selfTalk
      /\ r.told = p.told
  BY DEF NewPump, Formed
<1>2. Formed(r)
  BY <1>1 DEF Formed
<1> QED BY <1>1, <1>2 DEF Calm, Results, Headings

LEMMA FeedStarted ==
  ASSUME NEW p, Formed(p), NEW now
  PROVE  LET q == Feeds(p, now, BlockEvent("BlockStarted"))
         IN  /\ Apart(q, p) /\ q.echo = NoEcho /\ q.open # NoCommand
             /\ Results(q) = Results(p)
             /\ Headings(q) = IF p.open # NoCommand \/ p.echo.text \in {<<>>, NoText}
                              THEN Headings(p) ELSE Append(Headings(p), p.echo.text)
<1> DEFINE r == [p EXCEPT !.standing = NoText]
           t == block_started(r)
           q == prompt_finished(t, now)
<1>1. Feeds(p, now, BlockEvent("BlockStarted")) = q
  BY DEF Feeds, Heard, BlockEvent
<1>2. Calm(r, p) /\ r.open = p.open
  BY StandingIs
<1> HIDE DEF r
<1>3. /\ Apart(t, r) /\ t.echo = NoEcho /\ t.open # NoCommand
      /\ Results(t) = Results(r)
      /\ Headings(t) = IF r.open # NoCommand \/ r.echo.text \in {<<>>, NoText}
                       THEN Headings(r) ELSE Append(Headings(r), r.echo.text)
  BY <1>2, BlockStartedIs DEF Calm
<1> HIDE DEF t
<1>4. Calm(q, t) /\ q.open = t.open
  BY <1>3, PromptFinishedIs DEF Apart
<1> HIDE DEF q
<1> QED BY <1>1, <1>2, <1>3, <1>4 DEF Calm, Apart

LEMMA FeedEnded ==
  ASSUME NEW p, Formed(p), NEW now
  PROVE  LET q == Feeds(p, now, BlockEnd) IN Calm(q, p) /\ q.open = NoCommand
<1> DEFINE r == [p EXCEPT !.standing = NoText]
           t == close(r, 0)
           q == prompt_finished(t, now)
<1>1. Feeds(p, now, BlockEnd) = q
  BY DEF Feeds, Heard, BlockEnd
<1>2. Calm(r, p)
  BY StandingIs
<1> HIDE DEF r
<1>3. Calm(t, r) /\ t.open = NoCommand
  BY <1>2, CloseIs DEF Calm
<1> HIDE DEF t
<1>4. Calm(q, t) /\ q.open = t.open
  BY <1>3, PromptFinishedIs DEF Calm
<1> HIDE DEF q
<1> QED BY <1>1, <1>2, <1>3, <1>4, CalmIsTransitive

LEMMA NoneIsSeq == IsSeq(<<>>) /\ Len(<<>>) \in Nat /\ DOMAIN <<>> = 1..Len(<<>>)
<1>1. <<>> \in Seq({}) /\ Len(<<>>) = 0 /\ DOMAIN <<>> = {} /\ 1..0 = {}
  OBVIOUS
<1> QED BY <1>1 DEF IsSeq

LEMMA NilIsSeq == IsSeq(<<>>)
BY NoneIsSeq

LEMMA SeqIs ==
  ASSUME NEW s, IsSeq(s) PROVE Len(s) \in Nat /\ DOMAIN s = 1..Len(s)
BY DEF IsSeq

\* What is observed of one item more.
LEMMA ObservedMore ==
  ASSUME NEW t, NEW s, IsSeq(s), NEW item
  PROVE  Observed(t, Append(s, item)) = Sees(Observed(t, s), item)
<1> DEFINE what == [fold |-> "observe"]
           base == [tracker |-> t, events |-> <<>>]
           more == Append(s, item)
<1>1. Observed(t, s) = Result(what, base, s)
  BY SeqIs, ObservedIsTheFold
<1>2. IsSeq(more)
  BY AppendIsSeq
<1>3. Observed(t, more) = Result(what, base, more)
  BY <1>2, SeqIs, ObservedIsTheFold
<1>4. Result(what, base, more) = Does(what, Result(what, base, s), item)
  BY ResultOfMore
<1> QED BY <1>1, <1>3, <1>4 DEF Does

LEMMA ObservedNone ==
  ASSUME NEW t PROVE Observed(t, <<>>) = [tracker |-> t, events |-> <<>>]
BY NoneIsSeq, ObservedIsTheFold, ResultOfNone

LEMMA FedMore ==
  ASSUME NEW p, NEW now, NEW s, IsSeq(s), NEW event
  PROVE  FedSoFar(p, now, Append(s, event)) = Feeds(FedSoFar(p, now, s), now, event)
BY ResultOfMore DEF FedSoFar, Does

LEMMA FedNone == ASSUME NEW p, NEW now PROVE FedSoFar(p, now, <<>>) = p
BY ResultOfNone DEF FedSoFar

LEMMA FedAtLast ==
  ASSUME NEW p, NEW now, NEW s, IsSeq(s), Formed(FedSoFar(p, now, s))
  PROVE  LET q == feedFarEnd(p, now, s)
         IN  Calm(q, FedSoFar(p, now, s)) /\ q.open = FedSoFar(p, now, s).open
<1>1. feedFarEnd(p, now, s) = prompt_finished(FedSoFar(p, now, s), now)
  BY SeqIs, FeedFarEndIsTheFold DEF FedSoFar
<1> QED BY <1>1, PromptFinishedIs

-----------------------------------------------------------------------------
(* The tracker of a shell with all its markers.                            *)
LEMMA EventsMore ==
  ASSUME NEW s, IsSeq(s), NEW e
  PROVE  s \o <<e>> = Append(s, e) /\ s \o <<>> = s
<1>1. PICK S : s \in Seq(S)
  BY DEF IsSeq
<1>2. s \in Seq(S \cup {e})
  BY <1>1
<1> QED BY <1>2, AppendIsConcat, ConcatEmptySeq

LEMMA SaysNothing ==
  ASSUME NEW so, NEW item, ~so.announced, so.started # 1, so.ended # 1, item.kind # "Line"
  PROVE  Says(so, item) = <<>>
BY DEF Says

LEMMA SaysOne ==
  ASSUME NEW so, NEW item
  PROVE  /\ so.announced /\ so.started # 1 /\ so.ended # 1 /\ item.kind # "Line" =>
               Says(so, item) = <<BlockEvent("MarkersObserved")>>
         /\ ~so.announced /\ so.started = 1 /\ so.ended # 1 /\ item.kind # "Line" =>
               Says(so, item) = <<BlockEvent("BlockStarted")>>
         /\ ~so.announced /\ so.started # 1 /\ so.ended = 1 /\ item = Done =>
               Says(so, item) = <<BlockEnd>>
         /\ ~so.announced /\ so.started # 1 /\ so.ended # 1 /\ item.kind = "Line" =>
               Says(so, item) = <<LineEvent(so.tracker.region, item)>>
<1>1. \A e : <<>> \o <<e>> = <<e>> /\ <<e>> \o <<>> = <<e>>
  <2> SUFFICES ASSUME NEW e PROVE <<>> \o <<e>> = <<e>> /\ <<e>> \o <<>> = <<e>>
    OBVIOUS
  <2>1. <<e>> \in Seq({e})
    OBVIOUS
  <2> QED BY <2>1, ConcatEmptySeq
<1>2. <<>> \o <<>> = <<>>
  OBVIOUS
<1>3. so.announced /\ so.started # 1 /\ so.ended # 1 /\ item.kind # "Line" =>
               Says(so, item) = <<BlockEvent("MarkersObserved")>>
  BY <1>1, <1>2 DEF Says
<1>4. ~so.announced /\ so.started = 1 /\ so.ended # 1 /\ item.kind # "Line" =>
               Says(so, item) = <<BlockEvent("BlockStarted")>>
  BY <1>1, <1>2 DEF Says
<1>5. ~so.announced /\ so.started # 1 /\ so.ended = 1 /\ item = Done =>
               Says(so, item) = <<BlockEnd>>
  <2>1. Done.kind = "CommandEnd" /\ Done.exit = 0
    BY DEF Done
  <2>2. ~so.announced /\ so.started # 1 /\ so.ended = 1 /\ item = Done =>
            Says(so, item) = <<>> \o <<>> \o <<BlockEnd>> \o <<>>
    BY <2>1 DEF Says, BlockEnd
  <2> QED BY <1>1, <1>2, <2>2
<1>6. ~so.announced /\ so.started # 1 /\ so.ended # 1 /\ item.kind = "Line" =>
               Says(so, item) = <<LineEvent(so.tracker.region, item)>>
  BY <1>1, <1>2 DEF Says
<1> QED BY <1>3, <1>4, <1>5, <1>6

LEMMA SeesRow ==
  ASSUME marks_output_start, NEW seen, seen.tracker \in Tracker, IsSeq(seen.events),
         NEW item, item.kind = "Line", item.id \in Rows
  PROVE  LET next == Sees(seen, item)
         IN  /\ Stands(seen.tracker, seen.tracker.region, seen.tracker.blockOpen) =>
                   Stands(next.tracker, seen.tracker.region, seen.tracker.blockOpen)
             /\ next.tracker \in Tracker
             /\ next.events = Append(seen.events, LineEvent(seen.tracker.region, item))
<1> DEFINE t == seen.tracker
           so == observe(t, item)
           n  == IF t.region = "Prompt" THEN [t EXCEPT !.promptRow = item.id] ELSE t
<1>1. so = Concluded(n)
  BY DEF observe, observe_row
<1>2. n \in Tracker /\ n.region = t.region /\ n.markersSeen = t.markersSeen
      /\ n.blockOpen = t.blockOpen
  BY DEF Tracker
<1> HIDE DEF n
<1>3. so.tracker = n /\ ~so.announced /\ so.started # 1 /\ so.ended # 1
  BY <1>1 DEF Concluded
<1>4. Sees(seen, item) = [tracker |-> so.tracker, events |-> seen.events \o Says(so, item)]
  BY DEF Sees
<1> HIDE DEF so
<1>5. Says(so, item) = <<LineEvent(t.region, item)>>
  BY <1>2, <1>3, SaysOne
<1> QED BY <1>2, <1>3, <1>4, <1>5, EventsMore DEF Stands

LEMMA SeesMark ==
  ASSUME marks_output_start, NEW seen, seen.tracker \in Tracker, IsSeq(seen.events),
         NEW kind \in Osc133Markers, NEW item, item.kind = kind
  PROVE  LET so == observe(seen.tracker, item)
         IN  /\ so = observe_marker(Concluded(seen.tracker), kind)
             /\ Sees(seen, item) = [tracker |-> so.tracker,
                                    events |-> seen.events \o Says(so, item)]
<1>1. kind # "Line"
  BY DEF Osc133Markers
<1>2. end_command_line(Concluded(seen.tracker)) = Concluded(seen.tracker)
  BY DEF end_command_line
<1> QED BY <1>1, <1>2 DEF Sees, observe

LEMMA SeesPromptStart ==
  ASSUME marks_output_start, NEW seen, seen.tracker \in Tracker, IsSeq(seen.events),
         ~seen.tracker.blockOpen
  PROVE  LET next == Sees(seen, Mark("PromptStart"))
         IN  /\ Stands(next.tracker, "Prompt", FALSE)
             /\ next.events = IF seen.tracker.markersSeen THEN seen.events
                              ELSE Append(seen.events, BlockEvent("MarkersObserved"))
<1> DEFINE t    == seen.tracker
           item == Mark("PromptStart")
           so   == observe_marker(Concluded(t), "PromptStart")
           n    == [t EXCEPT !.markersSeen = TRUE, !.region = "Prompt", !.promptRow = NoRow]
<1>1. item.kind = "PromptStart" /\ "PromptStart" \in Osc133Markers
  BY DEF Mark, Osc133Markers
<1>2. /\ observe(t, item) = so
      /\ Sees(seen, item) = [tracker |-> so.tracker, events |-> seen.events \o Says(so, item)]
  BY <1>1, SeesMark
<1>3. /\ so.tracker = n /\ (so.announced <=> ~t.markersSeen) /\ so.started = 0 /\ so.ended = 0
  BY DEF observe_marker, Concluded, PromptStart, end_open_block, AtPrompt, Tracker
<1> HIDE DEF so
<1>4. Stands(n, "Prompt", FALSE)
  BY DEF Stands, Tracker, Regions
<1> HIDE DEF n
<1>5. t.markersSeen \in BOOLEAN
  BY DEF Tracker
<1>6. CASE t.markersSeen
  <2>1. Says(so, item) = <<>>
    BY <1>1, <1>3, <1>6, SaysNothing
  <2>2. seen.events \o Says(so, item) = seen.events
    BY <2>1, EventsMore
  <2>3. Sees(seen, item).tracker = n /\ Sees(seen, item).events = seen.events
    BY <1>2, <1>3, <2>2
  <2> QED BY <1>4, <1>6, <2>3
<1>7. CASE ~t.markersSeen
  <2>1. Says(so, item) = <<BlockEvent("MarkersObserved")>>
    BY <1>1, <1>3, <1>7, SaysOne
  <2>2. seen.events \o Says(so, item) = Append(seen.events, BlockEvent("MarkersObserved"))
    BY <2>1, EventsMore
  <2>3. Sees(seen, item).tracker = n
        /\ Sees(seen, item).events = Append(seen.events, BlockEvent("MarkersObserved"))
    BY <1>2, <1>3, <2>2
  <2> QED BY <1>4, <1>7, <2>3
<1> QED BY <1>5, <1>6, <1>7

LEMMA SeesCommandStart ==
  ASSUME marks_output_start, NEW seen, Stands(seen.tracker, "Prompt", FALSE),
         IsSeq(seen.events)
  PROVE  LET next == Sees(seen, Mark("CommandStart"))
         IN  Stands(next.tracker, "CommandLine", FALSE) /\ next.events = seen.events
<1> DEFINE t    == seen.tracker
           item == Mark("CommandStart")
           so   == observe_marker(Concluded(t), "CommandStart")
           n    == [t EXCEPT !.markersSeen = TRUE, !.region = "CommandLine",
                             !.commandLineRow = t.promptRow]
<1>1. item.kind = "CommandStart" /\ "CommandStart" \in Osc133Markers
  BY DEF Mark, Osc133Markers
<1>0. t \in Tracker
  BY DEF Stands
<1>9. ~t.blockOpen /\ t.markersSeen
  BY DEF Stands
<1>2. /\ observe(t, item) = so
      /\ Sees(seen, item) = [tracker |-> so.tracker, events |-> seen.events \o Says(so, item)]
  BY <1>0, <1>1, SeesMark
<1>3. /\ so.tracker = n /\ (so.announced <=> ~t.markersSeen) /\ so.started = 0 /\ so.ended = 0
  BY <1>0, <1>9 DEF observe_marker, Concluded, CommandStart, end_open_block, AtCommandLine, Tracker
<1> HIDE DEF so
<1>4. Stands(n, "CommandLine", FALSE)
  BY <1>0, <1>9 DEF Stands, Tracker, Regions
<1> HIDE DEF n
<1>5. Says(so, item) = <<>>
  BY <1>1, <1>3, <1>9, SaysNothing
<1>6. seen.events \o Says(so, item) = seen.events
  BY <1>5, EventsMore
<1>7. Sees(seen, item).tracker = n /\ Sees(seen, item).events = seen.events
  BY <1>2, <1>3, <1>6
<1> QED BY <1>4, <1>7

LEMMA SeesOutputStart ==
  ASSUME marks_output_start, NEW seen, NEW region, Stands(seen.tracker, region, FALSE),
         IsSeq(seen.events)
  PROVE  LET next == Sees(seen, Mark("OutputStart"))
         IN  /\ Stands(next.tracker, "Output", TRUE)
             /\ next.events = Append(seen.events, BlockEvent("BlockStarted"))
<1> DEFINE t    == seen.tracker
           item == Mark("OutputStart")
           so   == observe_marker(Concluded(t), "OutputStart")
           n    == [t EXCEPT !.markersSeen = TRUE, !.region = "Output",
                             !.commandLineRow = NoRow, !.blockOpen = TRUE]
<1>1. item.kind = "OutputStart" /\ "OutputStart" \in Osc133Markers
  BY DEF Mark, Osc133Markers
<1>0. t \in Tracker
  BY DEF Stands
<1>9. ~t.blockOpen /\ t.markersSeen
  BY DEF Stands
<1>2. /\ observe(t, item) = so
      /\ Sees(seen, item) = [tracker |-> so.tracker, events |-> seen.events \o Says(so, item)]
  BY <1>0, <1>1, SeesMark
<1>3. /\ so.tracker = n /\ (so.announced <=> ~t.markersSeen) /\ so.started = 1 /\ so.ended = 0
  BY <1>0, <1>9 DEF observe_marker, Concluded, OutputStart, Tracker
<1> HIDE DEF so
<1>4. Stands(n, "Output", TRUE)
  BY <1>0, <1>9 DEF Stands, Tracker, Regions
<1> HIDE DEF n
<1>5. Says(so, item) = <<BlockEvent("BlockStarted")>>
  BY <1>1, <1>3, <1>9, SaysOne
<1>6. seen.events \o Says(so, item) = Append(seen.events, BlockEvent("BlockStarted"))
  BY <1>5, EventsMore
<1>7. Sees(seen, item).tracker = n /\ Sees(seen, item).events = Append(seen.events, BlockEvent("BlockStarted"))
  BY <1>2, <1>3, <1>6
<1> QED BY <1>4, <1>7

LEMMA SeesDone ==
  ASSUME marks_output_start, NEW seen, NEW region, Stands(seen.tracker, region, TRUE),
         IsSeq(seen.events)
  PROVE  LET next == Sees(seen, Done)
         IN  /\ Stands(next.tracker, "Unstructured", FALSE)
             /\ next.events = Append(seen.events, BlockEnd)
<1> DEFINE t    == seen.tracker
           so   == observe_marker(Concluded(t), "CommandEnd")
           n    == [t EXCEPT !.markersSeen = TRUE, !.region = "Unstructured",
                             !.blockOpen = FALSE]
<1>1. Done.kind = "CommandEnd" /\ "CommandEnd" \in Osc133Markers
  BY DEF Done, Osc133Markers
<1>0. t \in Tracker
  BY DEF Stands
<1>9. t.blockOpen /\ t.markersSeen
  BY DEF Stands
<1>2. /\ observe(t, Done) = so
      /\ Sees(seen, Done) = [tracker |-> so.tracker, events |-> seen.events \o Says(so, Done)]
  BY <1>0, <1>1, SeesMark
<1>3. /\ so.tracker = n /\ (so.announced <=> ~t.markersSeen) /\ so.started = 0 /\ so.ended = 1
  BY <1>0, <1>9 DEF observe_marker, Concluded, CommandEnd, end_open_block, Tracker
<1> HIDE DEF so
<1>4. Stands(n, "Unstructured", FALSE)
  BY <1>0, <1>9 DEF Stands, Tracker, Regions
<1> HIDE DEF n
<1>5. Says(so, Done) = <<BlockEnd>>
  BY <1>1, <1>3, <1>9, SaysOne
<1>6. seen.events \o Says(so, Done) = Append(seen.events, BlockEnd)
  BY <1>5, EventsMore
<1>7. Sees(seen, Done).tracker = n /\ Sees(seen, Done).events = Append(seen.events, BlockEnd)
  BY <1>2, <1>3, <1>6
<1> QED BY <1>4, <1>7

LEMMA ThreeMore ==
  ASSUME NEW s, IsSeq(s), NEW a, NEW b, NEW c
  PROVE  s \o <<a, b, c>> = Append(Append(Append(s, a), b), c)
<1>1. PICK S : s \in Seq(S)
  BY DEF IsSeq
<1> DEFINE X == S \cup {a, b, c}
<1>2. s \in Seq(X) /\ a \in X /\ b \in X /\ c \in X /\ <<a, b, c>> \in Seq(X)
  BY <1>1
<1> HIDE DEF X
<1> DEFINE l == s \o <<a, b, c>>
           r == Append(Append(Append(s, a), b), c)
<1>3. l \in Seq(X) /\ r \in Seq(X) /\ Len(l) = Len(s) + 3 /\ Len(r) = Len(s) + 3
  BY <1>2
<1>4. \A i \in 1..Len(l) : l[i] = r[i]
  <2> SUFFICES ASSUME NEW i \in 1..Len(l) PROVE l[i] = r[i]
    OBVIOUS
  <2>1. i \in 1..(Len(s) + 3) /\ Len(s) \in Nat
    BY <1>2, <1>3
  <2>2. CASE i <= Len(s)
    BY <1>2, <2>1, <2>2
  <2>3. CASE i = Len(s) + 1
    BY <1>2, <2>1, <2>3
  <2>4. CASE i = Len(s) + 2
    BY <1>2, <2>1, <2>4
  <2>5. CASE i = Len(s) + 3
    BY <1>2, <2>1, <2>5
  <2> QED BY <2>1, <2>2, <2>3, <2>4, <2>5
<1> HIDE DEF l, r
<1>5. l = r
  BY <1>3, <1>4, SeqEqual
<1> QED BY <1>5 DEF l, r

LEMMA Tuples ==
  /\ \A a : <<a>> = Append(<<>>, a)
  /\ \A a, b : <<a, b>> = Append(<<a>>, b)
  /\ \A a, b, c : <<a, b, c>> = Append(<<a, b>>, c)
  /\ \A a, b, c, d : <<a, b, c, d>> = Append(<<a, b, c>>, d)
  /\ \A a, b, c, d, e : <<a, b, c, d, e>> = Append(<<a, b, c, d>>, e)
OBVIOUS

LEMMA TuplesAreSeqs ==
  /\ \A a : IsSeq(<<a>>)
  /\ \A a, b : IsSeq(<<a, b>>)
  /\ \A a, b, c : IsSeq(<<a, b, c>>)
  /\ \A a, b, c, d : IsSeq(<<a, b, c, d>>)
<1>1. ASSUME NEW a PROVE IsSeq(<<a>>)
  <2>1. <<a>> \in Seq({a})
    OBVIOUS
  <2> QED BY <2>1 DEF IsSeq
<1>2. ASSUME NEW a, NEW b PROVE IsSeq(<<a, b>>)
  <2>1. <<a, b>> \in Seq({a, b})
    OBVIOUS
  <2> QED BY <2>1 DEF IsSeq
<1>3. ASSUME NEW a, NEW b, NEW c PROVE IsSeq(<<a, b, c>>)
  <2>1. <<a, b, c>> \in Seq({a, b, c})
    OBVIOUS
  <2> QED BY <2>1 DEF IsSeq
<1>4. ASSUME NEW a, NEW b, NEW c, NEW d PROVE IsSeq(<<a, b, c, d>>)
  <2>1. <<a, b, c, d>> \in Seq({a, b, c, d})
    OBVIOUS
  <2> QED BY <2>1 DEF IsSeq
<1> QED BY <1>1, <1>2, <1>3, <1>4

LEMMA ObservesPrompt ==
  ASSUME marks_output_start, NEW t, NEW before, IsSeq(before), NEW row \in Rows,
         NEW seen, seen = Observed(t, before), seen.tracker \in Tracker,
         ~seen.tracker.blockOpen, IsSeq(seen.events)
  PROVE  Prompts(Observed(t, PromptOn(row, before).items), seen, row)
<1> DEFINE a == Append(before, Mark("PromptStart"))
           b == Append(a, PromptRow(row))
           c == Append(b, Mark("CommandStart"))
           told == IF seen.tracker.markersSeen THEN seen.events
                     ELSE Append(seen.events, BlockEvent("MarkersObserved"))
           x == Observed(t, a)
           y == Observed(t, b)
           z == Observed(t, c)
<1>1. PromptOn(row, before).items = c
  <2>1. PromptOn(row, before).items
           = before \o <<Mark("PromptStart"), PromptRow(row), Mark("CommandStart")>>
    BY DEF PromptOn, Read, PromptRow
  <2> QED BY <2>1, ThreeMore
<1>2. IsSeq(a)
  BY AppendIsSeq
<1>3. x = Sees(seen, Mark("PromptStart"))
  BY ObservedMore
<1>4. y = Sees(x, PromptRow(row))
  BY <1>2, ObservedMore
<1>5. IsSeq(b)
  BY <1>2, AppendIsSeq
<1>6. z = Sees(y, Mark("CommandStart"))
  BY <1>5, ObservedMore
<1> HIDE DEF x, y, z, a, b, c
<1>7. Stands(x.tracker, "Prompt", FALSE) /\ x.events = told
  BY <1>3, SeesPromptStart
<1>8. IsSeq(told)
  BY AppendIsSeq
<1> HIDE DEF told
<1>9. PromptRow(row).kind = "Line" /\ PromptRow(row).id \in Rows
  BY DEF PromptRow, Row
<1>10. Stands(y.tracker, "Prompt", FALSE)
       /\ y.events = Append(told, LineEvent("Prompt", PromptRow(row)))
  <2>1. x.tracker \in Tracker /\ x.tracker.region = "Prompt" /\ x.tracker.blockOpen = FALSE
    BY <1>7 DEF Stands
  <2>2. IsSeq(x.events)
    BY <1>7, <1>8
  <2> QED BY <1>4, <1>7, <1>9, <2>1, <2>2, SeesRow
<1>11. IsSeq(y.events)
  BY <1>8, <1>10, AppendIsSeq
<1>12. Stands(z.tracker, "CommandLine", FALSE) /\ z.events = y.events
  BY <1>6, <1>10, <1>11, SeesCommandStart
<1> QED BY <1>1, <1>8, <1>10, <1>12 DEF told, z, Prompts

LEMMA TextOf ==
  /\ Prompt \in Texts /\ Listing \in Texts /\ Printout \in Texts /\ Refusal \in Texts
  /\ Prompt # <<>> /\ Listing # <<>> /\ Printout # <<>> /\ Listing # Printout
  /\ Refusal # <<>> /\ <<>> \in Texts
<1>1. "$" \in Range(Prompt) /\ "l" \in Range(Listing) /\ "o" \in Range(Printout)
      /\ "^C" \in Range(Refusal)
  <2>1. Prompt[1] = "$" /\ Listing[1] = "l" /\ Printout[1] = "o" /\ Refusal[1] = "^C"
    BY DEF Prompt, Listing, Printout, Refusal
  <2>2. 1 \in DOMAIN Prompt /\ 1 \in DOMAIN Listing /\ 1 \in DOMAIN Printout
        /\ 1 \in DOMAIN Refusal
    BY DEF Prompt, Listing, Printout, Refusal
  <2> QED BY <2>1, <2>2 DEF Range
<1>2. "$" \in Glyphs /\ "l" \in Glyphs /\ "o" \in Glyphs /\ "^C" \in Glyphs
  BY <1>1 DEF Glyphs
<1> QED BY <1>2 DEF Texts, Prompt, Listing, Printout, Refusal

LEMMA RecolouredIs ==
  ASSUME NEW p, NEW id, NEW text PROVE ~recoloured(p, id, text, "Appended")
BY DEF recoloured

LEMMA FedCalmly ==
  ASSUME NEW p, NEW a, NEW q, NEW region, NEW id, NEW text, NEW revision,
         Fed(a, p, region, id, text, revision), Calm(q, a), q.open = a.open
  PROVE  Fed(q, p, region, id, text, revision)
BY DEF Fed, Calm

LEMMA PromptEvent ==
  ASSUME NEW row \in Rows
  PROVE  LET e == LineEvent("Prompt", PromptRow(row))
         IN  /\ IsLine(e) /\ e.region = "Prompt" /\ e.id = row
             /\ e.text = Prompt /\ e.revision = "Appended"
BY TextOf DEF LineEvent, PromptRow, Row, IsLine, Revisions

\* The pump has become b, which is p as far as a prompt goes; the prompt comes.
LEMMA FeedPrompt ==
  ASSUME reports_exit_code, NEW p, NEW now, NEW told, IsSeq(told), NEW row \in Rows,
         NEW base, NEW b, Calls(base, now, told, b), Steady(b, p)
  PROVE  Follows(feedFarEnd(base, now, Append(told, LineEvent("Prompt", PromptRow(row)))),
                 b, p, row)
<1> DEFINE e == LineEvent("Prompt", PromptRow(row))
           all == Append(told, e)
           c == FedSoFar(base, now, all)
           q == feedFarEnd(base, now, all)
<1>1. c = Feeds(b, now, e) /\ Formed(b) /\ Results(b) = Results(p)
  BY FedMore DEF Steady, Calls
<1>2. IsLine(e) /\ e.region = "Prompt" /\ e.id = row /\ e.text = Prompt
      /\ e.revision = "Appended"
  BY PromptEvent
<1> HIDE DEF e
<1>3. Fed(Feeds(b, now, e), b, e.region, e.id, e.text, e.revision)
  <2>1. ~recoloured(b, e.id, e.text, e.revision)
    BY <1>2, RecolouredIs
  <2> QED BY <1>1, <1>2, <2>1, FeedLine
<1>4. Fed(c, b, "Prompt", row, Prompt, "Appended")
  BY <1>1, <1>2, <1>3
<1> HIDE DEF c
<1>5. IsSeq(all)
  BY AppendIsSeq
<1>6. Calm(q, c) /\ q.open = c.open
  <2>1. Formed(c)
    BY <1>4 DEF Fed
  <2> QED BY <1>5, <2>1, FedAtLast DEF c
<1> HIDE DEF q, all
<1>7. Fed(q, b, "Prompt", row, Prompt, "Appended")
  BY <1>4, <1>6, FedCalmly
<1>8. /\ b.far = p.far /\ b.field = p.field
      /\ \A other \in Rows : b.lines[other].text = p.lines[other].text
  BY DEF Steady
<1>9. q.echo.prompt # <<>> /\ q.echo.text = <<>>
  <2>1. q.echo = [prompt |-> b.echo.prompt \o Prompt, text |-> <<>>]
    BY <1>7 DEF Fed, observe_echo
  <2>2. b.echo.prompt \in Texts
    BY <1>1 DEF Formed
  <2>3. b.echo.prompt \o Prompt # <<>>
    BY <2>2, TextOf DEF Texts, Prompt
  <2> QED BY <2>1, <2>3
<1>10. FarAfter(b, "Prompt", row, Prompt, "Appended")
         = FarAfter(p, "Prompt", row, Prompt, "Appended")
  BY <1>8 DEF FarAfter
<1>11. \A text : After(text, Prompt, "Appended") = text \o Prompt
  BY DEF After
<1>12. Formed(q) /\ q.far = FarAfter(p, "Prompt", row, Prompt, "Appended")
       /\ q.field = p.field /\ q.cursor = row /\ Results(q) = Results(p)
       /\ Headings(q) = Headings(b) /\ q.integration = b.integration /\ q.open = b.open
  BY <1>1, <1>7, <1>8, <1>10 DEF Fed
<1>13. \A other \in Rows : q.lines[other].text =
          IF other = row THEN p.lines[other].text \o Prompt ELSE p.lines[other].text
  <2>1. \A other \in Rows : q.lines[other].text =
          IF other = row THEN After(b.lines[other].text, Prompt, "Appended")
                         ELSE b.lines[other].text
    BY <1>7 DEF Fed
  <2> QED BY <1>8, <1>11, <2>1
<1>14. Prompted(q, p, row)
  BY <1>9, <1>12, <1>13 DEF Prompted
<1> QED BY <1>12, <1>14 DEF q, all, e, Follows

LEMMA FullReports == marks_output_start => reports_exit_code
BY DEF marks_output_start, reports_exit_code

LEMMA AtFirst ==
  ASSUME NEW t \in Tracker
  PROVE  /\ Observed(t, <<>>).tracker = t /\ Observed(t, <<>>).events = <<>>
         /\ Observed(t, <<>>).tracker \in Tracker /\ IsSeq(Observed(t, <<>>).events)
BY ObservedNone, NoneIsSeq

\* A prompt at the end of a read.
LEMMA PromptComes ==
  ASSUME marks_output_start, NEW t, NEW before, IsSeq(before), NEW row \in Rows,
         NEW seen, seen = Observed(t, before), seen.tracker \in Tracker,
         ~seen.tracker.blockOpen, IsSeq(seen.events),
         NEW told, told = IF seen.tracker.markersSeen THEN seen.events
                          ELSE Append(seen.events, BlockEvent("MarkersObserved")),
         NEW p, NEW base, NEW b, Calls(base, "CommandLine", told, b), Steady(b, p),
         NEW items, items = PromptOn(row, before).items
  PROVE  AtPromptNow(t, items) /\ Follows(Received(base, t, items), b, p, row)
<1> DEFINE all   == Observed(t, items)
           e     == LineEvent("Prompt", PromptRow(row))
           now   == "CommandLine"
           q     == feedFarEnd(base, now, Append(told, e))
<1>1. Prompts(all, seen, row)
  BY ObservesPrompt
<1>2. Stands(all.tracker, "CommandLine", FALSE) /\ all.events = Append(told, e) /\ IsSeq(told)
  BY <1>1 DEF Prompts
<1>3. reports_exit_code
  BY FullReports
<1> HIDE DEF now
<1>4. Calls(base, now, told, b)
  BY DEF now
<1>5. Follows(q, b, p, row)
  BY <1>2, <1>3, <1>4, FeedPrompt
<1> HIDE DEF q
<1>6. Received(base, t, items) = q
  BY <1>2 DEF Received, now, q, Stands
<1> QED BY <1>2, <1>5, <1>6 DEF AtPromptNow

\* The first prompt of all.
LEMMA FirstIs ==
  ASSUME marks_output_start, NEW t \in Tracker, ~t.markersSeen, ~t.blockOpen,
         NEW p, Formed(p), NEW row \in Rows
  PROVE  LET items == PromptOn(row, <<>>).items
             q     == Received(p, t, items)
         IN  /\ AtPromptNow(t, items) /\ Prompted(q, p, row)
             /\ Headings(q) = Headings(p) /\ q.integration = "Integrated"
<1> DEFINE none  == <<>>
           seen  == Observed(t, none)
           now   == "CommandLine"
           told  == Append(seen.events, BlockEvent("MarkersObserved"))
           b     == FedSoFar(p, now, told)
<1>1. /\ seen.tracker \in Tracker /\ seen.events = none /\ IsSeq(seen.events)
      /\ IsSeq(none)
  BY AtFirst, NilIsSeq
<1>2. ~seen.tracker.markersSeen /\ ~seen.tracker.blockOpen
  BY AtFirst
<1>3. FedSoFar(p, now, none) = p
  BY FedNone
<1>4. seen = Observed(t, none)
  OBVIOUS
<1> HIDE DEF none, now, seen
<1>5. b = Feeds(p, now, BlockEvent("MarkersObserved"))
  BY <1>1, <1>3, FedMore
<1>6. /\ Formed(b) /\ b.far = p.far /\ b.field = p.field /\ b.integration = "Integrated"
      /\ \A other \in Rows : b.lines[other].text = p.lines[other].text
      /\ Results(b) = Results(p) /\ Headings(b) = Headings(p)
  <2> HIDE DEF b
  <2> QED BY <1>5, FeedMarkers
<1>7. Steady(b, p)
  BY <1>6 DEF Steady
<1>8. Calls(p, "CommandLine", told, b)
  BY DEF Calls, now
<1>9. told = IF seen.tracker.markersSeen THEN seen.events
             ELSE Append(seen.events, BlockEvent("MarkersObserved"))
  BY <1>2
<1> HIDE DEF b, told
<1> DEFINE items == PromptOn(row, none).items
           q     == Received(p, t, items)
<1>10. AtPromptNow(t, items) /\ Follows(q, b, p, row)
  BY <1>1, <1>2, <1>4, <1>7, <1>8, <1>9, PromptComes
<1> HIDE DEF q
<1> QED BY <1>6, <1>10 DEF none, q, Follows

\* A command ends.
LEMMA DoneIs ==
  ASSUME marks_output_start, NEW t, Stands(t, "Output", TRUE),
         NEW p, Formed(p), NEW row \in Rows
  PROVE  LET items == PromptOn(row, <<Done>>).items
             q     == Received(p, t, items)
         IN  /\ AtPromptNow(t, items) /\ Prompted(q, p, row)
             /\ Headings(q) = Headings(p) /\ q.integration = p.integration
<1> DEFINE none   == <<>>
           before == <<Done>>
           base   == Observed(t, none)
           seen   == Observed(t, before)
           now    == "CommandLine"
           told   == Append(none, BlockEnd)
           b      == FedSoFar(p, now, told)
<1>1. base.tracker = t /\ base.events = none /\ IsSeq(none) /\ IsSeq(before)
      /\ before = Append(none, Done) /\ t \in Tracker
  BY AtFirst, NilIsSeq, Tuples, TuplesAreSeqs DEF Stands
<1>2. FedSoFar(p, now, none) = p
  BY FedNone
<1>3. seen = Observed(t, before)
  OBVIOUS
<1> HIDE DEF none, now, base, before
<1>4. seen = Sees(base, Done)
  BY <1>1, ObservedMore DEF base
<1> HIDE DEF seen
<1>5. Stands(seen.tracker, "Unstructured", FALSE) /\ seen.events = told
  BY <1>1, <1>4, SeesDone
<1>6. IsSeq(told)
  BY <1>1, AppendIsSeq
<1>7. b = Feeds(p, now, BlockEnd)
  BY <1>1, <1>2, FedMore
<1>8. Calm(b, p)
  <2> HIDE DEF b
  <2> QED BY <1>7, FeedEnded
<1>9. Steady(b, p) /\ Headings(b) = Headings(p) /\ b.integration = p.integration
  BY <1>8 DEF Steady, Calm
<1>10. Calls(p, "CommandLine", told, b)
  BY DEF Calls, now
<1> HIDE DEF b, told
<1>11. /\ seen.tracker \in Tracker /\ ~seen.tracker.blockOpen /\ IsSeq(seen.events)
       /\ told = IF seen.tracker.markersSeen THEN seen.events
                 ELSE Append(seen.events, BlockEvent("MarkersObserved"))
  BY <1>5, <1>6 DEF Stands
<1> DEFINE items == PromptOn(row, before).items
           q     == Received(p, t, items)
<1>12. AtPromptNow(t, items) /\ Follows(q, b, p, row)
  BY <1>1, <1>3, <1>9, <1>10, <1>11, PromptComes
<1> HIDE DEF q
<1> QED BY <1>9, <1>12 DEF before, q, Follows

LEMMA SeesNoOutput ==
  ASSUME marks_output_start, NEW t, NEW s, IsSeq(s), NEW seen, seen = Observed(t, s),
         Stands(seen.tracker, "CommandLine", FALSE), IsSeq(seen.events),
         NEW all, all = Observed(t, Append(Append(s, Mark("OutputStart")), Done))
  PROVE  EndsEmpty(all, seen)
<1> DEFINE more == Append(s, Mark("OutputStart"))
           x    == Observed(t, more)
<1>1. IsSeq(more)
  BY AppendIsSeq
<1>2. x = Sees(seen, Mark("OutputStart"))
  BY ObservedMore
<1> HIDE DEF more
<1>3. all = Sees(x, Done)
  BY <1>1, ObservedMore DEF more
<1> HIDE DEF x
<1>4. Stands(x.tracker, "Output", TRUE) /\ x.events = Append(seen.events, Ran)
  BY <1>2, SeesOutputStart DEF Ran
<1>5. IsSeq(x.events)
  BY <1>4, AppendIsSeq
<1> QED BY <1>3, <1>4, <1>5, SeesDone DEF EndsEmpty

LEMMA HearsNoOutput ==
  ASSUME NEW base, NEW now, NEW told, IsSeq(told), NEW a, Calls(base, now, told, a), Formed(a)
  PROVE  \E b : /\ Calls(base, now, Append(Append(told, Ran), BlockEnd), b)
                /\ Steady(b, a) /\ Headings(b) = HeadingsOnce(a)
                /\ b.integration = a.integration
<1> DEFINE more == Append(told, Ran)
           c    == FedSoFar(base, now, more)
           all  == Append(more, BlockEnd)
           b    == FedSoFar(base, now, all)
<1>1. IsSeq(more)
  BY AppendIsSeq
<1>2. c = Feeds(a, now, Ran)
  BY FedMore DEF Calls
<1> HIDE DEF more
<1>3. b = Feeds(c, now, BlockEnd)
  BY <1>1, FedMore
<1> HIDE DEF c
<1>4. /\ Apart(c, a) /\ c.echo = NoEcho /\ c.open # NoCommand
      /\ Results(c) = Results(a) /\ Headings(c) = HeadingsOnce(a)
  BY <1>2, FeedStarted DEF Ran, HeadingsOnce
<1> HIDE DEF b
<1>5. Calm(b, c)
  BY <1>3, <1>4, FeedEnded DEF Apart
<1>6. Steady(b, a) /\ Headings(b) = HeadingsOnce(a) /\ b.integration = a.integration
  BY <1>4, <1>5 DEF Steady, Calm, Apart
<1>7. Calls(base, now, all, b)
  BY DEF Calls, b
<1> QED BY <1>6, <1>7 DEF more

\* A blank line is left.
LEMMA BlankIs ==
  ASSUME marks_output_start, NEW t, Stands(t, "CommandLine", FALSE),
         NEW p, Formed(p), NEW row \in Rows
  PROVE  LET items == PromptOn(row, <<Mark("OutputStart"), Done>>).items
             q     == Received(p, t, items)
         IN  /\ AtPromptNow(t, items) /\ Prompted(q, p, row)
             /\ Headings(q) = HeadingsOnce(p) /\ q.integration = p.integration
<1> DEFINE none   == <<>>
           before == <<Mark("OutputStart"), Done>>
           base   == Observed(t, none)
           seen   == Observed(t, before)
           now    == "CommandLine"
           told   == Append(Append(none, Ran), BlockEnd)
<1>1. base.tracker = t /\ base.events = none /\ IsSeq(none) /\ IsSeq(before)
      /\ before = Append(Append(none, Mark("OutputStart")), Done) /\ t \in Tracker
  BY AtFirst, NilIsSeq, Tuples, TuplesAreSeqs DEF Stands
<1>2. Calls(p, now, none, p)
  BY FedNone DEF Calls
<1>3. seen = Observed(t, before) /\ base = Observed(t, none)
  OBVIOUS
<1> HIDE DEF none, now, base, before, seen
<1>a. seen = Observed(t, Append(Append(none, Mark("OutputStart")), Done))
      /\ base = Observed(t, none) /\ Stands(base.tracker, "CommandLine", FALSE)
      /\ IsSeq(base.events) /\ IsSeq(none)
  BY <1>1, <1>3
<1>b. EndsEmpty(seen, base)
  BY <1>a, SeesNoOutput
<1>4. Stands(seen.tracker, "Unstructured", FALSE) /\ seen.events = told
  BY <1>1, <1>b DEF EndsEmpty
<1>5. PICK b : /\ Calls(p, now, told, b)
               /\ Steady(b, p) /\ Headings(b) = HeadingsOnce(p)
               /\ b.integration = p.integration
  BY <1>1, <1>2, HearsNoOutput
<1>6. IsSeq(told)
  BY <1>1, AppendIsSeq
<1> HIDE DEF told
<1>7. /\ seen.tracker \in Tracker /\ ~seen.tracker.blockOpen /\ IsSeq(seen.events)
      /\ told = IF seen.tracker.markersSeen THEN seen.events
                ELSE Append(seen.events, BlockEvent("MarkersObserved"))
  BY <1>4, <1>6 DEF Stands
<1> DEFINE items == PromptOn(row, before).items
           q     == Received(p, t, items)
<1>8. Calls(p, "CommandLine", told, b)
  BY <1>5 DEF now
<1>9. AtPromptNow(t, items) /\ Follows(q, b, p, row)
  BY <1>1, <1>3, <1>5, <1>7, <1>8, PromptComes
<1> HIDE DEF q
<1> QED BY <1>5, <1>9 DEF before, q, Follows

LEMMA RowFirst ==
  ASSUME marks_output_start, NEW t, NEW region, Stands(t, region, FALSE),
         region \in {"Prompt", "CommandLine"},
         NEW item, item.kind = "Line", item.id \in Rows,
         NEW seen, seen = Observed(t, <<item>>)
  PROVE  FirstSays(seen, region, item)
<1> DEFINE none == <<>>
           base == Observed(t, none)
<1>1. base.tracker = t /\ base.events = none /\ IsSeq(none) /\ t \in Tracker
      /\ <<item>> = Append(none, item) /\ <<LineEvent(region, item)>> = Append(none, LineEvent(region, item))
  BY AtFirst, NilIsSeq, Tuples DEF Stands
<1>a. seen = Observed(t, Append(none, item)) /\ base = Observed(t, none)
  BY <1>1
<1> HIDE DEF none, base
<1>2. seen = Sees(base, item)
  BY <1>1, <1>a, ObservedMore
<1>3. Stands(base.tracker, base.tracker.region, base.tracker.blockOpen)
      /\ base.tracker.region = region /\ base.tracker.blockOpen = FALSE
      /\ base.tracker \in Tracker /\ IsSeq(base.events)
  BY <1>1 DEF Stands
<1>4. /\ Stands(seen.tracker, base.tracker.region, base.tracker.blockOpen)
      /\ seen.events = Append(base.events, LineEvent(base.tracker.region, item))
  BY <1>2, <1>3, SeesRow
<1> QED BY <1>1, <1>3, <1>4 DEF FirstSays

\* The event of a row says of it what the row did.
LEMMA RowEvent ==
  ASSUME NEW region \in {"Prompt", "CommandLine", "Output"}, NEW id \in Rows,
         NEW text \in Texts, NEW revision \in Revisions, region = "Output" => text # <<>>,
         NEW e, e = LineEvent(region, Row(id, text, revision))
  PROVE  /\ IsLine(e) /\ e.region = region /\ e.id = id
         /\ e.text = text /\ e.revision = revision
BY DEF LineEvent, Row, IsLine

LEMMA FeedRow ==
  ASSUME reports_exit_code, NEW base, NEW now, NEW told, IsSeq(told),
         NEW p, Calls(base, now, told, p), Formed(p),
         NEW region \in {"Prompt", "CommandLine", "Output"}, NEW id \in Rows,
         NEW text \in Texts, NEW revision \in Revisions, region = "Output" => text # <<>>,
         ~recoloured(p, id, text, revision),
         NEW e, e = LineEvent(region, Row(id, text, revision))
  PROVE  \E a : Calls(base, now, Append(told, e), a) /\ Fed(a, p, region, id, text, revision)
<1>1. /\ IsLine(e) /\ e.region = region /\ e.id = id
      /\ e.text = text /\ e.revision = revision
  BY RowEvent
<1>2. FedSoFar(base, now, Append(told, e)) = Feeds(p, now, e)
  BY FedMore DEF Calls
<1>3. ~recoloured(p, e.id, e.text, e.revision)
  BY <1>1
<1>4. Fed(Feeds(p, now, e), p, e.region, e.id, e.text, e.revision)
  BY <1>1, <1>3, FeedLine
<1> QED BY <1>1, <1>2, <1>4 DEF Calls

LEMMA DroppedIs ==
  ASSUME marks_output_start, NEW t, Stands(t, "CommandLine", FALSE),
         NEW p, Formed(p), NEW row \in Rows, NEW left \in Rows,
         NEW items, items = PromptOn(row, <<Row(left, Refusal, "Appended"),
                                            Mark("OutputStart"), Done>>).items,
         NEW q, q = Received(p, t, items)
  PROVE  Drops(q, p, t, items, left, row)
<1> DEFINE item   == Row(left, Refusal, "Appended")
           first  == <<item>>
           before == <<item, Mark("OutputStart"), Done>>
           base   == Observed(t, first)
           seen   == Observed(t, before)
           now    == "CommandLine"
           none   == <<>>
           e      == LineEvent("CommandLine", item)
           heard  == Append(none, e)
           told   == Append(Append(heard, Ran), BlockEnd)
<1>1. IsSeq(first) /\ IsSeq(before) /\ IsSeq(none) /\ heard = <<e>>
      /\ before = Append(Append(first, Mark("OutputStart")), Done)
  BY NilIsSeq, Tuples, TuplesAreSeqs
<1>2. item.kind = "Line" /\ item.id \in Rows
  BY DEF Row
<1>3. seen = Observed(t, before) /\ base = Observed(t, first)
  OBVIOUS
<1>4. e = LineEvent("CommandLine", Row(left, Refusal, "Appended"))
  OBVIOUS
<1>5. items = PromptOn(row, before).items
  OBVIOUS
<1> HIDE DEF none, now, item, e
<1>6. Stands(base.tracker, "CommandLine", FALSE) /\ base.events = heard
  <2>1. "CommandLine" \in {"Prompt", "CommandLine"} /\ base = Observed(t, <<item>>)
    BY <1>3
  <2>2. FirstSays(base, "CommandLine", item)
    BY <1>2, <2>1, RowFirst
  <2> QED BY <1>1, <2>2 DEF e, FirstSays
<1> HIDE DEF first, before, base, seen
<1>7. IsSeq(heard)
  BY <1>1, AppendIsSeq
<1>8. EndsEmpty(seen, base)
  <2>1. seen = Observed(t, Append(Append(first, Mark("OutputStart")), Done))
        /\ IsSeq(base.events)
    BY <1>1, <1>3, <1>6, <1>7
  <2> QED BY <1>1, <1>3, <1>6, <2>1, SeesNoOutput
<1>9. Calls(p, now, none, p)
  BY FedNone DEF Calls, none
<1>10. reports_exit_code
  BY FullReports
<1>11. PICK a : Calls(p, now, heard, a) /\ Fed(a, p, "CommandLine", left, Refusal, "Appended")
  <2>1. Refusal \in Texts /\ "Appended" \in Revisions
        /\ ~recoloured(p, left, Refusal, "Appended")
    BY TextOf, RecolouredIs DEF Revisions
  <2> QED BY <1>1, <1>4, <1>9, <1>10, <2>1, FeedRow
<1> HIDE DEF heard
<1>12. Formed(a)
  BY <1>11 DEF Fed
<1>13. PICK b : /\ Calls(p, now, told, b)
                /\ Steady(b, a) /\ Headings(b) = HeadingsOnce(a)
                /\ b.integration = a.integration
  BY <1>7, <1>11, <1>12, HearsNoOutput
<1>14. Stands(seen.tracker, "Unstructured", FALSE) /\ seen.events = told /\ IsSeq(told)
  <2>1. IsSeq(told)
    BY <1>7, AppendIsSeq
  <2> QED BY <1>6, <1>8, <2>1 DEF EndsEmpty
<1> HIDE DEF told
<1>15. /\ seen.tracker \in Tracker /\ ~seen.tracker.blockOpen /\ IsSeq(seen.events)
       /\ told = IF seen.tracker.markersSeen THEN seen.events
                 ELSE Append(seen.events, BlockEvent("MarkersObserved"))
  BY <1>14 DEF Stands
<1>16. Calls(p, "CommandLine", told, b)
  BY <1>13 DEF now
<1>17. AtPromptNow(t, items) /\ Follows(q, b, a, row)
  <2>1. AtPromptNow(t, items) /\ Follows(Received(p, t, items), b, a, row)
    BY <1>1, <1>3, <1>5, <1>13, <1>15, <1>16, PromptComes
  <2> QED BY <2>1
<1> QED BY <1>11, <1>13, <1>17 DEF Follows, Drops

LEMMA EndOfRead ==
  ASSUME NEW p, NEW t, NEW items, NEW told, IsSeq(told),
         NEW all, all = Observed(t, items), all.events = told,
         NEW b, Calls(p, all.tracker.region, told, b), Formed(b),
         NEW q, q = Received(p, t, items)
  PROVE  Calm(q, b) /\ q.open = b.open
<1> DEFINE now == all.tracker.region
<1>1. q = feedFarEnd(p, now, told)
  BY DEF Received
<1>2. b = FedSoFar(p, now, told)
  BY DEF Calls
<1> HIDE DEF now
<1> QED BY <1>1, <1>2, FedAtLast

LEMMA OutputIs ==
  ASSUME marks_output_start, NEW t, Stands(t, "CommandLine", FALSE),
         NEW p, Formed(p), NEW row \in Rows,
         NEW items, items = <<Mark("OutputStart"), Row(row, Printout, "Appended")>>,
         NEW q, q = Received(p, t, items)
  PROVE  Outputs(q, p, t, items, row)
<1> DEFINE none  == <<>>
           item  == Row(row, Printout, "Appended")
           first == Append(none, Mark("OutputStart"))
           base  == Observed(t, none)
           x     == Observed(t, first)
           all   == Observed(t, items)
           now   == "Output"
           e     == LineEvent("Output", item)
           heard == Append(none, Ran)
           told  == Append(heard, e)
<1>1. base.tracker = t /\ base.events = none /\ IsSeq(none)
      /\ items = Append(first, item) /\ t \in Tracker
  BY AtFirst, NilIsSeq, Tuples DEF Stands
<1>2. e = LineEvent("Output", Row(row, Printout, "Appended"))
  OBVIOUS
<1>3. item.kind = "Line" /\ item.id \in Rows
  BY DEF Row
<1>a. x = Observed(t, first) /\ all = Observed(t, Append(first, item))
  BY <1>1
<1> HIDE DEF none, item, now, e
<1>4. x = Sees(base, Mark("OutputStart"))
  BY <1>1, ObservedMore
<1>5. IsSeq(first) /\ IsSeq(heard)
  BY <1>1, AppendIsSeq
<1> HIDE DEF first, base
<1> HIDE DEF x, all
<1>6. all = Sees(x, item)
  BY <1>a, <1>5, ObservedMore
<1>7. Stands(x.tracker, "Output", TRUE) /\ x.events = heard
  <2>1. Stands(base.tracker, "CommandLine", FALSE) /\ IsSeq(base.events)
    BY <1>1
  <2>2. Stands(x.tracker, "Output", TRUE) /\ x.events = Append(base.events, Ran)
    BY <1>4, <2>1, SeesOutputStart DEF Ran
  <2> QED BY <1>1, <2>2
<1> HIDE DEF x, all, heard
<1>8. Stands(all.tracker, "Output", TRUE) /\ all.events = told
  <2>1. x.tracker \in Tracker /\ x.tracker.region = "Output" /\ x.tracker.blockOpen = TRUE
        /\ IsSeq(x.events)
        /\ Stands(x.tracker, x.tracker.region, x.tracker.blockOpen)
    BY <1>5, <1>7 DEF Stands
  <2>2. /\ Stands(all.tracker, x.tracker.region, x.tracker.blockOpen)
        /\ all.events = Append(x.events, LineEvent(x.tracker.region, item))
    BY <1>3, <1>6, <2>1, SeesRow
  <2> QED BY <1>7, <2>1, <2>2 DEF e
<1>9. PICK a : /\ Calls(p, now, heard, a) /\ Apart(a, p) /\ a.echo = NoEcho
               /\ Headings(a) = HeadingsOnce(p) /\ Results(a) = Results(p)
  <2> DEFINE a == FedSoFar(p, now, heard)
  <2>1. a = Feeds(FedSoFar(p, now, none), now, Ran)
    BY <1>1, FedMore DEF heard
  <2>2. FedSoFar(p, now, none) = p
    BY FedNone DEF none
  <2> HIDE DEF a
  <2>3. /\ Apart(a, p) /\ a.echo = NoEcho
        /\ Headings(a) = HeadingsOnce(p) /\ Results(a) = Results(p)
    BY <2>1, <2>2, FeedStarted DEF Ran, HeadingsOnce
  <2>4. Calls(p, now, heard, a)
    BY DEF Calls, a
  <2> QED BY <2>3, <2>4
<1>10. PICK b : Calls(p, now, told, b) /\ Fed(b, a, "Output", row, Printout, "Appended")
  <2>1. Printout \in Texts /\ Printout # <<>> /\ "Appended" \in Revisions
        /\ ~recoloured(a, row, Printout, "Appended") /\ reports_exit_code /\ Formed(a)
    BY <1>9, TextOf, RecolouredIs, FullReports DEF Revisions, Apart
  <2> QED BY <1>2, <1>5, <1>9, <2>1, FeedRow
<1>11. Calm(q, b) /\ q.open = b.open
  <2>1. all = Observed(t, items) /\ Calls(p, all.tracker.region, told, b) /\ IsSeq(told)
        /\ Formed(b)
    BY <1>5, <1>8, <1>10, AppendIsSeq DEF now, Stands, Fed, all
  <2> HIDE DEF told
  <2> QED BY <1>8, <2>1, EndOfRead
<1>12. Fed(q, a, "Output", row, Printout, "Appended")
  BY <1>10, <1>11, FedCalmly
<1> QED BY <1>8, <1>9, <1>12 DEF all, Outputs

LEMMA FourMore ==
  ASSUME NEW a, NEW b, NEW c, NEW d
  PROVE  Append(Append(Append(<<a>>, b), c), d) = <<a, b, c, d>>
<1> DEFINE X == {a, b, c, d}
           l == Append(Append(Append(<<a>>, b), c), d)
           r == <<a, b, c, d>>
<1>1. l \in Seq(X) /\ r \in Seq(X) /\ Len(l) = 4 /\ Len(r) = 4
  OBVIOUS
<1>2. l[1] = a /\ l[2] = b /\ l[3] = c /\ l[4] = d
  OBVIOUS
<1>3. r[1] = a /\ r[2] = b /\ r[3] = c /\ r[4] = d
  OBVIOUS
<1> HIDE DEF l, r
<1>4. \A i \in 1..4 : i = 1 \/ i = 2 \/ i = 3 \/ i = 4
  OBVIOUS
<1>5. \A i \in 1..Len(l) : l[i] = r[i]
  BY <1>1, <1>2, <1>3, <1>4
<1>6. l = r
  BY <1>1, <1>5, SeqEqual
<1> QED BY <1>6 DEF l, r

LEMMA ListedIs ==
  ASSUME marks_output_start, NEW t, Stands(t, "CommandLine", FALSE),
         NEW p, Formed(p), NEW list \in Rows, NEW row \in Rows, NEW text \in Texts,
         NEW items, items = <<Row(list, Listing, "Appended"), Mark("PromptStart"),
                              Row(row, Prompt, "Appended"), Mark("CommandStart"),
                              Row(row, text, "Appended")>>,
         NEW q, q = Received(p, t, items)
  PROVE  Lists(q, p, t, items, list, row, text)
<1> DEFINE item   == Row(list, Listing, "Appended")
           first  == <<item>>
           prompt == PromptOn(row, first).items
           last   == Row(row, text, "Appended")
           base   == Observed(t, first)
           x      == Observed(t, prompt)
           all    == Observed(t, items)
           now    == "CommandLine"
           none   == <<>>
           e      == LineEvent("CommandLine", item)
           f      == LineEvent("Prompt", PromptRow(row))
           g      == LineEvent("CommandLine", last)
           heard  == Append(none, e)
           told   == Append(heard, f)
           full   == Append(told, g)
<1>1. IsSeq(first) /\ IsSeq(none) /\ heard = <<e>>
  BY NilIsSeq, Tuples, TuplesAreSeqs
<1>2. items = Append(prompt, last) /\ IsSeq(prompt)
  <2>1. prompt = first \o <<Mark("PromptStart"), PromptRow(row), Mark("CommandStart")>>
    BY DEF PromptOn, Read, PromptRow
  <2> HIDE DEF prompt
  <2>2. prompt = Append(Append(Append(first, Mark("PromptStart")), PromptRow(row)),
                        Mark("CommandStart"))
    BY <1>1, <2>1, ThreeMore
  <2>3. prompt = <<item, Mark("PromptStart"), PromptRow(row), Mark("CommandStart")>>
    <3> DEFINE m == Mark("PromptStart")
               r == PromptRow(row)
               k == Mark("CommandStart")
    <3>1. prompt = Append(Append(Append(<<item>>, m), r), k)
      BY <2>2
    <3> HIDE DEF m, r, k, prompt, item
    <3>2. prompt = <<item, m, r, k>>
      BY <3>1, FourMore
    <3> QED BY <3>2 DEF m, r, k
  <2> QED BY <2>3, Tuples, TuplesAreSeqs DEF PromptRow
<1>3. item.kind = "Line" /\ item.id \in Rows /\ last.kind = "Line" /\ last.id \in Rows
  BY DEF Row
<1>4. /\ base = Observed(t, first) /\ x = Observed(t, prompt)
      /\ all = Observed(t, items) /\ all = Observed(t, Append(prompt, last))
      /\ prompt = PromptOn(row, first).items
  BY <1>2
<1>5. /\ e = LineEvent("CommandLine", Row(list, Listing, "Appended"))
      /\ f = LineEvent("Prompt", Row(row, Prompt, "Appended"))
      /\ g = LineEvent("CommandLine", Row(row, text, "Appended"))
  BY DEF PromptRow
<1> HIDE DEF none, now, last, e, f, g, x, all, prompt
<1>6. Stands(base.tracker, "CommandLine", FALSE) /\ base.events = heard
  <2>1. "CommandLine" \in {"Prompt", "CommandLine"} /\ base = Observed(t, <<item>>)
    BY <1>4
  <2> HIDE DEF item, base
  <2>2. FirstSays(base, "CommandLine", item)
    BY <1>3, <2>1, RowFirst
  <2> QED BY <1>1, <2>2 DEF e, FirstSays
<1> HIDE DEF item, first, base
<1>7. IsSeq(heard)
  BY <1>1, AppendIsSeq
<1>8. Stands(x.tracker, "CommandLine", FALSE) /\ x.events = told /\ IsSeq(told)
  <2>1. base.tracker \in Tracker /\ ~base.tracker.blockOpen /\ base.tracker.markersSeen
        /\ IsSeq(base.events)
    BY <1>6, <1>7 DEF Stands
  <2>2. Prompts(x, base, row)
    BY <1>1, <1>4, <2>1, ObservesPrompt
  <2>3. Stands(x.tracker, "CommandLine", FALSE) /\ x.events = told
    BY <1>6, <2>1, <2>2 DEF Prompts, f
  <2> QED BY <1>7, <2>3, AppendIsSeq
<1>9. all = Sees(x, last)
  BY <1>2, <1>4, ObservedMore
<1> HIDE DEF told
<1>10. Stands(all.tracker, "CommandLine", FALSE) /\ all.events = full
  <2>1. x.tracker \in Tracker /\ x.tracker.region = "CommandLine" /\ x.tracker.blockOpen = FALSE
        /\ IsSeq(x.events)
        /\ Stands(x.tracker, x.tracker.region, x.tracker.blockOpen)
    BY <1>8 DEF Stands
  <2>2. /\ Stands(all.tracker, x.tracker.region, x.tracker.blockOpen)
        /\ all.events = Append(x.events, LineEvent(x.tracker.region, last))
    BY <1>3, <1>9, <2>1, SeesRow
  <2> QED BY <1>8, <2>1, <2>2 DEF g
<1>11. /\ reports_exit_code /\ "Appended" \in Revisions
       /\ Listing \in Texts /\ Prompt \in Texts /\ \A r, id, u : ~recoloured(r, id, u, "Appended")
  BY FullReports, TextOf, RecolouredIs DEF Revisions
<1>12. Calls(p, now, none, p)
  BY FedNone DEF Calls, none
<1>13. PICK a : Calls(p, now, heard, a) /\ Fed(a, p, "CommandLine", list, Listing, "Appended")
  BY <1>1, <1>5, <1>11, <1>12, FeedRow
<1> HIDE DEF heard
<1>14. Formed(a)
  BY <1>13 DEF Fed
<1>15. PICK b : Calls(p, now, told, b) /\ Fed(b, a, "Prompt", row, Prompt, "Appended")
  <2> USE DEF told
  <2> QED BY <1>5, <1>7, <1>11, <1>13, <1>14, FeedRow
<1>16. Formed(b)
  BY <1>15 DEF Fed
<1>17. PICK c : Calls(p, now, full, c) /\ Fed(c, b, "CommandLine", row, text, "Appended")
  BY <1>5, <1>8, <1>11, <1>15, <1>16, FeedRow
<1>18. Calm(q, c) /\ q.open = c.open
  <2>1. Calls(p, all.tracker.region, full, c) /\ IsSeq(full) /\ Formed(c)
    BY <1>8, <1>10, <1>17, AppendIsSeq DEF now, Stands, Fed
  <2> HIDE DEF full
  <2>2. all = Observed(t, items) /\ all.events = full
    BY <1>4, <1>10
  <2> QED BY <2>1, <2>2, EndOfRead
<1>19. Fed(q, b, "CommandLine", row, text, "Appended")
  BY <1>17, <1>18, FedCalmly
<1> QED BY <1>4, <1>10, <1>13, <1>15, <1>19 DEF AtPromptNow, Lists

\* The line editor answers, and redraws nothing,
LEMMA NoEditIs ==
  ASSUME marks_output_start, NEW t, Stands(t, "CommandLine", FALSE), NEW p, Formed(p),
         NEW q, q = Received(p, t, <<>>)
  PROVE  AtPromptNow(t, <<>>) /\ Calm(q, p) /\ q.open = p.open
<1> DEFINE none == <<>>
           all  == Observed(t, none)
<1>1. all.tracker = t /\ all.events = none /\ IsSeq(none) /\ all = Observed(t, none)
  BY AtFirst, NilIsSeq DEF Stands
<1>2. Calls(p, all.tracker.region, none, p)
  BY FedNone DEF Calls
<1>3. q = Received(p, t, none)
  OBVIOUS
<1> HIDE DEF none, all
<1>4. Calm(q, p) /\ q.open = p.open
  BY <1>1, <1>2, <1>3, EndOfRead
<1> QED BY <1>1, <1>4 DEF AtPromptNow, none

\* or its row.
LEMMA EditIs ==
  ASSUME marks_output_start, NEW t, Stands(t, "CommandLine", FALSE), NEW p, Formed(p),
         NEW id \in Rows, NEW text \in Texts, NEW revision \in Revisions,
         NEW items, items = <<Row(id, text, revision)>>, NEW q, q = Received(p, t, items)
  PROVE  /\ AtPromptNow(t, items)
         /\ \/ Fed(q, p, "CommandLine", id, text, revision)
            \/ Again(q, p, "CommandLine", id, text, revision)
<1> DEFINE item == Row(id, text, revision)
           none == <<>>
           all  == Observed(t, items)
           now  == all.tracker.region
           e    == LineEvent("CommandLine", item)
           told == Append(none, e)
<1>1. told = <<e>> /\ IsSeq(told) /\ IsSeq(none)
  BY Tuples, NilIsSeq, AppendIsSeq
<1>2. e = LineEvent("CommandLine", Row(id, text, revision)) /\ item.kind = "Line"
      /\ item.id \in Rows /\ all = Observed(t, <<item>>) /\ all = Observed(t, items)
  BY DEF Row
<1> HIDE DEF item, all, e, none
<1>3. Stands(all.tracker, "CommandLine", FALSE) /\ all.events = told
  <2>1. FirstSays(all, "CommandLine", item)
    <3>1. "CommandLine" \in {"Prompt", "CommandLine"}
      OBVIOUS
    <3> QED BY <1>2, <3>1, RowFirst
  <2> QED BY <1>1, <2>1 DEF e, FirstSays
<1>4. reports_exit_code
  BY FullReports
<1> HIDE DEF now
<1>5. Calls(p, now, none, p)
  BY FedNone DEF Calls, none
<1>6. CASE ~recoloured(p, id, text, revision)
  <2>1. PICK a : Calls(p, now, told, a) /\ Fed(a, p, "CommandLine", id, text, revision)
    BY <1>1, <1>2, <1>4, <1>5, <1>6, FeedRow
  <2>2. Formed(a)
    BY <2>1 DEF Fed
  <2> HIDE DEF told
  <2>3. Calm(q, a) /\ q.open = a.open
    <3>1. all = Observed(t, items) /\ all.events = told /\ IsSeq(told)
      BY <1>1, <1>2, <1>3
    <3>2. Calls(p, all.tracker.region, told, a)
      BY <2>1 DEF now
    <3> QED BY <2>2, <3>1, <3>2, EndOfRead
  <2>4. Fed(q, p, "CommandLine", id, text, revision)
    BY <2>1, <2>3, FedCalmly
  <2> QED BY <1>2, <1>3, <2>4 DEF AtPromptNow
<1>7. CASE recoloured(p, id, text, revision)
  <2>1. IsLine(e) /\ e.region = "CommandLine" /\ e.id = id /\ e.text = text
        /\ e.revision = revision
    BY <1>2, RowEvent
  <2> DEFINE a == FedSoFar(p, now, told)
  <2>2. a = Feeds(p, now, e)
    <3>1. IsSeq(none) /\ FedSoFar(p, now, none) = p
      BY <1>1, <1>5 DEF Calls
    <3> QED BY <3>1, FedMore
  <2>3. Calls(p, now, told, a)
    BY DEF Calls
  <2>4. recoloured(p, e.id, e.text, e.revision)
    BY <1>7, <2>1
  <2> HIDE DEF a, told
  <2>5. Again(a, p, e.region, e.id, e.text, e.revision)
    BY <1>4, <2>1, <2>2, <2>4, FeedAgain DEF Again
  <2>6. Again(a, p, "CommandLine", id, text, revision)
    BY <2>1, <2>5
  <2>7. Formed(a)
    BY <2>5 DEF Again
  <2>8. Calm(q, a) /\ q.open = a.open
    <3>1. all = Observed(t, items) /\ all.events = told /\ IsSeq(told)
      BY <1>1, <1>2, <1>3
    <3>2. Calls(p, all.tracker.region, told, a)
      BY <2>3 DEF now
    <3> QED BY <2>7, <3>1, <3>2, EndOfRead
  <2>9. Again(q, p, "CommandLine", id, text, revision)
    BY <2>6, <2>8 DEF Again, Calm
  <2> QED BY <1>2, <1>3, <2>9 DEF AtPromptNow
<1> QED BY <1>6, <1>7

-----------------------------------------------------------------------------
(***************************************************************************)
(* Texts.  What is trimmed ends where the last character is.               *)
(***************************************************************************)
LEMMA SolidIs ==
  ASSUME NEW S, NEW t \in Seq(S)
  PROVE  /\ Len(t) \in Nat
         /\ Solid(t) = {i \in 1..Len(t) : t[i] # Blank}
         /\ LET e == Max(Solid(t) \cup {0})
            IN  e \in 0..Len(t) /\ e \in Solid(t) \cup {0} /\ \A i \in Solid(t) : i <= e
<1>1. Len(t) \in Nat /\ Solid(t) = {i \in 1..Len(t) : t[i] # Blank}
  BY DEF Solid
<1> DEFINE T == Solid(t) \cup {0}
<1>2. T \in SUBSET (0..Len(t)) /\ T # {}
  BY <1>1
<1>3. Max(T) \in T /\ \A i \in T : i <= Max(T)
  <2> HIDE DEF T
  <2> QED BY <1>1, <1>2, GreatestOf
<1> QED BY <1>1, <1>2, <1>3

LEMMA FrontOf ==
  ASSUME NEW S, NEW s \in Seq(S), NEW n \in 0..Len(s)
  PROVE  /\ SubSeq(s, 1, n) \in Seq(S) /\ Len(SubSeq(s, 1, n)) = n
         /\ \A i \in 1..n : SubSeq(s, 1, n)[i] = s[i]
<1>1. 1 \in Nat \ {0} /\ n \in Nat /\ n <= Len(s)
  OBVIOUS
<1>2. /\ SubSeq(s, 1, n) \in Seq(S)
      /\ Len(SubSeq(s, 1, n)) = IF 1 <= n THEN n - 1 + 1 ELSE 0
      /\ \A i \in 1..(n - 1 + 1) : SubSeq(s, 1, n)[i] = s[1 + i - 1]
  BY <1>1, PartOf
<1> DEFINE r == SubSeq(s, 1, n)
<1>3. r \in Seq(S) /\ Len(r) = n
  BY <1>1, <1>2
<1>4. ASSUME NEW i \in 1..n PROVE r[i] = s[i]
  <2>1. i \in 1..(n - 1 + 1) /\ 1 + i - 1 = i
    BY <1>1
  <2> HIDE DEF r
  <2> QED BY <1>2, <2>1 DEF r
<1> QED BY <1>3, <1>4

LEMMA TrimmedIs ==
  ASSUME NEW S, NEW t \in Seq(S)
  PROVE  trim_end(t) \in Seq(S) /\ TrimmedTo(t, trim_end(t))
<1> DEFINE e == Max(Solid(t) \cup {0})
           r == SubSeq(t, 1, e)
<1>1. /\ Len(t) \in Nat /\ Solid(t) = {i \in 1..Len(t) : t[i] # Blank}
      /\ e \in 0..Len(t) /\ e \in Solid(t) \cup {0} /\ \A i \in Solid(t) : i <= e
  BY SolidIs
<1> HIDE DEF e
<1>2. /\ r \in Seq(S) /\ Len(r) = e
      /\ \A i \in 1..e : r[i] = t[i]
  BY <1>1, FrontOf
<1>3. trim_end(t) = r
  BY DEF trim_end, e
<1> HIDE DEF r
<1>4. e # 0 => r[e] # Blank
  BY <1>1, <1>2
<1>5. \A i \in 1..Len(t) : i > e => t[i] = Blank
  BY <1>1
<1> QED BY <1>1, <1>2, <1>3, <1>4, <1>5 DEF TrimmedTo

LEMMA TrimmedToOne ==
  ASSUME NEW S, NEW t \in Seq(S), NEW r \in Seq(S), NEW u \in Seq(S),
         TrimmedTo(t, r), TrimmedTo(t, u)
  PROVE  r = u
<1>1. Len(r) \in Nat /\ Len(u) \in Nat /\ Len(t) \in Nat
  OBVIOUS
<1>2. ASSUME NEW a \in Seq(S), NEW b \in Seq(S), TrimmedTo(t, a), TrimmedTo(t, b)
      PROVE  ~(Len(a) < Len(b))
  <2> SUFFICES ASSUME Len(a) < Len(b) PROVE FALSE
    OBVIOUS
  <2>1. Len(a) \in Nat /\ Len(b) \in Nat
    OBVIOUS
  <2>2. /\ Len(b) <= Len(t) /\ (Len(b) # 0 => b[Len(b)] # Blank)
        /\ \A i \in 1..Len(b) : b[i] = t[i]
    BY <1>2 DEF TrimmedTo
  <2>3. \A i \in 1..Len(t) : i > Len(a) => t[i] = Blank
    BY <1>2 DEF TrimmedTo
  <2> DEFINE n == Len(b)
  <2>4. n \in Nat /\ n # 0 /\ n \in 1..Len(b) /\ n \in 1..Len(t) /\ n > Len(a)
    BY <1>1, <2>1, <2>2
  <2>5. b[n] # Blank
    BY <2>2, <2>4
  <2> HIDE DEF n
  <2>6. b[n] = t[n] /\ t[n] = Blank
    BY <2>2, <2>3, <2>4
  <2> QED BY <2>5, <2>6
<1>3. Len(r) = Len(u)
  BY <1>1, <1>2
<1>4. \A i \in 1..Len(r) : r[i] = u[i]
  BY <1>3 DEF TrimmedTo
<1> QED BY <1>3, <1>4, SeqEqual

LEMMA TrimsTo ==
  ASSUME NEW S, NEW t \in Seq(S), NEW r \in Seq(S), TrimmedTo(t, r)
  PROVE  trim_end(t) = r
BY TrimmedIs, TrimmedToOne

LEMMA TrimmedTwice ==
  ASSUME NEW S, NEW t \in Seq(S) PROVE trim_end(trim_end(t)) = trim_end(t)
<1> DEFINE r == trim_end(t)
<1>1. r \in Seq(S) /\ TrimmedTo(t, r)
  BY TrimmedIs
<1> HIDE DEF r
<1>2. TrimmedTo(r, r)
  BY <1>1 DEF TrimmedTo
<1> QED BY <1>1, <1>2, TrimsTo DEF r

LEMMA TrimmedOfNone == trim_end(<<>>) = <<>>
<1> DEFINE none == <<>>
<1>1. none \in Seq({}) /\ Len(none) = 0
  OBVIOUS
<1> HIDE DEF none
<1>2. TrimmedTo(none, none)
  BY <1>1 DEF TrimmedTo
<1> QED BY <1>1, <1>2, TrimsTo DEF none

LEMMA Saturating ==
  ASSUME NEW a \in Nat, NEW b \in Nat
  PROVE  saturating_sub(a, b) = IF a >= b THEN a - b ELSE 0
<1> DEFINE m == IF a >= b THEN a - b ELSE 0
           T == {a - b, 0}
<1>1. m \in T /\ m \in Int /\ \A x \in T : m >= x /\ x \in Int
  OBVIOUS
<1> HIDE DEF m, T
<1>2. \A x \in T : (\A y \in T : x >= y) => x = m
  BY <1>1
<1>3. Max(T) = m
  BY <1>1, <1>2 DEF Max
<1> QED BY <1>3 DEF saturating_sub, m, T

LEMMA PaddedIs ==
  ASSUME NEW S, Blank \in S, NEW t \in Seq(S), NEW c \in Nat
  PROVE  /\ padded(t, c) \in Seq(S)
         /\ Len(padded(t, c)) >= c /\ Len(padded(t, c)) >= Len(t)
         /\ \A i \in 1..Len(padded(t, c)) :
               padded(t, c)[i] = IF i <= Len(t) THEN t[i] ELSE Blank
<1> DEFINE n == saturating_sub(c, Len(t))
           b == [i \in 1..n |-> Blank]
           r == t \o b
<1>1. Len(t) \in Nat /\ n = IF c >= Len(t) THEN c - Len(t) ELSE 0
  BY Saturating
<1> HIDE DEF n
<1>2. n \in Nat /\ Len(t) + n >= c
  BY <1>1
<1>3. b \in Seq(S) /\ Len(b) = n /\ \A i \in 1..n : b[i] = Blank
  BY <1>2
<1>4. padded(t, c) = r
  BY DEF padded, n
<1> HIDE DEF b
<1>5. r \in Seq(S) /\ Len(r) = Len(t) + n
      /\ \A i \in 1..(Len(t) + n) : r[i] = IF i <= Len(t) THEN t[i] ELSE b[i - Len(t)]
  BY <1>3, ConcatProperties
<1> HIDE DEF r
<1>6. ASSUME NEW i \in 1..Len(r) PROVE r[i] = IF i <= Len(t) THEN t[i] ELSE Blank
  <2>1. CASE i <= Len(t)
    BY <1>5, <2>1
  <2>2. CASE ~(i <= Len(t))
    <3>1. i - Len(t) \in 1..n
      BY <1>1, <1>2, <1>5, <2>2
    <3> QED BY <1>3, <1>5, <2>2, <3>1
  <2> QED BY <2>1, <2>2
<1> QED BY <1>1, <1>2, <1>4, <1>5, <1>6

\* The blanks that are put back are trimmed again.
LEMMA TrimmedPadded ==
  ASSUME NEW S, Blank \in S, NEW t \in Seq(S), NEW c \in Nat
  PROVE  trim_end(padded(trim_end(t), c)) = trim_end(t)
<1> DEFINE r == trim_end(t)
           p == padded(r, c)
<1>1. r \in Seq(S) /\ TrimmedTo(t, r)
  BY TrimmedIs
<1> HIDE DEF r
<1>2. /\ p \in Seq(S) /\ Len(p) >= c /\ Len(p) >= Len(r)
      /\ \A i \in 1..Len(p) : p[i] = IF i <= Len(r) THEN r[i] ELSE Blank
  BY <1>1, PaddedIs
<1> HIDE DEF p
<1>3. TrimmedTo(p, r)
  BY <1>1, <1>2 DEF TrimmedTo
<1> QED BY <1>1, <1>2, <1>3, TrimsTo DEF p, r

LEMMA PromptIs ==
  /\ Prompt \in Texts /\ Len(Prompt) = 1 /\ Prompt[1] = "$" /\ "$" # Blank
  /\ Blank \in Glyphs
BY TextOf DEF Prompt, Blank, Glyphs

LEMMA WithPrompt ==
  ASSUME NEW t \in Texts
  PROVE  /\ Prompt \o t \in Texts /\ Len(Prompt \o t) = Len(t) + 1 /\ Len(t) \in Nat
         /\ (Prompt \o t)[1] = "$"
         /\ \A i \in 1..Len(t) : (Prompt \o t)[i + 1] = t[i]
<1> DEFINE l == Prompt \o t
<1>1. /\ l \in Texts /\ Len(l) = 1 + Len(t) /\ Len(t) \in Nat
      /\ \A i \in 1..(1 + Len(t)) : l[i] = IF i <= 1 THEN Prompt[i] ELSE t[i - 1]
  BY PromptIs, ConcatProperties DEF Texts
<1> HIDE DEF l
<1>2. l[1] = "$"
  BY <1>1, PromptIs
<1>3. ASSUME NEW i \in 1..Len(t) PROVE l[i + 1] = t[i]
  <2>1. i + 1 \in 1..(1 + Len(t)) /\ ~(i + 1 <= 1) /\ i + 1 - 1 = i
    BY <1>1
  <2> QED BY <1>1, <2>1
<1> QED BY <1>1, <1>2, <1>3 DEF l

\* What is behind the prompt is what was put there.
LEMMA PastPrompt ==
  ASSUME NEW t \in Texts PROVE from_column(Prompt \o t, 1) = t
<1> DEFINE l == Prompt \o t
           n == Len(l)
           r == SubSeq(l, 2, n)
<1>1. /\ l \in Texts /\ n = Len(t) + 1 /\ Len(t) \in Nat
      /\ \A i \in 1..Len(t) : l[i + 1] = t[i]
  BY WithPrompt
<1>2. from_column(l, 1) = r
  BY DEF from_column
<1> HIDE DEF l
<1>3. /\ r \in Seq(Glyphs) /\ Len(r) = Len(t)
      /\ \A i \in 1..(n - 2 + 1) : r[i] = l[2 + i - 1]
  <2>1. 2 \in Nat \ {0} /\ n \in Nat /\ n <= Len(l) /\ l \in Seq(Glyphs)
    BY <1>1 DEF Texts
  <2>2. /\ r \in Seq(Glyphs) /\ Len(r) = IF 2 <= n THEN n - 2 + 1 ELSE 0
        /\ \A i \in 1..(n - 2 + 1) : r[i] = l[2 + i - 1]
    BY <2>1, PartOf
  <2>3. Len(r) = Len(t)
    BY <1>1, <2>2
  <2> QED BY <2>2, <2>3
<1> HIDE DEF r
<1>4. ASSUME NEW i \in 1..Len(r) PROVE r[i] = t[i]
  <2>1. i \in 1..Len(t) /\ i \in 1..(n - 2 + 1) /\ 2 + i - 1 = i + 1
    BY <1>1, <1>3
  <2> QED BY <1>1, <1>3, <2>1
<1> HIDE DEF n
<1>5. r = t
  BY <1>3, <1>4, SeqEqual DEF Texts
<1> QED BY <1>2, <1>5 DEF l

LEMMA SamePrompt ==
  ASSUME NEW t \in Texts, NEW u \in Texts, Prompt \o t = Prompt \o u PROVE t = u
BY PastPrompt

LEMMA TextsTrim ==
  ASSUME NEW t \in Texts
  PROVE  trim_end(t) \in Texts /\ Len(trim_end(t)) \in Nat /\ Len(t) \in Nat
         /\ Len(trim_end(t)) <= Len(t)
<1>1. trim_end(t) \in Seq(Glyphs) /\ TrimmedTo(t, trim_end(t))
  BY TrimmedIs DEF Texts
<1>2. Len(trim_end(t)) <= Len(t)
  BY <1>1 DEF TrimmedTo
<1> HIDE DEF trim_end
<1> QED BY <1>1, <1>2 DEF Texts

\* A prompt ends with no blank, and the line is not trimmed twice.
LEMMA TrimmedLine ==
  ASSUME NEW t \in Texts
  PROVE  trim_end(Prompt \o trim_end(t)) = Prompt \o trim_end(t)
<1> DEFINE r == trim_end(t)
           l == Prompt \o r
<1>1. r \in Texts /\ TrimmedTo(t, r)
  BY TrimmedIs DEF Texts
<1> HIDE DEF r
<1>2. /\ l \in Texts /\ Len(l) = Len(r) + 1 /\ Len(r) \in Nat
      /\ l[1] = "$" /\ \A i \in 1..Len(r) : l[i + 1] = r[i]
  BY <1>1, WithPrompt
<1> HIDE DEF l
<1>3. l[Len(l)] # Blank
  <2>1. CASE Len(r) = 0
    BY <1>2, <2>1, PromptIs
  <2>2. CASE Len(r) # 0
    <3>1. r[Len(r)] # Blank
      BY <1>1, <2>2 DEF TrimmedTo
    <3>2. Len(r) \in 1..Len(r)
      BY <1>2, <2>2
    <3> QED BY <1>2, <3>1, <3>2
  <2> QED BY <2>1, <2>2
<1>4. TrimmedTo(l, l)
  <2>1. Len(l) \in Nat
    BY <1>2
  <2> QED BY <1>3, <2>1 DEF TrimmedTo
<1>5. trim_end(l) = l
  BY <1>2, <1>4, TrimsTo DEF Texts
<1> QED BY <1>5 DEF l, r

\* Suffixes, read from behind.
LEMMA SuffixIs ==
  ASSUME NEW S, NEW r \in Seq(S), NEW t \in Seq(S)
  PROVE  IsSuffix(r, t) <=>
            /\ Len(r) <= Len(t)
            /\ \A i \in 1..Len(r) : r[Len(r) - i + 1] = t[Len(t) - i + 1]
<1> DEFINE a == Reverse(r)
           b == Reverse(t)
           n == Len(r)
           m == Len(t)
<1>1. n \in Nat /\ m \in Nat
  OBVIOUS
<1>2. /\ a \in Seq(S) /\ Len(a) = n /\ \A i \in 1..n : a[i] = r[n - i + 1]
      /\ b \in Seq(S) /\ Len(b) = m /\ \A i \in 1..m : b[i] = t[m - i + 1]
  <2>1. ASSUME NEW s \in Seq(S)
        PROVE  Reverse(s) \in Seq(S) /\ Len(Reverse(s)) = Len(s)
               /\ \A i \in 1..Len(s) : Reverse(s)[i] = s[Len(s) - i + 1]
    <3>1. Len(s) \in Nat /\ \A i \in 1..Len(s) : Len(s) - i + 1 \in 1..Len(s)
      OBVIOUS
    <3>2. Reverse(s) = [i \in 1..Len(s) |-> s[(Len(s) - i) + 1]]
      BY DEF Reverse
    <3>3. \A i \in 1..Len(s) : s[(Len(s) - i) + 1] \in S
      BY <3>1
    <3> QED BY <3>1, <3>2, <3>3, IsASeq
  <2> QED BY <2>1
<1> HIDE DEF a, b
<1>3. IsSuffix(r, t) <=> n <= m /\ SubSeq(a, 1, n) = SubSeq(b, 1, n)
  BY <1>2 DEF IsSuffix, IsPrefix, a, b
<1>4. CASE n <= m
  <2> DEFINE c == SubSeq(a, 1, n)
             d == SubSeq(b, 1, n)
  <2>1. n \in 0..Len(a) /\ n \in 0..Len(b)
    BY <1>1, <1>2, <1>4
  <2>2. /\ c \in Seq(S) /\ Len(c) = n /\ \A i \in 1..n : c[i] = a[i]
        /\ d \in Seq(S) /\ Len(d) = n /\ \A i \in 1..n : d[i] = b[i]
    BY <1>2, <2>1, FrontOf
  <2> HIDE DEF c, d
  <2>3. c = d <=> \A i \in 1..n : c[i] = d[i]
    BY <2>2, SeqEqual
  <2>4. \A i \in 1..n : i \in 1..m
    BY <1>1, <1>4
  <2>5. \A i \in 1..n : c[i] = r[n - i + 1] /\ d[i] = t[m - i + 1]
    BY <1>2, <2>2, <2>4
  <2> QED BY <1>3, <1>4, <2>3, <2>5 DEF c, d
<1>5. CASE ~(n <= m)
  BY <1>3, <1>5
<1> QED BY <1>4, <1>5

LEMMA LineEnds ==
  ASSUME NEW t \in Texts
  PROVE  IsSuffix(t, Prompt \o t)
<1> DEFINE l == Prompt \o t
<1>1. /\ l \in Texts /\ Len(l) = Len(t) + 1 /\ Len(t) \in Nat
      /\ \A i \in 1..Len(t) : l[i + 1] = t[i]
  BY WithPrompt
<1> HIDE DEF l
<1>2. ASSUME NEW i \in 1..Len(t) PROVE t[Len(t) - i + 1] = l[Len(l) - i + 1]
  <2>1. Len(t) - i + 1 \in 1..Len(t) /\ Len(l) - i + 1 = (Len(t) - i + 1) + 1
    BY <1>1
  <2> QED BY <1>1, <2>1
<1>3. Len(t) <= Len(l)
  BY <1>1
<1>4. IsSuffix(t, l)
  BY <1>1, <1>2, <1>3, SuffixIs DEF Texts
<1> QED BY <1>4 DEF l

-----------------------------------------------------------------------------
(* What the shell's line editor makes of the line.                         *)
LEMMA TypedTexts ==
  /\ Typed \subseteq Tokens /\ Seq(Typed) \subseteq Texts
  /\ Recalled \in Seq(Typed) /\ Pasted \in Seq(Typed)
<1>1. ASSUME NEW s \in Seq(Tokens)
      PROVE  Range(s) \subseteq Tokens /\ s \in Seq(Range(s))
  <2>1. \A i \in 1..Len(s) : s[i] \in Range(s)
    BY DEF Range
  <2> QED BY <2>1 DEF Range
<1>2. Range(Recalled) \subseteq Tokens /\ Recalled \in Seq(Range(Recalled))
  BY <1>1, RecalledAssumption
<1>3. Range(Pasted) \subseteq Tokens /\ Pasted \in Seq(Range(Pasted))
  BY <1>1, PastedAssumption
<1>4. Typed \subseteq Tokens /\ Range(Recalled) \subseteq Typed /\ Range(Pasted) \subseteq Typed
  BY <1>2, <1>3 DEF Typed
<1>5. Tokens \subseteq Glyphs
  BY DEF Glyphs
<1>6. \A S, T : S \subseteq T => Seq(S) \subseteq Seq(T)
  OBVIOUS
<1>7. Typed \subseteq Glyphs
  BY <1>4, <1>5
<1>8. Seq(Typed) \subseteq Seq(Glyphs)
  BY <1>6, <1>7
<1>9. Recalled \in Seq(Typed)
  BY <1>2, <1>4, <1>6
<1>10. Pasted \in Seq(Typed)
  BY <1>3, <1>4, <1>6
<1> QED BY <1>4, <1>8, <1>9, <1>10 DEF Texts

LEMMA JoinedTexts ==
  ASSUME NEW s \in Texts, NEW t \in Texts PROVE s \o t \in Texts /\ Len(s \o t) = Len(s) + Len(t)
BY DEF Texts

LEMMA RedrawnIs ==
  ASSUME NEW id, NEW before \in Texts, NEW after \in Texts
  PROVE  /\ before = after => Redrawn(id, before, after) = <<>>
         /\ before # after => Redraws(Redrawn(id, before, after), id, before, after)
<1>1. CASE before = after
  BY <1>1 DEF Redrawn
<1>2. CASE before # after /\ ~IsPrefix(before, after)
  <2>1. Redrawn(id, before, after) = <<Row(id, after, "Rewritten")>>
    BY <1>2 DEF Redrawn
  <2>2. After(before, after, "Rewritten") = after /\ "Rewritten" \in Revisions
    BY DEF After, Revisions
  <2> QED BY <1>2, <2>1, <2>2 DEF Redraws
<1>3. CASE before # after /\ IsPrefix(before, after)
  <2> DEFINE n == Len(before)
             m == Len(after)
             tail == SubSeq(after, n + 1, m)
  <2>1. n \in Nat /\ m \in Nat /\ before \in Seq(Glyphs) /\ after \in Seq(Glyphs)
    BY DEF Texts
  <2>2. n <= m /\ SubSeq(before, 1, n) = SubSeq(after, 1, n)
    BY <1>3 DEF IsPrefix
  <2>3. n + 1 \in Nat \ {0} /\ m <= Len(after)
    BY <2>1
  <2>4. tail \in Seq(Glyphs) /\ Len(tail) = (IF n + 1 <= m THEN m - (n + 1) + 1 ELSE 0)
        /\ \A i \in 1..(m - (n + 1) + 1) : tail[i] = after[n + 1 + i - 1]
    BY <2>1, <2>3, PartOf
  <2>5. /\ \A i \in 1..n : SubSeq(before, 1, n)[i] = before[i]
        /\ \A i \in 1..n : SubSeq(after, 1, n)[i] = after[i]
    <3>1. n \in 0..Len(before) /\ n \in 0..Len(after)
      BY <2>1, <2>2
    <3>2. \A i \in 1..n : SubSeq(before, 1, n)[i] = before[i]
      BY <2>1, <3>1, FrontOf
    <3>3. \A i \in 1..n : SubSeq(after, 1, n)[i] = after[i]
      BY <2>1, <3>1, FrontOf
    <3> QED BY <3>2, <3>3
  <2>6. \A i \in 1..n : before[i] = after[i]
    BY <2>2, <2>5
  <2> HIDE DEF tail
  <2>7. Len(tail) = m - n
    BY <2>1, <2>2, <2>4
  <2>8. before \o tail \in Seq(Glyphs) /\ Len(before \o tail) = m
    BY <2>1, <2>4, <2>7
  <2>9. ASSUME NEW i \in 1..m PROVE (before \o tail)[i] = after[i]
    <3>1. CASE i <= n
      BY <2>1, <2>4, <2>6, <3>1
    <3>2. CASE i > n
      <4>0. Len(before) = n /\ Len(tail) = m - n /\ tail \in Seq(Glyphs) /\ i \in 1..(n + Len(tail))
        BY <2>1, <2>4, <2>7
      <4>1. i - n \in 1..(m - (n + 1) + 1)
        BY <2>1, <3>2
      <4>2. tail[i - n] = after[n + 1 + (i - n) - 1]
        BY <2>4, <4>1
      <4>3. (before \o tail)[i] = tail[i - n]
        BY <2>1, <4>0, <3>2
      <4>4. n + 1 + (i - n) - 1 = i
        BY <2>1
      <4> QED BY <4>2, <4>3, <4>4
    <3>3. i <= n \/ i > n
      BY <2>1
    <3> QED BY <3>1, <3>2, <3>3
  <2>10. before \o tail = after
    BY <2>1, <2>8, <2>9, SeqEqual
  <2>11. Redrawn(id, before, after) = <<Row(id, tail, "Appended")>>
    BY <1>3 DEF Redrawn, from_column, tail
  <2>12. After(before, tail, "Appended") = after /\ "Appended" \in Revisions /\ tail \in Texts
    BY <2>4, <2>10 DEF After, Revisions, Texts
  <2> QED BY <1>3, <2>11, <2>12 DEF Redraws
<1> QED BY <1>1, <1>2, <1>3

LEMMA InsertedTyped ==
  ASSUME NEW s \in Seq(Typed), NEW c \in Nat, c <= Len(s), NEW t \in Seq(Typed)
  PROVE  LET to == SubSeq(s, 1, c) \o t \o SubSeq(s, c + 1, Len(s))
         IN  /\ to \in Seq(Typed) /\ c + Len(t) \in Nat /\ c + Len(t) <= Len(to)
             /\ Len(to) = Len(s) + Len(t)
<1> DEFINE a == SubSeq(s, 1, c)
           b == SubSeq(s, c + 1, Len(s))
<1>1. Len(s) \in Nat /\ Len(t) \in Nat /\ c + 1 \in Nat \ {0} /\ c \in 0..Len(s)
  OBVIOUS
<1>2. a \in Seq(Typed) /\ Len(a) = c
  BY <1>1, FrontOf
<1>3. Len(s) <= Len(s)
  BY <1>1
<1>4. b \in Seq(Typed) /\ Len(b) = IF c + 1 <= Len(s) THEN Len(s) - (c + 1) + 1 ELSE 0
  BY <1>1, <1>3, PartOf
<1> HIDE DEF a, b
<1>5. a \o t \in Seq(Typed) /\ Len(a \o t) = c + Len(t)
  BY <1>2
<1>6. b \in Seq(Typed) /\ Len(b) = Len(s) - c
  <2>1. Len(s) = c => Len(s) - c = 0
    BY <1>1
  <2>2. c + 1 <= Len(s) \/ Len(s) = c
    BY <1>1
  <2>3. Len(s) - (c + 1) + 1 = Len(s) - c
    BY <1>1
  <2>4. Len(s) = c => ~(c + 1 <= Len(s))
    BY <1>1
  <2> QED BY <1>4, <2>1, <2>2, <2>3, <2>4
<1>7. b \in Seq(Typed)
  BY <1>6
<1>8. /\ (a \o t) \o b \in Seq(Typed) /\ Len((a \o t) \o b) = Len(a \o t) + Len(b)
  BY <1>5, <1>7, ConcatProperties
<1>9. c + Len(t) \in Nat /\ c + Len(t) <= Len((a \o t) \o b)
      /\ Len((a \o t) \o b) = Len(s) + Len(t)
  <2>1. Len((a \o t) \o b) = (c + Len(t)) + (Len(s) - c)
    BY <1>5, <1>6, <1>8
  <2> QED BY <1>1, <2>1
<1> QED BY <1>8, <1>9 DEF a, b

LEMMA RemovedTyped ==
  ASSUME NEW s \in Seq(Typed), NEW c \in Nat \ {0}, c <= Len(s)
  PROVE  LET to == RemoveAt(s, c)
         IN  /\ to \in Seq(Typed) /\ c - 1 \in Nat /\ c - 1 <= Len(to)
             /\ Len(to) = Len(s) - 1
<1> DEFINE a == SubSeq(s, 1, c - 1)
           b == SubSeq(s, c + 1, Len(s))
<1>1. Len(s) \in Nat /\ c + 1 \in Nat \ {0} /\ c - 1 \in 0..Len(s)
  OBVIOUS
<1>2. a \in Seq(Typed) /\ Len(a) = c - 1
  BY <1>1, FrontOf
<1>3. Len(s) <= Len(s)
  BY <1>1
<1>4. b \in Seq(Typed) /\ Len(b) = IF c + 1 <= Len(s) THEN Len(s) - (c + 1) + 1 ELSE 0
  BY <1>1, <1>3, PartOf
<1> HIDE DEF a, b
<1>5. a \o b \in Seq(Typed) /\ Len(a \o b) = c - 1 + Len(b) /\ Len(b) \in Nat
  BY <1>1, <1>2, <1>4
<1>6. c - 1 \in Nat /\ c - 1 <= Len(a \o b) /\ Len(a \o b) = Len(s) - 1
  BY <1>1, <1>4, <1>5
<1>7. RemoveAt(s, c) = a \o b
  BY DEF RemoveAt, a, b
<1> QED BY <1>5, <1>6, <1>7

LEMMA LeftTyped ==
  ASSUME NEW c \in Nat PROVE saturating_sub(c, 1) \in Nat /\ saturating_sub(c, 1) <= c
BY Saturating

-----------------------------------------------------------------------------
(* Reads on their way.                                                     *)
LEMMA PromptLong ==
  ASSUME NEW row, NEW before, IsSeq(before)
  PROVE  LET items == PromptOn(row, before).items
         IN  /\ Len(items) = Len(before) + 3 /\ Len(before) \in Nat
             /\ Len(before) > 0 => items[1] = before[1]
<1> DEFINE c == <<Mark("PromptStart"), Row(row, Prompt, "Appended"), Mark("CommandStart")>>
<1>1. PICK S : before \in Seq(S)
  BY DEF IsSeq
<1>2. PICK T : c \in Seq(T) /\ Len(c) = 3
  <2>1. \E T : c \in Seq(T)
    BY TuplesAreSeqs DEF IsSeq
  <2> QED BY <2>1
<1>3. PromptOn(row, before).items = before \o c
  BY DEF PromptOn, Read
<1> HIDE DEF c
<1>4. PICK U : before \in Seq(U) /\ c \in Seq(U)
  <2>1. before \in Seq(S \cup T) /\ c \in Seq(S \cup T)
    BY <1>1, <1>2
  <2> QED BY <2>1
<1>5. Len(before \o c) = Len(before) + Len(c) /\ Len(before) \in Nat
  BY <1>4
<1>6. Len(before) > 0 => (before \o c)[1] = before[1]
  BY <1>4
<1> QED BY <1>2, <1>3, <1>5, <1>6

\* The kinds of reads, told apart by how many items they have.
LEMMA ReadsAre ==
  ASSUME NEW row, NEW left
  PROVE  /\ Len(PromptOn(row, <<>>).items) = 3
         /\ Len(PromptOn(row, <<Done>>).items) = 4
         /\ LET blank == PromptOn(row, <<Mark("OutputStart"), Done>>).items
            IN  Len(blank) = 5 /\ blank[1].kind = "OutputStart"
         /\ Len(PromptOn(row, <<Row(left, Refusal, "Appended"), Mark("OutputStart"),
                                Done>>).items) = 6
<1>1. /\ IsSeq(<<>>) /\ IsSeq(<<Done>>) /\ IsSeq(<<Mark("OutputStart"), Done>>)
      /\ IsSeq(<<Row(left, Refusal, "Appended"), Mark("OutputStart"), Done>>)
  BY NilIsSeq, TuplesAreSeqs
<1>2. /\ Len(<<>>) = 0 /\ Len(<<Done>>) = 1 /\ Len(<<Mark("OutputStart"), Done>>) = 2
      /\ Len(<<Row(left, Refusal, "Appended"), Mark("OutputStart"), Done>>) = 3
      /\ <<Mark("OutputStart"), Done>>[1] = Mark("OutputStart")
  OBVIOUS
<1>3. Len(PromptOn(row, <<>>).items) = 0 + 3
  BY <1>1, <1>2, PromptLong
<1>4. Len(PromptOn(row, <<Done>>).items) = 1 + 3
  BY <1>1, <1>2, PromptLong
<1>5. LET blank == PromptOn(row, <<Mark("OutputStart"), Done>>).items
      IN  Len(blank) = 2 + 3 /\ blank[1] = Mark("OutputStart")
  <2> DEFINE before == <<Mark("OutputStart"), Done>>
  <2>1. IsSeq(before) /\ Len(before) = 2 /\ before[1] = Mark("OutputStart")
    BY <1>1, <1>2
  <2> HIDE DEF before
  <2>2. LET items == PromptOn(row, before).items
        IN  /\ Len(items) = Len(before) + 3 /\ Len(before) \in Nat
            /\ Len(before) > 0 => items[1] = before[1]
    BY <2>1, PromptLong
  <2>3. LET items == PromptOn(row, before).items
        IN  Len(items) = 2 + 3 /\ items[1] = Mark("OutputStart")
    BY <2>1, <2>2
  <2> QED BY <2>3 DEF before
<1>6. Len(PromptOn(row, <<Row(left, Refusal, "Appended"), Mark("OutputStart"),
                          Done>>).items) = 3 + 3
  BY <1>1, <1>2, PromptLong
<1> QED BY <1>3, <1>4, <1>5, <1>6 DEF Mark

\* What a read prints, by its kind.
LEMMA PrintsIs ==
  ASSUME NEW r, NEW sh, NEW row
  PROVE  /\ EditOf(r.items, sh) => PrintsOn(r) = {} /\ Ends(r) = "CommandLine"
         /\ FirstAt(r.items, row) => PrintsOn(r) = {} /\ Ends(r) = "CommandLine"
         /\ DoneAt(r.items, row) => PrintsOn(r) = {} /\ Ends(r) = "CommandLine"
         /\ BlankAt(r.items, row) => PrintsOn(r) = {} /\ Ends(r) = "CommandLine"
         /\ DroppedAt(r.items, row, sh) => PrintsOn(r) = {} /\ Ends(r) = "CommandLine"
         /\ ListedAt(r.items, row, sh) =>
               PrintsOn(r) = {r.items[1].id} /\ Ends(r) = "CommandLine"
         /\ OutputAt(r.items, row, sh) => PrintsOn(r) = {row} /\ Ends(r) = "Output"
<1>0. ASSUME \/ Len(r.items) \in {0, 1, 3, 4}
             \/ Len(r.items) = 5 /\ r.items[1].kind = "OutputStart"
      PROVE  PrintsOn(r) = {} /\ Ends(r) = "CommandLine"
  <2>1. Len(r.items) # 2 /\ (Len(r.items) = 5 => r.items[1].kind # "Line")
    <3> DEFINE n == Len(r.items)
               kind == r.items[1].kind
    <3> HIDE DEF n, kind
    <3>0. n # 2 /\ (n = 5 => kind # "Line")
      <4>1. n \in {0, 1, 3, 4} \/ (n = 5 /\ kind = "OutputStart")
        BY <1>0 DEF n, kind
      <4> QED BY <4>1
    <3>1. CASE Len(r.items) \in {0, 1, 3, 4}
      BY <3>0, <3>1 DEF n, kind
    <3>2. CASE Len(r.items) = 5 /\ r.items[1].kind = "OutputStart"
      BY <3>0, <3>2 DEF n, kind
    <3> QED BY <1>0, <3>1, <3>2
  <2> QED BY <2>1 DEF PrintsOn, Ends
<1>1. EditOf(r.items, sh) => PrintsOn(r) = {} /\ Ends(r) = "CommandLine"
  <2>1. Len(<<>>) = 0
    OBVIOUS
  <2>2. EditOf(r.items, sh) => Len(r.items) \in {0, 1}
    BY <2>1 DEF EditOf
  <2> QED BY <1>0, <2>2
<1>2. FirstAt(r.items, row) => PrintsOn(r) = {} /\ Ends(r) = "CommandLine"
  <2>1. FirstAt(r.items, row) => Len(r.items) = 3
    BY ReadsAre DEF FirstAt
  <2> QED BY <1>0, <2>1
<1>3. DoneAt(r.items, row) => PrintsOn(r) = {} /\ Ends(r) = "CommandLine"
  <2>1. DoneAt(r.items, row) => Len(r.items) = 4
    BY ReadsAre DEF DoneAt
  <2> QED BY <1>0, <2>1
<1>4. BlankAt(r.items, row) => PrintsOn(r) = {} /\ Ends(r) = "CommandLine"
  <2>1. BlankAt(r.items, row) => Len(r.items) = 5 /\ r.items[1].kind = "OutputStart"
    BY ReadsAre DEF BlankAt
  <2> QED BY <1>0, <2>1
<1>5. DroppedAt(r.items, row, sh) => PrintsOn(r) = {} /\ Ends(r) = "CommandLine"
  BY DEF DroppedAt, PrintsOn, Ends
<1>6. ListedAt(r.items, row, sh) =>
               PrintsOn(r) = {r.items[1].id} /\ Ends(r) = "CommandLine"
  BY DEF ListedAt, PrintsOn, Ends
<1>7. OutputAt(r.items, row, sh) => PrintsOn(r) = {row} /\ Ends(r) = "Output"
  <2>1. \A a, b : Len(<<a, b>>) = 2 /\ <<a, b>>[2] = b
    OBVIOUS
  <2> QED BY <2>1 DEF OutputAt, PrintsOn, Ends, Row
<1> QED BY <1>1, <1>2, <1>3, <1>4, <1>5, <1>6, <1>7

LEMMA PrintsPrinted ==
  ASSUME NEW r, NEW region, NEW sh, Fits(r, region, sh), NEW row \in PrintsOn(r)
  PROVE  \/ Ends(r) = "Output" /\ [row |-> row, text |-> Printout] \in sh.printed
         \/ ListedAt(r.items, r.at.row, sh) /\ r.items[1].id = row
            /\ [row |-> row, text |-> Listing] \in sh.printed
<1>1. ASSUME OutputAt(r.items, r.at.row, sh)
      PROVE  Ends(r) = "Output" /\ [row |-> row, text |-> Printout] \in sh.printed
  <2>1. PrintsOn(r) = {r.at.row} /\ Ends(r) = "Output"
    BY <1>1, PrintsIs
  <2> QED BY <1>1, <2>1 DEF OutputAt
<1>2. ASSUME ListedAt(r.items, r.at.row, sh)
      PROVE  r.items[1].id = row /\ [row |-> row, text |-> Listing] \in sh.printed
  <2>1. PrintsOn(r) = {r.items[1].id}
    BY <1>2, PrintsIs
  <2> QED BY <1>2, <2>1 DEF ListedAt
<1>3. OutputAt(r.items, r.at.row, sh) \/ ListedAt(r.items, r.at.row, sh)
  BY PrintsIs DEF Fits
<1> QED BY <1>1, <1>2, <1>3

LEMMA FitsGrows ==
  ASSUME NEW r, NEW region, NEW sh, NEW sh2, Fits(r, region, sh),
         sh.rows \subseteq sh2.rows, sh.printed \subseteq sh2.printed
  PROVE  Fits(r, region, sh2)
<1>1. EditOf(r.items, sh) => EditOf(r.items, sh2)
  BY DEF EditOf
<1>2. DroppedAt(r.items, r.at.row, sh) => DroppedAt(r.items, r.at.row, sh2)
  BY DEF DroppedAt
<1>3. ListedAt(r.items, r.at.row, sh) => ListedAt(r.items, r.at.row, sh2)
  BY DEF ListedAt
<1>4. OutputAt(r.items, r.at.row, sh) => OutputAt(r.items, r.at.row, sh2)
  BY DEF OutputAt
<1> QED BY <1>1, <1>2, <1>3, <1>4 DEF Fits

\* A sequence with one more, or without its first.
LEMMA OneMore ==
  ASSUME NEW s, IsSeq(s), NEW x
  PROVE  LET t == Append(s, x)
         IN  /\ IsSeq(t) /\ Len(s) \in Nat /\ Len(t) = Len(s) + 1
             /\ \A i \in 1..Len(s) : t[i] = s[i]
             /\ t[Len(s) + 1] = x
<1>1. PICK S : s \in Seq(S)
  BY DEF IsSeq
<1>2. s \in Seq(S \cup {x}) /\ x \in S \cup {x}
  BY <1>1
<1>3. IsSeq(Append(s, x))
  BY AppendIsSeq
<1> QED BY <1>2, <1>3

LEMMA OneLess ==
  ASSUME NEW s, IsSeq(s), s # <<>>
  PROVE  /\ IsSeq(Tail(s)) /\ Len(s) \in Nat \ {0} /\ Len(Tail(s)) = Len(s) - 1
         /\ Head(s) = s[1]
         /\ \A i \in 1..(Len(s) - 1) : Tail(s)[i] = s[i + 1]
<1>1. PICK S : s \in Seq(S)
  BY DEF IsSeq
<1>2. Tail(s) \in Seq(S) /\ Len(s) \in Nat \ {0} /\ Len(Tail(s)) = Len(s) - 1
      /\ Head(s) = s[1] /\ \A i \in 1..(Len(s) - 1) : Tail(s)[i] = s[i + 1]
  BY <1>1
<1> QED BY <1>2 DEF IsSeq

LEMMA SendChains ==
  ASSUME NEW t, NEW rs, IsSeq(rs), NEW sh, NEW sh2, NEW r, Sends(r, sh, sh2),
         Chained(t, rs, sh)
  PROVE  Chained(t, Append(rs, r), sh2)
<1> DEFINE s == Append(rs, r)
           n == Len(rs)
<1>1. /\ n \in Nat /\ Len(s) = n + 1
      /\ \A i \in 1..n : s[i] = rs[i]
      /\ s[n + 1] = r
  BY OneMore
<1> HIDE DEF s, n
<1>2. ASSUME NEW i \in 0..n PROVE RegionAfter(i, t, s) = RegionAfter(i, t, rs)
  BY <1>1, <1>2 DEF RegionAfter
<1>3. ASSUME NEW i \in 1..(n + 1) PROVE Fits(s[i], RegionAfter(i - 1, t, s), sh2)
  <2>1. i - 1 \in 0..n
    BY <1>1
  <2>2. RegionAfter(i - 1, t, s) = RegionAfter(i - 1, t, rs)
    BY <1>2, <2>1
  <2>3. CASE i \in 1..n
    <3>1. Fits(rs[i], RegionAfter(i - 1, t, rs), sh)
      BY <2>3 DEF Chained, n
    <3>2. Fits(rs[i], RegionAfter(i - 1, t, rs), sh2)
      BY <3>1, FitsGrows DEF Sends
    <3> QED BY <1>1, <2>2, <2>3, <3>2
  <2>4. CASE i = n + 1
    <3>1. RegionAfter(n, t, rs) = RegionOf(sh.phase)
      BY DEF Chained, n
    <3>2. i - 1 = n
      BY <1>1, <2>4
    <3> QED BY <1>1, <2>2, <2>4, <3>1, <3>2 DEF Sends
  <2> QED BY <1>1, <2>3, <2>4
<1>4. RegionAfter(n + 1, t, s) = RegionOf(sh2.phase)
  BY <1>1 DEF RegionAfter, Sends
<1>5. Chained(t, s, sh2)
  BY <1>1, <1>3, <1>4 DEF Chained
<1> QED BY <1>5 DEF s

LEMMA SendDelivers ==
  ASSUME NEW t, NEW rs, IsSeq(rs), NEW sh \in Shells, NEW sh2, NEW r, Sends(r, sh, sh2),
         Numbered(sh), Chained(t, rs, sh), NEW p, NEW results, Unwritten(p, results, sh),
         Elsewhere(p, sh),
         \A x \in sh.printed : Delivered(x, results, rs, p.far.printed),
         NEW x \in sh2.printed
  PROVE  Delivered(x, results, Append(rs, r), p.far.printed)
<1> DEFINE s == Append(rs, r)
           n == Len(rs)
           hand == p.far.printed
<1>1. /\ n \in Nat /\ Len(s) = n + 1
      /\ \A i \in 1..n : s[i] = rs[i]
      /\ s[n + 1] = r
  BY OneMore
<1>0. x.row \in Rows /\ x.row \in Nat /\ sh.next \in Nat
  <2>1. x.row \in Rows
    BY DEF Sends, Shells
  <2> QED BY <2>1, RowsAssumption DEF Shells
<1>2. ASSUME NEW i \in 1..n, NEW row \in PrintsOn(rs[i])
      PROVE  row < sh.next
  <2>1. Fits(rs[i], RegionAfter(i - 1, t, rs), sh)
    BY DEF Chained
  <2>2. \/ [row |-> row, text |-> Printout] \in sh.printed
        \/ [row |-> row, text |-> Listing] \in sh.printed
    BY <2>1, PrintsPrinted
  <2> QED BY <2>2 DEF Numbered
<1>3. Coming(x.row, s) <=> Coming(x.row, rs) \/ x.row \in PrintsOn(r)
  BY <1>1 DEF Coming
<1> HIDE DEF s, n, hand
<1>4. CASE x \in sh.printed
  <2>1. Delivered(x, results, rs, hand) /\ x.row < sh.next
    BY <1>4 DEF Numbered, hand
  <2>2. x.row \notin PrintsOn(r)
    BY <1>0, <2>1 DEF Sends
  <2>3. Coming(x.row, s) <=> Coming(x.row, rs)
    BY <1>3, <2>2
  <2>4. ASSUME NEW i \in 1..(n + 1), NEW j \in 1..(n + 1),
               x.row \in PrintsOn(s[i]), x.row \in PrintsOn(s[j])
        PROVE  i = j
    <3>1. i # n + 1 /\ j # n + 1
      BY <1>1, <2>2, <2>4
    <3>2. i \in 1..n /\ j \in 1..n
      BY <1>1, <3>1
    <3>3. x.row \in PrintsOn(rs[i]) /\ x.row \in PrintsOn(rs[j])
      BY <1>1, <2>4, <3>2
    <3> QED BY <2>1, <3>2, <3>3 DEF Delivered, n
  <2> QED BY <1>1, <2>1, <2>3, <2>4 DEF Delivered, s, hand
<1>5. CASE x \notin sh.printed
  <2>1. x.row >= sh.next /\ x.row \in PrintsOn(r)
    BY <1>5 DEF Sends
  <2>2. results[x.row] = <<>>
    BY <1>0, <2>1 DEF Unwritten
  <2>3. \A i \in 1..n : x.row \notin PrintsOn(rs[i])
    BY <1>0, <1>2, <2>1
  <2>4. Of(hand, x.row) = {}
    <3>1. x.row \notin sh.rows
      BY DEF Sends, Numbered
    <3>2. [row |-> x.row, text |-> Listing] \notin sh.printed
      BY <1>0, <2>1 DEF Numbered
    <3> QED BY <1>0, <3>1, <3>2 DEF Elsewhere, hand
  <2>5. Coming(x.row, s)
    BY <1>3, <2>1
  <2>6. ASSUME NEW i \in 1..(n + 1), NEW j \in 1..(n + 1),
               x.row \in PrintsOn(s[i]), x.row \in PrintsOn(s[j])
        PROVE  i = j
    <3>1. i \notin 1..n /\ j \notin 1..n
      BY <1>1, <2>3, <2>6
    <3> QED BY <1>1, <3>1
  <2> QED BY <1>1, <2>2, <2>4, <2>5, <2>6 DEF Delivered, s, hand
<1> QED BY <1>4, <1>5

LEMMA SendElsewhere ==
  ASSUME NEW sh, NEW sh2, NEW r, Sends(r, sh, sh2), NEW p, Elsewhere(p, sh)
  PROVE  Elsewhere(p, sh2)
BY DEF Sends, Elsewhere

LEMMA SendUnwritten ==
  ASSUME NEW sh \in Shells, NEW sh2, NEW r, Sends(r, sh, sh2),
         NEW p, NEW results, Unwritten(p, results, sh)
  PROVE  Unwritten(p, results, sh2)
<1>1. sh.next \in Nat /\ sh2.next \in Nat /\ sh.next <= sh2.next
  BY DEF Sends, Shells
<1>2. \A row \in Rows : row >= sh2.next => row >= sh.next
  BY <1>1, RowsAssumption
<1> QED BY <1>2 DEF Unwritten

-----------------------------------------------------------------------------
(* The shell's answers.                                                    *)
LEMMA ShellIs ==
  ASSUME NEW sh \in Shells, Numbered(sh)
  PROVE  /\ sh.phase \in {"prompt", "running"} /\ sh.row \in sh.rows /\ sh.row \in Rows
         /\ sh.line \in Seq(Typed) /\ sh.line \in Texts /\ sh.cursor \in Nat
         /\ sh.next \in Nat /\ sh.rows \subseteq Rows
         /\ sh.printed \subseteq [row : Rows, text : {Listing, Printout}]
         /\ \A row \in sh.rows : row < sh.next
         /\ \A x \in sh.printed : x.row < sh.next /\ x.row \notin sh.rows
BY TypedTexts DEF Shells, Numbered

LEMMA RowIsLess ==
  ASSUME NEW sh \in Shells, Numbered(sh), NEW row \in sh.rows
  PROVE  row \in Nat /\ row < sh.next /\ sh.next \in Nat
BY RowsAssumption DEF Shells, Numbered

LEMMA EditSends ==
  ASSUME NEW sh \in Shells, Numbered(sh), sh.phase = "prompt",
         NEW to \in Seq(Typed), NEW c \in Nat,
         NEW sh2, sh2 = [sh EXCEPT !.line = to, !.cursor = c],
         NEW r, r = EditRead(sh, to, c)
  PROVE  Sends(r, sh, sh2)
<1>1. sh2 \in Shells /\ sh2.row = sh.row /\ sh2.rows = sh.rows /\ sh2.printed = sh.printed
      /\ sh2.next = sh.next /\ sh2.phase = "prompt"
  BY DEF Shells
<1>2. Numbered(sh2)
  BY <1>1 DEF Numbered
<1> DEFINE a == Prompt \o trim_end(sh.line)
           b == Prompt \o trim_end(to)
<1>3. a \in Texts /\ b \in Texts
  <2>1. sh.line \in Texts /\ to \in Texts
    BY ShellIs, TypedTexts
  <2>2. trim_end(sh.line) \in Texts /\ trim_end(to) \in Texts
    BY <2>1, TextsTrim
  <2> QED BY <2>2, WithPrompt
<1> HIDE DEF a, b
<1>4. r.items = Redrawn(sh.row, a, b)
      /\ r.at = [row |-> sh.row, column |-> Len(Prompt) + c, visible |-> TRUE]
  BY DEF EditRead, Read, a, b
<1>5. sh.row \in Rows /\ sh.row \in sh.rows
  BY ShellIs
<1>6. EditOf(r.items, sh2)
  <2>1. CASE a = b
    BY <1>3, <1>4, <2>1, RedrawnIs DEF EditOf
  <2>2. CASE a # b
    <3>1. PICK text \in Texts, revision \in Revisions :
             r.items = <<Row(sh.row, text, revision)>>
      BY <1>3, <1>4, <2>2, RedrawnIs DEF Redraws
    <3>2. Len(r.items) = 1 /\ r.items[1] = Row(sh.row, text, revision)
      BY <3>1
    <3> QED BY <1>1, <1>5, <3>1, <3>2 DEF EditOf, Row
  <2> QED BY <2>1, <2>2
<1>7. PrintsOn(r) = {} /\ Ends(r) = "CommandLine"
  BY <1>6, PrintsIs
<1>8. r.at \in Screens
  BY <1>4, <1>5, PromptIs DEF Screens
<1>9. Fits(r, "CommandLine", sh2)
  BY <1>1, <1>4, <1>5, <1>6, <1>8 DEF Fits
<1>10. sh.next <= sh2.next
  BY <1>1 DEF Shells
<1> QED BY <1>1, <1>2, <1>7, <1>9, <1>10 DEF Sends, RegionOf

LEMMA PromptSends ==
  ASSUME NEW sh \in Shells, Numbered(sh), sh.next \in Rows, NEW before,
         \/ sh.phase = "prompt" /\ before \in {EndsAtOnce, RefusedOn(sh.row)}
         \/ sh.phase = "running" /\ before = <<Done>>,
         NEW sh2, sh2 = [sh EXCEPT !.phase = "prompt", !.line = <<>>, !.cursor = 0,
                                   !.row = sh.next, !.next = @ + 1,
                                   !.rows = @ \cup {sh.next}],
         NEW r, r = PromptOn(sh.next, before)
  PROVE  Sends(r, sh, sh2)
<1>1. /\ sh2.row = sh.next /\ sh2.rows = sh.rows \cup {sh.next} /\ sh2.printed = sh.printed
      /\ sh2.next = sh.next + 1 /\ sh2.phase = "prompt" /\ sh2.line = <<>> /\ sh2.cursor = 0
  BY DEF Shells
<1>2. sh.next \in Nat /\ sh.rows \subseteq Rows /\ <<>> \in Seq(Typed)
  BY ShellIs
<1>3. sh2 \in Shells
  <2>1. sh.next + 1 \in Nat /\ sh.rows \cup {sh.next} \in SUBSET Rows /\ 0 \in Nat
    BY <1>2
  <2> QED BY <1>2, <2>1 DEF Shells
<1>4. Numbered(sh2)
  <2>1. \A row \in sh2.rows : row < sh2.next
    <3>1. ASSUME NEW row \in sh.rows PROVE row < sh.next + 1
      BY RowIsLess
    <3>2. sh.next < sh.next + 1
      BY <1>2
    <3> QED BY <1>1, <3>1, <3>2
  <2>2. ASSUME NEW x \in sh2.printed
        PROVE  x.row \notin sh2.rows /\ x.row < sh2.next
    <3>1. x.row \notin sh.rows /\ x.row < sh.next /\ x.row \in Rows
      BY <1>1, ShellIs
    <3>2. x.row \in Nat
      BY <3>1, RowsAssumption
    <3> QED BY <1>1, <1>2, <3>1, <3>2
  <2> QED BY <1>1, <2>1, <2>2 DEF Numbered
<1>5. r.at = [row |-> sh.next, column |-> Len(Prompt), visible |-> TRUE]
      /\ r.items = PromptOn(sh.next, before).items
  BY DEF PromptOn, Read
<1>6. r.at \in Screens /\ r.at.row = sh.next /\ r.at.row \in sh2.rows
  BY <1>1, <1>5, PromptIs DEF Screens
<1>7. CASE sh.phase = "prompt" /\ before = EndsAtOnce
  <2>1. BlankAt(r.items, sh.next)
    BY <1>5, <1>7 DEF BlankAt, EndsAtOnce
  <2>2. PrintsOn(r) = {} /\ Ends(r) = "CommandLine"
    BY <2>1, PrintsIs
  <2>3. Fits(r, "CommandLine", sh2)
    BY <1>6, <2>1 DEF Fits
  <2>4. sh.next <= sh2.next
    BY <1>1, <1>2
  <2> QED BY <1>1, <1>3, <1>4, <1>7, <2>2, <2>3, <2>4 DEF Sends, RegionOf
<1>8. CASE sh.phase = "prompt" /\ before = RefusedOn(sh.row)
  <2>1. Len(r.items) = 6
    BY <1>5, <1>8, ReadsAre DEF RefusedOn
  <2>2. IsSeq(before) /\ Len(before) = 3 /\ before[1] = Row(sh.row, Refusal, "Appended")
    BY <1>8, TuplesAreSeqs DEF RefusedOn
  <2>3. r.items[1] = Row(sh.row, Refusal, "Appended")
    <3>1. LET items == PromptOn(sh.next, before).items
          IN  Len(before) > 0 => items[1] = before[1]
      BY <2>2, PromptLong
    <3> QED BY <1>5, <2>2, <3>1
  <2>4. r.items[1].id = sh.row /\ sh.row \in sh2.rows
    BY <1>1, <2>3, ShellIs DEF Row
  <2>5. DroppedAt(r.items, sh.next, sh2)
    BY <1>5, <1>8, <2>1, <2>4 DEF DroppedAt, RefusedOn
  <2>6. PrintsOn(r) = {} /\ Ends(r) = "CommandLine"
    BY <2>5, PrintsIs
  <2>7. Fits(r, "CommandLine", sh2)
    BY <1>6, <2>5 DEF Fits
  <2>8. sh.next <= sh2.next
    BY <1>1, <1>2
  <2> QED BY <1>1, <1>3, <1>4, <1>8, <2>6, <2>7, <2>8 DEF Sends, RegionOf
<1>9. CASE sh.phase = "running" /\ before = <<Done>>
  <2>1. DoneAt(r.items, sh.next)
    BY <1>5, <1>9 DEF DoneAt
  <2>2. PrintsOn(r) = {} /\ Ends(r) = "CommandLine"
    BY <2>1, PrintsIs
  <2>3. Fits(r, "Output", sh2)
    BY <1>6, <2>1 DEF Fits
  <2>4. sh.next <= sh2.next
    BY <1>1, <1>2
  <2> QED BY <1>1, <1>3, <1>4, <1>9, <2>2, <2>3, <2>4 DEF Sends, RegionOf
<1> QED BY <1>7, <1>8, <1>9

LEMMA FiveItems ==
  \A a, b, c, d, e : LET s == <<a, b, c, d, e>> IN Len(s) = 5 /\ s[1] = a /\ s[5] = e
OBVIOUS

LEMMA ListSends ==
  ASSUME NEW sh \in Shells, Numbered(sh), sh.phase = "prompt", sh.next + 1 \in Rows,
         NEW sh2, sh2 = [sh EXCEPT !.row = sh.next + 1, !.next = @ + 2,
                              !.rows = @ \cup {sh.next + 1},
                              !.printed = @ \cup {[row |-> sh.next, text |-> Listing]}],
         NEW r, r = ListRead(sh)
  PROVE  Sends(r, sh, sh2) /\ sh.next \in Rows
<1> DEFINE new == [row |-> sh.next, text |-> Listing]
<1>1. /\ sh2.row = sh.next + 1 /\ sh2.rows = sh.rows \cup {sh.next + 1}
      /\ sh2.printed = sh.printed \cup {new}
      /\ sh2.next = sh.next + 2 /\ sh2.phase = "prompt" /\ sh2.line = sh.line
      /\ sh2.cursor = sh.cursor
  BY DEF Shells
<1>2. sh.next \in Nat /\ sh.rows \subseteq Rows /\ sh.line \in Seq(Typed) /\ sh.line \in Texts
      /\ sh.cursor \in Nat /\ sh.row \in sh.rows /\ sh.row \in Rows
      /\ sh.printed \subseteq [row : Rows, text : {Listing, Printout}]
  BY ShellIs
<1>3. sh.next \in Rows
  <2>1. sh.row < sh.next /\ sh.row \in Nat
    BY <1>2, RowIsLess
  <2>2. sh.row..(sh.next + 1) \subseteq Rows
    BY <1>2, RowsFollow
  <2>3. sh.next \in sh.row..(sh.next + 1)
    BY <1>2, <2>1
  <2> QED BY <2>2, <2>3
<1>4. sh2 \in Shells
  <2>1. sh.next + 2 \in Nat /\ sh.rows \cup {sh.next + 1} \in SUBSET Rows
    BY <1>2
  <2>2. new \in [row : Rows, text : {Listing, Printout}]
    BY <1>3
  <2>3. sh.printed \cup {new} \in SUBSET [row : Rows, text : {Listing, Printout}]
    BY <1>2, <2>2
  <2> HIDE DEF new
  <2>4. sh2 = [sh EXCEPT !.row = sh.next + 1, !.next = sh.next + 2,
                         !.rows = sh.rows \cup {sh.next + 1}, !.printed = sh.printed \cup {new}]
    BY DEF Shells, new
  <2> QED BY <2>1, <2>3, <2>4 DEF Shells
<1>5. new.row = sh.next /\ new.text = Listing
  OBVIOUS
<1> HIDE DEF new
<1>6. Numbered(sh2)
  <2>1. \A row \in sh2.rows : row < sh2.next
    <3>1. ASSUME NEW row \in sh.rows PROVE row < sh.next + 2
      BY RowIsLess
    <3>2. sh.next + 1 < sh.next + 2
      BY <1>2
    <3> QED BY <1>1, <3>1, <3>2
  <2>2. ASSUME NEW x \in sh.printed
        PROVE  x.row \notin sh.rows /\ x.row < sh.next /\ x.row \in Nat
    <3>1. x.row \notin sh.rows /\ x.row < sh.next /\ x.row \in Rows
      BY ShellIs
    <3> QED BY <3>1, RowsAssumption
  <2>3. ASSUME NEW x \in sh2.printed
        PROVE  x.row \notin sh2.rows /\ x.row < sh2.next
    <3>1. CASE x \in sh.printed
      BY <1>1, <1>2, <2>2, <3>1
    <3>2. CASE x = new
      <4>1. sh.next \notin sh.rows
        BY <1>2, RowIsLess
      <4> QED BY <1>1, <1>2, <1>5, <3>2, <4>1
    <3> QED BY <1>1, <3>1, <3>2
  <2>4. ASSUME NEW x \in sh2.printed, NEW y \in sh2.printed, x.row = y.row PROVE x = y
    <3>1. CASE x \in sh.printed /\ y \in sh.printed
      BY <2>4, <3>1 DEF Numbered
    <3>2. CASE x = new \/ y = new
      BY <1>1, <1>2, <1>5, <2>2, <2>4, <3>2
    <3> QED BY <1>1, <3>1, <3>2
  <2>5. sh2.row \in sh2.rows
    BY <1>1
  <2> QED BY <2>1, <2>3, <2>4, <2>5 DEF Numbered
<1>7. r.at = [row |-> sh.next + 1, column |-> Len(Prompt) + sh.cursor, visible |-> TRUE]
      /\ r.items = <<Row(sh.next, Listing, "Appended"), Mark("PromptStart"),
           Row(sh.next + 1, Prompt, "Appended"), Mark("CommandStart"),
           Row(sh.next + 1, trim_end(sh.line), "Appended")>>
  BY DEF ListRead, Read
<1>8. r.at \in Screens /\ r.at.row = sh.next + 1 /\ r.at.row \in sh2.rows
  BY <1>1, <1>2, <1>7, PromptIs DEF Screens
<1>9. /\ Len(r.items) = 5 /\ r.items[1] = Row(sh.next, Listing, "Appended")
      /\ r.items[5] = Row(sh.next + 1, trim_end(sh.line), "Appended")
  BY <1>7, FiveItems
<1>10. /\ r.items[1].kind = "Line" /\ r.items[1].id = sh.next
       /\ r.items[5].text = trim_end(sh.line)
  BY <1>9 DEF Row
<1>11. trim_end(sh.line) \in Texts
  BY <1>2, TextsTrim
<1>12. ListedAt(r.items, sh.next + 1, sh2)
  BY <1>1, <1>7, <1>9, <1>10, <1>11 DEF ListedAt, new
<1>13. PrintsOn(r) = {sh.next} /\ Ends(r) = "CommandLine"
  BY <1>10, <1>12, PrintsIs
<1>14. Fits(r, "CommandLine", sh2)
  BY <1>8, <1>12 DEF Fits
<1>15. sh.next <= sh2.next /\ sh.next >= sh.next
  BY <1>1, <1>2
<1>16. \A x \in sh2.printed \ sh.printed : x.row >= sh.next /\ x.row \in PrintsOn(r)
  BY <1>1, <1>5, <1>13, <1>15
<1>17. \A row \in PrintsOn(r) : row >= sh.next
  BY <1>13, <1>15
<1> QED BY <1>1, <1>3, <1>4, <1>6, <1>13, <1>14, <1>15, <1>16, <1>17 DEF Sends, RegionOf

LEMMA RunSends ==
  ASSUME NEW sh \in Shells, Numbered(sh), sh.phase = "prompt", sh.next \in Rows,
         NEW visible \in BOOLEAN,
         NEW sh2, sh2 = [sh EXCEPT !.phase = "running", !.next = @ + 1,
                              !.printed = @ \cup {[row |-> sh.next, text |-> Printout]}],
         NEW r, r = RunRead(sh, visible)
  PROVE  Sends(r, sh, sh2)
<1> DEFINE new == [row |-> sh.next, text |-> Printout]
<1>1. /\ sh2.row = sh.row /\ sh2.rows = sh.rows
      /\ sh2.printed = sh.printed \cup {new}
      /\ sh2.next = sh.next + 1 /\ sh2.phase = "running" /\ sh2.line = sh.line
      /\ sh2.cursor = sh.cursor
  BY DEF Shells
<1>2. sh.next \in Nat /\ sh.rows \subseteq Rows /\ sh.row \in sh.rows /\ sh.row \in Rows
      /\ sh.printed \subseteq [row : Rows, text : {Listing, Printout}]
  BY ShellIs
<1>4. sh2 \in Shells
  <2>1. sh.next + 1 \in Nat
    BY <1>2
  <2>2. new \in [row : Rows, text : {Listing, Printout}]
    OBVIOUS
  <2>3. sh.printed \cup {new} \in SUBSET [row : Rows, text : {Listing, Printout}]
    BY <1>2, <2>2
  <2> HIDE DEF new
  <2>4. sh2 = [sh EXCEPT !.phase = "running", !.next = sh.next + 1,
                         !.printed = sh.printed \cup {new}]
    BY DEF Shells, new
  <2> QED BY <2>1, <2>3, <2>4 DEF Shells
<1>5. new.row = sh.next /\ new.text = Printout
  OBVIOUS
<1> HIDE DEF new
<1>6. Numbered(sh2)
  <2>1. \A row \in sh2.rows : row < sh2.next
    <3>1. ASSUME NEW row \in sh.rows PROVE row < sh.next + 1
      BY RowIsLess
    <3> QED BY <1>1, <3>1
  <2>2. ASSUME NEW x \in sh.printed
        PROVE  x.row \notin sh.rows /\ x.row < sh.next /\ x.row \in Nat
    <3>1. x.row \notin sh.rows /\ x.row < sh.next /\ x.row \in Rows
      BY ShellIs
    <3> QED BY <3>1, RowsAssumption
  <2>3. ASSUME NEW x \in sh2.printed
        PROVE  x.row \notin sh2.rows /\ x.row < sh2.next
    <3>1. CASE x \in sh.printed
      BY <1>1, <1>2, <2>2, <3>1
    <3>2. CASE x = new
      <4>1. sh.next \notin sh.rows
        BY <1>2, RowIsLess
      <4> QED BY <1>1, <1>2, <1>5, <3>2, <4>1
    <3> QED BY <1>1, <3>1, <3>2
  <2>4. ASSUME NEW x \in sh2.printed, NEW y \in sh2.printed, x.row = y.row PROVE x = y
    <3>1. CASE x \in sh.printed /\ y \in sh.printed
      BY <2>4, <3>1 DEF Numbered
    <3>2. CASE x = new \/ y = new
      BY <1>1, <1>2, <1>5, <2>2, <2>4, <3>2
    <3> QED BY <1>1, <3>1, <3>2
  <2>5. sh2.row \in sh2.rows
    BY <1>1, <1>2
  <2> QED BY <2>1, <2>3, <2>4, <2>5 DEF Numbered
<1>7. r.at = [row |-> sh.next, column |-> Len(Printout), visible |-> visible]
      /\ r.items = <<Mark("OutputStart"), Row(sh.next, Printout, "Appended")>>
  BY DEF RunRead, Read
<1>8. r.at \in Screens /\ r.at.row = sh.next
  <2>1. Len(Printout) \in Nat
    BY DEF Printout
  <2> QED BY <1>7, <2>1 DEF Screens
<1>12. OutputAt(r.items, sh.next, sh2)
  BY <1>1, <1>7 DEF OutputAt, new
<1>13. PrintsOn(r) = {sh.next} /\ Ends(r) = "Output"
  BY <1>12, PrintsIs
<1>14. Fits(r, "CommandLine", sh2)
  BY <1>8, <1>12 DEF Fits
<1>15. sh.next <= sh2.next /\ sh.next >= sh.next
  BY <1>1, <1>2
<1>16. \A x \in sh2.printed \ sh.printed : x.row >= sh.next /\ x.row \in PrintsOn(r)
  BY <1>1, <1>5, <1>13, <1>15
<1>17. \A row \in PrintsOn(r) : row >= sh.next
  BY <1>13, <1>15
<1> QED BY <1>1, <1>4, <1>6, <1>13, <1>14, <1>15, <1>16, <1>17 DEF Sends, RegionOf

LEMMA EditAnswers ==
  ASSUME shell \in Shells, Numbered(shell), shell.phase = "prompt",
         NEW to \in Seq(Typed), NEW c \in Nat, c <= Len(to), Edited(to, c)
  PROVE  Answers(EditRead(shell, to, c))
<1> DEFINE r == EditRead(shell, to, c)
<1>1. /\ shell' = [shell EXCEPT !.line = to, !.cursor = c]
      /\ reads' = Append(reads, r)
  BY DEF Edited, EditRead
<1>2. shell'.cursor = c /\ shell'.line = to
  BY <1>1 DEF Shells
<1>3. Sends(r, shell, shell')
  BY <1>1, EditSends
<1> QED BY <1>1, <1>2, <1>3 DEF Answers

LEMMA PromptAnswers ==
  ASSUME shell \in Shells, Numbered(shell), NEW before, Prompting(before),
         \/ shell.phase = "prompt" /\ before \in {EndsAtOnce, RefusedOn(shell.row)}
         \/ shell.phase = "running" /\ before = <<Done>>
  PROVE  Answers(PromptOn(shell.next, before))
<1> DEFINE r == PromptOn(shell.next, before)
<1>1. /\ shell.next \in Rows
      /\ shell' = [shell EXCEPT !.phase = "prompt", !.line = <<>>, !.cursor = 0,
                                !.row = shell.next, !.next = @ + 1,
                                !.rows = @ \cup {shell.next}]
      /\ reads' = Append(reads, r)
  BY DEF Prompting
<1>2. shell'.cursor = 0 /\ shell'.line = <<>>
  BY <1>1 DEF Shells
<1>3. Sends(r, shell, shell')
  BY <1>1, PromptSends
<1>4. 0 <= Len(<<>>)
  OBVIOUS
<1> QED BY <1>1, <1>2, <1>3, <1>4 DEF Answers

LEMMA ListAnswers ==
  ASSUME shell \in Shells, Numbered(shell), shell.phase = "prompt", Listed,
         shell.cursor <= Len(shell.line)
  PROVE  Answers(ListRead(shell))
<1>1. /\ shell.next + 1 \in Rows
      /\ shell' = [shell EXCEPT !.row = shell.next + 1, !.next = @ + 2,
                              !.rows = @ \cup {shell.next + 1},
                              !.printed = @ \cup {[row |-> shell.next, text |-> Listing]}]
      /\ reads' = Append(reads, ListRead(shell))
  BY DEF Listed, ListRead
<1>2. shell'.cursor = shell.cursor /\ shell'.line = shell.line
  BY <1>1 DEF Shells
<1>3. Sends(ListRead(shell), shell, shell')
  BY <1>1, ListSends
<1> QED BY <1>1, <1>2, <1>3 DEF Answers

LEMMA RunAnswers ==
  ASSUME shell \in Shells, Numbered(shell), shell.phase = "prompt",
         NEW visible \in BOOLEAN, Run(visible), shell.cursor <= Len(shell.line)
  PROVE  Answers(RunRead(shell, visible))
<1>1. /\ shell.next \in Rows
      /\ shell' = [shell EXCEPT !.phase = "running", !.next = @ + 1,
                              !.printed = @ \cup {[row |-> shell.next, text |-> Printout]}]
      /\ reads' = Append(reads, RunRead(shell, visible))
  BY DEF Run, RunRead
<1>2. shell'.cursor = shell.cursor /\ shell'.line = shell.line
  BY <1>1 DEF Shells
<1>3. Sends(RunRead(shell, visible), shell, shell')
  BY <1>1, RunSends
<1> QED BY <1>1, <1>2, <1>3 DEF Answers

LEMMA KeyEdits ==
  ASSUME shell \in Shells, Numbered(shell), shell.cursor <= Len(shell.line),
         NEW key \in Keys \cup {"Paste"}, Answer(key), shell.phase = "prompt",
         key \notin {"Enter", "CtrlC"}, key = "Tab" => ~Listed
  PROVE  Edits(key)
<1>1. /\ shell.line \in Seq(Typed) /\ shell.cursor \in Nat /\ Len(shell.line) \in Nat
  BY ShellIs
<1>2. ASSUME NEW t \in Seq(Typed), Inserted(t) PROVE Edits(key)
  <2>1. LET to == SubSeq(shell.line, 1, shell.cursor) \o t
                     \o SubSeq(shell.line, shell.cursor + 1, Len(shell.line))
        IN  to \in Seq(Typed) /\ shell.cursor + Len(t) \in Nat /\ shell.cursor + Len(t) <= Len(to)
    BY <1>1, InsertedTyped
  <2> QED BY <1>2, <2>1 DEF Inserted, Edits
<1>3. ASSUME Bell PROVE Edits(key)
  BY <1>1, <1>3 DEF Bell, Edits
<1>4. CASE key \in Tokens
  <2>1. key \in Typed
    BY <1>4, KeysAssumption DEF Typed, EditingKeys
  <2>2. <<key>> \in Seq(Typed)
    BY <2>1
  <2>3. key \notin {"Paste", "Up", "Left", "Backspace", "Tab", "Enter", "CtrlC"}
    BY <1>4, KeysAssumption DEF EditingKeys
  <2>4. Inserted(<<key>>) \/ Bell
    BY <2>3 DEF Answer
  <2> QED BY <1>2, <1>3, <2>2, <2>4
<1>5. CASE key \notin Tokens
  <2>1. \/ key = "Paste" /\ Inserted(Pasted)
        \/ key = "Up" /\ Edited(Recalled, Len(Recalled))
        \/ key = "Left" /\ Edited(shell.line, saturating_sub(shell.cursor, 1))
        \/ /\ key = "Backspace"
           /\ IF shell.cursor = 0 THEN Bell
              ELSE Edited(RemoveAt(shell.line, shell.cursor), shell.cursor - 1)
        \/ key = "Tab" /\ Bell
    BY <1>5 DEF Answer
  <2>2. CASE key = "Paste" /\ Inserted(Pasted)
    BY <1>2, <2>2, TypedTexts
  <2>3. CASE key = "Up" /\ Edited(Recalled, Len(Recalled))
    <3>1. Recalled \in Seq(Typed) /\ Len(Recalled) \in Nat /\ Len(Recalled) <= Len(Recalled)
      BY TypedTexts
    <3> QED BY <2>3, <3>1 DEF Edits
  <2>4. CASE key = "Left" /\ Edited(shell.line, saturating_sub(shell.cursor, 1))
    <3>1. saturating_sub(shell.cursor, 1) \in Nat
          /\ saturating_sub(shell.cursor, 1) <= shell.cursor
      BY <1>1, LeftTyped
    <3>2. saturating_sub(shell.cursor, 1) <= Len(shell.line)
      BY <1>1, <3>1
    <3> QED BY <1>1, <2>4, <3>1, <3>2 DEF Edits
  <2>5. CASE /\ key = "Backspace"
             /\ IF shell.cursor = 0 THEN Bell
                ELSE Edited(RemoveAt(shell.line, shell.cursor), shell.cursor - 1)
    <3>1. CASE shell.cursor = 0
      BY <1>3, <2>5, <3>1
    <3>2. CASE shell.cursor # 0
      <4>1. shell.cursor \in Nat \ {0}
        BY <1>1, <3>2
      <4>2. LET to == RemoveAt(shell.line, shell.cursor)
            IN  to \in Seq(Typed) /\ shell.cursor - 1 \in Nat /\ shell.cursor - 1 <= Len(to)
        BY <1>1, <4>1, RemovedTyped
      <4> QED BY <2>5, <3>2, <4>2 DEF Edits
    <3> QED BY <3>1, <3>2
  <2>6. CASE key = "Tab" /\ Bell
    BY <1>3, <2>6
  <2> QED BY <2>1, <2>2, <2>3, <2>4, <2>5, <2>6
<1> QED BY <1>4, <1>5

LEMMA AnswerIs ==
  ASSUME shell \in Shells, Numbered(shell), shell.cursor <= Len(shell.line),
         NEW key \in Keys \cup {"Paste"}, Answer(key)
  PROVE  \E r : Answers(r)
<1>0. key \in {"Enter", "CtrlC"} => key \notin Tokens
  BY KeysAssumption DEF EditingKeys
<1>1. CASE shell.phase = "prompt" /\ key \notin {"Enter", "CtrlC"} /\ ~Listed
  <2>1. PICK to \in Seq(Typed), c \in Nat : c <= Len(to) /\ Edited(to, c)
    BY <1>1, KeyEdits DEF Edits
  <2>2. Answers(EditRead(shell, to, c))
    BY <1>1, <2>1, EditAnswers
  <2> QED BY <2>2
<1>2. CASE shell.phase = "prompt" /\ Listed
  BY <1>2, ListAnswers
<1>3. CASE shell.phase = "prompt" /\ key = "Enter"
  <2>1. \/ Prompting(EndsAtOnce)
        \/ \E visible \in BOOLEAN : Run(visible)
    BY <1>0, <1>3 DEF Answer, EndsAtOnce
  <2>2. CASE Prompting(EndsAtOnce)
    BY <1>3, <2>2, PromptAnswers
  <2>3. ASSUME NEW visible \in BOOLEAN, Run(visible) PROVE \E r : Answers(r)
    BY <1>3, <2>3, RunAnswers
  <2> QED BY <2>1, <2>2, <2>3
<1>4. CASE shell.phase = "prompt" /\ key = "CtrlC"
  <2>1. Prompting(RefusedOn(shell.row))
    BY <1>0, <1>4 DEF Answer, RefusedOn
  <2> QED BY <1>4, <2>1, PromptAnswers
<1>5. CASE shell.phase # "prompt"
  <2>1. shell.phase = "running" /\ Prompting(<<Done>>)
    BY <1>5 DEF Answer
  <2> QED BY <2>1, PromptAnswers
<1> QED BY <1>1, <1>2, <1>3, <1>4, <1>5

\* A read on its way changes no more than that.
LEMMA SendKeeps ==
  ASSUME Ordered, NEW r, Answers(r), pump.far.owner = "FarEnd",
         keys' \in Seq(Keys \cup {"Paste"}),
         UNCHANGED <<tracker, pump, screen, settled, headings, transcript>>
  PROVE  Ordered'
<1>1. /\ reads' = Append(reads, r) /\ Sends(r, shell, shell')
      /\ shell'.cursor <= Len(shell'.line)
  BY DEF Answers
<1>2. IsSeq(reads')
  BY <1>1, AppendIsSeq DEF Ordered
<1>3. shell' \in Shells /\ Numbered(shell')
  BY <1>1 DEF Sends
<1>4. Chained(tracker, reads', shell')
  BY <1>1, SendChains DEF Ordered
<1>5. Unwritten(pump, transcript, shell')
  BY <1>1, SendUnwritten DEF Ordered
<1>6. \A x \in shell'.printed : Delivered(x, transcript, reads', pump.far.printed)
  BY <1>1, SendDelivers DEF Ordered
<1>7. Elsewhere(pump, shell')
  BY <1>1, SendElsewhere DEF Ordered
<1>8. /\ ~settled => pump.far.printed = <<>>
      /\ pump.far.owner # "Local"
  BY DEF Ordered, InTurn
<1>9. InTurn(tracker, pump, reads)'
  BY <1>8 DEF InTurn
<1>10. Formed(pump)'
  BY DEF Ordered, Formed
<1>11. Chained(tracker, reads, shell)'
  BY <1>4
<1>12. Elsewhere(pump, shell)'
  BY <1>7
<1>13. (\A x \in shell.printed : Delivered(x, transcript, reads, pump.far.printed))'
  BY <1>6
<1>14. Unwritten(pump, transcript, shell)'
  BY <1>5
<1>15. Tracked(tracker, pump)'
  BY DEF Ordered, Tracked
<1>16. Numbered(shell)'
  BY <1>3
<1>17. /\ (pump.told = <<>>)' /\ IsSeq(headings)' /\ (transcript \in [Rows -> Texts])'
       /\ (screen \in Screens)' /\ (settled \in BOOLEAN)'
  BY DEF Ordered
<1>18. (shell.cursor <= Len(shell.line))'
  BY <1>1
<1> QED BY <1>2, <1>3, <1>9, <1>10, <1>11, <1>12, <1>13, <1>14, <1>15, <1>16, <1>17, <1>18
     DEF Ordered

LEMMA TakeKeeps == ASSUME Ordered, Take PROVE Ordered'
<1>1. keys \in Seq(Keys \cup {"Paste"}) /\ keys # <<>> /\ keys' = Tail(keys) /\ Answer(Head(keys))
  BY DEF Ordered, Take
<1>2. Head(keys) \in Keys \cup {"Paste"} /\ keys' \in Seq(Keys \cup {"Paste"})
  BY <1>1
<1>3. PICK r : Answers(r)
  BY <1>1, <1>2, AnswerIs DEF Ordered
<1>4. pump.far.owner = "FarEnd"
  <2>1. pump.far.owner \in {"Local", "FarEnd"}
    BY DEF Ordered, Formed, FarEndLines
  <2> QED BY <1>1, <2>1 DEF Ordered, InTurn
<1>5. UNCHANGED <<tracker, pump, screen, settled, headings, transcript>>
  BY DEF Take
<1> QED BY <1>2, <1>3, <1>4, <1>5, SendKeeps

LEMMA FinishKeeps == ASSUME Ordered, Finish PROVE Ordered'
<1>1. shell.phase = "running" /\ Prompting(<<Done>>)
  BY DEF Finish
<1>2. shell \in Shells /\ Numbered(shell)
  BY DEF Ordered
<1>3. Answers(PromptOn(shell.next, <<Done>>))
  BY <1>1, <1>2, PromptAnswers
<1>4. pump.far.owner = "FarEnd"
  <2>1. pump.far.owner \in {"Local", "FarEnd"}
    BY DEF Ordered, Formed, FarEndLines
  <2> QED BY <1>1, <2>1 DEF Ordered, InTurn
<1>5. UNCHANGED <<tracker, pump, screen, settled, headings, transcript>>
      /\ keys' \in Seq(Keys \cup {"Paste"})
  BY DEF Finish, Ordered
<1> QED BY <1>3, <1>4, <1>5, SendKeeps

-----------------------------------------------------------------------------
(* What a read does to what is known of the rows.                          *)
LEMMA ResultsNow ==
  ASSUME NEW p, p.told = <<>> PROVE Results(p) = transcript /\ Headings(p) = headings
<1>1. Shown(transcript, <<>>) = transcript
  BY NoneIsSeq, ShownIsTheFold, ResultOfNone
<1>2. Headed(headings, <<>>) = headings
  BY NoneIsSeq, HeadedIsTheFold, ResultOfNone
<1> QED BY <1>1, <1>2 DEF Results, Headings

LEMMA FarAfterIs ==
  ASSUME NEW p, p.far \in FarEndLines, NEW region, NEW id, NEW text, NEW revision
  PROVE  LET f == FarAfter(p, region, id, text, revision)
         IN  /\ f.owner = p.far.owner /\ f.anchor = p.far.anchor /\ f.left = p.far.left
             /\ f.awaiting_prompt = p.far.awaiting_prompt /\ f.watching = p.far.watching
             /\ f.was = p.far.was /\ f.held = p.far.held
             /\ f.changed = Noted(p.far, id, p.lines[id].text,
                                  After(p.lines[id].text, text, revision))
             /\ f.printed = IF region = "Output" \/ p.far.owner # "FarEnd" THEN p.far.printed
                            ELSE Append(p.far.printed, Entry(id, text, revision))
BY DEF FarAfter, FarEndLines

LEMMA FarIs ==
  ASSUME NEW p, Formed(p)
  PROVE  /\ p.far \in FarEndLines /\ p.far.owner \in {"Local", "FarEnd"}
         /\ IsSeq(p.far.printed) /\ p.far.printed \in Seq([id : Rows, due : Due])
         /\ DOMAIN p.far.printed = 1..Len(p.far.printed) /\ Len(p.far.printed) \in Nat
<1>1. p.far \in FarEndLines
  BY DEF Formed
<1>2. p.far.owner \in {"Local", "FarEnd"} /\ p.far.printed \in Seq([id : Rows, due : Due])
  BY <1>1 DEF FarEndLines
<1>3. IsSeq(p.far.printed)
  BY <1>2 DEF IsSeq
<1> QED BY <1>1, <1>2, <1>3, SeqIs

LEMMA OfMore ==
  ASSUME NEW s, IsSeq(s), NEW e, NEW row
  PROVE  Of(Append(s, e), row) = IF e.id = row THEN Of(s, row) \cup {<<Len(s) + 1, e>>}
                                 ELSE Of(s, row)
<1> DEFINE t == Append(s, e)
           n == Len(s)
<1>1. /\ n \in Nat /\ DOMAIN s = 1..n
      /\ DOMAIN t = 1..(n + 1) /\ \A i \in 1..n : t[i] = s[i]
      /\ t[n + 1] = e
  <2>1. IsSeq(t) /\ Len(t) = n + 1
    BY OneMore
  <2> QED BY <2>1, OneMore, SeqIs
<1> HIDE DEF t, n
<1>2. {j \in DOMAIN t : t[j].id = row} =
         {j \in DOMAIN s : s[j].id = row} \cup (IF e.id = row THEN {n + 1} ELSE {})
  BY <1>1
<1>3. Of(s, row) = {<<i, t[i]>> : i \in {j \in DOMAIN s : s[j].id = row}}
  BY <1>1 DEF Of
<1>4. CASE e.id = row
  BY <1>1, <1>2, <1>3, <1>4 DEF Of, t, n
<1>5. CASE e.id # row
  BY <1>1, <1>2, <1>3, <1>5 DEF Of, t, n
<1> QED BY <1>4, <1>5

LEMMA OfNone == \A row : Of(<<>>, row) = {}
<1>1. DOMAIN <<>> = {}
  OBVIOUS
<1> QED BY <1>1 DEF Of

LEMMA ShowsRow ==
  ASSUME NEW p, Readable(p), NEW id \in Rows, NEW d, d.text \in Texts,
         NEW q, Results(q) = Shows(Results(p), Output(id, d))
  PROVE  RowShown(q, p, id, d)
<1>1. Results(q) = [Results(p) EXCEPT ![id] = IF d.revision = "Appended" THEN @ \o d.text
                                              ELSE d.text]
  BY DEF Shows, Output
<1>2. Results(p)[id] \in Texts /\ DOMAIN Results(p) = Rows
  BY DEF Readable
<1>3. Results(p)[id] \o d.text \in Texts
  BY <1>2, JoinedTexts
<1> QED BY <1>1, <1>2, <1>3 DEF Readable, RowShown

LEMMA GrownTwice ==
  ASSUME NEW p, NEW q, NEW r, NEW sh, Grown(q, p, sh), Grown(r, q, sh)
  PROVE  Grown(r, p, sh)
BY DEF Grown

LEMMA GrownByRow ==
  ASSUME NEW sh \in Shells, Numbered(sh), NEW p, Formed(p), NEW q, Formed(q),
         NEW region, region # "Output", NEW id \in sh.rows, NEW text, NEW revision,
         q.far = FarAfter(p, region, id, text, revision),
         \A row \in Rows : row # id => q.lines[row].text = p.lines[row].text,
         Readable(p) => Readable(q),
         \A row \in Rows : row # id => Results(q)[row] = Results(p)[row]
  PROVE  Grown(q, p, sh)
<1>1. p.far \in FarEndLines /\ IsSeq(p.far.printed)
  BY FarIs
<1>2. /\ q.far.owner = p.far.owner /\ q.far.anchor = p.far.anchor /\ q.far.left = p.far.left
      /\ q.far.printed = IF region = "Output" \/ p.far.owner # "FarEnd" THEN p.far.printed
                         ELSE Append(p.far.printed, Entry(id, text, revision))
  BY <1>1, FarAfterIs
<1>3. id \in Nat /\ id < sh.next /\ sh.next \in Nat
  BY RowIsLess
<1>4. ASSUME NEW row \in Rows, row >= sh.next PROVE q.lines[row].text = p.lines[row].text
  <2>1. row # id
    BY <1>3, <1>4, RowsAssumption
  <2> QED BY <2>1
<1>5. ASSUME NEW row \in Rows \ sh.rows
      PROVE  /\ Results(q)[row] = Results(p)[row]
             /\ Of(q.far.printed, row) = Of(p.far.printed, row)
  <2>1. row # id
    OBVIOUS
  <2>2. Entry(id, text, revision).id # row
    BY <2>1 DEF Entry
  <2>3. Of(Append(p.far.printed, Entry(id, text, revision)), row) = Of(p.far.printed, row)
    BY <1>1, <2>2, OfMore
  <2> QED BY <1>2, <2>1, <2>3
<1> QED BY <1>2, <1>4, <1>5 DEF Grown

LEMMA GrownByFed ==
  ASSUME NEW sh \in Shells, Numbered(sh), NEW p, Formed(p), NEW q,
         NEW region, region # "Output", NEW id \in sh.rows, NEW text, NEW revision,
         Fed(q, p, region, id, text, revision)
  PROVE  Grown(q, p, sh) /\ q.cursor = id /\ Headings(q) = Headings(p)
         /\ q.integration = p.integration
<1>1. /\ Formed(q) /\ q.far = FarAfter(p, region, id, text, revision)
      /\ \A row \in Rows : row # id => q.lines[row].text = p.lines[row].text
      /\ Results(q) = Results(p) /\ q.cursor = id /\ Headings(q) = Headings(p)
      /\ q.integration = p.integration
  BY DEF Fed
<1>2. Readable(p) => Readable(q)
  BY <1>1 DEF Readable
<1> QED BY <1>1, <1>2, GrownByRow

LEMMA GrownByPrompt ==
  ASSUME NEW sh \in Shells, Numbered(sh), NEW p, Formed(p), NEW q, NEW row \in sh.rows,
         Prompted(q, p, row)
  PROVE  Grown(q, p, sh) /\ q.cursor = row
<1>1. /\ Formed(q) /\ q.far = FarAfter(p, "Prompt", row, Prompt, "Appended")
      /\ \A other \in Rows : other # row => q.lines[other].text = p.lines[other].text
      /\ Results(q) = Results(p) /\ q.cursor = row
  BY DEF Prompted
<1>2. Readable(p) => Readable(q)
  BY <1>1 DEF Readable
<1> QED BY <1>1, <1>2, GrownByRow

LEMMA GrownAgain ==
  ASSUME NEW sh \in Shells, Numbered(sh), NEW p, Formed(p), Readable(p), NEW q,
         NEW region, region # "Output", NEW id \in sh.rows, NEW text, NEW revision,
         Again(q, p, region, id, text, revision)
  PROVE  Grown(q, p, sh) /\ q.cursor = p.cursor /\ Headings(q) = Headings(p)
         /\ q.integration = p.integration
<1>1. /\ Formed(q) /\ q.far = FarAfter(p, region, id, text, revision)
      /\ \A row \in Rows : q.lines[row].text = p.lines[row].text
      /\ q.cursor = p.cursor /\ Headings(q) = Headings(p)
      /\ q.integration = p.integration
      /\ \/ Results(q) = Results(p)
         \/ \E d \in Due : Results(q) = Shows(Results(p), Output(id, d))
  BY DEF Again
<1>2. id \in Rows
  BY ShellIs
<1>3. Readable(q) /\ \A row \in Rows : row # id => Results(q)[row] = Results(p)[row]
  <2>1. CASE Results(q) = Results(p)
    BY <2>1 DEF Readable
  <2>2. ASSUME NEW d \in Due, Results(q) = Shows(Results(p), Output(id, d))
        PROVE  Readable(q) /\ \A row \in Rows : row # id => Results(q)[row] = Results(p)[row]
    <3>1. d.text \in Texts
      BY DEF Due
    <3> QED BY <1>2, <2>2, <3>1, ShowsRow DEF RowShown
  <2> QED BY <1>1, <2>1, <2>2
<1> QED BY <1>1, <1>3, GrownByRow

LEMMA GrownCalmly ==
  ASSUME NEW sh, NEW p, NEW q, Calm(q, p) PROVE Grown(q, p, sh)
BY DEF Calm, Grown, Readable

\* The common ending: all of it on the rows of the line.
LEMMA GrownTakes ==
  ASSUME NEW p, Readable(p), NEW q, NEW r, NEW sh, Grown(q, p, sh),
         q.integration = "Integrated", IsSeq(Headings(q)), PrintsOn(r) = {},
         q.cursor = p.cursor \/ q.cursor \in sh.rows
  PROVE  Takes(q, p, r, sh)
BY DEF Grown, Takes

LEMMA HeadingsOnceIsSeq ==
  ASSUME NEW p, IsSeq(Headings(p)) PROVE IsSeq(HeadingsOnce(p))
BY AppendIsSeq DEF HeadingsOnce

LEMMA TakesFirst ==
  ASSUME marks_output_start, NEW t, NEW p, NEW sh, Ready(t, p, sh),
         t.region = "Unstructured", NEW r, NEW row \in sh.rows, FirstAt(r.items, row),
         NEW q, q = Received(p, t, r.items)
  PROVE  Takes(q, p, r, sh) /\ Stood(t, r.items, Ends(r))
<1>1. t \in Tracker /\ ~t.markersSeen /\ ~t.blockOpen /\ Formed(p) /\ row \in Rows
  BY ShellIs DEF Ready, Tracked
<1>2. r.items = PromptOn(row, <<>>).items
  BY DEF FirstAt
<1>3. /\ AtPromptNow(t, r.items) /\ Prompted(q, p, row)
      /\ Headings(q) = Headings(p) /\ q.integration = "Integrated"
  BY <1>1, <1>2, FirstIs
<1>4. PrintsOn(r) = {} /\ Ends(r) = "CommandLine"
  BY PrintsIs
<1>5. Grown(q, p, sh) /\ q.cursor = row
  BY <1>1, <1>3, GrownByPrompt DEF Ready
<1>6. Takes(q, p, r, sh)
  BY <1>3, <1>4, <1>5, GrownTakes DEF Ready
<1>7. Stood(t, r.items, Ends(r))
  BY <1>3, <1>4 DEF Stood, AtPromptNow
<1> QED BY <1>6, <1>7

LEMMA ReadyIs ==
  ASSUME NEW t, NEW p, NEW sh, Ready(t, p, sh), t.region # "Unstructured"
  PROVE  /\ Stands(t, t.region, t.region = "Output") /\ p.integration = "Integrated"
         /\ p.far.owner = "FarEnd" /\ Formed(p)
<1>1. p.far.owner \in {"Local", "FarEnd"}
  BY FarIs DEF Ready
<1> QED BY <1>1 DEF Ready, Tracked

LEMMA TakesDone ==
  ASSUME marks_output_start, NEW t, NEW p, NEW sh, Ready(t, p, sh),
         t.region = "Output", NEW r, NEW row \in sh.rows, DoneAt(r.items, row),
         NEW q, q = Received(p, t, r.items)
  PROVE  Takes(q, p, r, sh) /\ Stood(t, r.items, Ends(r))
<1>1. Stands(t, "Output", TRUE) /\ p.integration = "Integrated" /\ Formed(p) /\ row \in Rows
  BY ReadyIs, ShellIs DEF Ready
<1>2. r.items = PromptOn(row, <<Done>>).items
  BY DEF DoneAt
<1>3. /\ AtPromptNow(t, r.items) /\ Prompted(q, p, row)
      /\ Headings(q) = Headings(p) /\ q.integration = p.integration
  <2>1. LET items == PromptOn(row, <<Done>>).items
            b     == Received(p, t, items)
        IN  /\ AtPromptNow(t, items) /\ Prompted(b, p, row)
            /\ Headings(b) = Headings(p) /\ b.integration = p.integration
    BY <1>1, DoneIs
  <2> QED BY <1>2, <2>1
<1>4. PrintsOn(r) = {} /\ Ends(r) = "CommandLine"
  BY PrintsIs
<1>5. Grown(q, p, sh) /\ q.cursor = row
  BY <1>1, <1>3, GrownByPrompt DEF Ready
<1>6. Takes(q, p, r, sh)
  BY <1>1, <1>3, <1>4, <1>5, GrownTakes DEF Ready
<1>7. Stood(t, r.items, Ends(r))
  BY <1>3, <1>4 DEF Stood, AtPromptNow
<1> QED BY <1>6, <1>7

LEMMA TakesBlank ==
  ASSUME marks_output_start, NEW t, NEW p, NEW sh, Ready(t, p, sh),
         t.region = "CommandLine", NEW r, NEW row \in sh.rows, BlankAt(r.items, row),
         NEW q, q = Received(p, t, r.items)
  PROVE  Takes(q, p, r, sh) /\ Stood(t, r.items, Ends(r))
<1>1. Stands(t, "CommandLine", FALSE) /\ p.integration = "Integrated" /\ Formed(p) /\ row \in Rows
  BY ReadyIs, ShellIs DEF Ready
<1>2. r.items = PromptOn(row, <<Mark("OutputStart"), Done>>).items
  BY DEF BlankAt
<1>3. /\ AtPromptNow(t, r.items) /\ Prompted(q, p, row)
      /\ Headings(q) = HeadingsOnce(p) /\ q.integration = p.integration
  BY <1>1, <1>2, BlankIs
<1>4. PrintsOn(r) = {} /\ Ends(r) = "CommandLine"
  BY PrintsIs
<1>5. Grown(q, p, sh) /\ q.cursor = row
  BY <1>1, <1>3, GrownByPrompt DEF Ready
<1>6. Takes(q, p, r, sh)
  BY <1>1, <1>3, <1>4, <1>5, GrownTakes, HeadingsOnceIsSeq DEF Ready
<1>7. Stood(t, r.items, Ends(r))
  BY <1>3, <1>4 DEF Stood, AtPromptNow
<1> QED BY <1>6, <1>7

LEMMA TakesDropped ==
  ASSUME marks_output_start, NEW t, NEW p, NEW sh, Ready(t, p, sh),
         t.region = "CommandLine", NEW r, NEW row \in sh.rows, DroppedAt(r.items, row, sh),
         NEW q, q = Received(p, t, r.items)
  PROVE  Takes(q, p, r, sh) /\ Stood(t, r.items, Ends(r))
<1> DEFINE left == r.items[1].id
<1>1. Stands(t, "CommandLine", FALSE) /\ p.integration = "Integrated" /\ Formed(p) /\ row \in Rows
  BY ReadyIs, ShellIs DEF Ready
<1>2. r.items = PromptOn(row, <<Row(left, Refusal, "Appended"), Mark("OutputStart"), Done>>).items
      /\ left \in sh.rows
  BY DEF DroppedAt
<1> HIDE DEF left
<1>3. left \in Rows
  BY <1>2, ShellIs DEF Ready
<1>4. /\ AtPromptNow(t, r.items)
      /\ \E a : /\ Fed(a, p, "CommandLine", left, Refusal, "Appended")
                   /\ Prompted(q, a, row)
                   /\ Headings(q) = HeadingsOnce(a) /\ q.integration = a.integration
  <2>1. Drops(q, p, t, r.items, left, row)
    BY <1>1, <1>2, <1>3, DroppedIs
  <2> QED BY <2>1 DEF Drops
<1>5. PICK a : /\ Fed(a, p, "CommandLine", left, Refusal, "Appended")
               /\ Prompted(q, a, row)
               /\ Headings(q) = HeadingsOnce(a) /\ q.integration = a.integration
  BY <1>4
<1>6. PrintsOn(r) = {} /\ Ends(r) = "CommandLine"
  BY PrintsIs
<1>7. Grown(a, p, sh) /\ Headings(a) = Headings(p) /\ a.integration = p.integration
  BY <1>2, <1>5, GrownByFed DEF Ready
<1>8. Grown(q, a, sh) /\ q.cursor = row
  <2>1. Formed(a)
    BY <1>7 DEF Grown
  <2> QED BY <1>5, <2>1, GrownByPrompt DEF Ready
<1>9. Grown(q, p, sh)
  BY <1>7, <1>8, GrownTwice
<1>10. IsSeq(Headings(q))
  BY <1>5, <1>7, HeadingsOnceIsSeq DEF Ready
<1>11. Takes(q, p, r, sh)
  BY <1>1, <1>5, <1>6, <1>7, <1>8, <1>9, <1>10, GrownTakes DEF Ready
<1>12. Stood(t, r.items, Ends(r))
  BY <1>4, <1>6 DEF Stood, AtPromptNow
<1> QED BY <1>11, <1>12

LEMMA TakesEdit ==
  ASSUME marks_output_start, NEW t, NEW p, NEW sh, Ready(t, p, sh),
         t.region = "CommandLine", NEW r, EditOf(r.items, sh),
         NEW q, q = Received(p, t, r.items)
  PROVE  Takes(q, p, r, sh) /\ Stood(t, r.items, Ends(r))
<1>1. Stands(t, "CommandLine", FALSE) /\ p.integration = "Integrated" /\ Formed(p)
  BY ReadyIs
<1>2. PrintsOn(r) = {} /\ Ends(r) = "CommandLine"
  BY PrintsIs
<1>3. CASE r.items = <<>>
  <2>1. AtPromptNow(t, r.items) /\ Calm(q, p)
    BY <1>1, <1>3, NoEditIs
  <2>2. Grown(q, p, sh) /\ q.cursor = p.cursor /\ q.integration = p.integration
        /\ Headings(q) = Headings(p)
    BY <2>1, GrownCalmly DEF Calm
  <2>3. Takes(q, p, r, sh)
    BY <1>1, <1>2, <2>2, GrownTakes DEF Ready
  <2> QED BY <1>2, <2>1, <2>3 DEF Stood, AtPromptNow
<1>4. CASE r.items # <<>>
  <2>1. PICK id \in sh.rows, text \in Texts, revision \in Revisions :
           r.items = <<Row(id, text, revision)>>
    BY <1>4 DEF EditOf
  <2>2. id \in Rows
    BY ShellIs DEF Ready
  <2>3. /\ AtPromptNow(t, r.items)
        /\ \/ Fed(q, p, "CommandLine", id, text, revision)
           \/ Again(q, p, "CommandLine", id, text, revision)
    BY <1>1, <2>1, <2>2, EditIs
  <2>4. CASE Fed(q, p, "CommandLine", id, text, revision)
    <3>1. Grown(q, p, sh) /\ q.cursor = id /\ Headings(q) = Headings(p)
          /\ q.integration = p.integration
      BY <2>4, GrownByFed DEF Ready
    <3> QED BY <1>1, <1>2, <2>3, <3>1, GrownTakes DEF Ready, Stood, AtPromptNow
  <2>5. CASE Again(q, p, "CommandLine", id, text, revision)
    <3>1. Grown(q, p, sh) /\ q.cursor = p.cursor /\ Headings(q) = Headings(p)
          /\ q.integration = p.integration
      BY <2>5, GrownAgain DEF Ready
    <3> QED BY <1>1, <1>2, <2>3, <3>1, GrownTakes DEF Ready, Stood, AtPromptNow
  <2> QED BY <2>3, <2>4, <2>5
<1> QED BY <1>3, <1>4

LEMMA TakesOutput ==
  ASSUME marks_output_start, NEW t, NEW p, NEW sh, Ready(t, p, sh),
         t.region = "CommandLine", NEW r, NEW row, row \in Rows, OutputAt(r.items, row, sh),
         NEW q, q = Received(p, t, r.items)
  PROVE  Takes(q, p, r, sh) /\ Stood(t, r.items, Ends(r))
<1>1. Stands(t, "CommandLine", FALSE) /\ p.integration = "Integrated" /\ Formed(p)
      /\ p.far.owner = "FarEnd"
  BY ReadyIs
<1>2. r.items = <<Mark("OutputStart"), Row(row, Printout, "Appended")>>
      /\ [row |-> row, text |-> Printout] \in sh.printed
  BY DEF OutputAt
<1>3. Outputs(q, p, t, r.items, row)
  BY <1>1, <1>2, OutputIs
<1>4. PICK a : /\ Apart(a, p) /\ a.echo = NoEcho /\ Headings(a) = HeadingsOnce(p)
               /\ Results(a) = Results(p)
               /\ Fed(q, a, "Output", row, Printout, "Appended")
  BY <1>3 DEF Outputs
<1>5. PrintsOn(r) = {row} /\ Ends(r) = "Output"
  BY PrintsIs
<1>6. row < sh.next /\ row \notin sh.rows /\ row \in Nat /\ sh.next \in Nat
  BY <1>2, RowsAssumption DEF Ready, Numbered, Shells
<1>7. /\ Formed(q) /\ q.far = FarAfter(a, "Output", row, Printout, "Appended")
      /\ q.cursor = row /\ q.integration = a.integration /\ Headings(q) = Headings(a)
      /\ \A other \in Rows : other # row => q.lines[other].text = a.lines[other].text
      /\ Results(q) = Shows(Results(a), Output(row, Entry(row, Printout, "Appended").due))
  BY <1>4 DEF Fed
<1>8. a.far = p.far /\ a.integration = p.integration
      /\ \A other \in Rows : a.lines[other].text = p.lines[other].text
  BY <1>4 DEF Apart
<1>9. /\ q.far.owner = p.far.owner /\ q.far.anchor = p.far.anchor /\ q.far.left = p.far.left
      /\ q.far.printed = p.far.printed
  <2>1. a.far \in FarEndLines
    BY <1>1, <1>8, FarIs
  <2> QED BY <1>7, <1>8, <2>1, FarAfterIs
<1>10. ASSUME NEW other \in Rows, other >= sh.next
       PROVE  q.lines[other].text = p.lines[other].text
  <2>1. other # row
    BY <1>6, <1>10, RowsAssumption
  <2> QED BY <1>7, <1>8, <2>1
<1>11. /\ Readable(q)
       /\ Results(q)[row] = Results(p)[row] \o Printout
       /\ \A other \in Rows : other # row => Results(q)[other] = Results(p)[other]
  <2> DEFINE d == Entry(row, Printout, "Appended").due
  <2>1. d.text = Printout /\ d.revision = "Appended" /\ Printout \in Texts
    BY TextOf DEF Entry
  <2>2. Readable(p) /\ Results(q) = Shows(Results(p), Output(row, d))
    BY <1>4, <1>7 DEF Ready
  <2> HIDE DEF d
  <2>3. RowShown(q, p, row, d)
    BY <2>1, <2>2, ShowsRow
  <2> QED BY <2>1, <2>3 DEF RowShown
<1>12. IsSeq(Headings(q))
  BY <1>4, <1>7, HeadingsOnceIsSeq DEF Ready
<1>13. \A other \in Rows \ sh.rows :
          Results(q)[other] = IF Ends(r) = "Output" /\ other \in PrintsOn(r)
                              THEN Results(p)[other] \o Printout ELSE Results(p)[other]
  BY <1>5, <1>11
<1>14. Takes(q, p, r, sh)
  BY <1>1, <1>2, <1>5, <1>7, <1>8, <1>9, <1>10, <1>11, <1>12, <1>13 DEF Takes
<1>15. Stood(t, r.items, Ends(r))
  BY <1>3, <1>5 DEF Stood, Outputs
<1> QED BY <1>14, <1>15

LEMMA OnlyIs ==
  ASSUME NEW s, NEW n, NEW row, NEW text,
         Of(s, row) = {<<n, Entry(row, text, "Appended")>>}
  PROVE  Only(s, row, text)
<1>1. <<n, Entry(row, text, "Appended")>> \in Of(s, row)
  OBVIOUS
<1>2. n \in DOMAIN s
  BY <1>1 DEF Of
<1> QED BY <1>2 DEF Only

LEMMA TakesListed ==
  ASSUME marks_output_start, NEW t, NEW p, NEW sh, Ready(t, p, sh),
         t.region = "CommandLine", NEW r, NEW row \in sh.rows, ListedAt(r.items, row, sh),
         NEW q, q = Received(p, t, r.items)
  PROVE  Takes(q, p, r, sh) /\ Stood(t, r.items, Ends(r))
<1> DEFINE list == r.items[1].id
           text == r.items[5].text
           e    == Entry(list, Listing, "Appended")
<1>1. Stands(t, "CommandLine", FALSE) /\ p.integration = "Integrated" /\ Formed(p)
      /\ p.far.owner = "FarEnd" /\ row \in Rows
  BY ReadyIs, ShellIs DEF Ready
<1>2. /\ r.items = <<Row(list, Listing, "Appended"), Mark("PromptStart"),
                     Row(row, Prompt, "Appended"), Mark("CommandStart"),
                     Row(row, text, "Appended")>>
      /\ text \in Texts
      /\ [row |-> list, text |-> Listing] \in sh.printed
  BY DEF ListedAt
<1>3. PrintsOn(r) = {list} /\ Ends(r) = "CommandLine"
  BY PrintsIs
<1> HIDE DEF list, text, e
<1>4. list < sh.next /\ list \notin sh.rows /\ list \in Nat /\ sh.next \in Nat /\ list \in Rows
  <2>1. list \in Rows
    BY <1>2 DEF Ready, Shells
  <2> QED BY <1>2, <2>1, RowsAssumption DEF Ready, Numbered, Shells
<1>5. Lists(q, p, t, r.items, list, row, text)
  BY <1>1, <1>2, <1>4, ListedIs
<1>6. PICK a, b : /\ Fed(a, p, "CommandLine", list, Listing, "Appended")
                  /\ Fed(b, a, "Prompt", row, Prompt, "Appended")
                  /\ Fed(q, b, "CommandLine", row, text, "Appended")
  BY <1>5 DEF Lists
<1>7. /\ Formed(a) /\ a.far = FarAfter(p, "CommandLine", list, Listing, "Appended")
      /\ a.integration = p.integration /\ Headings(a) = Headings(p)
      /\ \A other \in Rows : other # list => a.lines[other].text = p.lines[other].text
      /\ Results(a) = Results(p)
  BY <1>6 DEF Fed
<1>8. /\ a.far.owner = p.far.owner /\ a.far.anchor = p.far.anchor /\ a.far.left = p.far.left
      /\ a.far.printed = Append(p.far.printed, e)
  <2>1. p.far \in FarEndLines
    BY <1>1, FarIs
  <2>2. LET f == FarAfter(p, "CommandLine", list, Listing, "Appended")
        IN  /\ f.owner = p.far.owner /\ f.anchor = p.far.anchor /\ f.left = p.far.left
            /\ f.printed = IF "CommandLine" = "Output" \/ p.far.owner # "FarEnd"
                           THEN p.far.printed
                           ELSE Append(p.far.printed, Entry(list, Listing, "Appended"))
    BY <2>1, FarAfterIs
  <2> QED BY <1>1, <1>7, <2>2 DEF e
<1>9. Grown(b, a, sh) /\ Headings(b) = Headings(a) /\ b.integration = a.integration
  BY <1>6, <1>7, GrownByFed DEF Ready
<1>10. Grown(q, b, sh) /\ Headings(q) = Headings(b) /\ q.integration = b.integration
       /\ q.cursor = row
  <2>1. Formed(b)
    BY <1>9 DEF Grown
  <2> QED BY <1>6, <2>1, GrownByFed DEF Ready
<1>11. Grown(q, a, sh)
  BY <1>9, <1>10, GrownTwice
<1>12. Readable(a)
  BY <1>7 DEF Ready, Readable
<1>13. /\ Formed(q) /\ Readable(q)
       /\ q.far.owner = p.far.owner /\ q.far.anchor = p.far.anchor /\ q.far.left = p.far.left
       /\ \A other \in Rows \ sh.rows : /\ Results(q)[other] = Results(p)[other]
                                        /\ Of(q.far.printed, other) = Of(a.far.printed, other)
  BY <1>7, <1>8, <1>11, <1>12 DEF Grown
<1>14. ASSUME NEW other \in Rows, other >= sh.next
       PROVE  q.lines[other].text = p.lines[other].text
  <2>1. other # list
    BY <1>4, <1>14, RowsAssumption
  <2>2. q.lines[other].text = a.lines[other].text
    BY <1>11, <1>14 DEF Grown
  <2> QED BY <1>7, <2>1, <2>2
<1>15. IsSeq(p.far.printed) /\ e.id = list
  BY <1>1, FarIs DEF e, Entry
<1>16. ASSUME NEW other \in Rows \ sh.rows, other # list
       PROVE  Of(q.far.printed, other) = Of(p.far.printed, other)
  BY <1>8, <1>13, <1>15, <1>16, OfMore
<1>17. ASSUME Of(p.far.printed, list) = {}
       PROVE  Only(q.far.printed, list, Listing)
  <2> DEFINE n == Len(p.far.printed) + 1
  <2>1. Of(a.far.printed, list) = {<<n, e>>}
    BY <1>8, <1>15, <1>17, OfMore
  <2>2. Of(q.far.printed, list) = {<<n, e>>}
    BY <1>4, <1>13, <2>1
  <2> QED BY <2>2, OnlyIs DEF e
<1>18. Takes(q, p, r, sh)
  <2>1. IsSeq(Headings(q)) /\ q.integration = "Integrated"
    BY <1>1, <1>7, <1>9, <1>10 DEF Ready
  <2>2. \A other \in Rows \ sh.rows :
          IF Ends(r) # "Output" /\ other \in PrintsOn(r)
          THEN Of(p.far.printed, other) = {} => Only(q.far.printed, other, Listing)
          ELSE Of(q.far.printed, other) = Of(p.far.printed, other)
    BY <1>3, <1>16, <1>17
  <2>3. \A other \in Rows \ sh.rows :
          Results(q)[other] = IF Ends(r) = "Output" /\ other \in PrintsOn(r)
                              THEN Results(p)[other] \o Printout ELSE Results(p)[other]
    BY <1>3, <1>13
  <2> QED BY <1>1, <1>10, <1>13, <1>14, <2>1, <2>2, <2>3 DEF Takes
<1>19. Stood(t, r.items, Ends(r))
  BY <1>3, <1>5 DEF Stood, Lists, AtPromptNow
<1> QED BY <1>18, <1>19

\* Whatever the read is.
LEMMA AnyTakes ==
  ASSUME marks_output_start, NEW t, NEW p, NEW sh, Ready(t, p, sh),
         NEW r, Fits(r, t.region, sh), NEW q, q = Received(p, t, r.items)
  PROVE  Takes(q, p, r, sh) /\ Stood(t, r.items, Ends(r))
<1>1. r.at.row \in Rows
  BY DEF Fits, Screens
<1>2. \/ t.region = "Unstructured" /\ r.at.row \in sh.rows /\ FirstAt(r.items, r.at.row)
      \/ /\ t.region = "CommandLine"
         /\ \/ r.at.row \in sh.rows /\ \/ EditOf(r.items, sh)
                                       \/ BlankAt(r.items, r.at.row)
                                       \/ DroppedAt(r.items, r.at.row, sh)
                                       \/ ListedAt(r.items, r.at.row, sh)
            \/ OutputAt(r.items, r.at.row, sh)
      \/ t.region = "Output" /\ r.at.row \in sh.rows /\ DoneAt(r.items, r.at.row)
  BY DEF Fits
<1>3. CASE t.region = "Unstructured" /\ r.at.row \in sh.rows /\ FirstAt(r.items, r.at.row)
  BY <1>3, TakesFirst
<1>4. CASE t.region = "Output" /\ r.at.row \in sh.rows /\ DoneAt(r.items, r.at.row)
  BY <1>4, TakesDone
<1>5. CASE t.region = "CommandLine" /\ r.at.row \in sh.rows /\ EditOf(r.items, sh)
  BY <1>5, TakesEdit
<1>6. CASE t.region = "CommandLine" /\ r.at.row \in sh.rows /\ BlankAt(r.items, r.at.row)
  BY <1>6, TakesBlank
<1>7. CASE t.region = "CommandLine" /\ r.at.row \in sh.rows /\ DroppedAt(r.items, r.at.row, sh)
  BY <1>7, TakesDropped
<1>8. CASE t.region = "CommandLine" /\ r.at.row \in sh.rows /\ ListedAt(r.items, r.at.row, sh)
  BY <1>8, TakesListed
<1>9. CASE t.region = "CommandLine" /\ OutputAt(r.items, r.at.row, sh)
  BY <1>1, <1>9, TakesOutput
<1> QED BY <1>2, <1>3, <1>4, <1>5, <1>6, <1>7, <1>8, <1>9

\* The pump once it has told what it had to tell.
LEMMA ToldIs ==
  ASSUME NEW p, Formed(p), NEW q, q = [p EXCEPT !.told = <<>>, !.running = NewFlag]
  PROVE  /\ Formed(q) /\ q.told = <<>> /\ q.far = p.far /\ q.lines = p.lines
         /\ q.cursor = p.cursor /\ q.integration = p.integration /\ q.field = p.field
         /\ q.echo = p.echo /\ q.open = p.open
<1>1. /\ q.nextId = p.nextId /\ q.open = p.open /\ q.unshown = p.unshown
      /\ q.submitted = p.submitted /\ q.held = p.held /\ q.selfTalk = p.selfTalk
      /\ q.integration = p.integration /\ q.echo = p.echo /\ q.lines = p.lines
      /\ q.cursor = p.cursor /\ q.far = p.far /\ q.field = p.field
      /\ q.told = <<>> /\ DOMAIN q = DOMAIN p
  BY DEF Formed, NewPump
<1>2. IsSeq(<<>>)
  BY NilIsSeq
<1> QED BY <1>1, <1>2 DEF Formed

LEMMA ChainedOn ==
  ASSUME NEW t, NEW rs, IsSeq(rs), rs # <<>>, NEW sh, Chained(t, rs, sh),
         NEW u, u.region = Ends(rs[1])
  PROVE  Chained(u, Tail(rs), sh)
<1> DEFINE s == Tail(rs)
           n == Len(rs)
<1>1. /\ n \in Nat \ {0} /\ Len(s) = n - 1
      /\ \A i \in 1..(n - 1) : s[i] = rs[i + 1]
  BY OneLess
<1> HIDE DEF s, n
<1>2. ASSUME NEW i \in 0..(n - 1) PROVE RegionAfter(i, u, s) = RegionAfter(i + 1, t, rs)
  <2>1. CASE i = 0
    <3>1. RegionAfter(0, u, s) = Ends(rs[1])
      BY DEF RegionAfter
    <3>2. RegionAfter(1, t, rs) = Ends(rs[1])
      BY DEF RegionAfter
    <3> QED BY <2>1, <3>1, <3>2
  <2>2. CASE i # 0
    <3>1. i \in 1..(n - 1) /\ i + 1 # 0
      BY <1>1, <2>2
    <3> QED BY <1>1, <2>2, <3>1 DEF RegionAfter
  <2> QED BY <2>1, <2>2
<1>3. ASSUME NEW i \in 1..(n - 1) PROVE Fits(s[i], RegionAfter(i - 1, u, s), sh)
  <2>1. i - 1 \in 0..(n - 1) /\ i + 1 \in 1..n /\ (i - 1) + 1 = i /\ (i + 1) - 1 = i
    BY <1>1
  <2>2. RegionAfter(i - 1, u, s) = RegionAfter(i, t, rs)
    BY <1>2, <2>1
  <2>3. Fits(rs[i + 1], RegionAfter((i + 1) - 1, t, rs), sh)
    BY <2>1 DEF Chained, n
  <2> QED BY <1>1, <2>1, <2>2, <2>3
<1>4. RegionAfter(n - 1, u, s) = RegionOf(sh.phase)
  <2>1. n - 1 \in 0..(n - 1) /\ (n - 1) + 1 = n
    BY <1>1
  <2>2. RegionAfter(n - 1, u, s) = RegionAfter(n, t, rs)
    BY <1>2, <2>1
  <2> QED BY <2>2 DEF Chained, n
<1>5. Chained(u, s, sh)
  BY <1>1, <1>3, <1>4 DEF Chained
<1> QED BY <1>5 DEF s

LEMMA TakenUnwritten ==
  ASSUME NEW q, NEW p, NEW r, NEW sh \in Shells, Numbered(sh), Takes(q, p, r, sh),
         NEW region, Fits(r, region, sh), Unwritten(p, Results(p), sh)
  PROVE  Unwritten(q, Results(q), sh)
<1>1. ASSUME NEW row \in Rows, row >= sh.next
      PROVE  q.lines[row].text = <<>> /\ Results(q)[row] = <<>>
  <2>1. row \in Nat /\ sh.next \in Nat
    BY RowsAssumption DEF Shells
  <2>2. row \notin sh.rows
    BY <1>1, <2>1 DEF Numbered
  <2>3. row \notin PrintsOn(r)
    <3>1. ASSUME row \in PrintsOn(r) PROVE FALSE
      <4>1. \/ [row |-> row, text |-> Printout] \in sh.printed
            \/ [row |-> row, text |-> Listing] \in sh.printed
        BY <3>1, PrintsPrinted
      <4>2. row < sh.next
        BY <4>1 DEF Numbered
      <4> QED BY <1>1, <2>1, <4>2
    <3> QED BY <3>1
  <2>4. Results(q)[row] = Results(p)[row] /\ q.lines[row].text = p.lines[row].text
    BY <1>1, <2>2, <2>3 DEF Takes
  <2> QED BY <1>1, <2>4 DEF Unwritten
<1> QED BY <1>1 DEF Unwritten

LEMMA TakenElsewhere ==
  ASSUME NEW q, NEW p, NEW r, NEW sh \in Shells, Numbered(sh), Takes(q, p, r, sh),
         NEW region, Fits(r, region, sh), Elsewhere(p, sh)
  PROVE  Elsewhere(q, sh)
<1>1. ASSUME NEW row \in Fields(q)
      PROVE  row = NoRow \/ row \in sh.rows \/ [row |-> row, text |-> Printout] \in sh.printed
  <2>1. \/ row \in Fields(p) \/ row \in sh.rows
        \/ [row |-> row, text |-> Printout] \in sh.printed
    BY DEF Takes, Fields
  <2> QED BY <2>1 DEF Elsewhere
<1>2. ASSUME NEW row \in Rows \ sh.rows, Of(q.far.printed, row) # {}
      PROVE  [row |-> row, text |-> Listing] \in sh.printed
  <2>1. CASE Ends(r) # "Output" /\ row \in PrintsOn(r)
    BY <2>1, PrintsPrinted
  <2>2. CASE ~(Ends(r) # "Output" /\ row \in PrintsOn(r))
    <3>1. Of(q.far.printed, row) = Of(p.far.printed, row)
      BY <2>2 DEF Takes
    <3> QED BY <1>2, <3>1 DEF Elsewhere
  <2> QED BY <2>1, <2>2
<1> QED BY <1>1, <1>2 DEF Elsewhere

LEMMA TakenDelivers ==
  ASSUME NEW q, NEW p, NEW rs, IsSeq(rs), rs # <<>>, NEW sh \in Shells, Numbered(sh),
         Takes(q, p, rs[1], sh), NEW region, Fits(rs[1], region, sh),
         NEW x \in sh.printed, Delivered(x, Results(p), rs, p.far.printed)
  PROVE  Delivered(x, Results(q), Tail(rs), q.far.printed)
<1> DEFINE s == Tail(rs)
           n == Len(rs)
           r == rs[1]
           row == x.row
<1>1. /\ n \in Nat \ {0} /\ Len(s) = n - 1
      /\ \A i \in 1..(n - 1) : s[i] = rs[i + 1]
      /\ 1 \in 1..n /\ \A i \in 1..(n - 1) : i + 1 \in 1..n /\ i + 1 # 1
  BY OneLess
<1>2. row \in Rows \ sh.rows
  BY DEF Shells, Numbered
<1>3. /\ \A i, j \in 1..n : row \in PrintsOn(rs[i]) /\ row \in PrintsOn(rs[j]) => i = j
      /\ Results(p)[row] = IF Coming(row, rs) \/ Of(p.far.printed, row) # {} THEN <<>> ELSE x.text
      /\ Of(p.far.printed, row) # {} =>
            ~Coming(row, rs) /\ x.text = Listing /\ Only(p.far.printed, row, Listing)
  BY DEF Delivered, n, row
<1>4. Coming(row, rs) <=> \E i \in 1..n : row \in PrintsOn(rs[i])
  BY DEF Coming, n
<1>5. Coming(row, s) <=> \E i \in 1..(n - 1) : row \in PrintsOn(s[i])
  BY <1>1 DEF Coming
<1>6. \A y \in sh.printed : y.row = row => y = x
  BY DEF Numbered, row
<1>7. /\ Results(q)[row] = IF Ends(r) = "Output" /\ row \in PrintsOn(r)
                           THEN Results(p)[row] \o Printout ELSE Results(p)[row]
      /\ IF Ends(r) # "Output" /\ row \in PrintsOn(r)
         THEN Of(p.far.printed, row) = {} => Only(q.far.printed, row, Listing)
         ELSE Of(q.far.printed, row) = Of(p.far.printed, row)
  BY <1>2 DEF Takes, r
<1>8. row \in PrintsOn(r) =>
         \/ Ends(r) = "Output" /\ x.text = Printout
         \/ ListedAt(r.items, r.at.row, sh) /\ x.text = Listing
  <2>1. ASSUME row \in PrintsOn(r)
        PROVE  \/ Ends(r) = "Output" /\ [row |-> row, text |-> Printout] \in sh.printed
               \/ ListedAt(r.items, r.at.row, sh) /\ [row |-> row, text |-> Listing] \in sh.printed
    BY <2>1, PrintsPrinted DEF r
  <2> QED BY <1>6, <2>1
<1>9. ListedAt(r.items, r.at.row, sh) => Ends(r) # "Output"
  BY PrintsIs
<1> HIDE DEF s, n, r, row
<1>10. \A i, j \in 1..(n - 1) : row \in PrintsOn(s[i]) /\ row \in PrintsOn(s[j]) => i = j
  <2>1. ASSUME NEW i \in 1..(n - 1), NEW j \in 1..(n - 1),
               row \in PrintsOn(s[i]), row \in PrintsOn(s[j])
        PROVE  i = j
    <3>1. i + 1 \in 1..n /\ j + 1 \in 1..n /\ row \in PrintsOn(rs[i + 1])
          /\ row \in PrintsOn(rs[j + 1])
      BY <1>1, <2>1
    <3>2. i + 1 = j + 1
      BY <1>3, <3>1
    <3> QED BY <1>1, <3>2
  <2> QED BY <2>1
<1>11. CASE row \in PrintsOn(r)
  <2>1. Coming(row, rs)
    BY <1>1, <1>4, <1>11 DEF r
  <2>2. Results(p)[row] = <<>> /\ Of(p.far.printed, row) = {}
    BY <1>3, <2>1
  <2>3. ~Coming(row, s)
    BY <1>1, <1>3, <1>5, <1>11 DEF r
  <2>4. CASE Ends(r) = "Output" /\ x.text = Printout
    <3>1. Results(q)[row] = <<>> \o Printout /\ Of(q.far.printed, row) = {}
      BY <1>7, <1>11, <2>2, <2>4
    <3>2. <<>> \o Printout = Printout
      BY TextOf DEF Texts
    <3>3. Delivered(x, Results(q), s, q.far.printed)
      BY <1>1, <1>10, <2>3, <2>4, <3>1, <3>2 DEF Delivered, row
    <3> QED BY <3>3 DEF s
  <2>5. CASE ListedAt(r.items, r.at.row, sh) /\ x.text = Listing
    <3>1. Only(q.far.printed, row, Listing) /\ Results(q)[row] = <<>>
      BY <1>7, <1>9, <1>11, <2>2, <2>5
    <3>2. Of(q.far.printed, row) # {}
      BY <3>1 DEF Only
    <3>3. Delivered(x, Results(q), s, q.far.printed)
      BY <1>1, <1>10, <2>3, <2>5, <3>1, <3>2 DEF Delivered, row
    <3> QED BY <3>3 DEF s
  <2> QED BY <1>8, <1>11, <2>4, <2>5
<1>12. CASE row \notin PrintsOn(r)
  <2>1. Results(q)[row] = Results(p)[row] /\ Of(q.far.printed, row) = Of(p.far.printed, row)
    BY <1>7, <1>12
  <2>2. Coming(row, s) <=> Coming(row, rs)
    <3>1. ASSUME NEW i \in 1..n, row \in PrintsOn(rs[i])
          PROVE  \E j \in 1..(n - 1) : row \in PrintsOn(s[j])
      <4>1. i # 1
        BY <1>12, <3>1 DEF r
      <4>2. i - 1 \in 1..(n - 1) /\ (i - 1) + 1 = i
        BY <1>1, <4>1
      <4>3. s[i - 1] = rs[i]
        BY <1>1, <4>2
      <4> QED BY <3>1, <4>2, <4>3
    <3>2. ASSUME NEW j \in 1..(n - 1), row \in PrintsOn(s[j])
          PROVE  \E i \in 1..n : row \in PrintsOn(rs[i])
      BY <1>1, <3>2
    <3> QED BY <1>4, <1>5, <3>1, <3>2
  <2>3. Only(p.far.printed, row, Listing) /\ Of(p.far.printed, row) # {}
           => Only(q.far.printed, row, Listing)
    <3>1. ASSUME Only(p.far.printed, row, Listing)
          PROVE  Only(q.far.printed, row, Listing)
      <4>1. PICK i : Of(p.far.printed, row) = {<<i, Entry(row, Listing, "Appended")>>}
        BY <3>1 DEF Only
      <4> QED BY <2>1, <4>1, OnlyIs
    <3> QED BY <3>1
  <2>4. Delivered(x, Results(q), s, q.far.printed)
    BY <1>1, <1>3, <1>10, <2>1, <2>2, <2>3 DEF Delivered, row
  <2> QED BY <2>4 DEF s
<1> QED BY <1>11, <1>12

LEMMA ReceiveKeeps == ASSUME marks_output_start, Ordered, Receive PROVE Ordered'
<1> DEFINE r == reads[1]
           q == Received(pump, tracker, r.items)
<1>1. /\ IsSeq(reads) /\ reads # <<>> /\ Head(reads) = r /\ reads' = Tail(reads)
      /\ IsSeq(Tail(reads)) /\ Len(reads) \in Nat \ {0} /\ Len(Tail(reads)) = Len(reads) - 1
  BY OneLess DEF Ordered, Receive
<1>2. /\ tracker' = Observed(tracker, r.items).tracker
      /\ screen' = r.at
      /\ Becomes(q)
      /\ settled' = (pump.far.owner = "FarEnd")
      /\ UNCHANGED <<keys, shell, presses, ran, pasted>>
  BY <1>1 DEF Receive, Received
<1> HIDE DEF r, q
<1>3. /\ pump' = [q EXCEPT !.told = <<>>, !.running = NewFlag] /\ headings' = Headings(q) /\ transcript' = Results(q)
  BY <1>2 DEF Becomes, Headings, Results
<1>4. Results(pump) = transcript /\ Headings(pump) = headings
  BY ResultsNow DEF Ordered
<1>5. pump.far.owner \in {"Local", "FarEnd"}
  BY FarIs DEF Ordered
<1>6. pump.far.owner = "Local" => tracker.region = "Unstructured" /\ Len(reads) = 1
  BY <1>1 DEF Ordered, InTurn
<1>7. Ready(tracker, pump, shell)
  BY <1>4, <1>6 DEF Ordered, Ready, Readable
<1>8. Fits(r, tracker.region, shell)
  <2>1. 1 \in 1..Len(reads) /\ 1 - 1 = 0
    BY <1>1
  <2>2. Fits(reads[1], RegionAfter(0, tracker, reads), shell)
    BY <2>1 DEF Ordered, Chained
  <2> QED BY <2>2 DEF RegionAfter, r
<1>9. Takes(q, pump, r, shell) /\ Stood(tracker, r.items, Ends(r))
  BY <1>7, <1>8, AnyTakes DEF q
<1>10. /\ Formed(pump') /\ pump'.told = <<>> /\ pump'.far = q.far /\ pump'.lines = q.lines
       /\ pump'.cursor = q.cursor /\ pump'.integration = q.integration
  BY <1>3, <1>9, ToldIs DEF Takes
<1>11. IsSeq(headings') /\ transcript' \in [Rows -> Texts]
  BY <1>3, <1>9 DEF Takes, Readable
<1>12. tracker'.region = Ends(r) /\ Ends(r) # "Unstructured"
       /\ Stands(tracker', tracker'.region, tracker'.region = "Output")
  <2>1. Stands(tracker', Ends(r), Ends(r) = "Output")
    BY <1>2, <1>9 DEF Stood
  <2> QED BY <2>1 DEF Stands, Ends
<1>13. Tracked(tracker', pump')
  BY <1>9, <1>10, <1>12 DEF Tracked, Takes, Stands
<1>14. Chained(tracker', reads', shell)
  BY <1>1, <1>12, ChainedOn DEF Ordered, r
<1>15. shell \in Shells /\ Numbered(shell)
  BY DEF Ordered
<1>16. Unwritten(q, Results(q), shell)
  BY <1>4, <1>8, <1>9, <1>15, TakenUnwritten DEF Ordered
<1>17. Elsewhere(q, shell)
  BY <1>8, <1>9, <1>15, TakenElsewhere DEF Ordered
<1>18. ASSUME NEW x \in shell.printed
       PROVE  Delivered(x, transcript', reads', pump'.far.printed)
  <2>1. Delivered(x, Results(pump), reads, pump.far.printed)
    BY <1>4 DEF Ordered
  <2>2. Takes(q, pump, reads[1], shell) /\ Fits(reads[1], tracker.region, shell)
    BY <1>8, <1>9 DEF r
  <2>3. Delivered(x, Results(q), Tail(reads), q.far.printed)
    BY <1>1, <1>15, <2>1, <2>2, TakenDelivers
  <2> QED BY <1>1, <1>3, <1>10, <2>3
<1>19. Unwritten(pump', transcript', shell)
  BY <1>3, <1>10, <1>16 DEF Unwritten
<1>20. Elsewhere(pump', shell)
  BY <1>10, <1>17 DEF Elsewhere, Fields
<1>21. InTurn(tracker, pump, reads)'
  <2>1. pump'.far.owner = pump.far.owner
        /\ (pump.far.owner = "Local" => pump'.far.printed = pump.far.printed)
    BY <1>9, <1>10 DEF Takes
  <2>2. ASSUME pump.far.owner = "Local"
        PROVE  /\ pump'.far.printed = <<>> /\ ~settled' /\ keys' = <<>>
               /\ shell'.phase = "prompt" /\ reads' = <<>>
    <3>1. pump.far.printed = <<>> /\ keys = <<>> /\ shell.phase = "prompt"
      BY <2>2 DEF Ordered, InTurn
    <3>2. Len(Tail(reads)) = 0
      <4>1. Len(reads) = 1
        BY <1>6, <2>2
      <4>2. Len(Tail(reads)) = Len(reads) - 1
        BY <1>1
      <4> QED BY <4>1, <4>2
    <3>3. Tail(reads) = <<>>
      <4>1. PICK S : Tail(reads) \in Seq(S)
        BY <1>1 DEF IsSeq
      <4>2. \A T, s : s \in Seq(T) /\ Len(s) = 0 => s = <<>>
        OBVIOUS
      <4> QED BY <3>2, <4>1, <4>2
    <3>4. ~settled'
      BY <1>2, <2>2
    <3> QED BY <1>1, <1>2, <2>1, <2>2, <3>1, <3>3, <3>4
  <2>3. ~settled' => pump'.far.printed = <<>>
    BY <1>2, <1>5, <2>2
  <2> QED BY <2>1, <2>2, <2>3 DEF InTurn
<1>22. screen' \in Screens /\ settled' \in BOOLEAN
  BY <1>2, <1>8 DEF Fits
<1>23. keys' \in Seq(Keys \cup {"Paste"}) /\ shell' = shell /\ IsSeq(reads')
  BY <1>1, <1>2 DEF Ordered
<1>24. Chained(tracker, reads, shell)' /\ Unwritten(pump, transcript, shell)'
       /\ Elsewhere(pump, shell)' /\ Numbered(shell)' /\ (shell \in Shells)'
       /\ (shell.cursor <= Len(shell.line))'
       /\ (\A x \in shell.printed : Delivered(x, transcript, reads, pump.far.printed))'
  BY <1>14, <1>15, <1>18, <1>19, <1>20, <1>23 DEF Ordered
<1>25. Formed(pump)' /\ (pump.told = <<>>)' /\ IsSeq(headings)'
       /\ (transcript \in [Rows -> Texts])' /\ (keys \in Seq(Keys \cup {"Paste"}))'
       /\ IsSeq(reads)' /\ (screen \in Screens)' /\ (settled \in BOOLEAN)'
       /\ Tracked(tracker, pump)'
  BY <1>10, <1>11, <1>13, <1>22, <1>23
<1> QED BY <1>21, <1>24, <1>25 DEF Ordered

-----------------------------------------------------------------------------
(* What is in hand is published, row by row.                               *)
LEMMA PublishMay ==
  ASSUME NEW p, Formed(p), NEW id \in Rows, NEW d \in Due
  PROVE  MayPublish(publish(p, id, d), p, id, d)
<1>1. CASE d.text # <<>>
  BY <1>1, PublishPublishes DEF Publishes, MayPublish
<1>2. CASE d.text = <<>>
  <2>1. CASE p.open = NoCommand
    <3> DEFINE r == unclaimed(p)
    <3>1. Calm(r, p) /\ r.unshown
      BY UnshownIs DEF unclaimed
    <3>2. publish(p, id, d) = output(r, id, d)
      BY <2>1 DEF publish
    <3> HIDE DEF r
    <3>3. output(r, id, d) = r
      BY <1>2, <3>1 DEF output
    <3> QED BY <1>2, <3>1, <3>2, <3>3 DEF MayPublish, Apart, Calm
  <2>2. CASE p.open # NoCommand /\ p.unshown
    <3>1. publish(p, id, d) = p
      BY <1>2, <2>2 DEF publish, output
    <3>2. Calm(p, p)
      BY CalmAsItself
    <3> QED BY <1>2, <3>1, <3>2 DEF MayPublish, Apart, Calm
  <2>3. CASE p.open # NoCommand /\ ~p.unshown
    <3>1. publish(p, id, d) = output(p, id, d)
      BY <2>3 DEF publish
    <3> QED BY <2>3, <3>1, OutputPublishes DEF Publishes, MayPublish
  <2> QED BY <2>1, <2>2, <2>3
<1> QED BY <1>1, <1>2

LEMMA PrintsOneIs ==
  ASSUME NEW p, Formed(p), Readable(p), NEW fields, NEW e \in [id : Rows, due : Due],
         NEW q, q = Prints(p, fields, e)
  PROVE  PrintsOne(q, p, fields, e)
<1>1. e.id \in Rows /\ e.due \in Due /\ e.due.text \in Texts
  BY DEF Due
<1>2. CASE e.id \in fields
  <2>1. q = p /\ Calm(p, p)
    BY <1>2, CalmAsItself DEF Prints
  <2> QED BY <1>2, <2>1 DEF PrintsOne, Apart, Calm
<1>3. CASE e.id \notin fields
  <2>1. MayPublish(q, p, e.id, e.due)
    BY <1>1, <1>3, PublishMay DEF Prints
  <2>2. CASE Results(q) = Shows(Results(p), Output(e.id, e.due))
    <3>1. RowShown(q, p, e.id, e.due)
      BY <1>1, <2>2, ShowsRow
    <3> QED BY <1>3, <2>1, <3>1 DEF RowShown, MayPublish, PrintsOne
  <2>3. CASE e.due.text = <<>> /\ Results(q) = Results(p)
    BY <1>3, <2>1, <2>3 DEF MayPublish, PrintsOne, Readable
  <2> QED BY <2>1, <2>2, <2>3 DEF MayPublish
<1> QED BY <1>2, <1>3

LEMMA PrintsApart ==
  ASSUME NEW b, Formed(b), Readable(b), NEW fields, NEW n \in Nat,
         NEW s, \A i \in 1..n : s[i] \in [id : Rows, due : Due],
         NEW g, Steps(g, [fold |-> "print", fields |-> fields], b, n, s),
         NEW k \in 0..n
  PROVE  UpToOne(g[1..k], b)
<1> DEFINE Good(i) == UpToOne(g[1..i], b)
           Bad     == {i \in 0..n : ~Good(i)}
<1> SUFFICES ASSUME Bad # {} PROVE FALSE
  OBVIOUS
<1>1. PICK i \in Bad : \A j \in Bad : i <= j
  <2>1. Bad \subseteq Nat
    OBVIOUS
  <2> HIDE DEF Bad
  <2> QED BY <2>1, LeastOfNat
<1>2. g[1..0] = b
  BY DEF Steps
<1>3. Good(0)
  <2>1. Calm(b, b)
    BY CalmAsItself
  <2> QED BY <1>2, <2>1 DEF UpToOne, Apart, Calm
<1>4. i \in 1..n /\ i - 1 \in 0..n
  BY <1>1, <1>3
<1>5. Good(i - 1)
  BY <1>1, <1>4
<1> DEFINE p == g[1..(i - 1)]
           q == g[1..i]
<1>6. q = Prints(p, fields, s[i])
  BY <1>4 DEF Steps, Does
<1>7. UpToOne(p, b)
  BY <1>5
<1> HIDE DEF p, q
<1>8. PrintsOne(q, p, fields, s[i])
  BY <1>4, <1>6, <1>7, PrintsOneIs DEF UpToOne, Apart
<1>9. UpToOne(q, b)
  BY <1>7, <1>8 DEF UpToOne, Apart, PrintsOne
<1> QED BY <1>1, <1>9 DEF q

\* A row that is the command line's, or has nothing in hand.
LEMMA PrintsNone ==
  ASSUME NEW b, Formed(b), Readable(b), NEW fields, NEW n \in Nat,
         NEW s, \A i \in 1..n : s[i] \in [id : Rows, due : Due],
         NEW g, Steps(g, [fold |-> "print", fields |-> fields], b, n, s),
         NEW row \in Rows, NEW m \in 0..n, NEW k \in m..n,
         row \in fields \/ \A i \in (m + 1)..k : s[i].id # row
  PROVE  Results(g[1..k])[row] = Results(g[1..m])[row]
<1> DEFINE Good(i) == Results(g[1..i])[row] = Results(g[1..m])[row]
           Bad     == {i \in m..k : ~Good(i)}
<1> SUFFICES ASSUME Bad # {} PROVE FALSE
  OBVIOUS
<1>1. PICK i \in Bad : \A j \in Bad : i <= j
  <2>1. Bad \subseteq Nat
    OBVIOUS
  <2> HIDE DEF Bad
  <2> QED BY <2>1, LeastOfNat
<1>2. Good(m)
  OBVIOUS
<1>3. i \in (m + 1)..k /\ i - 1 \in m..k /\ i \in 1..n /\ i - 1 \in 0..n
  BY <1>1, <1>2
<1>4. Good(i - 1)
  BY <1>1, <1>3
<1> DEFINE p == g[1..(i - 1)]
           q == g[1..i]
<1>5. q = Prints(p, fields, s[i])
  BY <1>3 DEF Steps, Does
<1>6. UpToOne(p, b)
  BY <1>3, PrintsApart
<1>7. Results(p)[row] = Results(g[1..m])[row]
  BY <1>4
<1>8. Results(q)[row] # Results(g[1..m])[row]
  BY <1>1
<1> HIDE DEF p, q, Good, Bad
<1>9. PrintsOne(q, p, fields, s[i])
  BY <1>3, <1>5, <1>6, PrintsOneIs DEF UpToOne, Apart
<1>10. row # s[i].id \/ row \in fields
  BY <1>3
<1> QED BY <1>7, <1>8, <1>9, <1>10 DEF PrintsOne

LEMMA PrintsNoneYet ==
  ASSUME NEW b, Formed(b), Readable(b), NEW fields, NEW n \in Nat,
         NEW s, \A i \in 1..n : s[i] \in [id : Rows, due : Due],
         NEW g, Steps(g, [fold |-> "print", fields |-> fields], b, n, s),
         NEW row \in Rows, NEW k \in 0..n, row \in fields \/ \A i \in 1..k : s[i].id # row
  PROVE  Results(g[1..k])[row] = Results(b)[row]
<1> DEFINE m == 0
<1>1. m \in 0..n /\ k \in m..n
  OBVIOUS
<1>2. row \in fields \/ \A i \in (m + 1)..k : s[i].id # row
  OBVIOUS
<1>3. g[1..m] = b
  BY DEF Steps
<1> HIDE DEF m
<1>4. Results(g[1..k])[row] = Results(g[1..m])[row]
  BY <1>1, <1>2, PrintsNone
<1> QED BY <1>3, <1>4

LEMMA PrintsOnly ==
  ASSUME NEW b, Formed(b), Readable(b), NEW fields, NEW n \in Nat,
         NEW s, InHand(s, n),
         NEW g, Steps(g, [fold |-> "print", fields |-> fields], b, n, s),
         NEW row \in Rows, row \notin fields, NEW text, text # <<>>,
         NEW i \in 1..n, s[i] = Entry(row, text, "Appended"),
         Sole(s, n, row, i)
  PROVE  Results(g[1..n])[row] = Results(b)[row] \o text
<1> DEFINE p == g[1..(i - 1)]
           q == g[1..i]
<1>1. i - 1 \in 0..n /\ 0 \in 0..n /\ i - 1 \in 0..n /\ i \in 0..n /\ n \in i..n
      /\ i - 1 \in 0..n /\ g[1..0] = b
  BY DEF Steps
<1>2. Results(p)[row] = Results(b)[row]
  <2>1. \A j \in 1..(i - 1) : s[j].id # row
    BY DEF Sole
  <2>2. i - 1 \in 0..n
    OBVIOUS
  <2> QED BY <2>1, <2>2, PrintsNoneYet DEF InHand
<1>3. q = Prints(p, fields, s[i])
  BY DEF Steps, Does
<1>4. UpToOne(p, b)
  BY <1>1, PrintsApart DEF InHand
<1>5. Results(g[1..n])[row] = Results(q)[row]
  <2>1. \A j \in (i + 1)..n : s[j].id # row
    BY DEF Sole
  <2> QED BY <1>1, <2>1, PrintsNone DEF InHand
<1> HIDE DEF p, q
<1>6. PrintsOne(q, p, fields, s[i])
  BY <1>3, <1>4, PrintsOneIs DEF UpToOne, Apart, InHand
<1>7. s[i].id = row /\ s[i].due.text = text /\ s[i].due.revision = "Appended"
  BY DEF Entry
<1>8. Results(q)[row] = Results(p)[row] \o text
  BY <1>6, <1>7 DEF PrintsOne
<1> QED BY <1>2, <1>5, <1>8

LEMMA HoldsIs ==
  ASSUME NEW p, Formed(p), NEW far \in FarEndLines, NEW field \in [text : Texts, caret : Nat],
         NEW q, \/ q = [p EXCEPT !.far = far, !.field = field]
                \/ field = p.field /\ q = [p EXCEPT !.far = far]
  PROVE  Holds(q, p, far, field)
<1>1. /\ DOMAIN q = DOMAIN p
      /\ q.far = far /\ q.field = field /\ q.cursor = p.cursor /\ q.echo = p.echo
      /\ q.integration = p.integration /\ q.lines = p.lines
      /\ q.open = p.open /\ q.unshown = p.unshown /\ q.nextId = p.nextId
      /\ q.submitted = p.submitted /\ q.held = p.held /\ q.selfTalk = p.selfTalk
      /\ q.told = p.told
  <2>1. CASE q = [p EXCEPT !.far = far, !.field = field]
    BY <2>1 DEF NewPump, Formed
  <2>2. CASE field = p.field /\ q = [p EXCEPT !.far = far]
    BY <2>2 DEF NewPump, Formed
  <2> QED BY <2>1, <2>2
<1>2. Formed(q)
  BY <1>1 DEF Formed
<1> QED BY <1>1, <1>2 DEF Holds, Results, Headings

LEMMA OfIs ==
  ASSUME NEW s, NEW row, NEW n, NEW e, DOMAIN s = 1..n, Of(s, row) = {<<e, s[e]>>}
  PROVE  /\ \A j \in 1..n : s[j].id = row => j = e
<1> SUFFICES ASSUME NEW j \in 1..n, s[j].id = row PROVE j = e
  OBVIOUS
<1>1. <<j, s[j]>> \in Of(s, row)
  BY DEF Of
<1> QED BY <1>1

LEMMA PrintedOutIs ==
  ASSUME NEW p, Formed(p), Readable(p), NEW q, q = printed(p)
  PROVE  PrintedOut(q, p)
<1> DEFINE far == [p.far EXCEPT !.printed = <<>>]
           b   == [p EXCEPT !.far.printed = <<>>]
           s   == p.far.printed
           n   == Len(s)
           what == [fold |-> "print", fields |-> Fields(p)]
<1>1. /\ n \in Nat /\ DOMAIN s = 1..n /\ s \in Seq([id : Rows, due : Due])
      /\ p.far \in FarEndLines
  BY FarIs
<1>2. q = Result(what, b, s)
  BY <1>1, PrintedIsTheFold
<1>3. far \in FarEndLines /\ p.field \in [text : Texts, caret : Nat]
  <2>1. <<>> \in Seq([id : Rows, due : Due])
    OBVIOUS
  <2> QED BY <1>1, <2>1 DEF FarEndLines, Formed
<1>4. b = [p EXCEPT !.far = far]
  BY DEF NewPump, Formed
<1> HIDE DEF b, what
<1>5. Holds(b, p, far, p.field)
  BY <1>3, <1>4, HoldsIs
<1>6. Formed(b) /\ Readable(b)
  BY <1>5 DEF Holds, Readable
<1>7. \A i \in 1..n : s[i] \in [id : Rows, due : Due]
  <2>1. n = Len(s)
    OBVIOUS
  <2>2. s \in Seq([id : Rows, due : Due])
    BY <1>1
  <2>3. \A R, t : t \in Seq(R) => \A i \in 1..Len(t) : t[i] \in R
    OBVIOUS
  <2> HIDE DEF s, n
  <2> QED BY <2>1, <2>2, <2>3
<1>8. PICK g : Runs(g, what, b, n, s) /\ q = g[1..n]
  BY <1>1, <1>2, ResultRuns
<1>9. Steps(g, what, b, n, s)
  BY <1>1, <1>8, RunSteps
<1>10. Steps(g, [fold |-> "print", fields |-> Fields(p)], b, n, s)
  BY <1>9 DEF what
<1> HIDE DEF far, s, n
<1>11. UpToOne(q, b)
  <2>1. n \in 0..n
    BY <1>1
  <2> QED BY <1>1, <1>6, <1>7, <1>8, <1>10, <2>1, PrintsApart
<1>12. ASSUME NEW row \in Rows, row \in Fields(p) \/ Of(s, row) = {}
       PROVE  Results(q)[row] = Results(p)[row]
  <2>1. row \in Fields(p) \/ \A i \in 1..n : s[i].id # row
    <3>1. ASSUME NEW i \in 1..n, s[i].id = row PROVE <<i, s[i]>> \in Of(s, row)
      BY <1>1, <3>1 DEF Of
    <3> QED BY <1>12, <3>1
  <2>2. n \in 0..n
    BY <1>1
  <2>3. Results(g[1..n])[row] = Results(b)[row]
    BY <1>1, <1>6, <1>7, <1>10, <2>1, <2>2, PrintsNoneYet
  <2> QED BY <1>5, <1>8, <2>3 DEF Holds
<1>13. ASSUME NEW row \in Rows, NEW text \in Texts \ {<<>>},
              row \notin Fields(p), Only(s, row, text)
       PROVE  Results(q)[row] = Results(p)[row] \o text
  <2>1. PICK i \in DOMAIN s : Of(s, row) = {<<i, Entry(row, text, "Appended")>>}
    BY <1>13 DEF Only
  <2>2. i \in 1..n /\ s[i] = Entry(row, text, "Appended")
    <3>1. PICK j \in DOMAIN s : <<i, Entry(row, text, "Appended")>> = <<j, s[j]>>
      BY <2>1 DEF Of
    <3> QED BY <1>1, <3>1
  <2>3. \A j \in 1..n : s[j].id = row => j = i
    BY <1>1, <2>1, <2>2, OfIs
  <2> DEFINE fields == Fields(p)
  <2>4. row \notin fields /\ text # <<>> /\ n \in Nat
        /\ Steps(g, [fold |-> "print", fields |-> fields], b, n, s)
    BY <1>1, <1>10, <1>13
  <2> HIDE DEF fields
  <2>5. InHand(s, n) /\ Sole(s, n, row, i)
    BY <1>7, <2>3 DEF InHand, Sole
  <2>6. Results(g[1..n])[row] = Results(b)[row] \o text
    BY <1>6, <2>2, <2>4, <2>5, PrintsOnly
  <2> QED BY <1>5, <1>8, <2>6 DEF Holds
<1>14. /\ Formed(q) /\ Readable(q) /\ q.far = far
       /\ q.field = p.field /\ q.cursor = p.cursor /\ q.echo = p.echo
       /\ q.integration = p.integration /\ Headings(q) = Headings(p)
       /\ \A row \in Rows : q.lines[row].text = p.lines[row].text
  BY <1>5, <1>11 DEF UpToOne, Apart, Holds
<1> QED BY <1>12, <1>13, <1>14 DEF PrintedOut, s, far

-----------------------------------------------------------------------------
(* The pump takes its anchor, or lets go of it.                            *)
LEMMA CaretIs ==
  ASSUME screen \in Screens
  PROVE  caret \in Caret
<1>1. \A n \in Nat : n % Width \in Nat /\ n \div Width \in Nat
  BY WidthAssumption
<1>2. NoCaret \in Caret
  BY DEF NoCaret, Caret, Places
<1>3. screen.column \in Nat /\ screen.row \in Places
  BY DEF Screens, Places
<1> QED BY <1>1, <1>2, <1>3 DEF caret, Caret

\* What is on a row from a column on.
LEMMA FromColumnIs ==
  ASSUME NEW text \in Texts, NEW column \in Nat
  PROVE  from_column(text, column) \in Texts
<1>1. column + 1 \in Nat \ {0} /\ Len(text) \in Nat
  BY DEF Texts
<1>2. SubSeq(text, column + 1, Len(text)) \in Seq(Glyphs)
  BY <1>1, PartOf DEF Texts
<1> QED BY <1>2 DEF from_column, Texts

LEMMA RowText ==
  ASSUME NEW p, Formed(p), NEW row \in Rows PROVE p.lines[row].text \in Texts
BY DEF Formed, Recording

LEMMA AnchorHereIs ==
  ASSUME NEW p, Formed(p), screen \in Screens, NEW q, q = anchor_here(p)
  PROVE  HereIs(q, p)
<1>1. CASE ~screen.visible \/ p.cursor = NoRow
  BY <1>1 DEF anchor_here, HereIs
<1>2. CASE ~(~screen.visible \/ p.cursor = NoRow)
  <2> DEFINE anchor == [line |-> p.cursor, column |-> caret.column]
             text   == from_column(p.lines[p.cursor].text, caret.column)
             here   == [p EXCEPT !.far.anchor = anchor]
             far    == [p.far EXCEPT !.anchor = anchor, !.held = text]
             field  == [text |-> text, caret |-> 0]
  <2>1. p.cursor \in Rows /\ caret.column \in Nat
    BY <1>2, CaretIs DEF Formed, Places, Caret
  <2> HIDE DEF caret
  <2>2. text \in Texts
    BY <2>1, RowText, FromColumnIs
  <2>3. anchor # NoAnchor
    <3>1. anchor.line # NoAnchor.line
      BY <1>2 DEF NoAnchor
    <3> QED BY <3>1
  <2>4. p.far \in FarEndLines
    BY DEF Formed
  <2>5. here.far.anchor = anchor /\ here.lines = p.lines
    BY <2>4 DEF NewPump, Formed, FarEndLines
  <2>6. row_from_anchor(here) = text
    BY <2>3, <2>5 DEF row_from_anchor
  <2>7. q = far_end_line(here, text, 0)
    BY <1>2, <2>6 DEF anchor_here
  <2> HIDE DEF text
  <2>8. q = [p EXCEPT !.far = far, !.field = field]
    BY <2>4, <2>7 DEF far_end_line, NewPump, Formed, FarEndLines
  <2>9. anchor \in Anchors
    BY <2>1 DEF Anchors
  <2> HIDE DEF anchor
  <2>10. far \in FarEndLines /\ field \in [text : Texts, caret : Nat]
    BY <2>2, <2>4, <2>9 DEF FarEndLines
  <2> HIDE DEF far, field
  <2>11. Holds(q, p, far, field)
    BY <2>8, <2>10, HoldsIs
  <2> QED BY <1>2, <2>11 DEF HereIs, far, field, anchor, text
<1> QED BY <1>1, <1>2

-----------------------------------------------------------------------------
(* Texts trimmed at both ends.                                             *)
\* A part of the text from one character that shows to another.
LEMMA TrimIs ==
  ASSUME NEW S, NEW t \in Seq(S)
  PROVE  /\ trim(t) \in Seq(S)
         /\ trim(t) = <<>> <=> Solid(t) = {}
         /\ Solid(t) # {} =>
               \E a, b \in Solid(t) :
                  /\ a = Min(Solid(t)) /\ b = Max(Solid(t)) /\ a \in 1..b /\ b \in 1..Len(t)
                  /\ trim(t) = SubSeq(t, a, b) /\ Len(trim(t)) = b - a + 1
                  /\ \A i \in 1..(b - a + 1) : trim(t)[i] = t[a + i - 1]
<1> DEFINE T == Solid(t)
           a == Min(T)
           b == Max(T)
           none == <<>>
<1>1. Len(t) \in Nat /\ T = {i \in 1..Len(t) : t[i] # Blank}
  BY SolidIs
<1>2. T \in SUBSET (0..Len(t)) /\ T \in SUBSET Nat
  BY <1>1
<1>3. CASE T = {}
  <2>1. trim(t) = <<>>
    BY <1>3 DEF trim
  <2> QED BY <1>3, <2>1
<1>4. CASE T # {}
  <2> HIDE DEF T
  <2>1. a \in T /\ b \in T /\ a <= b
    BY <1>1, <1>2, <1>4, LeastOf, GreatestOf
  <2>2. trim(t) = SubSeq(t, a, b)
    BY <1>4 DEF trim, T
  <2> HIDE DEF a, b
  <2>3. a \in Nat \ {0} /\ b \in Nat /\ b <= Len(t) /\ a \in 1..b /\ b \in 1..Len(t)
    BY <1>1, <2>1
  <2>4. /\ trim(t) \in Seq(S)
        /\ Len(trim(t)) = b - a + 1
        /\ \A i \in 1..(b - a + 1) : trim(t)[i] = t[a + i - 1]
    BY <2>1, <2>2, <2>3, PartOf
  <2>5. trim(t) # <<>>
    <3>1. Len(trim(t)) # 0
      BY <2>3, <2>4
    <3>2. Len(none) = 0
      OBVIOUS
    <3> QED BY <3>1, <3>2
  <2> QED BY <1>4, <2>1, <2>2, <2>3, <2>4, <2>5 DEF T, a, b
<1> QED BY <1>3, <1>4

\* What ends in blanks shows no more.
LEMMA SolidOfTrimmed ==
  ASSUME NEW S, NEW t \in Seq(S) PROVE Solid(trim_end(t)) = Solid(t)
<1> DEFINE r == trim_end(t)
<1>1. r \in Seq(S) /\ TrimmedTo(t, r) /\ Len(t) \in Nat /\ Len(r) \in Nat
  BY TrimmedIs
<1>2. Solid(t) = {i \in 1..Len(t) : t[i] # Blank} /\ Solid(r) = {i \in 1..Len(r) : r[i] # Blank}
  BY <1>1, SolidIs
<1> HIDE DEF r
<1>3. ASSUME NEW i \in 1..Len(t), t[i] # Blank PROVE i \in 1..Len(r) /\ r[i] # Blank
  BY <1>1, <1>3 DEF TrimmedTo
<1>4. ASSUME NEW i \in 1..Len(r), r[i] # Blank PROVE i \in 1..Len(t) /\ t[i] # Blank
  BY <1>1, <1>4 DEF TrimmedTo
<1> QED BY <1>2, <1>3, <1>4 DEF r

LEMMA TrimOfTrimmed ==
  ASSUME NEW S, NEW t \in Seq(S) PROVE trim(trim_end(t)) = trim(t)
<1> DEFINE r == trim_end(t)
<1>1. r \in Seq(S) /\ TrimmedTo(t, r) /\ Solid(r) = Solid(t)
  BY TrimmedIs, SolidOfTrimmed
<1> HIDE DEF r
<1>2. CASE Solid(t) = {}
  <2>1. trim(t) = <<>> /\ trim(r) = <<>>
    BY <1>1, <1>2, TrimIs
  <2> QED BY <2>1 DEF r
<1>3. CASE Solid(t) # {}
  <2>1. PICK a, b \in Solid(t) :
           /\ a = Min(Solid(t)) /\ b = Max(Solid(t)) /\ a \in 1..b /\ b \in 1..Len(t)
           /\ Len(trim(t)) = b - a + 1
           /\ \A i \in 1..(b - a + 1) : trim(t)[i] = t[a + i - 1]
    BY <1>3, TrimIs
  <2>2. /\ b \in 1..Len(r) /\ Len(trim(r)) = b - a + 1
        /\ \A i \in 1..(b - a + 1) : trim(r)[i] = r[a + i - 1]
    BY <1>1, <1>3, <2>1, TrimIs
  <2>3. ASSUME NEW i \in 1..(b - a + 1) PROVE trim(r)[i] = trim(t)[i]
    <3>1. a + i - 1 \in 1..Len(r)
      BY <2>1, <2>2
    <3> QED BY <1>1, <2>1, <2>2, <3>1 DEF TrimmedTo
  <2>4. trim(r) \in Seq(S) /\ trim(t) \in Seq(S)
    BY <1>1, TrimIs
  <2> QED BY <2>1, <2>2, <2>3, <2>4, SeqEqual DEF r
<1> QED BY <1>2, <1>3 DEF r

\* Trimmed at one end there is nothing left only if there is at both.
LEMMA TrimmedNone ==
  ASSUME NEW S, NEW t \in Seq(S) PROVE trim_end(t) = <<>> <=> trim(t) = <<>>
<1> DEFINE r == trim_end(t)
           none == <<>>
<1>1. r \in Seq(S) /\ TrimmedTo(t, r) /\ Solid(r) = Solid(t) /\ Len(r) \in Nat
  BY TrimmedIs, SolidOfTrimmed
<1>2. trim(t) = <<>> <=> Solid(t) = {}
  BY TrimIs
<1>3. Solid(r) = {i \in 1..Len(r) : r[i] # Blank}
  BY <1>1, SolidIs
<1> HIDE DEF r
<1>4. Solid(r) = {} <=> Len(r) = 0
  <2>1. ASSUME Len(r) # 0 PROVE Len(r) \in Solid(r)
    BY <1>1, <1>3, <2>1 DEF TrimmedTo
  <2>2. ASSUME Len(r) = 0 PROVE Solid(r) = {}
    BY <1>1, <1>3, <2>2
  <2> QED BY <2>1, <2>2
<1>5. r = <<>> <=> Len(r) = 0
  <2>1. Len(none) = 0 /\ (Len(r) = 0 => r = none)
    BY <1>1
  <2> QED BY <2>1
<1> QED BY <1>1, <1>2, <1>4, <1>5 DEF r

LEMMA TextsTrimBoth ==
  ASSUME NEW t \in Texts
  PROVE  /\ trim(t) \in Texts /\ trim(trim_end(t)) = trim(t)
         /\ trim_end(t) = <<>> <=> trim(t) = <<>>
BY TrimIs, TrimOfTrimmed, TrimmedNone DEF Texts

\* No text is the one that stands for none.
LEMMA NoTextIsNone == NoText \notin Texts
<1> SUFFICES ASSUME NoText \in Texts PROVE FALSE
  OBVIOUS
<1>1. NoText[1] = "no text" /\ Len(NoText) = 1
  BY DEF NoText
<1>2. "no text" \in Glyphs
  <2>1. \A S, t : t \in Seq(S) /\ Len(t) = 1 => t[1] \in S
    OBVIOUS
  <2> QED BY <1>1, <2>1 DEF Texts
<1>3. "no text" \notin {Blank} \cup Range(Prompt) \cup Range(Listing) \cup Range(Printout)
                    \cup Range(Refusal)
  <2>1. /\ Range(Prompt) = {"$"} /\ Range(Listing) = {"l"} /\ Range(Printout) = {"o"}
        /\ Range(Refusal) = {"^C"}
    BY DEF Range, Prompt, Listing, Printout, Refusal
  <2> QED BY <2>1 DEF Blank
<1>4. "no text" \in Tokens
  BY <1>2, <1>3 DEF Glyphs
<1>5. NoText \in Seq(Tokens)
  <2>1. \A S, x : x \in S => <<x>> \in Seq(S)
    OBVIOUS
  <2> QED BY <1>4, <2>1 DEF NoText
<1> QED BY <1>5, NoTextAssumption

-----------------------------------------------------------------------------
(* The pump's far-end line changes hands, is left, and has keys sent.      *)
LEMMA NewFields ==
  /\ NewFarEndLine = [f \in DOMAIN NewFarEndLine |-> NewFarEndLine[f]]
  /\ DOMAIN NewFarEndLine = {"owner", "anchor", "awaiting_prompt", "changed", "watching",
                             "was", "printed", "held", "left"}
  /\ NewFarEndLine.held = <<>> /\ NewFarEndLine.anchor = NoAnchor
<1>1. NewFarEndLine = [f \in DOMAIN NewFarEndLine |-> NewFarEndLine[f]]
  BY DEF NewFarEndLine
<1>2. DOMAIN NewFarEndLine = {"owner", "anchor", "awaiting_prompt", "changed", "watching",
                              "was", "printed", "held", "left"}
  BY DEF NewFarEndLine
<1>3. NewFarEndLine.held = <<>> /\ NewFarEndLine.anchor = NoAnchor
  BY DEF NewFarEndLine
<1> QED BY <1>1, <1>2, <1>3

LEMMA NewFarEndIs ==
  ASSUME NEW owner \in {"Local", "FarEnd"}, NEW anchor \in Anchors
  PROVE  [NewFarEndLine EXCEPT !.owner = owner, !.anchor = anchor] \in FarEndLines
<1>1. <<>> \in Texts /\ <<>> \in Seq(Change) /\ <<>> \in Seq([id : Rows, due : Due])
  BY DEF Texts
<1>2. NoCaret \in [column : Nat, row : Places \X Nat] /\ NoRow \in Places
  BY DEF NoCaret, Places
<1> HIDE DEF NoCaret
<1> QED BY <1>1, <1>2 DEF NewFarEndLine, FarEndLines

LEMMA LineOwnerIs ==
  ASSUME NEW p, Formed(p), screen \in Screens, NEW owner \in {"Local", "FarEnd"},
         NEW q, q = line_owner(p, owner)
  PROVE  OwnerIs(q, p, owner)
<1> DEFINE c == [p EXCEPT !.far = [NewFarEndLine EXCEPT !.owner  = owner,
                                                        !.anchor = p.far.anchor,
                                                        !.held   = <<>>]]
           far == Cleared(p, owner)
           b   == [c EXCEPT !.far.anchor = NoAnchor]
<1>1. p.far.anchor \in Anchors /\ NoAnchor \in Anchors
      /\ p.field \in [text : Texts, caret : Nat]
  BY DEF Formed, FarEndLines, Anchors
<1>2. far = [NewFarEndLine EXCEPT !.owner = owner, !.anchor = p.far.anchor, !.held = <<>>]
  BY NewFields DEF Cleared
<1>3. far \in FarEndLines
  BY <1>1, NewFarEndIs DEF Cleared
<1>4. c = [p EXCEPT !.far = far]
  BY <1>2
<1>5. q = IF owner = "FarEnd" THEN anchor_here(c) ELSE b
  BY DEF line_owner
<1>6. [far EXCEPT !.anchor = NoAnchor] = [NewFarEndLine EXCEPT !.owner = owner]
  BY NewFields DEF Cleared
<1>7. [NewFarEndLine EXCEPT !.owner = owner] \in FarEndLines
  <2>1. [NewFarEndLine EXCEPT !.owner = owner]
           = [NewFarEndLine EXCEPT !.owner = owner, !.anchor = NoAnchor]
    BY NewFields
  <2> QED BY <1>1, <2>1, NewFarEndIs
<1>8. b = [p EXCEPT !.far = [far EXCEPT !.anchor = NoAnchor]]
  BY <1>4 DEF NewPump, Formed
<1> HIDE DEF c, far, b
<1>9. Holds(c, p, far, p.field)
  BY <1>1, <1>3, <1>4, HoldsIs
<1>10. CASE owner = "FarEnd"
  <2>1. HereIs(anchor_here(c), c)
    BY <1>9, AnchorHereIs DEF Holds
  <2> QED BY <1>5, <1>9, <1>10, <2>1 DEF OwnerIs, far
<1>11. CASE owner # "FarEnd"
  <2>1. Holds(b, p, [NewFarEndLine EXCEPT !.owner = owner], p.field)
    BY <1>1, <1>6, <1>7, <1>8, HoldsIs
  <2> QED BY <1>5, <1>11, <2>1 DEF OwnerIs, Freed
<1> QED BY <1>10, <1>11

LEMMA AwaitPromptIs ==
  ASSUME NEW p, Formed(p), NEW q, q = await_prompt(p)
  PROVE  Holds(q, p, AwaitFar(p), p.field)
<1>1. p.far \in FarEndLines /\ p.field \in [text : Texts, caret : Nat]
  BY DEF Formed
<1>2. AwaitFar(p) \in FarEndLines
  BY <1>1 DEF FarEndLines, AwaitFar, Anchors, NoAnchor, Places
<1>3. q = [p EXCEPT !.far = AwaitFar(p)]
  BY <1>1 DEF await_prompt, AwaitFar, NewPump, Formed, FarEndLines
<1> QED BY <1>1, <1>2, <1>3, HoldsIs

LEMMA AnchoredText ==
  ASSUME NEW p, Formed(p)
  PROVE  row_from_anchor(p) \in Texts
<1>1. CASE p.far.anchor = NoAnchor
  BY <1>1, TextOf DEF row_from_anchor
<1>2. CASE p.far.anchor # NoAnchor
  <2>1. p.far.anchor.line \in Rows /\ p.far.anchor.column \in Nat
    BY <1>2 DEF Formed, FarEndLines, Anchors
  <2> QED BY <1>2, <2>1, RowText, FromColumnIs DEF row_from_anchor
<1> QED BY <1>1, <1>2

LEMMA SubmitIs ==
  ASSUME NEW p, Formed(p), NEW q, q = far_end_submitted(p)
  PROVE  SubmittedIs(q, p)
<1> DEFINE typed == TypedOn(p)
           left  == await_prompt(p)
           next  == [left EXCEPT !.nextId = @ + 1]
           shut  == close(next, NoExit)
           run   == open(shut, p.nextId, typed)
<1>1. Holds(left, p, AwaitFar(p), p.field)
  BY AwaitPromptIs
<1>2. q = IF typed = <<>> THEN left ELSE settle_running(run)
  BY DEF far_end_submitted, TypedOn
<1>3. typed \in Texts /\ typed # NoText
  BY AnchoredText, TextsTrimBoth, NoTextIsNone DEF TypedOn
<1>4. p.nextId \in Nat \ {0}
  BY DEF Formed
<1>5. CASE typed = <<>>
  BY <1>1, <1>2, <1>5 DEF Holds, SubmittedIs
<1>6. CASE typed # <<>>
  <2> HIDE DEF left, typed
  <2>1. /\ DOMAIN next = DOMAIN left
        /\ next.far = left.far /\ next.field = left.field /\ next.cursor = left.cursor
        /\ next.echo = left.echo /\ next.integration = left.integration
        /\ next.lines = left.lines /\ next.open = left.open /\ next.unshown = left.unshown
        /\ next.nextId = left.nextId + 1 /\ next.submitted = left.submitted
        /\ next.held = left.held /\ next.selfTalk = left.selfTalk /\ next.told = left.told
    BY <1>1 DEF NewPump, Formed, Holds
  <2> HIDE DEF next
  <2>2. Formed(next)
    <3>1. Formed(left) /\ left.nextId \in Nat \ {0}
      BY <1>1 DEF Holds, Formed
    <3>2. next.nextId \in Nat \ {0}
      BY <2>1, <3>1
    <3> QED BY <2>1, <3>1, <3>2 DEF Formed
  <2>3. Calm(next, left)
    BY <2>1, <2>2 DEF Calm, Results, Headings
  <2>4. Calm(shut, next)
    BY <2>2, CloseIs
  <2> HIDE DEF shut
  <2>5. /\ Apart(run, shut) /\ run.echo = shut.echo /\ run.open = p.nextId
        /\ Results(run) = Results(shut)
        /\ Headings(run) = Heads(Headings(shut), Started(p.nextId, typed))
    BY <1>4, <2>4, OpenIs DEF Calm
  <2>6. Headings(run) = Append(Headings(shut), typed)
    BY <1>3, <2>5 DEF Heads, Started
  <2> HIDE DEF run
  <2>7. Calm(q, run) /\ q.open = run.open
    BY <1>2, <1>6, <2>5, SettleIs DEF Apart
  <2>8. q.open # NoCommand
    BY <1>4, <2>5, <2>7 DEF NoCommand
  <2> QED BY <1>1, <1>6, <2>3, <2>4, <2>5, <2>6, <2>7, <2>8
          DEF SubmittedIs, Holds, Calm, Apart, typed
<1> QED BY <1>5, <1>6

LEMMA FarEndKeyIs ==
  ASSUME NEW p, Formed(p), screen \in Screens, NEW key, NEW q, q = far_end_key(p, key)
  PROVE  KeyIs(q, p, key)
<1> DEFINE sent == CASE key = "Enter" -> far_end_submitted(p)
                     [] key = "CtrlC" -> await_prompt(p)
                     [] OTHER         -> p
           far0 == IF key \in {"Enter", "CtrlC"} THEN AwaitFar(p) ELSE p.far
           far  == KeyFar(p, key)
<1>1. /\ Formed(sent) /\ sent.far = far0 /\ sent.field = p.field
      /\ sent.cursor = p.cursor /\ sent.echo = p.echo /\ sent.integration = p.integration
      /\ \A row \in Rows : sent.lines[row].text = p.lines[row].text
      /\ Results(sent) = Results(p)
      /\ IF key # "Enter" \/ TypedOn(p) = <<>>
         THEN sent.open = p.open /\ Headings(sent) = Headings(p)
         ELSE sent.open # NoCommand /\ Headings(sent) = Append(Headings(p), TypedOn(p))
  <2>1. CASE key = "Enter"
    <3>1. SubmittedIs(sent, p)
      BY <2>1, SubmitIs
    <3> HIDE DEF sent
    <3> QED BY <2>1, <3>1 DEF SubmittedIs
  <2>2. CASE key = "CtrlC"
    <3>1. Holds(sent, p, AwaitFar(p), p.field)
      BY <2>2, AwaitPromptIs
    <3> HIDE DEF sent
    <3> QED BY <2>2, <3>1 DEF Holds
  <2>3. CASE key # "Enter" /\ key # "CtrlC"
    <3>1. sent = p
      BY <2>3
    <3> HIDE DEF sent
    <3> QED BY <2>3, <3>1
  <2> QED BY <2>1, <2>2, <2>3
<1>2. q = [sent EXCEPT !.far.was = caret, !.far.changed = <<>>, !.far.watching = TRUE]
  BY DEF far_end_key
<1>3. far0 \in FarEndLines
  BY <1>1 DEF Formed
<1>4. far = [far0 EXCEPT !.was = caret, !.changed = <<>>, !.watching = TRUE]
  BY DEF KeyFar
<1> HIDE DEF sent, far0, far
<1>5. far \in FarEndLines
  <2>1. caret \in [column : Nat, row : Places \X Nat] /\ <<>> \in Seq(Change)
    BY CaretIs DEF Caret
  <2> HIDE DEF caret
  <2> QED BY <1>3, <1>4, <2>1 DEF FarEndLines
<1>6. q = [sent EXCEPT !.far = far]
  BY <1>1, <1>2, <1>3, <1>4 DEF NewPump, Formed, FarEndLines
<1>7. sent.field \in [text : Texts, caret : Nat]
  BY <1>1 DEF Formed
<1>8. Holds(q, sent, far, sent.field)
  BY <1>1, <1>5, <1>6, <1>7, HoldsIs
<1> QED BY <1>1, <1>8 DEF Holds, KeyIs, far

-----------------------------------------------------------------------------
(* The settling of the rows, in steps.                                     *)
LEMMA NoAnchorLine == NoAnchor.line = NoRow /\ NoAnchor \in Anchors
BY DEF NoAnchor, Anchors

LEMMA AnchorIs ==
  ASSUME NEW anchor \in Anchors
  PROVE  anchor.line \in Places /\ anchor.column \in Nat
         /\ (anchor # NoAnchor => anchor.line \in Rows)
BY DEF Anchors, NoAnchor, Places

LEMMA FollowIs ==
  ASSUME NEW p, Formed(p), NEW q, q = follow_cursor(p)
  PROVE  Holds(q, p, FollowFar(p), p.field)
<1> DEFINE row  == trim_end(p.lines[p.cursor].text)
           held == trim_end(p.far.held)
           stays == \/ ~screen.visible \/ p.cursor \in {NoRow, p.far.anchor.line}
                    \/ held = <<>> \/ ~IsSuffix(held, row)
           anchor == [line |-> p.cursor, column |-> Len(row) - Len(held)]
           far  == [p.far EXCEPT !.anchor = anchor]
<1>1. p.far \in FarEndLines /\ p.field \in [text : Texts, caret : Nat]
  BY DEF Formed
<1>2. CASE stays
  <2>1. q = p /\ FollowFar(p) = p.far
    BY <1>2 DEF follow_cursor, FollowFar
  <2> QED BY <1>1, <2>1 DEF Holds
<1>3. CASE ~stays
  <2>1. p.cursor \in Rows /\ IsSuffix(held, row)
    BY <1>3 DEF Formed, Places
  <2>2. row \in Texts /\ held \in Texts
    <3>1. p.far.held \in Texts /\ p.lines[p.cursor].text \in Texts
      BY <1>1, <2>1, RowText DEF FarEndLines
    <3> QED BY <3>1, TextsTrim
  <2>3. q = [p EXCEPT !.far.anchor = anchor] /\ FollowFar(p) = far
    BY <1>3 DEF follow_cursor, FollowFar
  <2> HIDE DEF row, held, stays
  <2>4. anchor \in Anchors
    <3>1. Len(held) <= Len(row)
      BY <2>1, <2>2, SuffixIs DEF Texts
    <3>2. Len(held) \in Nat /\ Len(row) \in Nat
      BY <2>2 DEF Texts
    <3>3. Len(row) - Len(held) \in Nat
      BY <3>1, <3>2
    <3> QED BY <2>1, <3>3 DEF Anchors
  <2> HIDE DEF anchor
  <2>5. far \in FarEndLines
    BY <1>1, <2>4 DEF FarEndLines
  <2>6. q = [p EXCEPT !.far = far]
    BY <1>1, <2>3 DEF NewPump, Formed, FarEndLines
  <2> HIDE DEF far
  <2>7. Holds(q, p, far, p.field)
    BY <1>1, <2>5, <2>6, HoldsIs
  <2> QED BY <2>3, <2>7
<1> QED BY <1>2, <1>3

LEMMA CaretInIs ==
  ASSUME NEW text \in Texts, NEW anchor \in Nat, NEW now \in Caret
  PROVE  caret_in(text, anchor, now) \in Nat
<1>1. Len(text) \in Nat /\ now.column \in Nat
  BY DEF Texts, Caret
<1>2. saturating_sub(now.column, anchor) = IF now.column >= anchor THEN now.column - anchor ELSE 0
  BY <1>1, Saturating
<1>3. saturating_sub(now.column, anchor) \in Nat
  BY <1>1, <1>2
<1> QED BY <1>1, <1>3 DEF caret_in

LEMMA MovedTypes ==
  ASSUME NEW anchor \in Anchors, NEW now \in Caret, NEW held \in Texts
  PROVE  CaretMoved(anchor, now, held) \in Answering
<1> DEFINE at   == saturating_sub(now.column, anchor.column)
           row  == trim_end(held)
           text == IF at >= Len(row) THEN padded(row, at) ELSE held
<1>1. at \in Nat
  <2>1. now.column \in Nat /\ anchor.column \in Nat
    BY AnchorIs DEF Caret
  <2> QED BY <2>1, Saturating
<1>2. row \in Texts
  BY TextsTrim
<1> HIDE DEF at, row
<1>3. padded(row, at) \in Texts
  BY <1>1, <1>2, PaddedIs, PromptIs DEF Texts
<1>4. text \in Texts
  BY <1>3
<1>5. CaretMoved(anchor, now, held)
         = FarEndAnswer(IF text = held THEN "Caret" ELSE "Row", text, at)
  BY DEF CaretMoved, at, row
<1> HIDE DEF text
<1> QED BY <1>1, <1>4, <1>5 DEF FarEndAnswer, Answering, Kinds

LEMMA AnswerTypes ==
  ASSUME NEW changed \in Seq(Change), NEW anchor \in Anchors, NEW was, NEW now \in Caret,
         NEW held \in Texts
  PROVE  far_end_row(changed, anchor, was, now, held) \in Answering
<1> DEFINE answer == far_end_row(changed, anchor, was, now, held)
           A == Anchored(changed, anchor)
           G == gained_content(changed)
<1>1. DOMAIN changed = 1..Len(changed) /\ Len(changed) \in Nat
      /\ \A i \in 1..Len(changed) : changed[i].after \in Texts
  <2>1. \A R, t : t \in Seq(R) =>
           /\ DOMAIN t = 1..Len(t) /\ Len(t) \in Nat
           /\ \A i \in 1..Len(t) : t[i] \in R
    OBVIOUS
  <2>2. \A c \in Change : c.after \in Texts
    BY DEF Change
  <2> QED BY <2>1, <2>2
<1>2. A \in SUBSET Nat /\ G \in SUBSET Nat /\ A \subseteq 1..Len(changed)
      /\ G \subseteq 1..Len(changed)
  BY <1>1 DEF Anchored, gained_content
<1> HIDE DEF A, G
<1>3. CASE A # {}
  <2> DEFINE text == from_column(changed[Min(A)].after, anchor.column)
             at   == caret_in(text, anchor.column, now)
  <2>1. Min(A) \in 1..Len(changed) /\ anchor.column \in Nat
    BY <1>2, <1>3, LeastOf, AnchorIs
  <2>2. text \in Texts
    BY <1>1, <2>1, FromColumnIs
  <2> HIDE DEF text
  <2>3. at \in Nat
    BY <2>1, <2>2, CaretInIs
  <2> HIDE DEF at
  <2>4. padded(text, at) \in Texts
    BY <2>2, <2>3, PaddedIs, PromptIs DEF Texts
  <2>5. answer = FarEndAnswer("Row", padded(text, at), at)
    BY <1>3 DEF far_end_row, A, at, text
  <2> QED BY <2>3, <2>4, <2>5 DEF FarEndAnswer, Answering, Kinds
<1>4. CASE A = {} /\ G # {}
  <2>1. Min(G) \in 1..Len(changed)
    BY <1>2, <1>4, LeastOf
  <2>2. answer = FarEndAnswer("Detached", changed[Min(G)].after, 0)
    BY <1>4 DEF far_end_row, A, G
  <2> QED BY <1>1, <2>1, <2>2 DEF FarEndAnswer, Answering, Kinds
<1>5. CASE A = {} /\ G = {}
  <2>1. answer \in {CaretMoved(anchor, now, held), Nothing}
    BY <1>5 DEF far_end_row, A, G
  <2>2. Nothing \in Answering
    BY TextOf DEF Nothing, FarEndAnswer, Answering, Kinds
  <2> QED BY <2>1, <2>2, MovedTypes
<1> QED BY <1>3, <1>4, <1>5

LEMMA AnsweredLemma ==
  ASSUME NEW p, Formed(p), NEW a \in Answering, NEW q, q = Answered(p, a)
  PROVE  AnsweredIs(q, p, a)
<1>1. p.far \in FarEndLines /\ p.field \in [text : Texts, caret : Nat]
      /\ a.text \in Texts /\ a.caret \in Nat
  BY DEF Formed, Answering
<1>2. CASE a.kind = "Nothing"
  <2>1. q = p
    BY <1>2 DEF Answered
  <2> QED BY <1>1, <1>2, <2>1 DEF Holds, AnsweredIs
<1>3. CASE a.kind = "Caret"
  <2> DEFINE field == [p.field EXCEPT !.caret = a.caret]
  <2>1. field \in [text : Texts, caret : Nat]
    BY <1>1
  <2>2. q = [p EXCEPT !.far = p.far, !.field = field]
    <3>1. q = [p EXCEPT !.field.caret = a.caret]
      BY <1>3 DEF Answered
    <3> QED BY <1>1, <3>1 DEF NewPump, Formed
  <2> HIDE DEF field
  <2>3. Holds(q, p, p.far, field)
    BY <1>1, <2>1, <2>2, HoldsIs
  <2> QED BY <1>3, <2>3 DEF AnsweredIs, field
<1>4. CASE a.kind \notin {"Nothing", "Caret"}
  <2> DEFINE field == [text |-> a.text, caret |-> a.caret]
             far   == [p.far EXCEPT !.held = a.text]
  <2>1. field \in [text : Texts, caret : Nat] /\ far \in FarEndLines
    BY <1>1 DEF FarEndLines
  <2>2. q = [p EXCEPT !.far = far, !.field = field]
    <3>1. q = far_end_line(p, a.text, a.caret)
      BY <1>4 DEF Answered
    <3> QED BY <1>1, <3>1 DEF far_end_line, NewPump, Formed, FarEndLines
  <2> HIDE DEF field, far
  <2>3. Holds(q, p, far, field)
    BY <2>1, <2>2, HoldsIs
  <2> QED BY <1>4, <2>3 DEF AnsweredIs, field, far
<1> QED BY <1>2, <1>3, <1>4

LEMMA TakenTypes ==
  ASSUME NEW far \in FarEndLines
  PROVE  /\ Taken(far) \in FarEndLines
         /\ [Taken(far) EXCEPT !.left = NoRow] \in FarEndLines
         /\ [Taken(far) EXCEPT !.left = NoRow, !.awaiting_prompt = FALSE] \in FarEndLines
<1>1. <<>> \in Seq(Change) /\ NoRow \in Places
  BY DEF Places
<1> QED BY <1>1 DEF FarEndLines, Taken

LEMMA SettledIs ==
  ASSUME NEW p, Formed(p), Readable(p), screen \in Screens, p.far.owner = "FarEnd",
         NEW q, q = far_end_settled(p)
  PROVE  \E told : PrintedOut(told, p) /\ Settles(q, told, p)
<1> DEFINE told  == printed(p)
           taken == [told EXCEPT !.far.changed = <<>>, !.far.watching = FALSE]
           moved == follow_cursor(taken)
           answer == far_end_row(p.far.changed, moved.far.anchor, p.far.was, caret, p.far.held)
           c1    == [taken EXCEPT !.far.left = NoRow]
           c2    == [taken EXCEPT !.far.left = NoRow, !.far.awaiting_prompt = FALSE]
           f1    == [Taken(told.far) EXCEPT !.left = NoRow]
           f2    == [Taken(told.far) EXCEPT !.left = NoRow, !.awaiting_prompt = FALSE]
<1>1. PrintedOut(told, p)
  BY PrintedOutIs
<1>2. q = IF ~p.far.watching THEN anchor_here(c1)
          ELSE IF p.far.awaiting_prompt THEN anchor_here(c2)
          ELSE Answered(moved, answer)
  BY DEF far_end_settled
<1> HIDE DEF told
<1>3. Formed(told) /\ told.far \in FarEndLines /\ told.field \in [text : Texts, caret : Nat]
  BY <1>1 DEF PrintedOut, Formed
<1>4. taken = [told EXCEPT !.far = Taken(told.far)]
  BY <1>3 DEF NewPump, Formed, FarEndLines, Taken
<1>5. c1 = [told EXCEPT !.far = f1] /\ c2 = [told EXCEPT !.far = f2]
  BY <1>3 DEF NewPump, Formed, FarEndLines, Taken
<1>6. Taken(told.far) \in FarEndLines /\ f1 \in FarEndLines /\ f2 \in FarEndLines
  BY <1>3, TakenTypes
<1> HIDE DEF taken, c1, c2, f1, f2
<1>7. /\ Holds(taken, told, Taken(told.far), told.field)
      /\ Holds(c1, told, f1, told.field) /\ Holds(c2, told, f2, told.field)
  BY <1>3, <1>4, <1>5, <1>6, HoldsIs
<1>8. ASSUME ~p.far.watching PROVE Settles(q, told, p)
  <2>1. HereIs(q, c1)
    BY <1>2, <1>7, <1>8, AnchorHereIs DEF Holds
  <2> QED BY <1>7, <1>8, <2>1 DEF Settles, AnchorsOn, f1
<1>9. ASSUME p.far.watching, p.far.awaiting_prompt PROVE Settles(q, told, p)
  <2>1. HereIs(q, c2)
    BY <1>2, <1>7, <1>9, AnchorHereIs DEF Holds
  <2> QED BY <1>7, <1>9, <2>1 DEF Settles, AnchorsOn, f2
<1>10. ASSUME p.far.watching, ~p.far.awaiting_prompt PROVE Settles(q, told, p)
  <2>1. Holds(moved, taken, FollowFar(taken), taken.field)
    BY <1>7, FollowIs DEF Holds
  <2>2. /\ p.far.changed \in Seq(Change) /\ p.far.held \in Texts
        /\ moved.far.anchor \in Anchors
    BY <2>1 DEF Formed, FarEndLines, Holds
  <2>3. caret \in Caret
    BY CaretIs
  <2> HIDE DEF moved
  <2>4. answer \in Answering
    BY <2>2, <2>3, AnswerTypes
  <2>5. q = Answered(moved, answer)
    BY <1>2, <1>10 DEF moved
  <2>6. AnsweredIs(q, moved, answer)
    BY <2>1, <2>4, <2>5, AnsweredLemma DEF Holds
  <2>7. Reads(q, told, p)
    BY <1>7, <2>1, <2>4, <2>6 DEF Reads
  <2> QED BY <1>10, <2>7 DEF Settles
<1>11. Settles(q, told, p)
  BY <1>8, <1>9, <1>10
<1> QED BY <1>1, <1>11

LEMMA QuietlyTwice ==
  ASSUME NEW p, NEW q, NEW r, Quietly(q, p), Quietly(r, q) PROVE Quietly(r, p)
BY DEF Quietly

LEMMA HoldsQuietly ==
  ASSUME NEW p, Formed(p), NEW q, NEW far, NEW field, Holds(q, p, far, field),
         far.printed = p.far.printed, far.owner = p.far.owner,
         far.anchor.line \in Fields(p) \cup {NoRow}, far.left \in Fields(p) \cup {NoRow}
  PROVE  Quietly(q, p)
<1>1. Fields(q) = {p.cursor, far.anchor.line, far.left}
  BY DEF Fields, Holds
<1>2. p.cursor \in Fields(p)
  BY DEF Fields
<1> QED BY <1>1, <1>2 DEF Quietly, Holds

LEMMA HereQuietly ==
  ASSUME NEW p, Formed(p), NEW q, HereIs(q, p) PROVE Quietly(q, p)
<1>1. p.far \in FarEndLines
  BY DEF Formed
<1>2. CASE ~screen.visible \/ p.cursor = NoRow
  <2>1. q = p
    BY <1>2 DEF HereIs
  <2> QED BY <2>1 DEF Quietly
<1>3. CASE ~(~screen.visible \/ p.cursor = NoRow)
  <2> DEFINE text == from_column(p.lines[p.cursor].text, caret.column)
             far  == [p.far EXCEPT !.anchor = [line |-> p.cursor, column |-> caret.column],
                                   !.held = text]
             field == [text |-> text, caret |-> 0]
  <2>1. Holds(q, p, far, field)
    BY <1>3 DEF HereIs
  <2>2. far.printed = p.far.printed /\ far.owner = p.far.owner
        /\ far.anchor.line = p.cursor /\ far.left = p.far.left
    BY <1>1 DEF FarEndLines
  <2> HIDE DEF far, field
  <2>3. far.anchor.line \in Fields(p) /\ far.left \in Fields(p)
    BY <2>2 DEF Fields
  <2> QED BY <2>1, <2>2, <2>3, HoldsQuietly
<1> QED BY <1>2, <1>3

LEMMA SettlesQuietly ==
  ASSUME NEW p, Formed(p), NEW told, PrintedOut(told, p), NEW q, Settles(q, told, p)
  PROVE  Quietly(q, told)
<1>1. Formed(told) /\ told.far \in FarEndLines
  BY DEF PrintedOut, Formed
<1>2. Taken(told.far).printed = told.far.printed /\ Taken(told.far).owner = told.far.owner
      /\ Taken(told.far).anchor = told.far.anchor /\ Taken(told.far).left = told.far.left
      /\ DOMAIN Taken(told.far) = DOMAIN told.far
  BY <1>1 DEF Taken, FarEndLines
<1>3. told.far.anchor.line \in Fields(told) /\ told.far.left \in Fields(told)
      /\ told.cursor \in Fields(told)
  BY DEF Fields
<1>4. ASSUME NEW far, AnchorsOn(q, told, far), far.printed = told.far.printed,
             far.owner = told.far.owner, far.anchor = told.far.anchor, far.left = NoRow
      PROVE  Quietly(q, told)
  <2>1. PICK c : Holds(c, told, far, told.field) /\ HereIs(q, c)
    BY <1>4 DEF AnchorsOn
  <2>2. Quietly(c, told)
    BY <1>1, <1>3, <1>4, <2>1, HoldsQuietly
  <2>3. Quietly(q, c)
    BY <2>1, HereQuietly DEF Holds
  <2> QED BY <2>2, <2>3, QuietlyTwice
<1>5. CASE ~p.far.watching
  <2> DEFINE far == [Taken(told.far) EXCEPT !.left = NoRow]
  <2>1. AnchorsOn(q, told, far)
    BY <1>5 DEF Settles
  <2>2. far.printed = told.far.printed /\ far.owner = told.far.owner
        /\ far.anchor = told.far.anchor /\ far.left = NoRow
    BY <1>1, <1>2 DEF FarEndLines
  <2> HIDE DEF far
  <2> QED BY <1>4, <2>1, <2>2
<1>6. CASE p.far.watching /\ p.far.awaiting_prompt
  <2> DEFINE far == [Taken(told.far) EXCEPT !.left = NoRow, !.awaiting_prompt = FALSE]
  <2>1. AnchorsOn(q, told, far)
    BY <1>6 DEF Settles
  <2>2. far.printed = told.far.printed /\ far.owner = told.far.owner
        /\ far.anchor = told.far.anchor /\ far.left = NoRow
    BY <1>1, <1>2 DEF FarEndLines
  <2> HIDE DEF far
  <2> QED BY <1>4, <2>1, <2>2
<1>7. CASE p.far.watching /\ ~p.far.awaiting_prompt
  <2>1. Reads(q, told, p)
    BY <1>7 DEF Settles
  <2>2. PICK taken, moved :
           /\ Holds(taken, told, Taken(told.far), told.field)
           /\ Holds(moved, taken, FollowFar(taken), taken.field)
           /\ AnsweredIs(q, moved, far_end_row(p.far.changed, moved.far.anchor, p.far.was,
                                               caret, p.far.held))
    BY <2>1 DEF Reads
  <2>3. Quietly(taken, told)
    BY <1>1, <1>2, <1>3, <2>2, HoldsQuietly
  <2>4. Formed(taken) /\ taken.far \in FarEndLines
    BY <2>2 DEF Holds, Formed
  <2>5. Quietly(moved, taken)
    <3> DEFINE far == FollowFar(taken)
    <3>1. far.printed = taken.far.printed /\ far.owner = taken.far.owner
          /\ far.anchor.line \in {taken.far.anchor.line, taken.cursor}
          /\ far.left = taken.far.left
      <4>1. far = taken.far \/ \E k : far = [taken.far EXCEPT !.anchor =
                                                [line |-> taken.cursor, column |-> k]]
        BY DEF FollowFar
      <4> QED BY <2>4, <4>1 DEF FarEndLines
    <3>2. Holds(moved, taken, far, taken.field)
      BY <2>2
    <3> HIDE DEF far
    <3>3. far.anchor.line \in Fields(taken) /\ far.left \in Fields(taken)
      BY <3>1 DEF Fields
    <3> QED BY <2>4, <3>1, <3>2, <3>3, HoldsQuietly
  <2>6. Formed(moved) /\ moved.far \in FarEndLines
    BY <2>2 DEF Holds, Formed
  <2>7. Quietly(q, moved)
    <3> DEFINE a == far_end_row(p.far.changed, moved.far.anchor, p.far.was, caret, p.far.held)
               far == IF a.kind \in {"Nothing", "Caret"} THEN moved.far
                      ELSE [moved.far EXCEPT !.held = a.text]
    <3>1. far.printed = moved.far.printed /\ far.owner = moved.far.owner
          /\ far.anchor = moved.far.anchor /\ far.left = moved.far.left
      BY <2>6 DEF FarEndLines
    <3>2. \E field : Holds(q, moved, far, field)
      BY <2>2 DEF AnsweredIs
    <3> HIDE DEF far
    <3>3. far.anchor.line \in Fields(moved) /\ far.left \in Fields(moved)
      BY <3>1 DEF Fields
    <3> QED BY <2>6, <3>1, <3>2, <3>3, HoldsQuietly
  <2> QED BY <2>3, <2>5, <2>7, QuietlyTwice
<1> QED BY <1>5, <1>6, <1>7

LEMMA SettledRests ==
  ASSUME NEW p, Formed(p), Readable(p), screen \in Screens, p.far.owner = "FarEnd",
         NEW q, q = far_end_settled(p)
  PROVE  Rested(q, p)
<1>1. PICK told : PrintedOut(told, p) /\ Settles(q, told, p)
  BY SettledIs
<1>2. Quietly(q, told)
  BY <1>1, SettlesQuietly
<1>3. told.far.printed = <<>> /\ told.far.owner = p.far.owner /\ Fields(told) = Fields(p)
  <2>1. p.far \in FarEndLines /\ told.far = [p.far EXCEPT !.printed = <<>>]
        /\ told.cursor = p.cursor
    BY <1>1 DEF Formed, PrintedOut
  <2> QED BY <2>1 DEF FarEndLines, Fields
<1>4. Formed(q) /\ q.far.printed = <<>> /\ q.far.owner = p.far.owner
      /\ Fields(q) \subseteq Fields(p) \cup {NoRow}
  BY <1>2, <1>3 DEF Quietly
<1>5. /\ q.integration = p.integration /\ q.cursor = p.cursor
      /\ \A row \in Rows : q.lines[row].text = p.lines[row].text
      /\ Headings(q) = Headings(p) /\ Results(q) = Results(told) /\ Readable(q)
  BY <1>1, <1>2 DEF PrintedOut, Quietly, Readable
<1> QED BY <1>1, <1>4, <1>5 DEF Rested, PrintedOut

-----------------------------------------------------------------------------
(* The other steps of the pump.                                            *)
LEMMA TurnKeeps ==
  ASSUME Ordered, NEW q, Becomes(q), Formed(q), Readable(q), IsSeq(Headings(q)),
         q.integration = pump.integration, Elsewhere(q, shell),
         Unwritten(q, Results(q), shell),
         \A x \in shell.printed : Delivered(x, Results(q), reads, q.far.printed),
         UNCHANGED <<tracker, screen, reads, shell>>,
         keys' \in Seq(Keys \cup {"Paste"}), settled' \in BOOLEAN,
         tracker.region = "Unstructured" => q.far.owner = "Local",
         InTurn(tracker, pump, reads)'
  PROVE  Ordered'
<1>1. /\ pump' = [q EXCEPT !.told = <<>>, !.running = NewFlag] /\ headings' = Headings(q) /\ transcript' = Results(q)
  BY DEF Becomes, Headings, Results
<1>2. /\ Formed(pump') /\ pump'.told = <<>> /\ pump'.far = q.far /\ pump'.lines = q.lines
      /\ pump'.cursor = q.cursor /\ pump'.integration = q.integration
  BY <1>1, ToldIs
<1>3. IsSeq(headings') /\ transcript' \in [Rows -> Texts]
  BY <1>1 DEF Readable
<1>4. Tracked(tracker, pump)'
  <2>1. tracker \in Tracker /\ Tracked(tracker, pump)
    BY DEF Ordered, Tracked
  <2> QED BY <1>2, <2>1 DEF Tracked
<1>5. Unwritten(pump, transcript, shell)'
  BY <1>1, <1>2 DEF Unwritten
<1>6. Elsewhere(pump, shell)'
  BY <1>2 DEF Elsewhere, Fields
<1>7. (\A x \in shell.printed : Delivered(x, transcript, reads, pump.far.printed))'
  BY <1>1, <1>2
<1>8. Chained(tracker, reads, shell)' /\ Numbered(shell)' /\ (shell \in Shells)'
      /\ (shell.cursor <= Len(shell.line))' /\ (screen \in Screens)' /\ IsSeq(reads)'
  BY DEF Ordered
<1> QED BY <1>2, <1>3, <1>4, <1>5, <1>6, <1>7, <1>8 DEF Ordered

\* A step that publishes nothing keeps what was known of the rows.
LEMMA ElsewhereQuietly ==
  ASSUME NEW p, NEW q, NEW sh, Elsewhere(p, sh),
         Fields(q) \subseteq Fields(p) \cup {NoRow},
         \A row \in Rows : Of(q.far.printed, row) \subseteq Of(p.far.printed, row)
  PROVE  Elsewhere(q, sh)
BY DEF Elsewhere

LEMMA QuietKeeps ==
  ASSUME NEW p, p = pump, Ordered, NEW q, Formed(q),
         \A row \in Rows : q.lines[row].text = p.lines[row].text,
         Results(q) = Results(p), q.far.printed = p.far.printed,
         Fields(q) \subseteq Fields(p) \cup {NoRow}
  PROVE  /\ Readable(q) /\ Elsewhere(q, shell) /\ Unwritten(q, Results(q), shell)
         /\ \A x \in shell.printed : Delivered(x, Results(q), reads, q.far.printed)
         /\ Headings(p) = headings /\ Results(q) = transcript
<1>1. Results(p) = transcript /\ Headings(p) = headings
  BY ResultsNow DEF Ordered
<1>2. Readable(q)
  BY <1>1 DEF Readable, Ordered
<1>3. Elsewhere(q, shell)
  BY ElsewhereQuietly DEF Ordered
<1>4. Unwritten(q, Results(q), shell)
  BY <1>1 DEF Unwritten, Ordered
<1>5. \A x \in shell.printed : Delivered(x, Results(q), reads, q.far.printed)
  BY <1>1 DEF Ordered
<1> QED BY <1>1, <1>2, <1>3, <1>4, <1>5

LEMMA KeysMore ==
  ASSUME NEW S, NEW s \in Seq(S), NEW x \in S PROVE Append(s, x) \in Seq(S)
OBVIOUS

LEMMA HeadingMore ==
  ASSUME NEW s, IsSeq(s), NEW x PROVE IsSeq(Append(s, x))
BY AppendIsSeq

LEMMA PressKeeps ==
  ASSUME Ordered, NEW key \in Keys, Press(key) PROVE Ordered'
<1> DEFINE q == far_end_key(pump, key)
<1>1. Formed(pump) /\ screen \in Screens /\ keys \in Seq(Keys \cup {"Paste"})
      /\ settled \in BOOLEAN /\ InTurn(tracker, pump, reads) /\ IsSeq(headings)
  BY DEF Ordered
<1>2. KeyIs(q, pump, key)
  BY <1>1, FarEndKeyIs
<1>3. /\ Becomes(q) /\ pump.far.owner = "FarEnd" /\ keys' = Append(keys, key)
      /\ UNCHANGED <<tracker, screen, settled, reads, shell>>
  BY DEF Press
<1> HIDE DEF q
<1>4. pump.far \in FarEndLines
  BY <1>1 DEF Formed
<1>5. q.far.printed = pump.far.printed /\ q.far.owner = "FarEnd"
      /\ q.far.anchor.line \in Fields(pump) \cup {NoRow} /\ q.far.left \in Fields(pump) \cup {NoRow}
  BY <1>2, <1>3, <1>4 DEF KeyIs, KeyFar, AwaitFar, FarEndLines, Fields, NoAnchor
<1>6. Fields(q) \subseteq Fields(pump) \cup {NoRow}
  BY <1>2, <1>5 DEF KeyIs, Fields
<1>7. /\ Readable(q) /\ Elsewhere(q, shell) /\ Unwritten(q, Results(q), shell)
      /\ \A x \in shell.printed : Delivered(x, Results(q), reads, q.far.printed)
      /\ Headings(pump) = headings
  BY <1>2, <1>5, <1>6, QuietKeeps DEF KeyIs
<1>8. IsSeq(Headings(q))
  BY <1>1, <1>2, <1>7, HeadingMore DEF KeyIs
<1>9. keys' \in Seq(Keys \cup {"Paste"})
  BY <1>1, <1>3, KeysMore
<1>10. tracker.region # "Unstructured"
  BY <1>3 DEF Ordered, Tracked
<1>11. pump'.far = q.far
  BY <1>2, <1>3, ToldIs DEF Becomes, KeyIs
<1>12. InTurn(tracker, pump, reads)'
  BY <1>1, <1>3, <1>5, <1>11 DEF InTurn
<1> QED BY <1>1, <1>2, <1>3, <1>7, <1>8, <1>9, <1>10, <1>12, TurnKeeps DEF KeyIs

LEMMA PasteKeeps == ASSUME Ordered, paste PROVE Ordered'
<1>1. /\ keys' = Append(keys, "Paste") /\ pump.far.owner = "FarEnd"
      /\ UNCHANGED <<tracker, pump, screen, settled, reads, shell, headings, transcript>>
  BY DEF paste
<1>2. keys' \in Seq(Keys \cup {"Paste"})
  BY <1>1, KeysMore DEF Ordered
<1>3. InTurn(tracker, pump, reads)'
  BY <1>1 DEF Ordered, InTurn
<1>4. Formed(pump)' /\ (pump.told = <<>>)' /\ IsSeq(headings)'
      /\ (transcript \in [Rows -> Texts])' /\ IsSeq(reads)' /\ (screen \in Screens)'
      /\ (settled \in BOOLEAN)' /\ (shell \in Shells)' /\ (shell.cursor <= Len(shell.line))'
      /\ Numbered(shell)' /\ Tracked(tracker, pump)'
  BY <1>1 DEF Ordered
<1>5. Chained(tracker, reads, shell)' /\ Unwritten(pump, transcript, shell)'
      /\ (\A x \in shell.printed : Delivered(x, transcript, reads, pump.far.printed))'
      /\ Elsewhere(pump, shell)'
  BY <1>1 DEF Ordered
<1> QED BY <1>2, <1>3, <1>4, <1>5 DEF Ordered

\* The line changes hands once all is quiet.
LEMMA ToggleKeeps == ASSUME Ordered, Toggle PROVE Ordered'
<1> DEFINE owner == IF pump.far.owner = "Local" THEN "FarEnd" ELSE "Local"
           q     == line_owner(pump, owner)
<1>1. Formed(pump) /\ screen \in Screens /\ keys \in Seq(Keys \cup {"Paste"})
      /\ settled \in BOOLEAN /\ InTurn(tracker, pump, reads) /\ IsSeq(headings)
  BY DEF Ordered
<1>2. OwnerIs(q, pump, owner)
  BY <1>1, LineOwnerIs
<1>3. /\ Becomes(q) /\ shell.phase = "prompt" /\ Quiet
      /\ UNCHANGED <<tracker, screen, settled, keys, reads, shell>>
  BY DEF Toggle
<1> HIDE DEF q
<1>4. pump.far \in FarEndLines /\ pump.far.printed = <<>>
  BY <1>1, <1>3 DEF Formed, InTurn, Quiet
<1>5. /\ NewFarEndLine.printed = <<>> /\ NewFarEndLine.left = NoRow
      /\ NewFarEndLine.anchor = NoAnchor
  BY DEF NewFarEndLine
<1>7. /\ Formed(q) /\ q.far.printed = <<>> /\ q.far.owner = owner
      /\ Results(q) = Results(pump) /\ Headings(q) = Headings(pump)
      /\ q.integration = pump.integration /\ q.cursor = pump.cursor
      /\ \A row \in Rows : q.lines[row].text = pump.lines[row].text
      /\ Fields(q) \subseteq Fields(pump) \cup {NoRow}
  <2>1. CASE owner = "FarEnd"
    <3>1. PICK c : Holds(c, pump, Cleared(pump, owner), pump.field) /\ HereIs(q, c)
      BY <1>2, <2>1 DEF OwnerIs
    <3>2. Quietly(q, c)
      BY <3>1, HereQuietly DEF Holds
    <3>3. c.far.printed = <<>> /\ c.far.owner = owner /\ c.far.anchor = pump.far.anchor
          /\ c.far.left = NoRow
      BY <1>5, <3>1, NewFields DEF Holds, Cleared
    <3>4. Fields(c) \subseteq Fields(pump) \cup {NoRow}
      BY <3>1, <3>3 DEF Fields, Holds
    <3> QED BY <3>1, <3>2, <3>3, <3>4 DEF Quietly, Holds
  <2>2. CASE owner = "Local"
    <3>1. Holds(q, pump, Freed(pump), pump.field)
      BY <1>2, <2>2 DEF OwnerIs
    <3>2. q.far.printed = <<>> /\ q.far.owner = owner /\ q.far.anchor = NoAnchor
          /\ q.far.left = NoRow
      BY <1>5, <2>2, <3>1, NewFields DEF Holds, Freed
    <3>3. Fields(q) \subseteq Fields(pump) \cup {NoRow}
      BY <3>1, <3>2, NoAnchorLine DEF Fields, Holds
    <3> QED BY <3>1, <3>2, <3>3 DEF Holds
  <2> QED BY <2>1, <2>2
<1>8. /\ Readable(q) /\ Elsewhere(q, shell) /\ Unwritten(q, Results(q), shell)
      /\ \A x \in shell.printed : Delivered(x, Results(q), reads, q.far.printed)
      /\ Headings(pump) = headings
  BY <1>4, <1>7, QuietKeeps
<1>9. tracker.region # "Unstructured"
  <2>1. Chained(tracker, reads, shell) /\ Len(reads) = 0
    BY <1>3 DEF Ordered, Quiet
  <2> QED BY <1>3, <2>1 DEF Chained, RegionAfter, RegionOf
<1>10. pump'.far = q.far
  BY <1>3, <1>7, ToldIs DEF Becomes
<1>11. InTurn(tracker, pump, reads)'
  BY <1>3, <1>7, <1>10 DEF InTurn, Quiet
<1> QED BY <1>1, <1>3, <1>7, <1>8, <1>9, <1>11, TurnKeeps

LEMMA SettleKeeps == ASSUME Ordered, Settle PROVE Ordered'
<1> DEFINE q == far_end_settled(pump)
           s == pump.far.printed
<1>1. Formed(pump) /\ screen \in Screens /\ keys \in Seq(Keys \cup {"Paste"})
      /\ InTurn(tracker, pump, reads) /\ IsSeq(headings) /\ Elsewhere(pump, shell)
      /\ shell \in Shells /\ Numbered(shell)
  BY DEF Ordered
<1>2. /\ Becomes(q) /\ settled /\ settled' = FALSE
      /\ UNCHANGED <<tracker, screen, keys, reads, shell>>
  BY DEF Settle
<1>3. pump.far.owner = "FarEnd"
  BY <1>1, <1>2 DEF InTurn, Formed, FarEndLines
<1>4. Results(pump) = transcript /\ Headings(pump) = headings /\ Readable(pump)
  BY ResultsNow DEF Ordered, Readable
<1>5. Rested(q, pump)
  BY <1>1, <1>3, <1>4, SettledRests
<1> HIDE DEF q, s
<1>6. ASSUME NEW row \in Rows, Of(s, row) = {}
      PROVE  Results(q)[row] = transcript[row]
  BY <1>4, <1>5, <1>6 DEF Rested, s
<1>7. Unwritten(q, Results(q), shell)
  <2>1. ASSUME NEW row \in Rows, row >= shell.next PROVE Of(s, row) = {}
    <3>1. row \notin shell.rows
      <4>1. ASSUME row \in shell.rows PROVE FALSE
        <5>1. row \in Nat /\ row < shell.next /\ shell.next \in Nat
          BY <1>1, <4>1, RowIsLess
        <5> QED BY <2>1, <5>1
      <4> QED BY <4>1
    <3>2. ASSUME [row |-> row, text |-> Listing] \in shell.printed PROVE FALSE
      <4> DEFINE x == [row |-> row, text |-> Listing]
      <4>1. x.row = row /\ x \in shell.printed
        BY <3>2
      <4>2. x.row < shell.next /\ shell.next \in Nat
        BY <1>1, <4>1, ShellIs
      <4>3. row \in Nat
        BY RowsAssumption
      <4> HIDE DEF x
      <4> QED BY <2>1, <4>1, <4>2, <4>3
    <3> QED BY <1>1, <3>1, <3>2 DEF Elsewhere, s
  <2>2. Unwritten(pump, transcript, shell)
    BY DEF Ordered
  <2> QED BY <1>5, <1>6, <2>1, <2>2 DEF Unwritten, Rested
<1>8. \A row : Of(q.far.printed, row) = {}
  BY <1>5, OfNone DEF Rested
<1>9. Elsewhere(q, shell)
  BY <1>1, <1>5, <1>8, ElsewhereQuietly DEF Rested
<1>10. ASSUME NEW x \in shell.printed
       PROVE  Delivered(x, Results(q), reads, q.far.printed)
  <2>1. Delivered(x, transcript, reads, s)
    BY DEF Ordered, s
  <2>2. x.row \in Rows /\ x.row \notin shell.rows
    BY <1>1, ShellIs DEF Numbered
  <2>3. CASE Of(s, x.row) = {}
    BY <1>6, <1>8, <2>1, <2>2, <2>3 DEF Delivered
  <2>4. CASE Of(s, x.row) # {}
    <3>1. /\ ~Coming(x.row, reads) /\ x.text = Listing /\ Only(s, x.row, Listing)
          /\ transcript[x.row] = <<>>
      BY <2>1, <2>4 DEF Delivered
    <3>2. x.row \notin Fields(pump)
      <4> SUFFICES ASSUME x.row \in Fields(pump) PROVE FALSE
        OBVIOUS
      <4>1. x.row # NoRow
        BY <2>2, RowsAssumption
      <4> DEFINE y == [row |-> x.row, text |-> Printout]
      <4>2. y \in shell.printed
        BY <1>1, <2>2, <4>1 DEF Elsewhere
      <4>3. y.row = x.row /\ y.text = Printout
        OBVIOUS
      <4> HIDE DEF y
      <4>4. x = y
        BY <1>1, <4>2, <4>3 DEF Numbered
      <4> QED BY <3>1, <4>3, <4>4, TextOf
    <3>3. Results(q)[x.row] = <<>> \o Listing
      <4>1. Listing \in Texts \ {<<>>}
        BY TextOf
      <4> QED BY <1>4, <1>5, <2>2, <3>1, <3>2, <4>1 DEF Rested, s
    <3>4. <<>> \o Listing = Listing
      BY TextOf DEF Texts
    <3>5. Of(q.far.printed, x.row) = {}
      BY <1>8
    <3> QED BY <2>1, <3>1, <3>3, <3>4, <3>5 DEF Delivered
  <2> QED BY <2>3, <2>4
<1>11. pump'.far = q.far
  BY <1>2, <1>5, ToldIs DEF Becomes, Rested
<1>12. InTurn(tracker, pump, reads)'
  BY <1>2, <1>3, <1>5, <1>11 DEF InTurn, Rested
<1>13. tracker.region # "Unstructured"
  BY <1>3 DEF Ordered, Tracked
<1> QED BY <1>1, <1>2, <1>4, <1>5, <1>7, <1>9, <1>10, <1>12, <1>13, TurnKeeps DEF Rested

-----------------------------------------------------------------------------
(* In every state.                                                         *)
LEMMA StartsFormed ==
  ASSUME NEW p, p = NewFarEndPump
  PROVE  /\ Formed(p) /\ p.told = <<>> /\ p.far = NewFarEndLine /\ p.field = NewField
         /\ p.cursor = NoRow /\ p.lines = [row \in Rows |-> UnseenRow]
         /\ p.integration = "Pending" /\ p.echo = NewEcho /\ p.open = NoCommand
<1> DEFINE n == NewPump(<<>>)
<1>1. /\ DOMAIN n = {"nextId", "running", "integration", "drawing", "standing", "setup",
                     "selfTalk", "submitted", "echo", "open", "interrupted", "unshown",
                     "lines", "held", "row", "cursor", "pendingRow", "actor", "told"}
      /\ n.nextId = 1 /\ n.open = NoCommand /\ n.unshown = FALSE /\ n.submitted = <<>>
      /\ n.held = NoHeld /\ n.selfTalk = NoCommand /\ n.integration = "Pending"
      /\ n.echo = NewEcho /\ n.lines = [row \in Rows |-> UnseenRow] /\ n.cursor = NoRow
      /\ n.told = <<>>
  BY DEF NewPump
<1>3. p = [f \in DOMAIN n \cup {"far", "field"} |->
             CASE f = "far" -> NewFarEndLine [] f = "field" -> NewField [] OTHER -> n[f]]
  BY DEF NewFarEndPump
<1> HIDE DEF n
<1>4. /\ DOMAIN p = DOMAIN n \cup {"far", "field"}
      /\ p.nextId = 1 /\ p.open = NoCommand /\ p.unshown = FALSE /\ p.submitted = <<>>
      /\ p.held = NoHeld /\ p.selfTalk = NoCommand /\ p.integration = "Pending"
      /\ p.echo = NewEcho /\ p.lines = [row \in Rows |-> UnseenRow] /\ p.cursor = NoRow
      /\ p.told = <<>> /\ p.far = NewFarEndLine /\ p.field = NewField
  BY <1>1, <1>3
<1>5. p.echo \in [prompt : Texts, text : Texts \cup {NoText}]
  BY <1>4, TextOf DEF NewEcho
<1>6. p.lines \in [Rows -> Recording]
  <2>1. UnseenRow \in Recording
    BY TextOf DEF UnseenRow, Recording, NoCommand
  <2> QED BY <1>4, <2>1
<1>7. p.far \in FarEndLines
  <2>1. NewFarEndLine.owner = "Local"
    BY DEF NewFarEndLine
  <2>2. NewFarEndLine = [NewFarEndLine EXCEPT !.owner = "Local", !.anchor = NoAnchor]
    BY <2>1, NewFields
  <2>3. [NewFarEndLine EXCEPT !.owner = "Local", !.anchor = NoAnchor] \in FarEndLines
    BY NewFarEndIs, NoAnchorLine
  <2>4. NewFarEndLine \in FarEndLines
    BY <2>2, <2>3
  <2> QED BY <1>4, <2>4
<1>8. p.field \in [text : Texts, caret : Nat]
  BY <1>4, TextOf DEF NewField
<1>9. p.cursor \in Places /\ p.nextId \in Nat \ {0} /\ p.open \in Nat
  BY <1>4 DEF Places, NoCommand
<1>10. p.unshown \in BOOLEAN /\ ~p.unshown
  BY <1>4
<1>11. Formed(p)
  BY <1>4, <1>5, <1>6, <1>7, <1>8, <1>9, <1>10, NilIsSeq DEF Formed, n
<1> QED BY <1>4, <1>11

LEMMA InitOrdered == ASSUME Init PROVE Ordered
<1>1. Formed(pump) /\ pump.told = <<>> /\ pump.far = NewFarEndLine
      /\ pump.cursor = NoRow /\ pump.lines = [row \in Rows |-> UnseenRow]
  BY StartsFormed DEF Init
<1>2. First \in Rows /\ First \in Nat
  <2>1. Rows \in SUBSET Nat /\ Rows # {}
    BY RowsAssumption, RowsFollow
  <2> QED BY <2>1, LeastOf DEF First
<1> DEFINE r == PromptOn(First, <<>>)
           none == <<>>
<1>3. reads = <<r>> /\ Len(reads) = 1 /\ reads[1] = r /\ IsSeq(reads)
  BY TuplesAreSeqs DEF Init
<1>4. /\ shell = [phase |-> "prompt", row |-> First, line |-> <<>>, cursor |-> 0,
                  next |-> First + 1, rows |-> {First}, printed |-> {}]
      /\ tracker = NewTracker /\ settled = FALSE /\ keys = <<>> /\ headings = <<>>
      /\ transcript = [row \in Rows |-> <<>>]
      /\ screen = [row |-> First, column |-> 0, visible |-> TRUE]
  BY DEF Init
<1>5. NewFarEndLine.owner = "Local" /\ NewFarEndLine.printed = <<>>
      /\ NewFarEndLine.left = NoRow /\ NewFarEndLine.anchor.line = NoRow
  BY DEF NewFarEndLine, NoAnchor
<1>6. Shells # {} /\ shell \in Shells /\ shell.cursor <= Len(shell.line)
  <2>1. none \in Seq(Typed) /\ Len(none) = 0
    OBVIOUS
  <2>2. First + 1 \in Nat /\ {First} \in SUBSET Rows
    BY <1>2
  <2>3. shell.line = none /\ shell.cursor = 0
    BY <1>4
  <2>4. shell \in Shells
    BY <1>2, <1>4, <2>1, <2>2 DEF Shells
  <2> HIDE DEF none
  <2> QED BY <2>1, <2>3, <2>4
<1>7. Numbered(shell)
  BY <1>2, <1>4 DEF Numbered
<1>8. Tracked(tracker, pump)
  BY <1>1, <1>4, <1>5 DEF Tracked, NewTracker, Tracker, Regions, NoRow
<1>9. r.items = PromptOn(First, <<>>).items /\ r.at = [row |-> First, column |-> Len(Prompt),
                                                       visible |-> TRUE]
  BY DEF PromptOn, Read
<1>10. r.at \in Screens /\ r.at.row = First /\ Len(r.items) = 3
  <2>1. Len(Prompt) = 1
    BY PromptIs
  <2>2. r.at = [row |-> First, column |-> 1, visible |-> TRUE]
    BY <1>9, <2>1
  <2>3. Len(PromptOn(First, <<>>).items) = 3
    BY ReadsAre
  <2>4. Len(r.items) = 3
    BY <1>9, <2>3
  <2>5. ASSUME NEW at, at = [row |-> First, column |-> 1, visible |-> TRUE]
        PROVE  at \in Screens /\ at.row = First
    <3>1. 1 \in Nat /\ TRUE \in BOOLEAN
      OBVIOUS
    <3> QED BY <1>2, <2>5, <3>1 DEF Screens
  <2> QED BY <2>2, <2>4, <2>5
<1> HIDE DEF r
<1>11. Chained(tracker, reads, shell)
  <2>1. tracker.region = "Unstructured" /\ shell.rows = {First} /\ shell.phase = "prompt"
    BY <1>4 DEF NewTracker
  <2>2. Fits(r, "Unstructured", shell)
    BY <1>9, <1>10, <2>1 DEF Fits, FirstAt
  <2>3. Ends(r) = "CommandLine"
    BY <1>10 DEF Ends
  <2>4. ASSUME NEW i \in 1..Len(reads) PROVE Fits(reads[i], RegionAfter(i - 1, tracker, reads), shell)
    <3>1. i = 1 /\ i - 1 = 0
      BY <1>3
    <3> QED BY <1>3, <2>1, <2>2, <3>1 DEF RegionAfter
  <2> QED BY <1>3, <2>1, <2>3, <2>4 DEF Chained, RegionAfter, RegionOf
<1>12. Unwritten(pump, transcript, shell)
  BY <1>1, <1>4 DEF Unwritten, UnseenRow
<1>13. \A x \in shell.printed : Delivered(x, transcript, reads, pump.far.printed)
  BY <1>4
<1>14. Elsewhere(pump, shell)
  BY <1>1, <1>5, OfNone DEF Elsewhere, Fields
<1>15. InTurn(tracker, pump, reads)
  BY <1>1, <1>3, <1>4, <1>5 DEF InTurn, NewTracker
<1>16. IsSeq(headings) /\ transcript \in [Rows -> Texts] /\ keys \in Seq(Keys \cup {"Paste"})
       /\ settled \in BOOLEAN
  <2>1. IsSeq(headings)
    BY <1>4, NilIsSeq
  <2>2. transcript \in [Rows -> Texts]
    <3>1. none \in Texts
      BY TextOf
    <3> HIDE DEF none
    <3>2. transcript = [row \in Rows |-> none]
      BY <1>4 DEF none
    <3> QED BY <3>1, <3>2
  <2>3. keys \in Seq(Keys \cup {"Paste"})
    BY <1>4
  <2>4. settled \in BOOLEAN
    BY <1>4
  <2> QED BY <2>1, <2>2, <2>3, <2>4
<1>17. screen \in Screens
  BY <1>2, <1>4 DEF Screens
<1> QED BY <1>1, <1>3, <1>6, <1>7, <1>8, <1>11, <1>12, <1>13, <1>14, <1>15, <1>16, <1>17
        DEF Ordered

LEMMA OrderedStays == ASSUME marks_output_start, Ordered, [Next]_vars PROVE Ordered'
<1>1. CASE UNCHANGED vars
  <2>1. /\ pump' = pump /\ headings' = headings /\ transcript' = transcript /\ keys' = keys
        /\ reads' = reads /\ screen' = screen /\ settled' = settled /\ shell' = shell
        /\ tracker' = tracker
    BY <1>1 DEF vars
  <2>2. InTurn(tracker, pump, reads)'
    BY <2>1 DEF Ordered, InTurn
  <2>3. Formed(pump)' /\ (pump.told = <<>>)' /\ IsSeq(headings)'
        /\ (transcript \in [Rows -> Texts])' /\ (keys \in Seq(Keys \cup {"Paste"}))'
        /\ IsSeq(reads)' /\ (screen \in Screens)'
        /\ (settled \in BOOLEAN)' /\ (shell \in Shells)' /\ (shell.cursor <= Len(shell.line))'
        /\ Numbered(shell)' /\ Tracked(tracker, pump)'
    BY <2>1 DEF Ordered
  <2>4. Chained(tracker, reads, shell)' /\ Unwritten(pump, transcript, shell)'
        /\ (\A x \in shell.printed : Delivered(x, transcript, reads, pump.far.printed))'
        /\ Elsewhere(pump, shell)'
    BY <2>1 DEF Ordered
  <2> QED BY <2>2, <2>3, <2>4 DEF Ordered
<1>2. CASE Next
  <2>1. ASSUME NEW key \in Keys, Press(key) PROVE Ordered'
    BY <2>1, PressKeeps
  <2>2. CASE paste
    BY <2>2, PasteKeeps
  <2>3. CASE Toggle
    BY <2>3, ToggleKeeps
  <2>4. CASE Take
    BY <2>4, TakeKeeps
  <2>5. CASE Finish
    BY <2>5, FinishKeeps
  <2>6. CASE Receive
    BY <2>6, ReceiveKeeps
  <2>7. CASE Settle
    BY <2>7, SettleKeeps
  <2> QED BY <1>2, <2>1, <2>2, <2>3, <2>4, <2>5, <2>6, <2>7 DEF Next
<1> QED BY <1>1, <1>2

LEMMA OrderedPrints == ASSUME Ordered PROVE PrintedRowsReachTheTranscript
<1> SUFFICES ASSUME AtRest, NEW x \in shell.printed PROVE transcript[x.row] = x.text
  BY DEF PrintedRowsReachTheTranscript
<1>1. reads = <<>> /\ pump.far.printed = <<>>
  BY DEF AtRest, Quiet, Ordered, InTurn
<1>2. Delivered(x, transcript, reads, pump.far.printed)
  BY DEF Ordered
<1>3. Of(pump.far.printed, x.row) = {}
  BY <1>1, OfNone
<1>4. ~Coming(x.row, reads)
  <2>1. Len(reads) = 0
    BY <1>1
  <2> QED BY <2>1 DEF Coming
<1> QED BY <1>2, <1>3, <1>4 DEF Delivered

\* In every state of the pump, the shell and the reads between them each row that the
\* shell printed is in the results, in the pump's hands or on its way, once; and the
\* pump's fields have their types (feedFarEnd, printed).
THEOREM FarEndIsOrdered == ASSUME marks_output_start PROVE Spec => []Ordered
<1>1. Init => Ordered
  BY InitOrdered
<1>2. Ordered /\ [Next]_vars => Ordered'
  BY OrderedStays
<1> QED BY <1>1, <1>2, PTL DEF Spec

\* At rest all that the far end printed besides the line is in the results, whatever
\* the user pressed or pasted, and however fast (printed, called by far_end_settled).
THEOREM PrintedRowsAreKept ==
  ASSUME marks_output_start PROVE Spec => []PrintedRowsReachTheTranscript
<1>1. Spec => []Ordered
  BY FarEndIsOrdered
<1>2. Ordered => PrintedRowsReachTheTranscript
  BY OrderedPrints
<1> QED BY <1>1, <1>2, PTL

-----------------------------------------------------------------------------
(* The line and its texts.                                                 *)
\* The line that is typed, trimmed.
LEMMA TypedTrims ==
  ASSUME NEW t \in Seq(Typed)
  PROVE  /\ trim(t) \in Seq(Typed) /\ t \in Texts /\ trim(trim_end(t)) = trim(t)
         /\ trim_end(t) = <<>> <=> trim(t) = <<>>
<1>1. trim(t) \in Seq(Typed)
  BY TrimIs
<1>2. t \in Texts
  BY TypedTexts
<1> QED BY <1>1, <1>2, TextsTrimBoth

\* What an interrupt is echoed as is no ending of what was typed,
LEMMA TypedIsKept ==
  ASSUME NEW t \in Seq(Typed) PROVE ~Dropped(t)
<1>1. Refusal \in Seq(Range(Refusal) \cup Typed) /\ t \in Seq(Range(Refusal) \cup Typed)
      /\ Len(Refusal) = 1 /\ Refusal[1] \in Range(Refusal)
  BY DEF Refusal, Range
<1>2. SUFFICES ASSUME IsSuffix(Refusal, t) PROVE FALSE
  BY DEF Dropped
<1>3. Len(Refusal) <= Len(t)
      /\ \A i \in 1..Len(Refusal) : Refusal[Len(Refusal) - i + 1] = t[Len(t) - i + 1]
  <2> DEFINE W == Range(Refusal) \cup Typed
  <2>1. Refusal \in Seq(W) /\ t \in Seq(W)
    BY <1>1
  <2> HIDE DEF W
  <2> QED BY <1>2, <2>1, SuffixIs
<1>4. Refusal[1] = t[Len(t)] /\ Len(t) >= 1 /\ Len(t) \in Nat
  BY <1>1, <1>3
<1>5. t[Len(t)] \in Typed
  BY <1>4
<1> QED BY <1>1, <1>4, <1>5, RefusalAssumption

\* and it is one of what it was echoed behind.
LEMMA EchoIsDropped ==
  ASSUME NEW t \in Texts PROVE Dropped(t \o Refusal)
<1> DEFINE n == Len(t)
           l == t \o Refusal
<1>1. Refusal \in Texts /\ Len(Refusal) = 1
  BY TextOf DEF Refusal
<1>2. /\ l \in Texts /\ Len(l) = n + 1 /\ n \in Nat
      /\ \A i \in 1..(n + 1) : l[i] = IF i <= n THEN t[i] ELSE Refusal[i - n]
  <2>1. Refusal \in Seq(Glyphs) /\ t \in Seq(Glyphs)
    BY <1>1 DEF Texts
  <2>2. /\ l \in Seq(Glyphs) /\ Len(l) = Len(t) + Len(Refusal)
        /\ \A i \in 1..(Len(t) + Len(Refusal)) :
              l[i] = IF i <= Len(t) THEN t[i] ELSE Refusal[i - Len(t)]
    BY <2>1, ConcatProperties
  <2> HIDE DEF l
  <2>3. Len(t) \in Nat
    BY <2>1
  <2> QED BY <1>1, <2>2, <2>3 DEF Texts
<1> HIDE DEF l, n
<1>3. l[n + 1] = Refusal[1]
  BY <1>2
<1>4. \A i \in 1..Len(Refusal) : Refusal[Len(Refusal) - i + 1] = l[Len(l) - i + 1]
  BY <1>1, <1>2, <1>3
<1>5. IsSuffix(Refusal, l)
  <2>1. Refusal \in Seq(Glyphs) /\ l \in Seq(Glyphs) /\ Len(Refusal) <= Len(l)
    BY <1>1, <1>2 DEF Texts
  <2> QED BY <1>4, <2>1, SuffixIs
<1> QED BY <1>5 DEF Dropped, l

\* Two texts that differ in the blanks they end with have their front in common.
LEMMA FrontIsKept ==
  ASSUME NEW s \in Texts, NEW t \in Texts, trim_end(s) = trim_end(t),
         NEW c \in Nat, c <= Len(s), c <= Len(t)
  PROVE  IsPrefix(SubSeq(s, 1, c), t)
<1> DEFINE r == trim_end(s)
           a == SubSeq(s, 1, c)
           b == SubSeq(t, 1, c)
           aa == SubSeq(a, 1, c)
<1>1. r \in Texts /\ TrimmedTo(s, r) /\ TrimmedTo(t, r)
  BY TrimmedIs DEF Texts
<1>2. Len(s) \in Nat /\ Len(t) \in Nat /\ Len(r) \in Nat
  BY <1>1 DEF Texts
<1>3. \A i \in 1..c : s[i] = t[i]
  BY <1>1, <1>2 DEF TrimmedTo
<1>4. c \in 0..Len(s) /\ c \in 0..Len(t)
  BY <1>2
<1>5. /\ a \in Seq(Glyphs) /\ Len(a) = c /\ \A i \in 1..c : a[i] = s[i]
      /\ b \in Seq(Glyphs) /\ Len(b) = c /\ \A i \in 1..c : b[i] = t[i]
  BY <1>4, FrontOf DEF Texts
<1>6. /\ aa \in Seq(Glyphs) /\ Len(aa) = c /\ \A i \in 1..c : aa[i] = a[i]
  <2>1. c \in 0..Len(a)
    BY <1>5
  <2> HIDE DEF a
  <2> QED BY <1>5, <2>1, FrontOf
<1> HIDE DEF a, b, aa
<1>7. aa = b
  BY <1>3, <1>5, <1>6, SeqEqual
<1>8. Len(a) <= Len(t) /\ SubSeq(a, 1, Len(a)) = SubSeq(t, 1, Len(a))
  BY <1>5, <1>7 DEF aa, b
<1> QED BY <1>8 DEF IsPrefix, a

\* What is drawn of a row makes it what it should say.
LEMMA TailAppended ==
  ASSUME NEW b \in Texts, NEW a \in Texts, IsPrefix(b, a), a # b
  PROVE  /\ from_column(a, Len(b)) \in Texts /\ b \o from_column(a, Len(b)) = a
         /\ Len(b) < Len(a)
<1> DEFINE m == Len(b)
           n == Len(a)
           tail == from_column(a, m)
           bb == SubSeq(b, 1, m)
           aa == SubSeq(a, 1, m)
           l == b \o tail
<1>1. m \in Nat /\ n \in Nat /\ m <= n /\ bb = aa
  BY DEF IsPrefix, Texts
<1>2. m \in 0..Len(b) /\ m \in 0..Len(a)
  BY <1>1
<1>3. /\ bb \in Seq(Glyphs) /\ Len(bb) = m /\ \A i \in 1..m : bb[i] = b[i]
      /\ aa \in Seq(Glyphs) /\ Len(aa) = m /\ \A i \in 1..m : aa[i] = a[i]
  BY <1>2, FrontOf DEF Texts
<1>4. \A i \in 1..m : b[i] = a[i]
  BY <1>1, <1>3
<1>5. /\ tail \in Seq(Glyphs) /\ Len(tail) = n - m
      /\ \A i \in 1..(n - m) : tail[i] = a[m + i]
  <2>1. m + 1 \in Nat \ {0} /\ n \in Nat /\ n <= Len(a)
    BY <1>1
  <2>2. /\ SubSeq(a, m + 1, n) \in Seq(Glyphs)
        /\ Len(SubSeq(a, m + 1, n)) = IF m + 1 <= n THEN n - (m + 1) + 1 ELSE 0
        /\ \A i \in 1..(n - (m + 1) + 1) : SubSeq(a, m + 1, n)[i] = a[m + 1 + i - 1]
    BY <2>1, PartOf DEF Texts
  <2>3. tail = SubSeq(a, m + 1, n)
    BY DEF from_column
  <2> HIDE DEF tail, m, n
  <2>4. n - (m + 1) + 1 = n - m /\ \A i \in 1..(n - m) : m + 1 + i - 1 = m + i
    BY <1>1
  <2>5. Len(tail) = n - m
    BY <1>1, <2>2, <2>3
  <2> QED BY <2>2, <2>3, <2>4, <2>5
<1>6. /\ l \in Seq(Glyphs) /\ Len(l) = m + (n - m)
      /\ \A i \in 1..(m + (n - m)) : l[i] = IF i <= m THEN b[i] ELSE tail[i - m]
  <2> HIDE DEF tail
  <2> QED BY <1>5, ConcatProperties DEF Texts
<1> HIDE DEF m, n, tail, l, aa, bb
<1>7. Len(l) = n
  BY <1>1, <1>6
<1>8. \A i \in 1..n : l[i] = a[i]
  <2> SUFFICES ASSUME NEW i \in 1..n PROVE l[i] = a[i]
    OBVIOUS
  <2>1. CASE i <= m
    BY <1>1, <1>4, <1>6, <2>1
  <2>2. CASE ~(i <= m)
    <3>1. i - m \in 1..(n - m) /\ m + (i - m) = i /\ i \in 1..(m + (n - m))
      BY <1>1, <2>2
    <3>2. tail[i - m] = a[m + (i - m)]
      BY <1>5, <3>1
    <3>3. l[i] = tail[i - m]
      BY <1>6, <2>2, <3>1
    <3> QED BY <3>1, <3>2, <3>3
  <2> QED BY <2>1, <2>2
<1>9. l = a
  BY <1>7, <1>8, <1>6, SeqEqual DEF n, Texts
<1>10. m # n
  <2> SUFFICES ASSUME m = n PROVE FALSE
    OBVIOUS
  <2>1. \A i \in 1..n : b[i] = a[i]
    BY <1>4
  <2>2. b = a
    BY <2>1, SeqEqual DEF m, n, Texts
  <2> QED BY <2>2
<1> QED BY <1>1, <1>5, <1>9, <1>10 DEF l, tail, m, n, Texts

LEMMA MovedIs ==
  ASSUME NEW anchor, anchor.column = 1, NEW c \in Nat, NEW now, now.column = c + 1,
         NEW held \in Texts, NEW a, a = CaretMoved(anchor, now, held)
  PROVE  MovedTo(a, held, c)
<1> DEFINE row  == trim_end(held)
           text == IF c >= Len(row) THEN padded(row, c) ELSE held
<1>1. saturating_sub(now.column, anchor.column) = c
  <2>1. 1 \in Nat /\ c + 1 \in Nat /\ c + 1 >= 1 /\ c + 1 - 1 = c
    OBVIOUS
  <2> QED BY <2>1, Saturating
<1>2. a = [kind |-> IF text = held THEN "Caret" ELSE "Row", text |-> text, caret |-> c]
  BY <1>1 DEF CaretMoved, FarEndAnswer
<1>3. row \in Texts /\ Len(row) \in Nat /\ Len(held) \in Nat /\ Len(row) <= Len(held)
  BY TextsTrim
<1>4. text \in Texts /\ trim_end(text) = trim_end(held) /\ c <= Len(text)
  <2>1. CASE c >= Len(row)
    <3>1. padded(row, c) \in Texts /\ Len(padded(row, c)) >= c
      BY <1>3, PaddedIs, PromptIs DEF Texts
    <3>2. trim_end(padded(row, c)) = row
      BY TrimmedPadded, PromptIs DEF Texts
    <3>3. Len(padded(row, c)) \in Nat
      BY <3>1 DEF Texts
    <3> QED BY <2>1, <3>1, <3>2, <3>3
  <2>2. CASE ~(c >= Len(row))
    BY <1>3, <2>2
  <2> QED BY <2>1, <2>2
<1> HIDE DEF text
<1> QED BY <1>2, <1>4 DEF MovedTo

\* The line is handed over with the blanks the cursor is behind.
LEMMA PaddedLine ==
  ASSUME NEW t \in Texts, NEW c \in Nat
  PROVE  /\ padded(trim_end(t), c) \in Texts /\ trim_end(padded(trim_end(t), c)) = trim_end(t)
         /\ c <= Len(padded(trim_end(t), c))
<1>1. trim_end(t) \in Texts
  BY TextsTrim
<1>2. padded(trim_end(t), c) \in Texts /\ Len(padded(trim_end(t), c)) >= c
  BY <1>1, PaddedIs, PromptIs DEF Texts
<1>3. trim_end(padded(trim_end(t), c)) = trim_end(t)
  BY TrimmedPadded, PromptIs DEF Texts
<1>4. Len(padded(trim_end(t), c)) \in Nat
  BY <1>2 DEF Texts
<1> QED BY <1>2, <1>3, <1>4

-----------------------------------------------------------------------------
(* What Ordered says of the state.                                         *)
LEMMA StateIs ==
  ASSUME Ordered
  PROVE  /\ Formed(pump) /\ pump.told = <<>> /\ screen \in Screens
         /\ shell \in Shells /\ Numbered(shell)
         /\ shell.row \in shell.rows /\ shell.row \in Rows /\ shell.rows \subseteq Rows
         /\ shell.line \in Seq(Typed) /\ shell.line \in Texts
         /\ shell.cursor \in Nat /\ shell.cursor <= Len(shell.line) /\ Len(shell.line) \in Nat
         /\ shell.next \in Nat /\ \A row \in shell.rows : row \in Nat /\ row < shell.next
         /\ Results(pump) = transcript /\ Headings(pump) = headings /\ Readable(pump)
         /\ pump.far \in FarEndLines /\ pump.field \in [text : Texts, caret : Nat]
         /\ IsSeq(headings) /\ IsSeq(reads) /\ keys \in Seq(Keys \cup {"Paste"})
         /\ NoRow \notin Rows
<1>1. /\ Formed(pump) /\ pump.told = <<>> /\ screen \in Screens
      /\ shell \in Shells /\ Numbered(shell) /\ shell.cursor <= Len(shell.line)
      /\ IsSeq(headings) /\ IsSeq(reads) /\ keys \in Seq(Keys \cup {"Paste"})
      /\ transcript \in [Rows -> Texts]
  BY DEF Ordered
<1>2. /\ shell.row \in shell.rows /\ shell.row \in Rows /\ shell.rows \subseteq Rows
      /\ shell.line \in Seq(Typed) /\ shell.line \in Texts
      /\ shell.cursor \in Nat /\ Len(shell.line) \in Nat
      /\ shell.next \in Nat /\ \A row \in shell.rows : row < shell.next
  BY <1>1, ShellIs
<1>3. \A row \in shell.rows : row \in Nat
  BY <1>1, RowIsLess
<1>4. Results(pump) = transcript /\ Headings(pump) = headings /\ Readable(pump)
  BY <1>1, ResultsNow DEF Readable
<1>5. pump.far \in FarEndLines /\ pump.field \in [text : Texts, caret : Nat]
  BY <1>1 DEF Formed
<1>6. NoRow \notin Rows
  BY RowsAssumption
<1> QED BY <1>1, <1>2, <1>3, <1>4, <1>5, <1>6

LEMMA BecomesIs ==
  ASSUME NEW q, Formed(q), Becomes(q)
  PROVE  /\ pump'.far = q.far /\ pump'.field = q.field /\ pump'.lines = q.lines
         /\ pump'.cursor = q.cursor /\ pump'.echo = q.echo /\ pump'.open = q.open
         /\ headings' = Headings(q) /\ transcript' = Results(q)
BY ToldIs DEF Becomes, Headings, Results

LEMMA OneOf ==
  ASSUME NEW x
  PROVE  /\ Append(<<>>, x) = <<x>> /\ <<x>> # <<>> /\ Head(<<x>>) = x /\ Tail(<<x>>) = <<>>
         /\ Len(<<x>>) = 1 /\ <<x>>[1] = x /\ IsSeq(<<x>>)
BY TuplesAreSeqs

\* A row that the shell begins has nothing on it yet.
LEMMA NewRowIs ==
  ASSUME Ordered, NEW row \in Rows, row >= shell.next
  PROVE  Text(row) = <<>> /\ transcript[row] = <<>> /\ row \notin shell.rows
<1>1. Text(row) = <<>> /\ transcript[row] = <<>>
  BY DEF Ordered, Unwritten, Text
<1>2. row \notin shell.rows
  <2>1. ASSUME row \in shell.rows PROVE FALSE
    <3>1. row < shell.next /\ row \in Nat /\ shell.next \in Nat
      BY <2>1, StateIs
    <3> QED BY <3>1
  <2> QED BY <2>1
<1> QED BY <1>1, <1>2

-----------------------------------------------------------------------------
(* The line is taken, and a key is pressed.                                *)
LEMMA StaysPut ==
  ASSUME NEW q, Formed(q), Becomes(q), q.cursor = pump.cursor, q.echo = pump.echo,
         \A row \in Rows : q.lines[row].text = pump.lines[row].text
  PROVE  Unmoved
<1>1. pump'.lines = q.lines /\ pump'.cursor = q.cursor /\ pump'.echo = q.echo
  BY BecomesIs
<1>2. \A row \in Rows : Text(row)' = Text(row)
  BY <1>1 DEF Text
<1>3. ASSUME pump.cursor \in Rows, EchoHeard PROVE EchoHeard'
  <2>1. Text(pump.cursor)' = Text(pump.cursor)
    <3>1. pump'.cursor = pump.cursor
      BY <1>1
    <3>2. pump'.lines[pump.cursor].text = pump.lines[pump.cursor].text
      BY <1>1, <1>3
    <3> QED BY <3>1, <3>2 DEF Text
  <2> QED BY <1>1, <1>3, <2>1 DEF EchoHeard
<1> QED BY <1>1, <1>2, <1>3 DEF Unmoved

LEMMA NothingKept == Kept(<<>>) = <<>>
BY NoneIsSeq, KeptIsTheFold, ResultOfNone

LEMMA StartsInStep == ASSUME OnOneRow, Init PROVE InStep
<1>1. Ordered
  BY InitOrdered
<1>2. shell.row \in Rows /\ shell.rows \subseteq Rows
  BY <1>1, StateIs
<1>3. pump.far = NewFarEndLine /\ pump.lines = [row \in Rows |-> UnseenRow]
  BY StartsFormed DEF Init
<1>4. OwnedHere
  <2>1. pump.far.owner = "Local"
    BY <1>3 DEF NewFarEndLine
  <2>2. Fresh /\ shell.row = First /\ reads = <<PromptOn(First, <<>>)>>
    BY DEF Init, Fresh
  <2>3. Text(shell.row) = <<>>
    BY <1>2, <1>3 DEF Text, UnseenRow
  <2>4. reads # <<>>
    BY <2>2
  <2> QED BY <2>1, <2>2, <2>3, <2>4 DEF OwnedHere
<1>5. HeadedInTurn
  BY NothingKept DEF HeadedInTurn, Init
<1>6. RowsAreKept
  BY <1>2 DEF RowsAreKept, Init
<1>7. LineFits
  <2>1. Len(Recalled) \in Nat /\ Len(Prompt) = 1 /\ Len(shell.line) = 0 /\ Width \in Nat
    BY RecalledAssumption, WidthAssumption DEF Prompt, Init
  <2> QED BY <2>1 DEF LineFits, OnOneRow
<1> QED BY <1>4, <1>5, <1>6, <1>7 DEF InStep, Stages

LEMMA QuietIs ==
  ASSUME Stages, Quiet
  PROVE  OwnedHere \/ AtTheLine \/ (RunningOn /\ shell.phase = "running")
<1>1. \A x : <<x>> # <<>>
  OBVIOUS
<1>2. ~KeyAnswered /\ ~ListedBelow
  BY <1>1 DEF Quiet, KeyAnswered, ListedBelow
<1>3. ~AnswerSeen /\ ~ListingSeen /\ ~BackAtPrompt
  BY DEF Quiet, AnswerSeen, ListingSeen, BackAtPrompt, Watching
<1>4. ~Leaving /\ ~LineLeft
  BY <1>1 DEF Quiet, Leaving, LineLeft
<1>5. RunningOn => shell.phase = "running"
  <2>1. Len(reads) = 0
    BY DEF Quiet
  <2> QED BY <2>1 DEF RunningOn
<1> QED BY <1>2, <1>3, <1>4, <1>5 DEF Stages

\* What is behind the anchor is the line.
LEMMA AnchoredLine ==
  ASSUME Ordered, Holding, Agreeing, pump.cursor = shell.row
  PROVE  /\ Text(shell.row) = Line /\ pump.far.anchor # NoAnchor /\ pump.far.held \in Texts
         /\ TypedOn(pump) = trim(shell.line)
<1>1. Text(shell.row) = Line
  BY DEF Holding, Agreeing, Line
<1>2. pump.far.anchor = [line |-> shell.row, column |-> 1]
  BY DEF Holding
<1>3. pump.far.anchor # NoAnchor
  BY <1>2 DEF NoAnchor
<1>4. trim_end(shell.line) \in Texts
  BY StateIs, TextsTrim
<1>5. row_from_anchor(pump) = from_column(Line, 1)
  BY <1>1, <1>2, <1>3 DEF row_from_anchor, Text
<1>6. row_from_anchor(pump) = trim_end(shell.line)
  BY <1>4, <1>5, PastPrompt DEF Line
<1>7. TypedOn(pump) = trim(shell.line)
  BY <1>6, StateIs, TypedTrims DEF TypedOn
<1>8. pump.far.held \in Texts
  BY StateIs DEF FarEndLines
<1> QED BY <1>1, <1>3, <1>7, <1>8

\* Of a line that fits on its row the cursor is on the row, and as far along.
LEMMA CaretFits ==
  ASSUME Ordered, LineFits, screen = LineCaret
  PROVE  caret = [column |-> shell.cursor + 1, row |-> <<shell.row, 0>>]
<1>1. shell.cursor \in Nat /\ Len(shell.line) \in Nat /\ shell.cursor <= Len(shell.line)
  BY StateIs
<1>2. Len(Prompt) = 1
  BY DEF Prompt
<1>3. Width \in Nat \ {0} /\ shell.cursor + 1 \in Nat /\ shell.cursor + 1 < Width
  BY <1>1, <1>2, WidthAssumption DEF LineFits
<1>4. \A n \in Nat : n < Width => n % Width = n /\ n \div Width = 0
  BY WidthAssumption
<1>5. (shell.cursor + 1) % Width = shell.cursor + 1 /\ (shell.cursor + 1) \div Width = 0
  BY <1>3, <1>4
<1>6. screen.visible /\ screen.column = shell.cursor + 1 /\ screen.row = shell.row
  BY DEF LineCaret
<1> QED BY <1>5, <1>6 DEF caret

LEMMA PressEdits ==
  ASSUME Ordered, LineFits, AtTheLine, HeadedInTurn, RowsAreKept, keys = <<>>,
         NEW key \in Keys \ {"Enter", "CtrlC"}, Press(key)
  PROVE  AtTheLine' /\ HeadedInTurn' /\ RowsAreKept'
<1> DEFINE q == far_end_key(pump, key)
<1>1. /\ Becomes(q) /\ keys' = <<key>>
      /\ UNCHANGED <<tracker, screen, settled, reads, shell, ran, pasted>>
  BY OneOf DEF Press
<1>2. KeyIs(q, pump, key)
  BY StateIs, FarEndKeyIs
<1> HIDE DEF q
<1>3. /\ q.far = [pump.far EXCEPT !.was = caret, !.changed = <<>>, !.watching = TRUE]
      /\ q.field = pump.field /\ Formed(q)
  BY <1>2 DEF KeyIs, KeyFar
<1>4. Unmoved
  BY <1>1, <1>2, StaysPut DEF KeyIs
<1>5. /\ pump'.far = q.far /\ pump'.field = pump.field /\ headings' = headings
      /\ transcript' = transcript
  BY <1>1, <1>2, <1>3, BecomesIs, StateIs DEF KeyIs
<1>6. /\ pump'.far.owner = pump.far.owner /\ pump'.far.anchor = pump.far.anchor
      /\ pump'.far.awaiting_prompt = pump.far.awaiting_prompt
      /\ pump'.far.left = pump.far.left /\ pump'.far.held = pump.far.held
      /\ pump'.far.watching = TRUE /\ pump'.far.changed = <<>> /\ pump'.far.was = caret
  <2>1. pump.far \in FarEndLines
    BY StateIs
  <2> QED BY <1>3, <1>5, <2>1 DEF FarEndLines
<1>7. pump.cursor \in Rows /\ pump.cursor = shell.row
  BY StateIs DEF AtTheLine
<1>8. Holding'
  <2>1. Text(pump.cursor)' = Text(pump.cursor) /\ EchoHeard'
    <3>1. EchoHeard
      BY DEF AtTheLine, Holding
    <3>2. pump'.cursor = pump.cursor /\ pump'.lines[pump.cursor].text = Text(pump.cursor)
      BY <1>4, <1>7 DEF Unmoved, Text
    <3> QED BY <1>4, <1>7, <3>1, <3>2 DEF Unmoved, Text
  <2> QED BY <1>1, <1>4, <1>5, <1>6, <2>1 DEF AtTheLine, Holding, Unmoved
<1>9. Watched'
  <2>1. caret = [column |-> pump.field.caret + 1, row |-> <<pump.cursor, 0>>]
    <3>1. screen = LineCaret /\ pump.cursor = shell.row /\ pump.field.caret = shell.cursor
      BY DEF AtTheLine, Holding, LineCaret
    <3> QED BY <3>1, CaretFits
  <2> QED BY <1>4, <1>5, <1>6, <2>1 DEF Watched, Unmoved
<1>10. AtTheLine'
  <2>1. Agreeing'
    BY <1>1, <1>6 DEF AtTheLine, Agreeing
  <2>2. (pump.cursor = shell.row)' /\ (pump.field.caret = shell.cursor)'
        /\ (reads = <<>>)' /\ (~settled)' /\ (shell.phase = "prompt")'
    BY <1>1, <1>4, <1>5 DEF AtTheLine, Unmoved
  <2>3. (\E k \in Keys \ {"Enter", "CtrlC"} : keys = <<k>> /\ Watched)'
    BY <1>1, <1>9
  <2> QED BY <1>8, <2>1, <2>2, <2>3 DEF AtTheLine
<1>11. HeadedInTurn'
  <2>1. keys' # <<"Enter">> /\ keys # <<"Enter">>
    BY <1>1
  <2> QED BY <1>1, <1>5, <2>1 DEF HeadedInTurn
<1>12. RowsAreKept'
  BY <1>1, <1>5 DEF RowsAreKept
<1> QED BY <1>10, <1>11, <1>12

LEMMA PressLeaves ==
  ASSUME Ordered, AtTheLine, HeadedInTurn, RowsAreKept, keys = <<>>,
         NEW key \in {"Enter", "CtrlC"}, Press(key)
  PROVE  Leaving' /\ HeadedInTurn' /\ RowsAreKept'
<1> DEFINE q == far_end_key(pump, key)
<1>1. /\ Becomes(q) /\ keys' = <<key>>
      /\ UNCHANGED <<tracker, screen, settled, reads, shell, ran, pasted>>
  BY OneOf DEF Press
<1>2. KeyIs(q, pump, key)
  BY StateIs, FarEndKeyIs
<1> HIDE DEF q
<1>3. /\ q.far = [AwaitFar(pump) EXCEPT !.was = caret, !.changed = <<>>, !.watching = TRUE]
      /\ q.field = pump.field /\ Formed(q)
  BY <1>2 DEF KeyIs, KeyFar
<1>4. Unmoved
  BY <1>1, <1>2, StaysPut DEF KeyIs
<1>5. pump'.far = q.far /\ pump'.open = q.open /\ headings' = Headings(q)
      /\ transcript' = transcript
  BY <1>1, <1>2, <1>3, BecomesIs, StateIs DEF KeyIs
<1>6. pump.cursor \in Rows /\ pump.cursor = shell.row
  BY StateIs DEF AtTheLine
<1>7. /\ Text(shell.row) = Line /\ pump.far.anchor # NoAnchor
      /\ TypedOn(pump) = trim(shell.line) /\ pump.far.anchor.line = shell.row
  BY <1>6, AnchoredLine DEF AtTheLine, Holding
<1>8. /\ pump'.far.owner = pump.far.owner /\ pump'.far.anchor = NoAnchor
      /\ pump'.far.awaiting_prompt = TRUE /\ pump'.far.left = shell.row
      /\ pump'.far.watching = TRUE
  <2>1. pump.far \in FarEndLines
    BY StateIs
  <2> QED BY <1>3, <1>5, <1>7, <2>1 DEF FarEndLines, AwaitFar
<1>9. Awaiting'
  <2>1. EchoHeard'
    BY <1>4, <1>6 DEF AtTheLine, Holding, Unmoved
  <2>2. pump'.far.owner = "FarEnd" /\ shell'.phase = "prompt" /\ ~settled'
    BY <1>1, <1>8 DEF AtTheLine, Holding
  <2>3. pump'.cursor = pump'.far.left
    BY <1>4, <1>6, <1>8 DEF Unmoved
  <2> QED BY <1>8, <2>1, <2>2, <2>3 DEF Awaiting
<1>10. key = "Enter" /\ trim(shell.line) # <<>> =>
          pump'.open # NoCommand /\ headings' = Append(headings, trim(shell.line))
  BY <1>2, <1>5, <1>7, StateIs DEF KeyIs
<1>11. Leaving'
  <2>1. Text(shell.row)' = Line'
    <3>1. pump'.lines[shell.row].text = Text(shell.row)
      BY <1>4, <1>6 DEF Unmoved, Text
    <3> QED BY <1>1, <1>7, <3>1 DEF Text, Line
  <2>2. (pump.far.left = shell.row)' /\ (reads = <<>>)'
    BY <1>1, <1>8 DEF AtTheLine
  <2>3. (keys \in {<<"Enter">>, <<"CtrlC">>})'
    BY <1>1
  <2>4. (keys = <<"Enter">> /\ trim(shell.line) # <<>> => pump.open # NoCommand)'
    <3>1. keys' = <<"Enter">> => key = "Enter"
      BY <1>1
    <3> QED BY <1>1, <1>10, <3>1
  <2> QED BY <1>9, <2>1, <2>2, <2>3, <2>4 DEF Leaving
<1>12. HeadedInTurn'
  <2>1. Kept(headings) = ran
    <3>1. keys # <<"Enter">>
      OBVIOUS
    <3> QED BY <3>1 DEF HeadedInTurn
  <2>2. CASE key = "Enter" /\ trim(shell.line) # <<>>
    <3>1. Kept(headings') = Keeps(Kept(headings), trim(shell.line))
      BY <1>10, <2>2, KeptMore, StateIs
    <3>2. trim(shell.line) \in Seq(Typed) /\ ~Dropped(trim(shell.line))
      BY StateIs, TypedTrims, TypedIsKept
    <3>3. Kept(headings') = Append(ran, trim(shell.line))
      BY <2>1, <3>1, <3>2 DEF Keeps
    <3>4. keys' = <<"Enter">> /\ shell'.phase = "prompt"
      BY <1>1, <2>2 DEF AtTheLine
    <3> QED BY <1>1, <2>2, <3>3, <3>4 DEF HeadedInTurn
  <2>3. CASE ~(key = "Enter" /\ trim(shell.line) # <<>>)
    <3>1. headings' = headings
      BY <1>2, <1>5, <1>7, <2>3, StateIs DEF KeyIs
    <3>2. ~(keys' = <<"Enter">> /\ trim(shell'.line) # <<>>)
      BY <1>1, <2>3
    <3> QED BY <1>1, <2>1, <3>1, <3>2 DEF HeadedInTurn
  <2> QED BY <2>2, <2>3
<1>13. RowsAreKept'
  BY <1>1, <1>5 DEF RowsAreKept
<1> QED BY <1>11, <1>12, <1>13

LEMMA PressInterrupts ==
  ASSUME Ordered, RunningOn, shell.phase = "running", HeadedInTurn, RowsAreKept,
         NEW key \in Keys, Patient, Press(key)
  PROVE  RunningOn' /\ HeadedInTurn' /\ RowsAreKept'
<1> DEFINE q == far_end_key(pump, key)
<1>1. /\ Becomes(q) /\ Quiet /\ key = "CtrlC" /\ keys' = <<key>>
      /\ UNCHANGED <<tracker, screen, settled, reads, shell, ran, pasted>>
  BY OneOf DEF Press, Quiet
<1>2. KeyIs(q, pump, key)
  BY StateIs, FarEndKeyIs
<1> HIDE DEF q
<1>3. q.far = [AwaitFar(pump) EXCEPT !.was = caret, !.changed = <<>>, !.watching = TRUE]
      /\ Formed(q)
  BY <1>1, <1>2 DEF KeyIs, KeyFar
<1>4. pump'.far = q.far /\ headings' = headings /\ transcript' = transcript
  BY <1>1, <1>2, <1>3, BecomesIs, StateIs DEF KeyIs
<1>5. /\ pump'.far.owner = pump.far.owner /\ pump'.far.printed = pump.far.printed
      /\ pump'.far.awaiting_prompt = TRUE /\ pump'.far.watching = TRUE
  <2>1. pump.far \in FarEndLines
    BY StateIs
  <2> QED BY <1>3, <1>4, <2>1 DEF FarEndLines, AwaitFar
<1>6. reads' = <<>> /\ ~settled' /\ keys' = <<"CtrlC">> /\ Len(reads') = 0
  BY <1>1 DEF Quiet
<1>7. ReadsRun(Len(reads))'
  BY <1>6 DEF ReadsRun
<1>8. RunningOn'
  <2>1. (pump.far.owner = "FarEnd")' /\ (pump.far.printed = <<>>)'
        /\ (pump.far.watching <=> pump.far.awaiting_prompt)' /\ (shell.phase = "running")'
    BY <1>1, <1>5 DEF RunningOn
  <2>2. Len(reads') <= 1
    BY <1>6
  <2> QED BY <1>6, <1>7, <2>1, <2>2 DEF RunningOn
<1>9. HeadedInTurn'
  BY <1>1, <1>4 DEF HeadedInTurn
<1>10. RowsAreKept'
  BY <1>1, <1>4 DEF RowsAreKept
<1> QED BY <1>8, <1>9, <1>10

LEMMA PressInStep ==
  ASSUME Ordered, LineFits, Patient, Stages, HeadedInTurn, RowsAreKept, NEW key \in Keys,
         Press(key)
  PROVE  Stages' /\ HeadedInTurn' /\ RowsAreKept'
<1>1. Quiet /\ keys = <<>> /\ pump.far.owner = "FarEnd"
  BY DEF Press, Quiet
<1>2. ~OwnedHere
  BY <1>1 DEF OwnedHere
<1>3. CASE AtTheLine
  <2>1. CASE key \in {"Enter", "CtrlC"}
    BY <1>1, <1>3, <2>1, PressLeaves DEF Stages
  <2>2. CASE key \notin {"Enter", "CtrlC"}
    BY <1>1, <1>3, <2>2, PressEdits DEF Stages
  <2> QED BY <2>1, <2>2
<1>4. CASE RunningOn /\ shell.phase = "running"
  BY <1>4, PressInterrupts DEF Stages
<1> QED BY <1>1, <1>2, <1>3, <1>4, QuietIs

-----------------------------------------------------------------------------
(* The line changes hands.                                                 *)
\* The field is told of a line with nothing on it.
LEMMA ToFarEnd ==
  ASSUME Ordered, LineFits, OwnedHere, HeadedInTurn, RowsAreKept, Toggle
  PROVE  AtTheLine' /\ HeadedInTurn' /\ RowsAreKept'
<1> DEFINE q == line_owner(pump, "FarEnd")
<1>1. /\ Becomes(q) /\ keys = <<>> /\ reads = <<>> /\ ~settled /\ shell.phase = "prompt"
      /\ UNCHANGED <<tracker, screen, settled, keys, reads, shell, ran, pasted>>
  BY DEF Toggle, OwnedHere, Quiet
<1>2. OwnerIs(q, pump, "FarEnd")
  BY StateIs, LineOwnerIs
<1> HIDE DEF q
<1>3. PICK c : Holds(c, pump, Cleared(pump, "FarEnd"), pump.field) /\ HereIs(q, c)
  BY <1>2 DEF OwnerIs
<1>4. /\ pump.cursor = shell.row /\ Text(shell.row) = Line /\ EchoHeard
      /\ shell.line = <<>> /\ shell.cursor = 0
      /\ screen = [row |-> shell.row, column |-> 1, visible |-> TRUE]
      /\ caret.column = 1
  <2>1. OnTheRow /\ Fresh
    BY <1>1 DEF OwnedHere
  <2>2. caret.column = shell.cursor + 1
    BY <2>1, CaretFits DEF OnTheRow
  <2> QED BY <2>1, <2>2 DEF OnTheRow, Fresh, LineCaret
<1>5. shell.row \in Rows /\ shell.row # NoRow /\ shell.row \in shell.rows
  BY StateIs
<1>6. c.cursor = shell.row /\ c.lines[shell.row].text = Line
  BY <1>3, <1>4, <1>5 DEF Holds, Text
<1>7. trim_end(shell.line) = <<>>
  BY <1>4, TrimmedOfNone
<1>8. from_column(Line, 1) = <<>>
  BY <1>7, PastPrompt, TextOf DEF Line
<1> DEFINE far == [c.far EXCEPT !.anchor = [line |-> shell.row, column |-> 1], !.held = <<>>]
<1>9. Holds(q, c, far, [text |-> <<>>, caret |-> 0])
  BY <1>3, <1>4, <1>5, <1>6, <1>8 DEF HereIs
<1>10. /\ q.far = far /\ q.field = [text |-> <<>>, caret |-> 0] /\ Formed(q)
       /\ q.cursor = pump.cursor /\ q.echo = pump.echo /\ Results(q) = Results(pump)
       /\ Headings(q) = Headings(pump)
       /\ \A row \in Rows : q.lines[row].text = pump.lines[row].text
  BY <1>3, <1>9 DEF Holds
<1>11. /\ far.owner = "FarEnd" /\ far.anchor = [line |-> shell.row, column |-> 1]
       /\ far.awaiting_prompt = FALSE /\ far.left = NoRow /\ far.held = <<>>
  <2>1. c.far = Cleared(pump, "FarEnd")
    BY <1>3 DEF Holds
  <2> QED BY <2>1, NewFields DEF Cleared, NewFarEndLine
<1> HIDE DEF far
<1>12. Unmoved
  BY <1>1, <1>10, StaysPut
<1>13. /\ pump'.far = far /\ pump'.field = [text |-> <<>>, caret |-> 0]
       /\ headings' = headings /\ transcript' = transcript
  BY <1>1, <1>10, BecomesIs, StateIs
<1>14. Holding'
  <2>1. EchoHeard' /\ pump'.cursor = shell.row
    BY <1>4, <1>5, <1>12 DEF Unmoved
  <2>2. Text(pump.cursor)' = Prompt \o trim_end(<<>>)
    <3>1. pump'.lines[shell.row].text = Line
      BY <1>4, <1>5, <1>12 DEF Unmoved, Text
    <3> QED BY <1>4, <2>1, <3>1 DEF Text, Line
  <2>3. pump'.field.text = <<>> /\ pump'.field.caret = 0 /\ 0 <= Len(<<>>) /\ 0 + 1 = 1
    BY <1>13
  <2>4. /\ (pump.far.owner = "FarEnd")' /\ (~pump.far.awaiting_prompt)'
        /\ (pump.far.left = NoRow)' /\ pump'.far.held = <<>>
        /\ (pump.far.anchor = [line |-> pump.cursor, column |-> 1])'
    BY <1>11, <1>13, <2>1
  <2>5. (pump.cursor \in shell.rows)'
    BY <1>1, <1>5, <2>1
  <2>6. (screen = [row |-> pump.cursor, column |-> pump.field.caret + 1, visible |-> TRUE])'
    BY <1>1, <1>4, <2>1, <2>3
  <2> QED BY <2>1, <2>2, <2>3, <2>4, <2>5, <2>6 DEF Holding
<1>15. AtTheLine'
  <2>1. Agreeing'
    BY <1>1, <1>4, <1>11, <1>13 DEF Agreeing
  <2>2. /\ (pump.cursor = shell.row)' /\ (pump.field.caret = shell.cursor)'
        /\ (reads = <<>>)' /\ (~settled)' /\ (shell.phase = "prompt")' /\ (keys = <<>>)'
    BY <1>1, <1>4, <1>12, <1>13 DEF Unmoved
  <2> QED BY <1>14, <2>1, <2>2 DEF AtTheLine
<1>16. HeadedInTurn'
  BY <1>1, <1>13 DEF HeadedInTurn
<1>17. RowsAreKept'
  BY <1>1, <1>13 DEF RowsAreKept
<1> QED BY <1>15, <1>16, <1>17

LEMMA ToLocal ==
  ASSUME Ordered, AtTheLine, HeadedInTurn, RowsAreKept, Toggle
  PROVE  OwnedHere' /\ HeadedInTurn' /\ RowsAreKept'
<1> DEFINE q == line_owner(pump, "Local")
<1>1. /\ Becomes(q) /\ keys = <<>> /\ reads = <<>> /\ shell.line = <<>>
      /\ shell.phase = "prompt"
      /\ UNCHANGED <<tracker, screen, settled, keys, reads, shell, ran, pasted>>
  BY DEF Toggle, AtTheLine, Holding, Quiet
<1>2. OwnerIs(q, pump, "Local")
  BY StateIs, LineOwnerIs
<1> HIDE DEF q
<1>3. Holds(q, pump, Freed(pump), pump.field)
  BY <1>2 DEF OwnerIs
<1>4. q.far.owner = "Local" /\ Formed(q)
  BY <1>3, NewFields DEF Holds, Freed, NewFarEndLine
<1>5. Unmoved
  BY <1>1, <1>3, <1>4, StaysPut DEF Holds
<1>6. pump'.far.owner = "Local" /\ headings' = headings /\ transcript' = transcript
  BY <1>1, <1>3, <1>4, BecomesIs, StateIs DEF Holds
<1>7. pump.cursor = shell.row /\ shell.row \in Rows /\ EchoHeard /\ Text(shell.row) = Line
  BY StateIs, AnchoredLine DEF AtTheLine, Holding
<1>8. Fresh
  <2>1. shell.cursor \in Nat /\ shell.cursor <= Len(<<>>) /\ Len(<<>>) = 0
    BY <1>1, StateIs
  <2>2. shell.cursor = 0
    BY <2>1
  <2> QED BY <1>1, <2>2 DEF Fresh
<1>9. screen = LineCaret
  BY DEF AtTheLine, Holding, LineCaret
<1>10. OnTheRow'
  <2>1. (pump.cursor = shell.row)' /\ EchoHeard' /\ (screen = LineCaret)'
    BY <1>1, <1>5, <1>7, <1>9 DEF Unmoved, LineCaret
  <2>2. (Text(shell.row) = Line)'
    <3>1. pump'.lines[shell.row].text = Line
      BY <1>5, <1>7 DEF Unmoved, Text
    <3> QED BY <1>1, <3>1 DEF Text, Line
  <2> QED BY <2>1, <2>2 DEF OnTheRow
<1>11. OwnedHere'
  <2>1. Fresh'
    BY <1>1, <1>8 DEF Fresh
  <2> QED BY <1>1, <1>6, <1>10, <2>1 DEF OwnedHere
<1>12. HeadedInTurn'
  BY <1>1, <1>6 DEF HeadedInTurn
<1>13. RowsAreKept'
  BY <1>1, <1>6 DEF RowsAreKept
<1> QED BY <1>11, <1>12, <1>13

LEMMA ToggleInStep ==
  ASSUME Ordered, LineFits, Stages, HeadedInTurn, RowsAreKept, Toggle
  PROVE  Stages' /\ HeadedInTurn' /\ RowsAreKept'
<1>1. Quiet /\ shell.phase = "prompt"
  BY DEF Toggle
<1>2. CASE OwnedHere
  BY <1>2, ToFarEnd DEF Stages
<1>3. CASE AtTheLine
  BY <1>3, ToLocal DEF Stages
<1> QED BY <1>1, <1>2, <1>3, QuietIs

-----------------------------------------------------------------------------
(* The shell takes a key.                                                  *)
LEMMA TakeIs ==
  ASSUME Ordered, Take
  PROVE  /\ keys # <<>> /\ Head(keys) \in Keys \cup {"Paste"} /\ Answer(Head(keys))
         /\ keys' = Tail(keys)
         /\ UNCHANGED <<tracker, pump, screen, settled, pasted, headings, transcript>>
<1>1. keys \in Seq(Keys \cup {"Paste"}) /\ keys # <<>>
  BY DEF Ordered, Take
<1> QED BY <1>1 DEF Take

\* What the shell does leaves what is known of the rows as it was.
LEMMA TextStays ==
  ASSUME UNCHANGED pump
  PROVE  /\ \A row : Text(row)' = Text(row)
         /\ EchoHeard => EchoHeard'
BY DEF Text, EchoHeard

LEMMA KeyStage ==
  ASSUME Ordered, Stages, keys # <<>>
  PROVE  \/ AtTheLine
         \/ Leaving
         \/ RunningOn /\ shell.phase = "running" /\ keys = <<"CtrlC">> /\ reads = <<>>
<1>1. ~OwnedHere
  BY DEF OwnedHere, Ordered, InTurn
<1>2. ~KeyAnswered /\ ~ListedBelow /\ ~LineLeft /\ ~BackAtPrompt
  BY DEF KeyAnswered, ListedBelow, LineLeft, BackAtPrompt
<1>3. ~AnswerSeen /\ ~ListingSeen
  BY DEF AnswerSeen, ListingSeen, Watching
<1>4. RunningOn => shell.phase = "running" /\ keys = <<"CtrlC">> /\ reads = <<>>
  BY DEF RunningOn
<1> QED BY <1>1, <1>2, <1>3, <1>4 DEF Stages

\* It edits,
LEMMA TakeEdits ==
  ASSUME Ordered, AtTheLine, HeadedInTurn, RowsAreKept, Take,
         NEW key \in Keys \ {"Enter", "CtrlC"}, keys = <<key>>, Watched, Edits(key)
  PROVE  KeyAnswered' /\ HeadedInTurn' /\ RowsAreKept'
<1>1. PICK to \in Seq(Typed), c \in Nat : c <= Len(to) /\ Edited(to, c)
  BY DEF Edits
<1>2. /\ shell' = [shell EXCEPT !.line = to, !.cursor = c] /\ ran' = ran
      /\ reads' = <<Read(Redrawn(shell.row, Prompt \o trim_end(shell.line),
                                 Prompt \o trim_end(to)),
                         shell.row, Len(Prompt) + c, TRUE)>>
  BY <1>1, OneOf DEF Edited, AtTheLine
<1>3. keys' = <<>> /\ UNCHANGED <<tracker, pump, screen, settled, pasted, headings, transcript>>
  BY TakeIs, OneOf
<1>4. /\ shell'.row = shell.row /\ shell'.line = to /\ shell'.cursor = c
      /\ shell'.rows = shell.rows /\ shell'.phase = shell.phase
  <2>1. shell \in Shells
    BY StateIs
  <2> QED BY <1>2, <2>1 DEF Shells
<1>5. Holding'
  BY <1>3, <1>4, TextStays DEF AtTheLine, Holding, Text
<1>6. Watched'
  BY <1>3 DEF Watched
<1>7. (reads = <<Read(Redrawn(shell.row, Prompt \o trim_end(pump.far.held), Line),
                      shell.row, Len(Prompt) + shell.cursor, TRUE)>>)'
  <2>1. trim_end(pump.far.held) = trim_end(shell.line)
    BY DEF AtTheLine, Agreeing
  <2>2. Line' = Prompt \o trim_end(to)
    BY <1>4 DEF Line
  <2> QED BY <1>2, <1>3, <1>4, <2>1, <2>2
<1>8. KeyAnswered'
  BY <1>3, <1>4, <1>5, <1>6, <1>7 DEF KeyAnswered, AtTheLine
<1>9. HeadedInTurn'
  <2>1. keys # <<"Enter">> /\ keys' # <<"Enter">>
    BY <1>3
  <2> QED BY <1>2, <1>3, <2>1 DEF HeadedInTurn
<1>10. RowsAreKept'
  BY <1>3, <1>4 DEF RowsAreKept
<1> QED BY <1>8, <1>9, <1>10

\* lists completions,
LEMMA TakeLists ==
  ASSUME Ordered, AtTheLine, HeadedInTurn, RowsAreKept, Take,
         keys = <<"Tab">>, Watched, trim(shell.line) # <<>>, Listed
  PROVE  ListedBelow' /\ HeadedInTurn' /\ RowsAreKept'
<1> DEFINE row  == shell.next + 1
           list == shell.next
<1>1. /\ row \in Rows /\ ran' = ran
      /\ shell' = [shell EXCEPT !.row = row, !.next = @ + 2, !.rows = @ \cup {row},
                                !.printed = @ \cup {[row |-> list, text |-> Listing]}]
      /\ reads' = <<Read(<<Row(list, Listing, "Appended"), Mark("PromptStart"),
                           Row(row, Prompt, "Appended"), Mark("CommandStart"),
                           Row(row, trim_end(shell.line), "Appended")>>,
                         row, Len(Prompt) + shell.cursor, TRUE)>>
  BY OneOf DEF Listed, AtTheLine
<1>2. keys' = <<>> /\ UNCHANGED <<tracker, pump, screen, settled, pasted, headings, transcript>>
  BY TakeIs, OneOf
<1>3. /\ shell'.row = row /\ shell'.line = shell.line /\ shell'.cursor = shell.cursor
      /\ shell'.rows = shell.rows \cup {row} /\ shell'.phase = shell.phase
  <2>1. shell \in Shells
    BY StateIs
  <2> QED BY <1>1, <2>1 DEF Shells
<1>4. list \in Rows /\ list \in Nat
  <2>1. shell.next \in Rows
    <3>1. shell \in Shells /\ Numbered(shell) /\ shell.phase = "prompt"
      BY StateIs DEF AtTheLine
    <3>2. shell' = [shell EXCEPT !.row = shell.next + 1, !.next = @ + 2,
                              !.rows = @ \cup {shell.next + 1},
                              !.printed = @ \cup {[row |-> shell.next, text |-> Listing]}]
      BY <1>1
    <3> QED BY <1>1, <3>1, <3>2, ListSends
  <2> QED BY <2>1, StateIs
<1>5. /\ row >= shell.next /\ list >= shell.next /\ row # list
      /\ Text(row) = <<>> /\ transcript[row] = <<>> /\ row \notin shell.rows
      /\ list \notin shell.rows
  <2>1. row >= shell.next /\ list >= shell.next /\ row # list
    BY <1>4
  <2>2. Text(row) = <<>> /\ transcript[row] = <<>> /\ row \notin shell.rows
    BY <1>1, <2>1, NewRowIs
  <2>3. list \notin shell.rows
    BY <1>4, <2>1, NewRowIs
  <2> QED BY <2>1, <2>2, <2>3
<1> HIDE DEF row, list
<1>6. Holding' /\ Watched' /\ Agreeing'
  <2>1. Holding'
    BY <1>2, <1>3, TextStays DEF AtTheLine, Holding, Text
  <2>2. Watched' /\ Agreeing'
    BY <1>2, <1>3 DEF Watched, Agreeing, AtTheLine
  <2> QED BY <2>1, <2>2
<1>7. trim_end(shell.line) # <<>>
  BY StateIs, TypedTrims
<1>8. ListedBelow'
  <2>1. (pump.field.caret = shell.cursor)' /\ (keys = <<>>)' /\ (~settled)'
        /\ (shell.phase = "prompt")' /\ (trim_end(shell.line) # <<>>)'
    BY <1>2, <1>3, <1>7 DEF AtTheLine
  <2>2. (pump.cursor # shell.row)'
    BY <1>2, <1>3, <1>5, StateIs DEF AtTheLine
  <2>3. (Text(shell.row) = <<>>)'
    BY <1>2, <1>3, <1>5 DEF Text
  <2>4. list \in Rows \ shell'.rows
    BY <1>3, <1>4, <1>5
  <2>5. reads' = <<Read(<<Row(list, Listing, "Appended"), Mark("PromptStart"),
                           Row(shell'.row, Prompt, "Appended"), Mark("CommandStart"),
                           Row(shell'.row, trim_end(shell'.line), "Appended")>>,
                         shell'.row, Len(Prompt) + shell'.cursor, TRUE)>>
    BY <1>1, <1>3
  <2> QED BY <1>6, <2>1, <2>2, <2>3, <2>4, <2>5 DEF ListedBelow
<1>9. HeadedInTurn'
  <2>1. keys # <<"Enter">> /\ keys' # <<"Enter">>
    BY <1>2
  <2> QED BY <1>1, <1>2, <2>1 DEF HeadedInTurn
<1>10. RowsAreKept'
  BY <1>2, <1>3, <1>5 DEF RowsAreKept
<1> QED BY <1>8, <1>9, <1>10

LEMMA BeginsIs ==
  ASSUME Ordered, NEW before, Prompting(before)
  PROVE  /\ BeginsAnew(shell.next)
         /\ reads' = Append(reads, PromptOn(shell.next, before))
<1>1. /\ shell.next \in Rows
      /\ shell' = [shell EXCEPT !.phase = "prompt", !.line = <<>>, !.cursor = 0,
                              !.row = shell.next, !.next = @ + 1,
                              !.rows = @ \cup {shell.next}]
      /\ reads' = Append(reads, PromptOn(shell.next, before))
  BY DEF Prompting
<1>2. /\ shell'.row = shell.next /\ shell'.line = <<>> /\ shell'.cursor = 0
      /\ shell'.rows = shell.rows \cup {shell.next} /\ shell'.phase = "prompt"
      /\ shell'.printed = shell.printed
  <2>1. shell \in Shells
    BY StateIs
  <2> QED BY <1>1, <2>1 DEF Shells
<1>3. Text(shell.next) = <<>> /\ transcript[shell.next] = <<>> /\ shell.next \notin shell.rows
  <2>1. shell.next \in Nat /\ shell.next >= shell.next
    BY StateIs
  <2> QED BY <1>1, <2>1, NewRowIs
<1> QED BY <1>1, <1>2, <1>3 DEF BeginsAnew, Fresh

LEMMA BegunRows ==
  ASSUME NEW row, BeginsAnew(row), RowsAreKept, transcript' = transcript
  PROVE  RowsAreKept'
BY DEF BeginsAnew, RowsAreKept

\* goes on to the next prompt,
LEMMA TakeLeavesLine ==
  ASSUME Ordered, Leaving, HeadedInTurn, RowsAreKept, Take,
         ran' = ran, keys = <<"Enter">> => trim(shell.line) = <<>>,
         NEW before, Prompting(before),
         \/ before = <<Mark("OutputStart"), Done>> /\ trim(shell.line) = <<>>
         \/ before = <<Row(shell.row, Refusal, "Appended"), Mark("OutputStart"), Done>>
  PROVE  LineLeft' /\ HeadedInTurn' /\ RowsAreKept'
<1> DEFINE row == shell.next
<1>1. BeginsAnew(row) /\ reads' = <<PromptOn(row, before)>>
  BY BeginsIs, OneOf DEF Leaving
<1> HIDE DEF row
<1>2. keys' = <<>> /\ UNCHANGED <<tracker, pump, screen, settled, pasted, headings, transcript>>
  <2>1. \E key : keys = <<key>>
    BY DEF Leaving
  <2> QED BY <2>1, TakeIs, OneOf
<1>3. /\ shell'.row = row /\ Fresh' /\ row \notin shell.rows /\ Text(row) = <<>>
      /\ shell'.rows = shell.rows \cup {row}
  BY <1>1 DEF BeginsAnew
<1>4. pump.far.left = shell.row /\ Text(shell.row) = Line /\ shell.row \in shell.rows
  BY StateIs DEF Leaving
<1>5. Awaiting'
  <2>1. EchoHeard'
    BY <1>2, TextStays DEF Leaving, Awaiting
  <2> QED BY <1>2, <1>3, <2>1 DEF Leaving, Awaiting, Fresh
<1>6. LineLeft'
  <2>1. (pump.far.left \in shell.rows \ {shell.row})' /\ (Text(shell.row) = <<>>)'
    BY <1>2, <1>3, <1>4 DEF Text
  <2>2. CASE before = <<Mark("OutputStart"), Done>> /\ trim(shell.line) = <<>>
    <3>1. Text(pump.far.left) = Prompt
      <4>1. trim_end(shell.line) = <<>>
        BY <2>2, StateIs, TypedTrims
      <4>2. Prompt \o <<>> = Prompt
        BY PromptIs, EventsMore, TuplesAreSeqs DEF Prompt
      <4> QED BY <1>4, <4>1, <4>2 DEF Line
    <3>2. (Text(pump.far.left) = Prompt)'
      BY <1>2, <3>1 DEF Text
    <3> QED BY <1>1, <1>2, <1>3, <1>5, <2>1, <2>2, <3>2 DEF LineLeft
  <2>3. CASE before = <<Row(shell.row, Refusal, "Appended"), Mark("OutputStart"), Done>>
    <3>1. (reads = <<PromptOn(shell.row, <<Row(pump.far.left, Refusal, "Appended"),
                                            Mark("OutputStart"), Done>>)>>)'
      BY <1>1, <1>2, <1>3, <1>4, <2>3
    <3> QED BY <1>2, <1>3, <1>5, <2>1, <3>1 DEF LineLeft
  <2> QED BY <2>2, <2>3
<1>7. HeadedInTurn'
  <2>1. keys' # <<"Enter">>
    BY <1>2
  <2> QED BY <1>2, <2>1 DEF HeadedInTurn
<1>8. RowsAreKept'
  BY <1>1, <1>2, BegunRows
<1> QED BY <1>6, <1>7, <1>8

\* runs the line,
LEMMA TakeRuns ==
  ASSUME Ordered, Leaving, HeadedInTurn, RowsAreKept, Take,
         keys = <<"Enter">>, trim(shell.line) # <<>>, NEW visible \in BOOLEAN, Run(visible)
  PROVE  RunningOn' /\ HeadedInTurn' /\ RowsAreKept'
<1> DEFINE row == shell.next
           r   == Read(<<Mark("OutputStart"), Row(row, Printout, "Appended")>>,
                       row, Len(Printout), visible)
<1>1. /\ shell' = [shell EXCEPT !.phase = "running", !.next = @ + 1,
                              !.printed = @ \cup {[row |-> row, text |-> Printout]}]
      /\ reads' = <<r>> /\ ran' = Append(ran, trim(shell.line))
  BY OneOf DEF Run, Leaving
<1>2. keys' = <<>> /\ UNCHANGED <<tracker, pump, screen, settled, pasted, headings, transcript>>
  BY TakeIs, OneOf
<1>3. /\ shell'.phase = "running" /\ shell'.rows = shell.rows
      /\ [row |-> row, text |-> Printout] \in shell'.printed
  <2>1. shell \in Shells
    BY StateIs
  <2> QED BY <1>1, <2>1 DEF Shells
<1>4. /\ r.items = <<Mark("OutputStart"), Row(row, Printout, "Appended")>> /\ r.at.row = row
  BY DEF Read
<1> HIDE DEF row, r
<1>5. pump.open # NoCommand /\ pump.far.printed = <<>> /\ ~settled
  BY DEF Leaving, Awaiting, Ordered, InTurn
<1>6. ReadsRun(Len(reads))' /\ Len(reads') = 1
  <2>1. Len(reads') = 1 /\ reads'[1] = r
    BY <1>1, OneOf
  <2>2. (IsRun(reads[1]))'
    BY <1>3, <1>4, <2>1 DEF IsRun, OutputAt
  <2>3. (pump.open # NoCommand)' /\ ~settled'
    BY <1>2, <1>5
  <2>4. \A i \in 1..1 : i = 1
    OBVIOUS
  <2> QED BY <2>1, <2>2, <2>3, <2>4 DEF ReadsRun
<1>7. RunningOn'
  <2>1. (pump.far.owner = "FarEnd")' /\ (pump.far.printed = <<>>)'
        /\ (pump.far.watching <=> pump.far.awaiting_prompt)'
    BY <1>2, <1>5 DEF Leaving, Awaiting
  <2>2. Len(reads') <= 1
    BY <1>6
  <2> QED BY <1>2, <1>3, <1>6, <2>1, <2>2 DEF RunningOn
<1>8. HeadedInTurn'
  <2>1. Kept(headings) = Append(ran, trim(shell.line))
    BY DEF HeadedInTurn, Leaving, Awaiting
  <2> QED BY <1>1, <1>2, <1>3, <2>1 DEF HeadedInTurn
<1>9. RowsAreKept'
  BY <1>2, <1>3 DEF RowsAreKept
<1> QED BY <1>7, <1>8, <1>9

\* or is interrupted; and a command may end by itself.
LEMMA EndsInStep ==
  ASSUME Ordered, RunningOn, shell.phase = "running", HeadedInTurn, RowsAreKept,
         Prompting(<<Done>>), keys' = <<>>, ran' = ran,
         UNCHANGED <<tracker, pump, screen, settled, pasted, headings, transcript>>
  PROVE  RunningOn' /\ HeadedInTurn' /\ RowsAreKept'
<1> DEFINE row == shell.next
           r   == PromptOn(row, <<Done>>)
           n   == Len(reads)
<1>1. BeginsAnew(row) /\ reads' = Append(reads, r)
  BY BeginsIs
<1> HIDE DEF row, r
<1>2. n \in {0, 1} /\ ReadsRun(n)
  <2>1. Len(reads) \in Nat
    BY StateIs, SeqIs
  <2>2. Len(reads) <= 1 /\ ReadsRun(Len(reads))
    BY DEF RunningOn, Fresh
  <2>3. Len(reads) \in {0, 1}
    <3>1. \A m \in Nat : m <= 1 => m \in {0, 1}
      OBVIOUS
    <3>2. Len(reads) <= 1
      BY <2>2
    <3> QED BY <2>1, <3>1, <3>2
  <2> QED BY <2>2, <2>3
<1>3. Len(reads') = n + 1 /\ reads'[n + 1] = r /\ \A i \in 1..n : reads'[i] = reads[i]
  BY <1>1, StateIs, OneMore
<1>4. Len(reads') \in {1, 2} /\ Len(reads') - 1 = n
  BY <1>2, <1>3
<1>5. ReadsRun(Len(reads) - 1)'
  <2>1. ASSUME NEW i \in 1..n PROVE IsRun(reads[i])' /\ pump'.open # NoCommand /\ ~settled'
    <3>1. IsRun(reads[i]) /\ pump.open # NoCommand /\ ~settled
      BY <1>2 DEF ReadsRun
    <3>2. reads'[i] = reads[i] /\ shell'.printed = shell.printed
      BY <1>1, <1>3 DEF BeginsAnew
    <3> QED BY <3>1, <3>2 DEF IsRun, OutputAt
  <2> HIDE DEF n
  <2> QED BY <1>4, <2>1 DEF ReadsRun
<1>6. (reads[Len(reads)] = PromptOn(shell.row, <<Done>>))'
  BY <1>1, <1>3 DEF BeginsAnew, r
<1>7. Fresh' /\ Text(shell.row)' = <<>>
  BY <1>1 DEF BeginsAnew, Text
<1>8. RunningOn'
  <2>1. (pump.far.owner = "FarEnd")' /\ (pump.far.printed = <<>>)'
        /\ (pump.far.watching <=> pump.far.awaiting_prompt)'
    BY DEF RunningOn
  <2> QED BY <1>4, <1>5, <1>6, <1>7, <2>1 DEF RunningOn
<1>9. HeadedInTurn'
  <2>1. keys' # <<"Enter">>
    OBVIOUS
  <2> QED BY <2>1 DEF HeadedInTurn
<1>10. RowsAreKept'
  BY <1>1, BegunRows
<1> QED BY <1>8, <1>9, <1>10

LEMMA FinishInStep ==
  ASSUME Ordered, Patient, Stages, HeadedInTurn, RowsAreKept, Finish
  PROVE  Stages' /\ HeadedInTurn' /\ RowsAreKept'
<1>1. /\ shell.phase = "running" /\ keys' = <<>> /\ Prompting(<<Done>>) /\ ran' = ran
      /\ UNCHANGED <<tracker, pump, screen, settled, pasted, headings, transcript>>
  BY DEF Finish
<1>2. RunningOn
  BY <1>1 DEF Stages, OwnedHere, AtTheLine, KeyAnswered, AnswerSeen, ListedBelow, ListingSeen,
              Leaving, LineLeft, BackAtPrompt, Watching, Awaiting, Fresh
<1> QED BY <1>1, <1>2, EndsInStep DEF Stages

\* What keys do not mean.
LEMMA KeysApart ==
  /\ "Enter" \notin Tokens /\ "CtrlC" \notin Tokens /\ "Tab" \notin Tokens
BY KeysAssumption DEF EditingKeys

LEMMA TakeInStep ==
  ASSUME Ordered, Stages, HeadedInTurn, RowsAreKept, Take
  PROVE  Stages' /\ HeadedInTurn' /\ RowsAreKept'
<1>1. keys # <<>> /\ Answer(Head(keys))
  BY TakeIs
<1>2. shell \in Shells /\ Numbered(shell) /\ shell.cursor <= Len(shell.line)
      /\ shell.line \in Seq(Typed) /\ shell.cursor \in Nat
  BY StateIs
<1>3. CASE AtTheLine
  <2>1. PICK key \in Keys \ {"Enter", "CtrlC"} : keys = <<key>> /\ Watched
    BY <1>1, <1>3 DEF AtTheLine
  <2>2. Answer(key) /\ shell.phase = "prompt"
    BY <1>1, <1>3, <2>1, OneOf DEF AtTheLine
  <2>3. CASE key = "Tab" /\ trim(shell.line) # <<>>
    <3>1. Listed
      BY <2>2, <2>3, KeysApart DEF Answer
    <3> QED BY <1>3, <2>1, <2>3, <3>1, TakeLists DEF Stages
  <2>4. CASE key = "Tab" /\ trim(shell.line) = <<>>
    <3>1. Bell
      BY <2>2, <2>4, KeysApart DEF Answer
    <3>2. Edits(key)
      BY <1>2, <3>1 DEF Edits, Bell
    <3> QED BY <1>3, <2>1, <3>2, TakeEdits DEF Stages
  <2>5. CASE key # "Tab"
    <3>1. key \in Keys \cup {"Paste"} /\ key \notin {"Enter", "CtrlC"}
      BY <2>1
    <3>2. Edits(key)
      BY <1>2, <2>2, <2>5, <3>1, KeyEdits
    <3> QED BY <1>3, <2>1, <3>2, TakeEdits DEF Stages
  <2> QED BY <2>3, <2>4, <2>5
<1>4. CASE Leaving
  <2>1. shell.phase = "prompt" /\ keys \in {<<"Enter">>, <<"CtrlC">>}
    BY <1>4 DEF Leaving, Awaiting
  <2>2. CASE keys = <<"Enter">> /\ trim(shell.line) = <<>>
    <3>1. Answer("Enter")
      BY <1>1, <2>2, OneOf
    <3>2. Prompting(<<Mark("OutputStart"), Done>>) /\ ran' = ran
      BY <2>1, <2>2, <3>1, KeysApart DEF Answer
    <3> QED BY <1>4, <2>2, <3>2, TakeLeavesLine DEF Stages
  <2>3. CASE keys = <<"Enter">> /\ trim(shell.line) # <<>>
    <3>1. Answer("Enter")
      BY <1>1, <2>3, OneOf
    <3>2. PICK visible \in BOOLEAN : Run(visible)
      BY <2>1, <2>3, <3>1, KeysApart DEF Answer
    <3> QED BY <1>4, <2>3, <3>2, TakeRuns DEF Stages
  <2>4. CASE keys = <<"CtrlC">>
    <3>1. Answer("CtrlC")
      BY <1>1, <2>4, OneOf
    <3>2. Prompting(<<Row(shell.row, Refusal, "Appended"), Mark("OutputStart"), Done>>)
          /\ ran' = ran
      BY <2>1, <3>1, KeysApart DEF Answer
    <3>3. keys # <<"Enter">>
      BY <2>4
    <3> QED BY <1>4, <3>2, <3>3, TakeLeavesLine DEF Stages
  <2> QED BY <2>1, <2>2, <2>3, <2>4
<1>5. CASE RunningOn /\ shell.phase = "running" /\ keys = <<"CtrlC">> /\ reads = <<>>
  <2>1. Answer("CtrlC") /\ keys' = <<>>
    BY <1>1, <1>5, OneOf, TakeIs
  <2>2. Prompting(<<Done>>) /\ ran' = ran
    BY <1>5, <2>1 DEF Answer
  <2>3. UNCHANGED <<tracker, pump, screen, settled, pasted, headings, transcript>>
    BY TakeIs
  <2> QED BY <1>5, <2>1, <2>2, <2>3, EndsInStep DEF Stages
<1> QED BY <1>1, <1>3, <1>4, <1>5, KeyStage

\* A line that fits goes on fitting, whatever the shell makes of a key.
LEMMA LineStillFits ==
  ASSUME Ordered, OnOneRow, LineFits, NEW key \in Keys \cup {"Enter", "CtrlC"}, Answer(key)
  PROVE  LineFits'
<1>1. /\ shell \in Shells /\ shell.line \in Seq(Typed) /\ shell.cursor \in Nat
      /\ Len(shell.line) \in Nat /\ shell.cursor <= Len(shell.line)
  BY StateIs
<1>2. /\ Len(Prompt) = 1 /\ Width \in Nat /\ MaxLine \in Nat /\ Len(Recalled) \in Nat
      /\ 1 + MaxLine < Width /\ 1 + Len(Recalled) < Width /\ 1 + Len(shell.line) < Width
  BY RecalledAssumption, WidthAssumption DEF Prompt, LineFits, OnOneRow
<1>3. ASSUME NEW to, NEW c, Edited(to, c), 1 + Len(to) < Width PROVE LineFits'
  <2>1. shell'.line = to
    BY <1>1, <1>3 DEF Edited, Shells
  <2> QED BY <1>2, <1>3, <2>1 DEF LineFits
<1>4. ASSUME NEW before, Prompting(before) PROVE LineFits'
  <2>1. shell'.line = <<>> /\ Len(<<>>) = 0
    BY <1>1, <1>4 DEF Prompting, Shells
  <2> QED BY <1>2, <2>1 DEF LineFits
<1>5. ASSUME Listed \/ \E visible \in BOOLEAN : Run(visible) PROVE LineFits'
  <2>1. shell'.line = shell.line
    BY <1>1, <1>5 DEF Listed, Run, Shells
  <2> QED BY <2>1 DEF LineFits
<1>6. Bell => LineFits'
  BY <1>2, <1>3 DEF Bell
<1>7. key # "Paste"
  BY KeysAssumption
<1>8. ASSUME key \in Tokens, Len(shell.line) < MaxLine, Inserted(<<key>>) PROVE LineFits'
  <2>1. key \in Typed
    BY <1>8, KeysAssumption DEF Typed, EditingKeys
  <2>2. <<key>> \in Seq(Typed) /\ Len(<<key>>) = 1
    BY <2>1
  <2> DEFINE to == SubSeq(shell.line, 1, shell.cursor) \o <<key>>
                      \o SubSeq(shell.line, shell.cursor + 1, Len(shell.line))
  <2>3. Len(to) = Len(shell.line) + 1
    BY <1>1, <2>2, InsertedTyped
  <2>4. Edited(to, shell.cursor + Len(<<key>>))
    BY <1>8 DEF Inserted
  <2> HIDE DEF to
  <2>5. 1 + Len(to) < Width
    BY <1>1, <1>2, <1>8, <2>3
  <2> QED BY <1>3, <2>4, <2>5
<1>9. ASSUME shell.cursor # 0, Edited(RemoveAt(shell.line, shell.cursor), shell.cursor - 1)
      PROVE  LineFits'
  <2> DEFINE to == RemoveAt(shell.line, shell.cursor)
  <2>1. Len(to) = Len(shell.line) - 1
    BY <1>1, <1>9, RemovedTyped
  <2> HIDE DEF to
  <2>2. 1 + Len(to) < Width
    BY <1>1, <1>2, <2>1
  <2> QED BY <1>3, <1>9, <2>2 DEF to
<1>10. \/ Bell \/ Listed \/ (\E visible \in BOOLEAN : Run(visible))
       \/ \E before : Prompting(before)
       \/ key \in Tokens /\ Len(shell.line) < MaxLine /\ Inserted(<<key>>)
       \/ Edited(Recalled, Len(Recalled))
       \/ Edited(shell.line, saturating_sub(shell.cursor, 1))
       \/ shell.cursor # 0 /\ Edited(RemoveAt(shell.line, shell.cursor), shell.cursor - 1)
  BY <1>7 DEF Answer
<1> QED BY <1>2, <1>3, <1>4, <1>5, <1>6, <1>8, <1>9, <1>10

\* Only the shell changes the line, at a key or at the end of a command.
LEMMA LineFitsStays ==
  ASSUME Ordered, OnOneRow, Stages, LineFits, Next, ~paste
  PROVE  LineFits'
<1>1. CASE Take
  <2>1. keys # <<>> /\ Answer(Head(keys))
    BY <1>1, TakeIs
  <2>2. Head(keys) \in Keys \cup {"Enter", "CtrlC"}
    BY <2>1, OneOf, KeyStage DEF AtTheLine, Leaving
  <2> QED BY <2>1, <2>2, LineStillFits
<1>2. CASE Finish
  <2>1. shell'.line = <<>> /\ Len(<<>>) = 0 /\ Len(shell.line) \in Nat
    BY <1>2, StateIs DEF Finish, Prompting, Shells
  <2>2. Len(Prompt) = 1 /\ Width \in Nat
    BY WidthAssumption DEF Prompt
  <2> QED BY <2>1, <2>2 DEF LineFits
<1>3. CASE shell' = shell
  BY <1>3 DEF LineFits
<1> QED BY <1>1, <1>2, <1>3 DEF Next, Press, Toggle, Receive, Settle

-----------------------------------------------------------------------------
(* The pump takes a read.                                                  *)
\* Which region a read fits in is told by how many items it has.
LEMMA RegionIs ==
  ASSUME NEW r, NEW region, NEW sh, Fits(r, region, sh)
  PROVE  /\ Len(r.items) = 3 => region = "Unstructured"
         /\ Len(r.items) = 4 => region = "Output"
         /\ Len(r.items) \in {0, 1, 2, 5, 6} => region = "CommandLine"
<1>1. FirstAt(r.items, r.at.row) => Len(r.items) = 3
  BY ReadsAre DEF FirstAt
<1>2. DoneAt(r.items, r.at.row) => Len(r.items) = 4
  BY ReadsAre DEF DoneAt
<1>3. BlankAt(r.items, r.at.row) => Len(r.items) = 5
  BY ReadsAre DEF BlankAt
<1>4. EditOf(r.items, sh) => Len(r.items) \in {0, 1}
  BY DEF EditOf
<1>5. DroppedAt(r.items, r.at.row, sh) => Len(r.items) = 6
  BY DEF DroppedAt
<1>6. ListedAt(r.items, r.at.row, sh) => Len(r.items) = 5
  BY DEF ListedAt
<1>7. OutputAt(r.items, r.at.row, sh) => Len(r.items) = 2
  BY DEF OutputAt
<1>8. \/ region = "Unstructured" /\ Len(r.items) = 3
      \/ region = "Output" /\ Len(r.items) = 4
      \/ region = "CommandLine" /\ Len(r.items) \in {0, 1, 2, 5, 6}
  BY <1>1, <1>2, <1>3, <1>4, <1>5, <1>6, <1>7 DEF Fits
<1> DEFINE n == Len(r.items)
<1>9. \/ region = "Unstructured" /\ n = 3
      \/ region = "Output" /\ n = 4
      \/ region = "CommandLine" /\ n \in {0, 1, 2, 5, 6}
  BY <1>8
<1> HIDE DEF n
<1>10. n = 3 => region = "Unstructured"
  BY <1>9
<1>11. n = 4 => region = "Output"
  BY <1>9
<1>12. n \in {0, 1, 2, 5, 6} => region = "CommandLine"
  BY <1>9
<1> QED BY <1>10, <1>11, <1>12 DEF n

LEMMA HearsIt ==
  ASSUME Ordered, Receive PROVE \E r, q : Reading(r, q)
<1> DEFINE r == reads[1]
           q == Received(pump, tracker, r.items)
<1>1. /\ IsSeq(reads) /\ reads # <<>> /\ Head(reads) = r /\ reads' = Tail(reads)
      /\ IsSeq(Tail(reads)) /\ Len(reads) \in Nat \ {0}
  BY OneLess DEF Ordered, Receive
<1>2. /\ screen' = r.at /\ Becomes(q) /\ settled' = (pump.far.owner = "FarEnd")
      /\ UNCHANGED <<keys, shell, presses, ran, pasted>>
  BY <1>1 DEF Receive, Received
<1> HIDE DEF q
<1>3. Fits(r, tracker.region, shell)
  <2>1. 1 \in 1..Len(reads) /\ 1 - 1 = 0
    BY <1>1
  <2>2. Fits(reads[1], RegionAfter(0, tracker, reads), shell)
    BY <2>1 DEF Ordered, Chained
  <2> QED BY <2>2 DEF RegionAfter
<1> HIDE DEF r
<1>4. Tracked(tracker, pump)
  BY DEF Ordered
<1>5. /\ Len(r.items) = 3 => tracker \in Tracker /\ ~tracker.markersSeen /\ ~tracker.blockOpen
      /\ Len(r.items) = 4 => Stands(tracker, "Output", TRUE)
      /\ Len(r.items) \in {0, 1, 2, 5, 6} => Stands(tracker, "CommandLine", FALSE)
  <2>1. tracker.region = "Unstructured" =>
           tracker \in Tracker /\ ~tracker.markersSeen /\ ~tracker.blockOpen
    BY <1>4 DEF Tracked
  <2>2. tracker.region = "Output" => Stands(tracker, "Output", TRUE)
    BY <1>4 DEF Tracked
  <2>3. tracker.region = "CommandLine" => Stands(tracker, "CommandLine", FALSE)
    <3>1. "CommandLine" # "Unstructured" /\ ("CommandLine" = "Output") = FALSE
      OBVIOUS
    <3> QED BY <1>4, <3>1 DEF Tracked
  <2>4. /\ Len(r.items) = 3 => tracker.region = "Unstructured"
        /\ Len(r.items) = 4 => tracker.region = "Output"
        /\ Len(r.items) \in {0, 1, 2, 5, 6} => tracker.region = "CommandLine"
    BY <1>3, RegionIs
  <2> QED BY <2>1, <2>2, <2>3, <2>4
<1>6. Reading(r, q)
  BY <1>1, <1>2, <1>5, StateIs DEF Reading, r, q
<1> QED BY <1>6

\* Reads of one or of two.
LEMMA FirstRead ==
  /\ \A r : <<r>>[1] = r /\ Tail(<<r>>) = <<>> /\ <<r>> # <<>>
  /\ \A s : IsSeq(s) /\ Len(s) = 1 => s # <<>> /\ Tail(s) = <<>>
  /\ \A s : IsSeq(s) /\ Len(s) = 2 => s # <<>> /\ Tail(s) = <<s[2]>> /\ Len(<<s[2]>>) = 1
<1>1. \A r : <<r>>[1] = r /\ Tail(<<r>>) = <<>> /\ <<r>> # <<>>
  OBVIOUS
<1>2. ASSUME NEW s, IsSeq(s), Len(s) = 1 PROVE s # <<>> /\ Tail(s) = <<>>
  <2>1. PICK S : s \in Seq(S)
    BY <1>2 DEF IsSeq
  <2>2. s # <<>> /\ Len(Tail(s)) = 0 /\ Tail(s) \in Seq(S)
    BY <1>2, <2>1
  <2>3. \A t : t \in Seq(S) /\ Len(t) = 0 => t = <<>>
    OBVIOUS
  <2> QED BY <2>2, <2>3
<1>3. ASSUME NEW s, IsSeq(s), Len(s) = 2
      PROVE  s # <<>> /\ Tail(s) = <<s[2]>> /\ Len(<<s[2]>>) = 1
  <2>1. PICK S : s \in Seq(S)
    BY <1>3 DEF IsSeq
  <2>2. s # <<>> /\ Len(Tail(s)) = 1 /\ Tail(s) \in Seq(S) /\ Tail(s)[1] = s[2]
    BY <1>3, <2>1
  <2>3. \A t : t \in Seq(S) /\ Len(t) = 1 => t = <<t[1]>>
    OBVIOUS
  <2>4. Tail(s) = <<s[2]>>
    BY <2>2, <2>3
  <2> QED BY <2>2, <2>4
<1> QED BY <1>1, <1>2, <1>3

LEMMA FreshLine ==
  ASSUME Fresh
  PROVE  /\ Line = Prompt /\ LineCaret = PromptAt(shell.row)
<1>1. trim_end(shell.line) = <<>>
  BY TrimmedOfNone DEF Fresh
<1>2. Prompt \o <<>> = Prompt
  BY EventsMore, TuplesAreSeqs DEF Prompt
<1>3. shell.cursor + 1 = Len(Prompt)
  BY PromptIs DEF Fresh
<1> QED BY <1>1, <1>2, <1>3 DEF Line, LineCaret, PromptAt

LEMMA PromptArrives ==
  ASSUME Ordered, Fresh, NEW a, NEW q, Prompted(q, a, shell.row), Becomes(q),
         a.lines[shell.row].text = <<>>, screen' = PromptAt(shell.row), shell' = shell
  PROVE  OnTheRow' /\ Fresh'
<1>1. Formed(q) /\ q.cursor = shell.row /\ q.echo.prompt # <<>> /\ q.echo.text = <<>>
  BY DEF Prompted
<1>2. shell.row \in Rows
  BY StateIs
<1>3. q.lines[shell.row].text = Prompt
  <2>1. q.lines[shell.row].text = <<>> \o Prompt
    BY <1>2 DEF Prompted
  <2>2. <<>> \o Prompt = Prompt
    BY DEF Prompt
  <2> QED BY <2>1, <2>2
<1>4. pump'.cursor = q.cursor /\ pump'.lines = q.lines /\ pump'.echo = q.echo
  BY <1>1, BecomesIs
<1>5. EchoHeard'
  BY <1>1, <1>4 DEF EchoHeard
<1>6. Text(shell.row)' = Line'
  BY <1>3, <1>4, FreshLine DEF Text, Line
<1>7. screen' = LineCaret'
  BY FreshLine DEF LineCaret
<1> QED BY <1>1, <1>4, <1>5, <1>6, <1>7 DEF OnTheRow, Fresh

\* The first prompt comes.
LEMMA ReceiveFirst ==
  ASSUME marks_output_start, Ordered, OwnedHere, HeadedInTurn, RowsAreKept, Receive
  PROVE  OwnedHere' /\ HeadedInTurn' /\ RowsAreKept'
<1>1. PICK r, q : Reading(r, q)
  BY HearsIt
<1>2. reads = <<PromptOn(shell.row, <<>>)>> /\ Text(shell.row) = <<>>
  BY <1>1 DEF OwnedHere, Reading
<1>3. /\ r = PromptOn(shell.row, <<>>) /\ reads' = <<>> /\ screen' = r.at
      /\ UNCHANGED <<keys, shell, ran>>
  BY <1>1, <1>2, FirstRead DEF Reading
<1>4. Len(r.items) = 3
  BY <1>3, ReadsAre
<1>5. tracker \in Tracker /\ ~tracker.markersSeen /\ ~tracker.blockOpen
  BY <1>1, <1>4 DEF Reading
<1>6. q = Received(pump, tracker, PromptOn(shell.row, <<>>).items) /\ Becomes(q)
      /\ Formed(pump)
  BY <1>1, <1>3 DEF Reading
<1>7. shell.row \in Rows
  BY StateIs
<1>8. Prompted(q, pump, shell.row) /\ Headings(q) = Headings(pump)
  <2>1. LET items == PromptOn(shell.row, <<>>).items
            qq    == Received(pump, tracker, items)
        IN  /\ AtPromptNow(tracker, items) /\ Prompted(qq, pump, shell.row)
            /\ Headings(qq) = Headings(pump) /\ qq.integration = "Integrated"
    BY <1>5, <1>6, <1>7, FirstIs
  <2> QED BY <1>6, <2>1
<1>9. screen' = PromptAt(shell.row)
  BY <1>3 DEF PromptOn, Read, PromptAt
<1>10. OnTheRow' /\ Fresh'
  BY <1>2, <1>3, <1>6, <1>8, <1>9, PromptArrives DEF OwnedHere, Text
<1>11. pump'.far = q.far /\ headings' = headings /\ transcript' = transcript
  BY <1>6, <1>8, BecomesIs, StateIs DEF Prompted
<1>12. q.far.owner = pump.far.owner
  BY <1>8, StateIs, FarAfterIs DEF Prompted
<1>13. OwnedHere'
  BY <1>3, <1>10, <1>11, <1>12 DEF OwnedHere
<1>14. HeadedInTurn'
  BY <1>3, <1>11 DEF HeadedInTurn
<1>15. RowsAreKept'
  BY <1>3, <1>11 DEF RowsAreKept
<1> QED BY <1>13, <1>14, <1>15

LEMMA HandMore ==
  ASSUME NEW p, p.far \in FarEndLines, NEW region, region # "Output", p.far.owner = "FarEnd",
         NEW id, NEW text, NEW revision
  PROVE  HandOf(FarAfter(p, region, id, text, revision).printed, p.far.printed, id)
<1> DEFINE f == FarAfter(p, region, id, text, revision)
<1>1. f.printed = Append(p.far.printed, Entry(id, text, revision))
  <2>1. FarAfter(p, region, id, text, revision).printed
           = IF region = "Output" \/ p.far.owner # "FarEnd" THEN p.far.printed
             ELSE Append(p.far.printed, Entry(id, text, revision))
    BY DEF FarAfter, FarEndLines
  <2> QED BY <2>1
<1>2. IsSeq(p.far.printed)
  BY DEF FarEndLines, IsSeq
<1>3. Entry(id, text, revision).id = id
  BY DEF Entry
<1> HIDE DEF f
<1>4. ASSUME NEW row, row # id PROVE Of(f.printed, row) = Of(p.far.printed, row)
  BY <1>1, <1>2, <1>3, <1>4, OfMore
<1>5. IsSeq(f.printed)
  BY <1>1, <1>2, AppendIsSeq
<1> QED BY <1>4, <1>5 DEF HandOf, f

\* The first row that is noted.
LEMMA FirstNoted ==
  ASSUME NEW far, far.owner = "FarEnd", far.watching, far.changed = <<>>,
         NEW id, NEW before, NEW after
  PROVE  Noted(far, id, before, after) =
            <<[line |-> id, before |-> before, after |-> after]>>
<1>1. Notes(far, id) = {}
  BY DEF Notes
<1> QED BY <1>1, OneOf DEF Noted

\* The echo of what is rewritten as the prompt is nothing, if it is known.
LEMMA EchoOfPrompt ==
  ASSUME NEW echo \in Echoes, echo.prompt # <<>>
  PROVE  observe_echo(echo, "CommandLine", Prompt, "Rewritten").text \in {<<>>, NoText}
<1> DEFINE m == Len(echo.prompt)
           rest == SubSeq(Prompt, m + 1, Len(Prompt))
<1>1. observe_echo(echo, "CommandLine", Prompt, "Rewritten").text =
         IF IsPrefix(echo.prompt, Prompt) THEN rest ELSE NoText
  BY DEF observe_echo, Echoes
<1>2. m \in Nat /\ m # 0
  <2>1. echo.prompt \in Seq(Glyphs) /\ echo.prompt # <<>>
    BY DEF Echoes, Texts
  <2> QED BY <2>1
<1>3. rest = <<>>
  <2>1. Prompt \in Seq(Glyphs) /\ Len(Prompt) = 1
    BY PromptIs DEF Texts
  <2>2. m + 1 \in Nat \ {0} /\ 1 \in Nat /\ 1 <= Len(Prompt) /\ ~(m + 1 <= 1)
    BY <1>2, <2>1
  <2>3. SubSeq(Prompt, m + 1, 1) \in Seq(Glyphs) /\ Len(SubSeq(Prompt, m + 1, 1)) = 0
    BY <2>1, <2>2, PartOf
  <2>4. \A t : t \in Seq(Glyphs) /\ Len(t) = 0 => t = <<>>
    OBVIOUS
  <2>5. rest = SubSeq(Prompt, m + 1, 1)
    BY <2>1
  <2> QED BY <2>3, <2>4, <2>5
<1> QED BY <1>1, <1>3

\* A tail makes a text longer.
LEMMA LongerIsNoPrompt ==
  ASSUME NEW t \in Texts, NEW tail \in Texts, Prompt \o t \o tail # Prompt \o t
  PROVE  Prompt \o t \o tail # Prompt
<1> DEFINE b == Prompt \o t
<1>1. b \in Texts /\ Len(b) = Len(t) + 1 /\ Len(t) \in Nat
  BY WithPrompt
<1> HIDE DEF b
<1>2. Len(b \o tail) = Len(b) + Len(tail) /\ Len(tail) \in Nat
  <2>1. Len(b \o tail) = Len(b) + Len(tail)
    BY <1>1, JoinedTexts
  <2>2. Len(tail) \in Nat
    BY DEF Texts
  <2> QED BY <2>1, <2>2
<1>3. Len(tail) # 0
  <2> SUFFICES ASSUME Len(tail) = 0 PROVE FALSE
    OBVIOUS
  <2>1. tail = <<>>
    BY DEF Texts
  <2>2. b \o <<>> = b
    BY <1>1 DEF Texts
  <2> QED BY <2>1, <2>2 DEF b
<1>4. Len(b \o tail) # Len(Prompt)
  BY <1>1, <1>2, <1>3, PromptIs
<1> QED BY <1>4 DEF b

\* The answer redraws nothing,
LEMMA ReceiveNothing ==
  ASSUME marks_output_start, Ordered, KeyAnswered, HeadedInTurn, RowsAreKept, Receive,
         Prompt \o trim_end(pump.far.held) = Line
  PROVE  AnswerSeen' /\ HeadedInTurn' /\ RowsAreKept'
<1>1. PICK r, q : Reading(r, q)
  BY HearsIt
<1>2. trim_end(pump.far.held) \in Texts /\ trim_end(shell.line) \in Texts
      /\ pump.far.held \in Texts
  <2>1. pump.far.held \in Texts
    BY StateIs DEF FarEndLines
  <2> QED BY <2>1, StateIs, TextsTrim
<1>3. Redrawn(shell.row, Prompt \o trim_end(pump.far.held), Line) = <<>>
  BY DEF Redrawn
<1>4. /\ r = Read(<<>>, shell.row, Len(Prompt) + shell.cursor, TRUE) /\ reads' = <<>>
      /\ screen' = r.at /\ UNCHANGED <<keys, shell, ran>> /\ settled'
  BY <1>1, <1>3, FirstRead DEF Reading, KeyAnswered, Holding
<1>5. r.items = <<>> /\ Len(r.items) = 0
  BY <1>4 DEF Read
<1>6. Stands(tracker, "CommandLine", FALSE) /\ q = Received(pump, tracker, <<>>) /\ Becomes(q)
      /\ Formed(pump)
  BY <1>1, <1>5 DEF Reading
<1>7. Calm(q, pump)
  BY <1>6, NoEditIs
<1>8. Unmoved
  BY <1>6, <1>7, StaysPut DEF Calm
<1>9. pump'.far = pump.far /\ pump'.field = pump.field /\ headings' = headings
      /\ transcript' = transcript
  BY <1>6, <1>7, BecomesIs, StateIs DEF Calm
<1>10. /\ pump.cursor = shell.row /\ shell.row \in Rows /\ EchoHeard /\ Text(shell.row) = Line
  BY StateIs DEF KeyAnswered, Holding
<1>11. screen' = LineCaret'
  <2>1. Len(Prompt) + shell.cursor = shell.cursor + 1
    BY PromptIs, StateIs
  <2> QED BY <1>4, <2>1 DEF Read, LineCaret
<1>12. OnTheRow'
  <2>1. Text(shell.row)' = Line'
    <3>1. pump'.lines[shell.row].text = Line
      BY <1>8, <1>10 DEF Unmoved, Text
    <3> QED BY <1>4, <3>1 DEF Text, Line
  <2>2. pump'.cursor = shell'.row /\ EchoHeard'
    BY <1>4, <1>8, <1>10 DEF Unmoved
  <2> QED BY <1>11, <2>1, <2>2 DEF OnTheRow
<1>13. OnlyOn({shell.row})'
  <2>1. pump.far.printed = <<>>
    BY DEF KeyAnswered, Ordered, InTurn
  <2> QED BY <1>9, <2>1, OfNone DEF OnlyOn
<1>14. Watching'
  <2>1. /\ (keys = <<>>)' /\ (reads = <<>>)' /\ settled' /\ (shell.phase = "prompt")'
        /\ (pump.far.owner = "FarEnd")' /\ (~pump.far.awaiting_prompt)'
        /\ (pump.far.left = NoRow)' /\ (pump.far.watching)'
        /\ (pump.far.held = pump.field.text)' /\ (pump.field.caret <= Len(pump.far.held))'
    BY <1>4, <1>9 DEF KeyAnswered, Holding, Watched
  <2>2. (OnlyOn({shell.row}))'
    BY <1>13
  <2> QED BY <1>12, <2>1, <2>2 DEF Watching
<1>15. AnswerSeen'
  <2>1. (pump.far.anchor = [line |-> shell.row, column |-> 1])'
        /\ (pump.far.was = [column |-> pump.field.caret + 1, row |-> <<shell.row, 0>>])'
        /\ (pump.far.changed = <<>>)'
    BY <1>4, <1>9 DEF KeyAnswered, Holding, Watched
  <2>2. Agreeing'
    <3>1. trim_end(pump.far.held) = trim_end(shell.line)
      BY <1>2, SamePrompt DEF Line
    <3> QED BY <1>4, <1>9, <3>1 DEF Agreeing
  <2> QED BY <1>14, <2>1, <2>2 DEF AnswerSeen
<1>16. HeadedInTurn'
  BY <1>4, <1>9 DEF HeadedInTurn
<1>17. RowsAreKept'
  BY <1>4, <1>9 DEF RowsAreKept
<1> QED BY <1>15, <1>16, <1>17

\* or the row.
LEMMA ReceiveRow ==
  ASSUME marks_output_start, Ordered, KeyAnswered, HeadedInTurn, RowsAreKept, Receive,
         Prompt \o trim_end(pump.far.held) # Line
  PROVE  AnswerSeen' /\ HeadedInTurn' /\ RowsAreKept'
<1> DEFINE row    == shell.row
           before == Prompt \o trim_end(pump.far.held)
<1>1. PICK r, q : Reading(r, q)
  BY HearsIt
<1>2. trim_end(pump.far.held) \in Texts /\ before \in Texts /\ Line \in Texts
  <2>1. pump.far.held \in Texts
    BY StateIs DEF FarEndLines
  <2>2. trim_end(pump.far.held) \in Texts /\ trim_end(shell.line) \in Texts
    BY <2>1, StateIs, TextsTrim
  <2> QED BY <2>2, WithPrompt DEF Line
<1>3. /\ pump.cursor = row /\ row \in Rows /\ EchoHeard /\ Text(row) = before
      /\ pump.lines[row].text = before
  BY StateIs DEF KeyAnswered, Holding, Text
<1> HIDE DEF before
<1>4. PICK text \in Texts, revision \in Revisions :
        /\ Redrawn(row, before, Line) = <<Row(row, text, revision)>>
        /\ After(before, text, revision) = Line
        /\ revision = "Rewritten" => text = Line
  <2>1. before # Line
    BY DEF before
  <2>2. Redraws(Redrawn(row, before, Line), row, before, Line)
    BY <1>2, <2>1, RedrawnIs
  <2> QED BY <2>2 DEF Redraws
<1>5. /\ r = Read(<<Row(row, text, revision)>>, row, Len(Prompt) + shell.cursor, TRUE)
      /\ reads' = <<>> /\ screen' = r.at /\ UNCHANGED <<keys, shell, ran>> /\ settled'
  BY <1>1, <1>4, FirstRead DEF Reading, KeyAnswered, Holding, before
<1>6. r.items = <<Row(row, text, revision)>> /\ Len(r.items) = 1
  BY <1>5, OneOf DEF Read
<1>7. /\ Stands(tracker, "CommandLine", FALSE) /\ Becomes(q) /\ Formed(pump)
      /\ q = Received(pump, tracker, r.items)
  BY <1>1, <1>6 DEF Reading
<1>8. Fed(q, pump, "CommandLine", row, text, revision)
  <2>1. ~Again(q, pump, "CommandLine", row, text, revision)
    <3>1. ~recoloured(pump, row, text, revision)
      BY <1>3, <1>4 DEF recoloured, before
    <3> QED BY <3>1 DEF Again
  <2> QED BY <1>3, <1>6, <1>7, <2>1, EditIs
<1>9. Formed(q) /\ q.far = FarAfter(pump, "CommandLine", row, text, revision)
      /\ q.field = pump.field /\ q.cursor = row
      /\ q.echo = observe_echo(pump.echo, "CommandLine", text, revision)
      /\ q.lines[row].text = Line
      /\ Results(q) = Results(pump) /\ Headings(q) = Headings(pump)
  BY <1>3, <1>4, <1>8 DEF Fed
<1>10. /\ pump'.far = q.far /\ pump'.field = pump.field /\ headings' = headings
       /\ transcript' = transcript /\ pump'.cursor = row /\ pump'.echo = q.echo
       /\ pump'.lines[row].text = Line
  BY <1>7, <1>9, BecomesIs, StateIs
<1>11. pump.far \in FarEndLines /\ pump.far.printed = <<>>
  BY StateIs DEF KeyAnswered, Ordered, InTurn
<1>12. /\ q.far.owner = pump.far.owner /\ q.far.anchor = pump.far.anchor
       /\ q.far.left = pump.far.left /\ q.far.awaiting_prompt = pump.far.awaiting_prompt
       /\ q.far.watching = pump.far.watching /\ q.far.was = pump.far.was
       /\ q.far.held = pump.far.held
       /\ q.far.changed = <<[line |-> row, before |-> before, after |-> Line]>>
  <2>1. q.far.changed = Noted(pump.far, row, before, Line)
    BY <1>3, <1>4, <1>9, <1>11, FarAfterIs
  <2>2. Noted(pump.far, row, before, Line)
           = <<[line |-> row, before |-> before, after |-> Line]>>
    BY FirstNoted DEF KeyAnswered, Holding, Watched
  <2> QED BY <1>9, <1>11, <2>1, <2>2, FarAfterIs
<1>13. EchoHeard'
  <2>1. pump.echo \in Echoes /\ pump.echo.prompt # <<>>
    BY <1>3, StateIs DEF Formed, Echoes, EchoHeard
  <2>2. q.echo.prompt = pump.echo.prompt
    BY <1>9, <2>1 DEF observe_echo, Echoes
  <2>3. ASSUME Line = Prompt PROVE q.echo.text \in {<<>>, NoText}
    <3>1. revision # "Appended"
      <4> SUFFICES ASSUME revision = "Appended" PROVE FALSE
        OBVIOUS
      <4>1. before \o text = Line
        BY <1>4 DEF After
      <4>2. before \o text # before
        BY <4>1 DEF before
      <4>3. before \o text # Prompt
        BY <1>2, <4>2, LongerIsNoPrompt DEF before
      <4> QED BY <2>3, <4>1, <4>3
    <3>2. revision = "Rewritten" /\ text = Prompt
      BY <1>4, <2>3, <3>1 DEF Revisions
    <3> QED BY <1>9, <2>1, <3>2, EchoOfPrompt
  <2>4. (Text(pump.cursor))' = Line
    BY <1>10 DEF Text
  <2> QED BY <1>10, <2>1, <2>2, <2>3, <2>4 DEF EchoHeard
<1>14. screen' = LineCaret'
  <2>1. Len(Prompt) + shell.cursor = shell.cursor + 1
    BY PromptIs, StateIs
  <2> QED BY <1>5, <2>1 DEF Read, LineCaret
<1>15. OnTheRow'
  BY <1>5, <1>10, <1>13, <1>14 DEF OnTheRow, Text, Line
<1>16. (OnlyOn({shell.row}))'
  <2>1. ASSUME NEW other, other # row PROVE Of(q.far.printed, other) = {}
    <3>1. pump.far.owner = "FarEnd"
      BY DEF KeyAnswered, Holding
    <3>2. Of(q.far.printed, other) = Of(pump.far.printed, other)
      <4>1. "CommandLine" # "Output"
        OBVIOUS
      <4>2. HandOf(q.far.printed, pump.far.printed, row)
        BY <1>9, <1>11, <3>1, <4>1, HandMore
      <4> QED BY <2>1, <4>2 DEF HandOf
    <3> QED BY <1>11, <3>2, OfNone
  <2> QED BY <1>5, <1>10, <2>1 DEF OnlyOn
<1>17. Watching'
  <2>1. /\ (keys = <<>>)' /\ (reads = <<>>)' /\ settled' /\ (shell.phase = "prompt")'
        /\ (pump.far.owner = "FarEnd")' /\ (~pump.far.awaiting_prompt)'
        /\ (pump.far.left = NoRow)' /\ (pump.far.watching)'
        /\ (pump.far.held = pump.field.text)' /\ (pump.field.caret <= Len(pump.far.held))'
    BY <1>5, <1>10, <1>12 DEF KeyAnswered, Holding, Watched
  <2> QED BY <1>15, <1>16, <2>1 DEF Watching
<1>18. AnswerSeen'
  <2>1. (pump.far.anchor = [line |-> shell.row, column |-> 1])'
        /\ (pump.far.was = [column |-> pump.field.caret + 1, row |-> <<shell.row, 0>>])'
    BY <1>5, <1>10, <1>12 DEF KeyAnswered, Holding, Watched
  <2>2. (/\ Len(pump.far.changed) = 1
         /\ pump.far.changed[1].line = shell.row /\ pump.far.changed[1].after = Line)'
    <3>1. Line' = Line
      BY <1>5 DEF Line
    <3> QED BY <1>5, <1>10, <1>12, <3>1, OneOf
  <2> QED BY <1>17, <2>1, <2>2 DEF AnswerSeen
<1>19. HeadedInTurn'
  BY <1>5, <1>10 DEF HeadedInTurn
<1>20. RowsAreKept'
  BY <1>5, <1>10 DEF RowsAreKept
<1> QED BY <1>18, <1>19, <1>20

LEMMA RowOfIs ==
  ASSUME NEW p, Formed(p), NEW q, NEW region \in {"CommandLine", "Prompt"}, NEW id \in Rows,
         NEW text, Fed(q, p, region, id, text, "Appended")
  PROVE  RowOf(q, p, id, text)
<1>1. p.far \in FarEndLines /\ region # "Output"
  BY DEF Formed
<1>2. q.far = FarAfter(p, region, id, text, "Appended")
  BY DEF Fed
<1>3. SameLine(q.far, p.far)
      /\ q.far.changed = Noted(p.far, id, p.lines[id].text, p.lines[id].text \o text)
  BY <1>1, <1>2, FarAfterIs DEF SameLine, After
<1>4. p.far.owner = "FarEnd" => HandOf(q.far.printed, p.far.printed, id)
  BY <1>1, <1>2, HandMore
<1>5. /\ Formed(q) /\ q.field = p.field /\ q.cursor = id /\ q.open = p.open
      /\ \A row \in Rows : q.lines[row].text = IF row = id THEN p.lines[row].text \o text
                                               ELSE p.lines[row].text
      /\ Results(q) = Results(p) /\ Headings(q) = Headings(p)
  BY <1>1 DEF Fed, After
<1> QED BY <1>3, <1>4, <1>5 DEF RowOf

\* The second row that is noted, and then once more.
LEMMA SecondNoted ==
  ASSUME NEW far, far.owner = "FarEnd", far.watching, NEW e, far.changed = <<e>>,
         NEW id, e.line # id, NEW before, NEW after
  PROVE  Noted(far, id, before, after)
            = <<e, [line |-> id, before |-> before, after |-> after]>>
<1>1. Notes(far, id) = {}
  <2>1. DOMAIN far.changed = {1} /\ far.changed[1] = e
    OBVIOUS
  <2> QED BY <2>1 DEF Notes
<1>2. \A x : Append(<<e>>, x) = <<e, x>>
  BY Tuples
<1> QED BY <1>1, <1>2 DEF Noted

LEMMA NotedAgain ==
  ASSUME NEW far, far.owner = "FarEnd", far.watching, NEW e, NEW id, e.line # id,
         NEW b, NEW a, far.changed = <<e, [line |-> id, before |-> b, after |-> a]>>,
         NEW before, NEW after
  PROVE  TwoNoted(Noted(far, id, before, after), e, id, after)
<1> DEFINE x == [line |-> id, before |-> b, after |-> a]
           s == far.changed
<1>1. s = <<e, x>> /\ x.line = id
  OBVIOUS
<1> HIDE DEF x
<1>2. DOMAIN s = {1, 2} /\ s[1] = e /\ s[2] = x /\ Len(s) = 2
  BY <1>1
<1>3. Notes(far, id) = {2}
  BY <1>1, <1>2 DEF Notes
<1>4. Min({2}) = 2
  <2>1. Min({2}) \in {2}
    BY LeastOf
  <2> QED BY <2>1
<1>5. Noted(far, id, before, after) = [s EXCEPT ![2] = [@ EXCEPT !.after = after]]
  BY <1>3, <1>4 DEF Noted
<1> DEFINE y == [x EXCEPT !.after = after]
<1>6. [s EXCEPT ![2] = [@ EXCEPT !.after = after]] = <<e, y>>
  <2>1. [s EXCEPT ![2] = [@ EXCEPT !.after = after]] = [s EXCEPT ![2] = y]
    BY <1>2
  <2> HIDE DEF y, s
  <2>2. [s EXCEPT ![2] = y] = <<e, y>>
    BY <1>1
  <2> QED BY <2>1, <2>2
<1>7. y.line = id /\ y.after = after
  BY DEF x
<1> HIDE DEF y, s
<1>8. Len(<<e, y>>) = 2 /\ <<e, y>>[1] = e /\ <<e, y>>[2] = y
  OBVIOUS
<1> QED BY <1>5, <1>6, <1>7, <1>8 DEF TwoNoted

\* The prompt and the line are drawn again below a listing.
LEMMA ReceiveListing ==
  ASSUME marks_output_start, Ordered, ListedBelow, HeadedInTurn, RowsAreKept, Receive
  PROVE  ListingSeen' /\ HeadedInTurn' /\ RowsAreKept'
<1> DEFINE row  == shell.row
           text == trim_end(shell.line)
<1>1. PICK r, q : Reading(r, q)
  BY HearsIt
<1>2. PICK list \in Rows \ shell.rows :
         reads = <<Read(<<Row(list, Listing, "Appended"), Mark("PromptStart"),
                          Row(row, Prompt, "Appended"), Mark("CommandStart"),
                          Row(row, text, "Appended")>>,
                        row, Len(Prompt) + shell.cursor, TRUE)>>
  BY DEF ListedBelow
<1>3. /\ r = Read(<<Row(list, Listing, "Appended"), Mark("PromptStart"),
                    Row(row, Prompt, "Appended"), Mark("CommandStart"),
                    Row(row, text, "Appended")>>,
                  row, Len(Prompt) + shell.cursor, TRUE)
      /\ reads' = <<>> /\ screen' = r.at /\ UNCHANGED <<keys, shell, ran>> /\ settled'
  BY <1>1, <1>2, FirstRead DEF Reading, ListedBelow, Holding
<1>4. r.items = <<Row(list, Listing, "Appended"), Mark("PromptStart"),
                  Row(row, Prompt, "Appended"), Mark("CommandStart"),
                  Row(row, text, "Appended")>>
      /\ Len(r.items) = 5
  BY <1>3, FiveItems DEF Read
<1>5. /\ Stands(tracker, "CommandLine", FALSE) /\ Becomes(q) /\ Formed(pump)
      /\ q = Received(pump, tracker, r.items)
  BY <1>1, <1>4 DEF Reading
<1>6. /\ row \in Rows /\ list # row /\ text \in Texts /\ text # <<>>
      /\ pump.lines[row].text = <<>> /\ pump.echo \in Echoes
  BY StateIs, TextsTrim DEF ListedBelow, Text, Formed, Echoes
<1> HIDE DEF row, text
<1>7. Lists(q, pump, tracker, r.items, list, row, text)
  BY <1>4, <1>5, <1>6, ListedIs
<1>8. PICK a, b : /\ Fed(a, pump, "CommandLine", list, Listing, "Appended")
                  /\ Fed(b, a, "Prompt", row, Prompt, "Appended")
                  /\ Fed(q, b, "CommandLine", row, text, "Appended")
  BY <1>7 DEF Lists
<1>9. RowOf(a, pump, list, Listing) /\ RowOf(b, a, row, Prompt) /\ RowOf(q, b, row, text)
  <2>1. RowOf(a, pump, list, Listing)
    BY <1>5, <1>8, RowOfIs
  <2>2. RowOf(b, a, row, Prompt)
    BY <1>6, <1>8, <2>1, RowOfIs DEF RowOf
  <2>3. RowOf(q, b, row, text)
    BY <1>6, <1>8, <2>2, RowOfIs DEF RowOf
  <2> QED BY <2>1, <2>2, <2>3
<1>10. /\ pump.far.owner = "FarEnd" /\ pump.far.watching /\ pump.far.changed = <<>>
       /\ pump.far.printed = <<>>
  BY DEF ListedBelow, Holding, Watched, Ordered, InTurn
<1>11. /\ SameLine(a.far, pump.far) /\ SameLine(b.far, pump.far) /\ SameLine(q.far, pump.far)
       /\ Formed(q) /\ q.field = pump.field /\ q.cursor = row
       /\ Results(q) = Results(pump) /\ Headings(q) = Headings(pump)
  BY <1>9 DEF RowOf, SameLine
<1>12. a.lines[row].text = <<>> /\ b.lines[row].text = Prompt
       /\ q.lines[row].text = Prompt \o text
  <2>1. a.lines[row].text = <<>>
    BY <1>6, <1>9 DEF RowOf
  <2>2. <<>> \o Prompt = Prompt
    BY DEF Prompt
  <2>3. b.lines[row].text = Prompt
    BY <1>6, <1>9, <2>1, <2>2 DEF RowOf
  <2>4. q.lines[row].text = Prompt \o text
    BY <1>6, <1>9, <2>3 DEF RowOf
  <2> QED BY <2>1, <2>3, <2>4
<1>13. /\ Len(q.far.changed) = 2 /\ q.far.changed[1].line = list
       /\ q.far.changed[2].line = row /\ q.far.changed[2].after = Prompt \o text
  <2>1. PICK e : a.far.changed = <<e>> /\ e.line = list
    <3>1. a.far.changed = Noted(pump.far, list, pump.lines[list].text,
                                pump.lines[list].text \o Listing)
      BY <1>9 DEF RowOf
    <3> QED BY <1>10, <3>1, FirstNoted
  <2>2. PICK x, y : b.far.changed = <<e, [line |-> row, before |-> x, after |-> y]>>
    <3>1. a.far.owner = "FarEnd" /\ a.far.watching
      BY <1>10, <1>11 DEF SameLine
    <3>2. b.far.changed = Noted(a.far, row, a.lines[row].text, a.lines[row].text \o Prompt)
      BY <1>9 DEF RowOf
    <3>3. \A before, after : Noted(a.far, row, before, after)
             = <<e, [line |-> row, before |-> before, after |-> after]>>
      BY <1>6, <2>1, <3>1, SecondNoted
    <3> QED BY <3>2, <3>3
  <2>3. b.far.owner = "FarEnd" /\ b.far.watching
    BY <1>10, <1>11 DEF SameLine
  <2>4. q.far.changed = Noted(b.far, row, Prompt, Prompt \o text)
    BY <1>9, <1>12 DEF RowOf
  <2>5. e.line # row
    BY <1>6, <2>1
  <2>6. \A before, after : TwoNoted(Noted(b.far, row, before, after), e, row, after)
    BY <2>2, <2>3, <2>5, NotedAgain
  <2>7. TwoNoted(q.far.changed, e, row, Prompt \o text)
    BY <2>4, <2>6
  <2> QED BY <2>1, <2>7 DEF TwoNoted
<1>14. /\ pump'.far = q.far /\ pump'.field = pump.field /\ headings' = headings
       /\ transcript' = transcript /\ pump'.cursor = row /\ pump'.echo = q.echo
       /\ pump'.lines[row].text = Prompt \o text
  BY <1>5, <1>11, <1>12, BecomesIs, StateIs
<1>15. Line' = Prompt \o text
  BY <1>3 DEF Line, text
<1>16. EchoHeard'
  <2>1. q.echo.prompt # <<>>
    <3>1. a.echo = observe_echo(pump.echo, "CommandLine", Listing, "Appended")
          /\ b.echo = observe_echo(a.echo, "Prompt", Prompt, "Appended")
          /\ q.echo = observe_echo(b.echo, "CommandLine", text, "Appended")
      BY <1>8 DEF Fed
    <3>2. a.echo \in Echoes
      BY <1>6, <3>1, EchoTypes, TextOf
    <3>3. b.echo = [prompt |-> a.echo.prompt \o Prompt, text |-> <<>>]
      BY <3>1 DEF observe_echo
    <3>4. q.echo.prompt = a.echo.prompt \o Prompt
      <4>1. b.echo \in Echoes
        BY <3>1, <3>2, EchoTypes, TextOf
      <4>2. q.echo.prompt = b.echo.prompt
        BY <3>1, <4>1 DEF observe_echo, Echoes
      <4> QED BY <3>3, <4>2
    <3>5. Len(a.echo.prompt \o Prompt) = Len(a.echo.prompt) + 1 /\ Len(a.echo.prompt) \in Nat
      <4>1. a.echo.prompt \in Texts
        BY <3>2 DEF Echoes
      <4>2. Len(a.echo.prompt \o Prompt) = Len(a.echo.prompt) + Len(Prompt)
        BY <4>1, PromptIs, JoinedTexts
      <4>3. Len(a.echo.prompt) \in Nat
        BY <4>1 DEF Texts
      <4> QED BY <4>2, <4>3, PromptIs
    <3>6. Len(q.echo.prompt) # 0
      BY <3>4, <3>5
    <3>7. Len(<<>>) = 0
      OBVIOUS
    <3> QED BY <3>6, <3>7
  <2>2. Prompt \o text # Prompt
    <3>1. Len(Prompt \o text) = Len(text) + 1 /\ Len(text) \in Nat /\ Len(Prompt) = 1
      BY <1>6, WithPrompt, PromptIs
    <3>2. Len(text) # 0
      BY <1>6 DEF Texts
    <3> QED BY <3>1, <3>2
  <2> QED BY <1>14, <2>1, <2>2 DEF EchoHeard, Text
<1>17. OnTheRow'
  <2>1. Len(Prompt) + shell.cursor = shell.cursor + 1
    BY PromptIs, StateIs
  <2>2. screen' = LineCaret'
    BY <1>3, <2>1 DEF Read, LineCaret, row
  <2> QED BY <1>3, <1>14, <1>15, <1>16, <2>2 DEF OnTheRow, Text, row
<1>18. (OnlyOn({shell.row}))'
  <2>1. ASSUME NEW other, other # row, other # list PROVE Of(q.far.printed, other) = {}
    <3>1. Of(a.far.printed, other) = {}
      BY <1>9, <1>10, <2>1, OfNone DEF RowOf, HandOf
    <3>2. Of(b.far.printed, other) = {}
      BY <1>9, <1>10, <1>11, <2>1, <3>1 DEF RowOf, HandOf, SameLine
    <3> QED BY <1>9, <1>10, <1>11, <2>1, <3>2 DEF RowOf, HandOf, SameLine
  <2> QED BY <1>2, <1>3, <1>14, <2>1 DEF OnlyOn, row
<1>19. Watching'
  <2>1. /\ (keys = <<>>)' /\ (reads = <<>>)' /\ settled' /\ (shell.phase = "prompt")'
        /\ (pump.far.owner = "FarEnd")' /\ (~pump.far.awaiting_prompt)'
        /\ (pump.far.left = NoRow)' /\ (pump.far.watching)'
        /\ (pump.far.held = pump.field.text)' /\ (pump.field.caret <= Len(pump.far.held))'
    BY <1>3, <1>11, <1>14 DEF ListedBelow, Holding, Watched, SameLine
  <2> QED BY <1>17, <1>18, <2>1 DEF Watching
<1>20. ListingSeen'
  <2>1. Agreeing' /\ (trim_end(shell.line) # <<>>)'
    BY <1>3, <1>11, <1>14 DEF ListedBelow, Agreeing, SameLine
  <2>2. (pump.far.anchor.line # shell.row)'
    BY <1>3, <1>11, <1>14 DEF ListedBelow, Holding, SameLine
  <2>3. (/\ Len(pump.far.changed) = 2
         /\ pump.far.changed[1].line # shell.row
         /\ pump.far.changed[2].line = shell.row /\ pump.far.changed[2].after = Line)'
    BY <1>3, <1>6, <1>13, <1>14, <1>15 DEF row
  <2> QED BY <1>19, <2>1, <2>2, <2>3 DEF ListingSeen
<1>21. HeadedInTurn'
  BY <1>3, <1>14 DEF HeadedInTurn
<1>22. RowsAreKept'
  BY <1>3, <1>14 DEF RowsAreKept
<1> QED BY <1>20, <1>21, <1>22

\* A prompt comes behind what the line, or the command, ended with.
LEMMA ComesBack ==
  ASSUME Ordered, HeadedInTurn, RowsAreKept, Fresh, keys = <<>>,
         pump.far.owner = "FarEnd", pump.far.watching <=> pump.far.awaiting_prompt,
         NEW a, Formed(a), SameLine(a.far, pump.far), a.lines[shell.row].text = <<>>,
         Results(a) = transcript,
         \A row \in shell.rows \ {shell.row, pump.far.left} : Of(a.far.printed, row) = {},
         NEW q, Prompted(q, a, shell.row), Becomes(q), Kept(Headings(q)) = Kept(headings),
         screen' = PromptAt(shell.row), reads' = <<>>, settled',
         UNCHANGED <<keys, shell, ran>>
  PROVE  BackAtPrompt' /\ HeadedInTurn' /\ RowsAreKept'
<1>1. OnTheRow' /\ Fresh'
  BY PromptArrives
<1>2. /\ Formed(q) /\ Results(q) = Results(a)
      /\ q.far = FarAfter(a, "Prompt", shell.row, Prompt, "Appended")
  BY DEF Prompted
<1>3. pump'.far = q.far /\ headings' = Headings(q) /\ transcript' = Results(q)
  BY <1>2, BecomesIs
<1>4. a.far \in FarEndLines /\ a.far.owner = "FarEnd" /\ "Prompt" # "Output"
  BY DEF Formed, SameLine
<1>5. SameLine(q.far, pump.far)
  BY <1>2, <1>4, FarAfterIs DEF SameLine
<1>6. HandOf(q.far.printed, a.far.printed, shell.row)
  BY <1>2, <1>4, HandMore
<1>7. (OnlyOn({shell.row, pump.far.left}))'
  <2>1. pump'.far.left = pump.far.left
    BY <1>3, <1>5 DEF SameLine
  <2>2. ASSUME NEW row \in shell.rows \ {shell.row, pump.far.left}
        PROVE  Of(q.far.printed, row) = {}
    BY <1>6, <2>2 DEF HandOf
  <2> QED BY <1>3, <2>1, <2>2 DEF OnlyOn
<1>8. BackAtPrompt'
  <2>1. (pump.far.owner = "FarEnd")' /\ (pump.far.watching <=> pump.far.awaiting_prompt)'
    BY <1>3, <1>5 DEF SameLine
  <2> QED BY <1>1, <1>7, <2>1 DEF BackAtPrompt
<1>9. HeadedInTurn'
  <2>1. keys # <<"Enter">> /\ keys' # <<"Enter">>
    OBVIOUS
  <2> QED BY <1>3, <2>1 DEF HeadedInTurn
<1>10. RowsAreKept'
  BY <1>2, <1>3 DEF RowsAreKept
<1> QED BY <1>8, <1>9, <1>10

\* Behind a blank line there is no heading,
LEMMA ReceiveBlank ==
  ASSUME marks_output_start, Ordered, LineLeft, HeadedInTurn, RowsAreKept, Receive,
         reads = <<PromptOn(shell.row, <<Mark("OutputStart"), Done>>)>>,
         Text(pump.far.left) = Prompt
  PROVE  BackAtPrompt' /\ HeadedInTurn' /\ RowsAreKept'
<1> DEFINE blank == PromptOn(shell.row, <<Mark("OutputStart"), Done>>)
<1>1. PICK r, q : Reading(r, q)
  BY HearsIt
<1>2. /\ r = blank /\ reads' = <<>> /\ screen' = r.at /\ settled'
      /\ UNCHANGED <<keys, shell, ran>>
  BY <1>1, FirstRead DEF Reading, LineLeft, Awaiting
<1>3. Len(r.items) = 5
  BY <1>2, ReadsAre
<1>4. /\ Stands(tracker, "CommandLine", FALSE) /\ Becomes(q) /\ Formed(pump)
      /\ q = Received(pump, tracker, blank.items)
  BY <1>1, <1>2, <1>3 DEF Reading
<1>5. shell.row \in Rows
  BY StateIs
<1>6. Prompted(q, pump, shell.row) /\ Headings(q) = HeadingsOnce(pump)
  <2>1. LET items == PromptOn(shell.row, <<Mark("OutputStart"), Done>>).items
            qq    == Received(pump, tracker, items)
        IN  /\ AtPromptNow(tracker, items) /\ Prompted(qq, pump, shell.row)
            /\ Headings(qq) = HeadingsOnce(pump) /\ qq.integration = pump.integration
    BY <1>4, <1>5, BlankIs
  <2> QED BY <1>4, <2>1
<1>7. Headings(q) = headings
  <2>1. pump.echo.text \in {<<>>, NoText}
    BY DEF LineLeft, Awaiting, EchoHeard
  <2> QED BY <1>6, <2>1, StateIs DEF HeadingsOnce
<1>8. screen' = PromptAt(shell.row)
  BY <1>2 DEF PromptOn, Read, PromptAt
<1>9. /\ Fresh /\ keys = <<>> /\ pump.far.owner = "FarEnd"
      /\ pump.far.watching <=> pump.far.awaiting_prompt
      /\ pump.lines[shell.row].text = <<>> /\ pump.far.printed = <<>>
  BY DEF LineLeft, Awaiting, Ordered, InTurn, Text
<1>10. \A row \in shell.rows \ {shell.row, pump.far.left} : Of(pump.far.printed, row) = {}
  BY <1>9, OfNone
<1>11. SameLine(pump.far, pump.far) /\ Results(pump) = transcript
  BY StateIs DEF SameLine
<1> HIDE DEF blank
<1> QED BY <1>2, <1>4, <1>6, <1>7, <1>8, <1>9, <1>10, <1>11, ComesBack

\* behind one that was dropped there is one that says so,
LEMMA DroppedHeading ==
  ASSUME NEW a, IsSeq(Headings(a)), NEW echo \in Echoes,
         a.echo = observe_echo(echo, "CommandLine", Refusal, "Appended")
  PROVE  Kept(HeadingsOnce(a)) = Kept(Headings(a))
<1>1. a.echo.text = IF echo.text = NoText THEN NoText ELSE echo.text \o Refusal
  BY DEF observe_echo, Echoes
<1>2. CASE a.open # NoCommand \/ a.echo.text \in {<<>>, NoText}
  BY <1>2 DEF HeadingsOnce
<1>3. CASE ~(a.open # NoCommand \/ a.echo.text \in {<<>>, NoText})
  <2>1. echo.text # NoText /\ a.echo.text = echo.text \o Refusal
    BY <1>1, <1>3
  <2>2. echo.text \in Texts
    BY <2>1 DEF Echoes
  <2>3. Dropped(a.echo.text)
    BY <2>1, <2>2, EchoIsDropped
  <2>4. HeadingsOnce(a) = Append(Headings(a), a.echo.text)
    BY <1>3 DEF HeadingsOnce
  <2>5. Kept(HeadingsOnce(a)) = Keeps(Kept(Headings(a)), a.echo.text)
    BY <2>4, KeptMore
  <2> QED BY <2>3, <2>5 DEF Keeps
<1> QED BY <1>2, <1>3

LEMMA ReceiveRefusal ==
  ASSUME marks_output_start, Ordered, LineLeft, HeadedInTurn, RowsAreKept, Receive,
         reads = <<PromptOn(shell.row, <<Row(pump.far.left, Refusal, "Appended"),
                                         Mark("OutputStart"), Done>>)>>
  PROVE  BackAtPrompt' /\ HeadedInTurn' /\ RowsAreKept'
<1> DEFINE left  == pump.far.left
           items == PromptOn(shell.row, <<Row(left, Refusal, "Appended"), Mark("OutputStart"),
                                          Done>>).items
<1>1. PICK r, q : Reading(r, q)
  BY HearsIt
<1>2. /\ r = PromptOn(shell.row, <<Row(left, Refusal, "Appended"), Mark("OutputStart"), Done>>)
      /\ reads' = <<>> /\ screen' = r.at /\ settled' /\ UNCHANGED <<keys, shell, ran>>
  BY <1>1, FirstRead DEF Reading, LineLeft, Awaiting
<1>3. Len(r.items) = 6 /\ r.items = items
  BY <1>2, ReadsAre
<1>4. /\ Stands(tracker, "CommandLine", FALSE) /\ Becomes(q) /\ Formed(pump)
      /\ q = Received(pump, tracker, items)
  BY <1>1, <1>3 DEF Reading
<1>5. /\ shell.row \in Rows /\ left \in Rows /\ left # shell.row
  BY StateIs DEF LineLeft
<1>6. Drops(q, pump, tracker, items, left, shell.row)
  BY <1>4, <1>5, DroppedIs
<1> HIDE DEF items, left
<1>7. PICK a : /\ Fed(a, pump, "CommandLine", left, Refusal, "Appended")
               /\ Prompted(q, a, shell.row) /\ Headings(q) = HeadingsOnce(a)
  BY <1>6 DEF Drops
<1>8. RowOf(a, pump, left, Refusal)
  BY <1>4, <1>5, <1>7, RowOfIs
<1>9. /\ Fresh /\ keys = <<>> /\ pump.far.owner = "FarEnd"
      /\ pump.far.watching <=> pump.far.awaiting_prompt
      /\ pump.lines[shell.row].text = <<>> /\ pump.far.printed = <<>>
  BY DEF LineLeft, Awaiting, Ordered, InTurn, Text
<1>10. /\ Formed(a) /\ SameLine(a.far, pump.far) /\ a.lines[shell.row].text = <<>>
       /\ Results(a) = transcript /\ Headings(a) = headings
       /\ \A row \in shell.rows \ {shell.row, left} : Of(a.far.printed, row) = {}
  <2>1. ASSUME NEW row \in shell.rows \ {shell.row, left} PROVE Of(a.far.printed, row) = {}
    BY <1>8, <1>9, <2>1, OfNone DEF RowOf, HandOf
  <2> QED BY <1>5, <1>8, <1>9, <2>1, StateIs DEF RowOf
<1>11. Kept(Headings(q)) = Kept(headings)
  <2>1. pump.echo \in Echoes /\ IsSeq(Headings(a))
    BY <1>4, <1>10, StateIs DEF Formed, Echoes
  <2>2. a.echo = observe_echo(pump.echo, "CommandLine", Refusal, "Appended")
    BY <1>7 DEF Fed
  <2> QED BY <1>7, <1>10, <2>1, <2>2, DroppedHeading
<1>12. screen' = PromptAt(shell.row)
  BY <1>2 DEF PromptOn, Read, PromptAt
<1>13. \A row \in shell.rows \ {shell.row, pump.far.left} : Of(a.far.printed, row) = {}
  BY <1>10 DEF left
<1> QED BY <1>2, <1>4, <1>7, <1>9, <1>10, <1>11, <1>12, <1>13, ComesBack

\* and behind a command's end none.
LEMMA ReceiveEnd ==
  ASSUME marks_output_start, Ordered, RunningOn, HeadedInTurn, RowsAreKept, Receive,
         Fresh, keys = <<>>, Text(shell.row) = <<>>, Len(reads) = 1,
         reads[1] = PromptOn(shell.row, <<Done>>)
  PROVE  BackAtPrompt' /\ HeadedInTurn' /\ RowsAreKept'
<1> DEFINE done == PromptOn(shell.row, <<Done>>)
<1>1. PICK r, q : Reading(r, q)
  BY HearsIt
<1>2. /\ r = done /\ reads' = <<>> /\ screen' = r.at /\ settled'
      /\ UNCHANGED <<keys, shell, ran>>
  BY <1>1, FirstRead DEF Reading, RunningOn
<1>3. Len(r.items) = 4
  BY <1>2, ReadsAre
<1>4. /\ Stands(tracker, "Output", TRUE) /\ Becomes(q) /\ Formed(pump)
      /\ q = Received(pump, tracker, done.items)
  BY <1>1, <1>2, <1>3 DEF Reading
<1>5. shell.row \in Rows
  BY StateIs
<1>6. Prompted(q, pump, shell.row) /\ Headings(q) = Headings(pump)
  <2>1. LET items == PromptOn(shell.row, <<Done>>).items
            qq    == Received(pump, tracker, items)
        IN  /\ AtPromptNow(tracker, items) /\ Prompted(qq, pump, shell.row)
            /\ Headings(qq) = Headings(pump) /\ qq.integration = pump.integration
    BY <1>4, <1>5, DoneIs
  <2> QED BY <1>4, <2>1
<1>7. Headings(q) = headings
  BY <1>6, StateIs
<1>8. screen' = PromptAt(shell.row)
  BY <1>2 DEF PromptOn, Read, PromptAt
<1>9. /\ pump.far.owner = "FarEnd"
      /\ pump.far.watching <=> pump.far.awaiting_prompt
      /\ pump.lines[shell.row].text = <<>> /\ pump.far.printed = <<>>
  BY DEF RunningOn, Text
<1>10. \A row \in shell.rows \ {shell.row, pump.far.left} : Of(pump.far.printed, row) = {}
  BY <1>9, OfNone
<1>11. SameLine(pump.far, pump.far) /\ Results(pump) = transcript
  BY StateIs DEF SameLine
<1> HIDE DEF done
<1> QED BY <1>2, <1>4, <1>6, <1>7, <1>8, <1>9, <1>10, <1>11, ComesBack

\* What a command prints goes to its block, that is open.
LEMMA ReceiveOutput ==
  ASSUME marks_output_start, Ordered, RunningOn, HeadedInTurn, RowsAreKept, Receive,
         keys = <<>>, IsRun(reads[1]), pump.open # NoCommand,
         \/ shell.phase = "running" /\ Len(reads) = 1
         \/ /\ Fresh /\ Len(reads) = 2 /\ Text(shell.row) = <<>>
            /\ reads[2] = PromptOn(shell.row, <<Done>>)
  PROVE  RunningOn' /\ HeadedInTurn' /\ RowsAreKept'
<1>1. PICK r, q : Reading(r, q)
  BY HearsIt
<1> DEFINE row == r.at.row
<1>2. /\ r = reads[1] /\ reads' = Tail(reads) /\ IsSeq(reads) /\ Becomes(q) /\ Formed(pump)
      /\ UNCHANGED <<keys, shell, ran>> /\ q = Received(pump, tracker, r.items)
  BY <1>1 DEF Reading
<1>3. /\ r.items = <<Mark("OutputStart"), Row(row, Printout, "Appended")>>
      /\ [row |-> row, text |-> Printout] \in shell.printed
  BY <1>2 DEF IsRun, OutputAt
<1>4. Len(r.items) = 2
  BY <1>3
<1>5. Stands(tracker, "CommandLine", FALSE)
  BY <1>1, <1>4 DEF Reading
<1> HIDE DEF row
<1>6. row \in Rows /\ row \notin shell.rows
  <2>1. shell \in Shells /\ Numbered(shell)
    BY StateIs
  <2> QED BY <1>3, <2>1 DEF Shells, Numbered
<1>7. Outputs(q, pump, tracker, r.items, row)
  BY <1>2, <1>3, <1>5, <1>6, OutputIs
<1>8. PICK a : /\ Apart(a, pump) /\ Headings(a) = HeadingsOnce(pump)
               /\ Results(a) = Results(pump)
               /\ Fed(q, a, "Output", row, Printout, "Appended")
  BY <1>7 DEF Outputs
<1>9. Headings(q) = headings
  BY <1>8, StateIs DEF Fed, HeadingsOnce
<1>10. Formed(q) /\ q.far = FarAfter(a, "Output", row, Printout, "Appended") /\ a.far = pump.far
       /\ \A other \in Rows : other # row => q.lines[other].text = pump.lines[other].text
  BY <1>8 DEF Fed, Apart
<1>11. SameLine(q.far, pump.far) /\ q.far.printed = pump.far.printed
  <2>1. a.far \in FarEndLines
    BY <1>10, StateIs
  <2> QED BY <1>10, <2>1, FarAfterIs DEF SameLine
<1>12. \A other \in Rows : other # row => Results(q)[other] = transcript[other]
  <2>1. RowShown(q, a, row, Entry(row, Printout, "Appended").due)
    <3>1. Readable(a)
      BY <1>8, StateIs DEF Readable
    <3>2. Results(q) = Shows(Results(a), Output(row, Entry(row, Printout, "Appended").due))
      BY <1>8 DEF Fed
    <3>3. Entry(row, Printout, "Appended").due.text \in Texts
      BY TextOf DEF Entry
    <3> QED BY <1>6, <3>1, <3>2, <3>3, ShowsRow
  <2> QED BY <1>8, <2>1, StateIs DEF RowShown
<1>13. /\ pump'.far = q.far /\ pump'.lines = q.lines /\ headings' = headings
       /\ transcript' = Results(q)
  BY <1>2, <1>9, <1>10, BecomesIs
<1>14. (pump.far.owner = "FarEnd")' /\ (pump.far.printed = <<>>)'
       /\ (pump.far.watching <=> pump.far.awaiting_prompt)'
  BY <1>11, <1>13 DEF RunningOn, SameLine
<1>15. RunningOn'
  <2>1. CASE shell.phase = "running" /\ Len(reads) = 1
    <3>1. reads' = <<>> /\ Len(reads') = 0 /\ keys' = <<>> /\ shell'.phase = "running"
      BY <1>2, <2>1, FirstRead
    <3>2. ReadsRun(Len(reads))'
      BY <3>1 DEF ReadsRun
    <3>3. Len(reads') <= 1
      BY <3>1
    <3> QED BY <1>14, <3>1, <3>2, <3>3 DEF RunningOn
  <2>2. CASE /\ Fresh /\ Len(reads) = 2 /\ Text(shell.row) = <<>>
             /\ reads[2] = PromptOn(shell.row, <<Done>>)
    <3>1. reads' = <<reads[2]>> /\ Len(reads') = 1
      BY <1>2, <2>2, FirstRead
    <3>2. (reads[Len(reads)] = PromptOn(shell.row, <<Done>>))'
      <4>1. reads'[1] = reads[2]
        BY <3>1
      <4> QED BY <1>2, <2>2, <3>1, <4>1
    <3>3. ReadsRun(Len(reads) - 1)'
      <4>1. Len(reads') - 1 = 0
        BY <3>1
      <4>2. \A i \in 1..(Len(reads') - 1) : FALSE
        BY <4>1
      <4> QED BY <4>2 DEF ReadsRun
    <3>4. (Text(shell.row) = <<>>)'
      BY <1>2, <1>6, <1>10, <1>13, <2>2, StateIs DEF Text
    <3>5. Fresh' /\ keys' = <<>> /\ Len(reads') \in {1, 2}
      BY <1>2, <2>2, <3>1 DEF Fresh
    <3> QED BY <1>14, <3>2, <3>3, <3>4, <3>5 DEF RunningOn
  <2> QED BY <2>1, <2>2
<1>16. HeadedInTurn'
  BY <1>2, <1>13 DEF HeadedInTurn
<1>17. RowsAreKept'
  BY <1>2, <1>6, <1>12, <1>13, StateIs DEF RowsAreKept
<1> QED BY <1>15, <1>16, <1>17

\* Whatever the read is.
LEMMA ReceiveInStep ==
  ASSUME marks_output_start, Ordered, Stages, HeadedInTurn, RowsAreKept, Receive
  PROVE  Stages' /\ HeadedInTurn' /\ RowsAreKept'
<1>1. reads # <<>> /\ IsSeq(reads) /\ Len(reads) \in Nat \ {0}
  BY StateIs, OneLess DEF Receive
<1>2. CASE OwnedHere
  BY <1>2, ReceiveFirst DEF Stages
<1>3. CASE KeyAnswered
  BY <1>3, ReceiveNothing, ReceiveRow DEF Stages
<1>4. CASE ListedBelow
  BY <1>4, ReceiveListing DEF Stages
<1>5. CASE LineLeft
  <2>1. CASE reads = <<PromptOn(shell.row, <<Mark("OutputStart"), Done>>)>>
             /\ Text(pump.far.left) = Prompt
    BY <1>5, <2>1, ReceiveBlank DEF Stages
  <2>2. CASE reads = <<PromptOn(shell.row, <<Row(pump.far.left, Refusal, "Appended"),
                                             Mark("OutputStart"), Done>>)>>
    BY <1>5, <2>2, ReceiveRefusal DEF Stages
  <2> QED BY <1>5, <2>1, <2>2 DEF LineLeft
<1>6. CASE RunningOn
  <2>1. CASE /\ shell.phase = "running" /\ Len(reads) <= 1 /\ ReadsRun(Len(reads))
             /\ keys = <<>> \/ (keys = <<"CtrlC">> /\ reads = <<>> /\ ~settled)
    <3>1. Len(reads) = 1 /\ keys = <<>>
      <4>1. \A n \in Nat \ {0} : n <= 1 => n = 1
        OBVIOUS
      <4> QED BY <1>1, <2>1, <4>1
    <3>2. IsRun(reads[1]) /\ pump.open # NoCommand
      BY <2>1, <3>1 DEF ReadsRun
    <3> QED BY <1>6, <2>1, <3>1, <3>2, ReceiveOutput DEF Stages
  <2>2. CASE /\ Fresh /\ keys = <<>> /\ Text(shell.row) = <<>>
             /\ Len(reads) = 1
             /\ reads[Len(reads)] = PromptOn(shell.row, <<Done>>)
    BY <1>6, <2>2, ReceiveEnd DEF Stages
  <2>3. CASE /\ Fresh /\ keys = <<>> /\ Text(shell.row) = <<>>
             /\ Len(reads) = 2 /\ ReadsRun(Len(reads) - 1)
             /\ reads[Len(reads)] = PromptOn(shell.row, <<Done>>)
    <3>1. IsRun(reads[1]) /\ pump.open # NoCommand
      <4>1. ReadsRun(1) /\ 1 \in 1..1
        <5>1. Len(reads) - 1 = 1
          BY <2>3
        <5> QED BY <2>3, <5>1
      <4> QED BY <4>1 DEF ReadsRun
    <3>2. reads[2] = PromptOn(shell.row, <<Done>>)
      BY <2>3
    <3> QED BY <1>6, <2>3, <3>1, <3>2, ReceiveOutput DEF Stages
  <2> QED BY <1>6, <2>1, <2>2, <2>3 DEF RunningOn
<1>7. ~AtTheLine /\ ~Leaving /\ ~BackAtPrompt /\ ~AnswerSeen /\ ~ListingSeen
  BY <1>1 DEF AtTheLine, Leaving, BackAtPrompt, AnswerSeen, ListingSeen, Watching
<1> QED BY <1>2, <1>3, <1>4, <1>5, <1>6, <1>7 DEF Stages

-----------------------------------------------------------------------------
(* The rows have settled.                                                  *)
\* Whatever comes of it, the rows, the cursor and the echo stay.
LEMMA SettlesUnmoved ==
  ASSUME NEW p, NEW told, NEW q, PrintedOut(told, p), Settles(q, told, p)
  PROVE  q.echo = p.echo
<1>1. told.echo = p.echo
  BY DEF PrintedOut
<1>2. ASSUME NEW far, AnchorsOn(q, told, far) PROVE q.echo = told.echo
  <2>1. PICK c : Holds(c, told, far, told.field) /\ HereIs(q, c)
    BY <1>2 DEF AnchorsOn
  <2>2. c.echo = told.echo
    BY <2>1 DEF Holds
  <2>3. q.echo = c.echo
    BY <2>1 DEF HereIs, Holds
  <2> QED BY <2>2, <2>3
<1>3. ASSUME Reads(q, told, p) PROVE q.echo = told.echo
  BY <1>3 DEF Reads, AnsweredIs, Holds
<1> QED BY <1>1, <1>2, <1>3 DEF Settles

LEMMA SettlesOn ==
  ASSUME Ordered, Settle, pump.far.owner = "FarEnd", RowsAreKept,
         NEW some, OnlyOn(some), some \cap shell.rows \subseteq Fields(pump)
  PROVE  /\ \E q, told : SettledOn(q, told)
         /\ RowsAreKept'
<1> DEFINE q == far_end_settled(pump)
<1>1. /\ Becomes(q) /\ ~settled'
      /\ UNCHANGED <<tracker, screen, keys, reads, shell, presses, ran, pasted>>
  BY DEF Settle
<1>2. \E told : PrintedOut(told, pump) /\ Settles(q, told, pump)
  BY StateIs, SettledIs
<1>3. Rested(q, pump)
  BY StateIs, SettledRests
<1> HIDE DEF q
<1>4. PICK told : PrintedOut(told, pump) /\ Settles(q, told, pump)
  BY <1>2
<1>5. Unmoved
  BY <1>1, <1>3, <1>4, SettlesUnmoved, StaysPut DEF Rested
<1>6. headings' = headings /\ transcript' = Results(q)
  BY <1>1, <1>3, BecomesIs, StateIs DEF Rested
<1>7. RowsAreKept'
  <2>1. ASSUME NEW row \in shell.rows PROVE Results(q)[row] = transcript[row]
    <3>1. row \in Rows
      BY StateIs
    <3>2. row \in Fields(pump) \/ Of(pump.far.printed, row) = {}
      BY DEF OnlyOn
    <3> QED BY <1>3, <3>1, <3>2, StateIs DEF Rested
  <2> QED BY <1>1, <1>6, <2>1 DEF RowsAreKept
<1>8. SettledOn(q, told)
  BY <1>1, <1>3, <1>4, <1>5, <1>6 DEF SettledOn, Rested
<1> QED BY <1>7, <1>8

LEMMA LandsAtTheLine ==
  ASSUME Ordered, OnTheRow, keys = <<>>, reads = <<>>, shell.phase = "prompt",
         HeadedInTurn, NEW q, NEW told, SettledOn(q, told), NEW l, Lands(q, l)
  PROVE  AtTheLine' /\ HeadedInTurn'
<1>1. /\ Becomes(q) /\ Formed(q) /\ ~settled' /\ headings' = headings
      /\ UNCHANGED <<tracker, screen, keys, reads, shell, presses, ran, pasted>>
      /\ Unmoved
  BY DEF SettledOn
<1>2. pump'.far = q.far /\ pump'.field = q.field
  BY <1>1, BecomesIs
<1>3. /\ pump.cursor = shell.row /\ Text(shell.row) = Line /\ EchoHeard
      /\ screen = LineCaret /\ shell.row \in Rows /\ shell.row \in shell.rows
  BY StateIs DEF OnTheRow
<1>4. pump'.cursor = shell.row /\ EchoHeard' /\ pump'.lines[shell.row].text = Line
  BY <1>1, <1>3 DEF Unmoved, Text
<1>5. Holding'
  <2>1. (Text(pump.cursor) = Prompt \o trim_end(pump.far.held))'
    BY <1>2, <1>4 DEF Text, Lands, Line
  <2>2. /\ (pump.far.owner = "FarEnd")' /\ (~pump.far.awaiting_prompt)'
        /\ (pump.far.left = NoRow)' /\ (pump.far.anchor = [line |-> pump.cursor, column |-> 1])'
        /\ (pump.far.held = pump.field.text)' /\ (pump.field.caret <= Len(pump.far.held))'
    BY <1>2, <1>4 DEF Lands
  <2>3. (pump.cursor \in shell.rows)'
    BY <1>1, <1>3, <1>4
  <2>4. (screen = [row |-> pump.cursor, column |-> pump.field.caret + 1, visible |-> TRUE])'
    BY <1>1, <1>2, <1>3, <1>4 DEF Lands, LineCaret
  <2> QED BY <1>4, <2>1, <2>2, <2>3, <2>4 DEF Holding
<1>6. AtTheLine'
  <2>1. Agreeing' /\ (pump.cursor = shell.row)' /\ (pump.field.caret = shell.cursor)'
        /\ (reads = <<>>)' /\ (~settled)' /\ (shell.phase = "prompt")' /\ (keys = <<>>)'
    BY <1>1, <1>2, <1>4 DEF Agreeing, Lands
  <2> QED BY <1>5, <2>1 DEF AtTheLine
<1>7. HeadedInTurn'
  BY <1>1 DEF HeadedInTurn
<1> QED BY <1>6, <1>7

\* What is on the row behind the anchor is the answer, with the caret's blanks.
LEMMA RowAnswers ==
  ASSUME Ordered, LineFits, screen = LineCaret, NEW changed, NEW i,
         NEW anchor, anchor = [line |-> shell.row, column |-> 1],
         Anchored(changed, anchor) = {i}, i \in Nat, changed[i].after = Line, NEW was, NEW held
  PROVE  far_end_row(changed, anchor, was, caret, held)
            = FarEndAnswer("Row", padded(trim_end(shell.line), shell.cursor), shell.cursor)
<1>1. caret = [column |-> shell.cursor + 1, row |-> <<shell.row, 0>>] /\ caret # NoCaret
  <2>1. caret = [column |-> shell.cursor + 1, row |-> <<shell.row, 0>>]
    BY CaretFits
  <2>2. shell.row # NoRow
    BY StateIs
  <2> QED BY <2>1, <2>2 DEF NoCaret
<1>2. Min(Anchored(changed, anchor)) = i
  <2>1. Min({i}) \in {i}
    BY LeastOf
  <2> QED BY <2>1
<1>3. from_column(changed[Min(Anchored(changed, anchor))].after, anchor.column)
         = trim_end(shell.line)
  <2>1. trim_end(shell.line) \in Texts
    BY StateIs, TextsTrim
  <2> QED BY <1>2, <2>1, PastPrompt DEF Line
<1>4. caret_in(trim_end(shell.line), anchor.column, caret) = shell.cursor
  <2>1. shell.cursor \in Nat
    BY StateIs
  <2>2. \A c \in Nat : saturating_sub(c + 1, 1) = c
    <3> TAKE c \in Nat
    <3>1. 1 \in Nat /\ c + 1 \in Nat /\ c + 1 >= 1 /\ c + 1 - 1 = c
      OBVIOUS
    <3> QED BY <3>1, Saturating
  <2>3. saturating_sub(shell.cursor + 1, 1) = shell.cursor
    BY <2>1, <2>2
  <2> QED BY <1>1, <2>3 DEF caret_in
<1> QED BY <1>3, <1>4 DEF far_end_row

\* The answer is in the field.
LEMMA AnswerLands ==
  ASSUME Ordered, Watching, NEW told, PrintedOut(told, pump), NEW moved, Formed(moved),
         moved.far = [Taken(told.far) EXCEPT !.anchor = [line |-> shell.row, column |-> 1]],
         moved.field = pump.field,
         NEW a \in Answering, NEW q, AnsweredIs(q, moved, a),
         \/ /\ a = FarEndAnswer("Row", padded(trim_end(shell.line), shell.cursor), shell.cursor)
         \/ Agreeing /\ MovedTo(a, pump.far.held, shell.cursor)
         \/ Agreeing /\ a = Nothing /\ pump.field.caret = shell.cursor
  PROVE  \E l : Lands(q, l)
<1>1. /\ moved.far.owner = "FarEnd" /\ ~moved.far.awaiting_prompt /\ moved.far.left = NoRow
      /\ moved.far.anchor = [line |-> shell.row, column |-> 1]
      /\ moved.far.held = pump.far.held /\ moved.far \in FarEndLines
  <2>1. told.far = [pump.far EXCEPT !.printed = <<>>] /\ pump.far \in FarEndLines
    BY StateIs DEF PrintedOut
  <2>2. moved.far \in FarEndLines
    BY DEF Formed
  <2> QED BY <2>1, <2>2 DEF Taken, FarEndLines, Watching
<1>2. Holds(q, moved, IF a.kind \in {"Nothing", "Caret"} THEN moved.far
                      ELSE [moved.far EXCEPT !.held = a.text],
            CASE a.kind = "Nothing" -> moved.field
              [] a.kind = "Caret"   -> [moved.field EXCEPT !.caret = a.caret]
              [] OTHER              -> [text |-> a.text, caret |-> a.caret])
  BY DEF AnsweredIs
<1>3. pump.far.held = pump.field.text /\ pump.field \in [text : Texts, caret : Nat]
      /\ pump.field.caret <= Len(pump.far.held)
  BY StateIs DEF Watching
<1>4. ASSUME a.kind = "Row", a.caret = shell.cursor,
             trim_end(a.text) = trim_end(shell.line), shell.cursor <= Len(a.text)
      PROVE  Lands(q, a.text)
  <2>1. q.far = [moved.far EXCEPT !.held = a.text]
        /\ q.field = [text |-> a.text, caret |-> a.caret]
    BY <1>2, <1>4 DEF Holds
  <2> QED BY <1>1, <1>4, <2>1 DEF Lands, FarEndLines
<1>5. CASE a = FarEndAnswer("Row", padded(trim_end(shell.line), shell.cursor), shell.cursor)
  <2>1. /\ a.kind = "Row" /\ a.caret = shell.cursor
        /\ a.text = padded(trim_end(shell.line), shell.cursor)
    BY <1>5 DEF FarEndAnswer
  <2>2. /\ trim_end(padded(trim_end(shell.line), shell.cursor)) = trim_end(shell.line)
        /\ shell.cursor <= Len(padded(trim_end(shell.line), shell.cursor))
    BY StateIs, PaddedLine
  <2> QED BY <1>4, <2>1, <2>2
<1>6. CASE Agreeing /\ MovedTo(a, pump.far.held, shell.cursor)
  <2>1. /\ a.kind \in {"Caret", "Row"} /\ a.caret = shell.cursor
        /\ a.kind = "Caret" => a.text = pump.far.held
        /\ trim_end(a.text) = trim_end(shell.line) /\ shell.cursor <= Len(a.text)
    BY <1>6 DEF MovedTo, Agreeing
  <2>2. CASE a.kind = "Row"
    BY <1>4, <2>1, <2>2
  <2>3. CASE a.kind = "Caret"
    <3>1. q.far = moved.far /\ q.field = [pump.field EXCEPT !.caret = a.caret]
      BY <1>2, <2>3 DEF Holds
    <3>2. q.field = [text |-> pump.far.held, caret |-> shell.cursor]
      BY <1>3, <2>1, <3>1
    <3> QED BY <1>1, <2>1, <2>3, <3>1, <3>2 DEF Lands
  <2> QED BY <2>1, <2>2, <2>3
<1>7. CASE Agreeing /\ a = Nothing /\ pump.field.caret = shell.cursor
  <2>1. a.kind = "Nothing"
    BY <1>7 DEF Nothing, FarEndAnswer
  <2>2. q.far = moved.far /\ q.field = pump.field
    BY <1>2, <2>1 DEF Holds
  <2>3. q.field = [text |-> pump.far.held, caret |-> shell.cursor]
    BY <1>3, <1>7, <2>2
  <2> QED BY <1>1, <1>3, <1>7, <2>2, <2>3 DEF Lands, Agreeing
<1> QED BY <1>5, <1>6, <1>7

LEMMA ReadsIt ==
  ASSUME Ordered, Watching, NEW q, NEW told, SettledOn(q, told)
  PROVE  /\ told.far = [pump.far EXCEPT !.printed = <<>>] /\ told.far \in FarEndLines
         /\ Taken(told.far) \in FarEndLines
         /\ Taken(told.far).anchor = pump.far.anchor /\ Taken(told.far).held = pump.far.held
         /\ \E taken, moved : ReadBy(q, told, taken, moved)
<1>1. /\ PrintedOut(told, pump) /\ Settles(q, told, pump)
      /\ pump.far.watching /\ ~pump.far.awaiting_prompt /\ OnTheRow
  BY DEF SettledOn, Watching
<1>2. /\ told.far = [pump.far EXCEPT !.printed = <<>>] /\ Formed(told)
      /\ told.field = pump.field /\ told.cursor = pump.cursor
      /\ \A row \in Rows : told.lines[row].text = pump.lines[row].text
  BY <1>1 DEF PrintedOut
<1>3. told.far \in FarEndLines /\ pump.far \in FarEndLines
  BY <1>2, StateIs DEF Formed
<1>4. Taken(told.far) \in FarEndLines
  BY <1>3, TakenTypes
<1>5. Taken(told.far).anchor = pump.far.anchor /\ Taken(told.far).held = pump.far.held
  BY <1>2, <1>3 DEF Taken, FarEndLines
<1>6. Reads(q, told, pump)
  BY <1>1 DEF Settles
<1>7. PICK taken, moved :
         /\ Holds(taken, told, Taken(told.far), told.field)
         /\ Holds(moved, taken, FollowFar(taken), taken.field)
         /\ Picked(moved) \in Answering /\ AnsweredIs(q, moved, Picked(moved))
  BY <1>6 DEF Reads, Picked
<1>8. shell.row \in Rows /\ pump.cursor = shell.row /\ pump.lines[shell.row].text = Line
  BY <1>1, StateIs DEF OnTheRow, Text
<1>9. ReadBy(q, told, taken, moved)
  <2>1. /\ Formed(taken) /\ taken.far = Taken(told.far) /\ taken.cursor = told.cursor
        /\ \A row \in Rows : taken.lines[row].text = told.lines[row].text
        /\ taken.field = told.field
    BY <1>7 DEF Holds
  <2>2. Formed(moved) /\ moved.far = FollowFar(taken) /\ moved.field = taken.field
    BY <1>7 DEF Holds
  <2>3. taken.cursor = shell.row /\ taken.lines[shell.row].text = Line
    BY <1>2, <1>8, <2>1
  <2> QED BY <1>2, <1>7, <2>1, <2>2, <2>3 DEF ReadBy
<1> QED BY <1>2, <1>3, <1>4, <1>5, <1>9

\* The answer is about the line from its prompt on.
LEMMA AnswerToLine ==
  ASSUME Ordered, AnswerSeen \/ ListingSeen, NEW q, NEW told, NEW taken, NEW moved,
         SettledOn(q, told), ReadBy(q, told, taken, moved)
  PROVE  moved.far = [Taken(told.far) EXCEPT !.anchor = [line |-> shell.row, column |-> 1]]
<1> DEFINE far == Taken(told.far)
           here == [line |-> shell.row, column |-> 1]
<1>1. /\ far \in FarEndLines /\ far.anchor = pump.far.anchor /\ far.held = pump.far.held
      /\ Watching
  <2>1. Watching
    BY DEF AnswerSeen, ListingSeen
  <2> QED BY <2>1, ReadsIt
<1>2. /\ taken.far = far /\ taken.cursor = shell.row /\ taken.lines[shell.row].text = Line
      /\ moved.far = FollowFar(taken)
  BY DEF ReadBy
<1> HIDE DEF far
<1>3. CASE AnswerSeen
  <2>1. far.anchor = here
    BY <1>1, <1>3 DEF AnswerSeen
  <2>2. far.anchor.line = shell.row
    BY <2>1
  <2>3. FollowFar(taken) = far
    BY <1>2, <2>2 DEF FollowFar
  <2>4. [far EXCEPT !.anchor = here] = far
    BY <1>1, <2>1 DEF FarEndLines
  <2> QED BY <1>2, <2>3, <2>4 DEF far
<1>4. CASE ListingSeen
  <2> DEFINE held == trim_end(pump.far.held)
             row  == trim_end(Line)
  <2>1. held = trim_end(shell.line) /\ held # <<>> /\ pump.far.anchor.line # shell.row
        /\ screen = LineCaret
    BY <1>4 DEF ListingSeen, Agreeing, Watching, OnTheRow
  <2>2. held \in Texts /\ trim_end(shell.line) \in Texts
    BY <2>1, StateIs, TextsTrim
  <2>3. row = Prompt \o held
    BY <2>1, StateIs, TrimmedLine DEF Line
  <2>4. IsSuffix(held, row)
    BY <2>2, <2>3, LineEnds
  <2>5. Len(row) - Len(held) = 1
    <3> HIDE DEF held
    <3>1. Len(Prompt \o held) = Len(held) + 1 /\ Len(held) \in Nat
      BY <2>2, WithPrompt
    <3> QED BY <2>3, <3>1
  <2>6. screen.visible
    BY <2>1 DEF LineCaret
  <2>7. shell.row # NoRow
    BY StateIs
  <2>8. trim_end(taken.lines[taken.cursor].text) = row /\ trim_end(taken.far.held) = held
    BY <1>1, <1>2
  <2>9. taken.cursor \notin {NoRow, taken.far.anchor.line}
    BY <1>1, <1>2, <2>1, <2>7
  <2> HIDE DEF held, row
  <2>10. FollowFar(taken)
            = [taken.far EXCEPT !.anchor = [line |-> taken.cursor,
                                            column |-> Len(row) - Len(held)]]
    BY <2>1, <2>4, <2>6, <2>8, <2>9 DEF FollowFar
  <2> QED BY <1>2, <2>5, <2>10 DEF far
<1> QED BY <1>3, <1>4

\* The settling after the answer to a key:
LEMMA AnswerTold ==
  ASSUME Ordered, LineFits, AnswerSeen \/ ListingSeen, NEW q, NEW told, SettledOn(q, told)
  PROVE  \E l : Lands(q, l)
<1> DEFINE here == [line |-> shell.row, column |-> 1]
           row  == FarEndAnswer("Row", padded(trim_end(shell.line), shell.cursor), shell.cursor)
<1>1. Watching
  BY DEF AnswerSeen, ListingSeen
<1>2. PICK taken, moved : ReadBy(q, told, taken, moved)
  BY <1>1, ReadsIt
<1>3. /\ Formed(moved) /\ moved.field = pump.field
      /\ Picked(moved) \in Answering /\ AnsweredIs(q, moved, Picked(moved))
  BY <1>2 DEF ReadBy
<1>4. moved.far = [Taken(told.far) EXCEPT !.anchor = here]
  BY <1>2, AnswerToLine
<1>5. moved.far.anchor = here
  <2>1. Taken(told.far) \in FarEndLines
    BY <1>1, ReadsIt
  <2> QED BY <1>4, <2>1 DEF FarEndLines
<1>6. PrintedOut(told, pump) /\ screen = LineCaret
  BY <1>1 DEF SettledOn, Watching, OnTheRow
<1> DEFINE a == Picked(moved)
           changed == pump.far.changed
<1>7. a = far_end_row(changed, here, pump.far.was, caret, pump.far.held)
  BY <1>5 DEF Picked
<1> HIDE DEF a
<1>8. changed \in Seq(Change) /\ pump.far.held \in Texts
      /\ DOMAIN changed = 1..Len(changed) /\ Len(changed) \in Nat
  BY StateIs DEF FarEndLines
<1>9. here.line = shell.row /\ here.column = 1
  OBVIOUS
<1>10. ASSUME NEW i \in Nat, Anchored(changed, here) = {i}, changed[i].after = Line
       PROVE  a = row
  BY <1>6, <1>7, <1>10, RowAnswers
<1>11. CASE ListingSeen
  <2>1. Len(changed) = 2 /\ changed[1].line # shell.row
        /\ changed[2].line = shell.row /\ changed[2].after = Line
    BY <1>11 DEF ListingSeen
  <2>2. DOMAIN changed = {1, 2}
    BY <1>8, <2>1
  <2>3. Anchored(changed, here) = {2}
    BY <1>9, <2>1, <2>2 DEF Anchored
  <2> QED BY <1>1, <1>3, <1>4, <1>6, <1>10, <2>1, <2>3, AnswerLands DEF a
<1>12. CASE AnswerSeen /\ changed # <<>>
  <2>1. Len(changed) = 1 /\ changed[1].line = shell.row /\ changed[1].after = Line
    BY <1>12 DEF AnswerSeen
  <2>2. DOMAIN changed = {1}
    BY <1>8, <2>1
  <2>3. Anchored(changed, here) = {1}
    BY <1>9, <2>1, <2>2 DEF Anchored
  <2> QED BY <1>1, <1>3, <1>4, <1>6, <1>10, <2>1, <2>3, AnswerLands DEF a
<1>13. CASE AnswerSeen /\ changed = <<>>
  <2>1. /\ Agreeing /\ pump.far.was = [column |-> pump.field.caret + 1, row |-> <<shell.row, 0>>]
    <3> DEFINE none == <<>>
    <3>1. Len(none) # 1
      OBVIOUS
    <3> HIDE DEF none
    <3>2. changed = none
      BY <1>13 DEF none
    <3> QED BY <1>13, <3>1, <3>2 DEF AnswerSeen
  <2>2. Anchored(changed, here) = {} /\ gained_content(changed) = {}
    <3>1. DOMAIN changed = {}
      BY <1>13
    <3> QED BY <3>1 DEF Anchored, gained_content
  <2>3. /\ caret = [column |-> shell.cursor + 1, row |-> <<shell.row, 0>>]
        /\ caret # NoCaret /\ pump.far.was # NoCaret
        /\ pump.far.was.row = caret.row /\ caret.column = shell.cursor + 1
    <3>1. caret = [column |-> shell.cursor + 1, row |-> <<shell.row, 0>>]
      BY <1>6, CaretFits
    <3>2. shell.row # NoRow
      BY StateIs
    <3> QED BY <2>1, <3>1, <3>2 DEF NoCaret
  <2>4. a = IF pump.far.was.column # caret.column THEN CaretMoved(here, caret, pump.far.held)
            ELSE Nothing
    BY <1>7, <2>2, <2>3 DEF far_end_row
  <2>5. shell.cursor \in Nat /\ pump.field.caret \in Nat
    BY StateIs
  <2>6. CASE pump.far.was.column # caret.column
    <3>1. MovedTo(a, pump.far.held, shell.cursor)
      BY <1>8, <1>9, <2>3, <2>4, <2>5, <2>6, MovedIs
    <3> QED BY <1>1, <1>3, <1>4, <1>6, <2>1, <3>1, AnswerLands DEF a
  <2>7. CASE pump.far.was.column = caret.column
    <3>1. pump.field.caret = shell.cursor
      BY <2>1, <2>3, <2>5, <2>7
    <3>2. a = Nothing
      BY <2>4, <2>7
    <3> QED BY <1>1, <1>3, <1>4, <1>6, <2>1, <3>1, <3>2, AnswerLands DEF a
  <2> QED BY <2>6, <2>7
<1> QED BY <1>11, <1>12, <1>13

\* the line is in the field,
LEMMA AnswerSettles ==
  ASSUME Ordered, LineFits, AnswerSeen \/ ListingSeen, HeadedInTurn, RowsAreKept, Settle
  PROVE  AtTheLine' /\ HeadedInTurn' /\ RowsAreKept'
<1>1. /\ keys = <<>> /\ reads = <<>> /\ shell.phase = "prompt" /\ OnTheRow
      /\ pump.far.owner = "FarEnd" /\ OnlyOn({shell.row})
  BY DEF AnswerSeen, ListingSeen, Watching
<1>2. {shell.row} \cap shell.rows \subseteq Fields(pump)
  BY <1>1 DEF OnTheRow, Fields
<1>3. (\E q, told : SettledOn(q, told)) /\ RowsAreKept'
  BY <1>1, <1>2, SettlesOn
<1>4. PICK q, told : SettledOn(q, told)
  BY <1>3
<1>5. PICK l : Lands(q, l)
  BY <1>4, AnswerTold
<1> QED BY <1>1, <1>3, <1>4, <1>5, LandsAtTheLine

LEMMA AnchorsIt ==
  ASSUME Ordered, pump.far.owner = "FarEnd", pump.far.watching <=> pump.far.awaiting_prompt,
         NEW q, NEW told, SettledOn(q, told)
  PROVE  BeginsHere(q)
<1> DEFINE f1 == [Taken(told.far) EXCEPT !.left = NoRow]
           f2 == [Taken(told.far) EXCEPT !.left = NoRow, !.awaiting_prompt = FALSE]
<1>1. PrintedOut(told, pump) /\ Settles(q, told, pump)
  BY DEF SettledOn
<1>2. /\ told.far = [pump.far EXCEPT !.printed = <<>>] /\ told.far \in FarEndLines
      /\ pump.far \in FarEndLines /\ told.cursor = pump.cursor
      /\ \A row \in Rows : told.lines[row].text = Text(row)
  <2>1. told.far = [pump.far EXCEPT !.printed = <<>>] /\ Formed(told)
        /\ told.cursor = pump.cursor
        /\ \A row \in Rows : told.lines[row].text = pump.lines[row].text
    BY <1>1 DEF PrintedOut
  <2> QED BY <2>1, StateIs DEF Formed, Text
<1>3. f1 \in FarEndLines /\ f2 \in FarEndLines
  BY <1>2, TakenTypes
<1>4. /\ f1.owner = "FarEnd" /\ f1.printed = <<>> /\ ~f1.watching /\ f1.left = NoRow
      /\ f2.owner = "FarEnd" /\ f2.printed = <<>> /\ ~f2.watching /\ f2.left = NoRow
      /\ ~f2.awaiting_prompt /\ f1.awaiting_prompt = pump.far.awaiting_prompt
  BY <1>2 DEF Taken, FarEndLines
<1> HIDE DEF f1, f2
<1>5. PICK f \in FarEndLines : /\ AnchorsOn(q, told, f)
                               /\ f.owner = "FarEnd" /\ f.printed = <<>> /\ ~f.watching
                               /\ f.left = NoRow /\ ~f.awaiting_prompt
  <2>1. CASE ~pump.far.watching
    <3>1. AnchorsOn(q, told, f1)
      BY <1>1, <2>1 DEF Settles, f1
    <3> QED BY <1>3, <1>4, <2>1, <3>1
  <2>2. CASE pump.far.watching
    <3>1. AnchorsOn(q, told, f2)
      BY <1>1, <2>2 DEF Settles, f2
    <3> QED BY <1>3, <1>4, <3>1
  <2> QED BY <2>1, <2>2
<1>6. PICK c : Holds(c, told, f, told.field) /\ HereIs(q, c)
  BY <1>5 DEF AnchorsOn
<1>7. c.far = f /\ c.cursor = pump.cursor /\ \A row \in Rows : c.lines[row].text = Text(row)
  BY <1>2, <1>6 DEF Holds
<1>8. CASE ~screen.visible \/ pump.cursor = NoRow
  <2>1. q = c
    BY <1>6, <1>7, <1>8 DEF HereIs
  <2> QED BY <1>5, <1>7, <1>8, <2>1 DEF BeginsHere
<1>9. CASE screen.visible /\ pump.cursor # NoRow
  <2> DEFINE text == from_column(Text(pump.cursor), caret.column)
             anchor == [line |-> pump.cursor, column |-> caret.column]
  <2>1. pump.cursor \in Rows
    BY <1>9, StateIs DEF Formed, Places
  <2>2. c.lines[c.cursor].text = Text(pump.cursor)
    BY <1>7, <2>1
  <2>3. /\ q.far = [f EXCEPT !.anchor = anchor, !.held = text]
        /\ q.field = [text |-> text, caret |-> 0]
    BY <1>6, <1>7, <1>9, <2>2 DEF HereIs, Holds
  <2> HIDE DEF text, anchor
  <2>4. /\ q.far.owner = "FarEnd" /\ ~q.far.awaiting_prompt /\ ~q.far.watching
        /\ q.far.printed = <<>> /\ q.far.left = NoRow
        /\ q.far.anchor = anchor /\ q.far.held = text
    BY <1>5, <2>3 DEF FarEndLines
  <2> QED BY <2>3, <2>4 DEF BeginsHere, text, anchor
<1> QED BY <1>8, <1>9

\* at a prompt,
LEMMA PromptSettles ==
  ASSUME Ordered, LineFits, BackAtPrompt, HeadedInTurn, RowsAreKept, Settle
  PROVE  AtTheLine' /\ HeadedInTurn' /\ RowsAreKept'
<1>1. /\ keys = <<>> /\ reads = <<>> /\ Fresh /\ OnTheRow
      /\ pump.far.owner = "FarEnd" /\ OnlyOn({shell.row, pump.far.left})
      /\ pump.far.watching <=> pump.far.awaiting_prompt
  BY DEF BackAtPrompt
<1>2. {shell.row, pump.far.left} \cap shell.rows \subseteq Fields(pump)
  BY <1>1 DEF OnTheRow, Fields
<1>3. (\E q, told : SettledOn(q, told)) /\ RowsAreKept'
  BY <1>1, <1>2, SettlesOn
<1>4. PICK q, told : SettledOn(q, told)
  BY <1>3
<1>5. BeginsHere(q)
  BY <1>1, <1>4, AnchorsIt
<1>6. /\ shell.phase = "prompt" /\ shell.line = <<>> /\ shell.cursor = 0
      /\ pump.cursor = shell.row /\ Text(shell.row) = Line
      /\ screen.visible /\ caret.column = 1
  <2>1. /\ shell.phase = "prompt" /\ shell.line = <<>> /\ shell.cursor = 0
        /\ pump.cursor = shell.row /\ Text(shell.row) = Line /\ screen = LineCaret
    BY <1>1 DEF Fresh, OnTheRow
  <2>2. caret.column = shell.cursor + 1
    BY <2>1, CaretFits
  <2> QED BY <2>1, <2>2 DEF LineCaret
<1>7. from_column(Text(pump.cursor), caret.column) = trim_end(shell.line)
  <2>1. trim_end(shell.line) \in Texts
    BY StateIs, TextsTrim
  <2> QED BY <1>6, <2>1, PastPrompt DEF Line
<1>8. trim_end(shell.line) = <<>>
  <2>1. trim_end(shell.line) \in Texts /\ Len(trim_end(shell.line)) \in Nat
        /\ Len(trim_end(shell.line)) <= Len(shell.line) /\ Len(shell.line) = 0
    BY <1>6, StateIs, TextsTrim
  <2>2. \A t : t \in Texts /\ Len(t) = 0 => t = <<>>
    BY DEF Texts
  <2>3. \A m \in Nat : m <= 0 => m = 0
    OBVIOUS
  <2>4. Len(trim_end(shell.line)) = 0
    BY <2>1, <2>3
  <2> QED BY <2>1, <2>2, <2>4
<1>9. shell.row # NoRow
  BY StateIs
<1>10. Lands(q, <<>>)
  <2> DEFINE none == <<>>
  <2>1. Len(none) = 0 /\ trim_end(none) = trim_end(shell.line)
    BY <1>6
  <2>2. /\ q.far.owner = "FarEnd" /\ ~q.far.awaiting_prompt /\ q.far.left = NoRow
        /\ q.far.anchor = [line |-> shell.row, column |-> 1] /\ q.far.held = none
        /\ q.field = [text |-> none, caret |-> shell.cursor]
    BY <1>5, <1>6, <1>7, <1>8, <1>9 DEF BeginsHere
  <2> HIDE DEF none
  <2>3. Lands(q, none)
    BY <1>6, <2>1, <2>2 DEF Lands
  <2> QED BY <2>3 DEF none
<1> QED BY <1>1, <1>3, <1>4, <1>6, <1>10, LandsAtTheLine

\* or wherever a command has left the cursor.
LEMMA RunSettles ==
  ASSUME Ordered, RunningOn, HeadedInTurn, RowsAreKept, Settle
  PROVE  RunningOn' /\ HeadedInTurn' /\ RowsAreKept'
<1>1. /\ settled /\ pump.far.owner = "FarEnd" /\ pump.far.printed = <<>>
      /\ pump.far.watching <=> pump.far.awaiting_prompt
  BY DEF Settle, RunningOn
<1>2. OnlyOn({}) /\ {} \cap shell.rows \subseteq Fields(pump)
  BY <1>1, OfNone DEF OnlyOn
<1>3. (\E q, told : SettledOn(q, told)) /\ RowsAreKept'
  BY <1>1, <1>2, SettlesOn
<1>4. PICK q, told : SettledOn(q, told)
  BY <1>3
<1>5. BeginsHere(q)
  BY <1>1, <1>4, AnchorsIt
<1>6. /\ Becomes(q) /\ Formed(q) /\ ~settled' /\ headings' = headings /\ Unmoved
      /\ keys' = keys /\ reads' = reads /\ shell' = shell /\ ran' = ran
  BY <1>4 DEF SettledOn
<1>7. /\ (pump.far.owner = "FarEnd")' /\ (pump.far.printed = <<>>)'
      /\ (pump.far.watching <=> pump.far.awaiting_prompt)'
  <2>1. pump'.far = q.far
    BY <1>6, BecomesIs
  <2> QED BY <1>5, <2>1 DEF BeginsHere
<1>8. (\/ /\ shell.phase = "running" /\ Len(reads) <= 1 /\ ReadsRun(Len(reads))
          /\ keys = <<>> \/ (keys = <<"CtrlC">> /\ reads = <<>> /\ ~settled)
       \/ /\ Fresh /\ keys = <<>> /\ Text(shell.row) = <<>>
          /\ Len(reads) \in {1, 2} /\ ReadsRun(Len(reads) - 1)
          /\ reads[Len(reads)] = PromptOn(shell.row, <<Done>>))'
  <2>1. CASE /\ shell.phase = "running" /\ Len(reads) <= 1 /\ ReadsRun(Len(reads))
             /\ keys = <<>> \/ (keys = <<"CtrlC">> /\ reads = <<>> /\ ~settled)
    <3>1. keys = <<>>
      BY <1>1, <2>1
    <3>2. Len(reads) \in Nat /\ Len(reads) <= 1
      BY <2>1, StateIs DEF IsSeq
    <3>3. Len(reads) = 0
      <4>1. SUFFICES ASSUME Len(reads) # 0 PROVE FALSE
        OBVIOUS
      <4>2. 1 \in 1..Len(reads)
        BY <3>2, <4>1
      <4> QED BY <1>1, <2>1, <4>2 DEF ReadsRun
    <3>4. ReadsRun(Len(reads))'
      <4>1. 1..Len(reads') = {}
        BY <1>6, <3>3
      <4> QED BY <4>1 DEF ReadsRun
    <3> QED BY <1>6, <2>1, <3>1, <3>4
  <2>2. CASE /\ Fresh /\ keys = <<>> /\ Text(shell.row) = <<>>
             /\ Len(reads) \in {1, 2} /\ ReadsRun(Len(reads) - 1)
             /\ reads[Len(reads)] = PromptOn(shell.row, <<Done>>)
    <3>1. Len(reads) = 1
      <4>1. SUFFICES ASSUME Len(reads) = 2 PROVE FALSE
        BY <2>2
      <4>2. 1 \in 1..(Len(reads) - 1)
        BY <4>1
      <4> QED BY <1>1, <2>2, <4>2 DEF ReadsRun
    <3>2. ReadsRun(Len(reads) - 1)'
      <4>1. 1..(Len(reads') - 1) = {}
        BY <1>6, <3>1
      <4> QED BY <4>1 DEF ReadsRun
    <3>3. (Text(shell.row) = <<>>)'
      <4>1. shell.row \in Rows
        BY StateIs
      <4>2. Text(shell.row)' = Text(shell.row)
        BY <1>6, <4>1 DEF Unmoved, Text
      <4> QED BY <2>2, <4>2
    <3>4. Fresh' /\ keys' = <<>> /\ Len(reads') \in {1, 2}
          /\ reads'[Len(reads')] = PromptOn(shell'.row, <<Done>>)
      BY <1>6, <2>2 DEF Fresh
    <3> QED BY <3>2, <3>3, <3>4
  <2> QED BY <2>1, <2>2 DEF RunningOn
<1>9. RunningOn'
  BY <1>7, <1>8 DEF RunningOn
<1>10. HeadedInTurn'
  BY <1>6 DEF HeadedInTurn
<1> QED BY <1>3, <1>9, <1>10

\* Nothing else settles.
LEMMA SettleInStep ==
  ASSUME Ordered, LineFits, Stages, HeadedInTurn, RowsAreKept, Settle
  PROVE  Stages' /\ HeadedInTurn' /\ RowsAreKept'
<1>1. settled
  BY DEF Settle
<1>2. ~OwnedHere
  BY <1>1 DEF OwnedHere, Ordered, InTurn
<1>3. /\ ~AtTheLine /\ ~KeyAnswered /\ ~ListedBelow
      /\ ~Leaving /\ ~LineLeft
  BY <1>1 DEF AtTheLine, KeyAnswered, ListedBelow, Leaving, LineLeft, Awaiting
<1>4. AnswerSeen \/ ListingSeen \/ RunningOn \/ BackAtPrompt
  BY <1>2, <1>3 DEF Stages
<1>5. CASE AnswerSeen \/ ListingSeen
  BY <1>5, AnswerSettles DEF Stages
<1>6. CASE RunningOn
  BY <1>6, RunSettles DEF Stages
<1>7. CASE BackAtPrompt
  BY <1>7, PromptSettles DEF Stages
<1> QED BY <1>4, <1>5, <1>6, <1>7

-----------------------------------------------------------------------------
(* In every state.                                                         *)
LEMMA StutterInStep ==
  ASSUME InStep, UNCHANGED vars PROVE InStep'
<1>1. UNCHANGED <<tracker, pump, screen, settled, keys, reads, shell, presses, ran, pasted,
                  headings, transcript>>
  BY DEF vars
<1>2. SUFFICES ASSUME ~pasted, Stages, HeadedInTurn, RowsAreKept
               PROVE  Stages' /\ HeadedInTurn' /\ RowsAreKept'
  BY <1>1 DEF InStep, LineFits
<1>3. HeadedInTurn' /\ RowsAreKept'
  BY <1>1, <1>2 DEF HeadedInTurn, RowsAreKept
<1>4. /\ EchoHeard' = EchoHeard /\ OnTheRow' = OnTheRow /\ Fresh' = Fresh
      /\ Agreeing' = Agreeing /\ Watched' = Watched
  BY <1>1 DEF EchoHeard, OnTheRow, Fresh, Agreeing, Watched, Text, Line, LineCaret
<1>5. Holding' = Holding /\ Awaiting' = Awaiting /\ Watching' = Watching
  BY <1>1, <1>4 DEF Holding, Awaiting, Watching, Text, OnlyOn
<1>6. OwnedHere => OwnedHere'
  BY <1>1, <1>4 DEF OwnedHere, Text
<1>7. AtTheLine => AtTheLine'
  BY <1>1, <1>4, <1>5 DEF AtTheLine
<1>8. KeyAnswered => KeyAnswered'
  BY <1>1, <1>5, <1>4 DEF KeyAnswered, Line
<1>9. AnswerSeen => AnswerSeen'
  BY <1>1, <1>5, <1>4 DEF AnswerSeen, Line
<1>10. ListedBelow => ListedBelow'
  BY <1>1, <1>5, <1>4 DEF ListedBelow, Text
<1>11. ListingSeen => ListingSeen'
  BY <1>1, <1>5, <1>4 DEF ListingSeen, Line
<1>12. Leaving => Leaving'
  BY <1>1, <1>5 DEF Leaving, Text, Line
<1>13. LineLeft => LineLeft'
  BY <1>1, <1>4, <1>5 DEF LineLeft, Text
<1>14. RunningOn => RunningOn'
  BY <1>1, <1>4 DEF RunningOn, ReadsRun, IsRun, Text
<1>15. BackAtPrompt => BackAtPrompt'
  BY <1>1, <1>4 DEF BackAtPrompt, OnlyOn
<1> QED BY <1>2, <1>3, <1>6, <1>7, <1>8, <1>9, <1>10, <1>11, <1>12, <1>13, <1>14, <1>15
        DEF Stages

LEMMA InStepStays ==
  ASSUME marks_output_start, Patient, OnOneRow, Ordered, InStep, [Next]_vars
  PROVE  InStep'
<1>1. CASE UNCHANGED vars
  BY <1>1, StutterInStep
<1>2. CASE Next
  <2>1. SUFFICES ASSUME ~pasted', ~paste
                 PROVE  Stages' /\ HeadedInTurn' /\ RowsAreKept' /\ LineFits'
    BY DEF InStep, paste
  <2>2. pasted' = pasted
    BY <1>2, <2>1 DEF Next, Press, Toggle, Take, Finish, Receive, Settle
  <2>3. Stages /\ HeadedInTurn /\ RowsAreKept /\ LineFits
    BY <2>1, <2>2 DEF InStep
  <2>10. LineFits'
    BY <1>2, <2>1, <2>3, LineFitsStays
  <2>4. ASSUME NEW key \in Keys, Press(key) PROVE Stages' /\ HeadedInTurn' /\ RowsAreKept'
    BY <2>3, <2>4, PressInStep
  <2>5. CASE Toggle
    BY <2>3, <2>5, <2>10, ToggleInStep
  <2>6. CASE Take
    BY <2>3, <2>6, <2>10, TakeInStep
  <2>7. CASE Finish
    BY <2>3, <2>7, <2>10, FinishInStep
  <2>8. CASE Receive
    BY <2>3, <2>8, <2>10, ReceiveInStep
  <2>9. CASE Settle
    BY <2>3, <2>9, <2>10, SettleInStep
  <2> QED BY <1>2, <2>1, <2>4, <2>5, <2>6, <2>7, <2>8, <2>9, <2>10 DEF Next
<1> QED BY <1>1, <1>2

\* At rest the line is in the field.
LEMMA RestsAtTheLine ==
  ASSUME Stages, AtRest PROVE AtTheLine
<1>1. Quiet /\ shell.phase = "prompt" /\ pump.far.owner = "FarEnd"
  BY DEF AtRest
<1>2. OwnedHere \/ AtTheLine \/ (RunningOn /\ shell.phase = "running")
  BY <1>1, QuietIs
<1>3. ~OwnedHere
  BY <1>1 DEF OwnedHere
<1> QED BY <1>1, <1>2, <1>3

LEMMA InStepHolds ==
  ASSUME Ordered, InStep
  PROVE  FieldHoldsTheLine /\ HeadedByWhatRan /\ CommandRowsStayInTheField
<1>1. ASSUME AtRest, ~pasted
      PROVE  /\ pump.field.caret = shell.cursor
             /\ trim_end(pump.field.text) = trim_end(shell.line)
             /\ IsPrefix(SubSeq(shell.line, 1, shell.cursor), pump.field.text)
  <2>1. AtTheLine
    BY <1>1, RestsAtTheLine DEF InStep
  <2>2. /\ trim_end(pump.far.held) = trim_end(shell.line)
        /\ pump.far.held = pump.field.text
        /\ pump.field.caret = shell.cursor /\ pump.field.caret <= Len(pump.far.held)
    BY <2>1 DEF AtTheLine, Holding, Agreeing
  <2>3. /\ pump.field.text \in Texts /\ shell.line \in Texts /\ shell.cursor \in Nat
        /\ shell.cursor <= Len(shell.line)
    BY StateIs
  <2>4. IsPrefix(SubSeq(shell.line, 1, shell.cursor), pump.field.text)
    BY <2>2, <2>3, FrontIsKept
  <2> QED BY <2>2, <2>4
<1>2. FieldHoldsTheLine
  BY <1>1 DEF FieldHoldsTheLine
<1>3. HeadedByWhatRan
  <2>1. ASSUME AtRest, ~pasted PROVE Kept(headings) = ran
    <3>1. keys = <<>> /\ HeadedInTurn
      BY <2>1 DEF AtRest, Quiet, InStep
    <3>2. keys # <<"Enter">>
      BY <3>1, OneOf
    <3> QED BY <3>1, <3>2 DEF HeadedInTurn
  <2> QED BY <2>1 DEF HeadedByWhatRan
<1>4. CommandRowsStayInTheField
  BY DEF InStep, RowsAreKept, CommandRowsStayInTheField
<1> QED BY <1>2, <1>3, <1>4

\* For a user who waits for the answer to each key, and pastes nothing, and whose
\* lines fit on the rows of the terminal, every key goes through the stages of its
\* answer, and each stage has the line, the rows and the headings as the shell has
\* them (far_end_key to far_end_settled).
THEOREM FarEndIsInStep ==
  ASSUME marks_output_start, Patient, OnOneRow
  PROVE  Spec => [](Ordered /\ InStep)
<1>1. Init => Ordered /\ InStep
  BY InitOrdered, StartsInStep
<1>2. Ordered /\ InStep /\ [Next]_vars => (Ordered /\ InStep)'
  BY OrderedStays, InStepStays
<1> QED BY <1>1, <1>2, PTL DEF Spec

\* What the screen reader reads at rest is the line that the shell is editing, with
\* the caret where its cursor is and the blanks before it, where lines fit on their
\* rows: the caret is a column of the terminal (far_end_row, follow_cursor).
THEOREM FieldIsTheLine ==
  ASSUME marks_output_start, Patient, OnOneRow
  PROVE  Spec => []FieldHoldsTheLine
<1>1. Spec => [](Ordered /\ InStep)
  BY FarEndIsInStep
<1>2. Ordered /\ InStep => FieldHoldsTheLine
  BY InStepHolds
<1> QED BY <1>1, <1>2, PTL

\* At rest each command that ran has one heading, in the order they ran, and it is
\* the line that ran (far_end_submitted reads it before the anchor is left).
THEOREM HeadingsAreWhatRan ==
  ASSUME marks_output_start, Patient, OnOneRow
  PROVE  Spec => []HeadedByWhatRan
<1>1. Spec => [](Ordered /\ InStep)
  BY FarEndIsInStep
<1>2. Ordered /\ InStep => HeadedByWhatRan
  BY InStepHolds
<1> QED BY <1>1, <1>2, PTL

\* No text of a row the line was edited on ever reaches the results: not of one that
\* was run, nor dropped, nor redrawn below a listing (printed passes Fields over).
THEOREM CommandRowsAreTheFields ==
  ASSUME marks_output_start, Patient, OnOneRow
  PROVE  Spec => []CommandRowsStayInTheField
<1>1. Spec => [](Ordered /\ InStep)
  BY FarEndIsInStep
<1>2. Ordered /\ InStep => CommandRowsStayInTheField
  BY InStepHolds
<1> QED BY <1>1, <1>2, PTL
=============================================================================
