---------------------------- MODULE EngineProofs ----------------------------
(***************************************************************************)
(* What holds of the extractor whatever the program writes, on a screen of *)
(* any height over any history.  The lines that can still change are in    *)
(* the order of their identities, and the items said of them keep the      *)
(* promises of LineStream; what the lines say plays no part in either.     *)
(* And between two reads what is known is what the screen shows.           *)
(***************************************************************************)
EXTENDS Engine, WellFoundedInduction, TLAPS

(***************************************************************************)
(* The least and the greatest of a set of rows.                            *)
(***************************************************************************)
LEMMA LeastOfNat ==
  ASSUME NEW S, S \subseteq Nat, S # {}
  PROVE  \E x \in S : \A y \in S : x <= y
<1> DEFINE R == OpToRel(<, Nat)
<1>1. PICK x \in S : \A y \in S : ~ (<<y, x>> \in R)
  <2> HIDE DEF R
  <2> QED BY WFMin, NatLessThanWellFounded DEF R
<1>2. \A y \in S : ~(y < x)
  <2> SUFFICES ASSUME NEW y \in S, y < x PROVE FALSE
    OBVIOUS
  <2>1. <<y, x>> \in Nat \X Nat /\ <<y, x>>[1] < <<y, x>>[2]
    OBVIOUS
  <2> QED BY <1>1, <2>1 DEF OpToRel
<1> HIDE DEF R
<1>3. \A y \in S : x \in Nat /\ y \in Nat
  OBVIOUS
<1> QED BY <1>2, <1>3

LEMMA LeastAndGreatest ==
  ASSUME NEW a \in Int, NEW b \in Int, NEW S, S \subseteq a..b, S # {}
  PROVE  /\ Min(S) \in S /\ \A y \in S : Min(S) <= y
         /\ Max(S) \in S /\ \A y \in S : y <= Max(S)
<1>1. \E x \in S : \A y \in S : x <= y
  <2> DEFINE T == {n \in Nat : a + n \in S}
  <2>1. \A x \in S : x - a \in T
    OBVIOUS
  <2>2. PICK t \in T : \A y \in T : t <= y
    BY <2>1, LeastOfNat
  <2>3. a + t \in S /\ \A y \in S : a + t <= y
    BY <2>1, <2>2
  <2> QED BY <2>3
<1>2. \E x \in S : \A y \in S : x >= y
  <2> DEFINE T == {n \in Nat : b - n \in S}
  <2>1. \A x \in S : b - x \in T
    OBVIOUS
  <2>2. PICK t \in T : \A y \in T : t <= y
    BY <2>1, LeastOfNat
  <2>3. b - t \in S /\ \A y \in S : b - t >= y
    BY <2>1, <2>2
  <2> QED BY <2>3
<1>3. Min(S) \in S /\ \A y \in S : Min(S) <= y
  BY <1>1 DEF Min
<1>4. Max(S) \in S /\ \A y \in S : Max(S) >= y
  BY <1>2 DEF Max
<1> QED BY <1>3, <1>4

(***************************************************************************)
(* Types, of what the order of the lines depends on.                       *)
(***************************************************************************)
GridRow == [text : Texts \cup {Full, <<>>}, wraps : BOOLEAN]
Screens == [1..Height -> GridRow]
Cursors == 0..(Height - 1)

GridTyped ==
  /\ base \in Nat /\ history \in Seq(GridRow) /\ screen \in Screens /\ cursor \in Cursors
  /\ main \in [history : Seq(GridRow), screen : Screens, cursor : Cursors]

ScanTyped ==
  /\ scan_floor \in Nat /\ phase \in {"write", "emit", "done"}
  /\ phase = "emit" => at \in Nat /\ end \in Int /\ end <= bottom

\* The lines ln that are known when n identities were minted and those of f are
\* settled: a line that can change has an identity that is not settled, and
\* identities increase down the screen.
IsLive(ln, r) == r \in DOMAIN ln /\ ln[r].id # NoId
Ordered(ln, n, f) ==
  /\ \E b \in Nat : DOMAIN ln \subseteq 0..b
  /\ \A r : IsLive(ln, r) => ln[r].id \in 0..(n - 1) /\ ln[r].id \notin f
  /\ \A r, k : IsLive(ln, r) /\ IsLive(ln, k) /\ r < k => ln[r].id < ln[k].id

Stream ==
  /\ next_id \in Nat /\ DOMAIN shown = 0..(next_id - 1) /\ final \subseteq DOMAIN shown
  /\ Ordered(lines, next_id, final)

Inv == GridTyped /\ ScanTyped /\ Stream

LEMMA Rows ==
  ASSUME GridTyped
  PROVE  /\ oldest \in Nat /\ top \in Nat /\ bottom \in Nat /\ here \in Nat
         /\ oldest <= top /\ top <= bottom /\ here <= bottom
<1>1. Height \in Nat /\ Height >= 1 /\ Len(history) \in Nat
  BY EngineAssumption DEF GridTyped
<1> QED BY <1>1 DEF GridTyped, oldest, top, bottom, here, Cursors

LEMMA LastRow ==
  ASSUME GridTyped, NEW r \in Nat, r <= bottom
  PROVE  last_of(r) \in r..bottom
<1> DEFINE S == {k \in r..bottom : ~Row(k).wraps \/ k = bottom}
<1>1. r \in Int /\ bottom \in Int /\ S \subseteq r..bottom /\ bottom \in S
  BY Rows
<1>2. Min(S) \in S
  <2> HIDE DEF S
  <2> QED BY <1>1, LeastAndGreatest
<1> QED BY <1>1, <1>2 DEF last_of

(***************************************************************************)
(* What is said.                                                           *)
(***************************************************************************)
LEMMA Joined ==
  ASSUME NEW f, NEW g
  PROVE  /\ DOMAIN Over(f, g) = DOMAIN f \cup DOMAIN g
         /\ \A x \in DOMAIN f : Over(f, g)[x] = f[x]
         /\ \A x \in DOMAIN g \ DOMAIN f : Over(f, g)[x] = g[x]
BY DEF Over

LEMMA Single ==
  ASSUME NEW x, NEW v
  PROVE  DOMAIN One(x, v) = {x} /\ One(x, v)[x] = v
BY DEF One

LEMMA Said ==
  ASSUME NEW id, NEW text, NEW revision
  PROVE  /\ DOMAIN One(id, Item(text, revision)) = {id}
         /\ One(id, Item(text, revision))[id].revision = revision
         /\ One(id, Item(text, revision))[id].text = text
BY DEF One, Item

LEMMA SettledSays ==
  ASSUME NEW rows, NEW text
  PROVE  /\ DOMAIN SettledAs(rows, text) = {lines[r].id : r \in rows}
         /\ \A id \in DOMAIN SettledAs(rows, text) :
              SettledAs(rows, text)[id].revision = "Settled"
BY DEF SettledAs, Item

\* What is said is promised, and the reader hears it.
WellSaid == L!Promised(items') /\ L!Read(items')

\* What may be said: something of lines that can change, and of a new one.
LEMMA Promises ==
  ASSUME Stream, NEW said, Says(said), NEW new \in {{}, {next_id}},
         DOMAIN said \subseteq LiveIds \cup new, new \subseteq DOMAIN said,
         next_id \in new => said[next_id].revision # "Rewritten"
  PROVE  /\ WellSaid
         /\ final' = final \cup {id \in DOMAIN said : said[id].revision = "Settled"}
         /\ DOMAIN shown' = DOMAIN shown \cup new
<1>1. /\ items' = said
      /\ final' = final \cup {id \in DOMAIN said : said[id].revision = "Settled"}
      /\ DOMAIN shown' = DOMAIN shown \cup DOMAIN said
  BY DEF Says, L!Read
<1>2. LiveIds \subseteq DOMAIN shown \ final
  BY DEF LiveIds, Live, Stream, Ordered, IsLive
<1>3. next_id \in Nat /\ DOMAIN shown = 0..(next_id - 1) /\ next_id \notin final
  BY DEF Stream
<1>4. L!Promised(said)
  <2>1. DOMAIN said \cap final = {}
    BY <1>2, <1>3
  <2>2. \A id \in DOMAIN said : said[id].revision = "Rewritten" => id \in DOMAIN shown
    BY <1>2
  <2>3. \A id \in DOMAIN said \ DOMAIN shown : id = next_id
    BY <1>2
  <2>4. \A id \in DOMAIN said \ DOMAIN shown :
          id \in Nat /\ 0..(id - 1) \subseteq DOMAIN shown \cup DOMAIN said
    BY <1>3, <2>3
  <2> QED BY <2>1, <2>2, <2>4 DEF L!Promised
<1>5. WellSaid
  BY <1>1, <1>4 DEF WellSaid, Says
<1> QED BY <1>1, <1>2, <1>5

\* Saying nothing is always in order.
LEMMA Hush ==
  ASSUME Stream, Says(Silence)
  PROVE  WellSaid /\ final' = final /\ DOMAIN shown' = DOMAIN shown
<1>1. DOMAIN Silence = {}
  BY DEF Silence
<1> QED BY <1>1, Promises

(***************************************************************************)
(* The types are kept.                                                     *)
(***************************************************************************)
LEMMA GridAtFirst == Init => GridTyped /\ ScanTyped
<1>1. 0 \in Cursors /\ Blank \in Screens /\ <<>> \in Seq(GridRow)
  BY EngineAssumption DEF Cursors, Blank, BlankRow, Screens, GridRow
<1> QED BY <1>1 DEF Init, GridTyped, ScanTyped

LEMMA GridByWriting ==
  ASSUME Inv, NEW r \in 1..Height, NEW text \in Texts,
         Write(r, text) \/ WriteLong(r, text)
  PROVE  GridTyped' /\ ScanTyped'
<1>1. Height \in Nat /\ Height >= 1 /\ base' = base /\ main' = main /\ base \in Nat
      /\ history \in Seq(GridRow) /\ screen \in Screens /\ cursor \in Cursors
  BY EngineAssumption
     DEF Inv, GridTyped, Write, WriteLong, Writing
<1>2. ScanTyped'
  BY DEF Inv, ScanTyped, Write, WriteLong, Writing, extractor
<1>3. [text |-> text, wraps |-> FALSE] \in GridRow /\ [text |-> Full, wraps |-> TRUE] \in GridRow
  BY DEF GridRow
<1>4. CASE Write(r, text)
  <2>1. screen' \in Screens /\ cursor' \in Cursors /\ history' = history
    BY <1>1, <1>3, <1>4 DEF Write, Screens, Cursors
  <2> QED BY <1>1, <1>2, <2>1 DEF Inv, GridTyped
<1>5. CASE WriteLong(r, text)
  <2>1. screen' \in Screens /\ cursor' \in Cursors /\ history' = history
    <3>1. r + 1 \in 1..Height /\ cursor' = r /\ history' = history
      BY <1>1, <1>5 DEF WriteLong
    <3>2. [screen EXCEPT ![r] = [text |-> Full, wraps |-> TRUE]] \in Screens
      BY <1>1, <1>3 DEF Screens
    <3>3. screen' = [[screen EXCEPT ![r]     = [text |-> Full, wraps |-> TRUE]]
                             EXCEPT ![r + 1] = [text |-> text, wraps |-> FALSE]]
      BY <1>5 DEF WriteLong
    <3>4. screen' \in Screens
      BY <1>3, <3>1, <3>2, <3>3 DEF Screens
    <3> QED BY <1>1, <3>1, <3>4 DEF Cursors
  <2> QED BY <1>1, <1>2, <2>1 DEF Inv, GridTyped
<1> QED BY <1>4, <1>5

LEMMA GridByScrolling ==
  ASSUME Inv, LineFeed \/ EraseHistory
  PROVE  GridTyped' /\ ScanTyped'
<1>1. Height \in Nat /\ Height >= 1 /\ base' = base /\ main' = main /\ base \in Nat
      /\ history \in Seq(GridRow) /\ screen \in Screens /\ cursor \in Cursors
  BY EngineAssumption DEF Inv, GridTyped, LineFeed, EraseHistory, Writing
<1>2. ScanTyped'
  BY DEF Inv, ScanTyped, LineFeed, EraseHistory, Writing, extractor
<1>3. BlankRow \in GridRow
  BY DEF BlankRow, GridRow
<1>4. CASE LineFeed
  <2>1. CASE cursor < Height - 1
    BY <1>1, <1>2, <1>4, <2>1 DEF Inv, GridTyped, LineFeed, Cursors
  <2>2. CASE ~(cursor < Height - 1)
    <3>1. /\ history' = Scrolled(<<screen[1]>>) /\ cursor' = cursor
          /\ screen' = Tail(screen) \o <<BlankRow>>
      BY <1>4, <2>2 DEF LineFeed
    <3>2. /\ screen \in Seq(GridRow) /\ Len(screen) = Height
          /\ screen[1] \in GridRow
      BY <1>1 DEF Screens
    <3>3. screen' \in Screens
      <4>1. Tail(screen) \in Seq(GridRow) /\ Len(Tail(screen)) = Height - 1
        BY <1>1, <3>2
      <4>2. screen' \in Seq(GridRow) /\ Len(screen') = Height
        BY <1>1, <1>3, <3>1, <4>1
      <4> QED BY <1>1, <4>2 DEF Screens
    <3>4. history' \in Seq(GridRow)
      <4>1. CASE alternate
        BY <1>1, <3>1, <4>1 DEF Scrolled
      <4>2. CASE ~alternate /\ Len(history) = StagingRows
        <5>1. history # <<>>
          BY <4>2, EngineAssumption
        <5> QED BY <1>1, <3>1, <3>2, <4>2, <5>1 DEF Scrolled
      <4>3. CASE ~alternate /\ Len(history) # StagingRows
        BY <1>1, <3>1, <3>2, <4>3 DEF Scrolled
      <4> QED BY <4>1, <4>2, <4>3
    <3> QED BY <1>1, <1>2, <3>1, <3>3, <3>4 DEF Inv, GridTyped
  <2> QED BY <2>1, <2>2
<1>5. CASE EraseHistory
  BY <1>1, <1>2, <1>5 DEF Inv, GridTyped, EraseHistory
<1> QED BY <1>4, <1>5

LEMMA Beginnings ==
  ASSUME GridTyped, NEW floor \in Nat, NEW known, Begin(From(floor), known)
  PROVE  scan_floor' \in Nat /\ at' \in Nat /\ end' \in Int /\ end' <= bottom
<1> DEFINE F == From(floor)
           S == Scanned(F, known) \cup {F - 1}
<1>1. F \in Nat /\ F <= bottom
  <2>1. Min({floor, here}) \in Nat /\ Min({floor, here}) <= here
    <3> DEFINE T == {floor, here}
    <3>1. T \subseteq 0..(floor + here) /\ T # {} /\ 0 \in Int /\ floor + here \in Int
      BY Rows
    <3>2. Min(T) \in T /\ \A y \in T : Min(T) <= y
      <4> HIDE DEF T
      <4> QED BY <3>1, LeastAndGreatest
    <3> QED BY <3>1, <3>2, Rows
  <2>2. {oldest, Min({floor, here})} \subseteq 0..bottom
    BY <2>1, Rows
  <2>3. Max({oldest, Min({floor, here})}) \in {oldest, Min({floor, here})}
    <3> DEFINE T == {oldest, Min({floor, here})}
    <3>1. T # {} /\ 0 \in Int /\ bottom \in Int /\ T \subseteq 0..bottom
      BY <2>2, Rows
    <3>2. Max(T) \in T
      <4> HIDE DEF T
      <4> QED BY <3>1, LeastAndGreatest
    <3> QED BY <3>2
  <2> QED BY <2>2, <2>3, Rows DEF From
<1>2. S \subseteq (F - 1)..bottom /\ S # {} /\ F - 1 \in Int /\ bottom \in Int
  BY <1>1, Rows DEF Scanned
<1>3. Max(S) \in S
  <2> HIDE DEF S, F
  <2> QED BY <1>2, LeastAndGreatest
<1>4. scan_floor' = F /\ at' = F /\ end' = Max(S)
  BY DEF Begin
<1> QED BY <1>1, <1>2, <1>3, <1>4

LEMMA GridByExtracting ==
  ASSUME Inv, (\E why \in Signals : extract(why)) \/ emit_line \/ reclaim \/ place
  PROVE  GridTyped' /\ ScanTyped'
<1> USE DEF Inv
<1>1. CASE \E why \in Signals : extract(why)
  <2>1. GridTyped' /\ bottom' = bottom
    BY <1>1 DEF extract, grid, GridTyped, bottom, top
  <2>2. \E floor \in Nat : \E known : Begin(From(floor), known)
    BY <1>1, Rows DEF extract, ScanTyped
  <2> QED BY <1>1, <2>1, <2>2, Beginnings DEF ScanTyped, extract
<1>2. CASE emit_line
  <2>1. GridTyped' /\ bottom' = bottom
    BY <1>2 DEF emit_line, grid, GridTyped, bottom, top
  <2>2. last_of(at) \in Nat
    BY <1>2, LastRow, Rows DEF emit_line, ScanTyped
  <2> QED BY <1>2, <2>1, <2>2 DEF emit_line, ScanTyped
<1>3. CASE reclaim
  <2>1. base' \in Nat /\ history' \in Seq(GridRow)
    <3>1. base \in Nat /\ history \in Seq(GridRow) /\ Len(history) \in Nat
          /\ <<>> \in Seq(GridRow)
      BY DEF GridTyped
    <3>2. \/ history' = history /\ base' = base
          \/ history' = <<>> /\ base' = base + Len(history)
      BY <1>3 DEF reclaim
    <3>3. base + Len(history) \in Nat
      BY <3>1
    <3> QED BY <3>1, <3>2, <3>3
  <2>2. GridTyped'
    BY <1>3, <2>1 DEF reclaim, GridTyped
  <2> QED BY <1>3, <2>2 DEF reclaim, ScanTyped, extractor
<1>4. CASE place
  <2>1. base' = base /\ phase' = "write"
    BY <1>4 DEF place, grid
  <2>2. CASE ~(signal \in Switches)
    <3>1. UNCHANGED grid /\ scan_floor' = scan_floor
      BY <1>4, <2>2 DEF place, extractor
    <3> QED BY <2>1, <3>1 DEF GridTyped, ScanTyped, grid
  <2>3. CASE signal \in Switches
    <3>1. Switch(signal)
      BY <1>4, <2>3 DEF place, Signals, Settling, Switches
    <3>2. Blank \in Screens
      BY DEF Blank, BlankRow, Screens, GridRow
    <3>3. /\ history' \in Seq(GridRow) /\ screen' \in Screens /\ cursor' \in Cursors
          /\ main' \in [history : Seq(GridRow), screen : Screens, cursor : Cursors]
      <4>1. CASE signal = "Alternate"
        <5>1. cursor' = cursor /\ IF alternate THEN UNCHANGED <<history, screen, main>>
                ELSE /\ main' = [history |-> history, screen |-> screen, cursor |-> cursor]
                     /\ history' = <<>> /\ screen' = Blank
          BY <3>1, <4>1 DEF Switch
        <5>2. CASE alternate
          BY <5>1, <5>2 DEF GridTyped
        <5>3. CASE ~alternate
          BY <3>2, <5>1, <5>3 DEF GridTyped
        <5> QED BY <5>2, <5>3
      <4>2. CASE signal # "Alternate"
        BY <3>1, <4>2 DEF Switch, GridTyped
      <4> QED BY <4>1, <4>2
    <3>4. scan_floor' \in Nat
      <4>1. base \in Nat /\ Len(history') \in Nat /\ cursor' \in Nat
        BY <3>3, EngineAssumption DEF GridTyped, Cursors
      <4> QED BY <3>1, <4>1 DEF Switch
    <3> QED BY <2>1, <3>3, <3>4 DEF GridTyped, ScanTyped
  <2> QED BY <2>2, <2>3
<1> QED BY <1>1, <1>2, <1>3, <1>4

(***************************************************************************)
(* The lines stay in order.                                                *)
(***************************************************************************)

\* Lines that are forgotten or settled leave the others in order.
LEMMA Fewer ==
  ASSUME NEW ln, NEW n \in Nat, NEW f, Ordered(ln, n, f),
         NEW less, NEW m \in Nat, n <= m, NEW b \in Nat, DOMAIN less \subseteq 0..b, NEW g,
         \A r : IsLive(less, r) => /\ IsLive(ln, r) /\ less[r].id = ln[r].id
                                  /\ less[r].id \notin g
  PROVE  Ordered(less, m, g)
BY DEF Ordered

LEMMA NoneLive ==
  ASSUME NEW b \in Nat, NEW ln, DOMAIN ln \subseteq 0..b, \A r : ~IsLive(ln, r),
         NEW n \in Nat, NEW f
  PROVE  Ordered(ln, n, f)
BY DEF Ordered

LEMMA LiveIsLive == \A r : r \in Live <=> IsLive(lines, r)
BY DEF Live, IsLive

LEMMA StreamAtFirst == Init => Stream
<1> SUFFICES ASSUME Init PROVE Stream
  OBVIOUS
<1>1. DOMAIN lines = {} /\ DOMAIN shown = {} /\ final = {} /\ next_id = 0
  BY DEF Init
<1>2. Ordered(lines, next_id, final)
  BY <1>1, NoneLive DEF IsLive
<1> QED BY <1>1, <1>2 DEF Stream

\* Nothing is said, and the lines are as they were.
LEMMA StreamAsItWas ==
  ASSUME Stream, Says(Silence), UNCHANGED <<next_id, lines>>
  PROVE  Stream' /\ WellSaid
BY Hush DEF Stream

LEMMA StreamByExtracting ==
  ASSUME Stream, NEW why \in Signals, extract(why)
  PROVE  Stream' /\ WellSaid
<1>1. CASE saturated
  <2> DEFINE gap  == One(next_id, Item(<<"gap">>, "Settled"))
             rest == SettledAs(Live, [r \in Live |-> lines[r].emitted])
             said == Over(gap, rest)
  <2>1. Says(said) /\ next_id' = next_id + 1 /\ lines' = <<>>
    BY <1>1 DEF extract, settle_from_record
  <2>2. DOMAIN gap = {next_id} /\ gap[next_id].revision = "Settled"
    BY Said
  <2>3. DOMAIN rest = LiveIds /\ \A id \in DOMAIN rest : rest[id].revision = "Settled"
    BY SettledSays DEF LiveIds
  <2>4. DOMAIN said = LiveIds \cup {next_id} /\ said[next_id].revision # "Rewritten"
    <3> HIDE DEF gap, rest
    <3>1. DOMAIN said = DOMAIN gap \cup DOMAIN rest /\ \A x \in DOMAIN gap : said[x] = gap[x]
      BY Joined
    <3> QED BY <2>2, <2>3, <3>1
  <2>5. /\ WellSaid /\ final' \subseteq final \cup DOMAIN said
        /\ DOMAIN shown' = DOMAIN shown \cup {next_id}
    <3> HIDE DEF said
    <3>1. {next_id} \in {{}, {next_id}}
      OBVIOUS
    <3> QED BY <2>1, <2>4, <3>1, Promises
  <2>6. LiveIds \subseteq DOMAIN shown
    BY DEF LiveIds, Live, Stream, Ordered, IsLive
  <2>7. Ordered(lines', next_id', final')
    BY <2>1, NoneLive DEF IsLive, Stream
  <2> QED BY <2>1, <2>4, <2>5, <2>6, <2>7 DEF Stream
<1>2. CASE ~saturated
  BY <1>2, StreamAsItWas DEF extract
<1> QED BY <1>1, <1>2

\* Every line that can change settles with the block, or with the screen.
LEMMA StreamByPlacing ==
  ASSUME Stream, place
  PROVE  Stream' /\ WellSaid
<1>1. CASE signal = "ReadEnd" /\ Says(Silence) /\ UNCHANGED extractor
  BY <1>1, StreamAsItWas DEF extractor
<1>2. ASSUME Says(SettledAs(Live, [r \in Live |-> read_line(r)])), next_id' = next_id,
             DOMAIN lines' \subseteq DOMAIN lines, \A r : ~IsLive(lines', r)
      PROVE  Stream' /\ WellSaid
  <2> DEFINE said == SettledAs(Live, [r \in Live |-> read_line(r)])
  <2>1. DOMAIN said = LiveIds
    BY SettledSays DEF LiveIds
  <2>2. next_id \notin LiveIds /\ LiveIds \subseteq DOMAIN shown
    BY DEF LiveIds, Live, Stream, Ordered, IsLive
  <2>3. WellSaid /\ final' \subseteq final \cup DOMAIN said /\ DOMAIN shown' = DOMAIN shown
    <3> HIDE DEF said
    <3>1. {} \in {{}, {next_id}} /\ Says(said)
      BY <1>2 DEF said
    <3> QED BY <2>1, <3>1, Promises
  <2>4. Ordered(lines', next_id', final')
    BY <1>2, NoneLive DEF Stream, Ordered
  <2> QED BY <1>2, <2>1, <2>2, <2>3, <2>4 DEF Stream
<1>3. CASE settle_block /\ next_id' = next_id
  <2>1. DOMAIN lines' = DOMAIN lines /\ \A r : ~IsLive(lines', r)
    BY <1>3 DEF settle_block, Live, IsLive, Tracked
  <2> QED BY <1>2, <1>3, <2>1 DEF settle_block
<1>4. CASE settle_and_forget /\ next_id' = next_id
  <2>1. DOMAIN lines' = {}
    BY <1>4 DEF settle_and_forget
  <2> QED BY <1>2, <1>4, <2>1 DEF settle_and_forget, IsLive
<1> QED BY <1>1, <1>3, <1>4 DEF place

(***************************************************************************)
(* One line of the scan.                                                   *)
(***************************************************************************)
\* What is said of a line that has changed or has left the screen.
LEMMA SaidOfALine ==
  ASSUME NEW id, NEW was, NEW text, NEW settled \in BOOLEAN
  PROVE  /\ DOMAIN Told(id, was, text, settled) \subseteq {id}
         /\ \A x \in DOMAIN Told(id, was, text, settled) :
              Told(id, was, text, settled)[x].revision = "Settled" => settled
<1> DEFINE heard == Told(id, was, text, settled)
<1>1. CASE settled
  BY <1>1 DEF Told, One, Item
<1>2. CASE ~settled
  <2>1. CASE was = text
    BY <1>2, <2>1 DEF Told, revise, Silence
  <2>2. CASE was # text /\ IsPrefix(was, text)
    <3> DEFINE item == SubSeq(text, Len(was) + 1, Len(text))
    <3>1. heard = One(id, Item(item, "Appended"))
      BY <1>2, <2>2 DEF Told, revise
    <3>2. DOMAIN heard = {id} /\ heard[id].revision = "Appended"
      <4> HIDE DEF item
      <4> QED BY <3>1 DEF One, Item
    <3> QED BY <3>2
  <2>3. CASE was # text /\ ~IsPrefix(was, text)
    <3>1. heard = One(id, Item(text, "Rewritten"))
      BY <1>2, <2>3 DEF Told, revise
    <3>2. DOMAIN heard = {id} /\ heard[id].revision = "Rewritten"
      BY <3>1 DEF One, Item
    <3> QED BY <3>2
  <2> QED BY <2>1, <2>2, <2>3
<1> QED BY <1>1, <1>2

SettledIn(said) == {id \in DOMAIN said : said[id].revision = "Settled"}
SwallowedIds(r) == {lines[k].id : k \in Swallowed(r) \cap Live}
LEMMA SaidOfTheSwallowed ==
  ASSUME NEW r
  PROVE  DOMAIN Absorbed(r) = SwallowedIds(r)
BY SettledSays DEF Absorbed, SwallowedIds

LEMMA LinesApart ==
  ASSUME Stream, NEW r \in Live, NEW k \in Live
  PROVE  /\ r \in Nat /\ lines[r].id \in 0..(next_id - 1) /\ lines[r].id \notin final
         /\ lines[r].id = lines[k].id => r = k
         /\ r < k => lines[r].id < lines[k].id
<1>1. IsLive(lines, r) /\ IsLive(lines, k) /\ next_id \in Nat
  BY LiveIsLive DEF Stream
<1>2. PICK b \in Nat : DOMAIN lines \subseteq 0..b
  BY DEF Stream, Ordered
<1>3. r \in 0..b /\ k \in 0..b
  BY <1>2 DEF Live
<1>4. /\ lines[r].id \in 0..(next_id - 1) /\ lines[r].id \notin final
      /\ lines[k].id \in 0..(next_id - 1)
      /\ r < k => lines[r].id < lines[k].id
      /\ k < r => lines[k].id < lines[r].id
  BY <1>1 DEF Stream, Ordered
<1> QED BY <1>1, <1>3, <1>4

\* The lines that are left of those that were.
LEMMA RestOfLines ==
  ASSUME NEW r
  PROVE  /\ DOMAIN Rest(r) = Kept(r) /\ \A k \in Kept(r) : Rest(r)[k] = lines[k]
         /\ Kept(r) \subseteq DOMAIN lines /\ r \notin Kept(r)
         /\ \A k \in Kept(r) : k \notin Swallowed(r)
BY DEF Rest, Kept, Restrict

\* The lines are what they were but for the swallowed ones and, when it settles
\* or had settled, the one in hand.
LEMMA StreamByFewer ==
  ASSUME Stream, NEW r \in Nat, NEW said, Says(said), UNCHANGED next_id,
         DOMAIN said \subseteq LiveIds,
         NEW gone, gone \subseteq Live,
         SettledIn(said) \subseteq {lines[k].id : k \in gone},
         DOMAIN lines' \subseteq DOMAIN lines \cup {r},
         \A k : IsLive(lines', k) => k \in Live \ gone /\ lines'[k].id = lines[k].id
  PROVE  Stream' /\ WellSaid
<1>1. {} \in {{}, {next_id}} /\ next_id \in Nat
  BY DEF Stream
<1>2. /\ WellSaid /\ DOMAIN shown' = DOMAIN shown
      /\ final' = final \cup SettledIn(said)
  BY <1>1, Promises DEF SettledIn
<1>3. LiveIds \subseteq DOMAIN shown
  BY LinesApart DEF LiveIds, Stream
<1>4. PICK b \in Nat : DOMAIN lines \subseteq 0..b
  BY DEF Stream, Ordered
<1>5. DOMAIN lines' \subseteq 0..(b + r)
  BY <1>4
<1>6. \A k : IsLive(lines', k) => /\ IsLive(lines, k) /\ lines'[k].id = lines[k].id
                                 /\ lines'[k].id \notin final'
  <2> SUFFICES ASSUME NEW k, IsLive(lines', k)
               PROVE  /\ IsLive(lines, k) /\ lines'[k].id = lines[k].id
                      /\ lines'[k].id \notin final'
    OBVIOUS
  <2>1. k \in Live /\ k \notin gone /\ lines'[k].id = lines[k].id
    OBVIOUS
  <2>2. lines[k].id \notin final
    BY <2>1, LinesApart
  <2>3. \A j \in gone : lines[k].id # lines[j].id
    BY <2>1, LinesApart
  <2> QED BY <1>2, <2>1, <2>2, <2>3, LiveIsLive
<1>7. Ordered(lines', next_id', final')
  <2>1. Ordered(lines, next_id, final) /\ next_id <= next_id /\ b + r \in Nat
    BY <1>1 DEF Stream
  <2>2. Ordered(lines', next_id, final')
    BY <1>1, <1>5, <1>6, <2>1, Fewer
  <2> QED BY <2>2
<1> QED BY <1>2, <1>3, <1>7 DEF Stream, SettledIn

LEMMA StreamByRevising ==
  ASSUME Stream, NEW r \in Nat, r \in Live, NEW settled \in BOOLEAN, Revised(r, settled)
  PROVE  Stream' /\ WellSaid
<1> DEFINE id    == lines[r].id
           text  == read_line(r)
           heard == Told(id, lines[r].emitted, text, settled)
           said  == Over(heard, Absorbed(r))
           gone  == (Swallowed(r) \cap Live) \cup (IF settled THEN {r} ELSE {})
<1>1. /\ Says(said) /\ next_id' = next_id
      /\ lines' = IF settled THEN Rest(r) ELSE Over(One(r, Tracked(id, text)), Rest(r))
  BY DEF Revised
<1>2. /\ DOMAIN heard \subseteq {id}
      /\ \A x \in DOMAIN heard : heard[x].revision = "Settled" => settled
  <2> HIDE DEF id, text
  <2> QED BY SaidOfALine
<1>3. /\ DOMAIN said = DOMAIN heard \cup SwallowedIds(r)
      /\ \A x \in DOMAIN heard : said[x] = heard[x]
  <2> HIDE DEF heard
  <2> QED BY Joined, SaidOfTheSwallowed
<1>4. DOMAIN said \subseteq LiveIds
  BY <1>2, <1>3 DEF LiveIds, SwallowedIds
<1>5. gone \subseteq Live /\ SettledIn(said) \subseteq {lines[k].id : k \in gone}
  <2> SUFFICES ASSUME NEW x \in DOMAIN said, said[x].revision = "Settled"
               PROVE  \E k \in gone : x = lines[k].id
    BY DEF SettledIn
  <2>1. CASE x \in DOMAIN heard
    <3>1. settled /\ x = id
      BY <1>2, <1>3, <2>1
    <3> QED BY <3>1
  <2>2. CASE x \notin DOMAIN heard
    <3>1. PICK k \in Swallowed(r) \cap Live : x = lines[k].id
      BY <1>3, <2>2 DEF SwallowedIds
    <3> QED BY <3>1
  <2> QED BY <2>1, <2>2
<1>6. /\ DOMAIN lines' \subseteq DOMAIN lines \cup {r}
      /\ \A k : IsLive(lines', k) => k \in Live \ gone /\ lines'[k].id = lines[k].id
  <2>1. CASE settled
    <3>1. lines' = Rest(r)
      BY <1>1, <2>1
    <3>2. DOMAIN lines' = Kept(r) /\ \A k \in Kept(r) : lines'[k] = lines[k]
      BY <3>1, RestOfLines
    <3> QED BY <2>1, <3>2, RestOfLines DEF IsLive, Live
  <2>2. CASE ~settled
    <3> DEFINE mine == One(r, Tracked(id, text))
    <3>1. lines' = Over(mine, Rest(r))
      BY <1>1, <2>2
    <3>2. DOMAIN mine = {r} /\ mine[r].id = id
      <4> HIDE DEF id, text
      <4> QED BY DEF One, Tracked
    <3>3. /\ DOMAIN lines' = {r} \cup Kept(r) /\ lines'[r].id = id
          /\ \A k \in Kept(r) : lines'[k] = lines[k]
      <4> HIDE DEF mine
      <4>1. /\ DOMAIN lines' = DOMAIN mine \cup DOMAIN Rest(r)
            /\ \A k \in DOMAIN mine : lines'[k] = mine[k]
            /\ \A k \in DOMAIN Rest(r) \ DOMAIN mine : lines'[k] = Rest(r)[k]
        BY <3>1 DEF Over
      <4> QED BY <3>2, <4>1, RestOfLines
    <3>4. r \notin Swallowed(r)
      BY DEF Swallowed
    <3> QED BY <2>2, <3>3, <3>4, RestOfLines DEF IsLive, Live
  <2> QED BY <2>1, <2>2
<1>7. Says(said) /\ next_id' = next_id
  BY <1>1
<1> HIDE DEF said, gone, id, heard, text
<1> QED BY <1>4, <1>5, <1>6, <1>7, StreamByFewer

LEMMA StreamByNothingNew ==
  ASSUME Stream, NEW r \in Nat, r \in DOMAIN lines \ Live, NEW settled \in BOOLEAN,
         Unchanged(r, settled)
  PROVE  Stream' /\ WellSaid
<1> DEFINE said == Absorbed(r)
           gone == Swallowed(r) \cap Live
<1>1. /\ Says(said) /\ next_id' = next_id
      /\ lines' = IF settled THEN Rest(r) ELSE Over(One(r, lines[r]), Rest(r))
  BY DEF Unchanged
<1>2. DOMAIN said \subseteq LiveIds /\ gone \subseteq Live
      /\ SettledIn(said) \subseteq {lines[k].id : k \in gone}
  <2>1. DOMAIN said = SwallowedIds(r)
    BY SaidOfTheSwallowed
  <2> HIDE DEF said
  <2> QED BY <2>1 DEF SettledIn, SwallowedIds, LiveIds
<1>3. /\ DOMAIN lines' \subseteq DOMAIN lines
      /\ \A k \in DOMAIN lines' : lines'[k] = lines[k] /\ k \notin gone
  <2>1. CASE settled
    BY <1>1, <2>1, RestOfLines
  <2>2. CASE ~settled
    <3> DEFINE mine == One(r, lines[r])
    <3>1. lines' = Over(mine, Rest(r)) /\ DOMAIN mine = {r} /\ mine[r] = lines[r]
      BY <1>1, <2>2 DEF One
    <3>2. /\ DOMAIN lines' = DOMAIN mine \cup DOMAIN Rest(r)
          /\ \A k \in DOMAIN mine : lines'[k] = mine[k]
          /\ \A k \in DOMAIN Rest(r) \ DOMAIN mine : lines'[k] = Rest(r)[k]
      <4> HIDE DEF mine
      <4> QED BY <3>1 DEF Over
    <3>3. r \notin Swallowed(r)
      BY DEF Swallowed
    <3> QED BY <3>1, <3>2, <3>3, RestOfLines
  <2> QED BY <2>1, <2>2
<1>4. \A k : IsLive(lines', k) => k \in Live \ gone /\ lines'[k].id = lines[k].id
  BY <1>3 DEF IsLive, Live
<1> HIDE DEF said, gone
<1> QED BY <1>1, <1>2, <1>3, <1>4, StreamByFewer

\* A new line with none below: its identity comes after all others.
LEMMA StreamByMinting ==
  ASSUME Stream, NEW r \in Nat, r <= last_of(r), last_of(r) \in Nat, r \notin Live,
         Below(r) = {}, NEW settled \in BOOLEAN, Minted(r, settled)
  PROVE  Stream' /\ WellSaid
<1> DEFINE text  == read_line(r)
           heard == One(next_id, Item(text, IF settled THEN "Settled" ELSE "Appended"))
           said  == Over(heard, Absorbed(r))
           mine  == One(r, Tracked(next_id, text))
<1>1. /\ Says(said) /\ next_id' = next_id + 1
      /\ lines' = IF settled THEN Rest(r) ELSE Over(mine, Rest(r))
  BY DEF Minted
<1>2. DOMAIN heard = {next_id} /\ heard[next_id].revision = IF settled THEN "Settled" ELSE "Appended"
  <2> HIDE DEF text
  <2> QED BY DEF One, Item
<1>3. DOMAIN said = {next_id} \cup SwallowedIds(r) /\ said[next_id] = heard[next_id]
  <2> HIDE DEF heard
  <2> QED BY <1>2, SaidOfTheSwallowed DEF Over
<1>4. {next_id} \in {{}, {next_id}} /\ SwallowedIds(r) \subseteq LiveIds
  BY DEF SwallowedIds, LiveIds
<1>5. WellSaid /\ DOMAIN shown' = DOMAIN shown \cup {next_id} /\ final' = final \cup SettledIn(said)
  <2>1. Says(said)
    BY <1>1
  <2>2. said[next_id].revision # "Rewritten"
    BY <1>2, <1>3
  <2> HIDE DEF said
  <2> QED BY <1>3, <1>4, <2>1, <2>2, Promises DEF SettledIn
<1>6. next_id \in Nat /\ DOMAIN shown = 0..(next_id - 1) /\ final \subseteq DOMAIN shown
      /\ next_id \notin SwallowedIds(r)
  BY LinesApart DEF Stream, SwallowedIds
<1>7. final' \subseteq DOMAIN shown' /\ DOMAIN shown' = 0..(next_id' - 1) /\ next_id' \in Nat
  <2>1. LiveIds \subseteq DOMAIN shown
    BY LinesApart DEF LiveIds, Stream
  <2>2. SettledIn(said) \subseteq DOMAIN said
    BY DEF SettledIn
  <2> QED BY <1>1, <1>3, <1>4, <1>5, <1>6, <2>1, <2>2
<1>8. PICK b \in Nat : DOMAIN lines \subseteq 0..b
  BY DEF Stream, Ordered
<1>9. \A k \in Kept(r) \cap Live : k \in Nat /\ k < r /\ lines[k].id \notin SwallowedIds(r)
  <2> SUFFICES ASSUME NEW k \in Kept(r), k \in Live
               PROVE  k < r /\ lines[k].id \notin SwallowedIds(r)
    BY LinesApart
  <2>1. k \notin Swallowed(r) /\ k # r /\ k \notin Below(r) /\ k \in Nat /\ k \in DOMAIN lines
    BY RestOfLines, LinesApart DEF Live
  <2>2. k < r
    BY <2>1 DEF Swallowed, Below
  <2> QED BY <2>1, <2>2, LinesApart DEF SwallowedIds
<1>10. CASE settled
  <2>1. DOMAIN lines' = Kept(r) /\ \A k \in Kept(r) : lines'[k] = lines[k]
    BY <1>1, <1>10, RestOfLines
  <2>2. DOMAIN lines' \subseteq 0..b
    BY <1>8, <2>1, RestOfLines
  <2>3. \A k : IsLive(lines', k) => k \in Kept(r) \cap Live /\ lines'[k].id = lines[k].id
    BY <2>1, RestOfLines DEF IsLive, Live
  <2>4. \A k \in Kept(r) \cap Live : lines[k].id \notin final'
    <3> SUFFICES ASSUME NEW k \in Kept(r) \cap Live PROVE lines[k].id \notin final'
      OBVIOUS
    <3>1. lines[k].id \notin final /\ lines[k].id # next_id /\ lines[k].id \notin SwallowedIds(r)
      BY <1>6, <1>9, LinesApart
    <3> QED BY <1>3, <1>5, <3>1 DEF SettledIn
  <2>5. Ordered(lines, next_id, final) /\ next_id <= next_id'
    BY <1>1, <1>6 DEF Stream
  <2>6. \A k : IsLive(lines', k) => /\ IsLive(lines, k) /\ lines'[k].id = lines[k].id
                                   /\ lines'[k].id \notin final'
    BY <2>3, <2>4, LiveIsLive
  <2>7. Ordered(lines', next_id', final')
    BY <1>6, <1>7, <1>8, <2>2, <2>5, <2>6, Fewer
  <2> QED BY <1>5, <1>7, <2>7 DEF Stream
<1>11. CASE ~settled
  <2>1. DOMAIN mine = {r} /\ mine[r].id = next_id /\ lines' = Over(mine, Rest(r))
    <3> HIDE DEF text
    <3> QED BY <1>1, <1>11 DEF One, Tracked
  <2>2. DOMAIN lines' = {r} \cup Kept(r) /\ lines'[r].id = next_id
        /\ \A k \in Kept(r) : lines'[k] = lines[k]
    <3> HIDE DEF mine
    <3> QED BY <2>1, RestOfLines DEF Over
  <2>3. DOMAIN lines' \subseteq 0..(b + r)
    BY <1>8, <2>2, RestOfLines
  <2>4. next_id \notin final'
    <3>1. said[next_id].revision # "Settled"
      BY <1>2, <1>3, <1>11
    <3> QED BY <1>5, <1>6, <3>1 DEF SettledIn
  <2>5. \A k : IsLive(lines', k) =>
           k = r \/ (k \in Kept(r) \cap Live /\ lines'[k].id = lines[k].id)
    BY <2>2, RestOfLines DEF IsLive, Live
  <2>6. \A k \in Kept(r) \cap Live : /\ lines[k].id \notin final' /\ k \in Nat /\ k < r
                                    /\ lines[k].id \in 0..(next_id - 1)
    <3> SUFFICES ASSUME NEW k \in Kept(r) \cap Live
                 PROVE  /\ lines[k].id \notin final' /\ k \in Nat /\ k < r
                        /\ lines[k].id \in 0..(next_id - 1)
      OBVIOUS
    <3>1. /\ lines[k].id \notin final /\ lines[k].id \in 0..(next_id - 1)
          /\ lines[k].id \notin SwallowedIds(r) /\ k \in Nat /\ k < r
      BY <1>9, LinesApart
    <3>2. lines[k].id # next_id
      BY <1>6, <3>1
    <3> QED BY <1>3, <1>5, <3>1, <3>2 DEF SettledIn
  <2>7. \A k : IsLive(lines', k) => lines'[k].id \in 0..(next_id' - 1) /\ lines'[k].id \notin final'
    BY <1>1, <1>6, <2>2, <2>4, <2>5, <2>6
  <2>8. \A k, j : IsLive(lines', k) /\ IsLive(lines', j) /\ k < j => lines'[k].id < lines'[j].id
    <3> SUFFICES ASSUME NEW k, NEW j, IsLive(lines', k), IsLive(lines', j), k < j
                 PROVE  lines'[k].id < lines'[j].id
      OBVIOUS
    <3>1. CASE k = r
      BY <2>5, <2>6, <3>1
    <3>2. CASE k # r /\ j = r
      BY <1>6, <2>2, <2>5, <2>6, <3>2
    <3>3. CASE k # r /\ j # r
      BY <2>5, <3>3, LinesApart
    <3> QED BY <3>1, <3>2, <3>3
  <2>9. Ordered(lines', next_id', final')
    <3>1. b + r \in Nat
      BY <1>8
    <3> QED BY <2>3, <2>7, <2>8, <3>1 DEF Ordered
  <2> QED BY <1>5, <1>7, <2>9 DEF Stream
<1> QED BY <1>10, <1>11

\* A new line above live ones: what becomes of the lines that are pushed down.
Pushes(r, settled) ==
  LET B     == Below(r)
      first == Min(B)
  IN  /\ first \in B /\ Max(B) \in B /\ B \subseteq Kept(r) \cap Live
      /\ \A k \in B : k \in Nat /\ r < k /\ first <= k /\ k <= Max(B)
      /\ \A k \in B : k # Max(B) => /\ Following(B, k) \in B /\ k < Following(B, k)
                                    /\ \A j \in B : k < j => Following(B, k) <= j
      /\ DOMAIN lines' = Kept(r) \cup (IF settled THEN {} ELSE {r})
      /\ ~settled => lines'[r] = Tracked(lines[first].id, read_line(r))
      /\ \A k \in B : lines'[k] = IF k = Max(B) THEN Tracked(next_id, <<>>)
                                  ELSE lines[Following(B, k)]
      /\ \A k \in Kept(r) \ B : lines'[k] = lines[k]

LEMMA PushedDown ==
  ASSUME Stream, NEW r \in Nat, r <= last_of(r), last_of(r) \in Nat, r \notin Live,
         Below(r) # {}, NEW settled \in BOOLEAN, take_place_below(r, settled)
  PROVE  Pushes(r, settled)
<1> DEFINE text  == read_line(r)
           B     == Below(r)
           first == Min(B)
           final_row == Max(B)
           taken == lines[first]
           line  == Tracked(taken.id, text)
           mine  == IF settled THEN <<>> ELSE One(r, line)
           moved == Shifted(B)
           low   == Over(moved, Rest(r))
<1>1. lines' = Over(mine, low)
  BY DEF take_place_below
<1>2. PICK b \in Nat : DOMAIN lines \subseteq 0..b
  BY DEF Stream, Ordered
<1>3. B # {} /\ B \subseteq 0..b /\ B \subseteq Live /\ 0 \in Int /\ b \in Int
      /\ \A k \in B : k \in Nat /\ r < k /\ last_of(r) < k /\ k \notin Swallowed(r)
  BY <1>2, LinesApart DEF Below, Live, Swallowed
<1>4. B \subseteq Kept(r)
  BY <1>3 DEF Kept, Live
<1>5. /\ first \in B /\ \A k \in B : first <= k
      /\ final_row \in B /\ \A k \in B : k <= final_row
  <2> HIDE DEF B
  <2> QED BY <1>3, LeastAndGreatest
<1>6. \A k \in B : k # final_row => /\ Following(B, k) \in B /\ k < Following(B, k)
                                    /\ \A j \in B : k < j => Following(B, k) <= j
  <2> SUFFICES ASSUME NEW k \in B, k # final_row
               PROVE  /\ Following(B, k) \in B /\ k < Following(B, k)
                      /\ \A j \in B : k < j => Following(B, k) <= j
    OBVIOUS
  <2> DEFINE T == {j \in B : k < j}
  <2>1. final_row \in T /\ T \subseteq 0..b
    BY <1>3, <1>5
  <2>2. Min(T) \in T /\ \A j \in T : Min(T) <= j
    <3> HIDE DEF T, B
    <3> QED BY <1>3, <2>1, LeastAndGreatest
  <2>3. Following(B, k) = Min(T)
    BY DEF Following
  <2> HIDE DEF B
  <2> QED BY <2>2, <2>3
<1> HIDE DEF B, first, final_row
<1>7. DOMAIN moved = B /\ \A k \in B :
        moved[k] = IF k = final_row THEN Tracked(next_id, <<>>) ELSE lines[Following(B, k)]
  BY DEF Shifted, final_row
<1> HIDE DEF moved
<1>8. DOMAIN mine = (IF settled THEN {} ELSE {r}) /\ (~settled => mine[r] = line)
  <2>1. CASE settled
    BY <2>1
  <2>2. CASE ~settled
    <3> HIDE DEF line
    <3>1. DOMAIN One(r, line) = {r} /\ One(r, line)[r] = line
      BY Single
    <3> QED BY <2>2, <3>1
  <2> QED BY <2>1, <2>2
<1> HIDE DEF mine
<1>9. /\ DOMAIN low = Kept(r)
      /\ \A k \in B : low[k] = moved[k]
      /\ \A k \in Kept(r) \ B : low[k] = lines[k]
  BY <1>4, <1>7, RestOfLines DEF Over
<1> HIDE DEF low
<1>10. /\ DOMAIN lines' = DOMAIN mine \cup DOMAIN low
       /\ \A k \in DOMAIN mine : lines'[k] = mine[k]
       /\ \A k \in DOMAIN low \ DOMAIN mine : lines'[k] = low[k]
  BY <1>1 DEF Over
<1>11. r \notin B /\ r \notin Kept(r)
  BY <1>3, RestOfLines
<1>12. /\ DOMAIN lines' = Kept(r) \cup (IF settled THEN {} ELSE {r})
       /\ ~settled => lines'[r] = line
       /\ \A k \in B : lines'[k] = moved[k]
       /\ \A k \in Kept(r) \ B : lines'[k] = lines[k]
  <2> HIDE DEF line
  <2> QED BY <1>4, <1>8, <1>9, <1>10, <1>11
<1>13. \A k \in B : lines'[k] = IF k = final_row THEN Tracked(next_id, <<>>)
                                ELSE lines[Following(B, k)]
  BY <1>7, <1>12
<1>14. \A k \in B : k \in Nat /\ r < k /\ first <= k /\ k <= final_row
  BY <1>3, <1>5
<1>15. B \subseteq Kept(r) \cap Live
  BY <1>3, <1>4
<1> HIDE DEF line
<1> QED BY <1>5, <1>6, <1>12, <1>13, <1>14, <1>15 DEF B, first, final_row, line, Pushes

\* A new line above live ones takes the first one's identity, and every
\* identity moves one line down.
LEMMA StreamByTakingAPlace ==
  ASSUME Stream, NEW r \in Nat, r <= last_of(r), last_of(r) \in Nat, r \notin Live,
         Below(r) # {}, NEW settled \in BOOLEAN, take_place_below(r, settled)
  PROVE  Stream' /\ WellSaid
<1> DEFINE text  == read_line(r)
           B     == Below(r)
           first == Min(B)
           final_row == Max(B)
           taken == lines[first]
           heard == Told(taken.id, taken.emitted, text, settled)
           new   == One(next_id, Item(<<>>, "Appended"))
           rest  == Over(new, Absorbed(r))
           said  == Over(heard, rest)
<1>1. Says(said) /\ next_id' = next_id + 1
  BY DEF take_place_below
<1>2. next_id \in Nat /\ DOMAIN shown = 0..(next_id - 1) /\ final \subseteq DOMAIN shown
  BY DEF Stream
<1>3. PICK b \in Nat : DOMAIN lines \subseteq 0..b
  BY DEF Stream, Ordered
<1>4. /\ first \in B /\ final_row \in B /\ B \subseteq Kept(r) \cap Live
      /\ \A k \in B : k \in Nat /\ r < k /\ first <= k /\ k <= final_row
      /\ \A k \in B : k # final_row => /\ Following(B, k) \in B /\ k < Following(B, k)
                                       /\ \A j \in B : k < j => Following(B, k) <= j
      /\ DOMAIN lines' = Kept(r) \cup (IF settled THEN {} ELSE {r})
      /\ ~settled => lines'[r] = Tracked(taken.id, text)
      /\ \A k \in B : lines'[k] = IF k = final_row THEN Tracked(next_id, <<>>)
                                  ELSE lines[Following(B, k)]
      /\ \A k \in Kept(r) \ B : lines'[k] = lines[k]
  <2>1. Pushes(r, settled)
    BY PushedDown
  <2> HIDE DEF text
  <2> QED BY <2>1 DEF Pushes, text
<1> HIDE DEF B, first, final_row
<1>5. \A k \in B : k \in Live /\ k \notin Swallowed(r) /\ first <= k
  BY <1>4, RestOfLines
<1>6. \A k \in B : k # final_row => /\ Following(B, k) \in B /\ k < Following(B, k)
                                    /\ \A j \in B : k < j => Following(B, k) <= j
  BY <1>4
<1>7. /\ taken.id \in 0..(next_id - 1) /\ first \in Live
      /\ taken.id \notin SwallowedIds(r) /\ taken.id \notin final
  BY <1>4, <1>5, LinesApart DEF SwallowedIds
<1>8. /\ DOMAIN heard \subseteq {taken.id}
      /\ \A x \in DOMAIN heard : heard[x].revision = "Settled" => settled
  <2> HIDE DEF taken, text
  <2> QED BY SaidOfALine
<1>9. DOMAIN new = {next_id} /\ new[next_id].revision = "Appended"
  BY DEF One, Item
<1>10. /\ DOMAIN said = DOMAIN heard \cup {next_id} \cup SwallowedIds(r)
       /\ said[next_id] = new[next_id]
       /\ \A x \in DOMAIN heard : said[x] = heard[x]
  <2>1. next_id \notin DOMAIN heard
    BY <1>2, <1>7, <1>8
  <2> HIDE DEF heard, new
  <2>2. DOMAIN rest = {next_id} \cup SwallowedIds(r) /\ rest[next_id] = new[next_id]
    BY <1>9, SaidOfTheSwallowed DEF Over
  <2> HIDE DEF rest
  <2> QED BY <2>1, <2>2 DEF Over
<1>11. /\ SwallowedIds(r) \subseteq LiveIds /\ LiveIds \subseteq DOMAIN shown
       /\ taken.id \in LiveIds
  BY <1>7, LinesApart DEF SwallowedIds, LiveIds, Stream
<1>12. SettledIn(said) \subseteq SwallowedIds(r) \cup (IF settled THEN {taken.id} ELSE {})
  <2> SUFFICES ASSUME NEW x \in DOMAIN said, said[x].revision = "Settled", x \notin SwallowedIds(r)
               PROVE  settled /\ x = taken.id
    BY DEF SettledIn
  <2>1. x # next_id
    <3>1. said[next_id].revision = "Appended"
      BY <1>9, <1>10
    <3> QED BY <3>1
  <2>2. x \in DOMAIN heard /\ said[x] = heard[x]
    BY <1>10, <2>1
  <2> HIDE DEF said, heard
  <2> QED BY <1>8, <2>2
<1>13. /\ WellSaid /\ DOMAIN shown' = DOMAIN shown \cup {next_id}
       /\ final' = final \cup SettledIn(said)
  <2>1. said[next_id].revision # "Rewritten" /\ {next_id} \in {{}, {next_id}}
    BY <1>9, <1>10
  <2>2. Says(said) /\ DOMAIN said \subseteq LiveIds \cup {next_id} /\ {next_id} \subseteq DOMAIN said
    BY <1>1, <1>8, <1>10, <1>11
  <2> HIDE DEF said
  <2> QED BY <2>1, <2>2, Promises DEF SettledIn
<1> HIDE DEF said, rest, new, heard
<1>14. ~settled => lines'[r].id = taken.id
  <2> HIDE DEF taken, text
  <2> QED BY <1>4 DEF Tracked
<1>15. /\ lines'[final_row].id = next_id
       /\ \A k \in B : k # final_row => lines'[k].id = lines[Following(B, k)].id
  <2>1. lines'[final_row] = Tracked(next_id, <<>>)
    BY <1>4
  <2>2. lines'[final_row].id = next_id
    BY <2>1 DEF Tracked
  <2> QED BY <1>4, <2>2

\* Every line of the new ones is the one in hand, one of those pushed down, or
\* one above.
<1> DEFINE above == (Kept(r) \ B) \cap Live
<1>16. \A k : IsLive(lines', k) => \/ k = r /\ ~settled
                                   \/ k \in B
                                   \/ k \in above /\ lines'[k].id = lines[k].id
  BY <1>4, RestOfLines DEF IsLive, Live
<1>17. \A k \in above : k \in Nat /\ k < r /\ lines[k].id < taken.id
                        /\ lines[k].id \notin SwallowedIds(r)
  <2> SUFFICES ASSUME NEW k \in above
               PROVE  k \in Nat /\ k < r /\ lines[k].id < taken.id
                      /\ lines[k].id \notin SwallowedIds(r)
    OBVIOUS
  <2>1. k \in Live /\ k \notin Swallowed(r) /\ k # r /\ k \notin B /\ k \in Nat /\ k \in DOMAIN lines
    BY RestOfLines, LinesApart DEF Live
  <2>2. k < r
    BY <2>1 DEF Swallowed, Below, B
  <2>3. k < first /\ first \in Nat
    BY <1>4, <1>5, <2>1, <2>2
  <2>4. lines[k].id < taken.id
    BY <1>7, <2>1, <2>3, LinesApart
  <2>5. lines[k].id \notin SwallowedIds(r)
    BY <2>1, LinesApart DEF SwallowedIds
  <2> QED BY <2>1, <2>2, <2>4, <2>5
<1>18. \A k \in B : k # final_row =>
         /\ lines'[k].id \in 0..(next_id - 1) /\ taken.id < lines'[k].id
         /\ lines'[k].id \notin final /\ lines'[k].id \notin SwallowedIds(r)
  <2> SUFFICES ASSUME NEW k \in B, k # final_row
               PROVE  LET id == lines[Following(B, k)].id
                      IN  /\ id \in 0..(next_id - 1) /\ taken.id < id
                          /\ id \notin final /\ id \notin SwallowedIds(r)
    BY <1>15
  <2> DEFINE j == Following(B, k)
  <2>1. j \in B /\ k < j /\ first <= k /\ k \in Nat /\ first \in Nat
    BY <1>4, <1>5, <1>6
  <2> HIDE DEF j
  <2>2. j \in Live /\ j \in Nat /\ first < j /\ j \notin Swallowed(r)
    BY <1>4, <1>5, <2>1
  <2>3. lines[j].id \in 0..(next_id - 1) /\ taken.id < lines[j].id /\ lines[j].id \notin final
    BY <1>7, <2>2, LinesApart
  <2>4. lines[j].id \notin SwallowedIds(r)
    BY <2>2, LinesApart DEF SwallowedIds
  <2> QED BY <2>3, <2>4 DEF j
<1> HIDE DEF taken, above
<1>19. \A k : IsLive(lines', k) =>
         lines'[k].id \in 0..(next_id' - 1) /\ lines'[k].id \notin final'
  <2> SUFFICES ASSUME NEW k, IsLive(lines', k)
               PROVE  lines'[k].id \in 0..(next_id' - 1) /\ lines'[k].id \notin final'
    OBVIOUS
  <2>1. CASE k = r /\ ~settled
    <3>1. lines'[k].id = taken.id
      BY <1>14, <2>1
    <3> QED BY <1>1, <1>2, <1>7, <1>12, <1>13, <2>1, <3>1
  <2>2. CASE k \in B /\ k = final_row
    <3>1. lines'[k].id = next_id /\ next_id \notin final /\ next_id \notin SwallowedIds(r)
          /\ next_id # taken.id
      BY <1>2, <1>7, <1>11, <1>15, <2>2
    <3> QED BY <1>1, <1>2, <1>12, <1>13, <3>1
  <2>3. CASE k \in B /\ k # final_row
    <3>1. /\ lines'[k].id \in 0..(next_id - 1) /\ lines'[k].id # taken.id
          /\ lines'[k].id \notin final /\ lines'[k].id \notin SwallowedIds(r)
      BY <1>7, <1>18, <2>3
    <3> QED BY <1>1, <1>2, <1>12, <1>13, <3>1
  <2>4. CASE k \in above /\ lines'[k].id = lines[k].id
    <3>1. k \in Live
      BY <2>4 DEF above
    <3>2. /\ lines[k].id \in 0..(next_id - 1) /\ lines[k].id # taken.id
          /\ lines[k].id \notin final /\ lines[k].id \notin SwallowedIds(r)
      BY <1>7, <1>17, <2>4, <3>1, LinesApart
    <3> QED BY <1>1, <1>2, <1>12, <1>13, <2>4, <3>2
  <2> QED BY <1>16, <2>1, <2>2, <2>3, <2>4
<1>20. \A k, j : IsLive(lines', k) /\ IsLive(lines', j) /\ k < j => lines'[k].id < lines'[j].id
  <2> SUFFICES ASSUME NEW k, NEW j, IsLive(lines', k), IsLive(lines', j), k < j
               PROVE  lines'[k].id < lines'[j].id
    OBVIOUS
  <2>1. CASE j \in B
    <3>1. CASE k = r /\ ~settled
      <4>1. lines'[k].id = taken.id
        BY <1>14, <3>1
      <4> QED BY <1>2, <1>7, <1>15, <1>18, <2>1, <4>1
    <3>2. CASE k \in B
      <4>1. k # final_row /\ k \in Nat /\ j \in Nat
        BY <1>4, <1>5, <2>1, <3>2
      <4>2. CASE j = final_row
        BY <1>2, <1>15, <1>18, <3>2, <4>1, <4>2
      <4>3. CASE j # final_row
        <5> DEFINE m == Following(B, k)
                   n == Following(B, j)
        <5>1. m \in B /\ n \in B /\ m <= j /\ j < n /\ m \in Nat /\ n \in Nat
          BY <1>4, <1>6, <2>1, <3>2, <4>1, <4>3
        <5>2. lines'[k].id = lines[m].id /\ lines'[j].id = lines[n].id
          BY <1>15, <2>1, <3>2, <4>1, <4>3
        <5> HIDE DEF m, n
        <5>3. m < n /\ m \in Live /\ n \in Live
          BY <1>4, <1>5, <4>1, <5>1
        <5> QED BY <5>2, <5>3, LinesApart
      <4> QED BY <4>2, <4>3
    <3>3. CASE k \in above /\ lines'[k].id = lines[k].id
      <4>1. k \in Live
        BY <3>3 DEF above
      <4>2. lines[k].id < taken.id /\ lines[k].id \in 0..(next_id - 1)
        BY <1>17, <3>3, <4>1, LinesApart
      <4> QED BY <1>2, <1>7, <1>15, <1>18, <2>1, <3>3, <4>2
    <3> QED BY <1>16, <3>1, <3>2, <3>3
  <2>2. CASE j = r /\ ~settled
    <3>1. lines'[j].id = taken.id
      BY <1>14, <2>2
    <3>2. k \notin B /\ k # r
      <4>1. \A i \in B : i \in Nat /\ r < i
        BY <1>4
      <4>2. \A i \in Nat : r <= i => ~(i < j)
        BY <2>2
      <4> QED BY <4>1, <4>2
    <3> QED BY <1>16, <1>17, <3>1, <3>2
  <2>3. CASE j \in above /\ lines'[j].id = lines[j].id
    <3>1. j < r /\ j \in Nat
      BY <1>17, <2>3
    <3>2. k \notin B /\ k # r
      <4>1. \A i \in B : i \in Nat /\ r < i
        BY <1>4
      <4>2. \A i \in Nat : r <= i => ~(i < j)
        BY <3>1
      <4> QED BY <4>1, <4>2
    <3>3. k \in above /\ lines'[k].id = lines[k].id
      BY <1>16, <3>2
    <3>4. k \in Live /\ j \in Live
      BY <2>3, <3>3 DEF above
    <3> QED BY <2>3, <3>3, <3>4, LinesApart
  <2> QED BY <1>16, <2>1, <2>2, <2>3
<1>21. Ordered(lines', next_id', final')
  <2>1. DOMAIN lines' \subseteq 0..(b + r) /\ b + r \in Nat
    <3>1. DOMAIN lines' \subseteq {r} \cup (0..b)
      BY <1>3, <1>4, LinesApart, RestOfLines
    <3>2. b + r \in Nat /\ {r} \cup (0..b) \subseteq 0..(b + r)
      OBVIOUS
    <3> QED BY <3>1, <3>2
  <2> QED BY <1>19, <1>20, <2>1 DEF Ordered
<1>22. final' \subseteq DOMAIN shown' /\ DOMAIN shown' = 0..(next_id' - 1) /\ next_id' \in Nat
  BY <1>1, <1>2, <1>7, <1>11, <1>12, <1>13
<1> QED BY <1>13, <1>21, <1>22 DEF Stream

LEMMA StreamByNext ==
  ASSUME Inv, [Next]_vars
  PROVE  Stream' /\ [L!Next]_<<Turn, shown, final>>
<1> USE DEF Inv, Turn
<1>0. ASSUME WellSaid, Turn' # Turn PROVE L!Next
  BY <1>0 DEF WellSaid, L!Next
<1>1. CASE \E r \in 1..Height, text \in Texts : Write(r, text) \/ WriteLong(r, text)
  BY <1>1 DEF Write, WriteLong, Writing, extractor, reader, Stream
<1>2. CASE LineFeed \/ EraseHistory
  BY <1>2 DEF LineFeed, EraseHistory, Writing, extractor, reader, Stream
<1>3. CASE \E why \in Signals : extract(why)
  <2>1. phase' # phase
    BY <1>3 DEF extract
  <2> QED BY <1>0, <1>3, <2>1, StreamByExtracting
<1>4. CASE emit_line
  <2> DEFINE settled == has_left(at)
  <2>1. at \in Nat /\ last_of(at) \in Nat /\ at <= last_of(at)
    <3>1. at \in Nat /\ at <= bottom /\ bottom \in Nat
      BY <1>4, Rows DEF emit_line, ScanTyped
    <3>2. last_of(at) \in at..bottom
      BY <3>1, LastRow
    <3> QED BY <3>1, <3>2
  <2>2. settled \in BOOLEAN
    BY DEF has_left
  <2>3. \/ at \in Live /\ Revised(at, settled)
        \/ at \in DOMAIN lines \ Live /\ Unchanged(at, settled)
        \/ at \notin Live /\ Below(at) = {} /\ Minted(at, settled)
        \/ at \notin Live /\ Below(at) # {} /\ take_place_below(at, settled)
    BY <1>4 DEF emit_line
  <2> HIDE DEF settled
  <2>4. Stream' /\ WellSaid
    BY <2>1, <2>2, <2>3, StreamByRevising, StreamByNothingNew, StreamByMinting,
       StreamByTakingAPlace
  <2>5. at' # at
    BY <1>4, <2>1 DEF emit_line
  <2> QED BY <1>0, <2>4, <2>5
<1>5. CASE reclaim
  <2>1. phase' # phase
    BY <1>5 DEF reclaim
  <2> QED BY <1>0, <1>5, <2>1, StreamAsItWas DEF reclaim, extractor
<1>6. CASE place
  <2>1. phase' # phase
    BY <1>6 DEF place
  <2> QED BY <1>0, <1>6, <2>1, StreamByPlacing
<1>7. CASE UNCHANGED vars
  BY <1>7 DEF vars, extractor, reader, Stream
<1> QED BY <1>1, <1>2, <1>3, <1>4, <1>5, <1>6, <1>7 DEF Next

LEMMA InvByNext == ASSUME Inv, [Next]_vars PROVE Inv'
<1>1. CASE \E r \in 1..Height, text \in Texts : Write(r, text) \/ WriteLong(r, text)
  BY <1>1, GridByWriting, StreamByNext DEF Inv
<1>2. CASE LineFeed \/ EraseHistory
  BY <1>2, GridByScrolling, StreamByNext DEF Inv
<1>3. CASE (\E why \in Signals : extract(why)) \/ emit_line \/ reclaim \/ place
  BY <1>3, GridByExtracting, StreamByNext DEF Inv
<1>4. CASE UNCHANGED vars
  <2>1. GridTyped' /\ ScanTyped'
    BY <1>4 DEF vars, grid, extractor, Inv, GridTyped, ScanTyped, bottom, top
  <2> QED BY <1>4, <2>1, StreamByNext DEF Inv
<1> QED BY <1>1, <1>2, <1>3, <1>4 DEF Next

\* The inductive invariant holds of every run of the engine.
THEOREM StreamHolds == Spec => []Inv
<1>1. Init => Inv
  BY GridAtFirst, StreamAtFirst DEF Inv
<1>2. Inv /\ [Next]_vars => Inv'
  BY InvByNext
<1> QED BY <1>1, <1>2, PTL DEF Spec

\* On a screen of any height, over any history, lines that can still change are
\* in the order of their identities, whatever a program writes or erases
\* (Extractor::emit_line and take_place_below).
THEOREM LinesStayInOrder == Spec => []LinesAreInScreenOrder
<1>1. Inv => LinesAreInScreenOrder
  BY LinesApart DEF Inv, LinesAreInScreenOrder
<1> QED BY <1>1, StreamHolds, PTL

\* Whatever a program writes or erases, what the extractor says of its lines is
\* a stream that LineStream allows: identities are minted one by one, and
\* nothing is said of a line that has settled, not even its text once more.
THEOREM PromisesAreKept == Spec => PromisedLines
<1>1. Init => L!Init
  BY DEF Init, L!Init
<1>2. Inv /\ [Next]_vars => [L!Next]_<<Turn, shown, final>>
  BY StreamByNext
<1> QED BY <1>1, <1>2, StreamHolds, PTL DEF Spec, PromisedLines, L!Spec

(***************************************************************************)
(* The texts of lines are sequences.  The joining of the rows of a line is *)
(* a recursive function; that there is one is shown from its least row.    *)
(***************************************************************************)
Characters == UNION {Range(text) : text \in Texts \cup {Full}}

\* f holds the joins of the first parts, up to the n-th.
Joins(f, parts, n) ==
  f = [i \in 1..n |-> IF i = 1 THEN parts[i] ELSE f[i - 1] \o parts[i]]

LEMMA JoinsExist ==
  ASSUME NEW parts, NEW n \in Nat, n >= 1
  PROVE  \E f : Joins(f, parts, n)
<1> DEFINE Without == {m \in Nat : m >= 1 /\ ~ \E f : Joins(f, parts, m)}
<1>1. SUFFICES ASSUME Without # {} PROVE FALSE
  OBVIOUS
<1>2. PICK m \in Without : \A k \in Without : m <= k
  BY <1>1, LeastOfNat
<1>3. m # 1
  <2> DEFINE f == [i \in 1..1 |-> parts[1]]
  <2>1. Joins(f, parts, 1)
    BY DEF Joins
  <2> HIDE DEF f
  <2> QED BY <2>1
<1>4. m - 1 \in Nat /\ m - 1 >= 1 /\ m - 1 \notin Without
  BY <1>2, <1>3
<1>5. PICK g : Joins(g, parts, m - 1)
  BY <1>4
<1> DEFINE whole == g[m - 1] \o parts[m]
           f == [i \in 1..m |-> IF i < m THEN g[i] ELSE whole]
<1>6. Joins(f, parts, m)
  <2>1. \A i \in 1..(m - 1) : g[i] = IF i = 1 THEN parts[i] ELSE g[i - 1] \o parts[i]
    BY <1>5 DEF Joins
  <2>2. \A i \in 1..m : f[i] = IF i = 1 THEN parts[i] ELSE f[i - 1] \o parts[i]
    <3> SUFFICES ASSUME NEW i \in 1..m
                 PROVE  f[i] = IF i = 1 THEN parts[i] ELSE f[i - 1] \o parts[i]
      OBVIOUS
    <3>1. CASE i < m
      BY <1>4, <2>1, <3>1
    <3>2. CASE i = m
      <4>1. f[m] = whole /\ m \in Nat
        <5> HIDE DEF whole
        <5> QED BY <1>4
      <4>2. f[i - 1] = g[m - 1]
        BY <1>4, <3>2
      <4> HIDE DEF f
      <4> QED BY <1>3, <3>2, <4>1, <4>2
    <3> QED BY <3>1, <3>2
  <2>3. f = [i \in 1..m |-> f[i]]
    OBVIOUS
  <2> HIDE DEF f
  <2> QED BY <2>2, <2>3 DEF Joins
<1> HIDE DEF f
<1> QED BY <1>2, <1>6

LEMMA JoinsTyped ==
  ASSUME NEW C, NEW n \in Nat, NEW parts, \A i \in 1..n : parts[i] \in Seq(C),
         NEW f, Joins(f, parts, n), NEW k \in 1..n
  PROVE  f[k] \in Seq(C)
<1> DEFINE Bad == {i \in 1..n : f[i] \notin Seq(C)}
<1>1. SUFFICES ASSUME Bad # {} PROVE FALSE
  OBVIOUS
<1>2. PICK i \in Bad : \A j \in Bad : i <= j
  <2>1. Bad \subseteq Nat
    OBVIOUS
  <2> HIDE DEF Bad
  <2> QED BY <1>1, <2>1, LeastOfNat
<1>3. f[i] = IF i = 1 THEN parts[i] ELSE f[i - 1] \o parts[i]
  BY DEF Joins
<1>4. i # 1 => i - 1 \in 1..n /\ i - 1 \notin Bad
  BY <1>2
<1>5. i \in 1..n /\ f[i] \notin Seq(C)
  OBVIOUS
<1> HIDE DEF Bad
<1>6. i # 1 => f[i - 1] \in Seq(C)
  BY <1>4 DEF Bad
<1>7. CASE i = 1
  BY <1>3, <1>5, <1>7
<1>8. CASE i # 1
  <2> DEFINE a == f[i - 1]
             b == parts[i]
  <2>1. a \in Seq(C) /\ b \in Seq(C)
    BY <1>5, <1>6, <1>8
  <2>2. a \o b \in Seq(C)
    <3> HIDE DEF a, b
    <3> QED BY <2>1
  <2> QED BY <1>3, <1>5, <1>8, <2>2
<1> QED BY <1>7, <1>8

LEMMA Flattened ==
  ASSUME NEW C, NEW n \in Nat, n >= 1, NEW parts \in [1..n -> Seq(C)]
  PROVE  FlattenSeq(parts) \in Seq(C)
<1> DEFINE g == CHOOSE f : Joins(f, parts, n)
<1>1. Len(parts) = n /\ n \in 1..n /\ \A i \in 1..n : parts[i] \in Seq(C)
  OBVIOUS
<1>2. FlattenSeq(parts) = g[n]
  BY <1>1 DEF FlattenSeq, Joins
<1>3. Joins(g, parts, n)
  BY JoinsExist
<1>4. g[n] \in Seq(C)
  <2> HIDE DEF g
  <2> QED BY <1>1, <1>3, JoinsTyped
<1> QED BY <1>2, <1>4

LEMMA TextsTyped == Texts \cup {Full, <<>>} \subseteq Seq(Characters)
<1>1. ASSUME NEW text \in Texts \cup {Full} PROVE text \in Seq(Characters)
  <2>1. text \in Seq(Range(text))
    BY TextsAssumption
  <2>2. Range(text) \subseteq Characters
    BY DEF Characters
  <2> QED BY <2>1, <2>2
<1>2. <<>> \in Seq(Characters)
  OBVIOUS
<1> QED BY <1>1, <1>2

\* The rows the grid has.
LEMMA RowTyped ==
  ASSUME GridTyped, NEW r \in base..bottom
  PROVE  Row(r) \in GridRow
<1>1. /\ base \in Nat /\ history \in Seq(GridRow) /\ screen \in Seq(GridRow)
      /\ Len(screen) = Height /\ Height \in Nat
  BY EngineAssumption DEF GridTyped, Screens
<1>2. history \o screen \in Seq(GridRow) /\ Len(history \o screen) = Len(history) + Height
  BY <1>1
<1>3. r - base + 1 \in 1..(Len(history) + Height)
  BY <1>1 DEF bottom, top
<1> QED BY <1>2, <1>3 DEF Row

LEMMA LineTyped ==
  ASSUME GridTyped, NEW r \in base..bottom
  PROVE  /\ read_line(r) \in Seq(Characters)
         /\ (\A k \in r..last_of(r) : row_is_blank(k)) => read_line(r) = <<>>
<1> DEFINE n == last_of(r) - r + 1
           parts == [i \in 1..n |-> Row(r + i - 1).text]
<1>1. r \in Nat /\ base \in Nat /\ bottom \in Nat /\ last_of(r) \in r..bottom
  BY Rows, LastRow DEF GridTyped, oldest
<1>2. n \in Nat /\ n >= 1 /\ \A i \in 1..n : r + i - 1 \in r..last_of(r) /\ r + i - 1 \in base..bottom
  BY <1>1
<1>3. read_line(r) = FlattenSeq(parts)
  BY DEF read_line
<1>4. parts \in [1..n -> Seq(Characters)]
  <2> SUFFICES ASSUME NEW i \in 1..n PROVE Row(r + i - 1).text \in Seq(Characters)
    OBVIOUS
  <2>1. Row(r + i - 1) \in GridRow
    BY <1>2, RowTyped
  <2> QED BY <2>1, TextsTyped DEF GridRow
<1>5. ASSUME \A k \in r..last_of(r) : row_is_blank(k) PROVE read_line(r) = <<>>
  <2>1. \A i \in 1..n : parts[i] = <<>>
    BY <1>2, <1>5 DEF row_is_blank
  <2>2. parts \in [1..n -> Seq({})]
    BY <2>1, <1>4
  <2>3. FlattenSeq(parts) \in Seq({})
    <3> HIDE DEF n, parts
    <3> QED BY <1>2, <2>2, Flattened
  <2> QED BY <1>3, <2>3
<1>6. FlattenSeq(parts) \in Seq(Characters)
  <2> HIDE DEF n, parts
  <2> QED BY <1>2, <1>4, Flattened
<1> QED BY <1>3, <1>5, <1>6

(***************************************************************************)
(* What the scan has read.  The floor is never above the known lines; the  *)
(* rows from the floor to the one in hand hold lines as they are shown,    *)
(* and those below the last row to scan are blank.                         *)
(***************************************************************************)
Floors == base <= scan_floor /\ \A r \in DOMAIN lines : scan_floor <= r

IsHeld(r) == lines[r].emitted \in Seq(Characters) /\ shown[lines[r].id] = lines[r].emitted
Held      == \A r \in Live : IsHeld(r)

IsKnown(r) == r \in DOMAIN lines /\ lines[r].emitted = read_line(r)

Scanning ==
  phase = "emit" =>
    /\ scan_floor <= at /\ (at = scan_floor \/ top < at)
    /\ \A r \in DOMAIN lines : r < at => top <= last_of(r)
    /\ \A r \in Starts : r < at => IsKnown(r)
    /\ \A r \in at..bottom : end < r => row_is_blank(r) /\ r \notin DOMAIN lines

HasRead ==
  phase = "done" =>
    /\ \A r \in Starts : read_line(r) = <<>> \/ r \in DOMAIN lines
    /\ \A r \in DOMAIN lines \cap Starts : lines[r].emitted = read_line(r)
    /\ \A r \in DOMAIN lines : r \in oldest..bottom => top <= last_of(r)

ReadInv == Inv /\ Floors /\ Held /\ Scanning /\ HasRead

\* What is read of a grid that has not changed.
LEMMA GridStays ==
  ASSUME UNCHANGED grid
  PROVE  /\ top' = top /\ bottom' = bottom /\ oldest' = oldest
         /\ \A r : /\ Row(r)' = Row(r) /\ last_of(r)' = last_of(r)
                   /\ read_line(r)' = read_line(r) /\ row_is_blank(r)' = row_is_blank(r)
<1>1. base' = base /\ history' = history /\ screen' = screen
  BY DEF grid
<1>2. top' = top /\ bottom' = bottom /\ oldest' = oldest
  BY <1>1 DEF top, bottom, oldest
<1>3. \A r : Row(r)' = Row(r)
  BY <1>1 DEF Row
<1>4. \A r : last_of(r)' = last_of(r)
  BY <1>2, <1>3 DEF last_of
<1>5. \A r : read_line(r)' = read_line(r)
  BY <1>3, <1>4 DEF read_line
<1>6. \A r : row_is_blank(r)' = row_is_blank(r)
  BY <1>3 DEF row_is_blank
<1> QED BY <1>2, <1>3, <1>4, <1>5, <1>6

\* Dropping the history leaves the rows of the screen.
LEMMA ScreenStays ==
  ASSUME GridTyped, history' = <<>>, base' = top, UNCHANGED screen
  PROVE  /\ bottom' = bottom /\ top' = top /\ oldest' = top
         /\ \A r \in top..bottom : /\ Row(r)' = Row(r) /\ last_of(r)' = last_of(r)
                                   /\ read_line(r)' = read_line(r)
<1>1. /\ base \in Nat /\ history \in Seq(GridRow) /\ screen \in Seq(GridRow)
      /\ Len(screen) = Height /\ Height \in Nat /\ top \in Nat /\ bottom \in Nat
      /\ top = base + Len(history) /\ bottom = top + Height - 1
  BY Rows, EngineAssumption DEF GridTyped, Screens, top, bottom
<1>2. bottom' = bottom /\ top' = top /\ oldest' = top
  BY <1>1 DEF bottom, top, oldest
<1>3. ASSUME NEW r \in top..bottom PROVE Row(r)' = Row(r)
  <2>1. r - base + 1 = Len(history) + (r - top + 1) /\ r - top + 1 \in 1..Len(screen)
    BY <1>1
  <2>2. (history \o screen)[r - base + 1] = screen[r - top + 1]
    BY <1>1, <2>1
  <2>3. (<<>> \o screen)[r - top + 1] = screen[r - top + 1]
    BY <1>1, <2>1
  <2> QED BY <2>2, <2>3 DEF Row
<1>4. ASSUME NEW r \in top..bottom PROVE last_of(r)' = last_of(r)
  <2>1. \A k \in r..bottom : Row(k)' = Row(k)
    BY <1>1, <1>3
  <2>2. {k \in r..bottom : ~Row(k).wraps \/ k = bottom}' = {k \in r..bottom : ~Row(k).wraps \/ k = bottom}
    BY <1>2, <2>1
  <2> QED BY <2>2 DEF last_of
<1>5. ASSUME NEW r \in top..bottom PROVE read_line(r)' = read_line(r)
  <2>1. last_of(r) \in r..bottom /\ last_of(r)' = last_of(r)
    BY <1>1, <1>4, LastRow
  <2>2. \A i \in 1..(last_of(r) - r + 1) : Row(r + i - 1)' = Row(r + i - 1)
    BY <1>1, <1>3, <2>1
  <2> QED BY <2>1, <2>2 DEF read_line
<1> QED BY <1>2, <1>3, <1>4, <1>5

\* The rows that are scanned.
LEMMA FloorFound ==
  ASSUME GridTyped, NEW floor \in Nat, base <= floor
  PROVE  From(floor) \in base..floor /\ From(floor) <= bottom
<1> DEFINE low == {floor, here}
           F   == {oldest, Min(low)}
<1>1. /\ base \in Nat /\ here \in Nat /\ bottom \in Nat /\ oldest = base
      /\ base <= here /\ here <= bottom
  BY Rows, EngineAssumption DEF GridTyped, oldest, here, Cursors, top
<1>2. Min(low) \in low /\ \A y \in low : Min(low) <= y
  <2>1. low \subseteq base..(floor + here) /\ low # {} /\ base \in Int /\ floor + here \in Int
    BY <1>1
  <2> HIDE DEF low
  <2> QED BY <2>1, LeastAndGreatest
<1>3. Min(low) \in base..floor /\ Min(low) <= bottom
  BY <1>1, <1>2
<1>4. Max(F) \in F
  <2>1. F \subseteq base..floor /\ F # {} /\ base \in Int /\ floor \in Int
    BY <1>1, <1>3
  <2> HIDE DEF F
  <2> QED BY <2>1, LeastAndGreatest
<1>5. From(floor) = Max(F)
  BY DEF From
<1> HIDE DEF low
<1> QED BY <1>1, <1>3, <1>4, <1>5

LEMMA EndFound ==
  ASSUME GridTyped, NEW floor \in Nat, floor <= bottom, NEW known, Begin(floor, known)
  PROVE  /\ scan_floor' = floor /\ at' = floor
         /\ \A r \in floor..bottom : end' < r => row_is_blank(r) /\ r \notin known
<1> DEFINE S == Scanned(floor, known) \cup {floor - 1}
<1>1. S \subseteq (floor - 1)..bottom /\ S # {} /\ floor - 1 \in Int /\ bottom \in Int
  BY Rows DEF Scanned
<1>2. scan_floor' = floor /\ at' = floor /\ end' = Max(S)
  BY DEF Begin
<1>3. Max(S) \in S /\ \A r \in S : r <= Max(S)
  <2> HIDE DEF S
  <2> QED BY <1>1, LeastAndGreatest
<1>4. ASSUME NEW r \in floor..bottom, end' < r PROVE row_is_blank(r) /\ r \notin known
  <2>1. r \notin S
    <3> DEFINE m == Max(S)
    <3> HIDE DEF S, m
    <3>1. m \in S /\ m < r /\ \A k \in S : k <= m
      BY <1>2, <1>3, <1>4 DEF m
    <3>2. m \in (floor - 1)..bottom
      BY <1>1, <3>1
    <3> QED BY <1>1, <3>1, <3>2
  <2> QED BY <2>1 DEF Scanned
<1> QED BY <1>2, <1>4

\* Nothing happens to the lines while the program writes.
LEMMA ReadByWriting ==
  ASSUME ReadInv, Writing
  PROVE  (Floors /\ Held /\ Scanning /\ HasRead)'
<1>1. /\ phase = "write" /\ phase' = "write" /\ base' = base /\ lines' = lines
      /\ scan_floor' = scan_floor /\ shown' = shown
  BY DEF Writing, extractor, reader
<1>2. Floors'
  BY <1>1 DEF ReadInv, Floors
<1>3. Held'
  BY <1>1 DEF ReadInv, Held, IsHeld, Live
<1> QED BY <1>1, <1>2, <1>3 DEF Scanning, HasRead

\* What a reader holds of a line once something was said.
LEMMA Heard ==
  ASSUME NEW said, Says(said), NEW id \in DOMAIN shown \cup DOMAIN said
  PROVE  /\ shown'[id] = L!Applied(shown, said, id)
         /\ id \notin DOMAIN said => shown'[id] = shown[id]
BY DEF Says, L!Read, L!Applied

\* A line of which nothing is said is held as before, wherever it is now.
LEMMA HeldOn ==
  ASSUME Stream, Held, NEW said, Says(said), NEW r, NEW k \in Live, lines'[r] = lines[k],
         lines[k].id \notin DOMAIN said
  PROVE  IsHeld(r)'
<1>1. lines[k].id \in DOMAIN shown
  BY LinesApart DEF Stream
<1>2. shown'[lines[k].id] = shown[lines[k].id]
  BY <1>1, Heard
<1> QED BY <1>2 DEF Held, IsHeld

LEMMA ReadByExtracting ==
  ASSUME ReadInv, NEW why \in Signals, extract(why)
  PROVE  (Floors /\ Held /\ Scanning /\ HasRead)'
<1> USE DEF ReadInv, Inv
<1>1. /\ UNCHANGED grid /\ phase' = "emit" /\ base' = base /\ GridTyped
      /\ base \in Nat /\ scan_floor \in Nat /\ base <= scan_floor
  BY DEF extract, grid, GridTyped, ScanTyped, Floors
<1>2. PICK floor \in {base, scan_floor}, known \in SUBSET Nat :
        /\ Begin(From(floor), known) /\ known = DOMAIN lines'
        /\ \A r \in DOMAIN lines' : floor <= r
  <2>1. CASE saturated
    <3>1. lines' = <<>> /\ Begin(From(base), {})
      BY <2>1 DEF extract, oldest
    <3>2. DOMAIN lines' = {}
      BY <3>1
    <3> QED BY <3>1, <3>2
  <2>2. CASE ~saturated
    <3>1. lines' = lines /\ Begin(From(scan_floor), DOMAIN lines)
      BY <2>2 DEF extract
    <3>2. DOMAIN lines \subseteq Nat
      BY DEF Stream, Ordered
    <3> QED BY <3>1, <3>2 DEF Floors
  <2> QED BY <2>1, <2>2
<1> DEFINE first == From(floor)
<1>3. floor \in Nat /\ first \in base..floor /\ first <= bottom /\ first \in Nat
  BY <1>1, <1>2, FloorFound
<1> HIDE DEF first
<1>4. /\ scan_floor' = first /\ at' = first
      /\ \A r \in first..bottom : end' < r => row_is_blank(r) /\ r \notin DOMAIN lines'
  BY <1>1, <1>2, <1>3, EndFound DEF first
<1>5. Floors'
  BY <1>1, <1>2, <1>3, <1>4 DEF Floors
<1>6. Held'
  <2>1. CASE saturated
    <3>1. DOMAIN lines' = {}
      BY <2>1 DEF extract
    <3> QED BY <3>1 DEF Held, Live
  <2>2. CASE ~saturated
    <3>1. lines' = lines /\ Says(Silence) /\ Live' = Live
      BY <2>2 DEF extract, Live
    <3>2. DOMAIN Silence = {}
      BY DEF Silence
    <3> QED BY <3>1, <3>2, HeldOn DEF Held
  <2> QED BY <2>1, <2>2
<1>7. Scanning'
  <2>1. scan_floor' <= at' /\ at' = scan_floor'
    BY <1>3, <1>4
  <2>2. \A r \in DOMAIN lines' : ~(r < at')
    BY <1>2, <1>3, <1>4
  <2>3. \A r \in Starts' : r \in Int /\ ~(r < at')
    BY <1>3, <1>4 DEF Starts
  <2>4. bottom' = bottom /\ \A r : row_is_blank(r)' = row_is_blank(r)
    BY <1>1, GridStays
  <2> QED BY <1>4, <2>1, <2>2, <2>3, <2>4 DEF Scanning
<1> QED BY <1>1, <1>5, <1>6, <1>7 DEF HasRead

\* The end of a block and another screen settle every line that can change.
LEMMA ReadByPlacing ==
  ASSUME ReadInv, place
  PROVE  (Floors /\ Held /\ Scanning /\ HasRead)'
<1> USE DEF ReadInv, Inv
<1>1. phase' = "write" /\ base' = base /\ base \in Nat
  BY DEF place, grid, GridTyped
<1>2. CASE signal = "ReadEnd" /\ Says(Silence) /\ UNCHANGED extractor
  <2>1. lines' = lines /\ scan_floor' = scan_floor /\ Live' = Live
    BY <1>2 DEF extractor, Live
  <2>2. DOMAIN Silence = {}
    BY DEF Silence
  <2>3. Held'
    BY <1>2, <2>1, <2>2, HeldOn DEF Held
  <2> QED BY <1>1, <2>1, <2>3 DEF Floors, Scanning, HasRead
<1>3. CASE settle_block /\ scan_floor' = scan_floor
  <2>1. DOMAIN lines' = DOMAIN lines /\ Live' = {}
    BY <1>3 DEF settle_block, Live, Tracked
  <2> QED BY <1>1, <1>3, <2>1 DEF Floors, Held, Scanning, HasRead
<1>4. CASE settle_and_forget /\ Switch(signal)
  <2>1. DOMAIN lines' = {} /\ Live' = {}
    BY <1>4 DEF settle_and_forget, Live
  <2>2. base <= scan_floor'
    <3>1. GridTyped'
      BY GridByExtracting
    <3>2. Len(history') \in Nat /\ cursor' \in Nat
      BY <3>1, EngineAssumption DEF GridTyped, Cursors
    <3> QED BY <1>1, <1>4, <3>2 DEF Switch
  <2> QED BY <1>1, <2>1, <2>2 DEF Floors, Held, Scanning, HasRead
<1> QED BY <1>2, <1>3, <1>4 DEF place

(***************************************************************************)
(* One line of the scan: what becomes of the lines, and what is held of    *)
(* each.                                                                   *)
(***************************************************************************)
\* The lines after that of row r was read: it is known if it can still change
\* or has not left the screen, those it swallowed are not, and those above are
\* as they were.
Advances(r, settled) ==
  /\ DOMAIN lines' = Kept(r) \cup (IF settled THEN {} ELSE {r})
  /\ ~settled => lines'[r].emitted = read_line(r)
  /\ \A k \in Kept(r) : k < r => lines'[k] = lines[k]

LEMMA RevisedLines ==
  ASSUME NEW r, NEW settled \in BOOLEAN, NEW line,
         lines' = IF settled THEN Rest(r) ELSE Over(One(r, line), Rest(r))
  PROVE  /\ DOMAIN lines' = Kept(r) \cup (IF settled THEN {} ELSE {r})
         /\ ~settled => lines'[r] = line
         /\ \A k \in Kept(r) : lines'[k] = lines[k]
<1>1. CASE settled
  BY <1>1, RestOfLines
<1>2. CASE ~settled
  <2> DEFINE mine == One(r, line)
  <2>1. DOMAIN mine = {r} /\ mine[r] = line
    BY Single
  <2>2. /\ DOMAIN lines' = DOMAIN mine \cup DOMAIN Rest(r)
        /\ \A k \in DOMAIN mine : lines'[k] = mine[k]
        /\ \A k \in DOMAIN Rest(r) \ DOMAIN mine : lines'[k] = Rest(r)[k]
    <3> HIDE DEF mine
    <3> QED BY <1>2 DEF Over, mine
  <2> HIDE DEF mine
  <2> QED BY <1>2, <2>1, <2>2, RestOfLines
<1> QED BY <1>1, <1>2

\* A line that keeps its identity is held as it was revised.
LEMMA ToldIsHeld ==
  ASSUME NEW id \in DOMAIN shown, NEW was, NEW text, shown[id] = was,
         was \in Seq(Characters), text \in Seq(Characters),
         NEW others, id \notin DOMAIN others,
         Says(Over(Told(id, was, text, FALSE), others))
  PROVE  shown'[id] = text
<1> DEFINE heard == Told(id, was, text, FALSE)
           said  == Over(heard, others)
           tail  == SubSeq(text, Len(was) + 1, Len(text))
<1>1. shown'[id] = L!Applied(shown, said, id) /\ (id \notin DOMAIN said => shown'[id] = was)
  <2> HIDE DEF said
  <2> QED BY Heard DEF said
<1>2. /\ DOMAIN said = DOMAIN heard \cup DOMAIN others
      /\ \A x \in DOMAIN heard : said[x] = heard[x]
  <2> HIDE DEF heard
  <2> QED BY Joined
<1>3. CASE was = text
  <2>1. DOMAIN heard = {}
    BY <1>3 DEF Told, revise, Silence
  <2> QED BY <1>1, <1>2, <1>3, <2>1
<1>4. CASE was # text /\ IsPrefix(was, text)
  <2>1. heard = One(id, Item(tail, "Appended"))
    BY <1>4 DEF Told, revise
  <2>2. DOMAIN heard = {id} /\ heard[id].revision = "Appended" /\ heard[id].text = tail
    <3> DEFINE revision == "Appended"
    <3> HIDE DEF tail, revision, heard
    <3>1. /\ DOMAIN One(id, Item(tail, revision)) = {id}
          /\ One(id, Item(tail, revision))[id].revision = revision
          /\ One(id, Item(tail, revision))[id].text = tail
      BY Said
    <3> QED BY <2>1, <3>1 DEF revision
  <2>3. was \o tail = text
    BY <1>4 DEF IsPrefix
  <2>4. said[id].revision = "Appended" /\ said[id].text = tail /\ id \in DOMAIN said
    BY <1>2, <2>2
  <2> HIDE DEF said, tail, heard
  <2> QED BY <1>1, <2>3, <2>4 DEF L!Applied
<1>5. CASE was # text /\ ~IsPrefix(was, text)
  <2>1. heard = One(id, Item(text, "Rewritten"))
    BY <1>5 DEF Told, revise
  <2>2. DOMAIN heard = {id} /\ heard[id].revision = "Rewritten" /\ heard[id].text = text
    <3> DEFINE revision == "Rewritten"
    <3> HIDE DEF revision, heard
    <3>1. /\ DOMAIN One(id, Item(text, revision)) = {id}
          /\ One(id, Item(text, revision))[id].revision = revision
          /\ One(id, Item(text, revision))[id].text = text
      BY Said
    <3> QED BY <2>1, <3>1 DEF revision
  <2>3. said[id].revision = "Rewritten" /\ said[id].text = text /\ id \in DOMAIN said
    BY <1>2, <2>2
  <2> HIDE DEF said, heard
  <2> QED BY <1>1, <2>3 DEF L!Applied
<1> QED BY <1>3, <1>4, <1>5

\* A line that is kept has another identity than those swallowed.
LEMMA KeptAreNotSwallowed ==
  ASSUME Stream, NEW r, NEW k \in Kept(r) \cap Live
  PROVE  /\ lines[k].id \notin SwallowedIds(r) /\ lines[k].id # next_id
         /\ r \in Live => lines[k].id # lines[r].id
<1>1. k \notin Swallowed(r) /\ k # r /\ k \in Live /\ next_id \in Nat
  BY RestOfLines DEF Stream
<1> QED BY <1>1, LinesApart DEF SwallowedIds

LEMMA HeldByRevising ==
  ASSUME Stream, Held, NEW r \in Live, NEW settled \in BOOLEAN, Revised(r, settled),
         read_line(r) \in Seq(Characters)
  PROVE  Advances(r, settled) /\ Held'
<1> DEFINE id    == lines[r].id
           text  == read_line(r)
           heard == Told(id, lines[r].emitted, text, settled)
           said  == Over(heard, Absorbed(r))
<1>1. Says(said)
  BY DEF Revised
<1>2. /\ DOMAIN lines' = Kept(r) \cup (IF settled THEN {} ELSE {r})
      /\ ~settled => lines'[r] = Tracked(id, text)
      /\ \A k \in Kept(r) : lines'[k] = lines[k]
  <2>1. lines' = IF settled THEN Rest(r) ELSE Over(One(r, Tracked(id, text)), Rest(r))
    BY DEF Revised
  <2> HIDE DEF id, text
  <2> QED BY <2>1, RevisedLines
<1>3. Advances(r, settled)
  BY <1>2 DEF Advances, Tracked
<1>4. DOMAIN said \subseteq {id} \cup SwallowedIds(r)
  <2>1. DOMAIN heard \subseteq {id}
    <3> HIDE DEF id, text
    <3> QED BY SaidOfALine
  <2> HIDE DEF heard
  <2> QED BY <2>1, SaidOfTheSwallowed DEF Over
<1>5. ASSUME NEW k \in Kept(r), k \in Live' PROVE IsHeld(k)'
  <2>1. lines'[k] = lines[k] /\ k \in Live
    BY <1>2, <1>5, RestOfLines DEF Live
  <2>2. lines[k].id \notin DOMAIN said
    BY <1>4, <2>1, KeptAreNotSwallowed
  <2> HIDE DEF said
  <2> QED BY <1>1, <2>1, <2>2, HeldOn
<1>6. ASSUME ~settled PROVE IsHeld(r)'
  <2>1. id \in DOMAIN shown /\ id \notin DOMAIN Absorbed(r)
    <3>1. \A k \in Swallowed(r) \cap Live : lines[k].id # id
      BY LinesApart DEF Swallowed
    <3>2. id \in DOMAIN shown
      BY LinesApart DEF Stream
    <3>3. id \notin SwallowedIds(r)
      BY <3>1 DEF SwallowedIds
    <3> HIDE DEF id
    <3> QED BY <3>2, <3>3, SaidOfTheSwallowed
  <2>2. shown[id] = lines[r].emitted /\ lines[r].emitted \in Seq(Characters)
    BY DEF Held, IsHeld
  <2>3. Says(Over(Told(id, lines[r].emitted, text, FALSE), Absorbed(r)))
    BY <1>1, <1>6
  <2>4. shown'[id] = text
    <3> DEFINE was == lines[r].emitted
               others == Absorbed(r)
    <3>1. was = lines[r].emitted
      OBVIOUS
    <3> HIDE DEF id, text, was, others
    <3> QED BY <2>1, <2>2, <2>3, ToldIsHeld DEF text, was, others
  <2>5. lines'[r].id = id /\ lines'[r].emitted = text
    <3> HIDE DEF id, text
    <3> QED BY <1>2, <1>6 DEF Tracked
  <2> QED BY <2>4, <2>5 DEF IsHeld
<1>7. Held'
  <2> SUFFICES ASSUME NEW k \in Live' PROVE IsHeld(k)'
    BY DEF Held
  <2>1. k \in DOMAIN lines'
    BY DEF Live
  <2> QED BY <1>2, <1>5, <1>6, <2>1
<1> QED BY <1>3, <1>7

LEMMA HeldByNothingNew ==
  ASSUME Stream, Held, NEW r \in DOMAIN lines \ Live, NEW settled \in BOOLEAN,
         lines[r].emitted = read_line(r), Unchanged(r, settled)
  PROVE  Advances(r, settled) /\ Held'
<1>1. Says(Absorbed(r)) /\ DOMAIN Absorbed(r) = SwallowedIds(r)
  BY SaidOfTheSwallowed DEF Unchanged
<1>2. /\ DOMAIN lines' = Kept(r) \cup (IF settled THEN {} ELSE {r})
      /\ ~settled => lines'[r] = lines[r]
      /\ \A k \in Kept(r) : lines'[k] = lines[k]
  BY RevisedLines DEF Unchanged
<1>3. Advances(r, settled)
  BY <1>2 DEF Advances
<1>4. Held'
  <2> SUFFICES ASSUME NEW k \in Live' PROVE IsHeld(k)'
    BY DEF Held
  <2>1. k \in DOMAIN lines' /\ lines'[k] = lines[k] /\ k \in Live /\ k \in Kept(r)
    BY <1>2, RestOfLines DEF Live
  <2>2. lines[k].id \notin DOMAIN Absorbed(r)
    BY <1>1, <2>1, KeptAreNotSwallowed
  <2> QED BY <1>1, <2>1, <2>2, HeldOn
<1> QED BY <1>3, <1>4

LEMMA HeldByMinting ==
  ASSUME Stream, Held, NEW r, r \notin Live, NEW settled \in BOOLEAN, Minted(r, settled),
         read_line(r) \in Seq(Characters)
  PROVE  Advances(r, settled) /\ Held'
<1> DEFINE text  == read_line(r)
           heard == One(next_id, Item(text, IF settled THEN "Settled" ELSE "Appended"))
           said  == Over(heard, Absorbed(r))
<1>1. Says(said)
  BY DEF Minted
<1>2. /\ DOMAIN lines' = Kept(r) \cup (IF settled THEN {} ELSE {r})
      /\ ~settled => lines'[r] = Tracked(next_id, text)
      /\ \A k \in Kept(r) : lines'[k] = lines[k]
  <2>1. lines' = IF settled THEN Rest(r) ELSE Over(One(r, Tracked(next_id, text)), Rest(r))
    BY DEF Minted
  <2> HIDE DEF text
  <2> QED BY <2>1, RevisedLines
<1>3. Advances(r, settled)
  BY <1>2 DEF Advances, Tracked
<1>4. DOMAIN said = {next_id} \cup SwallowedIds(r) /\ said[next_id].text = text
  <2>1. DOMAIN heard = {next_id} /\ heard[next_id].text = text
    <3> DEFINE revision == IF settled THEN "Settled" ELSE "Appended"
    <3> HIDE DEF text, revision
    <3>1. /\ DOMAIN One(next_id, Item(text, revision)) = {next_id}
          /\ One(next_id, Item(text, revision))[next_id].text = text
      BY Said
    <3> QED BY <3>1 DEF revision
  <2> HIDE DEF heard
  <2> QED BY <2>1, SaidOfTheSwallowed DEF Over
<1>5. ASSUME NEW k \in Kept(r), k \in Live' PROVE IsHeld(k)'
  <2>1. lines'[k] = lines[k] /\ k \in Live
    BY <1>2, <1>5, RestOfLines DEF Live
  <2>2. lines[k].id \notin DOMAIN said
    BY <1>4, <2>1, KeptAreNotSwallowed
  <2> HIDE DEF said
  <2> QED BY <1>1, <2>1, <2>2, HeldOn
<1>6. ASSUME ~settled PROVE IsHeld(r)'
  <2>1. next_id \in DOMAIN said /\ next_id \notin DOMAIN shown
    BY <1>4 DEF Stream
  <2>2. shown'[next_id] = text
    <3> HIDE DEF said, text
    <3> QED BY <1>1, <1>4, <2>1, Heard DEF L!Applied
  <2>3. lines'[r].id = next_id /\ lines'[r].emitted = text
    <3> HIDE DEF text
    <3> QED BY <1>2, <1>6 DEF Tracked
  <2> QED BY <2>2, <2>3 DEF IsHeld
<1>7. Held'
  <2> SUFFICES ASSUME NEW k \in Live' PROVE IsHeld(k)'
    BY DEF Held
  <2>1. k \in DOMAIN lines'
    BY DEF Live
  <2> QED BY <1>2, <1>5, <1>6, <2>1
<1> QED BY <1>3, <1>7

LEMMA HeldByTakingAPlace ==
  ASSUME Stream, Held, NEW r \in Nat, r <= last_of(r), last_of(r) \in Nat, r \notin Live,
         Below(r) # {}, NEW settled \in BOOLEAN, take_place_below(r, settled),
         read_line(r) \in Seq(Characters)
  PROVE  Advances(r, settled) /\ Held'
<1> DEFINE text  == read_line(r)
           B     == Below(r)
           first == Min(B)
           final_row == Max(B)
           taken == lines[first]
           was   == taken.emitted
           heard == Told(taken.id, was, text, settled)
           new   == One(next_id, Item(<<>>, "Appended"))
           rest  == Over(new, Absorbed(r))
           said  == Over(heard, rest)
<1>1. Says(said)
  BY DEF take_place_below
<1>2. /\ first \in B /\ final_row \in B /\ B \subseteq Kept(r) \cap Live
      /\ \A k \in B : k \in Nat /\ r < k /\ first <= k
      /\ \A k \in B : k # final_row => Following(B, k) \in B /\ k < Following(B, k)
      /\ DOMAIN lines' = Kept(r) \cup (IF settled THEN {} ELSE {r})
      /\ ~settled => lines'[r] = Tracked(taken.id, text)
      /\ \A k \in B : lines'[k] = IF k = final_row THEN Tracked(next_id, <<>>)
                                  ELSE lines[Following(B, k)]
      /\ \A k \in Kept(r) \ B : lines'[k] = lines[k]
  <2>1. Pushes(r, settled)
    BY PushedDown
  <2> HIDE DEF text
  <2> QED BY <2>1 DEF Pushes, text
<1> HIDE DEF B, first, final_row
<1>3. Advances(r, settled)
  <2>1. ~settled => lines'[r].emitted = text
    <3> HIDE DEF text, taken
    <3> QED BY <1>2 DEF Tracked
  <2>2. \A k \in Kept(r) : k < r => k \notin B
    <3>1. \A k \in B : k \in Nat
      BY <1>2, LinesApart
    <3> QED BY <1>2, <3>1
  <2>3. \A k \in Kept(r) : k < r => lines'[k] = lines[k]
    BY <1>2, <2>2
  <2> QED BY <1>2, <2>1, <2>3 DEF Advances
<1>4. /\ first \in Live /\ taken.id \in DOMAIN shown /\ taken.id # next_id
      /\ taken.id \notin SwallowedIds(r)
      /\ next_id \in Nat /\ next_id \notin DOMAIN shown /\ next_id \notin SwallowedIds(r)
  <2>1. first \in Kept(r) \cap Live
    BY <1>2
  <2>2. next_id \in Nat /\ DOMAIN shown = 0..(next_id - 1)
    BY DEF Stream
  <2>3. next_id \notin SwallowedIds(r)
    <3>1. \A k \in Live : lines[k].id # next_id
      BY <2>2, LinesApart
    <3> QED BY <3>1 DEF SwallowedIds
  <2> QED BY <2>1, <2>2, <2>3, LinesApart, KeptAreNotSwallowed
<1>5. DOMAIN new = {next_id} /\ new[next_id].text = <<>>
  <2> DEFINE revision == "Appended"
             text0 == <<>>
  <2>1. LET item == One(next_id, Item(text0, revision))
        IN  DOMAIN item = {next_id} /\ item[next_id].text = text0
    <3> HIDE DEF revision, text0
    <3> QED BY Said
  <2> QED BY <2>1
<1>6. DOMAIN rest = {next_id} \cup SwallowedIds(r) /\ rest[next_id] = new[next_id]
  <2> HIDE DEF new
  <2> QED BY <1>5, SaidOfTheSwallowed DEF Over
<1>7. DOMAIN heard \subseteq {taken.id}
  <2> HIDE DEF taken, text, was
  <2> QED BY SaidOfALine
<1>8. /\ DOMAIN said = DOMAIN heard \cup {next_id} \cup SwallowedIds(r)
      /\ said[next_id] = new[next_id]
  <2> HIDE DEF heard, rest, new
  <2> QED BY <1>4, <1>6, <1>7 DEF Over
<1>9. ASSUME NEW k \in Kept(r) \cap Live, k # first PROVE lines[k].id \notin DOMAIN said
  <2>1. lines[k].id # taken.id
    BY <1>4, <1>9, LinesApart
  <2>2. lines[k].id \notin SwallowedIds(r) /\ lines[k].id # next_id
    BY KeptAreNotSwallowed
  <2> HIDE DEF said, heard, taken
  <2> QED BY <1>7, <1>8, <2>1, <2>2
<1>10. ASSUME ~settled PROVE IsHeld(r)'
  <2>1. taken.id \in DOMAIN shown /\ taken.id \notin DOMAIN rest
    <3> HIDE DEF rest, taken
    <3> QED BY <1>4, <1>6
  <2>2. shown[taken.id] = was /\ was \in Seq(Characters)
    BY <1>4 DEF Held, IsHeld
  <2>3. Says(Over(Told(taken.id, was, text, FALSE), rest))
    BY <1>1, <1>10
  <2>4. shown'[taken.id] = text
    <3> DEFINE id == taken.id
    <3> HIDE DEF id, text, was, rest
    <3> QED BY <2>1, <2>2, <2>3, ToldIsHeld DEF id, text
  <2>5. lines'[r].id = taken.id /\ lines'[r].emitted = text
    <3> HIDE DEF taken, text
    <3> QED BY <1>2, <1>10 DEF Tracked
  <2> QED BY <2>4, <2>5 DEF IsHeld
<1>11. ASSUME NEW k \in B, k = final_row PROVE IsHeld(k)'
  <2>1. lines'[k] = Tracked(next_id, <<>>)
    BY <1>2, <1>11
  <2>2. shown'[next_id] = <<>>
    <3>1. next_id \in DOMAIN said /\ said[next_id].text = <<>>
      <4> HIDE DEF said, new
      <4> QED BY <1>5, <1>8
    <3> HIDE DEF said
    <3> QED BY <1>1, <1>4, <3>1, Heard DEF L!Applied
  <2>3. lines'[k].id = next_id /\ lines'[k].emitted = <<>>
    BY <2>1 DEF Tracked
  <2>4. <<>> \in Seq(Characters)
    OBVIOUS
  <2> HIDE DEF said
  <2> QED BY <2>2, <2>3, <2>4 DEF IsHeld
<1>12. ASSUME NEW k \in B, k # final_row PROVE IsHeld(k)'
  <2> DEFINE j == Following(B, k)
  <2>1. lines'[k] = lines[j] /\ j \in Kept(r) \cap Live /\ j # first
    <3>1. j \in B /\ k < j /\ first <= k /\ k \in Nat /\ j \in Nat /\ first \in Nat
      BY <1>2, <1>12
    <3> HIDE DEF j
    <3>2. j # first
      BY <3>1
    <3> QED BY <1>2, <1>12, <3>1, <3>2 DEF j
  <2> HIDE DEF j
  <2>2. lines[j].id \notin DOMAIN said
    BY <1>9, <2>1
  <2> HIDE DEF said
  <2> QED BY <1>1, <2>1, <2>2, HeldOn
<1>13. ASSUME NEW k \in Kept(r) \ B, k \in Live' PROVE IsHeld(k)'
  <2>1. lines'[k] = lines[k] /\ k \in Live /\ k # first
    BY <1>2, <1>13, RestOfLines DEF Live
  <2>2. lines[k].id \notin DOMAIN said
    BY <1>9, <2>1
  <2> HIDE DEF said
  <2> QED BY <1>1, <2>1, <2>2, HeldOn
<1>14. Held'
  <2> SUFFICES ASSUME NEW k \in Live' PROVE IsHeld(k)'
    BY DEF Held
  <2>1. k \in DOMAIN lines'
    BY DEF Live
  <2> QED BY <1>2, <1>10, <1>11, <1>12, <1>13, <2>1
<1> QED BY <1>3, <1>14

\* One line of the scan is read, whatever was known of it.
LEMMA ReadByEmitting ==
  ASSUME ReadInv, emit_line
  PROVE  (Floors /\ Held /\ Scanning /\ HasRead)'
<1> USE DEF ReadInv, Inv
<1> DEFINE r       == at
           last    == last_of(r)
           settled == has_left(r)
<1>1. /\ phase = "emit" /\ phase' = "emit" /\ end' = end /\ UNCHANGED grid /\ base' = base
      /\ r <= end /\ at' = last + 1
      /\ scan_floor' = IF settled THEN last + 1 ELSE scan_floor
      /\ settled \in BOOLEAN
  BY DEF emit_line, grid, has_left
<1>2. /\ r \in Nat /\ end \in Int /\ end <= bottom /\ bottom \in Nat /\ top \in Nat
      /\ scan_floor \in Nat /\ base \in Nat /\ base <= scan_floor /\ scan_floor <= r
      /\ r = scan_floor \/ top < r
      /\ DOMAIN lines \subseteq Nat
  BY <1>1, Rows DEF ScanTyped, Floors, Scanning, GridTyped, Stream, Ordered
<1>3. r \in base..bottom /\ last \in r..bottom /\ last \in Nat /\ read_line(r) \in Seq(Characters)
  BY <1>1, <1>2, LastRow, LineTyped
<1>4. settled <=> last < top
  BY DEF has_left
<1>5. Advances(r, settled) /\ Held'
  <2>1. \/ r \in Live /\ Revised(r, settled)
        \/ r \in DOMAIN lines \ Live /\ lines[r].emitted = read_line(r) /\ Unchanged(r, settled)
        \/ r \notin Live /\ Below(r) = {} /\ Minted(r, settled)
        \/ r \notin Live /\ Below(r) # {} /\ take_place_below(r, settled)
    BY DEF emit_line
  <2> DEFINE row == r
             gone == settled
  <2>2. gone \in BOOLEAN
    BY <1>1
  <2>3. row \in Nat /\ row <= last_of(row) /\ last_of(row) \in Nat
    BY <1>2, <1>3
  <2>4. read_line(row) \in Seq(Characters)
    BY <1>3
  <2>5. Advances(row, gone) /\ Held'
    <3> HIDE DEF row, gone
    <3>1. CASE row \in Live /\ Revised(row, gone)
      BY <2>2, <2>4, <3>1, HeldByRevising
    <3>2. CASE row \in DOMAIN lines \ Live /\ lines[row].emitted = read_line(row)
               /\ Unchanged(row, gone)
      BY <2>2, <3>2, HeldByNothingNew
    <3>3. CASE row \notin Live /\ Minted(row, gone)
      BY <2>2, <2>4, <3>3, HeldByMinting
    <3>4. CASE row \notin Live /\ Below(row) # {} /\ take_place_below(row, gone)
      BY <2>2, <2>3, <2>4, <3>4, HeldByTakingAPlace
    <3> QED BY <2>1, <3>1, <3>2, <3>3, <3>4 DEF row, gone
  <2> QED BY <2>5
<1>6. \A k \in Kept(r) : k \in DOMAIN lines /\ k \in Nat /\ (k < r \/ last < k)
  BY <1>2, <1>3, RestOfLines DEF Kept, Swallowed
<1>7. ASSUME settled PROVE r = scan_floor /\ \A k \in DOMAIN lines' : last < k /\ k \in Kept(r)
  <2>1. r = scan_floor
    BY <1>2, <1>3, <1>4, <1>7
  <2>2. \A k \in Kept(r) : ~(k < r)
    BY <1>2, <1>6, <2>1 DEF Floors
  <2>3. DOMAIN lines' = Kept(r)
    BY <1>5, <1>7 DEF Advances
  <2> QED BY <1>6, <2>1, <2>2, <2>3
<1>8. ASSUME ~settled
      PROVE  DOMAIN lines' = Kept(r) \cup {r} /\ lines'[r].emitted = read_line(r)
  BY <1>5, <1>8 DEF Advances
<1>9. Floors'
  <2>1. CASE settled
    BY <1>1, <1>2, <1>3, <1>6, <1>7, <2>1 DEF Floors
  <2>2. CASE ~settled
    BY <1>1, <1>2, <1>6, <1>8, <2>2 DEF Floors
  <2> QED BY <2>1, <2>2
<1>10. /\ top' = top /\ bottom' = bottom
       /\ \A k : /\ Row(k)' = Row(k) /\ last_of(k)' = last_of(k)
                 /\ read_line(k)' = read_line(k) /\ row_is_blank(k)' = row_is_blank(k)
  BY <1>1, GridStays
<1> HIDE DEF settled, last, r
<1>11. scan_floor' <= at' /\ (at' = scan_floor' \/ top' < at')
  BY <1>1, <1>2, <1>3, <1>4, <1>10
<1>12. ASSUME NEW k \in DOMAIN lines', k < at' PROVE top <= last_of(k)
  <2>1. ~settled
    BY <1>1, <1>3, <1>6, <1>7, <1>12
  <2>2. CASE k = r
    BY <1>2, <1>3, <1>4, <2>1, <2>2 DEF last
  <2>3. CASE k # r
    <3>1. k \in DOMAIN lines /\ k < r
      BY <1>1, <1>3, <1>6, <1>8, <1>12, <2>1, <2>3
    <3> QED BY <1>1, <3>1 DEF Scanning, r
  <2> QED BY <2>2, <2>3
<1>13. ASSUME NEW k \in Starts', k < at'
       PROVE  k \in DOMAIN lines' /\ lines'[k].emitted = read_line(k)
  <2>1. k \in scan_floor'..bottom /\ (k = scan_floor' \/ ~Row(k - 1).wraps) /\ k \in Int
    BY <1>10 DEF Starts
  <2>2. ~settled /\ scan_floor' = scan_floor
    BY <1>1, <1>3, <1>13, <2>1
  <2>3. k \in Starts
    BY <2>1, <2>2 DEF Starts
  <2>4. CASE k < r
    <3>1. k \in DOMAIN lines /\ lines[k].emitted = read_line(k)
      BY <1>1, <2>3, <2>4 DEF Scanning, IsKnown, r
    <3>2. k \in Kept(r)
      BY <1>2, <2>1, <2>4, <3>1 DEF Kept, Swallowed
    <3>3. lines'[k] = lines[k]
      BY <1>5, <2>4, <3>2 DEF Advances
    <3> QED BY <1>8, <2>2, <3>1, <3>2, <3>3
  <2>5. CASE k = r
    BY <1>8, <2>2, <2>5
  <2>6. CASE r < k
    <3>1. k - 1 \in r..bottom /\ k - 1 < last
      BY <1>1, <1>2, <1>3, <1>13, <2>1, <2>6
    <3>2. ~Row(k - 1).wraps
      BY <1>2, <2>1, <2>2, <2>6
    <3>3. last <= k - 1
      <4> DEFINE S == {j \in r..bottom : ~Row(j).wraps \/ j = bottom}
      <4>1. k - 1 \in S /\ S \subseteq r..bottom /\ r \in Int /\ bottom \in Int
        BY <1>2, <3>1, <3>2
      <4>2. last = Min(S)
        BY DEF last, last_of
      <4> HIDE DEF S
      <4> QED BY <4>1, <4>2, LeastAndGreatest
    <3> QED BY <1>3, <2>1, <3>1, <3>3
  <2> QED BY <1>2, <2>1, <2>4, <2>5, <2>6
<1>14. ASSUME NEW k \in at'..bottom, end < k
       PROVE  row_is_blank(k) /\ k \notin DOMAIN lines'
  <2>1. k \in r..bottom /\ k # r
    BY <1>1, <1>2, <1>3
  <2>2. row_is_blank(k) /\ k \notin DOMAIN lines
    BY <1>1, <1>14, <2>1 DEF Scanning, r
  <2>3. k \notin Kept(r)
    BY <1>6, <2>2
  <2> QED BY <1>7, <1>8, <2>1, <2>2, <2>3
<1>15. Scanning'
  <2>1. \A k \in DOMAIN lines' : k < at' => top' <= last_of(k)'
    BY <1>10, <1>12
  <2>2. \A k \in Starts' : k < at' => IsKnown(k)'
    BY <1>10, <1>13 DEF IsKnown
  <2>3. \A k \in at'..bottom' : end' < k => row_is_blank(k)' /\ k \notin DOMAIN lines'
    BY <1>1, <1>10, <1>14
  <2> QED BY <1>11, <2>1, <2>2, <2>3 DEF Scanning
<1>16. HasRead'
  BY <1>1 DEF HasRead
<1> QED BY <1>5, <1>9, <1>15, <1>16

\* The scan is over, and history that was emitted may be dropped.
LEMMA ReadByReclaiming ==
  ASSUME ReadInv, reclaim
  PROVE  (Floors /\ Held /\ Scanning /\ HasRead)'
<1> USE DEF ReadInv, Inv
<1>1. /\ phase = "emit" /\ phase' = "done" /\ end < at /\ Says(Silence)
      /\ lines' = lines /\ scan_floor' = scan_floor /\ screen' = screen
      /\ end \in Int /\ at \in Nat /\ scan_floor \in Nat /\ base \in Nat
      /\ DOMAIN lines \subseteq Nat
  BY DEF reclaim, extractor, ScanTyped, GridTyped, Stream, Ordered
<1>2. /\ oldest = base /\ top \in Nat /\ bottom \in Nat /\ base <= top /\ top <= bottom
      /\ base <= scan_floor
  BY Rows DEF oldest, Floors
<1>3. Held'
  <2>1. DOMAIN Silence = {}
    BY DEF Silence
  <2>2. Live' = Live
    BY <1>1 DEF Live
  <2> QED BY <1>1, <2>1, <2>2, HeldOn DEF Held
\* What was read, before anything is dropped.
<1>4. ASSUME NEW r \in Starts, at <= r PROVE read_line(r) = <<>> /\ r \notin DOMAIN lines
  <2>1. r \in base..bottom /\ r \in Nat /\ last_of(r) \in r..bottom
    BY <1>1, <1>2, LastRow DEF Starts
  <2>2. \A k \in r..bottom : row_is_blank(k) /\ k \notin DOMAIN lines
    BY <1>1, <1>2, <1>4, <2>1 DEF Scanning
  <2>3. \A k \in r..last_of(r) : row_is_blank(k)
    BY <1>2, <2>1, <2>2
  <2> QED BY <2>1, <2>2, <2>3, LineTyped
<1>5. ASSUME NEW r \in Starts
      PROVE  /\ read_line(r) = <<>> \/ r \in DOMAIN lines
             /\ r \in DOMAIN lines => lines[r].emitted = read_line(r)
  <2>1. r \in Int
    BY DEF Starts
  <2>2. r < at => IsKnown(r)
    BY <1>1 DEF Scanning
  <2> QED BY <1>1, <1>4, <2>1, <2>2 DEF IsKnown
<1>6. ASSUME NEW r \in DOMAIN lines, r <= bottom PROVE top <= last_of(r)
  <2>1. r \in Nat
    BY <1>1
  <2>2. r < at
    BY <1>1, <1>2, <1>6, <2>1 DEF Scanning
  <2> QED BY <1>1, <2>2 DEF Scanning
<1>7. CASE UNCHANGED grid
  <2>1. /\ top' = top /\ bottom' = bottom /\ oldest' = oldest
        /\ \A r : /\ Row(r)' = Row(r) /\ last_of(r)' = last_of(r)
                  /\ read_line(r)' = read_line(r)
    BY <1>7, GridStays
  <2>2. Starts' = Starts
    BY <1>1, <2>1 DEF Starts
  <2>3. HasRead'
    <3>1. \A r \in Starts' : read_line(r)' = <<>> \/ r \in DOMAIN lines'
      BY <1>1, <1>5, <2>1, <2>2
    <3>2. \A r \in DOMAIN lines' \cap Starts' : lines'[r].emitted = read_line(r)'
      BY <1>1, <1>5, <2>1, <2>2
    <3>3. \A r \in DOMAIN lines' : r \in oldest'..bottom' => top' <= last_of(r)'
      BY <1>1, <1>2, <1>6, <2>1
    <3> QED BY <3>1, <3>2, <3>3 DEF HasRead
  <2>4. Floors'
    BY <1>1, <1>7 DEF Floors, grid
  <2> QED BY <1>1, <1>3, <2>3, <2>4 DEF Scanning
<1>8. CASE history' = <<>> /\ base' = top /\ top <= scan_floor
  <2>1. /\ top' = top /\ bottom' = bottom /\ oldest' = top
        /\ \A r \in top..bottom : /\ Row(r)' = Row(r) /\ last_of(r)' = last_of(r)
                                  /\ read_line(r)' = read_line(r)
    BY <1>1, <1>8, ScreenStays
  <2>2. ASSUME NEW r \in Starts' PROVE r \in Starts /\ r \in top..bottom
    <3>1. r \in scan_floor..bottom /\ (r = scan_floor \/ ~(Row(r - 1)').wraps)
      BY <1>1, <2>1 DEF Starts
    <3>2. r # scan_floor => r - 1 \in top..bottom
      BY <1>1, <1>2, <1>8, <3>1
    <3>3. r = scan_floor \/ ~Row(r - 1).wraps
      BY <2>1, <3>1, <3>2
    <3> QED BY <1>1, <1>2, <1>8, <3>1, <3>3 DEF Starts
  <2>3. HasRead'
    <3>1. \A r \in Starts' : read_line(r)' = <<>> \/ r \in DOMAIN lines'
      BY <1>1, <1>5, <2>1, <2>2
    <3>2. \A r \in DOMAIN lines' \cap Starts' : lines'[r].emitted = read_line(r)'
      BY <1>1, <1>5, <2>1, <2>2
    <3>3. \A r \in DOMAIN lines' : r \in oldest'..bottom' => top' <= last_of(r)'
      BY <1>1, <1>2, <1>6, <2>1
    <3> QED BY <3>1, <3>2, <3>3 DEF HasRead
  <2>4. Floors'
    BY <1>1, <1>8 DEF Floors
  <2> QED BY <1>1, <1>3, <2>3, <2>4 DEF Scanning
<1>9. UNCHANGED grid \/ (history' = <<>> /\ base' = top /\ top <= scan_floor)
  BY <1>1, <1>2 DEF reclaim, grid, top
<1> QED BY <1>7, <1>8, <1>9

LEMMA ReadByNext == ASSUME ReadInv, [Next]_vars PROVE ReadInv'
<1>1. Inv'
  BY InvByNext DEF ReadInv
<1>2. (Floors /\ Held /\ Scanning /\ HasRead)'
  <2>1. CASE \E r \in 1..Height, text \in Texts : Write(r, text) \/ WriteLong(r, text)
    BY <2>1, ReadByWriting DEF Write, WriteLong
  <2>2. CASE LineFeed \/ EraseHistory
    BY <2>2, ReadByWriting DEF LineFeed, EraseHistory
  <2>3. CASE \E why \in Signals : extract(why)
    BY <2>3, ReadByExtracting
  <2>4. CASE emit_line
    BY <2>4, ReadByEmitting
  <2>5. CASE reclaim
    BY <2>5, ReadByReclaiming
  <2>6. CASE place
    BY <2>6, ReadByPlacing
  <2>7. CASE UNCHANGED vars
    <3>1. UNCHANGED <<grid, extractor, phase, at, end, reader>>
      BY <2>7 DEF vars
    <3>2. /\ top' = top /\ bottom' = bottom /\ oldest' = oldest
          /\ \A r : /\ Row(r)' = Row(r) /\ last_of(r)' = last_of(r)
                    /\ read_line(r)' = read_line(r) /\ row_is_blank(r)' = row_is_blank(r)
      BY <3>1, GridStays
    <3>3. lines' = lines /\ scan_floor' = scan_floor /\ shown' = shown /\ base' = base
      BY <3>1 DEF extractor, reader, grid
    <3>4. Floors' /\ Held'
      BY <3>3 DEF ReadInv, Floors, Held, IsHeld, Live
    <3>5. Starts' = Starts
      BY <3>2, <3>3 DEF Starts
    <3>6. Scanning'
      BY <3>1, <3>2, <3>3, <3>5 DEF ReadInv, Scanning, IsKnown
    <3>7. HasRead'
      BY <3>1, <3>2, <3>3, <3>5 DEF ReadInv, HasRead
    <3> QED BY <3>4, <3>6, <3>7
  <2> QED BY <2>1, <2>2, <2>3, <2>4, <2>5, <2>6, <2>7 DEF Next
<1> QED BY <1>1, <1>2 DEF ReadInv

LEMMA ReadInvHolds == Spec => []ReadInv
<1>1. Init => ReadInv
  <2> SUFFICES ASSUME Init PROVE ReadInv
    OBVIOUS
  <2>1. Inv
    BY GridAtFirst, StreamAtFirst DEF Inv
  <2>2. DOMAIN lines = {} /\ Live = {} /\ base = 0 /\ scan_floor = 0 /\ phase = "write"
    BY DEF Init, Live
  <2> QED BY <2>1, <2>2 DEF ReadInv, Floors, Held, Scanning, HasRead
<1>2. ReadInv /\ [Next]_vars => ReadInv'
  BY ReadByNext
<1> QED BY <1>1, <1>2, PTL DEF Spec

\* Between two reads the screen is known: on a screen of any height over any
\* history, whatever a program writes or erases, every line from the floor down
\* that is not blank is known by what the screen shows of it, and a reader of
\* the items holds that text for every line that can still change
\* (Extractor::extract).
THEOREM TheScreenIsRead == Spec => []ScreenIsRead
<1>1. ReadInv => ScreenIsRead
  BY DEF ReadInv, HasRead, Held, IsHeld, ScreenIsRead
<1> QED BY <1>1, ReadInvHolds, PTL

\* Between two reads a line that can still change is on the screen, if it can be
\* read at all: one that has left it has settled (Extractor::emit_line).
THEOREM WhatHasLeftIsSettled == Spec => []LiveLinesAreOnTheScreen
<1>1. ReadInv => LiveLinesAreOnTheScreen
  <2> SUFFICES ASSUME ReadInv, phase = "done", NEW r \in Live, r \in oldest..bottom
               PROVE  last_of(r) >= top
    BY DEF LiveLinesAreOnTheScreen
  <2>1. r \in Nat /\ top \in Nat /\ last_of(r) \in r..bottom
    BY Rows, LastRow, LinesApart DEF ReadInv, Inv
  <2>2. r \in DOMAIN lines
    BY DEF Live
  <2> QED BY <2>1, <2>2 DEF ReadInv, HasRead
<1> QED BY <1>1, ReadInvHolds, PTL
=============================================================================
