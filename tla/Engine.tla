------------------------------- MODULE Engine -------------------------------
(***************************************************************************)
(* The terminal engine (acter-term): the emulator's grid, in which a       *)
(* program writes wherever it likes, and the extractor, which reads the    *)
(* grid after each segment of a read and says what became of each line.    *)
(* A segment ends where the sniffer sees a marker or a screen change, or   *)
(* where the read ends.                                                    *)
(*                                                                         *)
(* Rows are numbered from the oldest row of the history down, and the      *)
(* numbers survive the scrolling: base counts the rows that were evicted.  *)
(* A text is a sequence of characters without trailing blanks; colours,    *)
(* wide characters and device queries are left out, and nothing in the     *)
(* program resizes the terminal.                                           *)
(***************************************************************************)
EXTENDS Integers, SequencesExt

CONSTANTS Texts,        \* what a program writes on a row
          Full,         \* a text as wide as the row
          Height,       \* the rows of the screen
          StagingRows,  \* the rows of history the emulator keeps
          Erases,       \* whether a program may erase the history at any time
          MaxWrites     \* bound on what the program writes, and on the segments

ASSUME EngineAssumption ==
    /\ Height \in Nat \ {0} /\ StagingRows \in Nat \ {0} /\ MaxWrites \in Nat
    /\ Erases \in BOOLEAN

ASSUME TextsAssumption == \A text \in Texts \cup {Full} : text \in Seq(Range(text))

Settling == {"CommandEnd"}
Switches == {"Alternate", "Normal"}
Signals  == {"ReadEnd"} \cup Settling \cup Switches

VARIABLES
    base, history, screen, cursor,     \* the active grid; the cursor's line is on the screen
    alternate, main,                   \* the alternate screen, and the grid it stands for
    next_id, scan_floor, lines,        \* the extractor
    phase, signal, at, end,            \* where the engine stands in a read
    items, shown, final,               \* what it says, and what a reader makes of it
    writes                             \* history: what the program has done

grid      == <<base, history, screen, cursor, alternate, main>>
extractor == <<next_id, scan_floor, lines>>
reader    == <<items, shown, final>>
vars      == <<grid, extractor, phase, signal, at, end, reader, writes>>

\* Every step of the extractor says what it has to say, and moves one of these.
Turn == <<phase, at>>

L == INSTANCE LineStream WITH turn <- Turn

\* x :> v and f @@ g, written out.
One(x, v)  == [y \in {x} |-> v]
Over(f, g) == [x \in DOMAIN f \cup DOMAIN g |-> IF x \in DOMAIN f THEN f[x] ELSE g[x]]

-----------------------------------------------------------------------------
(* The view: absolute rows run from oldest to bottom.                      *)

BlankRow == [text |-> <<>>, wraps |-> FALSE]
Blank    == [i \in 1..Height |-> BlankRow]

oldest == base
top    == base + Len(history)
bottom == top + Height - 1
here   == top + cursor

Row(r)          == (history \o screen)[r - base + 1]
row_is_blank(r) == Row(r).text = <<>>
saturated       == ~alternate /\ Len(history) >= StagingRows

\* The row on which the line that starts here ends, and its text.
last_of(r)   == Min({k \in r..bottom : ~Row(k).wraps \/ k = bottom})
read_line(r) == FlattenSeq([i \in 1..(last_of(r) - r + 1) |-> Row(r + i - 1).text])

-----------------------------------------------------------------------------
(* The program writes.  None of this is seen before the segment ends.      *)

Writing ==
    /\ phase = "write" /\ writes < MaxWrites
    /\ writes' = writes + 1
    /\ UNCHANGED <<base, alternate, main, extractor, phase, signal, at, end, reader>>

\* A row is erased and written, wherever it is on the screen.
Write(r, text) ==
    /\ Writing
    /\ screen' = [screen EXCEPT ![r] = [text |-> text, wraps |-> FALSE]]
    /\ cursor' = r - 1
    /\ UNCHANGED history

\* A text wider than the row goes on in the next.
WriteLong(r, text) ==
    /\ Writing
    /\ r < Height /\ text # <<>>
    /\ screen' = [screen EXCEPT ![r]     = [text |-> Full, wraps |-> TRUE],
                                ![r + 1] = [text |-> text, wraps |-> FALSE]]
    /\ cursor' = r
    /\ UNCHANGED history

Scrolled(rows) ==
    IF alternate THEN history
    ELSE IF Len(history) = StagingRows THEN Tail(history) \o rows ELSE history \o rows

LineFeed ==
    /\ Writing
    /\ IF cursor < Height - 1
       THEN cursor' = cursor + 1 /\ UNCHANGED <<screen, history>>
       ELSE /\ history' = Scrolled(<<screen[1]>>)
            /\ screen' = Tail(screen) \o <<BlankRow>>
            /\ UNCHANGED cursor

\* The history can be erased by the program too.  Unless Erases, only when all
\* the rows that are known can still be read afterwards.
EraseHistory ==
    /\ Writing
    /\ history # <<>>
    /\ Erases \/ \A r \in DOMAIN lines : r < base + Height
    /\ history' = <<>>
    /\ UNCHANGED <<screen, cursor>>

-----------------------------------------------------------------------------
(* The extractor.                                                          *)

NoId == -1

Live     == {r \in DOMAIN lines : lines[r].id # NoId}
LiveIds  == {lines[r].id : r \in Live}
Tracked(id, text) == [id |-> id, emitted |-> text]

Item(text, revision) == [text |-> text, revision |-> revision]
Silence == <<>>

\* Items of lines told apart by their identities.
Says(said) == items' = said /\ L!Read(said)

SettledAs(rows, text) ==
    [id \in {lines[r].id : r \in rows} |->
        Item(text[CHOOSE r \in rows : lines[r].id = id], "Settled")]

revise(id, was, now) ==
    IF was = now THEN Silence
    ELSE IF IsPrefix(was, now)
    THEN One(id, Item(SubSeq(now, Len(was) + 1, Len(now)), "Appended"))
    ELSE One(id, Item(now, "Rewritten"))

\* What is said of a line that can change: all of it, once it is final.
Told(id, was, text, settled) ==
    IF settled THEN One(id, Item(text, "Settled")) ELSE revise(id, was, text)

\* What was shown last, when the rows may have been evicted unread.
settle_from_record ==
    Says(Over(One(next_id, Item(<<"gap">>, "Settled")),
              SettledAs(Live, [r \in Live |-> lines[r].emitted])))

From(floor)   == Max({oldest, Min({floor, here})})
\* Fault: a line that has been erased is not looked at again.
Written(floor, known) == {r \in floor..bottom : ~row_is_blank(r)}

Scanned(floor, known) == {r \in floor..bottom : r \in known \/ ~row_is_blank(r)}

Begin(floor, known) ==
    /\ scan_floor' = floor /\ at' = floor
    /\ end' = Max(Scanned(floor, known) \cup {floor - 1})

\* A segment ends: the rows to scan run from the floor to the last written.
extract(why) ==
    /\ phase = "write" /\ writes < MaxWrites
    /\ writes' = writes + 1
    /\ phase' = "emit" /\ signal' = why
    /\ IF saturated
       THEN /\ settle_from_record
            /\ next_id' = next_id + 1
            /\ lines' = <<>>
            /\ Begin(From(oldest), {})
       ELSE /\ Says(Silence)
            /\ Begin(From(scan_floor), DOMAIN lines)
            /\ UNCHANGED <<next_id, lines>>
    /\ UNCHANGED grid

-----------------------------------------------------------------------------
(* One line of the scan.  The rows it swallows as continuations settle     *)
(* empty.                                                                  *)

Swallowed(r) == {k \in DOMAIN lines : r < k /\ k <= last_of(r)}
Absorbed(r)  == SettledAs(Swallowed(r) \cap Live, [k \in Swallowed(r) |-> <<>>])
Kept(r)      == DOMAIN lines \ (Swallowed(r) \cup {r})
Rest(r)      == Restrict(lines, Kept(r))

\* Fault: a new line takes its place after those below it.
Nowhere(r) == {}

\* The lines that will be pushed down by one that starts here.
Below(r)   == {k \in Live : last_of(r) < k}
Following(rows, k) == Min({b \in rows : k < b})

\* A line in the grid says something new under its own identity.
Revised(r, settled) ==
    LET text == read_line(r)
        id   == lines[r].id
    IN  /\ Says(Over(Told(id, lines[r].emitted, text, settled), Absorbed(r)))
        /\ lines' = IF settled THEN Rest(r) ELSE Over(One(r, Tracked(id, text)), Rest(r))
        /\ UNCHANGED next_id

\* It settled before and has not changed since.
Unchanged(r, settled) ==
    /\ Says(Absorbed(r))
    /\ lines' = IF settled THEN Rest(r) ELSE Over(One(r, lines[r]), Rest(r))
    /\ UNCHANGED next_id

\* A new line with none below it is minted.
Minted(r, settled) ==
    LET text == read_line(r)
    IN  /\ Says(Over(One(next_id, Item(text, IF settled THEN "Settled" ELSE "Appended")),
                     Absorbed(r)))
        /\ lines' = IF settled THEN Rest(r) ELSE Over(One(r, Tracked(next_id, text)), Rest(r))
        /\ next_id' = next_id + 1

\* A reader places each identity where it first appeared, so a new line above
\* live ones takes the first one's and every identity moves one line down.
Shifted(rows) ==
    [k \in rows |-> IF k = Max(rows) THEN Tracked(next_id, <<>>)
                    ELSE lines[Following(rows, k)]]

take_place_below(r, settled) ==
    LET text  == read_line(r)
        taken == lines[Min(Below(r))]
    IN  /\ Says(Over(Told(taken.id, taken.emitted, text, settled),
                     Over(One(next_id, Item(<<>>, "Appended")), Absorbed(r))))
        /\ lines' = Over(IF settled THEN <<>> ELSE One(r, Tracked(taken.id, text)),
                         Over(Shifted(Below(r)), Rest(r)))
        /\ next_id' = next_id + 1

\* Fault: the top of the history is taken for the top of the screen.
has_gone(r) == last_of(r) < oldest

\* A line is final once all of it has left the screen.
has_left(r) == last_of(r) < top

emit_line ==
    /\ phase = "emit" /\ at <= end
    /\ LET settled == has_left(at)
       IN  /\ \/ at \in Live /\ Revised(at, settled)
              \/ /\ at \in DOMAIN lines \ Live /\ lines[at].emitted = read_line(at)
                 /\ Unchanged(at, settled)
              \/ /\ at \in DOMAIN lines \ Live => lines[at].emitted # read_line(at)
                 /\ at \notin Live
                 /\ IF Below(at) = {} THEN Minted(at, settled)
                                      ELSE take_place_below(at, settled)
           /\ scan_floor' = IF settled THEN last_of(at) + 1 ELSE scan_floor
           /\ at' = last_of(at) + 1
    /\ UNCHANGED <<grid, phase, signal, end, writes>>

\* History that was emitted is dropped from the emulator and counted in base.
reclaim ==
    /\ phase = "emit" /\ at > end
    /\ phase' = "done"
    /\ Says(Silence)
    /\ IF history = <<>> \/ scan_floor < top
       THEN UNCHANGED <<history, base>>
       ELSE history' = <<>> /\ base' = base + Len(history)
    /\ UNCHANGED <<screen, cursor, alternate, main, extractor, signal, at, end, writes>>

-----------------------------------------------------------------------------
(* What ended the segment takes its place in the stream.                   *)

\* Fault: the lines of a block that ends stay open under their identities.
settle_blockOnly ==
    /\ Says(SettledAs(Live, [r \in Live |-> read_line(r)]))
    /\ UNCHANGED lines

\* The end of a block settles its lines, and their rows are remembered.
settle_block ==
    /\ Says(SettledAs(Live, [r \in Live |-> read_line(r)]))
    /\ lines' = [r \in DOMAIN lines |->
                    IF r \in Live THEN Tracked(NoId, read_line(r)) ELSE lines[r]]

settle_and_forget ==
    /\ Says(SettledAs(Live, [r \in Live |-> read_line(r)]))
    /\ lines' = <<>>

\* The alternate screen arrives blank and is painted from its top.
Switch(to) ==
    IF to = "Alternate"
    THEN /\ IF alternate THEN UNCHANGED <<history, screen, main>>
            ELSE /\ main' = [history |-> history, screen |-> screen, cursor |-> cursor]
                 /\ history' = <<>> /\ screen' = Blank
         /\ alternate' = TRUE
         /\ scan_floor' = base + Len(history')
         /\ UNCHANGED cursor
    ELSE /\ IF ~alternate THEN UNCHANGED <<history, screen, cursor>>
            ELSE history' = main.history /\ screen' = main.screen /\ cursor' = main.cursor
         /\ alternate' = FALSE
         /\ scan_floor' = base + Len(history') + cursor'
         /\ UNCHANGED main

place ==
    /\ phase = "done"
    /\ phase' = "write"
    /\ \/ /\ signal = "ReadEnd"
          /\ Says(Silence)
          /\ UNCHANGED <<grid, extractor>>
       \/ /\ signal \in Settling
          /\ settle_block
          /\ UNCHANGED <<grid, next_id, scan_floor>>
       \/ /\ signal \in Switches
          /\ settle_and_forget
          /\ Switch(signal)
          /\ UNCHANGED <<base, next_id>>
    /\ UNCHANGED <<signal, at, end, writes>>

-----------------------------------------------------------------------------
Init ==
    /\ base = 0 /\ history = <<>> /\ screen = Blank /\ cursor = 0
    /\ alternate = FALSE
    /\ main = [history |-> <<>>, screen |-> Blank, cursor |-> 0]
    /\ next_id = 0 /\ scan_floor = 0 /\ lines = <<>>
    /\ phase = "write" /\ signal = "ReadEnd" /\ at = 0 /\ end = 0
    /\ items = Silence /\ shown = <<>> /\ final = {}
    /\ writes = 0

Next ==
    \/ \E r \in 1..Height, text \in Texts : Write(r, text) \/ WriteLong(r, text)
    \/ LineFeed
    \/ EraseHistory
    \/ \E why \in Signals : extract(why)
    \/ emit_line
    \/ reclaim
    \/ place

Spec == Init /\ [][Next]_vars

-----------------------------------------------------------------------------
(* Properties.                                                             *)

\* The stream of items is the one the rest of the program relies on: a line
\* that has settled is never heard of again, wherever its row goes: it does not
\* settle twice, even with the same text, and nothing is appended to it.
PromisedLines == L!Spec

\* "A reader places each id where it first appeared": the lines that can still
\* change are in the order of their identities, so reading them in the order
\* they first appeared reads the screen from the top.
LinesAreInScreenOrder ==
    \A r, k \in Live : r < k => lines[r].id < lines[k].id

\* After a segment every line from the floor down is known, and the reader
\* holds the text the screen shows of it.
Starts == {r \in scan_floor..bottom : r = scan_floor \/ ~Row(r - 1).wraps}
ScreenIsRead ==
    phase = "done" =>
        /\ \A r \in Starts : read_line(r) = <<>> \/ r \in DOMAIN lines
        /\ \A r \in DOMAIN lines \cap Starts : lines[r].emitted = read_line(r)
        /\ \A r \in Live : shown[lines[r].id] = lines[r].emitted

\* "Rows are keyed by an absolute number that survives scrolling and eviction"
\* (alacritty_engine/extractor.rs): the row of a line that can still change is
\* one that can be read, as settling it does.
RowsCanBeRead == phase = "done" => \A r \in Live : r \in oldest..bottom

\* Only a line that is still on the screen can change: one that has left it
\* has settled.
LiveLinesAreOnTheScreen ==
    phase = "done" => \A r \in Live : r \in oldest..bottom => last_of(r) >= top
=============================================================================
