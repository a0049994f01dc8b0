--------------------------- MODULE ResultsBuffer ---------------------------
(***************************************************************************)
(* The rows one command's output makes in the results buffer               *)
(* (ui/src/adapters/buffer.ts): a row is placed below the others when its  *)
(* line is first heard of, and stays there.                                *)
(***************************************************************************)
EXTENDS Sequences, SequencesExt

\* The elements of a sequence that are in a set, in their order.
Only(s, S) ==
    FoldLeft(LAMBDA kept, e : IF e \in S THEN Append(kept, e) ELSE kept, <<>>, s)

\* A row of the wire: the line it is on, how it revises it, and its text.
NoRows == [order |-> <<>>, text |-> <<>>]

\* BufferDom.applyLine.
applyLine(buffer, row) ==
    IF ~Contains(buffer.order, row.line)
    THEN [order |-> Append(buffer.order, row.line),
          text  |-> Append(buffer.text, row.text)]
    ELSE LET at == CHOOSE i \in DOMAIN buffer.order : buffer.order[i] = row.line
         IN  [buffer EXCEPT !.text[at] = IF row.revision = "Appended"
                                         THEN @ \o row.text ELSE row.text]

\* What a listener finds after these rows, in this order.
Buffered(rows) == FoldLeft(applyLine, NoRows, rows)

\* The text of a line; the empty text when it has no row.
TextOf(buffer, line) ==
    IF Contains(buffer.order, line)
    THEN buffer.text[CHOOSE i \in DOMAIN buffer.order : buffer.order[i] = line]
    ELSE <<>>
=============================================================================
