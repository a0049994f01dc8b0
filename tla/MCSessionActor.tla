--------------------------- MODULE MCSessionActor ---------------------------
(***************************************************************************)
(* Small sessions for TLC: the repertoire of the pump, by what it is about. *)
(***************************************************************************)
EXTENDS SessionActor

Shape(line, revision, some, spoken) ==
    [line |-> line, revision |-> revision, some |-> some, spoken |-> spoken]

\* Speech: text on two lines, and chunks without text.
SpokenChunks == {Shape(1, "Appended", TRUE, TRUE), Shape(1, "Appended", FALSE, TRUE),
                 Shape(2, "Appended", TRUE, TRUE)}

\* One line only, for long runs of output.
OneLineChunks == {Shape(1, "Appended", TRUE, TRUE), Shape(1, "Appended", FALSE, TRUE)}

\* Rendering: text appended, a row rewritten, a row settled, on two lines.
RevisedChunks == {Shape(l, r, TRUE, r # "Rewritten") : l \in {1, 2}, r \in Revision}

\* And rows erased, rows announced empty, the listener's own command line, and
\* a row the pump held back and saw rewritten meanwhile, which is spoken.
HeldChunks == RevisedChunks \cup
    {Shape(1, "Rewritten", FALSE, FALSE), Shape(1, "Appended", FALSE, TRUE),
     Shape(1, "Appended", TRUE, FALSE), Shape(1, "Rewritten", TRUE, TRUE)}
=============================================================================
