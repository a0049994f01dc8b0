----------------------------- MODULE LineStream -----------------------------
(***************************************************************************)
(* What the terminal engine promises of its lines (LineId and LineRevision *)
(* in entities/terminal_item.rs): identities are minted one after the      *)
(* other and never reused, a line is appended or settled before it is      *)
(* rewritten, and once it has settled nothing more is said of it.          *)
(*                                                                         *)
(* items is what was last said, at most one item of each line; shown is    *)
(* the text a reader holds of each line, and final the lines settled.      *)
(* turn changes each time something is said: what is said again in the     *)
(* same words, or changes no text, is a step and must be promised too.     *)
(***************************************************************************)
EXTENDS Integers, Sequences

VARIABLES items, turn, shown, final

Revisions == {"Appended", "Rewritten", "Settled"}

\* What a reader holds of a line once it has heard of it.
Applied(heard, said, id) ==
    IF id \notin DOMAIN said THEN heard[id]
    ELSE IF said[id].revision = "Appended" /\ id \in DOMAIN heard
    THEN heard[id] \o said[id].text
    ELSE said[id].text

\* The reader's side, whatever is said.
Read(said) ==
    /\ shown' = [id \in DOMAIN shown \cup DOMAIN said |-> Applied(shown, said, id)]
    /\ final' = final \cup {id \in DOMAIN said : said[id].revision = "Settled"}

Promised(said) ==
    /\ DOMAIN said \cap final = {}
    /\ \A id \in DOMAIN said : said[id].revision = "Rewritten" => id \in DOMAIN shown
    /\ \A id \in DOMAIN said \ DOMAIN shown :
          id \in Nat /\ 0..(id - 1) \subseteq DOMAIN shown \cup DOMAIN said

Init == shown = <<>> /\ final = {}

Next == turn' # turn /\ Promised(items') /\ Read(items')

Spec == Init /\ [][Next]_<<turn, shown, final>>
=============================================================================
