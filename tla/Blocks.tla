------------------------------- MODULE Blocks -------------------------------
(***************************************************************************)
(* What the pump relies on the boundary tracker for: command blocks that   *)
(* open and close by turns, never one inside another, and news of shell    *)
(* integration that comes once and before the first block.                 *)
(***************************************************************************)
EXTENDS Naturals

VARIABLES announced,    \* whether integration has been reported
          starts,       \* how many blocks were started
          ends          \* and ended

blocks == <<announced, starts, ends>>

InBlock == starts = ends + 1

Init == announced = FALSE /\ starts = 0 /\ ends = 0

\* One item of the terminal may say any of these: that the shell integrates,
Announce == ~announced /\ announced' = TRUE /\ UNCHANGED <<starts, ends>>

\* that a block starts, with the announcement if it is the first news of it,
Start == ~InBlock /\ announced' = TRUE /\ starts' = starts + 1 /\ ends' = ends

\* that it ends,
End == InBlock /\ ends' = ends + 1 /\ UNCHANGED <<announced, starts>>

\* or that a block started and ended with nothing in it.
Empty == /\ ~InBlock /\ announced
         /\ starts' = starts + 1 /\ ends' = ends + 1
         /\ UNCHANGED announced

Next == Announce \/ Start \/ End \/ Empty

Spec == Init /\ [][Next]_blocks
=============================================================================
