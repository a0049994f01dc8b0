-------------------------- MODULE MCBoundaryTracker --------------------------
(***************************************************************************)
(* A tracker of three rows: markers in any order, a program's forgeries    *)
(* included.                                                               *)
(***************************************************************************)
EXTENDS BoundaryTracker

ThreeRows == 1..3
Forged    == Osc133Markers
=============================================================================
