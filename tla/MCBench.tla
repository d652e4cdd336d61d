------------------------------ MODULE MCBench ------------------------------
(***************************************************************************)
(* An instance of Bench: one other process, a pool of 3 pages of 2 bytes,  *)
(* files that need two of them, or four.                                   *)
(***************************************************************************)
EXTENDS Bench

CONSTANTS p1, p2

Both == {p1, p2}

=============================================================================
