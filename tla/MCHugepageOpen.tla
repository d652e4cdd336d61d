-------------------------- MODULE MCHugepageOpen --------------------------
(***************************************************************************)
(* Instances of HugepageOpen.  A huge page is 2 bytes and usize has 4      *)
(* bits, so that the lengths 15 and 14 are at the edge where the rounding  *)
(* wraps; two processes share a pool of 3 pages.                           *)
(***************************************************************************)
EXTENDS HugepageOpen

CONSTANTS p1, p2

AllFaults == Fault

Alone == {p1}
Both == {p1, p2}

=============================================================================
