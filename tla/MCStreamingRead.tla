-------------------------- MODULE MCStreamingRead --------------------------
(***************************************************************************)
(* Instances of StreamingRead.  A window is 4 bytes and a page 2 (or 4, on *)
(* the machine whose pages are larger than 4096), so that files of 9 to 11 *)
(* bytes need three windows, end inside a window and inside a page, and    *)
(* have frames that begin, end or hold their last byte at a window edge.   *)
(***************************************************************************)
EXTENDS StreamingRead, Streams

MCFiles == Whole \cup Broken
MCEvery == EveryStream(4, 2)
MCCut == {CutOff}
MCTrailing == {Trailing}

MCBufLens == {0, 1, 2, 3, 9}
TruncBufLens == {1, 3}
EveryBufLens == {0, 1, 3}

=============================================================================
