---------------------------- MODULE MCDirectRead ----------------------------
(***************************************************************************)
(* Instances of DirectRead.  The trailing window is 4 bytes and a page 2   *)
(* (4 on a machine with larger pages), on files of up to 11 bytes.         *)
(***************************************************************************)
EXTENDS DirectRead, Streams

\* Streams that are truncated, and every short one in which each frame but
\* the last has content.
MCShrinking == Whole \cup Broken
MCFiles == MCShrinking \cup {f \in EveryStream(4, 2) : NoDryFrame(f)}
MCCutOff == {CutOff}
MCDry == {Frames}

MCBufLens == {0, 1, 2, 3, 9}
TruncBufLens == {1, 3}
Unshared == {}

=============================================================================
