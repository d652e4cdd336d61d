------------------------------ MODULE Streams ------------------------------
(***************************************************************************)
(* Small compressed streams, in the form module Zstd gives them, for the   *)
(* models of the two read paths.                                           *)
(***************************************************************************)
EXTENDS Naturals, FiniteSetsExt

\* A stream of n bytes; made[k] bytes of output appear with input byte k.
Stream(n, made, ends, bad) ==
    [len  |-> n,
     cum  |-> [k \in 0..n |->
                  MapThenSumSet(LAMBDA j : made[j], {j \in DOMAIN made : j <= k})],
     ends |-> ends,
     hdr  |-> ends \cup {0},
     bad  |-> bad]

\* Output at byte k, and at byte k after what f makes.
At(k, n) == [j \in {k} |-> n]
Also(f, k, n) == [j \in DOMAIN f \cup {k} |-> IF j = k THEN n ELSE f[j]]

\* One frame whose last byte releases 5 bytes, in the third window of 4.
OneFrame == Stream(11, Also(At(3, 2), 11, 5), {11}, 12)

\* Data up to a window edge, an empty frame, a skippable frame, more data.
Frames == Stream(11, Also(Also(At(2, 1), 4, 3), 10, 4), {4, 5, 8, 10, 11}, 12)

\* Two whole windows, the last byte of the file being the last of a frame.
Even == Stream(8, Also(At(4, 3), 8, 3), {4, 8}, 9)

\* No output at all, and no byte at all.
Nothing == Stream(6, At(1, 0), {3, 6}, 7)
Void == Stream(0, At(1, 0), {}, 1)

\* Cut off inside its second frame, or inside that frame's header; a byte
\* after the last frame; a bad byte.
CutOff == Stream(9, Also(At(3, 2), 7, 3), {4}, 10)
CutInHeader == [Stream(6, At(3, 2), {4}, 7) EXCEPT !.hdr = {0, 4, 5, 6}]
Trailing == Stream(10, Also(At(3, 2), 9, 2), {9}, 10)
Flipped == Stream(9, Also(At(3, 2), 9, 4), {9}, 6)

Whole == {OneFrame, Frames, Even, Nothing, Void}
Broken == {CutOff, CutInHeader, Trailing, Flipped}

\* Every stream of at most n bytes of which each makes up to m bytes of
\* output, with every choice of frame ends and of the byte that is bad.
EveryStream(n, m) ==
    UNION {{Stream(k, made, ends, bad) :
                made \in [1..k -> 0..m], ends \in SUBSET (1..k), bad \in 1..(k + 1)}
           : k \in 0..n}

=============================================================================
