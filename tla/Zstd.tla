-------------------------------- MODULE Zstd --------------------------------
(***************************************************************************)
(* What the decoder relies on from libzstd.  `run_on_buffers(input, buf)`  *)
(* is one call of ZSTD_decompressStream, which is not part of the          *)
(* repository: this module is its contract, as the read paths of           *)
(* src/decoder.rs use it.                                                  *)
(*                                                                         *)
(* A compressed stream is abstracted to the shape those paths can tell     *)
(* apart: how many output bytes are known after each input byte, where     *)
(* frames end, and which byte (if any) makes the decoder fail.             *)
(***************************************************************************)
EXTENDS Naturals

(***************************************************************************)
(* len   compressed bytes                                                  *)
(* cum   cum[k]: decompressed bytes determined by the first k input bytes  *)
(* ends  the byte counts at which a frame (data, empty or skippable) ends  *)
(* hdr   the byte counts after which only part of a frame header, or none  *)
(*       of it, has been seen                                              *)
(* bad   number of the first byte that does not decode: damage, or bytes   *)
(*       after the last frame that start no frame; len + 1 when none       *)
(***************************************************************************)
IsStream(f) ==
    /\ f.len \in Nat
    /\ f.cum \in [0..f.len -> Nat]
    /\ f.cum[0] = 0
    /\ \A i, j \in 0..f.len : i <= j => f.cum[i] <= f.cum[j]
    /\ f.ends \subseteq 1..f.len
    /\ f.hdr \subseteq 0..f.len
    /\ f.ends \cup {0} \subseteq f.hdr
    /\ f.bad \in 1..(f.len + 1)

\* Every byte decodes and the last frame is whole (or there is no frame).
Complete(f) == f.bad = f.len + 1 /\ f.len \in f.ends \cup {0}

\* Whole frames, and then bytes that start no frame.
AfterFrames(f) == f.bad <= f.len /\ f.bad - 1 \in f.ends

Total(f) == f.cum[f.len]

(***************************************************************************)
(* The decoder has taken in `pos` bytes and handed out `out` bytes.  While *)
(* the output of a finished frame is not all handed out, ZSTD_decompress-  *)
(* Stream keeps the frame's last byte unreported, so that its caller has   *)
(* something left to call it with.                                         *)
(***************************************************************************)
Held(f, pos, out) == IF pos \in f.ends /\ out < f.cum[pos] THEN 1 ELSE 0

Reported(f, pos, out) == pos - Held(f, pos, out)

(***************************************************************************)
(* One call with room for `cap` bytes and input up to file offset `lim`    *)
(* takes bytes in until the output has no room for what they produce, a    *)
(* frame ends, or the input ends.                                          *)
(***************************************************************************)
MustStop(f, pos, out, cap, lim, q) ==
    \/ q = lim
    \/ f.cum[q] > out + cap
    \/ q \in f.ends /\ (q > pos \/ Held(f, pos, out) = 1)

StopPoints(f, pos, out, cap, lim) ==
    {q \in pos..lim :
        /\ MustStop(f, pos, out, cap, lim, q)
        /\ \A x \in pos..lim : x < q => ~MustStop(f, pos, out, cap, lim, x)}

\* Output handed out once the call stopped at q.
Flushed(f, out, cap, q) ==
    IF f.cum[q] <= out + cap THEN f.cum[q] ELSE out + cap

\* The call neither takes in nor hands out anything.  libzstd counts such
\* calls, unless it is waiting for a frame header, and fails at the 16th.
Stalled(f, pos, out, q, flushed) == q = pos /\ flushed = out /\ pos \notin f.hdr

\* The call takes in the byte that does not decode.
Damaged(f, pos, q) == pos < f.bad /\ f.bad <= q

=============================================================================
