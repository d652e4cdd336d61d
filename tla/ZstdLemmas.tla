----------------------------- MODULE ZstdLemmas -----------------------------
(***************************************************************************)
(* What follows from the contract of zstd for any stream, buffer and       *)
(* input, as the proofs about both read paths use it.                      *)
(***************************************************************************)
EXTENDS Integers, Zstd, TLAPS

\* What the call of zstd can do to its two counters.
LEMMA ZstdStep ==
    ASSUME NEW f, IsStream(f),
           NEW pos \in 0..f.len, NEW out \in 0..Total(f), out <= f.cum[pos],
           NEW cap \in Nat, NEW lim \in 0..f.len,
           NEW q \in StopPoints(f, pos, out, cap, lim)
    PROVE  /\ q \in pos..lim
           /\ Flushed(f, out, cap, q) \in out..Total(f)
           /\ Flushed(f, out, cap, q) <= f.cum[q]
           /\ Flushed(f, out, cap, q) <= out + cap
           /\ Reported(f, q, Flushed(f, out, cap, q)) \in Reported(f, pos, out)..lim
<1>1. q \in pos..lim
  BY DEF StopPoints
<1>2. q \in 0..f.len /\ f.len \in 0..f.len /\ f.len \in Nat
  BY <1>1 DEF IsStream
<1>3. f.cum[pos] \in Nat /\ f.cum[q] \in Nat /\ Total(f) \in Nat
  BY <1>2 DEF IsStream, Total
<1>4. f.cum[pos] <= f.cum[q] /\ f.cum[q] <= Total(f)
  BY <1>1, <1>2 DEF IsStream, Total
<1>5. /\ Flushed(f, out, cap, q) \in out..Total(f)
      /\ Flushed(f, out, cap, q) <= f.cum[q]
      /\ Flushed(f, out, cap, q) <= out + cap
  BY <1>3, <1>4 DEF Flushed
<1>6. Reported(f, q, Flushed(f, out, cap, q)) \in Reported(f, pos, out)..lim
  <2> DEFINE fl == Flushed(f, out, cap, q)
  <2>1. fl \in Nat /\ out \in Nat /\ out <= fl
    BY <1>3, <1>5
  <2> HIDE DEF fl
  <2>2. Held(f, q, fl) \in {0, 1} /\ Held(f, pos, out) \in {0, 1}
    BY DEF Held
  <2>3. q = pos => Held(f, q, fl) <= Held(f, pos, out)
    BY <2>1, <1>3 DEF Held
  <2>4. Held(f, q, fl) = 1 => q >= 1
    BY <1>2 DEF Held, IsStream
  <2>5. pos \in Nat /\ q \in Nat /\ lim \in Nat
    BY <1>2
  <2>6. q - Held(f, q, fl) \in (pos - Held(f, pos, out))..lim
    BY <1>1, <2>2, <2>3, <2>5
  <2> QED BY <2>6 DEF fl, Reported
<1> QED BY <1>1, <1>5, <1>6

\* The call of zstd leaves it with output pending, at the end of a frame or at
\* the end of its input.
LEMMA ZstdRests ==
    ASSUME NEW f, IsStream(f),
           NEW pos \in 0..f.len, NEW out \in Nat, NEW cap \in Nat,
           NEW lim \in 0..f.len,
           NEW q \in StopPoints(f, pos, out, cap, lim)
    PROVE  q \in f.ends \cup {lim} \/ Flushed(f, out, cap, q) < f.cum[q]
<1>1. q \in 0..f.len /\ MustStop(f, pos, out, cap, lim, q)
  BY DEF StopPoints, IsStream
<1>2. f.cum[q] \in Nat
  BY <1>1 DEF IsStream
<1>3. CASE f.cum[q] > out + cap
  BY <1>2, <1>3 DEF Flushed
<1>4. CASE q = lim \/ q \in f.ends
  BY <1>4
<1> QED BY <1>1, <1>3, <1>4 DEF MustStop

\* A call with room that hands out nothing leaves nothing pending, and it
\* stopped at the end of a frame, which is a new one, or of the input.
LEMMA NothingMade ==
    ASSUME NEW f, IsStream(f),
           NEW pos \in 0..f.len, NEW out \in Nat, out <= f.cum[pos],
           NEW cap \in Nat \ {0}, NEW lim \in 0..f.len,
           NEW q \in StopPoints(f, pos, out, cap, lim),
           ~(Flushed(f, out, cap, q) > out)
    PROVE  /\ f.cum[q] = out
           /\ Flushed(f, out, cap, q) = out
           /\ q = lim \/ (q \in f.ends /\ q > pos)
<1>1. q \in pos..lim /\ q \in 0..f.len /\ MustStop(f, pos, out, cap, lim, q)
  BY DEF StopPoints, IsStream
<1>2. f.cum[q] \in Nat /\ f.cum[pos] \in Nat /\ f.cum[pos] <= f.cum[q]
  BY <1>1 DEF IsStream
<1>3. f.cum[q] = out /\ Flushed(f, out, cap, q) = out
  <2>1. CASE f.cum[q] <= out + cap
    BY <1>2, <2>1 DEF Flushed
  <2>2. CASE ~(f.cum[q] <= out + cap)
    BY <1>2, <2>2 DEF Flushed
  <2> QED BY <2>1, <2>2
<1>4. Held(f, pos, out) = 1 => out < f.cum[pos]
  BY DEF Held
<1> QED BY <1>1, <1>2, <1>3, <1>4 DEF MustStop

\* A complete stream does not stall: zstd then waits for a frame header.
LEMMA CompleteGoesOn ==
    ASSUME NEW f, IsStream(f), Complete(f),
           NEW pos \in 0..f.len, NEW out \in Nat, out <= f.cum[pos],
           NEW cap \in Nat \ {0},
           NEW q \in StopPoints(f, pos, out, cap, f.len)
    PROVE  ~Stalled(f, pos, out, q, Flushed(f, out, cap, q))
<1> SUFFICES ASSUME Stalled(f, pos, out, q, Flushed(f, out, cap, q))
             PROVE  FALSE
  OBVIOUS
<1>1. q = pos /\ pos \notin f.hdr /\ Flushed(f, out, cap, q) = out
  BY DEF Stalled
<1>2. f.len \in 0..f.len
  BY DEF IsStream
<1>3. q = f.len \/ (q \in f.ends /\ q > pos)
  BY <1>1, <1>2, NothingMade
<1> QED BY <1>1, <1>3 DEF Complete, IsStream

=============================================================================
