-------------------------- MODULE DirectRead_proofs --------------------------
(***************************************************************************)
(* Proofs about DirectRead, for every variant, retire window, page size,   *)
(* offset of the mapping, buffer and file, truncated or not, and for a     *)
(* caller that reads on after Ok(0) and after errors.                      *)
(***************************************************************************)
EXTENDS DirectRead, PageLemmas, ZstdLemmas

-----------------------------------------------------------------------------
\* Pages of a part are pages of the whole.
LEMMA PagesOfPart ==
    ASSUME NEW a \in Nat, NEW b \in Nat, NEW c \in Nat, NEW d \in Nat,
           a <= b, c <= d
    PROVE  Pages(b, c) \subseteq Pages(a, d)
<1> USE WindowAssumption
<1>1. CASE b >= c
  BY <1>1 DEF Pages
<1>2. CASE b < c
  <2>1. PageOf(a) <= PageOf(b)
    BY DivMonotone DEF PageOf
  <2>2. PageOf(c - 1) <= PageOf(d - 1)
    <3>1. /\ (c - 1) + MapShift \in Nat /\ (d - 1) + MapShift \in Nat
          /\ (c - 1) + MapShift <= (d - 1) + MapShift
      BY <1>2
    <3> QED BY <3>1, DivMonotone DEF PageOf
  <2>3. PageOf(a) \in Nat /\ PageOf(b) \in Nat
    BY DivMod DEF PageOf
  <2>4. PageOf(c - 1) \in Nat /\ PageOf(d - 1) \in Nat
    <3>1. (c - 1) + MapShift \in Nat /\ (d - 1) + MapShift \in Nat
      BY <1>2
    <3> QED BY <3>1, DivMod DEF PageOf
  <2> QED BY <1>2, <2>1, <2>2, <2>3, <2>4 DEF Pages
<1> QED BY <1>1, <1>2

\* Bytes a window apart are on different pages.
LEMMA PagesApart ==
    ASSUME NEW r \in Nat, NEW a \in Nat, NEW b \in Nat,
           r > 0 => r + RetireWindow <= a
    PROVE  Pages(a, b) \cap Pages(0, r) = {}
<1> USE WindowAssumption
<1>1. CASE r = 0
  BY <1>1 DEF Pages
<1>2. CASE r > 0
  <2>1. /\ (r - 1) + MapShift \in Nat /\ a + MapShift \in Nat
        /\ ((r - 1) + MapShift) + OsPage <= a + MapShift
    BY <1>2
  <2>2. PageOf(r - 1) < PageOf(a)
    BY <2>1, DivStrict DEF PageOf
  <2>3. PageOf(r - 1) \in Nat /\ PageOf(a) \in Nat
    BY <2>1, DivMod DEF PageOf
  <2>4. ASSUME NEW x \in Pages(a, b), x \in Pages(0, r)
        PROVE  FALSE
    BY <2>2, <2>3, <2>4 DEF Pages
  <2> QED BY <2>4
<1> QED BY <1>1, <1>2

\* The pages up to b are those up to a and those from there on.
LEMMA PagesJoin ==
    ASSUME NEW a \in Nat, NEW b \in Nat
    PROVE  Pages(0, b) \subseteq Pages(0, a) \cup Pages(a, b)
<1> USE WindowAssumption
<1>1. CASE a = 0
  BY <1>1
<1>2. CASE b <= a
  BY <1>2, PagesOfPart
<1>3. CASE 0 < a /\ a < b
  <2>1. (a - 1) + MapShift \in Nat /\ a + MapShift = ((a - 1) + MapShift) + 1
    BY <1>3
  <2>2. PageOf(a) <= PageOf(a - 1) + 1
    BY <2>1, DivNext DEF PageOf
  <2>3. PageOf(a - 1) \in Nat /\ PageOf(a) \in Nat
    BY <2>1, DivMod DEF PageOf
  <2> QED BY <1>3, <2>2, <2>3 DEF Pages
<1> QED BY <1>1, <1>2, <1>3

\* The frontier stays a window behind, unless it is still at the start, and
\* no more than a window and a page.
LEMMA FrontierBounds ==
    ASSUME NEW p \in Nat
    PROVE  /\ Frontier(p) \in 0..p
           /\ Frontier(p) > 0 => Frontier(p) + RetireWindow <= p
           /\ p < Frontier(p) + RetireWindow + PageSize
<1>1. SaturatingSub(p, RetireWindow) \in Nat
  BY WindowAssumption DEF SaturatingSub
<1>2. /\ Frontier(p) \in 0..SaturatingSub(p, RetireWindow)
      /\ SaturatingSub(p, RetireWindow) < Frontier(p) + PageSize
  BY <1>1, RoundDown, WindowAssumption DEF Frontier, AlignDown
<1> QED BY <1>1, <1>2, WindowAssumption DEF SaturatingSub

-----------------------------------------------------------------------------
\* Typing facts that every step below starts from.
LEMMA Ranges ==
    ASSUME Core
    PROVE  /\ IsStream(file) /\ file.len \in Nat /\ Total(file) \in Nat
           /\ fsize \in Nat /\ fsize <= file.len
           /\ in_pos \in Nat /\ in_pos <= file.len
           /\ retire_pos \in Nat /\ retire_pos <= file.len
           /\ zpos \in 0..file.len /\ zpos \in Nat /\ zout \in Nat
           /\ buf \in Nat
<1>1. IsStream(file)
  BY DEF Core, TypeOK
<1>2. file.len \in Nat /\ Total(file) \in Nat
  BY <1>1 DEF IsStream, Total
<1> QED BY <1>1, <1>2, BufLensAssumption DEF Core, TypeOK

\* At first nothing was read.
LEMMA InitInvariant == Init => Core
<1> SUFFICES ASSUME Init PROVE Core
  OBVIOUS
<1>1. IsStream(file)
  BY FilesAssumption DEF Init
<1>2. file.len \in Nat /\ file.cum[0] = 0 /\ 0 \notin file.ends /\ Total(file) \in Nat
  BY <1>1 DEF IsStream, Total
<1>3. TypeOK
  BY <1>1, <1>2, WindowAssumption DEF Init, TypeOK
<1>4. InStep
  BY <1>2 DEF Init, InStep, Consumed, Reported, Held
<1>5. DroppedBehind /\ EofBetweenFrames /\ CallState /\ OnlyUnsound
  BY DEF Init, CallState, OnlyUnsound, DroppedBehind, EofBetweenFrames
<1> QED BY <1>3, <1>4, <1>5 DEF Core

-----------------------------------------------------------------------------
\* What a call does to the pages of the mapping.
LEMMA MaybeRetireInvariant ==
    ASSUME Core, NEW p \in in_pos..file.len, NEW touched,
           touched \subseteq Pages(0, file.len),
           in_pos' = p, file' = file, MaybeRetire(p, touched)
    PROVE  /\ DroppedBehind'
           /\ retire_pos' \in 0..file.len
           /\ resident' \subseteq resident \cup touched
           /\ resident' \subseteq Pages(0, file.len)
           /\ dropped' \subseteq Pages(0, file.len)
<1> DEFINE fr == Frontier(p)
<1>1. p \in Nat /\ p <= file.len /\ in_pos <= p
  BY Ranges
<1>2. fr \in 0..p /\ (fr > 0 => fr + RetireWindow <= p)
  BY <1>1, FrontierBounds
<1>3. RetireWindow \in Nat
  BY WindowAssumption
<1>4. CASE Retires /\ fr > retire_pos
  <2>1. /\ retire_pos' = fr
        /\ resident' \subseteq resident \cup touched
        /\ dropped' = dropped \cup Pages(retire_pos, fr)
    BY <1>4 DEF MaybeRetire, Discarded
  <2>2. Pages(0, retire_pos) \subseteq Pages(0, fr)
    BY <1>2, <1>4, <1>1, Ranges, PagesOfPart
  <2>3. Pages(retire_pos, fr) \subseteq Pages(0, fr)
    BY <1>2, <1>1, Ranges, PagesOfPart
  <2>4. Pages(0, fr) \subseteq Pages(0, file.len)
    BY <1>2, <1>1, Ranges, PagesOfPart
  <2>5. dropped' \subseteq Pages(0, fr)
    BY <2>1, <2>2, <2>3 DEF Core, DroppedBehind
  <2>6. DroppedBehind'
    BY <1>2, <2>1, <2>5 DEF DroppedBehind, Pages, PageOf
  <2>7. fr \in 0..file.len
    BY <1>1, <1>2, Ranges
  <2> QED BY <2>1, <2>4, <2>5, <2>6, <2>7 DEF Core, TypeOK
<1>5. CASE ~(Retires /\ fr > retire_pos)
  <2>1. retire_pos' = retire_pos /\ dropped' = dropped /\ resident' = resident \cup touched
    BY <1>5 DEF MaybeRetire
  <2>2. DroppedBehind'
    BY <1>1, <1>3, <2>1, Ranges DEF Core, DroppedBehind, Pages, PageOf
  <2> QED BY <2>1, <2>2 DEF Core, TypeOK
<1> QED BY <1>4, <1>5

\* The pages of a stretch of the input.
LEMMA TouchedPages ==
    ASSUME NEW n \in Nat, NEW a \in Nat, NEW b \in Nat, b <= n
    PROVE  Touched(a, b) \subseteq Pages(0, n)
  BY PagesOfPart DEF Touched

-----------------------------------------------------------------------------
\* A sound file never makes zstd fail.
LEMMA SoundFileDecodes ==
    ASSUME Core, sane, pc = "Run",
           NEW q \in StopPoints(file, zpos, zout, buf, file.len),
           Fails(q)
    PROVE  ~Sound
<1> SUFFICES ASSUME Sound PROVE FALSE
  OBVIOUS
<1>1. q \in zpos..file.len
  BY DEF StopPoints
<1>2. FedTheFile(q)
  BY <1>1, Ranges DEF Sound, MappingWhole, FedTheFile, Core, InStep
<1>3. ~Damaged(file, zpos, q)
  BY <1>1, Ranges DEF Sound, MappingWhole, Complete, Damaged
<1>4. ~Stalled(file, zpos, zout, q, Flushed(file, zout, buf, q))
  <2>1. buf \in Nat \ {0} /\ zout <= file.cum[zpos]
    BY Ranges DEF Core, CallState, InStep
  <2> QED BY <2>1, Ranges, CompleteGoesOn DEF Sound, MappingWhole
<1> QED BY <1>2, <1>3, <1>4 DEF Fails

\* The call of zstd after an error, or on bytes that are not the file's.
LEMMA AstrayInvariant ==
    ASSUME Core, Astray, ~Sound, UNCHANGED <<file, kind, fsize, buf>>
    PROVE  Core'
<1>1. PICK to \in in_pos..file.len :
        \/ /\ in_pos' = to
           /\ MaybeRetire(to, Touched(in_pos, to))
           /\ ret' \in {"data", "eof"}
        \/ ReturnError(Touched(in_pos, to))
  BY DEF Astray
<1>2. Touched(in_pos, to) \subseteq Pages(0, file.len)
  BY Ranges, TouchedPages
<1>3. /\ DroppedBehind' /\ retire_pos' \in 0..file.len
      /\ resident' \subseteq Pages(0, file.len)
      /\ dropped' \subseteq Pages(0, file.len)
      /\ in_pos' \in 0..file.len
      /\ ret' \in {"data", "eof", "error"}
  <2>1. CASE in_pos' = to /\ MaybeRetire(to, Touched(in_pos, to)) /\ ret' \in {"data", "eof"}
    BY <1>2, <2>1, Ranges, MaybeRetireInvariant
  <2>2. CASE ReturnError(Touched(in_pos, to))
    BY <1>2, <2>2, Ranges DEF ReturnError, Core, TypeOK, DroppedBehind, Pages, PageOf
  <2> QED BY <1>1, <2>1, <2>2
<1>4. pc' = "Idle" /\ ~sane' /\ sane' \in BOOLEAN /\ UNCHANGED <<zpos, zout, stall>>
  BY DEF Astray
<1>5. Pages(0, file.len)' = Pages(0, file.len) /\ Total(file)' = Total(file)
  BY DEF Pages, PageOf, Total
<1>6. TypeOK'
  BY <1>3, <1>4, <1>5 DEF Core, TypeOK
<1>7. CallState' /\ OnlyUnsound' /\ InStep' /\ EofBetweenFrames'
  BY <1>4 DEF CallState, OnlyUnsound, Sound, MappingWhole, Complete, InStep, EofBetweenFrames
<1> QED BY <1>3, <1>6, <1>7 DEF Core

\* zstd fails: the cursors stay.
LEMMA RejectedInvariant ==
    ASSUME Core, sane, pc = "Run", UNCHANGED <<file, kind, fsize, buf>>,
           NEW q \in StopPoints(file, zpos, zout, buf, file.len), Rejected(q)
    PROVE  Core'
<1>1. ~Sound
  BY SoundFileDecodes DEF Rejected
<1>2. q \in zpos..file.len /\ Touched(zpos, q) \subseteq Pages(0, file.len)
  BY Ranges, TouchedPages DEF StopPoints
<1>3. /\ pc' = "Idle" /\ ret' = "error" /\ ~sane' /\ sane' \in BOOLEAN
      /\ resident' = resident \cup Touched(zpos, q)
      /\ UNCHANGED <<in_pos, retire_pos, dropped, zpos, zout, stall>>
  BY DEF Rejected, ReturnError
<1>4. TypeOK'
  BY <1>2, <1>3 DEF Core, TypeOK, Pages, PageOf, Total
<1>5. DroppedBehind'
  BY <1>3 DEF Core, DroppedBehind, Pages, PageOf
<1>6. CallState' /\ OnlyUnsound' /\ InStep' /\ EofBetweenFrames'
  BY <1>1, <1>3 DEF CallState, OnlyUnsound, Sound, MappingWhole, Complete, InStep, EofBetweenFrames
<1> QED BY <1>4, <1>5, <1>6 DEF Core

\* zstd succeeds: in_pos follows what it reports.
LEMMA DecodedInvariant ==
    ASSUME Core, sane, pc = "Run", UNCHANGED <<file, kind, fsize, buf>>,
           NEW q \in StopPoints(file, zpos, zout, buf, file.len), Decoded(q)
    PROVE  Core'
<1> DEFINE fl  == Flushed(file, zout, buf, q)
           rep == Reported(file, q, fl)
<1>1. /\ zpos' = q /\ zout' = fl /\ in_pos' = in_pos + (rep - Consumed)
      /\ MaybeRetire(in_pos', Touched(zpos, q))
      /\ pc' = "Idle" /\ ret' = Result(fl) /\ sane' = sane
      /\ stall' < MaxStall /\ stall' \in {stall + 1, stall, 0}
  BY DEF Decoded, BytesRead
<1>2. in_pos = Consumed /\ zout <= file.cum[zpos]
  BY DEF Core, InStep
<1>3. /\ zout \in 0..Total(file) /\ file.len \in 0..file.len
      /\ buf \in Nat \ {0}
  BY Ranges DEF Core, TypeOK, CallState
<1>4. /\ q \in zpos..file.len
      /\ fl \in zout..Total(file)
      /\ fl <= file.cum[q]
      /\ rep \in Consumed..file.len
  BY <1>2, <1>3, Ranges, ZstdStep DEF Consumed
<1>5. q \in file.ends \cup {file.len} \/ fl < file.cum[q]
  BY <1>3, Ranges, ZstdRests
<1>6. ~(fl > zout) => fl = zout /\ file.cum[q] = zout /\ (q = file.len \/ q \in file.ends)
  BY <1>2, <1>3, Ranges, NothingMade
<1> HIDE DEF fl, rep
<1>7. in_pos' = rep /\ in_pos' \in in_pos..file.len
  BY <1>1, <1>2, <1>4, Ranges
<1>8. Touched(zpos, q) \subseteq Pages(0, file.len)
  BY <1>4, Ranges, TouchedPages
<1>9. /\ DroppedBehind' /\ retire_pos' \in 0..file.len
      /\ resident' \subseteq Pages(0, file.len)
      /\ dropped' \subseteq Pages(0, file.len)
  BY <1>1, <1>7, <1>8, MaybeRetireInvariant
<1>10. TypeOK'
  <2>1. /\ in_pos' \in 0..file.len /\ zpos' \in 0..file.len
        /\ zout' \in 0..Total(file)
    BY <1>1, <1>4, <1>7, Ranges
  <2>2. stall' \in 0..(MaxStall - 1)
    BY <1>1, WindowAssumption DEF Core, TypeOK
  <2>3. ret' \in {"data", "eof"}
    BY <1>1 DEF Result
  <2> QED
    BY <1>1, <1>9, <2>1, <2>2, <2>3 DEF Core, TypeOK, Pages, PageOf, Total
<1>11. InStep'
  <2>1. Consumed' = rep
    BY <1>1 DEF Consumed, rep, fl
  <2> QED BY <1>1, <1>4, <1>5, <1>7, <2>1 DEF InStep
<1>12. CallState' /\ OnlyUnsound'
  BY <1>1 DEF Core, CallState, OnlyUnsound, Sound, MappingWhole, Complete
<1>13. EofBetweenFrames'
  <2> SUFFICES ASSUME ret' = "eof", Complete(file)
               PROVE  q \in file.ends \cup {0} /\ fl = file.cum[q]
    BY <1>1 DEF EofBetweenFrames, Complete
  <2>1. ~(fl > zout)
    BY <1>1 DEF Result
  <2> QED BY <1>6, <2>1 DEF Complete
<1> QED BY <1>9, <1>10, <1>11, <1>12, <1>13 DEF Core

LEMMA RunZstdInvariant ==
    ASSUME Core, RunZstd
    PROVE  Core'
<1>1. pc = "Run" /\ UNCHANGED <<file, kind, fsize, buf>>
  BY DEF RunZstd
<1>2. CASE ~sane
  BY <1>1, <1>2, AstrayInvariant DEF RunZstd, Core, OnlyUnsound
<1>3. CASE sane
  <2>1. PICK q \in StopPoints(file, zpos, zout, buf, file.len) :
           Decoded(q) \/ Rejected(q) \/ (~FedTheFile(q) /\ Astray)
    BY <1>3 DEF RunZstd, RunSane
  <2>2. CASE ~FedTheFile(q) /\ Astray
    <3>1. ~Sound
      BY <1>1, <1>3, <2>2, SoundFileDecodes DEF Fails
    <3> QED BY <1>1, <2>2, <3>1, AstrayInvariant
  <2> QED BY <1>1, <1>3, <2>1, <2>2, DecodedInvariant, RejectedInvariant
<1> QED BY <1>2, <1>3

-----------------------------------------------------------------------------
\* Steps that leave zstd and the cursors alone.
LEMMA OtherInvariant ==
    ASSUME Core,
           \/ \E n \in BufLens : CallRead(n)
           \/ Sigbus
           \/ \E n \in 0..file.len : Truncate(n)
           \/ UNCHANGED vars
    PROVE  Core'
<1>1. /\ UNCHANGED <<file, kind, in_pos, retire_pos, dropped, zpos, zout, sane, stall>>
      /\ resident' \subseteq resident
  BY DEF CallRead, Sigbus, Truncate, vars, memory, zstd, call
<1>2. /\ fsize' \in 0..file.len
      /\ fsize' = fsize \/ fsize' < file.len
  BY Ranges DEF CallRead, Sigbus, Truncate, vars, memory, zstd, call, Core, TypeOK
<1>3. /\ buf' \in BufLens \cup {0}
      /\ pc' \in {"Idle", "Run", "Killed"}
      /\ ret' \in {"none", "empty", ret}
      /\ pc' = "Run" => buf' > 0 /\ ret' = "none"
  BY BufLensAssumption
  DEF CallRead, Sigbus, Truncate, vars, memory, zstd, call, Core, TypeOK, CallState
<1>4. TypeOK'
  BY <1>1, <1>2, <1>3 DEF Core, TypeOK, Pages, PageOf, Total
<1>5. InStep' /\ DroppedBehind'
  BY <1>1
  DEF Core, InStep, Consumed, Reported, Held, DroppedBehind, Pages, PageOf
<1>6. OnlyUnsound'
  BY <1>1, <1>2, Ranges DEF Core, OnlyUnsound, Sound, MappingWhole, Complete
<1>7. CallState' /\ EofBetweenFrames'
  BY <1>1, <1>3 DEF Core, CallState, EofBetweenFrames, Complete
<1> QED BY <1>4, <1>5, <1>6, <1>7 DEF Core

LEMMA CoreInvariant == Core /\ [Next]_vars => Core'
  BY RunZstdInvariant, OtherInvariant DEF Next, ReadStep

-----------------------------------------------------------------------------
\* maybe_retire keeps nothing that lies before the frontier.
LEMMA MaybeRetireKeepsNone ==
    ASSUME Core, NoneKept, kind = "Mmap",
           NEW p \in in_pos..file.len, NEW touched,
           in_pos' = p, MaybeRetire(p, touched)
    PROVE  /\ retire_pos' \in Nat
           /\ in_pos' < retire_pos' + RetireWindow + PageSize
           /\ resident' \subseteq
                 (resident \cup touched) \ Pages(retire_pos, retire_pos')
<1>1. /\ p \in Nat /\ retire_pos \in Nat /\ Frontier(p) \in 0..p
      /\ p < Frontier(p) + RetireWindow + PageSize
  <2>1. p \in Nat
    BY Ranges
  <2> QED BY <2>1, Ranges, FrontierBounds
<1>2. CASE Frontier(p) > retire_pos
  BY <1>1, <1>2 DEF MaybeRetire, Retires, Discarded
<1>3. CASE ~(Frontier(p) > retire_pos)
  <2>1. retire_pos' = retire_pos /\ resident' = resident \cup touched
    BY <1>3 DEF MaybeRetire
  <2>2. p < retire_pos + RetireWindow + PageSize
    BY <1>1, <1>3, WindowAssumption
  <2>3. Pages(retire_pos, retire_pos) = {}
    BY <1>1 DEF Pages
  <2> QED BY <1>1, <2>1, <2>2, <2>3
<1> QED BY <1>2, <1>3

LEMMA RunZstdKeepsNone ==
    ASSUME Core, NoneKept, RunZstd
    PROVE  NoneKept'
<1>1. UNCHANGED <<file, kind, fsize, buf>>
  BY DEF RunZstd
<1>2. CASE kind # "Mmap"
  BY <1>1, <1>2
  DEF NoneKept, RunZstd, RunSane, Astray, Decoded, Rejected, ReturnError,
      MaybeRetire, Retires, Touched
<1> SUFFICES ASSUME kind = "Mmap" PROVE NoneKept'
  BY <1>2
<1>3. CASE Astray
  <2>1. ~sane'
    BY <1>3 DEF Astray
  <2>2. PICK to \in in_pos..file.len :
          \/ in_pos' = to /\ MaybeRetire(to, Touched(in_pos, to))
          \/ ReturnError(Touched(in_pos, to))
    BY <1>3 DEF Astray
  <2>3. in_pos' < retire_pos' + RetireWindow + PageSize
    <3>1. CASE in_pos' = to /\ MaybeRetire(to, Touched(in_pos, to))
      BY <3>1, MaybeRetireKeepsNone
    <3>2. CASE ReturnError(Touched(in_pos, to))
      BY <3>2 DEF ReturnError, NoneKept
    <3> QED BY <2>2, <3>1, <3>2
  <2> QED BY <1>1, <2>1, <2>3 DEF NoneKept
<1>4. CASE sane /\ pc = "Run" /\ ~Astray
  <2>1. PICK q \in StopPoints(file, zpos, zout, buf, file.len) :
          Decoded(q) \/ Rejected(q)
    BY <1>4 DEF RunZstd, RunSane
  <2>2. q \in zpos..file.len /\ q \in Nat /\ zpos <= q
    BY Ranges DEF StopPoints
  <2>3. CASE Rejected(q)
    BY <1>1, <2>3 DEF Rejected, ReturnError, NoneKept
  <2>4. CASE Decoded(q)
    <3>1. zpos' = q /\ in_pos' \in in_pos..file.len
          /\ MaybeRetire(in_pos', Touched(zpos, q))
      <4>1. Core'
        BY <1>1, <1>4, <2>4, DecodedInvariant
      <4>2. /\ in_pos' \in 0..file.len /\ in_pos = Consumed
            /\ in_pos' = in_pos + BytesRead(q, zout')
            /\ zout' = Flushed(file, zout, buf, q)
        BY <1>1, <1>4, <2>4, <4>1 DEF Core, TypeOK, InStep, Decoded
      <4>3. /\ zout \in 0..Total(file) /\ file.len \in 0..file.len
            /\ zout <= file.cum[zpos]
        BY <1>4, Ranges DEF Core, TypeOK, InStep
      <4>4. Reported(file, q, zout') \in Consumed..file.len
        BY <4>2, <4>3, Ranges, ZstdStep DEF Consumed
      <4>5. in_pos' >= in_pos
        BY <4>2, <4>4, Ranges DEF BytesRead
      <4> QED BY <2>4, <4>2, <4>5, Ranges DEF Decoded
    <3>2. /\ retire_pos' \in Nat
          /\ in_pos' < retire_pos' + RetireWindow + PageSize
          /\ resident' \subseteq (resident \cup Pages(zpos, q))
                                    \ Pages(retire_pos, retire_pos')
      BY <3>1, MaybeRetireKeepsNone DEF Touched
    <3>3. Pages(zpos, q) \cap Pages(0, retire_pos) = {}
      <4>1. retire_pos > 0 => retire_pos + RetireWindow <= zpos
        <5>1. in_pos <= zpos
          BY <1>4, Ranges DEF Core, InStep, Consumed, Reported, Held
        <5> QED BY <5>1, Ranges, WindowAssumption DEF Core, DroppedBehind
      <4> QED BY <2>2, <4>1, Ranges, PagesApart
    <3>4. Pages(0, zpos) \subseteq Pages(0, q) /\ Pages(zpos, q) \subseteq Pages(0, q)
      BY <2>2, Ranges, PagesOfPart
    <3>5. resident \subseteq Pages(0, zpos) \ Pages(0, retire_pos)
      BY <1>4 DEF NoneKept
    <3>6. Pages(0, retire_pos')
             \subseteq Pages(0, retire_pos) \cup Pages(retire_pos, retire_pos')
      BY <3>2, Ranges, PagesJoin
    <3>7. resident' \subseteq Pages(0, q) \ Pages(0, retire_pos')
      BY <3>2, <3>3, <3>4, <3>5, <3>6
    <3> QED BY <1>1, <3>1, <3>2, <3>7 DEF NoneKept, Pages, PageOf
  <2> QED BY <2>1, <2>3, <2>4
<1> QED BY <1>3, <1>4 DEF RunZstd

LEMMA OtherKeepsNone ==
    ASSUME NoneKept,
           \/ \E n \in BufLens : CallRead(n)
           \/ Sigbus
           \/ \E n \in 0..file.len : Truncate(n)
           \/ UNCHANGED vars
    PROVE  NoneKept'
<1>1. /\ UNCHANGED <<kind, in_pos, retire_pos, dropped, zpos, sane>>
      /\ resident' \subseteq resident
  BY DEF CallRead, Sigbus, Truncate, vars, memory, zstd, call
<1> QED BY <1>1 DEF NoneKept, Pages, PageOf

\* The inductive invariant holds throughout.
THEOREM Invariance == Spec => []IInv
<1>1. Init => IInv
  BY InitInvariant, WindowAssumption DEF Init, IInv, NoneKept
<1>2. IInv /\ [Next]_vars => IInv'
  BY CoreInvariant, RunZstdKeepsNone, OtherKeepsNone DEF IInv, Next, ReadStep
<1> QED BY <1>1, <1>2, PTL DEF Spec

\* The variables keep their types: no cursor leaves the file.
THEOREM TypeCorrect == Spec => []TypeOK
<1>1. IInv => TypeOK
  BY DEF IInv, Core
<1> QED BY <1>1, Invariance, PTL

\* Ok(0) on a complete file says that zstd is between two frames.
THEOREM EofOnlyBetweenFrames == Spec => []EofBetweenFrames
<1>1. IInv => EofBetweenFrames
  BY DEF IInv, Core
<1> QED BY <1>1, Invariance, PTL

-----------------------------------------------------------------------------
\* What is decoded from lies at or after in_pos, whatever zstd holds back.
LEMMA TouchesAhead ==
    ASSUME Core, RunZstd
    PROVE  \E a, b \in Nat :
              a >= in_pos /\ resident' \subseteq resident \cup Pages(a, b)
<1>1. CASE Astray
  <2>1. PICK to \in in_pos..file.len :
           resident' \subseteq resident \cup Touched(in_pos, to)
    BY <1>1 DEF Astray, MaybeRetire, ReturnError
  <2> QED BY <2>1, Ranges DEF Touched
<1>2. CASE sane /\ ~Astray
  <2>1. PICK q \in StopPoints(file, zpos, zout, buf, file.len) :
           resident' \subseteq resident \cup Touched(zpos, q)
    BY <1>2 DEF RunZstd, RunSane, Decoded, Rejected, MaybeRetire, ReturnError
  <2>2. q \in Nat
    BY Ranges DEF StopPoints
  <2>3. zpos >= in_pos
    BY <1>2, Ranges DEF Core, InStep, Consumed, Reported, Held
  <2> QED BY <2>1, <2>2, <2>3, Ranges DEF Touched
<1> QED BY <1>1, <1>2 DEF RunZstd

\* A page that was given back is never touched again.
THEOREM NeverRefaults == Spec => NoRefault
<1>1. IInv /\ [Next]_vars => [(resident' \ resident) \cap dropped = {}]_vars
  <2> SUFFICES ASSUME Core, [Next]_vars
               PROVE  (resident' \ resident) \cap dropped = {}
    BY DEF IInv
  <2>1. CASE RunZstd
    <3>1. PICK a \in Nat, b \in Nat :
             a >= in_pos /\ resident' \subseteq resident \cup Pages(a, b)
      BY <2>1, TouchesAhead
    <3>2. retire_pos > 0 => retire_pos + RetireWindow <= a
      BY <3>1, Ranges, WindowAssumption DEF Core, DroppedBehind
    <3>3. Pages(a, b) \cap Pages(0, retire_pos) = {}
      BY <3>1, <3>2, Ranges, PagesApart
    <3> QED BY <3>1, <3>3 DEF Core, DroppedBehind
  <2>2. CASE ~RunZstd
    <3>1. resident' \subseteq resident
      BY <2>2
      DEF Next, ReadStep, CallRead, Sigbus, Truncate, vars, memory, zstd, call
    <3> QED BY <3>1
  <2> QED BY <2>1, <2>2
<1> QED BY <1>1, Invariance, PTL DEF Spec, NoRefault

-----------------------------------------------------------------------------
\* What is kept between the frontier and the cursor, in bytes.
LEMMA KeptInBytes ==
    ASSUME Core, NoneKept, kind = "Mmap", sane
    PROVE  Cardinality(resident) * OsPage
              <= RetireWindow + PageSize + OsPage + MapShift
<1> USE WindowAssumption
<1>1. /\ zpos <= in_pos + 1
      /\ in_pos < retire_pos + RetireWindow + PageSize
      /\ resident \subseteq Pages(0, zpos) \ Pages(0, retire_pos)
  BY Ranges DEF Core, NoneKept, InStep, Consumed, Reported, Held
<1>2. CASE zpos = 0
  <2>1. resident = {}
    BY <1>1, <1>2 DEF Pages
  <2>2. Cardinality(resident) = 0
    BY <2>1, FS_EmptySet
  <2> QED BY <2>2
<1>3. CASE zpos > 0
  <2> DEFINE y == (zpos - 1) + MapShift
             h == PageOf(zpos - 1)
             n == Cardinality(resident)
  <2>1. y \in Nat /\ h \in Nat /\ h = y \div OsPage
    <3>1. y \in Nat
      BY <1>3, Ranges
    <3> QED BY <3>1, DivMod DEF PageOf
  <2>2. Pages(0, zpos) \subseteq 0..h
    <3>1. PageOf(0) = 0
      BY DivZero DEF PageOf
    <3> QED BY <1>3, <3>1, Ranges DEF Pages
  <2>3. CASE retire_pos = 0
    <3>1. n \in Nat /\ n <= h + 1
      <4>1. resident \in SUBSET (0..h)
        BY <1>1, <2>2
      <4>2. h \in Int /\ 0 \in Int
        BY <2>1
      <4> HIDE DEF h
      <4>3. n \in Nat /\ (0 <= h + 1 => n <= h - 0 + 1)
        BY <4>1, <4>2, PagesCounted
      <4> QED BY <2>1, <4>3
    <3>2. OsPage * (h + 1) <= y + OsPage
      BY <2>1, PagesInBytes
    <3>3. n * OsPage <= OsPage * (h + 1)
      <4> HIDE DEF n, h, y
      <4> QED BY <2>1, <3>1, SMT
    <3>4. n * OsPage \in Nat /\ OsPage * (h + 1) \in Nat
      <4> HIDE DEF n, h, y
      <4> QED BY <2>1, <3>1, SMT
    <3> QED BY <1>1, <1>3, <2>1, <2>3, <3>2, <3>3, <3>4, Ranges
  <2>4. CASE retire_pos > 0
    <3> DEFINE x == (retire_pos - 1) + MapShift
               l == PageOf(retire_pos - 1)
    <3>1. x \in Nat /\ l \in Nat /\ l = x \div OsPage
      <4>1. x \in Nat
        BY <2>4, Ranges
      <4> QED BY <4>1, DivMod DEF PageOf
    <3>2. resident \in SUBSET ((l + 1)..h)
      <4>1. PageOf(0) = 0
        BY DivZero DEF PageOf
      <4>2. Pages(0, retire_pos) = 0..l
        BY <2>4, <4>1, Ranges DEF Pages
      <4> QED BY <1>1, <2>1, <2>2, <3>1, <4>2
    <3>3. x <= y
      BY <1>1, <2>1, <2>4, <3>1, Ranges DEF Core, DroppedBehind, InStep, Consumed, Reported, Held
    <3>4. l <= h
      BY <2>1, <3>1, <3>3, DivMonotone
    <3>5. n \in Nat /\ n <= h - l
      <4>1. h \in Int /\ l + 1 \in Int
        BY <2>1, <3>1
      <4> HIDE DEF h, l
      <4>2. n \in Nat /\ (l + 1 <= h + 1 => n <= h - (l + 1) + 1)
        BY <3>2, <4>1, PagesCounted
      <4> QED BY <2>1, <3>1, <3>4, <4>2
    <3>6. OsPage * (h - l) <= y - x + (OsPage - 1)
      BY <2>1, <3>1, PagesInBytes
    <3>7. n * OsPage <= OsPage * (h - l)
      <4> HIDE DEF n, h, y, x, l
      <4> QED BY <2>1, <3>1, <3>5, SMT
    <3>8. n * OsPage \in Nat /\ OsPage * (h - l) \in Int
      <4> HIDE DEF n, h, y, x, l
      <4> QED BY <2>1, <3>1, <3>5, SMT
    <3> QED BY <1>1, <1>3, <2>1, <2>4, <3>1, <3>6, <3>7, <3>8, Ranges
  <2> QED BY <2>3, <2>4, Ranges
<1> QED BY <1>2, <1>3, Ranges

\* Between calls a mapping keeps no more than its window and the pages cut by
\* its ends, whatever the file's length; and what is no mapping is not advised.
THEOREM ResidencyBounded == Spec => []ResidentBounded
<1>1. IInv => ResidentBounded
  <2> SUFFICES ASSUME IInv PROVE ResidentBounded
    OBVIOUS
  <2>1. CASE kind = "Mmap"
    BY <2>1, KeptInBytes DEF IInv, ResidentBounded
  <2>2. CASE kind # "Mmap"
    <3>1. resident = {} /\ dropped = {} /\ Cardinality({}) = 0
      BY <2>2, FS_EmptySet DEF IInv, NoneKept
    <3> QED BY <2>2, <3>1, WindowAssumption DEF ResidentBounded
  <2> QED BY <2>1, <2>2
<1> QED BY <1>1, Invariance, PTL

-----------------------------------------------------------------------------
\* A mapping of an unchanged file has the pages of all its bytes.
LEMMA SoundFileHasPages ==
    ASSUME Core, NEW q \in Nat, 0 < q, q <= file.len, Sound
    PROVE  HasPages(q)
<1> SUFFICES ASSUME fsize = file.len
             PROVE  PageOf(q - 1) <= PageOf(fsize - 1)
  BY DEF HasPages, Sound, MappingWhole
<1>1. /\ (q - 1) + MapShift \in Nat /\ (fsize - 1) + MapShift \in Nat
      /\ (q - 1) + MapShift <= (fsize - 1) + MapShift
  BY Ranges, WindowAssumption
<1> QED BY <1>1, DivMonotone, WindowAssumption DEF PageOf

\* A frame that ends where no output came since the last one has no content.
LEMMA DryFrame ==
    ASSUME Core, sane, NoDryFrame(file), zpos # file.len,
           NEW q \in file.ends, zpos < q, q < file.len, file.cum[q] = zout
    PROVE  FALSE
<1>1. q \in 0..file.len /\ zout <= file.cum[zpos] /\ IsStream(file)
  BY Ranges DEF Core, InStep, IsStream
<1>2. PICK k \in 1..q : /\ file.cum[k] > file.cum[k - 1]
                        /\ \A d \in file.ends : d < q => d < k
  BY DEF NoDryFrame
<1>3. k \in 0..file.len /\ k - 1 \in 0..file.len /\ k <= q
  BY <1>1, <1>2, Ranges
<1>4. /\ file.cum[zpos] \in Nat /\ file.cum[q] \in Nat
      /\ file.cum[k] \in Nat /\ file.cum[k - 1] \in Nat
      /\ file.cum[k] <= file.cum[q] /\ file.cum[zpos] <= file.cum[q]
  <2>1. zpos \in 0..file.len /\ zpos <= q
    BY <1>1, Ranges
  <2> QED BY <1>1, <1>3, <2>1 DEF IsStream
<1>5. zpos \in file.ends \cup {0}
  BY <1>1, <1>4 DEF Core, InStep
<1>6. zpos <= k - 1
  BY <1>2, <1>5, Ranges
<1>7. file.cum[zpos] <= file.cum[k - 1]
  <2>1. zpos \in 0..file.len
    BY Ranges
  <2> QED BY <1>1, <1>3, <1>6, <2>1 DEF IsStream
<1> QED BY <1>1, <1>2, <1>4, <1>7, Ranges

\* When only the last frame may be dry, a call that finds nothing to hand out
\* on a complete file has reached its end.
LEMMA NothingLeft ==
    ASSUME Core, sane, pc = "Run", Complete(file), NoDryFrame(file),
           NEW q \in StopPoints(file, zpos, zout, buf, file.len),
           ~(Flushed(file, zout, buf, q) > zout)
    PROVE  zout = Total(file)
<1>1. zout <= file.cum[zpos] /\ buf \in Nat \ {0} /\ file.len \in 0..file.len
  BY Ranges DEF Core, InStep, CallState
<1>2. file.cum[q] = zout /\ (q = file.len \/ (q \in file.ends /\ q > zpos))
  BY <1>1, Ranges, NothingMade
<1>3. CASE q = file.len
  BY <1>2, <1>3 DEF Total
<1>4. CASE q # file.len
  <2>1. q \in file.ends /\ zpos < q /\ q < file.len /\ zpos # file.len
    BY <1>2, <1>4, Ranges DEF StopPoints
  <2> QED BY <1>2, <2>1, DryFrame
<1> QED BY <1>3, <1>4

\* Every behaviour of a decoder on one slice is one of a reader.
THEOREM Implements == Spec => IsAReader
<1>1. Init => Contract!Init
  <2> SUFFICES ASSUME Init PROVE Contract!Init
    OBVIOUS
  <2>1. Total(file) \in Nat
    BY FilesAssumption DEF Init, IsStream, Total
  <2> QED BY <2>1 DEF Init, Contract!Init, Complete, Sound, MappingWhole, NoDryFrame
<1>2. IInv /\ [Next]_vars => [Contract!Next]_Contract!vars
  <2> SUFFICES ASSUME Core, [Next]_vars
               PROVE  [Contract!Next]_Contract!vars
    BY DEF IInv
  <2> USE DEF Contract!Next, Contract!vars, Contract!Answer
  <2>1. ASSUME NEW n \in BufLens, CallRead(n)
        PROVE  Contract!Ask(n)
    BY <2>1, BufLensAssumption
    DEF CallRead, memory, zstd, Core, CallState, Contract!Ask, Total,
        Complete, Sound, MappingWhole, NoDryFrame
  <2>2. CASE Sigbus
    <3>1. pc = "Run" /\ buf > 0 /\ ret = "none" /\ ~Sound
      <4>1. CASE sane
        <5>1. PICK q \in StopPoints(file, zpos, zout, buf, file.len) :
                 zpos < q /\ ~HasPages(q)
          BY <2>2, <4>1 DEF Sigbus
        <5>2. q \in Nat /\ 0 < q /\ q <= file.len
          BY <5>1, Ranges DEF StopPoints
        <5> QED BY <2>2, <5>1, <5>2, SoundFileHasPages DEF Sigbus, Core, CallState
      <4>2. CASE ~sane
        BY <2>2, <4>2 DEF Sigbus, Core, CallState, OnlyUnsound
      <4> QED BY <4>1, <4>2
    <3>2. Contract!Undone
      BY <2>2, <3>1
      DEF Sigbus, zstd, Contract!Undone, Total, Complete, Sound, MappingWhole, NoDryFrame
    <3> QED BY <3>2
  <2>3. CASE RunZstd
    <3>1. /\ pc = "Run" /\ buf > 0 /\ ret = "none"
          /\ UNCHANGED <<file, buf, Total(file), Sound, NoDryFrame(file)>>
      BY <2>3 DEF RunZstd, Core, CallState, Total, Sound, MappingWhole, Complete, NoDryFrame
    <3>2. ASSUME Astray, ~Sound
          PROVE  Contract!Undone \/ Contract!End \/ Contract!Fail
      <4>1. pc' = "Idle" /\ ret' \in {"data", "eof", "error"} /\ zout' = zout
        BY <3>2 DEF Astray, ReturnError
      <4> QED BY <3>1, <3>2, <4>1 DEF Contract!Undone, Contract!End, Contract!Fail
    <3>3. CASE ~sane
      BY <2>3, <3>2, <3>3 DEF RunZstd, Core, OnlyUnsound
    <3> SUFFICES ASSUME sane PROVE [Contract!Next]_Contract!vars
      BY <3>3
    <3>4. PICK q \in StopPoints(file, zpos, zout, buf, file.len) : RunSane(q)
      BY <2>3 DEF RunZstd
    <3>5. CASE Decoded(q)
      <4>1. /\ zout' = Flushed(file, zout, buf, q)
            /\ pc' = "Idle" /\ ret' = Result(zout')
        BY <3>5 DEF Decoded
      <4>2. zout' \in zout..Total(file) /\ zout' <= zout + buf
        BY <4>1, Ranges, ZstdStep DEF Core, TypeOK, InStep
      <4>3. CASE zout' > zout
        <5>1. Contract!Give
          BY <3>1, <4>1, <4>2, <4>3, Ranges DEF Result, Contract!Give
        <5> QED BY <5>1
      <4>4. CASE ~(zout' > zout)
        <5>1. Sound /\ NoDryFrame(file) => zout = Total(file)
          BY <3>1, <4>1, <4>4, NothingLeft DEF Sound, MappingWhole
        <5>2. zout' = zout
          BY <4>2, <4>4, Ranges
        <5>3. Contract!End
          BY <3>1, <4>1, <4>4, <5>1, <5>2 DEF Result, Contract!End
        <5> QED BY <5>3
      <4> QED BY <4>3, <4>4
    <3>6. CASE Rejected(q)
      <4>1. Contract!Fail
        BY <3>1, <3>6, SoundFileDecodes
        DEF Rejected, ReturnError, Contract!Fail
      <4> QED BY <4>1
    <3>7. CASE ~FedTheFile(q) /\ Astray
      BY <3>1, <3>2, <3>7, SoundFileDecodes DEF Fails
    <3> QED BY <3>4, <3>5, <3>6, <3>7 DEF RunSane
  <2>4. ASSUME NEW n \in 0..file.len, Truncate(n)
        PROVE  [Contract!Next]_Contract!vars
    <3>1. fsize' # file.len /\ UNCHANGED <<file, kind, zout, pc, buf, ret>>
      BY <2>4, Ranges DEF Truncate, zstd, call, Core, TypeOK
    <3>2. CASE kind = "Mmap"
      <4>1. Contract!Spoil
        BY <3>1, <3>2 DEF Contract!Spoil, Total, Sound, MappingWhole, NoDryFrame
      <4> QED BY <4>1
    <3>3. CASE kind # "Mmap"
      <4>1. UNCHANGED Contract!vars
        BY <3>1, <3>3 DEF Total, Complete, Sound, MappingWhole, NoDryFrame
      <4> QED BY <4>1
    <3> QED BY <3>2, <3>3
  <2>5. CASE UNCHANGED vars
    BY <2>5 DEF vars, memory, zstd, call, Total, Complete, Sound, MappingWhole, NoDryFrame
  <2> QED BY <2>1, <2>2, <2>3, <2>4, <2>5 DEF Next, ReadStep
<1> QED BY <1>1, <1>2, Invariance, PTL DEF Spec, Contract!Spec, IsAReader

-----------------------------------------------------------------------------
\* Ok(0) comes from a call of zstd that decoded, handed out nothing, and ended
\* at a new frame's end, or at the end of the input.
LEMMA EofStep ==
    ASSUME Core, [Next]_vars, pc = "Run", ret' = "eof", sane'
    PROVE  /\ sane /\ pc' = "Idle" /\ UNCHANGED <<file, buf>>
           /\ \E q \in StopPoints(file, zpos, zout, buf, file.len) :
                 /\ Decoded(q)
                 /\ ~(Flushed(file, zout, buf, q) > zout)
                 /\ file.cum[q] = zout /\ zout' = zout
                 /\ q = file.len \/ (q \in file.ends /\ q > zpos)
<1>1. RunZstd
  BY DEF Next, ReadStep, CallRead, Sigbus, Truncate, vars, call, Core, CallState
<1>2. sane /\ UNCHANGED <<file, buf>>
  BY <1>1 DEF RunZstd, Astray
<1>3. PICK q \in StopPoints(file, zpos, zout, buf, file.len) : Decoded(q)
  BY <1>1, <1>2 DEF RunZstd, RunSane, Rejected, Astray
<1>4. /\ ~(Flushed(file, zout, buf, q) > zout) /\ pc' = "Idle"
      /\ zout' = Flushed(file, zout, buf, q)
  BY <1>3 DEF Decoded, Result
<1>5. /\ zout <= file.cum[zpos] /\ buf \in Nat \ {0} /\ file.len \in 0..file.len
  BY <1>2, Ranges DEF Core, InStep, CallState
<1>6. /\ file.cum[q] = zout /\ Flushed(file, zout, buf, q) = zout
      /\ q = file.len \/ (q \in file.ends /\ q > zpos)
  BY <1>4, <1>5, Ranges, NothingMade
<1> QED BY <1>2, <1>3, <1>4, <1>6

(***************************************************************************)
(* How long a caller who reads on after Ok(0) waits for the error that     *)
(* TruncatedIsInvalid says should have come instead: on a stream cut off   *)
(* inside a frame, an Ok(0) either passed the end of a frame or counts     *)
(* towards the calls without progress at which zstd gives up.              *)
(***************************************************************************)
EofCounts ==
    [][pc = "Run" /\ ret' = "eof" /\ sane' /\ file.len \notin file.hdr =>
          zpos' > zpos \/ stall' = stall + 1]_vars

\* A caller who polls a cut-off stream gets Ok(0) a bounded number of times.
THEOREM CutOffCounted == Spec => EofCounts
<1>1. ASSUME Core, [Next]_vars
      PROVE  [pc = "Run" /\ ret' = "eof" /\ sane' /\ file.len \notin file.hdr =>
                 zpos' > zpos \/ stall' = stall + 1]_vars
  <2> SUFFICES ASSUME pc = "Run", ret' = "eof", sane', file.len \notin file.hdr
               PROVE  zpos' > zpos \/ stall' = stall + 1
    OBVIOUS
  <2>1. PICK q \in StopPoints(file, zpos, zout, buf, file.len) :
          /\ Decoded(q) /\ zout' = zout
          /\ q = file.len \/ (q \in file.ends /\ q > zpos)
    BY <1>1, EofStep
  <2>2. q \in zpos..file.len /\ zpos' = q
    BY <2>1 DEF StopPoints, Decoded
  <2>3. CASE q = zpos
    <3>1. zpos \notin file.hdr
      BY <1>1, <2>1, <2>3, Ranges
    <3>2. Stalled(file, zpos, zout, q, zout')
      BY <2>1, <2>3, <3>1 DEF Stalled
    <3> QED BY <2>1, <3>2 DEF Decoded
  <2>4. CASE q # zpos
    BY <1>1, <2>2, <2>4, Ranges
  <2> QED BY <2>3, <2>4
<1>2. IInv => Core
  BY DEF IInv
<1> QED BY <1>1, <1>2, Invariance, PTL DEF Spec, EofCounts

(***************************************************************************)
(* The two promises that a single call of zstd per read keeps only when    *)
(* every frame but the last has content: Ok(0) comes after all of a        *)
(* complete file, and never hides a byte that does not decode.             *)
(***************************************************************************)
EofMeansDecoded == ret = "eof" /\ sane => file.len < file.bad
EofIsTheEnd     == NoDryFrame(file) => EofMeansAll /\ EofMeansDecoded

\* zstd has not passed the byte that does not decode.
Undamaged == sane => zpos < file.bad

\* On such streams Ok(0) is the end, and the end only.
THEOREM NothingHidden == Spec => []EofIsTheEnd
<1> DEFINE J == Undamaged /\ EofIsTheEnd
<1>1. Init => J
  BY FilesAssumption
  DEF Init, Undamaged, EofIsTheEnd, EofMeansAll, EofMeansDecoded, IsStream
<1>2. IInv /\ J /\ [Next]_vars => J'
  <2> SUFFICES ASSUME Core, J, [Next]_vars PROVE J'
    BY DEF IInv
  <2>0. zpos \in Nat /\ file.bad \in Nat /\ file.len \in Nat
    BY Ranges DEF IsStream
  <2>1. Undamaged'
    <3>1. CASE RunZstd
      <4> SUFFICES ASSUME sane' PROVE zpos' < file.bad
        BY <3>1 DEF Undamaged, RunZstd
      <4>1. PICK q \in StopPoints(file, zpos, zout, buf, file.len) : Decoded(q)
        BY <3>1 DEF RunZstd, RunSane, Rejected, Astray
      <4>2. sane /\ zpos' = q /\ ~Damaged(file, zpos, q) /\ q \in Nat
        BY <4>1, Ranges DEF Decoded, StopPoints
      <4> QED BY <2>0, <4>2 DEF Damaged, Undamaged
    <3>2. CASE ~RunZstd
      <4>1. UNCHANGED <<file, zpos, sane>>
        BY <3>2 DEF Next, ReadStep, CallRead, Sigbus, Truncate, vars, zstd
      <4> QED BY <4>1 DEF Undamaged
    <3> QED BY <3>1, <3>2
  <2>2. CASE pc = "Run" /\ ret' = "eof" /\ sane'
    <3>1. /\ sane /\ pc' = "Idle" /\ UNCHANGED <<file, buf>>
          /\ \E q \in StopPoints(file, zpos, zout, buf, file.len) :
                /\ Decoded(q)
                /\ ~(Flushed(file, zout, buf, q) > zout)
                /\ file.cum[q] = zout /\ zout' = zout
                /\ q = file.len \/ (q \in file.ends /\ q > zpos)
      BY <2>2, EofStep
    <3>2. PICK q \in StopPoints(file, zpos, zout, buf, file.len) :
            /\ Decoded(q)
            /\ ~(Flushed(file, zout, buf, q) > zout)
            /\ file.cum[q] = zout /\ zout' = zout
            /\ q = file.len \/ (q \in file.ends /\ q > zpos)
      BY <3>1
    <3>3. zpos' = q /\ q \in zpos..file.len
      BY <3>2 DEF Decoded, StopPoints
    <3>4. NoDryFrame(file) => q = file.len
      <4>1. q # file.len => zpos < q /\ q < file.len /\ zpos # file.len
        BY <3>2, <3>3, Ranges
      <4> QED BY <3>1, <3>2, <4>1, DryFrame
    <3>5. NoDryFrame(file) => EofMeansAll'
      BY <3>1, <3>2, <3>4 DEF EofMeansAll, Total
    <3>6. NoDryFrame(file) => EofMeansDecoded'
      BY <2>1, <2>2, <3>1, <3>3, <3>4 DEF EofMeansDecoded, Undamaged
    <3> QED BY <2>1, <3>1, <3>5, <3>6 DEF EofIsTheEnd, NoDryFrame
  <2>3. CASE ~(pc = "Run" /\ ret' = "eof" /\ sane')
    <3>1. /\ file' = file
          /\ ret' = "eof" /\ sane' => ret = "eof" /\ sane /\ zout' = zout
      BY <2>3
      DEF Next, ReadStep, RunZstd, CallRead, Sigbus, Truncate, vars, zstd, call
    <3>2. NoDryFrame(file)' <=> NoDryFrame(file)
      BY <3>1 DEF NoDryFrame
    <3> QED BY <2>1, <3>1, <3>2
        DEF EofIsTheEnd, EofMeansAll, EofMeansDecoded, Complete, Total
  <2> QED BY <2>2, <2>3
<1>3. J => EofIsTheEnd
  OBVIOUS
<1> HIDE DEF J
<1> QED BY <1>1, <1>2, <1>3, Invariance, PTL DEF Spec

=============================================================================
