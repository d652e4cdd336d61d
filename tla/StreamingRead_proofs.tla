------------------------ MODULE StreamingRead_proofs ------------------------
(***************************************************************************)
(* Proofs about StreamingRead, for every window, page size, buffer and     *)
(* file, truncated or not.                                                 *)
(***************************************************************************)
EXTENDS StreamingRead, PageLemmas, ZstdLemmas

-----------------------------------------------------------------------------
\* The kernel's view of a range: pages of a part are pages of the whole.
LEMMA PagesOfPart ==
    ASSUME NEW a \in Nat, NEW b \in Nat, NEW c \in Nat, NEW d \in Nat,
           a <= b, c <= d
    PROVE  Pages(b, c) \subseteq Pages(a, d)
<1>1. CASE b >= c
  BY <1>1 DEF Pages
<1>2. CASE b < c
  <2>1. a \div OsPage <= b \div OsPage
    BY DivMonotone, WindowAssumption
  <2>2. (c - 1) \div OsPage <= (d - 1) \div OsPage
    BY <1>2, DivMonotone, WindowAssumption
  <2>3. /\ a \div OsPage \in Nat /\ b \div OsPage \in Nat
        /\ (c - 1) \div OsPage \in Nat /\ (d - 1) \div OsPage \in Nat
    BY <1>2, DivMod, WindowAssumption
  <2> QED BY <1>2, <2>1, <2>2, <2>3 DEF Pages
<1> QED BY <1>1, <1>2

\* The frontier stays a window behind, unless it is still at the start, and
\* no more than a window and a page.
LEMMA FrontierBounds ==
    ASSUME NEW p \in Nat
    PROVE  /\ Frontier(p) \in 0..p
           /\ Frontier(p) > 0 => Frontier(p) + Capacity <= p
           /\ p < Frontier(p) + Capacity + PageSize
<1>1. SaturatingSub(p, Capacity) \in Nat
  BY WindowAssumption DEF SaturatingSub
<1>2. /\ Frontier(p) \in 0..SaturatingSub(p, Capacity)
      /\ SaturatingSub(p, Capacity) < Frontier(p) + PageSize
  BY <1>1, RoundDown, WindowAssumption DEF Frontier, AlignDown
<1> QED BY <1>1, <1>2, WindowAssumption DEF SaturatingSub

-----------------------------------------------------------------------------
\* Typing facts that every step below starts from.
LEMMA Ranges ==
    ASSUME Core
    PROVE  /\ IsStream(file) /\ file.len \in Nat /\ Total(file) \in Nat
           /\ src_pos \in Nat /\ scratch_len \in Nat /\ scratch_in_pos \in Nat
           /\ retire_pos \in Nat /\ fsize \in Nat /\ buf \in Nat
           /\ Capacity \in Nat \ {0} /\ OsPage \in Nat \ {0}
           /\ zpos \in Nat /\ zout \in Nat
           /\ Consumed \in 0..file.len
<1>1. IsStream(file)
  BY FilesAssumption DEF Core, TypeOK
<1>2. file.len \in Nat /\ Total(file) \in Nat
  BY <1>1 DEF IsStream, Total
<1>3. Consumed \in 0..file.len
  <2>1. zpos \in 0..file.len /\ 0 \notin file.ends
    BY <1>1 DEF Core, TypeOK, IsStream
  <2> QED BY <1>2, <2>1 DEF Consumed, Reported, Held
<1> QED
  BY <1>1, <1>2, <1>3, BufLensAssumption, WindowAssumption DEF Core, TypeOK

\* The input slice ends inside the file.
LEMMA InputEndRange ==
    ASSUME Core
    PROVE  /\ InputEnd \in 0..file.len
           /\ scratch_len - scratch_in_pos \in Nat
           /\ InputEnd <= Consumed + (scratch_len - scratch_in_pos)
<1>1. scratch_len - scratch_in_pos \in Nat
  BY Ranges DEF Core, TypeOK
<1> QED BY <1>1, Ranges DEF InputEnd

\* Nothing was read yet: the invariant holds at first.
LEMMA InitInvariant == Init => Core
<1> SUFFICES ASSUME Init PROVE Core
  OBVIOUS
<1>1. IsStream(file)
  BY FilesAssumption DEF Init
<1>2. file.len \in Nat /\ file.cum[0] = 0 /\ 0 \notin file.ends /\ Total(file) \in Nat
  BY <1>1 DEF IsStream, Total
<1>3. TypeOK
  BY <1>2, WindowAssumption DEF Init, TypeOK
<1>4. CursorsAgree
  BY <1>2 DEF Init, CursorsAgree, Consumed, Reported, Held
<1>5. ScratchIsFile
  BY DEF Init, ScratchIsFile
<1>6. DroppedBehind /\ NeverEmptyInput /\ EofMeansAll /\ CallState /\ OnlyUnsound
  BY DEF Init, CallState, OnlyUnsound, DroppedBehind, NeverEmptyInput, EofMeansAll
<1> QED BY <1>3, <1>4, <1>5, <1>6 DEF Core

-----------------------------------------------------------------------------
\* Steps that leave the window, the pages and zstd alone.
LEMMA CallReadInvariant ==
    ASSUME Core, NEW n \in BufLens, CallRead(n)
    PROVE  Core'
<1> USE DEF CallRead, window, memory, zstd
<1>1. TypeOK'
  BY DEF Core, TypeOK, AllPages, Pages, Total
<1>2. CursorsAgree' /\ ScratchIsFile' /\ DroppedBehind'
  BY DEF Core, CursorsAgree, Consumed, Reported, Held, ScratchIsFile,
         DroppedBehind, Pages
<1>3. CallState' /\ OnlyUnsound' /\ NeverEmptyInput' /\ EofMeansAll'
  BY BufLensAssumption
  DEF Core, CallState, OnlyUnsound, Sound, Complete, NeverEmptyInput, EofMeansAll
<1> QED BY <1>1, <1>2, <1>3 DEF Core

LEMMA ReturnEofInvariant ==
    ASSUME Core, ReturnEof
    PROVE  Core'
<1> USE DEF ReturnEof, window, memory, zstd
<1>1. TypeOK'
  BY DEF Core, TypeOK, AllPages, Pages, Total
<1>2. /\ CursorsAgree' /\ ScratchIsFile' /\ DroppedBehind'
      /\ CallState' /\ OnlyUnsound' /\ NeverEmptyInput'
  BY DEF Core, CursorsAgree, Consumed, Reported, Held, ScratchIsFile,
         DroppedBehind, Pages, CallState, OnlyUnsound, Sound, Complete,
         NeverEmptyInput
<1>3. EofMeansAll'
  <2> SUFFICES ASSUME Complete(file), sane PROVE zout = Total(file)
    BY DEF EofMeansAll, Complete, Total
  <2>1. Consumed = file.len /\ zpos \in 0..file.len /\ file.len \in Nat
    BY Ranges DEF Core, TypeOK, CursorsAgree, Exhausted, AtEnd
  <2>2. zpos = file.len /\ Held(file, zpos, zout) = 0
    BY <2>1 DEF Consumed, Reported, Held
  <2>3. zout \in Nat /\ Total(file) \in Nat /\ zout <= Total(file)
    BY Ranges DEF Core, TypeOK
  <2>4. CASE file.len \in file.ends
    BY <2>2, <2>3, <2>4 DEF Held, Total
  <2>5. CASE file.len = 0
    BY <2>3, <2>5, Ranges DEF Core, IsStream, Total
  <2> QED BY <2>4, <2>5 DEF Complete
<1> QED BY <1>1, <1>2, <1>3 DEF Core

LEMMA KeepScratchInvariant ==
    ASSUME Core, KeepScratch \/ Sigbus
    PROVE  Core'
<1> USE DEF KeepScratch, Sigbus, window, memory, zstd
<1>1. TypeOK'
  BY DEF Core, TypeOK, AllPages, Pages, Total
<1>2. CursorsAgree'
  BY DEF Core, CursorsAgree, Consumed, Reported, Held
<1>5. ScratchIsFile' /\ DroppedBehind'
  BY DEF Core, ScratchIsFile, DroppedBehind, Pages
<1>3. NeverEmptyInput'
  BY Ranges DEF Core, NeverEmptyInput, Exhausted, TypeOK
<1>4. CallState' /\ OnlyUnsound' /\ EofMeansAll'
  BY DEF Core, CallState, OnlyUnsound, Sound, Complete, EofMeansAll
<1> QED BY <1>1, <1>2, <1>3, <1>4, <1>5 DEF Core

LEMMA TruncateInvariant ==
    ASSUME Core, NEW n \in 0..file.len, Truncate(n)
    PROVE  Core'
<1> USE DEF Truncate, window, zstd, call
<1>1. TypeOK'
  BY DEF Core, TypeOK, AllPages, Pages, Total
<1>2. OnlyUnsound'
  BY Ranges DEF OnlyUnsound, Sound, Core, TypeOK
<1>4. CursorsAgree' /\ DroppedBehind' /\ CallState' /\ NeverEmptyInput' /\ EofMeansAll'
  BY DEF Core, CursorsAgree, Consumed, Reported, Held,
         DroppedBehind, Pages, CallState, NeverEmptyInput, EofMeansAll
<1>3. ScratchIsFile'
  BY Ranges DEF Core, ScratchIsFile
<1> QED BY <1>1, <1>2, <1>3, <1>4 DEF Core

-----------------------------------------------------------------------------
\* The copy of the next window, and the retirement that follows it.
LEMMA RefillInvariant ==
    ASSUME Core, Refill
    PROVE  Core'
<1> USE DEF zstd
<1>1. /\ Chunk \in 1..Capacity
      /\ src_pos + Chunk \in 0..file.len
      /\ src_pos + Chunk \in Nat
  BY Ranges DEF Refill, AtEnd, Chunk
<1>2. /\ src_pos' = src_pos + Chunk
      /\ scratch_len' = Chunk
      /\ scratch_in_pos' = 0
      /\ scratch' = Copied(Chunk)
      /\ UNCHANGED <<file, fsize, zpos, zout, sane, buf, ret>>
      /\ pc' = "Run"
  BY DEF Refill
<1>3. DroppedBehind' /\ retire_pos' \in 0..file.len
      /\ resident' \subseteq AllPages /\ dropped' \subseteq AllPages
  <2> DEFINE p  == src_pos + Chunk
             fr == Frontier(p)
  <2>1. fr \in 0..p /\ (fr > 0 => fr + Capacity <= p)
    BY <1>1, FrontierBounds
  <2>2. Pages(src_pos, p) \subseteq AllPages
    BY <1>1, Ranges, PagesOfPart DEF Core, AllPages
  <2>3. CASE fr > retire_pos
    <3>1. /\ retire_pos' = fr
          /\ resident' \subseteq resident \cup Pages(src_pos, p)
          /\ dropped' = dropped \cup Pages(retire_pos, fr)
      BY <2>3 DEF Refill, RetireSrc, Discarded
    <3>2. Pages(0, retire_pos) \subseteq Pages(0, fr)
      BY <2>1, <2>3, <1>1, Ranges, PagesOfPart DEF Core
    <3>3. Pages(retire_pos, fr) \subseteq Pages(0, fr)
      BY <2>1, <1>1, Ranges, PagesOfPart DEF Core
    <3>4. Pages(0, fr) \subseteq AllPages
      BY <2>1, <1>1, Ranges, PagesOfPart DEF Core, AllPages
    <3>5. dropped' \subseteq Pages(0, fr)
      BY <3>1, <3>2, <3>3 DEF Core, DroppedBehind
    <3>7. fr \in 0..file.len
      BY <2>1, <1>1, Ranges DEF Core
    <3>8. resident' \subseteq AllPages
      BY <2>2, <3>1 DEF Core, TypeOK
    <3>9. DroppedBehind'
      BY <1>2, <2>1, <3>1, <3>5 DEF DroppedBehind, Pages
    <3> QED BY <3>1, <3>4, <3>5, <3>7, <3>8, <3>9
  <2>4. CASE ~(fr > retire_pos)
    <3>1. /\ retire_pos' = retire_pos
          /\ resident' = resident \cup Pages(src_pos, p)
          /\ dropped' = dropped
      BY <2>4 DEF Refill, RetireSrc
    <3>2. DroppedBehind'
      BY <1>1, <1>2, <3>1, Ranges DEF Core, DroppedBehind, Pages
    <3> QED BY <2>2, <3>1, <3>2 DEF Core, TypeOK
  <2> QED BY <2>3, <2>4
<1>4. scratch' \in [0..(Capacity - 1) -> Nat \cup {Zero}]
  BY <1>2, Ranges DEF Core, TypeOK, Copied, SourceByte
<1>5. AllPages' = AllPages
  BY <1>2 DEF AllPages, Pages
<1>6. TypeOK'
  BY <1>1, <1>2, <1>3, <1>4, <1>5 DEF Core, TypeOK, Total
<1>7. CursorsAgree'
  BY <1>1, <1>2, Ranges
  DEF Core, CursorsAgree, Refill, Exhausted, Consumed, Reported, Held
<1>8. ScratchIsFile'
  <2> SUFFICES ASSUME NEW i \in 0..(Chunk - 1)
               PROVE  LET o == src_pos' - scratch_len' + i
                      IN  scratch'[i] = o \/ (scratch'[i] = Zero /\ o >= fsize')
    BY <1>2 DEF ScratchIsFile
  <2>1. src_pos' - scratch_len' + i = src_pos + i
    BY <1>1, <1>2, Ranges
  <2>2. scratch'[i] = SourceByte(src_pos + i)
    <3>1. i \in 0..(Capacity - 1) /\ i < Chunk
      BY <1>1, WindowAssumption
    <3>2. Copied(Chunk)[i] = SourceByte(src_pos + i)
      BY <3>1 DEF Copied
    <3> QED BY <1>2, <3>2
  <2>3. fsize' = fsize /\ fsize \in Nat /\ src_pos + i \in Nat
    BY <1>1, <1>2, Ranges
  <2>4. SourceByte(src_pos + i) = src_pos + i
        \/ (SourceByte(src_pos + i) = Zero /\ src_pos + i >= fsize)
    BY <2>3 DEF SourceByte
  <2> QED BY <2>1, <2>2, <2>3, <2>4
<1>9. CallState' /\ OnlyUnsound' /\ NeverEmptyInput' /\ EofMeansAll'
  BY <1>1, <1>2
  DEF Core, Refill, CallState, OnlyUnsound, Sound, NeverEmptyInput, EofMeansAll,
      Complete, Total
<1> QED BY <1>3, <1>6, <1>7, <1>8, <1>9 DEF Core

\* What zstd is wrongly fed, or rejects, is never the fault of a sound file.
LEMMA SoundFileDecodes ==
    ASSUME Core, sane,
           NEW q \in StopPoints(file, zpos, zout, buf, InputEnd),
           ~FedTheFile(q) \/ Damaged(file, zpos, q)
    PROVE  ~Sound
<1>1. q \in zpos..InputEnd /\ InputEnd \in 0..file.len
      /\ InputEnd <= Consumed + (scratch_len - scratch_in_pos)
  BY InputEndRange DEF StopPoints
<1>2. CASE Damaged(file, zpos, q)
  BY <1>1, <1>2, Ranges DEF Damaged, Complete, IsStream, Sound
<1>3. CASE ~FedTheFile(q)
  <2>1. PICK k \in Consumed..(q - 1) :
           scratch[scratch_in_pos + (k - Consumed)] # k
    BY <1>3 DEF FedTheFile
  <2> DEFINE i == scratch_in_pos + (k - Consumed)
  <2>2. i \in 0..(scratch_len - 1)
    <3>1. q \in Nat /\ q <= Consumed + (scratch_len - scratch_in_pos)
      BY <1>1, Ranges
    <3>2. k \in Nat /\ Consumed <= k /\ k < q
      BY <2>1, <3>1, Ranges
    <3>3. /\ Consumed \in Nat /\ scratch_in_pos \in Nat
          /\ scratch_len \in Nat
      BY Ranges
    <3> QED BY <3>1, <3>2, <3>3
  <2>3. src_pos - scratch_len + i = k
    <3>1. Consumed = src_pos - (scratch_len - scratch_in_pos)
      BY DEF Core, CursorsAgree
    <3>2. /\ k \in Int /\ src_pos \in Nat /\ scratch_in_pos \in Nat
          /\ scratch_len \in Nat /\ Consumed \in Nat
      BY <2>1, Ranges
    <3> QED BY <3>1, <3>2
  <2>4. k >= fsize /\ k < file.len
    BY <1>1, <2>1, <2>2, <2>3, Ranges DEF Core, ScratchIsFile
  <2> QED BY <2>1, <2>4, Ranges DEF Sound
<1> QED BY <1>2, <1>3

\* The call of zstd after an error, or on bytes that are not the file's.
LEMMA AstrayInvariant ==
    ASSUME Core, pc = "Run", Astray, ~Sound,
           UNCHANGED <<file, fsize, memory, buf>>
    PROVE  Core'
<1> USE DEF memory
<1>1. /\ scratch_in_pos' \in scratch_in_pos..scratch_len
      /\ pc' \in {"Idle", "Top"}
      /\ ret' \in {"data", "error", ret}
      /\ pc' = "Top" => ret' = ret
      /\ ~sane' /\ sane' \in BOOLEAN
      /\ UNCHANGED <<src_pos, scratch, scratch_len, zpos, zout>>
  <2>1. scratch_in_pos \in Nat /\ scratch_len \in Nat /\ scratch_in_pos <= scratch_len
    BY Ranges DEF Core, TypeOK
  <2>2. scratch_in_pos' \in scratch_in_pos..scratch_len
    BY <2>1 DEF Astray
  <2>3. /\ pc' \in {"Idle", "Top"}
        /\ ret' \in {"data", "error", ret}
        /\ pc' = "Top" => ret' = ret
    BY DEF Astray, Finish
  <2> QED BY <2>2, <2>3 DEF Astray
<1>2. ret = "none" /\ buf > 0
  BY DEF Core, CallState
<1>3. TypeOK'
  <2>1. scratch_in_pos' \in 0..scratch_len'
    BY <1>1, Ranges
  <2>2. ret' \in {"none", "empty", "data", "eof", "error"}
    BY <1>1, <1>2
  <2>3. /\ file' \in Files /\ fsize' \in 0..file'.len /\ src_pos' \in 0..file'.len
        /\ scratch' \in [0..(Capacity - 1) -> Nat \cup {Zero}]
        /\ scratch_len' \in 0..Capacity /\ retire_pos' \in 0..file'.len
        /\ zpos' \in 0..file'.len /\ zout' \in 0..Total(file)'
        /\ resident' \subseteq AllPages' /\ dropped' \subseteq AllPages'
        /\ buf' \in BufLens \cup {0} /\ pc' \in {"Idle", "Top", "Run", "Killed"}
    BY <1>1 DEF Core, TypeOK, AllPages, Pages, Total
  <2> QED BY <1>1, <2>1, <2>2, <2>3 DEF TypeOK
<1>4. CursorsAgree'
  BY <1>1 DEF Core, CursorsAgree
<1>5. ScratchIsFile' /\ DroppedBehind'
  BY <1>1 DEF Core, ScratchIsFile, DroppedBehind, Pages
<1>6. OnlyUnsound'
  BY DEF OnlyUnsound, Sound, Complete
<1>7. CallState' /\ NeverEmptyInput' /\ EofMeansAll'
  BY <1>1, <1>2 DEF CallState, NeverEmptyInput, EofMeansAll
<1> QED BY <1>3, <1>4, <1>5, <1>6, <1>7 DEF Core

\* The call of zstd.
LEMMA RunZstdInvariant ==
    ASSUME Core, RunZstd
    PROVE  Core'
<1> USE DEF memory
<1>1. UNCHANGED <<file, fsize, retire_pos, resident, dropped, buf>>
  BY DEF RunZstd
<1>2. CASE ~sane
  <2>1. Astray /\ ~Sound
    BY <1>2 DEF RunZstd, Core, OnlyUnsound
  <2> QED BY <1>1, <2>1, AstrayInvariant DEF RunZstd
<1> SUFFICES ASSUME sane PROVE Core'
  BY <1>2
<1>5. PICK q \in StopPoints(file, zpos, zout, buf, InputEnd) : RunSane(q)
  BY DEF RunZstd
<1>6. CASE ~FedTheFile(q) /\ Astray
  <2>1. ~Sound
    BY <1>6, SoundFileDecodes
  <2> QED BY <1>1, <1>6, <2>1, AstrayInvariant DEF RunZstd
<1>3. CASE Rejected(q)
  <2> USE DEF Rejected, window
  <2>1. ~Sound
    BY <1>3, SoundFileDecodes
  <2>2. TypeOK'
    BY <1>1, <1>3 DEF Core, TypeOK, AllPages, Pages, Total
  <2>3. CursorsAgree' /\ ScratchIsFile' /\ DroppedBehind'
    BY <1>1, <1>3 DEF Core, CursorsAgree, ScratchIsFile, DroppedBehind, Pages
  <2>4. CallState' /\ OnlyUnsound' /\ NeverEmptyInput' /\ EofMeansAll'
    BY <1>1, <1>3, <2>1
    DEF CallState, OnlyUnsound, Sound, Complete, NeverEmptyInput, EofMeansAll
  <2> QED BY <2>2, <2>3, <2>4 DEF Core
<1>4. CASE Decoded(q)
  <2> DEFINE fl == Flushed(file, zout, buf, q)
             rep == Reported(file, q, fl)
             avail == scratch_len - scratch_in_pos
  <2>1. /\ zpos' = q /\ zout' = fl
        /\ scratch_in_pos' = scratch_in_pos + (rep - Consumed)
        /\ UNCHANGED <<src_pos, scratch, scratch_len, sane>>
        /\ Finish(fl)
    BY <1>4 DEF Decoded
  <2>2. InputEnd \in 0..file.len /\ InputEnd <= Consumed + avail /\ avail \in Nat
    BY InputEndRange
  <2>3. /\ q \in zpos..InputEnd
        /\ fl \in zout..Total(file)
        /\ fl <= file.cum[q]
        /\ rep \in Consumed..InputEnd
    BY <2>2, Ranges, ZstdStep DEF Core, TypeOK, CursorsAgree, Consumed
  <2> HIDE DEF fl, rep
  <2>4. scratch_in_pos' \in 0..scratch_len'
    <3>1. scratch_in_pos \in 0..scratch_len
      BY DEF Core, TypeOK
    <3>2. rep - Consumed \in 0..avail
      BY <2>2, <2>3, Ranges
    <3> QED BY <2>1, <3>1, <3>2, Ranges
  <2>5. pc' \in {"Idle", "Top"} /\ ret' \in {"data", ret}
    BY <2>1 DEF Finish
  <2>6. TypeOK'
    <3>1. zpos' \in 0..file.len /\ zout' \in 0..Total(file)
      BY <2>1, <2>2, <2>3, Ranges
    <3> QED
      BY <1>1, <2>1, <2>4, <2>5, <3>1 DEF Core, TypeOK, AllPages, Pages, Total
  <2>7. CursorsAgree'
    <3>1. Consumed' = rep
      BY <1>1, <2>1 DEF Consumed, rep, fl
    <3> QED
      BY <1>1, <2>1, <2>3, <2>4, <3>1, <2>2, Ranges DEF Core, TypeOK, CursorsAgree
  <2>8. /\ ScratchIsFile' /\ DroppedBehind'
      /\ CallState' /\ OnlyUnsound' /\ NeverEmptyInput'
    <3>1. ret = "none" /\ buf > 0
      BY DEF Core, CallState, RunZstd
    <3>2. pc' = "Top" => ret' = ret
      BY <2>1 DEF Finish
    <3>3. CallState'
      BY <1>1, <2>5, <3>1, <3>2 DEF CallState
    <3> QED
      BY <1>1, <2>1, <2>5, <3>3
      DEF Core, ScratchIsFile, DroppedBehind, Pages, NeverEmptyInput,
          OnlyUnsound, Sound, Complete
  <2>9. EofMeansAll'
    <3>1. ret' = "eof" => ret = "eof" /\ zout' = zout
      BY <2>1, <2>3, Ranges DEF Finish
    <3> QED BY <1>1, <3>1 DEF Core, EofMeansAll, Complete, Total
  <2> QED BY <2>6, <2>7, <2>8, <2>9 DEF Core
<1> QED BY <1>3, <1>4, <1>5, <1>6 DEF RunSane

\* Every step keeps it: one lemma per action.
LEMMA CoreInvariant == Core /\ [Next]_vars => Core'
<1> SUFFICES ASSUME Core, [Next]_vars PROVE Core'
  OBVIOUS
<1>1. ASSUME NEW n \in BufLens, CallRead(n) PROVE Core'
  BY <1>1, CallReadInvariant
<1>2. CASE ReadStep
  BY <1>2, ReturnEofInvariant, RefillInvariant, KeepScratchInvariant,
     RunZstdInvariant DEF ReadStep
<1>3. ASSUME NEW n \in 0..file.len, Truncate(n) PROVE Core'
  BY <1>3, TruncateInvariant
<1>4. CASE UNCHANGED vars
  BY <1>4 DEF vars, window, memory, zstd, call, Core, TypeOK, AllPages, Pages,
     Total, CursorsAgree, Consumed, Reported, Held, ScratchIsFile,
     DroppedBehind, CallState, OnlyUnsound, Sound, Complete, NeverEmptyInput,
     EofMeansAll
<1> QED BY <1>1, <1>2, <1>3, <1>4 DEF Next

\* The pages up to b are those up to a and those from there on.
LEMMA PagesJoin ==
    ASSUME NEW a \in Nat, NEW b \in Nat
    PROVE  Pages(0, b) \subseteq Pages(0, a) \cup Pages(a, b)
<1> USE WindowAssumption
<1>1. CASE a = 0
  BY <1>1
<1>2. CASE b <= a
  BY <1>2, PagesOfPart
<1>3. CASE 0 < a /\ a < b
  <2>1. a - 1 \in Nat /\ a = (a - 1) + 1
    BY <1>3
  <2>2. a \div OsPage <= ((a - 1) \div OsPage) + 1
    BY <2>1, DivNext
  <2>3. (a - 1) \div OsPage \in Nat /\ a \div OsPage \in Nat
    BY <2>1, DivMod
  <2> QED BY <1>3, <2>2, <2>3 DEF Pages
<1> QED BY <1>1, <1>2, <1>3

\* Pages a window behind the copy are not those it touches.
LEMMA PagesApart ==
    ASSUME Core, NEW b \in Nat
    PROVE  Pages(src_pos, b) \cap Pages(0, retire_pos) = {}
<1>1. CASE retire_pos = 0
  BY <1>1 DEF Pages
<1>2. CASE retire_pos > 0
  <2>1. /\ retire_pos \in Nat /\ src_pos \in Nat
        /\ Capacity \in Nat \ {0} /\ OsPage \in Nat \ {0}
        /\ retire_pos + Capacity <= src_pos
    BY <1>2, Ranges DEF Core, DroppedBehind
  <2>2. OsPage <= Capacity
    BY <2>1, WindowAssumption
  <2>3. (retire_pos - 1) + OsPage <= src_pos /\ retire_pos - 1 \in Nat
    BY <1>2, <2>1, <2>2
  <2>4. (retire_pos - 1) \div OsPage < src_pos \div OsPage
    BY <2>1, <2>3, DivStrict
  <2>5. (retire_pos - 1) \div OsPage \in Nat /\ src_pos \div OsPage \in Nat
    BY <2>1, <2>3, DivMod
  <2>6. ASSUME NEW x \in Pages(src_pos, b), x \in Pages(0, retire_pos)
        PROVE  FALSE
    BY <2>4, <2>5, <2>6 DEF Pages
  <2> QED BY <2>6
<1> QED BY <1>1, <1>2, Ranges

\* The copy keeps nothing that lies before the frontier.
LEMMA RefillKeepsNone ==
    ASSUME Core, NoneKept, Refill
    PROVE  NoneKept'
<1> DEFINE p  == src_pos + Chunk
           fr == Frontier(p)
<1>1. /\ p \in Nat /\ src_pos <= p /\ src_pos \in Nat /\ retire_pos \in Nat
      /\ src_pos' = p /\ RetireSrc(p, Pages(src_pos, p))
  BY Ranges DEF Refill, AtEnd, Chunk
<1>0. file' = file
  BY DEF Refill
<1> HIDE DEF p
<1>2. fr \in Nat /\ p < fr + Capacity + PageSize
  BY <1>1, FrontierBounds
<1>8. p < file.len => p % PageSize = 0 /\ p <= fr + Capacity
  <2> SUFFICES ASSUME p < file.len
               PROVE  p % PageSize = 0 /\ p <= fr + Capacity
    OBVIOUS
  <2>1. p = src_pos + Capacity /\ src_pos < file.len
    BY Ranges DEF p, Chunk
  <2>2. src_pos % PageSize = 0
    BY <2>1 DEF NoneKept
  <2>3. p % PageSize = 0
    BY <1>1, <2>1, <2>2, AlignedSum, WindowAssumption
  <2>4. fr = src_pos
    BY <1>1, <2>1, <2>2, WindowAssumption
    DEF fr, Frontier, AlignDown, SaturatingSub
  <2> QED BY <1>1, <2>1, <2>3, <2>4
<1> HIDE DEF fr
<1>3. /\ Pages(0, src_pos) \subseteq Pages(0, p)
      /\ Pages(src_pos, p) \subseteq Pages(0, p)
  BY <1>1, PagesOfPart
<1>4. Pages(src_pos, p) \cap Pages(0, retire_pos) = {}
  BY <1>1, PagesApart
<1>5. resident \subseteq Pages(0, src_pos) \ Pages(0, retire_pos)
  BY DEF NoneKept
<1>6. CASE fr > retire_pos
  <2>1. /\ retire_pos' = fr
        /\ resident' = (resident \cup Pages(src_pos, p)) \ Pages(retire_pos, fr)
    BY <1>1, <1>6 DEF RetireSrc, Discarded, fr
  <2>2. Pages(0, fr) \subseteq Pages(0, retire_pos) \cup Pages(retire_pos, fr)
    BY <1>1, <1>2, PagesJoin
  <2>3. resident' \subseteq Pages(0, p) \ Pages(0, fr)
    BY <1>3, <1>4, <1>5, <2>1, <2>2
  <2> QED BY <1>0, <1>1, <1>2, <1>8, <2>1, <2>3 DEF NoneKept, Pages
<1>7. CASE ~(fr > retire_pos)
  <2>1. retire_pos' = retire_pos /\ resident' = resident \cup Pages(src_pos, p)
    BY <1>1, <1>7 DEF RetireSrc, fr
  <2>2. p < retire_pos + Capacity + PageSize
    BY <1>1, <1>2, <1>7, WindowAssumption
  <2>3. resident' \subseteq Pages(0, p) \ Pages(0, retire_pos)
    BY <1>3, <1>4, <1>5, <2>1
  <2>4. p < file.len => p <= retire_pos + Capacity
    BY <1>1, <1>2, <1>7, <1>8, WindowAssumption
  <2> QED BY <1>0, <1>1, <1>8, <2>1, <2>2, <2>3, <2>4 DEF NoneKept, Pages
<1> QED BY <1>6, <1>7

LEMMA StepInvariant == IInv /\ [Next]_vars => IInv'
<1> SUFFICES ASSUME Core, NoneKept, [Next]_vars PROVE NoneKept'
  BY CoreInvariant DEF IInv
<1>1. CASE Refill
  BY <1>1, RefillKeepsNone
<1>2. CASE ~Refill
  <2>1. UNCHANGED <<file, src_pos, retire_pos>> /\ resident' \subseteq resident
    BY <1>2
    DEF Next, ReadStep, CallRead, ReturnEof, Sigbus, KeepScratch, RunZstd,
        RunSane, Decoded, Rejected, Astray, Truncate, window, memory, vars
  <2> QED BY <2>1 DEF NoneKept, Pages
<1> QED BY <1>1, <1>2

\* The inductive invariant holds throughout.
THEOREM Invariance == Spec => []IInv
<1>1. Init => IInv
  <2>1. 0 % PageSize = 0
    BY WindowAssumption
  <2> QED BY <2>1, InitInvariant, WindowAssumption DEF Init, IInv, NoneKept
<1> QED BY <1>1, StepInvariant, PTL DEF Spec

-----------------------------------------------------------------------------
\* Types and ranges, for every constant.
THEOREM TypeCorrect == Spec => []TypeOK
<1>1. IInv => TypeOK
  BY DEF IInv, Core
<1> QED BY <1>1, Invariance, PTL

\* zstd is never called with an empty input slice.
THEOREM InputNeverEmpty == Spec => []NeverEmptyInput
<1>1. IInv => NeverEmptyInput
  BY DEF IInv, Core
<1> QED BY <1>1, Invariance, PTL

\* zstd is given the bytes of the file in their order, through every refill.
THEOREM InOrder == Spec => []FedInOrder
<1>1. IInv => FedInOrder
  <2> SUFFICES ASSUME Core, sane,
                      NEW i \in scratch_in_pos..(scratch_len - 1)
               PROVE  LET o == Consumed + (i - scratch_in_pos)
                      IN  scratch[i] = o \/ (scratch[i] = Zero /\ o >= fsize)
    BY DEF FedInOrder, IInv
  <2>1. i \in 0..(scratch_len - 1)
    BY Ranges
  <2>2. Consumed + (i - scratch_in_pos) = src_pos - scratch_len + i
    BY Ranges DEF Core, CursorsAgree
  <2> QED BY <2>1, <2>2 DEF Core, ScratchIsFile
<1> QED BY <1>1, Invariance, PTL

\* Ok(0) on a complete file comes after all of its content.
THEOREM NothingLost == Spec => []EofMeansAll
<1>1. IInv => EofMeansAll
  BY DEF IInv, Core
<1> QED BY <1>1, Invariance, PTL

\* A source page that was given back is never touched again.
THEOREM NeverRefaults == Spec => NoRefault
<1>1. ASSUME Core, [Next]_vars
      PROVE  [(resident' \ resident) \cap dropped = {}]_vars
  <2>1. CASE Refill
    <3>1. resident' \subseteq resident \cup Pages(src_pos, src_pos + Chunk)
      BY <2>1 DEF Refill, RetireSrc
    <3>2. dropped \subseteq Pages(0, retire_pos)
      BY <1>1 DEF Core, DroppedBehind
    <3>3. Pages(src_pos, src_pos + Chunk) \cap Pages(0, retire_pos) = {}
      <4>1. src_pos + Chunk \in Nat
        BY <1>1, <2>1, Ranges DEF Refill, AtEnd, Chunk
      <4> QED BY <1>1, <4>1, PagesApart
    <3> QED BY <3>1, <3>2, <3>3
  <2>2. CASE ~Refill
    <3>1. resident' \subseteq resident
      BY <1>1, <2>2
      DEF Next, ReadStep, CallRead, ReturnEof, Sigbus, KeepScratch, RunZstd,
          Truncate, memory, vars
    <3> QED BY <3>1
  <2> QED BY <2>1, <2>2
<1>2. IInv /\ [Next]_vars => [(resident' \ resident) \cap dropped = {}]_vars
  BY <1>1 DEF IInv
<1> QED BY <1>2, Invariance, PTL DEF Spec, NoRefault

-----------------------------------------------------------------------------
\* The pages of a stretch of the file, in bytes.
LEMMA SpanInBytes ==
    ASSUME NEW r \in Nat, NEW p \in Nat, r <= p,
           NEW S \in SUBSET (Pages(0, p) \ Pages(0, r))
    PROVE  /\ Cardinality(S) \in Nat
           /\ Cardinality(S) * OsPage <= (p - r) + (OsPage - 1)
<1> DEFINE n == Cardinality(S)
           h == (p - 1) \div OsPage
           l == (r - 1) \div OsPage
<1> USE WindowAssumption
<1>1. CASE p = 0
  <2>1. S = {} /\ Cardinality({}) = 0
    BY <1>1, FS_EmptySet DEF Pages
  <2> QED BY <1>1, <2>1
<1>2. CASE p > 0 /\ r = 0
  <2>1. p - 1 \in Nat /\ h \in Nat /\ 0 \div OsPage = 0
    <3>1. p - 1 \in Nat
      BY <1>2
    <3> QED BY <3>1, DivMod, DivZero
  <2>2. S \in SUBSET (0..h)
    BY <1>2, <2>1 DEF Pages
  <2>3. OsPage * (h + 1) <= (p - 1) + OsPage
    BY <2>1, PagesInBytes
  <2> HIDE DEF h
  <2>4. n \in Nat /\ (0 <= h + 1 => n <= h - 0 + 1)
    <3>1. 0 \in Int /\ h \in Int
      BY <2>1
    <3> QED BY <2>2, <3>1, PagesCounted
  <2> HIDE DEF n
  <2>5. n \in Nat /\ n <= h + 1
    BY <2>1, <2>4
  <2>6. n * OsPage <= OsPage * (h + 1) /\ n * OsPage \in Nat /\ OsPage * (h + 1) \in Nat
    BY <2>1, <2>5, SMT
  <2> QED BY <1>2, <2>1, <2>3, <2>5, <2>6 DEF n
<1>3. CASE p > 0 /\ r > 0
  <2>1. /\ p - 1 \in Nat /\ r - 1 \in Nat /\ r - 1 <= p - 1
    BY <1>3
  <2>2. h \in Nat /\ l \in Nat /\ l <= h /\ 0 \div OsPage = 0
    BY <2>1, DivMod, DivMonotone, DivZero
  <2>3. S \in SUBSET ((l + 1)..h)
    BY <1>3, <2>2 DEF Pages
  <2>4. OsPage * (h - l) <= (p - 1) - (r - 1) + (OsPage - 1)
    BY <2>1, PagesInBytes
  <2> HIDE DEF h, l
  <2>5. n \in Nat /\ (l + 1 <= h + 1 => n <= h - (l + 1) + 1)
    <3>1. l + 1 \in Int /\ h \in Int
      BY <2>2
    <3> QED BY <2>3, <3>1, PagesCounted
  <2> HIDE DEF n
  <2>6. n \in Nat /\ n <= h - l
    BY <2>2, <2>5
  <2>7. /\ n * OsPage <= OsPage * (h - l)
        /\ n * OsPage \in Nat /\ OsPage * (h - l) \in Int
    BY <2>2, <2>6, SMT
  <2> QED BY <2>4, <2>6, <2>7 DEF n
<1> QED BY <1>1, <1>2, <1>3

\* Pages that exceed a window and a page, or two windows, by less than a page
\* do not exceed them.
LEMMA WindowsInPages ==
    ASSUME NEW n \in Nat, NEW x \in Nat, x \in {Capacity + OsPage, 2 * Capacity},
           n * OsPage <= x + (OsPage - 1)
    PROVE  n * OsPage <= x
<1> DEFINE c == Capacity \div OsPage
<1>1. c \in Nat /\ Capacity = OsPage * c
  BY DivMod, WindowAssumption
<1> HIDE DEF c
<1>2. PICK k \in Nat : x = OsPage * k
  <2>1. OsPage * (c + 1) = Capacity + OsPage /\ OsPage * (2 * c) = 2 * Capacity
    BY <1>1, WindowAssumption, SMT
  <2>2. c + 1 \in Nat /\ 2 * c \in Nat
    BY <1>1
  <2> QED BY <2>1, <2>2
<1> QED BY <1>2, WholePages, WindowAssumption

\* Between copies the source occupies at most a window and a page.
THEOREM ResidencyBounded == Spec => []ResidentBounded
<1>1. IInv => ResidentBounded
  <2> SUFFICES ASSUME IInv PROVE ResidentBounded
    OBVIOUS
  <2> DEFINE n == Cardinality(resident)
  <2>1. /\ src_pos \in Nat /\ retire_pos \in Nat /\ retire_pos <= src_pos
        /\ src_pos < retire_pos + Capacity + PageSize
        /\ resident \in SUBSET (Pages(0, src_pos) \ Pages(0, retire_pos))
    BY Ranges DEF IInv, Core, DroppedBehind, NoneKept
  <2>2. n \in Nat /\ n * OsPage <= (src_pos - retire_pos) + (OsPage - 1)
    BY <2>1, SpanInBytes
  <2> HIDE DEF n
  <2>3. n * OsPage \in Nat
    BY <2>2, WindowAssumption, SMT
  <2>4. n * OsPage <= (Capacity + OsPage) + (OsPage - 1)
    BY <2>1, <2>2, <2>3, WindowAssumption
  <2>5. Capacity + OsPage \in Nat
    BY WindowAssumption
  <2>6. n * OsPage <= Capacity + OsPage
    BY <2>2, <2>4, <2>5, WindowsInPages
  <2> QED BY <2>6 DEF ResidentBounded, n
<1> QED BY <1>1, Invariance, PTL

\* During a copy it occupies at most two windows.
THEOREM PeakBound == Spec => PeakBounded
<1>1. IInv /\ [Next]_vars =>
         [Cardinality(resident \cup resident') * OsPage <= 2 * Capacity]_vars
  <2> SUFFICES ASSUME IInv, [Next]_vars
               PROVE  Cardinality(resident \cup resident') * OsPage <= 2 * Capacity
    OBVIOUS
  <2> DEFINE S == resident \cup resident'
  <2>1. /\ src_pos \in Nat /\ retire_pos \in Nat /\ retire_pos <= src_pos
        /\ resident \subseteq Pages(0, src_pos) \ Pages(0, retire_pos)
    BY Ranges DEF IInv, Core, DroppedBehind, NoneKept
  <2>2. \E p \in Nat : /\ src_pos <= p /\ p <= retire_pos + 2 * Capacity
                       /\ S \subseteq Pages(0, p) \ Pages(0, retire_pos)
    <3>1. CASE Refill
      <4> DEFINE p == src_pos + Chunk
      <4>1. /\ resident' \subseteq resident \cup Pages(src_pos, p)
            /\ src_pos < file.len /\ p \in Nat /\ src_pos <= p
            /\ p <= src_pos + Capacity
        BY <3>1, Ranges DEF IInv, Refill, RetireSrc, AtEnd, Chunk
      <4> HIDE DEF p
      <4>2. src_pos <= retire_pos + Capacity
        BY <4>1 DEF IInv, NoneKept
      <4>3. /\ Pages(0, src_pos) \subseteq Pages(0, p)
            /\ Pages(src_pos, p) \subseteq Pages(0, p)
            /\ Pages(src_pos, p) \cap Pages(0, retire_pos) = {}
        BY <2>1, <4>1, PagesOfPart, PagesApart DEF IInv
      <4>4. p <= retire_pos + 2 * Capacity
        BY <2>1, <4>1, <4>2, WindowAssumption
      <4> QED BY <2>1, <4>1, <4>3, <4>4
    <3>2. CASE ~Refill
      <4>1. resident' \subseteq resident
        BY <3>2
        DEF Next, ReadStep, CallRead, ReturnEof, Sigbus, KeepScratch, RunZstd,
            Truncate, memory, vars
      <4>2. src_pos <= retire_pos + 2 * Capacity
        <5>1. PageSize <= Capacity
          BY DivMod, WindowAssumption
        <5> QED BY <2>1, <5>1, WindowAssumption DEF IInv, NoneKept
      <4> QED BY <2>1, <4>1, <4>2
    <3> QED BY <3>1, <3>2
  <2> DEFINE n == Cardinality(S)
  <2>3. PICK p \in Nat : /\ src_pos <= p /\ p <= retire_pos + 2 * Capacity
                         /\ S \subseteq Pages(0, p) \ Pages(0, retire_pos)
    BY <2>2
  <2> HIDE DEF S
  <2>4. n \in Nat /\ n * OsPage <= (p - retire_pos) + (OsPage - 1)
    <3>1. retire_pos <= p /\ S \in SUBSET (Pages(0, p) \ Pages(0, retire_pos))
      BY <2>1, <2>3
    <3> QED BY <2>1, <3>1, SpanInBytes
  <2> HIDE DEF n
  <2>5. n * OsPage \in Nat
    BY <2>4, WindowAssumption, SMT
  <2>6. n * OsPage <= 2 * Capacity + (OsPage - 1) /\ 2 * Capacity \in Nat
    BY <2>1, <2>3, <2>4, <2>5, WindowAssumption
  <2>7. n * OsPage <= 2 * Capacity
    BY <2>4, <2>6, WindowsInPages
  <2> QED BY <2>7 DEF n, S
<1> QED BY <1>1, Invariance, PTL DEF Spec, PeakBounded

-----------------------------------------------------------------------------
\* The copy of a window of a file that is all there does not fault.
LEMMA SoundFileHasPages ==
    ASSUME Core, ~AtEnd, ~HasPages(src_pos + Chunk)
    PROVE  fsize # file.len
<1> SUFFICES ASSUME fsize = file.len PROVE FALSE
  OBVIOUS
<1>1. src_pos + Chunk \in 1..file.len
  BY Ranges DEF AtEnd, Chunk
<1>2. /\ (src_pos + Chunk) - 1 \in Nat /\ file.len - 1 \in Nat
      /\ (src_pos + Chunk) - 1 <= file.len - 1
  BY <1>1, Ranges
<1>3. OsPage \in Nat \ {0}
  BY Ranges
<1> HIDE DEF Chunk
<1>4. ((src_pos + Chunk) - 1) \div OsPage <= (file.len - 1) \div OsPage
  BY <1>2, <1>3, DivMonotone
<1> QED BY <1>4 DEF HasPages

\* Every behaviour of the streaming decoder is one of a reader.
THEOREM Implements == Spec => IsAReader
<1>1. Init => Contract!Init
  <2> SUFFICES ASSUME Init PROVE Contract!Init
    OBVIOUS
  <2>1. Total(file) \in Nat
    BY FilesAssumption DEF Init, IsStream, Total
  <2> QED BY <2>1 DEF Init, Contract!Init, Complete, Sound
<1>2. IInv /\ IInv' /\ [Next]_vars => [Contract!Next]_Contract!vars
  <2> SUFFICES ASSUME Core, Core', [Next]_vars
               PROVE  [Contract!Next]_Contract!vars
    BY DEF IInv
  <2> USE DEF Contract!Next, Contract!vars, Contract!Answer
  <2>1. ASSUME NEW n \in BufLens, CallRead(n)
        PROVE  Contract!Ask(n)
    BY <2>1, BufLensAssumption
    DEF CallRead, window, memory, zstd, Core, CallState, Contract!Ask,
        Total, Complete, Sound
  <2>2. CASE ReturnEof
    <3>1. Sound => zout = Total(file)
      BY <2>2
      DEF ReturnEof, Core, EofMeansAll, OnlyUnsound, Sound, zstd, Complete, Total
    <3>2. Contract!End
      BY <2>2, <3>1
      DEF ReturnEof, window, memory, zstd, Core, CallState, Contract!End,
          Total, Complete, Sound
    <3> QED BY <3>2
  <2>3. CASE Refill \/ KeepScratch
    <3>1. UNCHANGED Contract!vars
      BY <2>3 DEF Refill, KeepScratch, window, memory, zstd, Total, Complete, Sound
    <3> QED BY <3>1
  <2>4. CASE Sigbus
    <3>1. fsize # file.len
      BY <2>4, SoundFileHasPages DEF Sigbus
    <3>2. ret' = "none"
      BY <2>4 DEF Sigbus, Core, CallState
    <3>3. Contract!Undone
      BY <2>4, <3>1, <3>2
      DEF Sigbus, window, memory, zstd, Core, CallState, Contract!Undone,
          Total, Complete, Sound
    <3> QED BY <3>3
  <2>5. CASE RunZstd
    <3>2. /\ UNCHANGED <<file, fsize, buf>>
          /\ pc = "Run" /\ buf > 0 /\ ret = "none"
          /\ UNCHANGED <<Total(file), Sound>>
      BY <2>5 DEF RunZstd, Core, CallState, Total, Sound, Complete
    <3>6. ASSUME Astray, ~Sound
          PROVE  [Contract!Next]_Contract!vars
      <4>1. CASE pc' = "Top"
        BY <3>2, <3>6, <4>1 DEF Astray, Finish
      <4>2. CASE pc' # "Top" /\ ret' = "data"
        <5>1. Contract!Undone
          BY <3>2, <3>6, <4>2 DEF Astray, Finish, Contract!Undone
        <5> QED BY <5>1
      <4>3. CASE pc' # "Top" /\ ret' = "error"
        <5>1. Contract!Fail
          BY <3>2, <3>6, <4>3 DEF Astray, Finish, Contract!Fail
        <5> QED BY <5>1
      <4> QED BY <3>6, <4>1, <4>2, <4>3 DEF Astray, Finish
    <3>7. CASE ~sane
      BY <2>5, <3>6, <3>7 DEF RunZstd, Core, OnlyUnsound
    <3> SUFFICES ASSUME sane PROVE [Contract!Next]_Contract!vars
      BY <3>7
    <3>1. PICK q \in StopPoints(file, zpos, zout, buf, InputEnd) : RunSane(q)
      BY <2>5 DEF RunZstd
    <3>3. CASE Decoded(q)
      <4>1. zout' \in zout..Total(file) /\ zout' <= zout + buf
        <5>1. InputEnd \in 0..file.len
          BY InputEndRange
        <5> QED
          BY <3>3, <5>1, Ranges, ZstdStep DEF Decoded, Core, TypeOK, CursorsAgree
      <4>2. CASE zout' > zout
        <5>1. Contract!Give
          BY <3>2, <3>3, <4>1, <4>2, Ranges DEF Decoded, Finish, Contract!Give
        <5> QED BY <5>1
      <4>3. CASE ~(zout' > zout)
        <5>1. UNCHANGED Contract!vars
          BY <3>2, <3>3, <4>1, <4>3, Ranges DEF Decoded, Finish
        <5> QED BY <5>1
      <4> QED BY <4>2, <4>3
    <3>4. CASE Rejected(q)
      <4>1. Contract!Fail
        BY <3>2, <3>4, SoundFileDecodes DEF Rejected, window, Contract!Fail
      <4> QED BY <4>1
    <3>5. CASE ~FedTheFile(q) /\ Astray
      BY <3>5, <3>6, SoundFileDecodes
    <3> QED BY <3>1, <3>3, <3>4, <3>5 DEF RunSane
  <2>6. ASSUME NEW n \in 0..file.len, Truncate(n)
        PROVE  Contract!Spoil
    <3>1. fsize' # file.len
      BY <2>6, Ranges DEF Truncate, Core, TypeOK
    <3> QED
      BY <2>6, <3>1
      DEF Truncate, window, zstd, call, Contract!Spoil, Total, Complete, Sound
  <2>7. CASE UNCHANGED vars
    BY <2>7 DEF vars, window, memory, zstd, call, Total, Complete, Sound
  <2> QED BY <2>1, <2>2, <2>3, <2>4, <2>5, <2>6, <2>7 DEF Next, ReadStep
<1> QED BY <1>1, <1>2, Invariance, PTL DEF Spec, Contract!Spec, IsAReader

-----------------------------------------------------------------------------
(***************************************************************************)
(* Why a call returns: the loop of read_streaming goes round only after a  *)
(* call of zstd that took bytes out of the scratch, and nothing gives them *)
(* back.  What is left of the file to feed bounds the turns of a call.     *)
(***************************************************************************)
Left == (file.len - src_pos) + (scratch_len - scratch_in_pos)

LoopAdvances ==
    [][/\ Left' <= Left
       /\ pc = "Run" /\ pc' = "Top" => Left' < Left]_vars

\* zstd is given input, so a call of it that hands out nothing takes some in.
LEMMA DryTurnTakes ==
    ASSUME Core, sane, pc = "Run",
           NEW q \in StopPoints(file, zpos, zout, buf, InputEnd),
           ~(Flushed(file, zout, buf, q) > zout)
    PROVE  Reported(file, q, Flushed(file, zout, buf, q)) > Consumed
<1>1. /\ zpos \in 0..file.len /\ zout \in Nat /\ zout <= file.cum[zpos]
      /\ buf \in Nat \ {0}
  BY Ranges DEF Core, TypeOK, CursorsAgree, CallState
<1>2. InputEnd \in 0..file.len
  BY InputEndRange
<1>3. /\ file.cum[q] = zout /\ Flushed(file, zout, buf, q) = zout
      /\ q = InputEnd \/ (q \in file.ends /\ q > zpos)
  BY <1>1, <1>2, Ranges, NothingMade
<1>4. q \in zpos..InputEnd
  BY DEF StopPoints
<1>5. file.cum[zpos] = zout
  <2>1. q \in 0..file.len /\ zpos <= q
    BY <1>1, <1>2, <1>4, Ranges
  <2>2. IsStream(file)
    BY Ranges
  <2>3. file.cum[zpos] <= file.cum[q] /\ file.cum[zpos] \in Nat
    BY <1>1, <2>1, <2>2 DEF IsStream
  <2> QED BY <1>1, <1>3, <2>3
<1>6. Held(file, q, zout) = 0 /\ Held(file, zpos, zout) = 0
  BY <1>1, <1>3, <1>5 DEF Held
<1>7. Reported(file, q, zout) = q /\ Consumed = zpos
  BY <1>1, <1>2, <1>4, <1>6, Ranges DEF Reported, Consumed
<1>8. InputEnd > Consumed
  <2>1. /\ scratch_in_pos < scratch_len
        /\ Consumed = src_pos - (scratch_len - scratch_in_pos)
        /\ src_pos <= file.len
    BY Ranges DEF Core, NeverEmptyInput, CursorsAgree, TypeOK
  <2> QED BY <2>1, Ranges DEF InputEnd
<1> QED BY <1>1, <1>2, <1>3, <1>4, <1>7, <1>8, Ranges

\* The call of zstd takes input out of the scratch, or makes output.
LEMMA RunZstdTakes ==
    ASSUME Core, RunZstd
    PROVE  /\ UNCHANGED <<file, src_pos, scratch_len>>
           /\ scratch_in_pos' \in scratch_in_pos..scratch_len
           /\ pc' = "Top" => scratch_in_pos' > scratch_in_pos
<1>1. /\ pc = "Run" /\ UNCHANGED <<file, buf>>
      /\ scratch_in_pos \in Nat /\ scratch_len \in Nat
      /\ scratch_in_pos <= scratch_len
  BY Ranges DEF RunZstd, Core, TypeOK
<1>2. ASSUME Astray
      PROVE  /\ UNCHANGED <<src_pos, scratch_len>>
             /\ scratch_in_pos' \in scratch_in_pos..scratch_len
             /\ pc' = "Top" => scratch_in_pos' > scratch_in_pos
  <2>1. CASE pc' = "Idle" /\ UNCHANGED scratch_in_pos
    BY <1>1, <1>2, <2>1 DEF Astray
  <2>2. CASE \E taken \in 0..(scratch_len - scratch_in_pos), wrote \in BOOLEAN :
               /\ taken > 0 \/ wrote
               /\ scratch_in_pos' = scratch_in_pos + taken
               /\ Finish(IF wrote THEN zout + 1 ELSE zout)
    <3>1. PICK taken \in 0..(scratch_len - scratch_in_pos), wrote \in BOOLEAN :
               /\ taken > 0 \/ wrote
               /\ scratch_in_pos' = scratch_in_pos + taken
               /\ Finish(IF wrote THEN zout + 1 ELSE zout)
      BY <2>2
    <3>2. scratch_in_pos' \in scratch_in_pos..scratch_len
      BY <1>1, <3>1
    <3>3. wrote => pc' = "Idle"
      BY <3>1, Ranges DEF Finish
    <3>4. taken > 0 => scratch_in_pos' > scratch_in_pos
      BY <1>1, <3>1
    <3> QED BY <1>2, <3>1, <3>2, <3>3, <3>4 DEF Astray
  <2> QED BY <1>2, <2>1, <2>2 DEF Astray
<1>3. CASE ~sane
  BY <1>1, <1>2, <1>3 DEF RunZstd
<1>4. CASE sane
  <2>1. PICK q \in StopPoints(file, zpos, zout, buf, InputEnd) : RunSane(q)
    BY <1>4 DEF RunZstd
  <2>2. CASE Decoded(q)
    <3> DEFINE fl == Flushed(file, zout, buf, q)
               rep == Reported(file, q, fl)
    <3>1. /\ scratch_in_pos' = scratch_in_pos + (rep - Consumed)
          /\ UNCHANGED <<src_pos, scratch_len>> /\ Finish(fl)
      BY <2>2 DEF Decoded
    <3>2. scratch_in_pos' \in 0..scratch_len'
      BY RunZstdInvariant DEF Core, TypeOK
    <3>3. InputEnd \in 0..file.len
      BY InputEndRange
    <3>4. rep \in Consumed..InputEnd
      BY <3>3, Ranges, ZstdStep DEF Core, TypeOK, CursorsAgree, Consumed
    <3>5. pc' = "Top" => rep > Consumed
      BY <1>1, <1>4, <3>1, DryTurnTakes DEF Finish
    <3> HIDE DEF fl, rep
    <3>6. /\ scratch_in_pos' \in scratch_in_pos..scratch_len
          /\ pc' = "Top" => scratch_in_pos' > scratch_in_pos
      BY <1>1, <3>1, <3>2, <3>3, <3>4, <3>5, Ranges
    <3> QED BY <1>1, <3>1, <3>6
  <2>3. CASE Rejected(q)
    BY <1>1, <2>3 DEF Rejected, window
  <2> QED BY <1>1, <1>2, <2>1, <2>2, <2>3 DEF RunSane
<1> QED BY <1>3, <1>4

\* Each turn of the loop that does not return uses up some of the file.
THEOREM TurnsAdvance == Spec => LoopAdvances
<1>1. ASSUME Core, [Next]_vars
      PROVE  [/\ Left' <= Left
              /\ pc = "Run" /\ pc' = "Top" => Left' < Left]_vars
  <2>1. /\ file.len \in Nat /\ src_pos \in Nat /\ src_pos <= file.len
        /\ scratch_len \in Nat /\ scratch_in_pos \in Nat /\ Capacity \in Nat \ {0}
        /\ scratch_in_pos <= scratch_len
    BY <1>1, Ranges DEF Core, TypeOK
  <2>2. CASE RunZstd
    <3> DEFINE i == scratch_in_pos'
    <3>1. /\ i \in scratch_in_pos..scratch_len
          /\ pc' = "Top" => i > scratch_in_pos
          /\ Left' = (file.len - src_pos) + (scratch_len - i)
      BY <1>1, <2>2, RunZstdTakes DEF Left
    <3> HIDE DEF i
    <3> QED BY <2>1, <3>1 DEF Left
  <2>3. CASE Refill
    <3>1. Left' = (file.len - (src_pos + Chunk)) + (Chunk - 0)
      BY <2>3 DEF Refill, Left
    <3>2. Chunk \in Nat /\ scratch_in_pos = scratch_len
      BY <2>1, <2>3 DEF Refill, Chunk, Exhausted
    <3>3. Left' = file.len - src_pos /\ Left = file.len - src_pos
      BY <2>1, <3>1, <3>2 DEF Left
    <3> QED BY <2>1, <2>3, <3>3 DEF Refill
  <2>4. CASE ~RunZstd /\ ~Refill
    <3>1. /\ UNCHANGED <<file, src_pos, scratch_len, scratch_in_pos>>
          /\ ~(pc = "Run" /\ pc' = "Top")
      BY <1>1, <2>4
      DEF Next, ReadStep, CallRead, ReturnEof, Sigbus, KeepScratch, Truncate,
          vars, window, call
    <3> QED BY <2>1, <3>1 DEF Left
  <2> QED BY <2>2, <2>3, <2>4
<1>2. IInv => Core
  BY DEF IInv
<1> QED BY <1>1, <1>2, Invariance, PTL DEF Spec, LoopAdvances

(***************************************************************************)
(* The safety half of DamageReported: while zstd decodes the file's own    *)
(* bytes, Ok(0) says that no byte of it fails to decode; damage, or bytes  *)
(* after the last frame, are never taken for the end.                      *)
(***************************************************************************)
EofMeansDecoded == ret = "eof" /\ sane => file.len < file.bad

\* zstd has not passed the byte that does not decode.
Undamaged == sane => zpos < file.bad

\* Ok(0) never hides damage.
THEOREM DamageNotEnd == Spec => []EofMeansDecoded
<1> DEFINE J == Undamaged /\ EofMeansDecoded
<1>1. Init => J
  BY FilesAssumption DEF Init, Undamaged, EofMeansDecoded, IsStream
<1>2. IInv /\ J /\ [Next]_vars => J'
  <2> SUFFICES ASSUME Core, J, [Next]_vars PROVE J'
    BY DEF IInv
  <2>0. /\ zpos \in Nat /\ file.bad \in Nat /\ file.len \in Nat
    BY Ranges DEF IsStream
  <2>1. CASE RunZstd
    <3>1. pc = "Run" /\ ret = "none" /\ UNCHANGED file
      BY <2>1 DEF RunZstd, Core, CallState
    <3>2. ret' # "eof"
      BY <2>1, <3>1
      DEF RunZstd, RunSane, Decoded, Rejected, Astray, Finish
    <3>3. Undamaged'
      <4> SUFFICES ASSUME sane' PROVE zpos' < file.bad
        BY <3>1 DEF Undamaged
      <4>1. PICK q \in StopPoints(file, zpos, zout, buf, InputEnd) : Decoded(q)
        BY <2>1 DEF RunZstd, RunSane, Rejected, Astray
      <4>2. sane /\ zpos' = q /\ ~Damaged(file, zpos, q) /\ q \in Nat
        BY <4>1, InputEndRange, Ranges DEF Decoded, StopPoints
      <4> QED BY <2>0, <4>2 DEF Damaged, Undamaged
    <3> QED BY <3>2, <3>3 DEF EofMeansDecoded
  <2>2. CASE ReturnEof
    <3>1. UNCHANGED <<file, zpos, sane>>
      BY <2>2 DEF ReturnEof, zstd
    <3>2. sane => file.len <= zpos
      <4>1. scratch_in_pos = scratch_len /\ src_pos >= file.len
        BY <2>2 DEF ReturnEof, Exhausted, AtEnd
      <4>2. sane => Consumed >= file.len
        BY <4>1, Ranges DEF Core, CursorsAgree
      <4>3. Consumed <= zpos
        BY Ranges DEF Consumed, Reported, Held
      <4> QED BY <4>2, <4>3, Ranges
    <3> QED BY <2>0, <3>1, <3>2 DEF Undamaged, EofMeansDecoded
  <2>3. CASE ~RunZstd /\ ~ReturnEof
    <3>1. /\ UNCHANGED <<file, zpos, sane>>
          /\ ret' = "eof" => ret = "eof"
      BY <2>3
      DEF Next, ReadStep, CallRead, Refill, Sigbus, KeepScratch, Truncate,
          vars, zstd, call
    <3> QED BY <3>1 DEF Undamaged, EofMeansDecoded
  <2> QED BY <2>1, <2>2, <2>3
<1>3. J => EofMeansDecoded
  OBVIOUS
<1> HIDE DEF J
<1> QED BY <1>1, <1>2, <1>3, Invariance, PTL DEF Spec

=============================================================================
