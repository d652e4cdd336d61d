--------------------------- MODULE StreamingRead ---------------------------
(***************************************************************************)
(* `Read::read` on a decoder built by `open_hugepage_streaming`: the       *)
(* functions read_streaming and retire_src of src/decoder.rs.  The         *)
(* compressed file is mapped; one window of it at a time is copied to a    *)
(* scratch of huge pages, zstd decodes from the scratch, and source pages  *)
(* one window behind the copy are given back to the kernel.                *)
(*                                                                         *)
(* Another process may truncate the file while it is mapped, when          *)
(* MayTruncate is set.                                                     *)
(***************************************************************************)
EXTENDS Integers, FiniteSets, Zstd

CONSTANTS
    Files,        \* the compressed files that may be opened
    BufLens,      \* the lengths of the buffers a caller passes to read
    Capacity,     \* scratch.capacity: the window, in bytes
    PageSize,     \* 4096 in the code
    OsPage,       \* the page size of the machine
    Zero,         \* the content of a byte nobody wrote
    MayTruncate   \* another process may shrink the file

ASSUME FilesAssumption == \A f \in Files : IsStream(f)
ASSUME BufLensAssumption == BufLens \subseteq Nat
ASSUME WindowAssumption ==
    /\ Capacity \in Nat \ {0}
    /\ PageSize \in Nat \ {0}
    /\ OsPage \in Nat \ {0}
    /\ PageSize <= OsPage
    /\ Capacity % PageSize = 0
    /\ Capacity % OsPage = 0
ASSUME ContentAssumption == Zero \notin Nat /\ MayTruncate \in BOOLEAN

VARIABLES
    file,            \* the stream behind src_mmap; file.len = src_mmap.len()
    fsize,           \* the file's present size, smaller once truncated
    src_pos,         \* state.src_pos
    scratch,         \* state.scratch: which file byte each cell holds
    scratch_in_pos,  \* state.scratch_in_pos
    scratch_len,     \* state.scratch_len
    retire_pos,      \* state.retire_pos
    zpos, zout,      \* bytes zstd took in, bytes it handed out, while sane
    sane,            \* zstd has decoded the file's own bytes, without an error
    buf,             \* buf.len() of the call under way
    pc,              \* where the call is
    ret,             \* what the last finished call returned
    resident,        \* OS pages of src_mmap mapped into the process
    dropped          \* OS pages that were given back

window == <<src_pos, scratch, scratch_in_pos, scratch_len>>
memory == <<retire_pos, resident, dropped>>
zstd   == <<zpos, zout, sane>>
call   == <<buf, pc, ret>>
vars   == <<file, fsize, window, memory, zstd, call>>

-----------------------------------------------------------------------------
Pages(from, to) ==
    IF from < to THEN (from \div OsPage)..((to - 1) \div OsPage) ELSE {}

AllPages == Pages(0, file.len)

AlignDown(x) == x - (x % PageSize)

SaturatingSub(x, y) == IF x > y THEN x - y ELSE 0

-----------------------------------------------------------------------------
Init ==
    /\ file \in Files
    /\ fsize = file.len
    /\ src_pos = 0
    /\ scratch = [i \in 0..(Capacity - 1) |-> Zero]
    /\ scratch_in_pos = 0
    /\ scratch_len = 0
    /\ retire_pos = 0
    /\ zpos = 0
    /\ zout = 0
    /\ sane = TRUE
    /\ buf = 0
    /\ pc = "Idle"
    /\ ret = "none"
    /\ resident = {}
    /\ dropped = {}

\* read(buf): an empty buffer is answered at once.
CallRead(n) ==
    /\ pc = "Idle"
    /\ buf' = n
    /\ IF n = 0 THEN pc' = "Idle" /\ ret' = "empty"
                ELSE pc' = "Top" /\ ret' = "none"
    /\ UNCHANGED <<file, fsize, window, memory, zstd>>

\* Mutant: refills while one byte is left.
Exhausted_Early == scratch_in_pos + 1 >= scratch_len

Exhausted == scratch_in_pos = scratch_len

\* Mutant: misses the end of the file by one.
AtEnd_Past == src_pos > file.len

AtEnd == src_pos >= file.len

\* Ok(0): nothing is left to decode.
ReturnEof ==
    /\ pc = "Top"
    /\ Exhausted
    /\ AtEnd
    /\ pc' = "Idle"
    /\ ret' = "eof"
    /\ UNCHANGED <<file, fsize, window, memory, zstd, buf>>

\* Mutant: copies all that remains into the window.
Chunk_Unbounded == file.len - src_pos

Chunk == IF file.len - src_pos < Capacity THEN file.len - src_pos ELSE Capacity

\* A file byte seen through the mapping: past a truncated end it reads as
\* zero up to the end of its page, and has no page at all after that.
SourceByte(o) == IF o < fsize THEN o ELSE Zero

HasPages(to) == (to - 1) \div OsPage <= (fsize - 1) \div OsPage

\* Mutant: copies from src_pos after it was advanced.
Copied_AfterAdvance(n) ==
    [i \in 0..(Capacity - 1) |->
        IF i < n THEN SourceByte(src_pos + n + i) ELSE scratch[i]]

\* copy_nonoverlapping(src_mmap[src_pos..], scratch.ptr, n)
Copied(n) ==
    [i \in 0..(Capacity - 1) |->
        IF i < n THEN SourceByte(src_pos + i) ELSE scratch[i]]

\* Mutants: the frontier runs ahead of the copy, or lags two windows.
Frontier_Ahead(p) == AlignDown(p + Capacity)
Frontier_TwoWindows(p) == AlignDown(SaturatingSub(p, 2 * Capacity))

\* retire_src, after src_pos moved to p: the frontier stays one window
\* behind, on a page boundary.
Frontier(p) == AlignDown(SaturatingSub(p, Capacity))

\* MADV_DONTNEED on [from, to), which the kernel widens to whole pages.
Discarded(from, to) == Pages(from, to)

RetireSrc(p, touched) ==
    IF Frontier(p) > retire_pos
    THEN /\ resident' = (resident \cup touched)
                           \ Discarded(retire_pos, Frontier(p))
         /\ dropped' = dropped \cup Discarded(retire_pos, Frontier(p))
         /\ retire_pos' = Frontier(p)
    ELSE /\ resident' = resident \cup touched
         /\ UNCHANGED <<dropped, retire_pos>>

\* The scratch is used up: copy the next window into it, then retire.
Refill ==
    /\ pc = "Top"
    /\ Exhausted
    /\ ~AtEnd
    /\ HasPages(src_pos + Chunk)
    /\ scratch' = Copied(Chunk)
    /\ src_pos' = src_pos + Chunk
    /\ scratch_len' = Chunk
    /\ scratch_in_pos' = 0
    /\ RetireSrc(src_pos + Chunk, Pages(src_pos, src_pos + Chunk))
    /\ pc' = "Run"
    /\ UNCHANGED <<file, fsize, zstd, buf, ret>>

\* The copy touches a page that the file no longer has: SIGBUS.
Sigbus ==
    /\ pc = "Top"
    /\ Exhausted
    /\ ~AtEnd
    /\ ~HasPages(src_pos + Chunk)
    /\ pc' = "Killed"
    /\ UNCHANGED <<file, fsize, window, memory, zstd, buf, ret>>

KeepScratch ==
    /\ pc = "Top"
    /\ ~Exhausted
    /\ pc' = "Run"
    /\ UNCHANGED <<file, fsize, window, memory, zstd, buf, ret>>

-----------------------------------------------------------------------------
Consumed == Reported(file, zpos, zout)

\* The end of &scratch[scratch_in_pos..scratch_len], as a file offset.
InputEnd ==
    IF Consumed + (scratch_len - scratch_in_pos) < file.len
    THEN Consumed + (scratch_len - scratch_in_pos)
    ELSE file.len

\* The bytes zstd takes in up to file offset q are the file's own, in order.
FedTheFile(q) ==
    \A k \in Consumed..(q - 1) : scratch[scratch_in_pos + (k - Consumed)] = k

\* Mutant: a call of zstd that wrote nothing is taken for the end.
Finish_ZeroIsEnd(out) ==
    pc' = "Idle" /\ ret' = IF out > zout THEN "data" ELSE "eof"

\* The loop returns what was written, or goes round when nothing was.
Finish(out) ==
    IF out > zout THEN pc' = "Idle" /\ ret' = "data"
                  ELSE pc' = "Top" /\ UNCHANGED ret

\* run_on_buffers succeeds, having stopped at q.
Decoded(q) ==
    /\ FedTheFile(q)
    /\ ~Damaged(file, zpos, q)
    /\ zpos' = q
    /\ zout' = Flushed(file, zout, buf, q)
    /\ scratch_in_pos' =
          scratch_in_pos + (Reported(file, q, zout') - Consumed)
    /\ Finish(zout')
    /\ UNCHANGED <<src_pos, scratch, scratch_len, sane>>

\* Mutant: a failure of zstd is answered with Ok(0).
Rejected_AsEnd(q) ==
    /\ ~FedTheFile(q) \/ Damaged(file, zpos, q)
    /\ pc' = "Idle"
    /\ ret' = "eof"
    /\ sane' = FALSE
    /\ UNCHANGED <<window, zpos, zout>>

\* It fails: read returns InvalidData and leaves the cursors where they were,
\* although zstd has taken in what it rejects.
Rejected(q) ==
    /\ ~FedTheFile(q) \/ Damaged(file, zpos, q)
    /\ pc' = "Idle"
    /\ ret' = "error"
    /\ sane' = FALSE
    /\ UNCHANGED <<window, zpos, zout>>

\* After an error, and on bytes that are not the file's, zstd may take in any
\* of its input, hand out anything, and fail at any time; but it never
\* succeeds without progress while there is input and room.
Astray ==
    /\ \/ \E taken \in 0..(scratch_len - scratch_in_pos), wrote \in BOOLEAN :
             /\ taken > 0 \/ wrote
             /\ scratch_in_pos' = scratch_in_pos + taken
             /\ Finish(IF wrote THEN zout + 1 ELSE zout)
       \/ pc' = "Idle" /\ ret' = "error" /\ UNCHANGED scratch_in_pos
    /\ sane' = FALSE
    /\ UNCHANGED <<src_pos, scratch, scratch_len, zpos, zout>>

RunSane(q) == Decoded(q) \/ Rejected(q) \/ (~FedTheFile(q) /\ Astray)

RunZstd ==
    /\ pc = "Run"
    /\ IF sane
       THEN \E q \in StopPoints(file, zpos, zout, buf, InputEnd) : RunSane(q)
       ELSE Astray
    /\ UNCHANGED <<file, fsize, memory, buf>>

-----------------------------------------------------------------------------
\* Another process cuts the file short: its last pages leave the mapping.
Truncate(n) ==
    /\ MayTruncate
    /\ pc # "Killed"
    /\ n < fsize
    /\ fsize' = n
    /\ resident' = resident \cap Pages(0, n)
    /\ UNCHANGED <<file, window, retire_pos, dropped, zstd, call>>

ReadStep == ReturnEof \/ Refill \/ Sigbus \/ KeepScratch \/ RunZstd

Next ==
    \/ \E n \in BufLens : CallRead(n)
    \/ ReadStep
    \/ \E n \in 0..file.len : Truncate(n)

Spec == Init /\ [][Next]_vars

\* A caller that drains the stream (read_to_end, io::copy) keeps calling with
\* room for output until a call returns Ok(0) or an error.
Draining == ret \notin {"eof", "error"} /\ \E n \in BufLens : n > 0 /\ CallRead(n)

\* A call that was made runs on: it is straight-line code of one thread.

FairSpec == Spec /\ WF_vars(ReadStep) /\ WF_vars(Draining)

-----------------------------------------------------------------------------
\* Types and ranges of the variables.
TypeOK ==
    /\ file \in Files
    /\ fsize \in 0..file.len
    /\ src_pos \in 0..file.len
    /\ scratch \in [0..(Capacity - 1) -> Nat \cup {Zero}]
    /\ scratch_len \in 0..Capacity
    /\ scratch_in_pos \in 0..scratch_len
    /\ retire_pos \in 0..file.len
    /\ zpos \in 0..file.len
    /\ zout \in 0..Total(file)
    /\ buf \in BufLens \cup {0}
    /\ sane \in BOOLEAN
    /\ pc \in {"Idle", "Top", "Run", "Killed"}
    /\ ret \in {"none", "empty", "data", "eof", "error"}
    /\ resident \subseteq AllPages
    /\ dropped \subseteq AllPages

(***************************************************************************)
(* What zstd is given continues exactly where it stopped, through every    *)
(* refill and every split of a frame by a window edge ("no partial data is *)
(* ever overwritten", docs/streaming-design.md).  Only a byte that the     *)
(* file no longer has can be something else.                               *)
(***************************************************************************)
FedInOrder ==
    pc = "Run" /\ sane =>
        \A i \in scratch_in_pos..(scratch_len - 1) :
            LET o == Consumed + (i - scratch_in_pos)
            IN  scratch[i] = o \/ (scratch[i] = Zero /\ o >= fsize)

(***************************************************************************)
(* "The decoder must not be called with an empty input slice": neither at  *)
(* the end of the file, nor while zstd holds a frame's last byte back, nor *)
(* to a caller who reads on after an error.                                *)
(***************************************************************************)
NeverEmptyInput == pc = "Run" => scratch_in_pos < scratch_len

(***************************************************************************)
(* Ok(0) for a buffer with room means the end: of a complete file that     *)
(* gave no error, every byte of every frame was handed out before it,      *)
(* whatever the windows, the buffers and the empty frames in between.      *)
(***************************************************************************)
EofMeansAll == ret = "eof" /\ sane /\ Complete(file) => zout = Total(file)

(***************************************************************************)
(* A page given back with MADV_DONTNEED is never touched again ("any       *)
(* future fault would reload from disk, but that will not happen").        *)
(***************************************************************************)
NoRefault == [][(resident' \ resident) \cap dropped = {}]_vars

(***************************************************************************)
(* What docs/streaming-design.md says of a stream truncated mid-frame, that*)
(* run_on_buffers returns InvalidData: the code answers Ok(0) when the     *)
(* file is used up, wherever zstd is.                                      *)
(***************************************************************************)
TruncatedIsInvalid == ret = "eof" => file.len \in file.ends \cup {0}

(***************************************************************************)
(* What docs/streaming-design.md says of a zstd stream that ends before    *)
(* the mapping does, that read returns Ok(0) there: the code hands every   *)
(* byte of the mapping to zstd, which takes those after the last frame for *)
(* the header of another and fails.                                        *)
(***************************************************************************)
TrailingIsEnd == ret = "error" => ~AfterFrames(file)

(***************************************************************************)
(* Between copies the mapped source occupies about one window, and during  *)
(* a copy at most two ("peak RSS ~ 2xW while refilling; after MADV_DONT-   *)
(* NEED source RSS drops back"): no step leaves the pages of an older      *)
(* window behind.                                                          *)
(***************************************************************************)
ResidentBounded == Cardinality(resident) * OsPage <= Capacity + OsPage

PeakBounded ==
    [][Cardinality(resident \cup resident') * OsPage <= 2 * Capacity]_vars

(***************************************************************************)
(* A caller that drains a complete file gets all of it: the loop neither   *)
(* spins, nor stops at an empty frame, nor starves a pending output.       *)
(***************************************************************************)
DeliversAll == Complete(file) => <>(zout = Total(file) /\ ret = "eof")

(***************************************************************************)
(* A caller that drains a file with a byte inside a frame that does not    *)
(* decode gets an error, and no Ok(0) before it: no window edge hides the  *)
(* damage.                                                                 *)
(***************************************************************************)
DamageReported ==
    file.bad <= file.len /\ ~AfterFrames(file) => <>(ret = "error")

(***************************************************************************)
(* Why that is so, and an inductive invariant.  The scratch is the stretch *)
(* of the file that ends at src_pos, and the two cursors into it agree     *)
(* with what zstd reports; zstd has made what it hands out; and the pages  *)
(* given back end a window behind src_pos, those kept begin after them.    *)
(***************************************************************************)
ScratchIsFile ==
    \A i \in 0..(scratch_len - 1) :
        LET o == src_pos - scratch_len + i
        IN  scratch[i] = o \/ (scratch[i] = Zero /\ o >= fsize)

CursorsAgree ==
    /\ scratch_len <= src_pos
    /\ sane => Consumed = src_pos - (scratch_len - scratch_in_pos)
    /\ zout <= file.cum[zpos]

DroppedBehind ==
    /\ retire_pos > 0 => retire_pos + Capacity <= src_pos
    /\ dropped \subseteq Pages(0, retire_pos)

CallState == pc \in {"Top", "Run"} => buf > 0 /\ ret = "none"

\* A file that decodes and stays whole never leads zstd astray.
Sound == Complete(file) /\ fsize = file.len
OnlyUnsound == Sound => sane

Core ==
    /\ TypeOK
    /\ CallState
    /\ OnlyUnsound
    /\ CursorsAgree
    /\ ScratchIsFile
    /\ DroppedBehind
    /\ NeverEmptyInput
    /\ EofMeansAll

NoneKept ==
    /\ src_pos < retire_pos + Capacity + PageSize
    /\ src_pos < file.len =>
          src_pos % PageSize = 0 /\ src_pos <= retire_pos + Capacity
    /\ resident \subseteq Pages(0, src_pos) \ Pages(0, retire_pos)

IInv == Core /\ NoneKept

Contract == INSTANCE ReadContract WITH
    Transient <- FALSE,
    total <- Total(file),
    whole <- Sound,
    given <- zout,
    want  <- IF pc \in {"Top", "Run"} THEN buf ELSE 0,
    ret   <- ret

(***************************************************************************)
(* The window machinery implements the contract of a reader: every answer  *)
(* is the next bytes in order, no more than the buffer holds; the end and  *)
(* errors come only where the contract allows them.                        *)
(***************************************************************************)
IsAReader == Contract!Spec

(***************************************************************************)
(* Every call with room for output returns: the loop of read_streaming     *)
(* makes progress or leaves.                                               *)
(***************************************************************************)
ReadReturns == Contract!Answered

=============================================================================
