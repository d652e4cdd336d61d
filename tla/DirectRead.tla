----------------------------- MODULE DirectRead -----------------------------
(***************************************************************************)
(* `Read::read` on a decoder whose whole input is one slice of memory: a   *)
(* file mapping (from_mmap), a borrowed slice (from_slice), or a copy in   *)
(* huge pages (open_hugepage, open_hugepage_memfd).  One call of read is   *)
(* one call of run_on_buffers; maybe_retire then gives mapped pages back.  *)
(***************************************************************************)
EXTENDS Integers, FiniteSets, Zstd

CONSTANTS
    Files,         \* the compressed files that may be opened
    BufLens,       \* the lengths of the buffers a caller passes to read
    RetireWindow,  \* RETIRE_WINDOW: 4 MiB in the code
    PageSize,      \* 4096 in the code
    OsPage,        \* the page size of the machine
    MapShift,      \* where in its first OS page the caller's mapping begins
    MaxStall,      \* calls without progress after which libzstd fails: 16
    Shrinking      \* those of Files that another process may truncate

ASSUME FilesAssumption ==
    (\A f \in Files : IsStream(f)) /\ Shrinking \subseteq Files
ASSUME BufLensAssumption == BufLens \subseteq Nat
ASSUME WindowAssumption ==
    /\ RetireWindow \in Nat
    /\ PageSize \in Nat \ {0}
    /\ OsPage \in Nat \ {0}
    /\ OsPage <= RetireWindow
    /\ MapShift \in 0..(OsPage - 1)
    /\ MaxStall \in Nat \ {0}

Kinds == {"Mmap", "Slice", "Hugepage"}

VARIABLES
    file,        \* the stream in self.buf; file.len = self.buf.len()
    kind,        \* the variant of self.buf
    fsize,       \* present size of the file
    in_pos,      \* self.in_pos
    retire_pos,  \* self.retire_pos
    zpos, zout,  \* bytes zstd took in, bytes it handed out, while sane
    sane,        \* zstd has decoded the file's own bytes, without an error
    stall,       \* calls in a row without progress
    buf,         \* buf.len() of the call under way
    pc,          \* where the call is
    ret,         \* what the last finished call returned
    resident,    \* OS pages of the mapping that are mapped in
    dropped      \* OS pages that were given back

memory == <<retire_pos, resident, dropped>>
zstd   == <<zpos, zout, sane, stall>>
call   == <<buf, pc, ret>>
vars   == <<file, kind, fsize, in_pos, memory, zstd, call>>

-----------------------------------------------------------------------------
PageOf(x) == (x + MapShift) \div OsPage

Pages(from, to) == IF from < to THEN PageOf(from)..PageOf(to - 1) ELSE {}

AlignDown(x) == x - (x % PageSize)

SaturatingSub(x, y) == IF x > y THEN x - y ELSE 0

-----------------------------------------------------------------------------
Init ==
    /\ file \in Files
    /\ kind \in Kinds
    /\ fsize = file.len
    /\ in_pos = 0
    /\ retire_pos = 0
    /\ zpos = 0
    /\ zout = 0
    /\ sane = TRUE
    /\ stall = 0
    /\ buf = 0
    /\ pc = "Idle"
    /\ ret = "none"
    /\ resident = {}
    /\ dropped = {}

\* read(buf): an empty buffer is answered at once.
CallRead(n) ==
    /\ pc = "Idle"
    /\ buf' = n
    /\ IF n = 0 THEN pc' = "Idle" /\ ret' = "empty"
                ELSE pc' = "Run" /\ ret' = "none"
    /\ UNCHANGED <<file, kind, fsize, in_pos, memory, zstd>>

\* Mutant: every variant is advised.
Retires_Always == TRUE

\* Only a mapping is kept short by maybe_retire.
Retires == kind = "Mmap"

\* Mutant: the trailing window is added instead of subtracted.
Frontier_Ahead(p) == AlignDown(p + RetireWindow)

Frontier(p) == AlignDown(SaturatingSub(p, RetireWindow))

\* MADV_DONTNEED on [from, to), which the kernel widens to whole pages.
Discarded(from, to) == Pages(from, to)

\* maybe_retire, after in_pos moved to p and `touched` was decoded from.
MaybeRetire(p, touched) ==
    IF Retires /\ Frontier(p) > retire_pos
    THEN /\ resident' = (resident \cup touched)
                           \ Discarded(retire_pos, Frontier(p))
         /\ dropped' = dropped \cup Discarded(retire_pos, Frontier(p))
         /\ retire_pos' = Frontier(p)
    ELSE /\ resident' = resident \cup touched
         /\ UNCHANGED <<dropped, retire_pos>>

-----------------------------------------------------------------------------
Consumed == Reported(file, zpos, zout)

\* Mutant: the copy in huge pages is mapped from the file instead.
HasPages_AllMapped(to) == PageOf(to - 1) <= PageOf(fsize - 1)

\* A mapping has no page past the last one of the file; copies are complete.
HasPages(to) == kind = "Mmap" => PageOf(to - 1) <= PageOf(fsize - 1)

\* &self.buf[self.in_pos..] continues where zstd stopped, and what zstd takes
\* from it up to q is the file's: past a truncated end a mapping reads zeros.
FedTheFile(q) == in_pos = Consumed /\ (kind = "Mmap" /\ zpos < q => q <= fsize)

\* Pages zstd reads to advance; a copy has none of the mapping's.
Touched(from, to) == IF kind = "Mmap" THEN Pages(from, to) ELSE {}

\* Mutant: the position is added instead of the advance.
BytesRead_Absolute(q, out) == Reported(file, q, out)

BytesRead(q, out) == Reported(file, q, out) - Consumed

\* Mutant: a short read is reported as the end.
Result_FullOnly(out) == IF out = zout + buf THEN "data" ELSE "eof"

\* Ok(bytes_written), whatever it is.
Result(out) == IF out > zout THEN "data" ELSE "eof"

\* run_on_buffers succeeds, having stopped at q.
Decoded(q) ==
    /\ FedTheFile(q)
    /\ ~Damaged(file, zpos, q)
    /\ zpos' = q
    /\ zout' = Flushed(file, zout, buf, q)
    /\ stall' = IF Stalled(file, zpos, zout, q, zout') THEN stall + 1
                ELSE IF q = zpos /\ zout' = zout THEN stall ELSE 0
    /\ stall' < MaxStall
    /\ in_pos' = in_pos + BytesRead(q, zout')
    /\ MaybeRetire(in_pos', Touched(zpos, q))
    /\ pc' = "Idle"
    /\ ret' = Result(zout')
    /\ UNCHANGED sane

\* zstd fails on bytes that are not the file's or do not decode, or gives up.
Fails(q) ==
    \/ ~FedTheFile(q)
    \/ Damaged(file, zpos, q)
    \/ /\ Stalled(file, zpos, zout, q, Flushed(file, zout, buf, q))
       /\ stall + 1 >= MaxStall

\* `?` leaves before in_pos is moved and before maybe_retire.
ReturnError(touched) ==
    /\ ret' = "error"
    /\ resident' = resident \cup touched
    /\ UNCHANGED <<in_pos, retire_pos, dropped>>

\* Mutant: a failure of zstd is answered with Ok(0).
Rejected_AsEnd(q) ==
    /\ Fails(q)
    /\ pc' = "Idle"
    /\ ret' = "eof"
    /\ UNCHANGED <<in_pos, memory, zstd>>

\* It fails: read returns InvalidData.
Rejected(q) ==
    /\ Fails(q)
    /\ ReturnError(Touched(zpos, q))
    /\ pc' = "Idle"
    /\ sane' = FALSE
    /\ UNCHANGED <<zpos, zout, stall>>

\* After an error, and on bytes that are not the file's, zstd may take in any
\* of its input, hand out anything, and fail at any time.
Astray ==
    /\ \E to \in in_pos..file.len :
          /\ in_pos < to => HasPages(to)
          /\ \/ /\ in_pos' = to
                /\ MaybeRetire(to, Touched(in_pos, to))
                /\ ret' \in {"data", "eof"}
             \/ ReturnError(Touched(in_pos, to))
    /\ pc' = "Idle"
    /\ sane' = FALSE
    /\ UNCHANGED <<zpos, zout, stall>>

RunSane(q) ==
    /\ zpos < q => HasPages(q)
    /\ Decoded(q) \/ Rejected(q) \/ (~FedTheFile(q) /\ Astray)

RunZstd ==
    /\ pc = "Run"
    /\ IF sane
       THEN \E q \in StopPoints(file, zpos, zout, buf, file.len) : RunSane(q)
       ELSE Astray
    /\ UNCHANGED <<file, kind, fsize, buf>>

\* zstd touches a page that the file no longer has: SIGBUS.
Sigbus ==
    /\ pc = "Run"
    /\ IF sane
       THEN \E q \in StopPoints(file, zpos, zout, buf, file.len) :
               zpos < q /\ ~HasPages(q)
       ELSE in_pos < file.len /\ ~HasPages(file.len)
    /\ pc' = "Killed"
    /\ UNCHANGED <<file, kind, fsize, in_pos, memory, zstd, buf, ret>>

-----------------------------------------------------------------------------
\* Another process cuts the file short: its last pages leave the mapping.
Truncate(n) ==
    /\ file \in Shrinking
    /\ pc # "Killed"
    /\ n < fsize
    /\ fsize' = n
    /\ resident' = resident \cap Pages(0, n)
    /\ UNCHANGED <<file, kind, in_pos, retire_pos, dropped, zstd, call>>

ReadStep == RunZstd \/ Sigbus

Next ==
    \/ \E n \in BufLens : CallRead(n)
    \/ ReadStep
    \/ \E n \in 0..file.len : Truncate(n)

Spec == Init /\ [][Next]_vars

\* A caller that drains the stream stops at the first Ok(0) or error.
Draining == ret \notin {"eof", "error"} /\ \E n \in BufLens : n > 0 /\ CallRead(n)

\* A call that was made runs on: it is straight-line code of one thread.
FairSpec == Spec /\ WF_vars(ReadStep) /\ WF_vars(Draining)

-----------------------------------------------------------------------------
TypeOK ==
    /\ IsStream(file)
    /\ kind \in Kinds
    /\ fsize \in 0..file.len
    /\ in_pos \in 0..file.len
    /\ retire_pos \in 0..file.len
    /\ zpos \in 0..file.len
    /\ zout \in 0..Total(file)
    /\ stall \in 0..(MaxStall - 1)
    /\ buf \in BufLens \cup {0}
    /\ sane \in BOOLEAN
    /\ pc \in {"Idle", "Run", "Killed"}
    /\ ret \in {"none", "empty", "data", "eof", "error"}
    /\ resident \subseteq Pages(0, file.len)
    /\ dropped \subseteq Pages(0, file.len)

(***************************************************************************)
(* "We only retire pages we have already consumed": whatever the buffers,  *)
(* whether or not zstd holds a byte back, and on a machine whose pages are *)
(* larger than the 4096 the frontier is aligned to, no page given back is  *)
(* touched again.                                                          *)
(***************************************************************************)
NoRefault == [][(resident' \ resident) \cap dropped = {}]_vars

(***************************************************************************)
(* Between calls a mapping occupies the trailing window, a page of the     *)
(* code's, and the pages cut by its two ends, however far a single call    *)
(* advanced ("keeping RSS at ~9 MB regardless of file size"); and what is  *)
(* not a mapping is never advised.  A call that fails leaves what it       *)
(* touched until a later one succeeds.                                     *)
(***************************************************************************)
ResidentBounded ==
    /\ pc = "Idle" /\ sane =>
          Cardinality(resident) * OsPage
              <= RetireWindow + PageSize + OsPage + MapShift
    /\ kind # "Mmap" => dropped = {}

(***************************************************************************)
(* The read path does not loop, so Ok(0) says that one call produced       *)
(* nothing.  On a complete file that happens only between frames, with     *)
(* nothing pending: never inside a frame, whatever the buffers.            *)
(***************************************************************************)
EofBetweenFrames ==
    ret = "eof" /\ sane /\ Complete(file) =>
        zpos \in file.ends \cup {0} /\ zout = file.cum[zpos]

(***************************************************************************)
(* Ok(0) for a buffer with room means that a complete file was handed out  *)
(* in full.  It does not hold when a frame without content precedes other  *)
(* frames.                                                                 *)
(***************************************************************************)
EofMeansAll == ret = "eof" /\ sane /\ Complete(file) => zout = Total(file)

(***************************************************************************)
(* What docs/design.md says of a cleanly truncated stream, that zstd       *)
(* returns InvalidData: a call that finds the input used up and nothing to *)
(* hand out answers Ok(0), wherever zstd is, and a caller that drains the  *)
(* stream stops there; only one that goes on is told, after MaxStall.      *)
(***************************************************************************)
TruncatedIsInvalid == ret = "eof" => file.len \in file.ends \cup {0}

\* Every frame but the last has content.
NoDryFrame(f) ==
    \A e \in f.ends : e < f.len =>
        \E k \in 1..e : f.cum[k] > f.cum[k - 1] /\ \A d \in f.ends : d < e => d < k

\* The mapping is as long as it was made; a slice or a copy always is.
MappingWhole == kind = "Mmap" => fsize = file.len

(***************************************************************************)
(* A caller that drains a complete file gets all of it, when every frame   *)
(* but the last has content and nobody truncates a mapping.                *)
(***************************************************************************)
DeliversAll ==
    Complete(file) /\ NoDryFrame(file) /\ []MappingWhole =>
        <>(zout = Total(file) /\ ret = "eof")

(***************************************************************************)
(* A caller that drains a file with a byte that does not decode gets an    *)
(* error before it gets Ok(0), under the same premises.                    *)
(***************************************************************************)
DamageReported ==
    file.bad <= file.len /\ NoDryFrame(file) /\ []MappingWhole =>
        <>(ret = "error")

(***************************************************************************)
(* An inductive invariant.  While zstd is in step with the file, in_pos is *)
(* what it reports, it has made what it handed out, and it rests only at   *)
(* the end of a frame, at the end of the input, or with output pending;    *)
(* the pages given back end a window behind in_pos, and none before them   *)
(* is kept.                                                                *)
(***************************************************************************)
CallState == pc = "Run" => buf > 0 /\ ret = "none"

\* A file that decodes, and whose mapping stays whole, never leads zstd astray.
Sound == Complete(file) /\ MappingWhole
OnlyUnsound == Sound => sane

InStep ==
    sane => /\ in_pos = Consumed
            /\ zout <= file.cum[zpos]
            /\ \/ zpos \in file.ends \cup {0, file.len}
               \/ zout < file.cum[zpos]

DroppedBehind ==
    /\ retire_pos > 0 => retire_pos + RetireWindow <= in_pos
    /\ dropped \subseteq Pages(0, retire_pos)

Core ==
    /\ TypeOK
    /\ CallState
    /\ OnlyUnsound
    /\ InStep
    /\ DroppedBehind
    /\ EofBetweenFrames

NoneKept ==
    IF kind = "Mmap"
    THEN /\ in_pos < retire_pos + RetireWindow + PageSize
         /\ sane => resident \subseteq Pages(0, zpos) \ Pages(0, retire_pos)
    ELSE resident = {} /\ dropped = {}

IInv == Core /\ NoneKept

Contract == INSTANCE ReadContract WITH
    Transient <- FALSE,
    total <- Total(file),
    whole <- Sound /\ NoDryFrame(file),
    given <- zout,
    want  <- IF pc = "Run" THEN buf ELSE 0,
    ret   <- ret

(***************************************************************************)
(* Each variant is a reader of streams in which only the last frame may be *)
(* without content.  Truncating the file spoils a mapping only: a copy in  *)
(* huge pages and a borrowed slice stay whole.                             *)
(***************************************************************************)
IsAReader == Contract!Spec

=============================================================================
