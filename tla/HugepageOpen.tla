---------------------------- MODULE HugepageOpen ----------------------------
(***************************************************************************)
(* The constructors of `Decoder` and its Drop, in src/decoder.rs: several  *)
(* processes build decoders from one path, step by step, out of one pool   *)
(* of huge pages, while somebody else resizes, removes or recreates the    *)
(* file.                                                                   *)
(*                                                                         *)
(* Ownership is Rust's.  A value a constructor owns when it returns an     *)
(* error is dropped: a HugepageBuf unmaps its pages, an Mmap its mapping,  *)
(* a File its descriptor.  Pages known only by the raw pointer mmap        *)
(* returned, and a raw descriptor, are dropped by nobody.                  *)
(***************************************************************************)
EXTENDS Integers, FiniteSets, Functions

CONSTANTS
    Process,    \* callers of the constructors
    Huge,       \* HUGEPAGE: 2 MiB in the code
    Width,      \* bits of usize
    PoolSize,   \* vm.nr_hugepages
    Sizes,      \* sizes the file may have
    Windows,    \* values of the `window` argument
    Modes,      \* constructors that are called
    Absent,     \* the size of a file that is not there
    Faults      \* what the environment may do, see Fault

\* What a run lets happen: the file is resized or removed by others; a file
\* that is there cannot be opened, or stat'ed (no permission, no descriptor
\* left), or not be read; memfd_create, ftruncate, the mapping or the advice
\* of the source, or ZstdDecoder::new() fails.
Fault == {"resize", "remove", "open", "read", "memfd", "ftruncate", "source",
          "zstd"}
Mode  == {"anon", "memfd", "streaming", "mmap", "slice"}

ASSUME SizesAssumption ==
    /\ Huge \in Nat \ {0, 1}
    /\ Width \in Nat
    /\ 2^Width \in Nat \ {0}
    /\ 2^Width % Huge = 0
    /\ PoolSize \in Nat
    /\ Sizes \subseteq 0..(2^Width - 1)
    /\ Windows \subseteq 0..(2^Width - 1)
ASSUME ProcessAssumption == IsFiniteSet(Process)
ASSUME EnvironmentAssumption ==
    Absent \notin Nat /\ Faults \subseteq Fault /\ Modes \subseteq Mode

VARIABLES
    disk,     \* size of the file at the path, or Absent
    free,     \* huge pages that are not mapped
    leaked,   \* huge pages mapped by nobody who could unmap them
    lostFd,   \* a raw descriptor was left open
    pc,       \* where each process is in its constructor
    mode,     \* the constructor it called
    window,   \* the `window` argument
    len,      \* `len`, `file_size` or src_mmap.len()
    filled,   \* bytes of the file copied behind the pointer
    raw,      \* pages behind a raw pointer
    owned,    \* pages in a HugepageBuf
    fd,       \* the memfd is open
    src,      \* the process holds a mapping of the file
    err       \* kind of the error last returned

pool    == <<free, leaked, lostFd>>
request == <<mode, window>>
holding == <<raw, owned, fd, src>>
vars    == <<disk, pool, pc, request, len, filled, holding, err>>

Limit == 2^Width

\* Mutant: rounds a whole number of pages up by one more.
RoundUp_OneMore(x) == ((x + Huge) % Limit) - (((x + Huge) % Limit) % Huge)

\* (x + HUGEPAGE - 1) & !(HUGEPAGE - 1), in usize, as a release build wraps.
RoundUp(x) ==
    LET y == (x + Huge - 1) % Limit IN y - (y % Huge)

PagesFor(x) == RoundUp(x) \div Huge

-----------------------------------------------------------------------------
Init ==
    /\ disk \in Sizes
    /\ free = PoolSize
    /\ leaked = 0
    /\ lostFd = FALSE
    /\ pc = [d \in Process |-> "Idle"]
    /\ mode \in [Process -> Modes]
    /\ window = [d \in Process |-> 0]
    /\ len = [d \in Process |-> 0]
    /\ filled = [d \in Process |-> 0]
    /\ raw = [d \in Process |-> 0]
    /\ owned = [d \in Process |-> 0]
    /\ fd = [d \in Process |-> FALSE]
    /\ src = [d \in Process |-> FALSE]
    /\ err = [d \in Process |-> "none"]

Goto(d, label) == pc' = [pc EXCEPT ![d] = label]

\* `?` or `return Err(..)`: what is owned is dropped, what is raw is lost.
FailHolding(d, kind, r, f) ==
    /\ free' = free + owned[d] + (raw[d] - r)
    /\ leaked' = leaked + r
    /\ lostFd' = (lostFd \/ f)
    /\ raw' = [raw EXCEPT ![d] = 0]
    /\ owned' = [owned EXCEPT ![d] = 0]
    /\ fd' = [fd EXCEPT ![d] = FALSE]
    /\ src' = [src EXCEPT ![d] = FALSE]
    /\ err' = [err EXCEPT ![d] = kind]
    /\ Goto(d, "Idle")
    /\ UNCHANGED <<disk, request, len, filled>>

Fail(d, kind) == FailHolding(d, kind, raw[d], fd[d])

\* The error path calls munmap, or close, before it returns.
FailUnmapped(d, kind) == FailHolding(d, kind, 0, fd[d])
FailClosed(d, kind)   == FailHolding(d, kind, raw[d], FALSE)

\* File::open or metadata of the path fails: the file is not there, or it is
\* and the caller may not, or cannot, open it.
NotOpened(d) ==
    \/ disk = Absent /\ Fail(d, "NotFound")
    \/ "open" \in Faults /\ Fail(d, "Denied")

\* Mutant: MAP_NORESERVE, which promises pages the pool does not have.
CanMap_Overcommit(n) == 0 < n

\* mmap of hugetlb memory reserves its pages, or fails; a length of zero is
\* refused by the kernel.
CanMap(n) == 0 < n /\ n <= free

-----------------------------------------------------------------------------
\* A constructor is called; from_mmap is given a mapping of the file.
Call(d, w) ==
    /\ pc[d] = "Idle"
    /\ window' = [window EXCEPT ![d] = w]
    /\ err' = [err EXCEPT ![d] = "none"]
    /\ filled' = [filled EXCEPT ![d] = 0]
    /\ CASE mode[d] = "anon"      -> Goto(d, "Load") /\ UNCHANGED src
         [] mode[d] = "memfd"     -> Goto(d, "Stat") /\ UNCHANGED src
         [] mode[d] = "streaming" -> Goto(d, "Window") /\ UNCHANGED src
         [] mode[d] = "mmap"      -> /\ disk # Absent
                                     /\ Goto(d, "Advise")
                                     /\ src' = [src EXCEPT ![d] = TRUE]
         [] mode[d] = "slice"     -> Goto(d, "Zstd") /\ UNCHANGED src
    /\ UNCHANGED <<disk, pool, mode, len, raw, owned, fd>>

\* open_hugepage: std::fs::read(path) takes what is there.
Load(d) ==
    /\ pc[d] = "Load"
    /\ \/ NotOpened(d)
       \/ "read" \in Faults /\ disk # Absent /\ Fail(d, "Os")
       \/ /\ disk # Absent
          /\ len' = [len EXCEPT ![d] = disk]
          /\ filled' = [filled EXCEPT ![d] = disk]
          /\ Goto(d, "MapAnon")
          /\ UNCHANGED <<disk, pool, request, holding, err>>

\* open_hugepage: the anonymous hugetlb mapping, and the copy into it.
MapAnon(d) ==
    /\ pc[d] = "MapAnon"
    /\ LET n == PagesFor(len[d]) IN
       \/ ~CanMap(n) /\ Fail(d, "OutOfMemory")
       \/ /\ CanMap(n)
          /\ free' = free - n
          /\ raw' = [raw EXCEPT ![d] = n]
          /\ Goto(d, "Zstd")
          /\ UNCHANGED <<disk, leaked, lostFd, request, len, filled, owned,
                         fd, src, err>>

\* open_hugepage_memfd: path.metadata()?.len()
Stat(d) ==
    /\ pc[d] = "Stat"
    /\ \/ NotOpened(d)
       \/ /\ disk # Absent
          /\ len' = [len EXCEPT ![d] = disk]
          /\ Goto(d, "Create")
          /\ UNCHANGED <<disk, pool, request, filled, holding, err>>

\* memfd_create
Create(d) ==
    /\ pc[d] = "Create"
    /\ \/ "memfd" \in Faults /\ Fail(d, "OutOfMemory")
       \/ /\ fd' = [fd EXCEPT ![d] = TRUE]
          /\ Goto(d, "Extend")
          /\ UNCHANGED <<disk, pool, request, len, filled, raw, owned, src, err>>

\* Mutant: the descriptor is not closed when ftruncate fails.
ExtendFailed_Open(d) == Fail(d, "Os")

ExtendFailed(d) == FailClosed(d, "Os")

\* ftruncate(fd, capacity)
Extend(d) ==
    /\ pc[d] = "Extend"
    /\ \/ "ftruncate" \in Faults /\ ExtendFailed(d)
       \/ /\ Goto(d, "MapFd")
          /\ UNCHANGED <<disk, pool, request, len, filled, holding, err>>

\* mmap of the memfd, which is closed whether or not that worked.
MapFd(d) ==
    /\ pc[d] = "MapFd"
    /\ LET n == PagesFor(len[d]) IN
       \/ ~CanMap(n) /\ FailClosed(d, "OutOfMemory")
       \/ /\ CanMap(n)
          /\ free' = free - n
          /\ raw' = [raw EXCEPT ![d] = n]
          /\ fd' = [fd EXCEPT ![d] = FALSE]
          /\ Goto(d, "Fill")
          /\ UNCHANGED <<disk, leaked, lostFd, request, len, filled, owned,
                         src, err>>

\* Mutant: takes a file that became shorter for a whole one.
Short_Ignored(d) == FALSE

\* read_exact meets the end of the file before `len` bytes.
Short(d) == disk < len[d]

\* Mutant: the error of read_exact returns without munmap.
FillFailed_Mapped(d, kind) == Fail(d, kind)

FillFailed(d, kind) == FailUnmapped(d, kind)

\* File::open(path)?.read_exact(buf): an error of open, of a file that is
\* gone or of one that is there, leaves by the `?`; one of read_exact unmaps
\* first.
Fill(d) ==
    /\ pc[d] = "Fill"
    /\ \/ NotOpened(d)
       \/ disk # Absent /\ Short(d) /\ FillFailed(d, "UnexpectedEof")
       \/ disk # Absent /\ "read" \in Faults /\ FillFailed(d, "Os")
       \/ /\ disk # Absent
          /\ ~Short(d)
          /\ filled' = [filled EXCEPT ![d] = IF disk < len[d] THEN disk ELSE len[d]]
          /\ Goto(d, "Zstd")
          /\ UNCHANGED <<disk, pool, request, len, holding, err>>

-----------------------------------------------------------------------------
\* open_hugepage_streaming: the check of the window.
Window(d) ==
    /\ pc[d] = "Window"
    /\ \/ window[d] < Huge /\ Fail(d, "InvalidInput")
       \/ /\ window[d] >= Huge
          /\ Goto(d, "StatWindow")
          /\ UNCHANGED <<disk, pool, request, len, filled, holding, err>>

\* Mutants: a whole copy of every file; none of one as long as the window.
Covers_Always(d, size) == TRUE
Covers_Strict(d, size) == RoundUp(window[d]) > size

Covers(d, size) == RoundUp(window[d]) >= size

\* The file's size decides between the streaming scratch and a whole copy,
\* which open_hugepage_memfd makes from a stat of its own.
StatWindow(d) ==
    /\ pc[d] = "StatWindow"
    /\ \/ NotOpened(d)
       \/ /\ disk # Absent
          /\ len' = [len EXCEPT ![d] = disk]
          /\ Goto(d, IF Covers(d, disk) THEN "Stat" ELSE "MapScratch")
          /\ UNCHANGED <<disk, pool, request, filled, holding, err>>

\* The scratch, which a HugepageBuf owns from here on.
MapScratch(d) ==
    /\ pc[d] = "MapScratch"
    /\ LET n == PagesFor(window[d]) IN
       \/ ~CanMap(n) /\ Fail(d, "OutOfMemory")
       \/ /\ CanMap(n)
          /\ free' = free - n
          /\ owned' = [owned EXCEPT ![d] = n]
          /\ Goto(d, "MapSource")
          /\ UNCHANGED <<disk, leaked, lostFd, request, len, filled, raw, fd,
                         src, err>>

\* File::open(path)? and MmapOptions::map: the mapping is as long as the file
\* is now.
MapSource(d) ==
    /\ pc[d] = "MapSource"
    /\ \/ NotOpened(d)
       \/ "source" \in Faults /\ Fail(d, "Os")
       \/ /\ disk # Absent
          /\ len' = [len EXCEPT ![d] = disk]
          /\ src' = [src EXCEPT ![d] = TRUE]
          /\ Goto(d, "Advise")
          /\ UNCHANGED <<disk, pool, request, filled, raw, owned, fd, err>>

\* src_mmap.advise(..)?, and apply_madvise of from_mmap
Advise(d) ==
    /\ pc[d] = "Advise"
    /\ \/ "source" \in Faults /\ Fail(d, "Os")
       \/ /\ Goto(d, "Zstd")
          /\ UNCHANGED <<disk, pool, request, len, filled, holding, err>>

\* ZstdDecoder::new()?, then the value is built: a HugepageBuf takes the
\* pages over.
NewZstd(d) ==
    /\ pc[d] = "Zstd"
    /\ \/ "zstd" \in Faults /\ Fail(d, "Zstd")
       \/ /\ owned' = [owned EXCEPT ![d] = owned[d] + raw[d]]
          /\ raw' = [raw EXCEPT ![d] = 0]
          /\ Goto(d, "Ready")
          /\ UNCHANGED <<disk, pool, request, len, filled, fd, src, err>>

\* Mutant: a scratch is not unmapped with its decoder.
Released_NotScratch(d) == IF src[d] THEN 0 ELSE owned[d]

Released(d) == owned[d]

\* The decoder goes out of scope: munmap of what it owns.
Drop(d) ==
    /\ pc[d] = "Ready"
    /\ free' = free + Released(d)
    /\ owned' = [owned EXCEPT ![d] = 0]
    /\ src' = [src EXCEPT ![d] = FALSE]
    /\ Goto(d, "Idle")
    /\ UNCHANGED <<disk, leaked, lostFd, request, len, filled, raw, fd, err>>

-----------------------------------------------------------------------------
\* Somebody writes to, truncates or recreates the file; or removes it.
Resize(n) ==
    /\ "resize" \in Faults
    /\ disk' = n
    /\ UNCHANGED <<pool, pc, request, len, filled, holding, err>>

Remove ==
    /\ "remove" \in Faults
    /\ disk' = Absent
    /\ UNCHANGED <<pool, pc, request, len, filled, holding, err>>

Step(d) ==
    \/ Load(d) \/ MapAnon(d)
    \/ Stat(d) \/ Create(d) \/ Extend(d) \/ MapFd(d) \/ Fill(d)
    \/ Window(d) \/ StatWindow(d) \/ MapScratch(d) \/ MapSource(d) \/ Advise(d)
    \/ NewZstd(d)

Next ==
    \/ \E d \in Process : \E w \in Windows : Call(d, w)
    \/ \E d \in Process : Step(d) \/ Drop(d)
    \/ \E n \in Sizes : Resize(n)
    \/ Remove

Spec == Init /\ [][Next]_vars

-----------------------------------------------------------------------------
Labels == {"Idle", "Load", "MapAnon", "Stat", "Create", "Extend", "MapFd",
           "Fill", "Window", "StatWindow", "MapScratch", "MapSource",
           "Advise", "Zstd", "Ready"}

\* Types of the variables; no count of pages goes below zero.
TypeOK ==
    /\ disk \in Sizes \cup {Absent}
    /\ free \in Nat
    /\ leaked \in Nat
    /\ lostFd \in BOOLEAN
    /\ pc \in [Process -> Labels]
    /\ mode \in [Process -> Modes]
    /\ window \in [Process -> Windows \cup {0}]
    /\ len \in [Process -> Sizes \cup {0}]
    /\ filled \in [Process -> Sizes \cup {0}]
    /\ raw \in [Process -> Nat]
    /\ owned \in [Process -> Nat]
    /\ fd \in [Process -> BOOLEAN]
    /\ src \in [Process -> BOOLEAN]
    /\ err \in [Process -> {"none", "NotFound", "OutOfMemory", "Os",
                            "Denied", "UnexpectedEof", "InvalidInput",
                            "Zstd"}]

Held  == [d \in Process |-> raw[d] + owned[d]]
InUse == SumFunctionOnSet(Held, Process)

(***************************************************************************)
(* Whatever fails, and in whatever order the processes run, a huge page is *)
(* either free, mapped by one of them, or leaked; and the raw descriptor   *)
(* of open_hugepage_memfd is closed on every path.                         *)
(***************************************************************************)
PoolConserved == free + InUse + leaked = PoolSize /\ ~lostFd

(***************************************************************************)
(* "dropped when the `Decoder` is dropped, which calls `munmap` to release *)
(* the hugepages": when nobody is inside a constructor and no decoder is   *)
(* alive, the pool is whole again.                                         *)
(***************************************************************************)
PoolRestored ==
    (\A d \in Process : pc[d] = "Idle") => free = PoolSize /\ ~lostFd

\* No file is gone, or cannot be opened, when its pages are to be filled, and
\* no set-up of zstd fails.
Opened ==
    \A d \in Process :
        /\ pc[d] = "Fill" => disk # Absent
        /\ err[d] \notin {"Denied", "Zstd"}

(***************************************************************************)
(* Nothing is mapped that no value owns, except before the two `?` that    *)
(* leave with a raw pointer: as long as neither the second File::open of   *)
(* open_hugepage_memfd nor ZstdDecoder::new() fails, every other error,    *)
(* and every Drop, gives back all that was mapped.                         *)
(***************************************************************************)
RestoredIfOpened == []Opened => []PoolRestored

(***************************************************************************)
(* Of all the exits of the constructors, two lose what they mapped: the    *)
(* `?` after File::open in open_hugepage_memfd, whether the file is gone   *)
(* or there and cannot be opened, and the `?` after ZstdDecoder::new() in  *)
(* it and in open_hugepage.  No other does, an error of read_exact does    *)
(* not, and a scratch is never lost.                                       *)
(***************************************************************************)
LosesOnlyRaw ==
    [][leaked' > leaked =>
          \E d \in Process :
             /\ leaked' = leaked + raw[d]
             /\ \/ pc[d] = "Zstd"
                \/ pc[d] = "Fill" /\ err'[d] \in {"NotFound", "Denied"}]_vars

(***************************************************************************)
(* "ptr is valid for `capacity` bytes; we read exactly `len` bytes": the   *)
(* slice a decoder is given fits its mapping, for every length a usize     *)
(* has (the rounding may wrap), and every byte of it came from the file,   *)
(* although the file may change after its length was taken.                *)
(***************************************************************************)
SliceIsBacked ==
    \A d \in Process :
        pc[d] \in {"Zstd", "Ready"} /\ ~src[d] /\ mode[d] # "slice" =>
            /\ len[d] <= (raw[d] + owned[d]) * Huge
            /\ filled[d] = len[d]

(***************************************************************************)
(* Why that is so, and an inductive invariant: where in a constructor what *)
(* may be held, and what was measured or copied by then.                   *)
(***************************************************************************)
Holding(d) ==
    /\ raw[d] > 0 => pc[d] \in {"Fill", "Zstd"}
    /\ owned[d] > 0 => pc[d] \in {"MapSource", "Advise", "Zstd", "Ready"}
    /\ fd[d] => pc[d] \in {"Extend", "MapFd"}
    /\ src[d] => pc[d] \in {"Advise", "Zstd", "Ready"}
    /\ pc[d] = "Advise" => src[d]
    /\ pc[d] = "MapAnon" => filled[d] = len[d]
    /\ pc[d] = "Fill" => len[d] <= raw[d] * Huge

IInv == TypeOK /\ SliceIsBacked /\ \A d \in Process : Holding(d)

(***************************************************************************)
(* OutOfMemory is returned only when the pool has fewer free pages than    *)
(* the file, or the window, needs, however many processes share the pool;  *)
(* or when memfd_create itself failed; or when the file is empty, since    *)
(* mmap refuses a length of zero whatever is free.                         *)
(***************************************************************************)
IsEmpty(d) == pc[d] \in {"MapAnon", "MapFd"} /\ len[d] = 0

Needed(d) ==
    LET x == IF pc[d] = "MapScratch" THEN window[d] ELSE len[d]
    IN  (x + Huge - 1) \div Huge

OomMeansScarce ==
    [][\A d \in Process :
          err[d] = "none" /\ err'[d] = "OutOfMemory" =>
              Needed(d) > free \/ IsEmpty(d) \/ pc[d] = "Create"]_vars

(***************************************************************************)
(* "Hugepage RSS is bounded to the scratch size": a streaming decoder has  *)
(* no more huge pages than its window takes.                               *)
(***************************************************************************)
WithinWindow ==
    \A d \in Process :
        mode[d] = "streaming" => raw[d] + owned[d] <= PagesFor(window[d])

\* The stat of a delegated call finds the size for which it was delegated.
StatsAgree ==
    \A d \in Process :
        pc[d] = "Stat" /\ mode[d] = "streaming" => disk \in {len[d], Absent}

(***************************************************************************)
(* That bound holds, whether the decoder windows or was delegated, unless  *)
(* the file's size changes between the stat that decides and the one of    *)
(* open_hugepage_memfd.                                                    *)
(***************************************************************************)
WindowHolds == []StatsAgree => []WithinWindow

(***************************************************************************)
(* "When `window >= file_size` the call delegates": a scratch is mapped    *)
(* only for a file that is larger than the window was asked to be.         *)
(***************************************************************************)
DelegatesWhenCovered ==
    \A d \in Process : pc[d] = "MapScratch" => window[d] < len[d]

=============================================================================
