# A TLA+ model of mmapzstd

mmapzstd decompresses zstd files through `std::io::Read`. Its `Decoder`
(`src/src/decoder.rs`) takes the compressed bytes from a file mapping, from a
borrowed slice, from a copy of the file in 2 MiB huge pages, or, for files
larger than the pool of huge pages, from a window of the file that is copied
into huge pages one stretch at a time. A command, `mmapzstd-bench`, measures
these variants.

This directory models that code: the two read paths, the constructors with
their ownership of huge pages, the command, and the two experiments with huge
pages that share a pool and a fixture.
`PROJECT.json` lists, for each definition, the source lines it stands for; the
mutants that every property is tested with; the hazards; and the theorems.

## 1. Inventory

| Component | State | Operations | Interacts with |
|---|---|---|---|
| Windowed read path, `read_streaming` and `retire_src`, decoder.rs 514-585 | `src_pos`, scratch, `scratch_in_pos`, `scratch_len`, `retire_pos` | `read` | zstd (one call per turn of its loop); the kernel (`MADV_DONTNEED`); whoever truncates the mapped file |
| Direct read path, `read` and `maybe_retire`, decoder.rs 481-512 and 587-612 | `in_pos`, `retire_pos` | `read` | zstd (one call per `read`); the kernel |
| Constructors and `Drop`, decoder.rs 33-475 | a pointer or a `HugepageBuf`, a descriptor, a source mapping | `from_mmap`, `open_hugepage`, `open_hugepage_memfd`, `open_hugepage_streaming`, `from_slice`, drop | the pool of huge pages; the file, which others change; other processes |
| Command, `src/src/bin/bench.rs` | arguments, results | `main`, `measure_run` | constructors, read path, `/proc/meminfo` |
| Huge-page mapping experiment, `examples/measure_mmap_hugepage.rs` | where `main` is, one raw mapping, a descriptor, what was measured | `main`, `measure_h3a`, `measure_h3b`, `measure_h3c` | the pool; the fixture; read paths |
| BufReader experiment, `examples/measure_bufreader_hugepage.rs` | `hugepages_ok`, one `HugepageAlloc`, the variant and run | `main`, `bench`, `measure_once`, `check_hugepages_available` | the pool; the fixture; its scratch reader |
| its `ScratchReader`, lines 71-139 | `start`, `end`, `file_offset`, the kernel's file position | `read` | `read(2)`, `pread(2)` |
| Fixture, `examples/gen_fixture.rs` | the file | `main` | both experiments read what it writes |
| libzstd | the decoder's position and pending output | `run_on_buffers` | both read paths |

A `Decoder` is used by one thread, so the concurrency is with other processes:
they share the pool of huge pages, and they change the file between two system
calls of a constructor, or under a mapping. The rest of what is hard is the
protocol with zstd. It takes in what it likes, hands out what fits, and keeps
the last byte of a frame back while output is pending; cursors into a scratch
that is overwritten again and again must stay in step with that, wherever
window edges fall in the frames.

What makes each component correct:

- read paths: bytes are fed to zstd in order and each once; `Ok(0)` is the end
  and nothing else; errors are reported; every call returns; the pages kept are
  bounded, and a page given back is never needed again;
- constructors: every exit gives back what it mapped and closes what it opened;
  the slice handed to a decoder fits its mapping and holds the file;
  `OutOfMemory` means what it says;
- command: all runs or no report; it ends; it takes nothing with it; passing
  its preflight means something;
- scratch reader: what was read, what was handed out and what is left agree;
- experiments: a page is given back before the next is needed, so that what was
  enough once stays enough; neither starves the other; both end.

## 2. Modules

| Module | Models | Extends or composes |
|---|---|---|
| `Zstd` | one call of `ZSTD_decompressStream`, as a contract (external) | |
| `Streams` | small streams to run it on; test data | |
| `ReadContract` | the abstract specification: what the docs promise of every `Decoder` as `Read`; `Transient` is a source that may fail now and be read later | |
| `StreamingRead` | `read` on an `open_hugepage_streaming` decoder | `Zstd`; implements `ReadContract` |
| `DirectRead` | `read` on the other variants | `Zstd`; implements `ReadContract` |
| `HugepageOpen` | constructors, ownership, `Drop` | |
| `Bench` | the command, among other users of pool and file | composes `HugepageOpen` |
| `ScratchReader` | the scratch reader | implements `ReadContract` |
| `MmapExperiment` | `measure_mmap_hugepage` | |
| `ScratchExperiment` | `measure_bufreader_hugepage` around its reader | |
| `Experiments` | both, one pool, and `gen_fixture` writing what they read | composes the two |
| `MC*` | instances for TLC: files, buffers, processes | |
| `PageLemmas` | arithmetic of pages and of rounding, intervals of pages, sums over a finite set, proved | |
| `ZstdLemmas` | what a call of zstd preserves, proved | |
| `StreamingRead_proofs`, `DirectRead_proofs`, `HugepageOpen_proofs`, `ScratchReader_proofs`, `Experiments_proofs` | theorems | |
| `Bench_proofs` | theorems | uses those of `HugepageOpen_proofs` on its constructors |

### Zstd

A stream is abstracted to what the read paths can tell apart: its length, how
many bytes of output are known after each byte of input (`cum`), where frames
end (`ends`), where only part of a frame header has been seen (`hdr`), and the
first byte that does not decode (`bad`). Frames may be empty or skippable
(they add nothing to `cum`). A call takes bytes in until the output has no room
for what they produce, a frame ends, or the input ends. The function returns
where it can stop (`StopPoints`), what it hands out (`Flushed`), what it
reports to have taken (`Reported`: less one byte while a finished frame's
output is pending), and when a call without progress counts towards the 16th,
at which libzstd gives up (`Stalled`). A byte of output is determined by a
byte of input and never later than the frame's end; real zstd decides output
by whole blocks, which `cum` expresses by jumps. Two things of libzstd are left
out: the shortcut that decodes a frame in a single call when all of it is in
the input and the output has room (it changes when bytes are taken in, not
which), and what the crate does with dictionaries.

### StreamingRead

`CallRead` is the entry of `read`. One turn of the loop of `read_streaming` is
`ReturnEof`, or `Refill` or `KeepScratch` followed by `RunZstd`. `Refill`
includes the copy, the cursor changes and `retire_src`; `RunZstd` includes the
cursor change and the decision to return or to go round. The scratch records
*which byte of the file* each of its cells holds, so that "zstd was fed the
file" is a statement about the cells between the cursors. `resident` and
`dropped` are the pages of the source mapping that the process holds and those
it gave back; `OsPage` is the machine's page size, which need not be the 4096
(`PageSize`) of the code. `Truncate` is another process that shortens the file:
bytes past the new end read as zero to the end of their page (`Zero`), and a
page beyond has no content (`Sigbus`).

`sane` says that zstd is where the code's cursor is. It is lost when zstd fails
(it has taken in what it rejects, while `?` leaves before `scratch_in_pos`
moves) and when it is fed zeros. From then on `Astray` is all that is known of
a call: zstd may take in any part of its input, hand out anything, and fail or
not. A caller may read on after an error, in `Spec` without limit, so the
invariants are about what the code keeps whatever zstd then does.

### DirectRead

One `read` is one call of zstd on the rest of the slice, followed by
`maybe_retire` for a mapping. `kind` is the variant of `DecoderBuf`;
`Slice` and `Hugepage` are never advised and do not feel a truncation.
`MapShift` is where in its first page the caller's mapping begins, since
`from_mmap` accepts any. `sane` and `Astray` are as in `StreamingRead`; after an
error `maybe_retire` is not reached (`ReturnError`), so what a failed call
touched stays until a later one succeeds.

### HugepageOpen

Each system call of a constructor is an action of a process, with an outcome
for each error path. Ownership is Rust's: `owned` are pages in a `HugepageBuf`,
which an early return drops; `raw` are pages known by a pointer only, which an
early return loses (`leaked`) unless the code calls `munmap` first
(`FailUnmapped`). A raw descriptor is likewise closed only where the code does
so. `RoundUp` is the rounding of the code in a word of `Width` bits. `Resize`
and `Remove` are others at work on the file. `NotOpened` is a path that cannot
be stat'ed or opened: there is no file, or there is one and the caller may not
have it, or has no descriptor left (`"open"` in `Faults`); `"read"` is a read
of an open file that fails.

### Bench

`main` of the command step by step, with `HugepageOpen`'s actions as its
constructors: `Preflight` reads `HugePages_Free`, which counts pages that are
mapped but not yet touched; then one reader at a time is opened, drained and
dropped. A failed run leaves by `?`, which drops the reader
(`CopyFailed`). What a constructor lost is given back by the kernel when the
process is gone (`Reap`). Draining is one step here: that a reader delivers
its stream is what the read paths' modules show.

### MmapExperiment, ScratchExperiment, Experiments

`MmapExperiment` takes `measure_h3a`, `measure_h3b` and `measure_h3c` system
call by system call: `Stat`, `Map`, `FillOpen`, `FillRead`, `Decode`, with
SKIPPED, `?` and `expect` as the code has them (`FillRead` reads the file that
was opened, also when its name is gone or has become another's); h3b and h3c differ in their
descriptor and are instances of the same actions. `pages` are behind a raw
pointer, so only `Unmapped` and the end of the process give them back.
`ScratchExperiment` is `main` of the other: the check that maps a page and drops
it, the warm pass, the control, and three variants of `TotalRuns` runs, each of
which expects a page. In `Experiments` the two run side by side, on one pool
(`free`) and one fixture, which `Generator` creates empty and fills in several
writes, may leave unfinished (`Crash`), and which somebody may `Remove`. A
fixture has an id for each time it is written, so that a program can tell that
it changed (`Changed`); `PagesFor` is that of the code, in pages.

### ScratchReader

`Refill` reads up to `ToRead` bytes at the kernel's position or at
`file_offset`; the system call may return less, or fail. `cell` records which
byte of the file each cell of the scratch holds.

## 3. Runs

Lengths are scaled down: what matters is whether frames end before, at or after
window edges, whether a file has several windows, and whether pages are larger
or smaller than those of the code.

| Run | Bounds | What it shows |
|---|---|---|
| `StreamingRead` | windows of 4 bytes, code pages of 2, machine pages of 4; nine streams of 0 to 11 bytes, up to three windows; buffers of 0, 1, 2, 3, 9 bytes; truncation at any step to any length | order of input, no empty input, residency between and during copies, no refault; the inductive invariant `IInv` of the proofs |
| `StreamingEvery` | *every* stream of up to 4 bytes that makes up to 2 bytes of output at each, with every choice of frame ends and bad byte; windows of 2 | a draining caller gets all of it, or the error; each call returns; `IsAReader` |
| `DirectRead` | machine pages larger than the code's, a mapping at an offset; the nine streams of the first run, truncated at any step (`Shrinking`), and *every* stream of up to 4 bytes in which each frame but the last has content; buffers as in the first | retirement; where `Ok(0)` can come; a draining caller gets all of it, or the error; `IsAReader`; `IInv` |
| `HugepageOpen` | two processes, a pool of 3 pages of 2 bytes, `usize` of 4 bits, sizes 0, 2, 3 and 15 (the last wraps), windows 1 (refused) and 2, every fault | conservation of pages and descriptor, backing of the slice, delegation, the meaning of `OutOfMemory`, which exits lose pages and that all others give them back, when the window bounds the pages |
| `Bench` | one other process, a pool of 3 pages, files that need two pages or more than there are, 0 or 2 runs after 0 or 1 warmups, files that are resized, removed or cannot be opened, contexts of zstd that cannot be made | all or nothing, an end, nothing left behind, what the preflight is worth |
| `ScratchReader` | files of 0 to 7 bytes, an allocation of 2, chunks of 3 that are cut to it, both system calls, failures | accounting, order, delivery, `IsAReader` |
| `Experiments` | pools of 1, 2 and 3 pages of 2 bytes; a fixture of 3 bytes that is absent, cut off at 2 or whole, and written or removed once more; two runs per variant | enough pages for both, so that both measure what they are to; what the early check is worth, the first copy unmapped before the second, both end |

In `Experiments` a whole fixture needs two pages, so a pool of 3 is the least in
which nobody is starved, 2 is enough for one of them only, and with 1 only the
check and the scratch fit; these are the cases the code tells apart. Two runs
are the least for which a run's page must be back before the next run.

In `HugepageOpen` an empty file is the one that needs no page, 2 is a file that
is covered by the window (and equal to it), 3 one that is not, and 15 the one
whose rounding wraps; 3 pages are enough for one process with the largest
copy that fits and too few for two.

Five runs look for a counterexample to a sentence of the documentation and
find it:

- `StreamingCutOff`: streaming-design.md 251-252 says that a stream truncated
  inside a frame gives `InvalidData`. When the file is used up the code returns
  `Ok(0)` wherever zstd is (decoder.rs 553), and drops what zstd still holds.
- `StreamingTrailing`: streaming-design.md 250-251 says that a zstd stream that
  ends before the file does is answered with `Ok(0)`. The loop feeds zstd what
  follows the last frame, and when that begins no frame the caller gets zstd's
  error (577).
- `DirectCutOff`: design.md 168-170 says that a cleanly truncated stream gives
  `InvalidData`. `read` answers `Ok(0)` when the slice is used up (610), at which
  `read_to_end` and `io::copy` stop; only a caller that reads on after `Ok(0)`
  gets an error, from libzstd's count of stalled calls.
- `DirectDryFrame`: `read` returns what a single call of zstd wrote. At an
  empty or a skippable frame before other frames that is `Ok(0)`, the end to
  any caller of `Read`. The windowed path goes round instead.
- `HugepageLeak`: when the file disappears between `metadata` and `File::open`
  in `open_hugepage_memfd`, the `?` leaves with the mapping in a raw pointer.
  So it does when the file is there and cannot be opened, and so does
  `ZstdDecoder::new()?` there and in `open_hugepage`.

`LosesOnlyRaw` shows that those are the only exits that lose pages,
`RestoredIfOpened` that the pool is whole again while none of them is taken,
and the premise `NoDryFrame` of `DirectRead`'s contract that dry frames are the only
streams on which it is not a reader.

`RestoredIfOpened` and `WindowHolds` have premises on what happens, not on
`Faults`: their run lets everything happen, and what is excluded is only the
behaviours in which a constructor meets one of the two leaking exits, or a
delegated call finds another size than the one for which it was delegated.
`SYMMETRY` is not used. Deadlock is not checked where the system may stop: a
reader that failed, a command that ended.

### Fairness

`WF_vars(ReadStep)`: a call that was made runs on, being straight-line code of
one thread that waits for nobody. `WF_vars(Draining)` is a caller that drains
(`read_to_end`, `io::copy`) until the first `Ok(0)`, and stops at an error. No
property assumes a caller that goes on after `Ok(0)`.
`WF_vars(BenchStep)`, `WF_vars(MStep)`, `WF_vars(SStep)`: the command and each
experiment are one thread, none of which waits for another: a pool without
pages is an error to them, not a reason to wait. The generator of the fixture
may stop at any time. The scratch reader assumes
in addition (`SF`) that the kernel does not interrupt the same caller for ever.
Nothing is assumed of other processes.

## 4. Proofs

All for every value of the constants. The assumptions are the `ASSUME`s of the
modules, all evaluated by TLC too: files are streams that `Zstd` admits, a
window is a multiple of the code's pages and of the machine's, a page of the
code is no larger than one of the machine (4096 is the smallest Linux has), a
word has values at all, there are finitely many processes. A theorem that needs
more says so in its statement (`ASSUME ... PROVE`), and the table repeats it;
every run of the same property has constants that satisfy it.

| Module | Theorem | Says |
|---|---|---|
| `StreamingRead_proofs` | `Invariance` | `Spec => []IInv` |
| | `TypeCorrect`, `InputNeverEmpty`, `NothingLost` | parts of `IInv` |
| | `InOrder` | `Spec => []FedInOrder` |
| | `NeverRefaults` | `Spec => NoRefault` |
| | `ResidencyBounded`, `PeakBound` | `Spec => []ResidentBounded`, `Spec => PeakBounded` |
| | `Implements` | `Spec => IsAReader`: the refinement, step by step |
| | `TurnsAdvance` | `LoopAdvances`: why each call returns |
| | `DamageNotEnd` | `EofMeansDecoded`: `Ok(0)` never hides damage |
| `DirectRead_proofs` | `Invariance`, `TypeCorrect` | `Spec => []IInv`, `Spec => []TypeOK` |
| | `EofOnlyBetweenFrames` | `Spec => []EofBetweenFrames` |
| | `NeverRefaults`, `ResidencyBounded` | `Spec => NoRefault`, `Spec => []ResidentBounded` |
| | `Implements` | `Spec => IsAReader` |
| | `NothingHidden` | `EofMeansAll` and `EofMeansDecoded`, of files in which every frame but the last has content |
| | `CutOffCounted` | `EofCounts`: how long a caller that reads on after `Ok(0)` waits for the error of a cut-off stream |
| `HugepageOpen_proofs` | `Invariance`, `SliceBacked` | `Spec => []IInv`, `Spec => []SliceIsBacked` |
| | `OnlyRawIsLost` | `Spec => LosesOnlyRaw` |
| | `Delegates` | `DelegatesWhenCovered`, if no window is so large that its rounding wraps |
| | `WindowKept` | `Spec => WindowHolds` |
| | `Conserved` | `Spec => []PoolConserved` |
| | `Restored` | `Spec => RestoredIfOpened` |
| | `OomJustified` | `OomMeansScarce`, if the pool is smaller than the address space |
| `Bench_proofs` | `ReportWhole`, `NothingLeft` | `Spec => []AllOrNothing`, `Spec => []LeavesNothing` |
| | `PreflightEnough` | `PreflightSuffices`, if `memfd_create` itself does not fail and the pool is smaller than the address space |
| `ScratchReader_proofs` | `TypeCorrect`, `AlwaysAccounted`, `InOrder` | `TypeOK`, `Accounted`, `HandedOutInOrder` |
| | `Implements` | `Spec => IsAReader` |
| `Experiments_proofs` | `CheckEnough`, `SecondEnough` | `CheckSuffices`, `SecondNotStarved` |
| | `NeitherStarved` | `NoneSkipped`: the safety half of `EnoughForBoth` |
| | `AllReturned` | `PagesReturned`: the safety half of `Ends` |

### The windowed path

`FedInOrder` compares scratch cells with a position that zstd reports; neither
says what is in the scratch, so it is not inductive. `Core`, the larger part of
`IInv`, adds that the scratch is the stretch of the file that ends at `src_pos`
(`ScratchIsFile`), and that the distance from the cursor to the end of the
scratch is the distance from what zstd reports to `src_pos` (`CursorsAgree`).
The second is kept by `RunZstd` because the code advances by what zstd reports
and not by what it took in. It is about a `sane` zstd only; what `Astray` may
break is kept out of it, and `OnlyUnsound` says that a whole file that nobody
truncates never makes zstd lose its way. `EofMeansAll` is inductive together
with `CursorsAgree`: at the end of the file with an empty scratch zstd has
reported everything, so it holds no last byte back, so nothing is pending.

`DroppedBehind` says that the pages given back end a window behind `src_pos`; as
every later copy begins at `src_pos`, and the window is a multiple of both page
sizes, it touches none of them, which is `NoRefault`. (design.md 107-108 fears
that the decoder may refault a retired page when zstd's own window is large;
zstd keeps that window itself, and `NoRefault` is proved of both paths.)

Residency: `NoneKept`, the rest of `IInv`, says that the resident pages lie
between `retire_pos` and `src_pos`, and that those two are less than a window
and a page apart (exactly a window, until the file is used up). How many
pages such a stretch has is counted by `PageLemmas` (`PagesCounted`, from the
cardinality of an interval). This is where a page of the code must not exceed
one of the machine.

`Implements` maps `Refill`, `KeepScratch` and an empty turn of `RunZstd` to
stuttering; a turn with output to `Give`; and shows that on a sound file the
error, `Sigbus` and `Astray` steps are impossible (`SoundFileDecodes`,
`SoundFileHasPages`), so that the contract's premise is used where it must be.

That every call returns is liveness, but what makes it so is not: `Left`, the
bytes of the file that are still to be fed, never grows, and shrinks with each
turn of the loop that does not return (`TurnsAdvance`). With output pending a
turn returns; with none, zstd is given a slice that is not empty and stops at its
end or at the end of a new frame (`DryTurnTakes`), with no byte held back since
nothing is pending. So a call makes at most as many turns as the file has
bytes. `DamageNotEnd` needs one more conjunct, that a sane zstd has not passed
the byte that does not decode (`Undamaged`).

### The direct path

The invariant is `in_pos = Consumed` while zstd is sane (`InStep`): the code adds
what one call reports, and what it reports can be less than what it took in by
the byte it holds back. `EofOnlyBetweenFrames` follows from what a call that
hands out nothing may leave behind (`ZstdLemmas`): with room in the buffer it
stops where the input ends or a frame does, and on a complete file the input
ends with a frame. Residency needs a term for the mapping's offset in its page
and one for a page of the code, since the frontier is aligned in the file and
the pages in memory: one window and one page are not enough for every offset. `Implements` and
`NothingHidden` have the premise `NoDryFrame`, without which run `DirectDryFrame`
refutes them: a call that hands out nothing and did not come to the end of the
file passed a frame between whose ends there is no output (`DryFrame`).
`CutOffCounted` says what run `DirectCutOff` leaves to a patient caller: on a
stream cut off inside a frame an `Ok(0)` either moves zstd on or is counted, and
`TypeCorrect` bounds the count.

### The constructors

`Holding` says which steps may hold a raw mapping, a `HugepageBuf` or a source
mapping, and that a mapping about to be filled covers the length; with it
`SliceIsBacked` is inductive. The arithmetic is `RoundUp` in a word of `Width`
bits: either it covers its argument or it wraps to 0, and a mapping of length 0
fails (`CanMap`), so a slice never exceeds its mapping, whatever the length. A
*window* that wraps is a different matter: it is compared, not mapped, and a
window of 0 covers nothing. Hence the premise of `Delegates`, and a note below.
`WindowKept` carries through the constructor that what was compared with the
window is what is mapped (`BelowWindow`). A delegated call takes the size again,
so it uses `StatsAgree`, the premise of `WindowHolds`, in that one step.

`PoolConserved` adds up what any number of processes hold: `SumFunctionOnSet` of
the pages of each. What such a fold computes would need induction over data; what
a *step* does to it does not. `PageLemmas` proves that a sum of naturals is the
number of pairs of an element and a number below its value (`SumIsCount`: take
the smallest set for which it is not, and remove an element), and cardinalities
have library theorems. So changing one term changes the sum by as much
(`SumChange`), terms that are all 0 sum to 0 (`SumZero`), and no term exceeds the
sum (`SumAtMost`). Each action of a constructor is shown to be `Balanced`: what
its process holds, the free pages and the leaked ones change so that their sum
does not. The descriptor, the other half of `PoolConserved`, is why `Holding`
says at which steps one may be open. `Restored` carries that nothing was leaked: of the
steps that leak (`OnlyRawIsLost`) the premise `Opened` excludes the one before
which the file is gone and those after which the error is that of a file that
cannot be opened or of zstd (`NothingLost`). `OomJustified` carries, for each
process, that a window which is mapped passed the check (`WindowChecked`) and so
is not zero; an empty file is the case `IsEmpty` of the property. A mapping
that fails otherwise needs more pages than are free, and a length whose rounding
wraps needs more than the pool has.

### The command

`ReportWhole` rests on the results being those of the runs finished so far, in
order, less the warmups, and on an error being final. `Bench_proofs` has
`H == INSTANCE HugepageOpen_proofs`, so that what is proved of the constructors is
cited of the command's own (`H!StepInvariant`, `H!StepBalance`), by way of one lemma
that the assumptions hold and a few that say that the two instances of a
definition are the same. `NothingLeft` keeps `HugepageOpen`'s invariant, the
conservation of the pool and where the command may hold pages (`Holds`); when it
has ended it holds none, and the sum over the others is the sum over all.
`PreflightEnough` keeps, while nobody else is about, that the length in the
constructor is the one the preflight was made for (`Prepared`); what is free and
what the command holds are then the whole pool (`PoolOfOne`).

### The scratch reader

`ScratchReader_proofs` adds to `Accounted` that a refill under way finds the scratch
used up (`RefillsDrained`), without which overwriting it would lose bytes. For
`Implements` it needs that only at the end of the file does a refill bring
nothing (`EmptyAtEnd`).

### The experiments

Two programs on one pool: `Pooled` says that a page is free, in the copy of the
one or in the scratch of the other, and at which steps each may hold any. Three
theorems have a temporal premise; each is an invariant kept by the steps that
satisfy the premise before and after: `Checked` (the check said that there is a
page, and while nobody else holds one there still is), `Same` (lengths are those
of the fixture, and one that was mapped once fits the pool), `Roomy` (the mmap
experiment never has more than the pages of one fixture, so that one is left).
They are proved of `Spec`, without fairness.

### Only model-checked

Liveness, which is out of the prover's reach: `DeliversAll`, `DamageReported`,
`ReadReturns`, `EnoughForBoth` and `Ends`. What can be said
of them without "eventually" is proved: `EofMeansAll`, `EofMeansDecoded`,
`LoopAdvances`, `NoneSkipped`, `PagesReturned`. Every other property
of a passing run is a theorem.

## 5. What the model does not say

Left out, and listed in `PROJECT.json`: the Criterion benchmarks (their
huge-page helpers, `benches/decompress.rs` 90-233 and `benches/levels.rs` 257-325,
make the system calls of `measure_h3b` and `measure_h3c`, which `MmapExperiment`
models); the three other measuring examples (they open, decode and print, and
share nothing but the read paths); the readers of `/proc` and the escalation
files (text for messages); commas, medians and the layout of the report (pure
functions of the results); and the contents of blocks, checksums and
dictionaries.

Abstractions worth knowing:

- After an error zstd may do anything (`Astray`). What the crate really does is
  more benign: libzstd resets its context at the next call. The model needs
  less, and shows that no cursor, page or slice depends on it. `ResidentBounded`
  of the direct path is stated for a sane zstd.
- In the experiments a decode is one step, as in `Bench`, and a fixture that
  changes while it is read may decode or fail.
- `madvise` always succeeds. The code ignores its result and advances
  `retire_pos` anyway, so a failure costs residency only.
- The kernel's fault-around and read-ahead are ignored in `resident`.
- A stream cut off inside a frame *header* is reported by neither path, not
  even to a caller that reads on after `Ok(0)`; the premise of `EofCounts`
  excludes it.
- The rounding wraps as in a release build; a debug build panics there.
- The bound on residency of a mapping holds between calls: one call may decode
  from as much input as its buffer has room for.

Disagreements between documents and code that no run is about:

- design.md 53-55 on a file truncated under a mapping: the process is killed
  by SIGBUS, not handed an error.
- decoder.rs 228-229 on `OutOfMemory`: an empty file also gives it, since
  `mmap` refuses a length of zero (`IsEmpty` in `OomMeansScarce`).
- decoder.rs 388 rounds the window up unchecked, while 334 promises that
  windows of 2 MiB and more are accepted and that a file they cover is
  delegated: one near the top of `usize` wraps to 0, covers nothing, and its
  scratch of length 0 cannot be mapped. The windows of run `HugepageOpen` do not
  wrap, and `Delegates` has that as its premise.
- decoder.rs 390-392: a delegated call takes the file's size again at 249, and
  a file that grew in between is copied whole, beyond the window README.md 61
  and decoder.rs 329-332 speak of. It is the premise of `WindowHolds`.
- design.md 47 calls `Decoder` `!Send`; decoder.rs has `unsafe impl Send for
  HugepageBuf`.
- streaming-design.md section 4 puts the delegation before the check of the
  window; the code checks the window first.
- streaming-design.md 288-290 says both that a window below 2 MiB is refused
  and that it is rounded up; the code refuses it.
- A file that grows after its `metadata` is taken for its prefix by
  `open_hugepage_memfd`; `SliceIsBacked` says that what is there came from the
  file, not that it is all of it.
- `measure_mmap_hugepage` writes its escalation whenever mapping fails (137), also
  when pages are free but too few, while the text it writes says
  `HugePages_Free=0`; its sibling `measure_bufreader_hugepage` asks first (257).
- `measure_h3b` and `measure_h3c` unmap while `dec` still holds the slice;
  decoder.rs 449-451 wants the slice valid for the decoder's life. Nothing reads
  it in between.
- A fixture that `gen_fixture` did not finish passes `exists()`. H3 measures a
  part of it without an error, as the direct path ends a cut-off stream in
  `Ok(0)`; the BufReader experiment panics on it. Run `Experiments` has both.
- `HugePages_Free` counts reserved pages, so the command's preflight may pass
  and `mmap` still fail; and it passes for an empty file, which cannot be
  mapped. Both are premises of `PreflightSuffices`.

## 6. Plan

Done, in this order: `Zstd`, `ReadContract`, `StreamingRead` with its proofs;
`DirectRead`; `HugepageOpen`; `ScratchReader` with its proofs; `Bench`; callers
that read on after an error; the experiments; the proofs of `DirectRead`,
`HugepageOpen` and `Bench`, and of the bounds on residency; sums over processes
and the conservation of the pool; the proofs about the experiments; the safety
halves of the liveness properties.

Left:

1. A composition of `HugepageOpen` with the read paths, so that a decoder that
   was delegated or fell back is read to its end (the hand-over of `filled` to
   `file`), and several decoders over one mapping.
2. What bounds the steps of the command and of the experiments, as `LoopAdvances`
   does for the windowed path.

## 7. Running it

    tlc -workers 2 -config StreamingRead.cfg MCStreamingRead
    tlapm StreamingRead_proofs.tla

`PROJECT.json` names module and configuration of each run. None takes
longer than a few minutes.
