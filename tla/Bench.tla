------------------------------- MODULE Bench -------------------------------
(***************************************************************************)
(* The command mmapzstd-bench (src/bin/bench.rs): it looks at the file and *)
(* at the pool of huge pages, then opens, drains and drops one reader for  *)
(* each warmup and each measured run, and reports when all are done.  The  *)
(* constructors and Drop are those of HugepageOpen, which other processes  *)
(* run at the same time on the same file and pool.                         *)
(***************************************************************************)
EXTENDS Integers, FiniteSets, Functions, Sequences

CONSTANTS
    Process, Huge, Width, PoolSize, Sizes, Windows, Modes, Absent, Faults,
    Bench,      \* the process that runs the command
    RunCounts,  \* values of --runs
    Warmups,    \* values of --warmup
    Damaged     \* the file may hold a stream that does not decode

ASSUME BenchAssumption ==
    /\ Bench \in Process
    /\ RunCounts \subseteq Nat
    /\ Warmups \subseteq Nat
    /\ Damaged \in BOOLEAN
    /\ {"anon", "memfd"} \subseteq Modes

VARIABLES
    disk, free, leaked, lostFd, pc, mode, window, len, filled, raw, owned,
    fd, src, err,
    args,       \* --mode, --runs and --warmup
    main,       \* where main and measure_run are
    file_size,  \* file_size of main
    done,       \* runs finished, warmups included
    results,    \* the vector of results
    printed,    \* the rows on standard output
    exit,       \* how the process ended
    lost        \* huge pages it mapped and cannot unmap

D == INSTANCE HugepageOpen

\* What the constructors take of their constants.
ASSUME OpeningAssumption ==
    D!SizesAssumption /\ D!ProcessAssumption /\ D!EnvironmentAssumption

decoders == <<disk, free, leaked, lostFd, pc, mode, window, len, filled, raw,
              owned, fd, src, err>>
opening == <<args, file_size>>
loop    == <<done, results>>
ending  == <<printed, exit>>
bench   == <<opening, main, loop, ending, lost>>
vars    == <<decoders, bench>>

Others == Process \ {Bench}

UsesHugepages == args.mode \in {"hugepage-anon", "hugepage-memfd"}

-----------------------------------------------------------------------------
Init ==
    /\ D!Init
    /\ args \in [mode : {"hugepage-anon", "hugepage-memfd", "bufreader"},
                 runs : RunCounts, warmup : Warmups]
    /\ mode[Bench] = IF args.mode = "hugepage-anon" THEN "anon" ELSE "memfd"
    /\ main = "Stat"
    /\ file_size = 0
    /\ done = 0
    /\ results = <<>>
    /\ printed = <<>>
    /\ exit = "none"
    /\ lost = 0

End(how) == main' = "Exited" /\ exit' = how

\* The path cannot be opened: the file is not there, or it is and the
\* command may not, or cannot, open it.
NotOpened == disk = Absent \/ "open" \in Faults

\* std::fs::metadata(&args.path)?
Stat ==
    /\ main = "Stat"
    /\ \/ NotOpened /\ End("error") /\ UNCHANGED file_size
       \/ /\ disk # Absent
          /\ file_size' = disk
          /\ main' = IF UsesHugepages THEN "Preflight" ELSE "Loop"
          /\ UNCHANGED exit
    /\ UNCHANGED <<decoders, args, loop, printed, lost>>

\* Mutant: counts the whole huge pages of the file only.
needed_hugepages_Floor(x) == x \div Huge

\* compressed_len.div_ceil(HUGEPAGE)
needed_hugepages(x) == (x \div Huge) + (IF x % Huge = 0 THEN 0 ELSE 1)

\* Pages mapped and not yet written to: HugePages_Free counts them as free.
Untouched ==
    leaked + SumFunctionOnSet(
        [d \in Others |->
            IF pc[d] = "Fill" THEN raw[d]
            ELSE IF mode[d] = "streaming" /\ pc[d] # "Idle" THEN owned[d]
            ELSE 0], Others)

\* free < needed: exit(1) before anything is opened.
Preflight ==
    /\ main = "Preflight"
    /\ \E shown \in free..(free + Untouched) :
          IF shown < needed_hugepages(file_size)
          THEN End("refused")
          ELSE main' = "Loop" /\ UNCHANGED exit
    /\ UNCHANGED <<decoders, opening, loop, printed, lost>>

-----------------------------------------------------------------------------
AllDone == done = args.warmup + args.runs

\* measure_run: open_reader_hugepage_anon, open_reader_hugepage_memfd
OpenHugepage ==
    /\ main = "Loop"
    /\ ~AllDone
    /\ UsesHugepages
    /\ D!Call(Bench, 0)
    /\ main' = "Opening"
    /\ UNCHANGED <<opening, loop, ending, lost>>

\* The constructor runs on; its error leaves measure_run and main by `?`.
Constructor ==
    /\ main = "Opening"
    /\ D!Step(Bench)
    /\ lost' = lost + (leaked' - leaked)
    /\ CASE pc'[Bench] = "Idle"  -> End("error")
         [] pc'[Bench] = "Ready" -> main' = "Copy" /\ UNCHANGED exit
         [] OTHER                -> UNCHANGED <<main, exit>>
    /\ UNCHANGED <<opening, loop, printed>>

\* measure_run: open_reader_bufreader, where File::open or zstd may fail
OpenBufreader ==
    /\ main = "Loop"
    /\ ~AllDone
    /\ ~UsesHugepages
    /\ \/ (NotOpened \/ "zstd" \in Faults) /\ End("error")
       \/ disk # Absent /\ main' = "Copy" /\ UNCHANGED exit
    /\ UNCHANGED <<decoders, opening, loop, printed, lost>>

\* The reader goes out of scope at the end of measure_run.
DropReader == IF UsesHugepages THEN D!Drop(Bench) ELSE UNCHANGED decoders

\* The result of a warmup is dropped, that of a run is pushed.
Kept ==
    IF done < args.warmup THEN results
    ELSE Append(results, (done + 1) - args.warmup)

\* io::copy reaches the end of the stream.
Copy ==
    /\ main = "Copy"
    /\ DropReader
    /\ results' = Kept
    /\ done' = done + 1
    /\ main' = "Loop"
    /\ UNCHANGED <<opening, ending, lost>>

\* Mutant: a run that fails is left out, and the rest are measured.
CopyFailed_Skip ==
    /\ main = "Copy"
    /\ Damaged
    /\ DropReader
    /\ done' = done + 1
    /\ main' = "Loop"
    /\ UNCHANGED <<opening, results, ending, lost>>

\* Mutant: a run that fails is tried again.
CopyFailed_Retry ==
    /\ main = "Copy"
    /\ Damaged
    /\ DropReader
    /\ main' = "Loop"
    /\ UNCHANGED <<opening, loop, ending, lost>>

\* Mutant: exit(1) in place of the `?`, which runs no destructor.
CopyFailed_Kept ==
    /\ main = "Copy"
    /\ Damaged
    /\ End("error")
    /\ UNCHANGED <<decoders, opening, loop, printed, lost>>

\* io::copy(..)? fails: the reader is dropped on the way out.
CopyFailed ==
    /\ main = "Copy"
    /\ Damaged
    /\ DropReader
    /\ End("error")
    /\ UNCHANGED <<opening, loop, printed, lost>>

\* The table or the CSV, once every run is in.
Report ==
    /\ main = "Loop"
    /\ AllDone
    /\ printed' = results
    /\ End("ok")
    /\ UNCHANGED <<decoders, opening, loop, lost>>

\* The kernel takes back, from a process that ended, what no value owned.
Reap ==
    /\ main = "Exited"
    /\ lost > 0
    /\ free' = free + lost
    /\ leaked' = leaked - lost
    /\ lost' = 0
    /\ UNCHANGED <<disk, lostFd, pc, mode, window, len, filled, raw, owned, fd,
                   src, err, opening, main, loop, ending>>

-----------------------------------------------------------------------------
\* Other users of the pool and of the file.
Environment ==
    /\ \/ \E d \in Others : \E w \in Windows : D!Call(d, w)
       \/ \E d \in Others : D!Step(d) \/ D!Drop(d)
       \/ \E n \in Sizes : D!Resize(n)
       \/ D!Remove
    /\ UNCHANGED bench

BenchStep ==
    \/ Stat \/ Preflight
    \/ OpenHugepage \/ Constructor \/ OpenBufreader
    \/ Copy \/ CopyFailed
    \/ Report \/ Reap

Next == BenchStep \/ Environment

Spec == Init /\ [][Next]_vars

\* The command is one thread that never waits for anybody.
FairSpec == Spec /\ WF_vars(BenchStep)

-----------------------------------------------------------------------------
(***************************************************************************)
(* The report is whole or missing: either every measured run succeeded and *)
(* is listed once, in order and without the warmups, or not a row is       *)
(* printed.                                                                *)
(***************************************************************************)
AllOrNothing ==
    /\ exit # "ok" => printed = <<>>
    /\ exit = "ok" =>
          /\ Len(printed) = args.runs
          /\ \A i \in 1..args.runs : printed[i] = i

\* Nobody touches the file or the pool while the command runs.
Undisturbed ==
    /\ \A d \in Others : pc[d] = "Idle"
    /\ leaked = 0
    /\ main # "Stat" => disk = file_size
    /\ disk # 0

(***************************************************************************)
(* A command that passed the preflight does not fail for want of huge      *)
(* pages, or of bytes of the file, in any of its runs, if nobody else      *)
(* touches the pool or the file: what it counts is what the constructors   *)
(* map, and each run's pages are back before the next run.                 *)
(***************************************************************************)
PreflightSuffices ==
    []Undisturbed => [](err[Bench] \notin {"OutOfMemory", "UnexpectedEof"})

(***************************************************************************)
(* No reader outlives its run: before each run, and when the command has   *)
(* ended, in whatever run and by whichever `?`, the pages the pool lacks   *)
(* are those of others and those a constructor lost.                       *)
(***************************************************************************)
LeavesNothing ==
    main \notin {"Opening", "Copy"} =>
        free + leaked + SumFunctionOnSet(D!Held, Others) = PoolSize

\* The command comes to an end, whatever the others do.
Ends == <>(main = "Exited" /\ lost = 0)

=============================================================================
