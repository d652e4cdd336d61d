-------------------------- MODULE ScratchExperiment --------------------------
(***************************************************************************)
(* The program examples/measure_bufreader_hugepage.rs around its scratch   *)
(* reader (module ScratchReader): it finds out once whether a huge page    *)
(* can be mapped, warms the page cache, and then times each variant        *)
(* TotalRuns times, of which H4a, H4b and H4c map a huge page per run and  *)
(* expect to get it.                                                       *)
(***************************************************************************)
EXTENDS Naturals

CONSTANTS
    Absent,    \* there is no fixture
    Full,      \* the size of a whole fixture
    TotalRuns  \* TOTAL_RUNS: 5 in the code

VARIABLES
    fixture,       \* the persistent fixture, as in MmapExperiment
    free,          \* huge pages that nobody has mapped
    pc,            \* where main is
    private,       \* the temporary fixture is used
    hugepages_ok,  \* what the check said
    page,          \* huge pages in a HugepageAlloc: 0 or 1
    source,        \* the fixture when the reader's file was opened
    variant,       \* what is measured: 0 the warm pass, 1 the control, 2..4 H4
    run,           \* runs of it that are finished
    exit           \* how the process ended

choice == <<private, hugepages_ok>>
loop   == <<variant, run>>
vars   == <<fixture, free, pc, choice, page, source, loop, exit>>

Init ==
    /\ pc = "Start"
    /\ private = FALSE
    /\ hugepages_ok = FALSE
    /\ page = 0
    /\ source = Absent
    /\ variant = 0
    /\ run = 0
    /\ exit = "none"

\* Mutant: no Drop for HugepageAlloc.
Dropped_Not == UNCHANGED <<free, page>>

\* The reader, or the check's allocation, goes out of scope: munmap.
Dropped == free' = free + page /\ page' = 0

\* A panic unwinds, so that a page is dropped as well.
Exit(how) ==
    /\ pc' = "Exited"
    /\ exit' = how
    /\ free' = free + page
    /\ page' = 0
    /\ UNCHANGED <<fixture, choice, source, loop>>

Goto(label) == pc' = label /\ UNCHANGED exit

\* get_or_create_fixture: the temporary one may fail to be written.
Start ==
    /\ pc = "Start"
    /\ \/ /\ private' = (fixture = Absent)
          /\ Goto("Check")
          /\ UNCHANGED <<fixture, free, hugepages_ok, page, source, loop>>
       \/ fixture = Absent /\ Exit("panic")

\* try_hugepage(SCRATCH_LEN): one page, or None.
TryHugepage == free > 0 /\ free' = free - 1 /\ page' = 1

\* check_hugepages_available
Check ==
    /\ pc = "Check"
    /\ \/ TryHugepage /\ hugepages_ok' = TRUE
       \/ free = 0 /\ hugepages_ok' = FALSE /\ UNCHANGED <<free, page>>
    /\ Goto("CheckDrop")
    /\ UNCHANGED <<fixture, private, source, loop>>

\* "HugepageAlloc dropped here": the page is free again.
CheckDrop ==
    /\ pc = "CheckDrop"
    /\ Dropped
    /\ Goto("Run")
    /\ UNCHANGED <<fixture, choice, source, loop>>

\* The variants to come; the H4 variants are SKIPPED when the check failed.
Last == IF hugepages_ok THEN 4 ELSE 1
Runs == IF variant = 0 THEN 1 ELSE TotalRuns

\* The factory of H4*: try_hugepage(SCRATCH_LEN).expect("MAP_HUGETLB")
Allocate ==
    /\ pc = "Run"
    /\ variant \in 2..Last
    /\ \/ /\ TryHugepage
          /\ Goto("Open")
          /\ UNCHANGED <<fixture, choice, source, loop>>
       \/ free = 0 /\ Exit("nopages")

NoAllocation ==
    /\ pc = "Run"
    /\ variant \in 0..1
    /\ Goto("Open")
    /\ UNCHANGED <<fixture, free, choice, page, source, loop>>

\* File::open(p).expect("open"), of the factory.
Open ==
    /\ pc = "Open"
    /\ \/ fixture = Absent /\ ~private /\ Exit("panic")
       \/ /\ fixture # Absent \/ private
          /\ source' = fixture
          /\ Goto("Copy")
          /\ UNCHANGED <<fixture, free, choice, page, loop>>

\* A temporary fixture is whole; the other may have been written to since,
\* or never finished.
Whole     == IF private THEN TRUE ELSE source = fixture /\ source.size = Full
MayDecode == IF Whole THEN TRUE ELSE source # fixture \/ source.size = 0

\* measure_once: the copy is done and the reader dropped; the loop of bench.
Copy ==
    /\ pc = "Copy"
    /\ MayDecode
    /\ Dropped
    /\ IF run + 1 < Runs
       THEN run' = run + 1 /\ UNCHANGED variant
       ELSE run' = 0 /\ variant' = variant + 1
    /\ Goto("Run")
    /\ UNCHANGED <<fixture, choice, source>>

\* Mutant: a run that fails is made again.
CopyFailed_Again ==
    /\ pc = "Copy"
    /\ ~Whole
    /\ Dropped
    /\ Goto("Run")
    /\ UNCHANGED <<fixture, choice, source, loop>>

\* io::copy(..).expect: a fixture cut off inside its frame is an error here.
CopyFailed == pc = "Copy" /\ ~Whole /\ Exit("panic")

\* main returns, and removes the temporary fixture.
Done == pc = "Run" /\ variant > Last /\ Exit("ok")

Next ==
    \/ Start \/ Check \/ CheckDrop
    \/ Allocate \/ NoAllocation \/ Open \/ Copy \/ CopyFailed
    \/ Done

=============================================================================
