----------------------------- MODULE Experiments -----------------------------
(***************************************************************************)
(* The two experiments with huge pages, run side by side on one machine:   *)
(* they take pages from one pool and read one fixture, which               *)
(* examples/gen_fixture.rs writes, and may write again, at the same time.  *)
(***************************************************************************)
EXTENDS Naturals

CONSTANTS
    Huge, Absent, Full, TotalRuns,
    Cuts,      \* sizes of a fixture that is not finished
    Pools,     \* vm.nr_hugepages
    Rewrites   \* how often the fixture is written or removed at most

ASSUME ExperimentsAssumption ==
    /\ Huge \in Nat \ {0}
    /\ Full \in Nat \ {0}
    /\ TotalRuns \in Nat \ {0}
    /\ Cuts \subseteq 0..(Full - 1)
    /\ Pools \subseteq Nat
    /\ Rewrites \in Nat
    /\ Absent \notin [id : Nat, size : Nat]

VARIABLES
    fixture, free,
    pool,      \* vm.nr_hugepages
    changes,   \* how often the fixture was written or removed
    writing,   \* gen_fixture is between its create and its last write
    m_pc, m_source, len, pages, memfd, outcome, m_exit,
    s_pc, private, hugepages_ok, page, s_source, variant, run, s_exit

M == INSTANCE MmapExperiment WITH pc <- m_pc, source <- m_source, exit <- m_exit
S == INSTANCE ScratchExperiment WITH pc <- s_pc, source <- s_source, exit <- s_exit

m    == <<m_pc, m_source, len, pages, memfd, outcome, m_exit>>
s    == <<s_pc, private, hugepages_ok, page, s_source, variant, run, s_exit>>
disk == <<fixture, changes, writing>>
vars == <<disk, free, pool, m, s>>

Init ==
    /\ fixture \in {Absent} \cup [id : {0}, size : Cuts \cup {Full}]
    /\ pool \in Pools
    /\ free = pool
    /\ changes = 0
    /\ writing = FALSE
    /\ M!Init
    /\ S!Init

MStep == M!Next /\ UNCHANGED <<changes, writing, pool, s>>
SStep == S!Next /\ UNCHANGED <<changes, writing, pool, m>>

\* gen_fixture: File::create empties what was there.
Create ==
    /\ ~writing
    /\ changes < Rewrites
    /\ changes' = changes + 1
    /\ fixture' = [id |-> changes + 1, size |-> 0]
    /\ writing' = TRUE
    /\ UNCHANGED <<free, pool, m, s>>

\* One more write of write_all; the last makes it whole.
Write(n) ==
    /\ writing
    /\ fixture # Absent
    /\ n > fixture.size
    /\ fixture' = [fixture EXCEPT !.size = n]
    /\ writing' = (n < Full)
    /\ UNCHANGED <<changes, free, pool, m, s>>

\* gen_fixture is stopped before it is done, and leaves what it wrote.
Crash ==
    /\ writing
    /\ writing' = FALSE
    /\ UNCHANGED <<fixture, changes, free, pool, m, s>>

\* Somebody removes the fixture.
Remove ==
    /\ fixture # Absent
    /\ changes < Rewrites
    /\ changes' = changes + 1
    /\ fixture' = Absent
    /\ writing' = FALSE
    /\ UNCHANGED <<free, pool, m, s>>

Generator == Create \/ Crash \/ \E n \in Cuts \cup {Full} : Write(n)

Next == MStep \/ SStep \/ Generator \/ Remove

Spec == Init /\ [][Next]_vars

\* Each experiment is one thread that waits for nobody.
FairSpec == Spec /\ WF_vars(MStep) /\ WF_vars(SStep)

-----------------------------------------------------------------------------
\* The fixture that was there at first is whole, and nobody touches it.
Settled == changes = 0 /\ fixture # Absent /\ fixture.size = Full

(***************************************************************************)
(* A pool of the pages of the fixture and one more is enough for both      *)
(* experiments at any pace ("160 x 2 MiB = 320 MiB covers the ~130 MiB     *)
(* compressed fixture"), when the fixture is whole and nobody touches it:  *)
(* no copy of the one is skipped for want of pages, the other finds its    *)
(* page and ends well, and the first ends with a measurement of each       *)
(* variant, except that h3a's mapping and hints may fail, which ends it,   *)
(* and memfd_create or ftruncate of h3c.                                   *)
(***************************************************************************)
MeasuredAll ==
    /\ m_exit = "ok"
    /\ outcome.h3a = "measured"
    /\ outcome.h3b = "measured"
    /\ outcome.h3c \in {"measured", "nomemfd"}

StoppedInH3a ==
    m_exit = "error" /\ \A v \in {"h3a", "h3b", "h3c"} : outcome[v] = "none"

EnoughForBoth ==
    []Settled /\ pool > M!PagesFor(Full) =>
        /\ [](\A v \in {"h3b", "h3c"} : outcome[v] # "nopages")
        /\ <>(s_exit = "ok" /\ hugepages_ok)
        /\ <>(MeasuredAll \/ StoppedInH3a)

(***************************************************************************)
(* One page is enough for the scratch experiment: when nobody else holds a *)
(* page, the check that passed holds good for every later `expect`, since  *)
(* the check and each run give theirs back before the next.                *)
(***************************************************************************)
CheckSuffices == [](pages = 0) => [](s_exit # "nopages")

(***************************************************************************)
(* What was enough for h3b is enough for h3c, when nobody else takes pages *)
(* and the fixture stays the same: the first copy is unmapped before the   *)
(* second is mapped.                                                       *)
(***************************************************************************)
SecondNotStarved ==
    [](page = 0 /\ changes = 0) =>
        [](outcome.h3b = "measured" => outcome.h3c # "nopages")

\* Whatever happens to the fixture and to the pool, both programs end, and
\* no huge page is missing afterwards.
Ends == <>(m_pc = "Exited" /\ s_pc = "Exited" /\ free = pool)

=============================================================================
