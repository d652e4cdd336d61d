-------------------------- MODULE Experiments_proofs --------------------------
(***************************************************************************)
(* Proofs about Experiments, for any pool, page, fixture, number of runs   *)
(* and number of rewrites of the fixture: no page is lost by either        *)
(* program, and what each of them counted on is there when it maps it.     *)
(***************************************************************************)
EXTENDS Experiments, PageLemmas

\* Where the mmap experiment has a copy mapped, and the other a scratch.
Copying == {"H3bOpen", "H3bRead", "H3bDecode", "H3cOpen", "H3cRead", "H3cDecode"}
Scratching == {"CheckDrop", "Open", "Copy"}

(***************************************************************************)
(* The inductive invariant: a page of the pool is free, in the copy or in  *)
(* the scratch, and neither is mapped outside its place in the program.    *)
(***************************************************************************)
Pooled ==
    /\ free \in Nat /\ pool \in Nat /\ pages \in Nat /\ page \in {0, 1}
    /\ free + pages + page = pool
    /\ m_pc \notin Copying => pages = 0
    /\ s_pc \notin Scratching => page = 0

Types ==
    /\ len \in Nat
    /\ changes \in Nat
    /\ fixture \in {Absent} \cup [id : Nat, size : 0..Full]
    /\ outcome \in [h3a : {"none", "measured"},
                    h3b : {"none", "measured", "nopages"},
                    h3c : {"none", "measured", "nopages", "nomemfd"}]

IInv == Pooled /\ Types

LEMMA PagesForNat ==
    ASSUME NEW n \in Nat
    PROVE  M!PagesFor(n) \in Nat
<1>1. Huge \in Nat \ {0} /\ n + Huge - 1 \in Nat
  BY ExperimentsAssumption
<1> QED BY <1>1, DivMod DEF M!PagesFor

LEMMA InitInvariant == Init => IInv
<1> SUFFICES ASSUME Init PROVE IInv
  OBVIOUS
<1>1. Types
  <2>1. Cuts \cup {Full} \subseteq 0..Full /\ 0 \in Nat
    BY ExperimentsAssumption
  <2>2. fixture \in {Absent} \cup [id : Nat, size : 0..Full]
    BY <2>1 DEF Init
  <2>3. /\ outcome = [h3a |-> "none", h3b |-> "none", h3c |-> "none"]
        /\ len = 0 /\ changes = 0
    BY DEF Init, M!Init
  <2> QED BY <2>2, <2>3 DEF Types
<1>2. Pooled
  BY ExperimentsAssumption DEF Init, M!Init, S!Init, Pooled, Copying, Scratching
<1> QED BY <1>1, <1>2 DEF IInv

\* What a step of the mmap experiment may do with pages.
LEMMA MEffect ==
    ASSUME M!Next
    PROVE  /\ fixture' = fixture
           /\ \/ free' = free + pages /\ pages' = 0 /\ m_pc' \notin Copying
              \/ /\ UNCHANGED <<free, pages>>
                 /\ m_pc \in Copying => m_pc' \in Copying
              \/ /\ m_pc \notin Copying /\ m_pc' \in Copying
                 /\ M!CanMap(M!PagesFor(len))
                 /\ free' = free - M!PagesFor(len) /\ pages' = M!PagesFor(len)
<1> USE DEF M!Exit, M!Goto, M!Open, M!Skip, M!Unmapped, M!file, Copying
<1>1. CASE M!Start \/ M!MeasureH3a \/ M!Done
  BY <1>1
  DEF M!Start, M!MeasureH3a, M!H3aOpen, M!H3aDecode, M!H3aAgain, M!Done
<1>2. CASE M!MeasureH3b
  BY <1>2 DEF M!MeasureH3b, M!Stat, M!Map, M!FillOpen, M!FillRead, M!Decode
<1>3. CASE M!MeasureH3c
  BY <1>3
  DEF M!MeasureH3c, M!H3cCreate, M!Stat, M!H3cExtend, M!Map, M!FillOpen,
      M!FillRead, M!Decode
<1> QED BY <1>1, <1>2, <1>3 DEF M!Next

\* What it may do with the length of the fixture and with the outcomes.
LEMMA MTypes ==
    ASSUME M!Next, Types
    PROVE  /\ len' = len \/ (fixture # Absent /\ len' = fixture.size)
           /\ outcome' \in [h3a : {"none", "measured"},
                            h3b : {"none", "measured", "nopages"},
                            h3c : {"none", "measured", "nopages", "nomemfd"}]
<1> USE DEF M!Exit, M!Goto, M!Open, M!Skip, M!file, Types
<1>1. CASE M!Start \/ M!MeasureH3a \/ M!Done
  BY <1>1
  DEF M!Start, M!MeasureH3a, M!H3aOpen, M!H3aDecode, M!H3aAgain, M!Done
<1>2. CASE M!MeasureH3b
  BY <1>2 DEF M!MeasureH3b, M!Stat, M!Map, M!FillOpen, M!FillRead, M!Decode
<1>3. CASE M!MeasureH3c
  BY <1>3
  DEF M!MeasureH3c, M!H3cCreate, M!Stat, M!H3cExtend, M!Map, M!FillOpen,
      M!FillRead, M!Decode
<1> QED BY <1>1, <1>2, <1>3 DEF M!Next

\* What a step of the scratch experiment may do with its page.
LEMMA SEffect ==
    ASSUME S!Next
    PROVE  /\ fixture' = fixture
           /\ \/ free' = free + page /\ page' = 0 /\ s_pc' \notin Scratching
              \/ /\ UNCHANGED <<free, page>>
                 /\ s_pc \in Scratching => s_pc' \in Scratching
              \/ /\ s_pc \notin Scratching /\ s_pc' \in Scratching
                 /\ free > 0 /\ free' = free - 1 /\ page' = 1
  BY DEF S!Next, S!Start, S!Check, S!CheckDrop, S!Allocate, S!NoAllocation,
         S!Open, S!Copy, S!CopyFailed, S!Done, S!Exit, S!Goto, S!TryHugepage,
         S!Dropped, S!choice, S!loop, Scratching

\* Every step of either program, or of others, keeps the pages together.
LEMMA StepInvariant == IInv /\ [Next]_vars => IInv'
<1> SUFFICES ASSUME IInv, [Next]_vars PROVE IInv'
  OBVIOUS
<1> USE DEF disk
<1>0. /\ free \in Nat /\ pool \in Nat /\ pages \in Nat /\ page \in {0, 1}
      /\ free + pages + page = pool /\ len \in Nat /\ changes \in Nat
      /\ m_pc \notin Copying => pages = 0
      /\ s_pc \notin Scratching => page = 0
      /\ fixture \in {Absent} \cup [id : Nat, size : 0..Full]
      /\ Full \in Nat /\ Absent \notin [id : Nat, size : Nat]
  BY ExperimentsAssumption DEF IInv, Pooled, Types
<1>1. CASE MStep
  <2>1. M!Next /\ UNCHANGED <<changes, pool, page, s_pc>>
    BY <1>1 DEF MStep, s
  <2>2. M!PagesFor(len) \in Nat
    BY <1>0, PagesForNat
  <2>3. Pooled'
    <3>1. CASE free' = free + pages /\ pages' = 0 /\ m_pc' \notin Copying
      BY <1>0, <2>1, <3>1 DEF Pooled
    <3>2. CASE /\ UNCHANGED <<free, pages>>
               /\ m_pc \in Copying => m_pc' \in Copying
      BY <1>0, <2>1, <3>2 DEF Pooled
    <3>3. CASE /\ m_pc \notin Copying /\ m_pc' \in Copying
               /\ M!CanMap(M!PagesFor(len))
               /\ free' = free - M!PagesFor(len) /\ pages' = M!PagesFor(len)
      BY <1>0, <2>1, <2>2, <3>3 DEF Pooled, M!CanMap
    <3> QED BY <2>1, <3>1, <3>2, <3>3, MEffect
  <2>4. Types'
    <3>1. fixture' = fixture
      BY <2>1, MEffect
    <3>2. /\ len' = len \/ (fixture # Absent /\ len' = fixture.size)
          /\ outcome' \in [h3a : {"none", "measured"},
                           h3b : {"none", "measured", "nopages"},
                           h3c : {"none", "measured", "nopages", "nomemfd"}]
      BY <2>1, MTypes DEF IInv
    <3>3. len' \in Nat
      BY <1>0, <3>2
    <3> QED BY <1>0, <2>1, <3>1, <3>2, <3>3 DEF Types
  <2> QED BY <2>3, <2>4 DEF IInv
<1>2. CASE SStep
  <2>1. S!Next /\ UNCHANGED <<changes, pool, pages, m_pc, len, outcome>>
    BY <1>2 DEF SStep, m
  <2>2. Pooled'
    <3>1. CASE free' = free + page /\ page' = 0 /\ s_pc' \notin Scratching
      BY <1>0, <2>1, <3>1 DEF Pooled
    <3>2. CASE /\ UNCHANGED <<free, page>>
               /\ s_pc \in Scratching => s_pc' \in Scratching
      BY <1>0, <2>1, <3>2 DEF Pooled
    <3>3. CASE /\ s_pc \notin Scratching /\ s_pc' \in Scratching
               /\ free > 0 /\ free' = free - 1 /\ page' = 1
      BY <1>0, <2>1, <3>3 DEF Pooled
    <3> QED BY <2>1, <3>1, <3>2, <3>3, SEffect
  <2>3. Types'
    BY <2>1, SEffect DEF IInv, Types
  <2> QED BY <2>2, <2>3 DEF IInv
<1>3. CASE Generator \/ Remove \/ UNCHANGED vars
  <2>1. UNCHANGED <<free, pool, m, s>>
    BY <1>3 DEF Generator, Create, Write, Crash, Remove, vars
  <2>2. changes' \in Nat /\ fixture' \in {Absent} \cup [id : Nat, size : 0..Full]
    <3>1. Cuts \cup {Full} \subseteq 0..Full
      BY ExperimentsAssumption
    <3>2. CASE \E n \in Cuts \cup {Full} : Write(n)
      BY <1>0, <3>1, <3>2 DEF Write
    <3>3. CASE Create \/ Crash \/ Remove \/ UNCHANGED vars
      BY <1>0, <3>3 DEF Create, Crash, Remove, vars
    <3> QED BY <1>3, <3>2, <3>3 DEF Generator
  <2> QED BY <2>1, <2>2 DEF IInv, Pooled, Types, m, s
<1> QED BY <1>1, <1>2, <1>3 DEF Next

\* No page is lost by either program, however it ends: when both are gone the
\* pool is whole.
PagesReturned == m_pc = "Exited" /\ s_pc = "Exited" => free = pool

THEOREM AllReturned == Spec => []PagesReturned
<1>1. IInv => PagesReturned
  BY DEF IInv, Pooled, PagesReturned, Copying, Scratching
<1> QED BY <1>1, InitInvariant, StepInvariant, PTL DEF Spec

-----------------------------------------------------------------------------
\* The check found a page, and no run of the scratch experiment missed one.
Checked == (hugepages_ok => pool > 0) /\ s_exit # "nopages"

\* While nobody else holds a page, what the check said stays true.
LEMMA CheckedKept ==
    ASSUME IInv, pages = 0, Checked, [Next]_vars
    PROVE  Checked'
<1>0. /\ free \in Nat /\ pool \in Nat /\ page \in {0, 1} /\ free + page = pool
      /\ s_pc \notin Scratching => page = 0
  BY DEF IInv, Pooled
<1>1. CASE MStep \/ Generator \/ Remove \/ UNCHANGED vars
  <2>1. UNCHANGED <<pool, hugepages_ok, s_exit>>
    BY <1>1 DEF MStep, Generator, Create, Write, Crash, Remove, vars, s
  <2> QED BY <2>1 DEF Checked
<1>2. CASE SStep
  <2>1. S!Next /\ pool' = pool
    BY <1>2 DEF SStep
  <2>2. CASE S!Check
    BY <1>0, <2>1, <2>2
    DEF Checked, S!Check, S!TryHugepage, S!Goto
  <2>3. CASE S!Allocate
    <3>1. hugepages_ok /\ page = 0
      BY <1>0, <2>3 DEF S!Allocate, S!Last, Scratching
    <3>2. free > 0
      BY <1>0, <3>1 DEF Checked
    <3> QED BY <2>1, <2>3, <3>2
        DEF Checked, S!Allocate, S!Goto, S!choice
  <2>4. CASE ~S!Check /\ ~S!Allocate
    BY <2>1, <2>4
    DEF Checked, S!Next, S!Start, S!CheckDrop, S!NoAllocation, S!Open, S!Copy,
        S!CopyFailed, S!Done, S!Exit, S!Goto, S!choice
  <2> QED BY <2>2, <2>3, <2>4
<1> QED BY <1>1, <1>2 DEF Next

\* One page is enough for the scratch experiment, when nobody else holds one:
\* no `expect` that follows a successful check fails.
THEOREM CheckEnough == Spec => CheckSuffices
<1>1. Init => Checked
  BY DEF Init, S!Init, Checked
<1>2. IInv /\ pages = 0 /\ Checked /\ [Next]_vars => Checked'
  BY CheckedKept
<1>3. Checked => s_exit # "nopages"
  BY DEF Checked
<1> QED
  BY <1>1, <1>2, <1>3, InitInvariant, StepInvariant, PTL
  DEF Spec, CheckSuffices

-----------------------------------------------------------------------------
(***************************************************************************)
(* While nobody touches the fixture and the scratch experiment holds no    *)
(* page, every length the mmap experiment works with is that of the        *)
(* fixture, so the pages that were enough once are asked for again.        *)
(***************************************************************************)
Same ==
    /\ ~writing
    /\ m_pc \in {"H3bMap", "H3cExtend", "H3cMap"} \cup Copying =>
           fixture # Absent /\ len = fixture.size
    /\ m_pc \in Copying => M!PagesFor(len) \in 1..pool
    /\ m_pc \in {"Start", "H3aOpen", "H3aDecode", "H3aAgain", "H3bStat", "H3bMap",
                 "H3bOpen", "H3bRead", "H3bDecode"} => outcome.h3c = "none"
    /\ outcome.h3b = "measured" =>
           /\ fixture # Absent /\ M!PagesFor(fixture.size) \in 1..pool
           /\ outcome.h3c # "nopages"

LEMMA InitSame == Init => Same
  BY DEF Init, M!Init, Same, Copying

\* The mmap experiment: a second copy as long as the first finds its pages free.
LEMMA SameKeptByM ==
    ASSUME IInv, page = 0, Same, M!Next, UNCHANGED <<pool, writing>>
    PROVE  Same'
<1>0. /\ free \in Nat /\ pool \in Nat /\ M!PagesFor(len) \in Nat
      /\ m_pc \notin Copying => free = pool
      /\ outcome \in [h3a : {"none", "measured"},
                      h3b : {"none", "measured", "nopages"},
                      h3c : {"none", "measured", "nopages", "nomemfd"}]
  BY PagesForNat DEF IInv, Pooled, Types
<1>1. fixture' = fixture
  BY MEffect
<1>2. /\ M!PagesFor(len)' = M!PagesFor(len')
      /\ M!PagesFor(fixture.size)' = M!PagesFor(fixture'.size)
  BY DEF M!PagesFor
<1> USE DEF M!Exit, M!Goto, M!Open, M!Skip, M!Unmapped, M!file, Copying
<1>3. CASE M!Start \/ M!MeasureH3a \/ M!Done
  BY <1>0, <1>1, <1>2, <1>3
  DEF Same, M!Start, M!MeasureH3a, M!H3aOpen, M!H3aDecode, M!H3aAgain, M!Done
<1>4. CASE M!MeasureH3b
  <2>1. CASE M!Stat("H3bStat", "H3bMap")
    BY <1>0, <1>1, <1>2, <2>1 DEF Same, M!Stat
  <2>2. CASE M!Map("h3b", "H3bMap", "H3bOpen", "H3cCreate")
    BY <1>0, <1>1, <1>2, <2>2 DEF Same, M!Map, M!CanMap
  <2>3. CASE M!FillOpen("H3bOpen", "H3bRead") \/ M!FillRead("H3bRead", "H3bDecode")
    BY <1>0, <1>1, <1>2, <2>3 DEF Same, M!FillOpen, M!FillRead
  <2>4. CASE M!Decode("h3b", "H3bDecode", "H3cCreate")
    BY <1>0, <1>1, <1>2, <2>4 DEF Same, M!Decode
  <2> QED BY <1>4, <2>1, <2>2, <2>3, <2>4 DEF M!MeasureH3b
<1>5. CASE M!MeasureH3c
  <2>1. CASE M!H3cCreate \/ M!Stat("H3cStat", "H3cExtend") \/ M!H3cExtend
    BY <1>0, <1>1, <1>2, <2>1 DEF Same, M!H3cCreate, M!Stat, M!H3cExtend
  <2>2. CASE M!Map("h3c", "H3cMap", "H3cOpen", "Done")
    BY <1>0, <1>1, <1>2, <2>2 DEF Same, M!Map, M!CanMap
  <2>3. CASE M!FillOpen("H3cOpen", "H3cRead") \/ M!FillRead("H3cRead", "H3cDecode")
    BY <1>0, <1>1, <1>2, <2>3 DEF Same, M!FillOpen, M!FillRead
  <2>4. CASE M!Decode("h3c", "H3cDecode", "Done")
    BY <1>0, <1>1, <1>2, <2>4 DEF Same, M!Decode
  <2> QED BY <1>5, <2>1, <2>2, <2>3, <2>4 DEF M!MeasureH3c
<1> QED BY <1>3, <1>4, <1>5 DEF M!Next

LEMMA SameKept ==
    ASSUME IInv, page = 0, changes = 0, changes' = 0, Same, [Next]_vars
    PROVE  Same'
<1>1. CASE MStep
  BY <1>1, SameKeptByM DEF MStep
<1>2. CASE SStep \/ Generator \/ Remove \/ UNCHANGED vars
  <2>1. UNCHANGED <<fixture, writing, pool, m_pc, len, outcome>>
    BY <1>2, SEffect DEF SStep, Generator, Create, Write, Crash, Remove, Same, vars, disk, m
  <2>2. /\ M!PagesFor(len)' = M!PagesFor(len)
        /\ M!PagesFor(fixture.size)' = M!PagesFor(fixture.size)
    BY <2>1 DEF M!PagesFor
  <2> QED BY <2>1, <2>2 DEF Same, Copying
<1> QED BY <1>1, <1>2 DEF Next

\* What was enough for h3b is enough for h3c: the first copy is unmapped before
\* the second is mapped.
THEOREM SecondEnough == Spec => SecondNotStarved
<1> DEFINE Alone == page = 0 /\ changes = 0
<1>1. IInv /\ Alone /\ Alone' /\ Same /\ [Next]_vars => Same'
  BY SameKept
<1>2. Same => (outcome.h3b = "measured" => outcome.h3c # "nopages")
  BY DEF Same
<1>3. SecondNotStarved <=>
          ([]Alone => [](outcome.h3b = "measured" => outcome.h3c # "nopages"))
  BY DEF SecondNotStarved
<1> HIDE DEF Alone
<1> QED
  BY <1>1, <1>2, <1>3, InitSame, InitInvariant, StepInvariant, PTL
  DEF Spec

-----------------------------------------------------------------------------
(***************************************************************************)
(* While the fixture is whole and the pool has a page more than it needs,  *)
(* neither experiment can take what the other waits for.                   *)
(***************************************************************************)
Roomy ==
    /\ ~writing
    /\ m_pc \in {"H3bMap", "H3cExtend", "H3cMap"} => len = Full
    /\ pages <= M!PagesFor(Full)
    /\ s_pc \notin {"Start", "Check"} => hugepages_ok
    /\ s_exit # "nopages"
    /\ outcome.h3b # "nopages" /\ outcome.h3c # "nopages"

LEMMA RoomyKeptByM ==
    ASSUME IInv, Settled, pool > M!PagesFor(Full), Roomy, M!Next,
           UNCHANGED <<writing, s_pc, s_exit, hugepages_ok>>
    PROVE  Roomy'
<1>0. /\ free \in Nat /\ pool \in Nat /\ pages \in Nat /\ page \in {0, 1}
      /\ free + pages + page = pool
      /\ m_pc \notin Copying => pages = 0
      /\ outcome \in [h3a : {"none", "measured"},
                      h3b : {"none", "measured", "nopages"},
                      h3c : {"none", "measured", "nopages", "nomemfd"}]
      /\ fixture # Absent /\ fixture.size = Full
  BY DEF IInv, Pooled, Types, Settled
<1>1. M!PagesFor(Full) \in Nat /\ M!PagesFor(Full)' = M!PagesFor(Full)
  BY ExperimentsAssumption, PagesForNat DEF M!PagesFor
<1>2. M!PagesFor(Full) > 0
  <2>1. Huge \in Nat \ {0} /\ Full + Huge - 1 \in Nat /\ 0 + Huge <= Full + Huge - 1
    BY ExperimentsAssumption
  <2>2. 0 \div Huge = 0
    BY <2>1, DivZero
  <2>3. 0 \div Huge < (Full + Huge - 1) \div Huge
    BY <2>1, DivStrict
  <2> QED BY <2>2, <2>3 DEF M!PagesFor
<1> USE DEF M!Exit, M!Goto, M!Open, M!Skip, M!Unmapped, M!file, Copying
<1>3. CASE M!Start \/ M!MeasureH3a \/ M!Done
  BY <1>0, <1>1, <1>3
  DEF Roomy, M!Start, M!MeasureH3a, M!H3aOpen, M!H3aDecode, M!H3aAgain, M!Done
<1>4. CASE M!MeasureH3b
  <2>1. CASE M!Map("h3b", "H3bMap", "H3bOpen", "H3cCreate")
    BY <1>0, <1>1, <1>2, <2>1 DEF Roomy, M!Map, M!CanMap
  <2>2. CASE ~M!Map("h3b", "H3bMap", "H3bOpen", "H3cCreate")
    BY <1>0, <1>1, <1>4, <2>2
    DEF Roomy, M!MeasureH3b, M!Stat, M!FillOpen, M!FillRead, M!Decode
  <2> QED BY <2>1, <2>2
<1>5. CASE M!MeasureH3c
  <2>1. CASE M!Map("h3c", "H3cMap", "H3cOpen", "Done")
    BY <1>0, <1>1, <1>2, <2>1 DEF Roomy, M!Map, M!CanMap
  <2>2. CASE ~M!Map("h3c", "H3cMap", "H3cOpen", "Done")
    BY <1>0, <1>1, <1>5, <2>2
    DEF Roomy, M!MeasureH3c, M!H3cCreate, M!Stat, M!H3cExtend, M!FillOpen,
        M!FillRead, M!Decode
  <2> QED BY <2>1, <2>2
<1> QED BY <1>3, <1>4, <1>5 DEF M!Next

LEMMA RoomyKept ==
    ASSUME IInv, Settled, pool > M!PagesFor(Full), Roomy, changes' = 0, [Next]_vars
    PROVE  Roomy'
<1>0. M!PagesFor(Full) \in Nat /\ M!PagesFor(Full)' = M!PagesFor(Full)
  BY ExperimentsAssumption, PagesForNat DEF M!PagesFor
<1>1. CASE MStep
  BY <1>1, RoomyKeptByM DEF MStep, s
<1>2. CASE SStep
  <2>1. s_pc \notin Scratching => free > 0
    BY <1>0 DEF IInv, Pooled, Roomy
  <2>2. S!Next /\ UNCHANGED <<writing, pages, m_pc, len, outcome>> /\ fixture # Absent
    BY <1>2 DEF SStep, Roomy, Settled, m
  <2>3. /\ s_pc' \notin {"Start", "Check"} => hugepages_ok'
        /\ s_exit' # "nopages"
    BY <2>1, <2>2
    DEF Roomy, S!Next, S!Start, S!Check, S!CheckDrop, S!Allocate, S!NoAllocation,
        S!Open, S!Copy, S!CopyFailed, S!Done, S!Exit, S!Goto, S!TryHugepage,
        S!choice, S!loop, Scratching
  <2> QED BY <1>0, <2>2, <2>3 DEF Roomy
<1>3. CASE Generator \/ Remove \/ UNCHANGED vars
  <2>1. changes = 0 /\ ~writing
    BY DEF Settled, Roomy
  <2>2. UNCHANGED <<writing, m, s>>
    BY <1>3, <2>1 DEF Generator, Create, Write, Crash, Remove, vars, disk
  <2> QED BY <1>0, <2>1, <2>2 DEF Roomy, m, s
<1> QED BY <1>1, <1>2, <1>3 DEF Next

(***************************************************************************)
(* The safety half of EnoughForBoth: on a whole fixture that nobody        *)
(* touches, a pool with a page more than it needs starves nobody; both     *)
(* copies get their pages, the check finds one, and so does every run.     *)
(***************************************************************************)
NoneSkipped ==
    []Settled /\ pool > M!PagesFor(Full) =>
        [](/\ \A v \in {"h3b", "h3c"} : outcome[v] # "nopages"
           /\ s_pc \notin {"Start", "Check"} => hugepages_ok
           /\ s_exit # "nopages")

\* Enough pages for one copy and one scratch: neither experiment skips a variant.
THEOREM NeitherStarved == Spec => NoneSkipped
<1> DEFINE Enough == pool > M!PagesFor(Full)
           Served == /\ \A v \in {"h3b", "h3c"} : outcome[v] # "nopages"
                     /\ s_pc \notin {"Start", "Check"} => hugepages_ok
                     /\ s_exit # "nopages"
<1>1. Init => Roomy
  <2>1. M!PagesFor(Full) \in Nat
    BY ExperimentsAssumption, PagesForNat
  <2> QED BY <2>1 DEF Init, M!Init, S!Init, Roomy
<1>2. Enough /\ [Next]_vars => Enough'
  <2>1. M!PagesFor(Full)' = M!PagesFor(Full)
    BY DEF M!PagesFor
  <2> QED BY <2>1 DEF Next, MStep, SStep, Generator, Create, Write, Crash, Remove, vars
<1>3. IInv /\ Settled /\ Settled' /\ Enough /\ Roomy /\ [Next]_vars => Roomy'
  BY RoomyKept DEF Settled
<1>4. Roomy => Served
  BY DEF Roomy
<1>5. NoneSkipped <=> ([]Settled /\ Enough => []Served)
  BY DEF NoneSkipped
<1> HIDE DEF Enough, Served
<1> QED
  BY <1>1, <1>2, <1>3, <1>4, <1>5, InitInvariant, StepInvariant, PTL DEF Spec

=============================================================================
