--------------------------- MODULE MmapExperiment ---------------------------
(***************************************************************************)
(* The program examples/measure_mmap_hugepage.rs: it decodes the fixture   *)
(* from a file mapping (h3a), from a copy in anonymous huge pages (h3b)    *)
(* and from a copy in a memfd of huge pages (h3c).  The two copies are     *)
(* mapped, filled, lent to Decoder::from_slice and unmapped by hand.       *)
(*                                                                         *)
(* The fixture is Absent, or has an id (a new one for each time it is      *)
(* written) and a size.  An `expect` that fails ends the process.          *)
(***************************************************************************)
EXTENDS Naturals

CONSTANTS
    Huge,    \* HUGEPAGE: 2 MiB in the code
    Absent   \* there is no fixture

VARIABLES
    fixture,  \* the file at the path
    free,     \* huge pages that nobody has mapped
    pc,       \* where main is
    source,   \* the fixture as it was when it was opened
    len,      \* compressed_len
    pages,    \* huge pages behind `ptr`
    memfd,    \* the descriptor of h3c is open
    outcome,  \* what was measured, and why not
    exit      \* how the process ended

file == <<source, len>>
vars == <<fixture, free, pc, file, pages, memfd, outcome, exit>>

Init ==
    /\ pc = "Start"
    /\ source = Absent
    /\ len = 0
    /\ pages = 0
    /\ memfd = FALSE
    /\ outcome = [h3a |-> "none", h3b |-> "none", h3c |-> "none"]
    /\ exit = "none"

\* The process is gone, and what it mapped and opened with it.
Exit(how) ==
    /\ pc' = "Exited"
    /\ exit' = how
    /\ free' = free + pages
    /\ pages' = 0
    /\ memfd' = FALSE
    /\ UNCHANGED <<fixture, file, outcome>>

Goto(label) == pc' = label /\ UNCHANGED exit

\* Opening the path and keeping what is there, or the outcome of a failure.
Open(next, failure) ==
    \/ fixture = Absent /\ Exit(failure)
    \/ /\ fixture # Absent
       /\ source' = fixture
       /\ Goto(next)
       /\ UNCHANGED <<fixture, free, len, pages, memfd, outcome>>

\* The file was written to since it was opened.
Changed == fixture # source

\* (compressed_len + HUGEPAGE - 1) & !(HUGEPAGE - 1), in pages
PagesFor(n) == (n + Huge - 1) \div Huge

\* The kernel reserves every page of a hugetlb mapping, or refuses it; and
\* it refuses a length of zero.
CanMap(n) == 0 < n /\ n <= free

-----------------------------------------------------------------------------
\* `exists()`, or exit(1).
Start ==
    /\ pc = "Start"
    /\ IF fixture = Absent
       THEN Exit("refused")
       ELSE /\ Goto("H3aOpen")
            /\ UNCHANGED <<fixture, free, file, pages, memfd, outcome>>

\* measure_h3a: File::open, map and the first two hints leave by `?`.
H3aOpen == pc = "H3aOpen" /\ (Open("H3aDecode", "error") \/ Exit("error"))

\* from_mmap, whose hints leave by `?`, and io::copy from the mapping: one
\* that shrinks may fail, or fault.
H3aDecode ==
    /\ pc = "H3aDecode"
    /\ \/ Goto("H3aAgain") /\ UNCHANGED <<fixture, free, file, pages, memfd, outcome>>
       \/ Exit("error")
       \/ Changed /\ Exit("killed")

\* The second open and map, for the counters after the decode: they leave by
\* `?` as the first ones do.
H3aAgain ==
    /\ pc = "H3aAgain"
    /\ \/ Exit("error")
       \/ /\ fixture # Absent
          /\ outcome' = [outcome EXCEPT !.h3a = "measured"]
          /\ Goto("H3bStat")
          /\ UNCHANGED <<fixture, free, file, pages, memfd>>

-----------------------------------------------------------------------------
\* path.metadata().expect("stat").len(), of h3b and, with its memfd, of h3c
Stat(here, next) ==
    /\ pc = here
    /\ \/ fixture = Absent /\ Exit("panic")
       \/ /\ fixture # Absent
          /\ len' = fixture.size
          /\ Goto(next)
          /\ UNCHANGED <<fixture, free, source, pages, memfd, outcome>>

\* SKIPPED, and the process goes on.
Skip(variant, why, next) ==
    /\ outcome' = [outcome EXCEPT ![variant] = why]
    /\ memfd' = FALSE
    /\ Goto(next)
    /\ UNCHANGED <<fixture, free, file, pages>>

\* mmap; the descriptor of h3c is closed whether or not it worked.
Map(variant, here, next, skipped) ==
    /\ pc = here
    /\ \/ ~CanMap(PagesFor(len)) /\ Skip(variant, "nopages", skipped)
       \/ /\ CanMap(PagesFor(len))
          /\ free' = free - PagesFor(len)
          /\ pages' = PagesFor(len)
          /\ memfd' = FALSE
          /\ Goto(next)
          /\ UNCHANGED <<fixture, file, outcome>>

\* File::open(path).expect("open")
FillOpen(here, next) == pc = here /\ Open(next, "panic")

\* read_exact(buf).expect("read"): the file that was opened holds `len` bytes
\* or not; one that was touched since may have grown or been cut by now.
FillRead(here, next) ==
    /\ pc = here
    /\ \/ /\ Changed \/ source.size >= len
          /\ Goto(next)
          /\ UNCHANGED <<fixture, free, file, pages, memfd, outcome>>
       \/ (Changed \/ source.size < len) /\ Exit("panic")

\* Mutant: the copy is not unmapped at the end of its measurement.
Unmapped_Never == UNCHANGED <<free, pages>>

\* munmap(ptr, aligned_len)
Unmapped == free' = free + pages /\ pages' = 0

\* from_slice and io::copy: what was read while it was written may not decode.
Decode(variant, here, next) ==
    /\ pc = here
    /\ \/ /\ outcome' = [outcome EXCEPT ![variant] = "measured"]
          /\ Unmapped
          /\ Goto(next)
          /\ UNCHANGED <<fixture, file, memfd>>
       \/ Changed /\ Exit("panic")

\* memfd_create, and ftruncate after the stat.
H3cCreate ==
    /\ pc = "H3cCreate"
    /\ \/ Skip("h3c", "nomemfd", "Done")
       \/ /\ memfd' = TRUE
          /\ Goto("H3cStat")
          /\ UNCHANGED <<fixture, free, file, pages, outcome>>

H3cExtend ==
    /\ pc = "H3cExtend"
    /\ \/ Skip("h3c", "nomemfd", "Done")
       \/ Goto("H3cMap") /\ UNCHANGED <<fixture, free, file, pages, memfd, outcome>>

\* main returns Ok(()).
Done == pc = "Done" /\ Exit("ok")

MeasureH3a == H3aOpen \/ H3aDecode \/ H3aAgain

MeasureH3b ==
    \/ Stat("H3bStat", "H3bMap")
    \/ Map("h3b", "H3bMap", "H3bOpen", "H3cCreate")
    \/ FillOpen("H3bOpen", "H3bRead") \/ FillRead("H3bRead", "H3bDecode")
    \/ Decode("h3b", "H3bDecode", "H3cCreate")

MeasureH3c ==
    \/ H3cCreate \/ Stat("H3cStat", "H3cExtend") \/ H3cExtend
    \/ Map("h3c", "H3cMap", "H3cOpen", "Done")
    \/ FillOpen("H3cOpen", "H3cRead") \/ FillRead("H3cRead", "H3cDecode")
    \/ Decode("h3c", "H3cDecode", "Done")

Next == Start \/ MeasureH3a \/ MeasureH3b \/ MeasureH3c \/ Done

=============================================================================
