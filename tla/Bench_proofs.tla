---------------------------- MODULE Bench_proofs ----------------------------
(***************************************************************************)
(* Proofs about Bench, for any numbers of runs and warmups and any other   *)
(* processes: the report is whole or missing, the command takes no huge    *)
(* page with it, and what the preflight counts is enough.                  *)
(***************************************************************************)
EXTENDS Bench, PageLemmas

\* The facts about the constructors, for the processes of this module.
H == INSTANCE HugepageOpen_proofs

\* How many results there are when `n` runs are finished.
Measured(n) == IF n < args.warmup THEN 0 ELSE n - args.warmup

(***************************************************************************)
(* The inductive invariant: the results are those of the measured runs in  *)
(* order, no run goes on after the last, and once the command has ended it *)
(* prints nothing more.                                                    *)
(***************************************************************************)
InOrder(rows, n) ==
    /\ rows \in Seq(Nat)
    /\ Len(rows) = n
    /\ \A i \in 1..n : rows[i] = i

IInv ==
    /\ args.runs \in Nat /\ args.warmup \in Nat
    /\ done \in 0..(args.warmup + args.runs)
    /\ main \in {"Opening", "Copy"} => ~AllDone
    /\ InOrder(results, Measured(done))
    /\ exit # "none" => main = "Exited"
    /\ exit # "ok" => printed = <<>>
    /\ exit = "ok" => InOrder(printed, args.runs)

LEMMA InitInvariant == Init => IInv
<1> SUFFICES ASSUME Init PROVE IInv
  OBVIOUS
<1>1. args.runs \in Nat /\ args.warmup \in Nat
  BY BenchAssumption DEF Init
<1>2. Measured(0) = 0
  BY <1>1 DEF Measured
<1>3. InOrder(<<>>, 0)
  BY DEF InOrder
<1> QED BY <1>1, <1>2, <1>3 DEF Init, IInv

\* A finished run adds its result, and a warmup adds none.
LEMMA KeptInOrder ==
    ASSUME IInv, ~AllDone
    PROVE  InOrder(Kept, Measured(done + 1))
<1>1. /\ args.warmup \in Nat /\ done \in Nat
      /\ InOrder(results, Measured(done))
  BY DEF IInv
<1>2. CASE done < args.warmup
  <2>1. Measured(done + 1) = Measured(done) /\ Kept = results
    BY <1>1, <1>2 DEF Measured, Kept
  <2> QED BY <1>1, <2>1
<1>3. CASE ~(done < args.warmup)
  <2> DEFINE n == done - args.warmup
  <2>1. /\ Measured(done) = n /\ Measured(done + 1) = n + 1 /\ n \in Nat
        /\ Kept = Append(results, n + 1)
    BY <1>1, <1>3 DEF Measured, Kept
  <2> HIDE DEF n
  <2>2. /\ results \in Seq(Nat) /\ Len(results) = n
        /\ \A i \in 1..n : results[i] = i
    BY <1>1, <2>1 DEF InOrder
  <2>3. Append(results, n + 1) \in Seq(Nat) /\ Len(Append(results, n + 1)) = n + 1
    BY <2>1, <2>2
  <2>4. ASSUME NEW i \in 1..(n + 1)
        PROVE  Append(results, n + 1)[i] = i
    BY <2>1, <2>2, <2>4
  <2> QED BY <2>1, <2>3, <2>4 DEF InOrder
<1> QED BY <1>2, <1>3

LEMMA StepInvariant == IInv /\ [Next]_vars => IInv'
<1> SUFFICES ASSUME IInv, [Next]_vars PROVE IInv'
  OBVIOUS
<1> USE DEF opening, loop, ending, End
<1>1. CASE Copy
  <2>1. /\ UNCHANGED <<args, printed, exit>> /\ main = "Copy" /\ main' = "Loop"
        /\ results' = Kept /\ done' = done + 1
    BY <1>1 DEF Copy
  <2>2. ~AllDone /\ done' \in 0..(args.warmup + args.runs)
    BY <2>1 DEF IInv, AllDone
  <2>3. InOrder(results', Measured(done)')
    BY <2>1, <2>2, KeptInOrder DEF Measured, InOrder
  <2>4. exit = "none"
    BY <2>1 DEF IInv
  <2> QED BY <2>1, <2>2, <2>3, <2>4 DEF IInv, InOrder
<1>2. CASE Report
  <2>1. /\ UNCHANGED <<args, done, results>> /\ main' = "Exited" /\ exit' = "ok"
        /\ printed' = results /\ done = args.warmup + args.runs
    BY <1>2 DEF Report, AllDone
  <2>2. Measured(done) = args.runs
    BY <2>1 DEF IInv, Measured
  <2> QED BY <2>1, <2>2 DEF IInv, InOrder, Measured
<1>3. CASE Environment \/ Reap \/ UNCHANGED vars
  <2>1. UNCHANGED <<args, done, results, main, exit, printed>>
    BY <1>3 DEF Environment, Reap, vars, bench
  <2> QED BY <2>1 DEF IInv, InOrder, Measured, AllDone
<1>4. CASE \/ Stat \/ Preflight \/ OpenHugepage \/ Constructor
           \/ OpenBufreader \/ CopyFailed
  <2>1. /\ UNCHANGED <<args, done, results, printed>>
        /\ main # "Exited"
        /\ exit' = exit \/ (exit' \in {"error", "refused"} /\ main' = "Exited")
        /\ main' \in {"Opening", "Copy"} => ~AllDone
    BY <1>4
    DEF Stat, Preflight, OpenHugepage, Constructor, OpenBufreader, CopyFailed, IInv
  <2> QED BY <2>1 DEF IInv, InOrder, Measured, AllDone
<1> QED BY <1>1, <1>2, <1>3, <1>4 DEF Next, BenchStep

\* Either every measured run is printed once, in order, or nothing is.
THEOREM ReportWhole == Spec => []AllOrNothing
<1>1. IInv => AllOrNothing
  BY DEF IInv, AllOrNothing, InOrder
<1> QED BY <1>1, InitInvariant, StepInvariant, PTL DEF Spec

-----------------------------------------------------------------------------
\* What is assumed of the constants is what the constructors need.
LEMMA Assumptions ==
    /\ H!SizesAssumption /\ H!ProcessAssumption /\ H!EnvironmentAssumption
    /\ IsFiniteSet(Process) /\ PoolSize \in Nat
<1>1. H!SizesAssumption /\ H!EnvironmentAssumption
  BY OpeningAssumption
  DEF D!SizesAssumption, H!SizesAssumption, D!EnvironmentAssumption,
      H!EnvironmentAssumption, D!Fault, H!Fault, D!Mode, H!Mode
<1>2. IsFiniteSet(Process)
  BY OpeningAssumption DEF D!ProcessAssumption, D!IsFiniteSet, IsFiniteSet
<1>3. H!ProcessAssumption
  BY <1>2 DEF H!ProcessAssumption, H!IsFiniteSet, IsFiniteSet
<1>4. PoolSize \in Nat
  BY OpeningAssumption DEF D!SizesAssumption
<1> QED BY <1>1, <1>2, <1>3, <1>4

\* The names of the model and those of its proofs stand for the same steps.
LEMMA SameInit == D!Init <=> H!Init
  BY DEF D!Init, H!Init

LEMMA SameFailures ==
    ASSUME NEW d, NEW kind
    PROVE  /\ D!Fail(d, kind) <=> H!Fail(d, kind)
           /\ D!FailClosed(d, kind) <=> H!FailClosed(d, kind)
           /\ D!FailUnmapped(d, kind) <=> H!FailUnmapped(d, kind)
           /\ D!NotOpened(d) <=> H!NotOpened(d)
  BY DEF D!Fail, H!Fail, D!FailClosed, H!FailClosed, D!FailUnmapped,
         H!FailUnmapped, D!NotOpened, H!NotOpened, D!FailHolding, H!FailHolding, D!Goto, H!Goto,
         D!request, H!request

LEMMA SamePages ==
    ASSUME NEW x
    PROVE  /\ D!RoundUp(x) = H!RoundUp(x)
           /\ D!PagesFor(x) = H!PagesFor(x)
           /\ D!CanMap(x) <=> H!CanMap(x)
  BY DEF D!RoundUp, H!RoundUp, D!PagesFor, H!PagesFor, D!Limit, H!Limit,
         D!CanMap, H!CanMap

LEMMA SameStep ==
    ASSUME NEW d
    PROVE  D!Step(d) <=> H!Step(d)
<1> USE DEF D!Goto, H!Goto, D!pool, H!pool, D!request, H!request, D!holding,
            H!holding
<1>1. D!Load(d) <=> H!Load(d)
  BY SameFailures DEF D!Load, H!Load
<1>2. D!MapAnon(d) <=> H!MapAnon(d)
  BY SameFailures, SamePages DEF D!MapAnon, H!MapAnon
<1>3. D!Stat(d) <=> H!Stat(d)
  BY SameFailures DEF D!Stat, H!Stat
<1>4. D!Create(d) <=> H!Create(d)
  BY SameFailures DEF D!Create, H!Create
<1>5. D!Extend(d) <=> H!Extend(d)
  BY SameFailures DEF D!Extend, H!Extend, D!ExtendFailed, H!ExtendFailed
<1>6. D!MapFd(d) <=> H!MapFd(d)
  BY SameFailures, SamePages DEF D!MapFd, H!MapFd
<1>7. D!Fill(d) <=> H!Fill(d)
  BY SameFailures
  DEF D!Fill, H!Fill, D!FillFailed, H!FillFailed, D!Short, H!Short
<1>8. D!Window(d) <=> H!Window(d)
  BY SameFailures DEF D!Window, H!Window
<1>9. D!StatWindow(d) <=> H!StatWindow(d)
  BY SameFailures, SamePages DEF D!StatWindow, H!StatWindow, D!Covers, H!Covers
<1>10. D!MapScratch(d) <=> H!MapScratch(d)
  BY SameFailures, SamePages DEF D!MapScratch, H!MapScratch
<1>11. D!MapSource(d) <=> H!MapSource(d)
  BY SameFailures DEF D!MapSource, H!MapSource
<1>12. D!Advise(d) <=> H!Advise(d)
  BY SameFailures DEF D!Advise, H!Advise
<1>13. D!NewZstd(d) <=> H!NewZstd(d)
  BY SameFailures DEF D!NewZstd, H!NewZstd
<1> QED
  BY <1>1, <1>2, <1>3, <1>4, <1>5, <1>6, <1>7, <1>8, <1>9, <1>10, <1>11,
     <1>12, <1>13
  DEF D!Step, H!Step

LEMMA SameSteps ==
    ASSUME NEW d
    PROVE  /\ D!Drop(d) <=> H!Drop(d)
           /\ \A w : D!Call(d, w) <=> H!Call(d, w)
           /\ \A n : D!Resize(n) <=> H!Resize(n)
           /\ D!Remove <=> H!Remove
           /\ UNCHANGED decoders <=> UNCHANGED H!vars
  BY DEF D!Drop, H!Drop, D!Released, H!Released, D!Call, H!Call, D!Resize,
         H!Resize, D!Remove, H!Remove, decoders, H!vars, D!Goto, H!Goto,
         D!pool, H!pool, D!request, H!request, D!holding, H!holding

-----------------------------------------------------------------------------
(***************************************************************************)
(* The inductive invariant of the pages: every page of the pool is free,   *)
(* held or lost; the command is inside a constructor, or has a decoder,    *)
(* only between the opening of a reader and its drop; and what it lost is  *)
(* among what is lost.                                                     *)
(***************************************************************************)
Counted == free + leaked + SumFunctionOnSet(H!Held, Process) = PoolSize

Holds ==
    /\ H!IInv
    /\ Counted
    /\ lost \in 0..leaked
    /\ main \notin {"Opening", "Copy"} => pc[Bench] = "Idle"
    /\ main = "Copy" /\ ~UsesHugepages => pc[Bench] = "Idle"
    /\ main = "Opening" => UsesHugepages

\* What the processes hold are counts.
LEMMA HeldCounts ==
    ASSUME H!IInv
    PROVE  /\ \A d \in Process : H!Held[d] = raw[d] + owned[d] /\ H!Held[d] \in Nat
           /\ free \in Nat /\ leaked \in Nat
  BY DEF H!IInv, H!TypeOK, H!Held

\* A step of one process keeps the count and the invariant of the
\* constructors, and leaves the others where they are.
LEMMA ProcessStep ==
    ASSUME H!IInv, Counted, NEW d \in Process,
           \/ D!Step(d) \/ D!Drop(d)
           \/ \E w \in Windows \cup {0} : D!Call(d, w)
    PROVE  /\ H!IInv' /\ Counted'
           /\ leaked \in Nat /\ leaked' \in Nat /\ leaked' >= leaked
           /\ \A e \in Process \ {d} : pc'[e] = pc[e]
<1>1. \/ H!Step(d) \/ H!Drop(d)
      \/ \E w \in Windows \cup {0} : H!Call(d, w)
  BY SameStep, SameSteps
<1>2. H!IInv'
  BY <1>1, Assumptions, H!ProcessInvariant
<1>3. \A e \in Process \ {d} : pc'[e] = pc[e]
  <2> SUFFICES ASSUME NEW e \in Process \ {d} PROVE pc'[e] = pc[e]
    OBVIOUS
  <2>1. e \in Process /\ d \in Process \ {e}
    OBVIOUS
  <2> QED BY <1>1, <2>1, Assumptions, H!OthersStand
<1>4. H!Balanced(d)
  BY <1>1, Assumptions, H!StepBalance
<1>5. /\ free' + leaked' + raw'[d] + owned'[d] = free + leaked + raw[d] + owned[d]
      /\ \A e \in Process : e # d => raw'[e] = raw[e] /\ owned'[e] = owned[e]
      /\ leaked' >= leaked
  BY <1>4 DEF H!Balanced
<1>6. /\ \A e \in Process : H!Held[e] = raw[e] + owned[e] /\ H!Held[e] \in Nat
      /\ \A e \in Process : /\ H!Held'[e] = raw'[e] + owned'[e]
                            /\ H!Held'[e] \in Nat
      /\ free \in Nat /\ leaked \in Nat /\ free' \in Nat /\ leaked' \in Nat
      /\ raw[d] \in Nat /\ owned[d] \in Nat
      /\ raw'[d] \in Nat /\ owned'[d] \in Nat
  BY <1>2 DEF H!IInv, H!TypeOK, H!Held
<1> DEFINE h == H!Held
           k == H!Held'
           a == SumFunctionOnSet(h, Process)
           b == SumFunctionOnSet(k, Process)
<1>7. \A e \in Process : h[e] \in Nat /\ k[e] \in Nat /\ (e # d => k[e] = h[e])
  BY <1>5, <1>6
<1>8. b + h[d] = a + k[d] /\ a \in Nat /\ b \in Nat
  <2> HIDE DEF h, k
  <2> QED BY <1>7, Assumptions, SumChange, SumNat
<1>9. h[d] = raw[d] + owned[d] /\ k[d] = raw'[d] + owned'[d]
  BY <1>6
<1>10. free' + leaked' + b = PoolSize
  <2> DEFINE f == free'
             l == leaked'
             r == raw'[d]
             o == owned'[d]
  <2>1. /\ f \in Nat /\ l \in Nat /\ r \in Nat /\ o \in Nat
        /\ f + l + r + o = free + leaked + raw[d] + owned[d]
        /\ b + (raw[d] + owned[d]) = a + (r + o)
        /\ free + leaked + a = PoolSize
    <3>1. f \in Nat /\ l \in Nat /\ r \in Nat /\ o \in Nat
      BY <1>6
    <3>2. f + l + r + o = free + leaked + raw[d] + owned[d]
      BY <1>5
    <3>3. b + (raw[d] + owned[d]) = a + (r + o)
      <4> HIDE DEF a, b, h, k
      <4> QED BY <1>8, <1>9
    <3>4. free + leaked + a = PoolSize
      BY DEF Counted
    <3> QED BY <3>1, <3>2, <3>3, <3>4
  <2>2. SUFFICES f + l + b = PoolSize
    OBVIOUS
  <2> HIDE DEF f, l, r, o, a, b
  <2> QED BY <1>6, <1>8, <2>1
<1>11. Counted'
  BY <1>10 DEF Counted
<1> QED BY <1>2, <1>3, <1>5, <1>6, <1>11

LEMMA InitHolds == Init => Holds
<1> SUFFICES ASSUME Init PROVE Holds
  OBVIOUS
<1>1. H!Init
  BY SameInit DEF Init
<1>2. H!IInv
  BY <1>1, Assumptions, H!InitInvariant
<1>3. \A d \in Process : H!Held[d] = 0
  BY <1>1 DEF H!Init, H!Held
<1>4. free = PoolSize /\ leaked = 0 /\ lost = 0 /\ pc[Bench] = "Idle" /\ main = "Stat"
  BY <1>1, BenchAssumption DEF H!Init, Init
<1>5. Counted
  <2> DEFINE h == H!Held
  <2>1. \A d \in Process : h[d] = 0
    BY <1>3
  <2> HIDE DEF h
  <2>2. SumFunctionOnSet(h, Process) = 0
    BY <2>1, Assumptions, SumZero
  <2> QED BY <1>4, <2>2, Assumptions DEF Counted, h
<1> QED BY <1>2, <1>4, <1>5 DEF Holds

\* Nothing the constructors keep changes.
LEMMA StillHolds ==
    ASSUME H!IInv, Counted, UNCHANGED decoders
    PROVE  H!IInv' /\ Counted' /\ UNCHANGED <<free, leaked, pc>>
<1>1. H!IInv'
  BY SameSteps, Assumptions, H!DiskInvariant
<1>2. UNCHANGED <<free, leaked, pc, raw, owned>>
  BY DEF decoders
<1> QED BY <1>1, <1>2 DEF Counted, H!Held

LEMMA StepHolds == Holds /\ [Next]_vars => Holds'
<1> SUFFICES ASSUME Holds, [Next]_vars PROVE Holds'
  OBVIOUS
<1> USE DEF opening, loop, ending, End
<1>0. /\ H!IInv /\ Counted /\ Bench \in Process /\ lost \in 0..leaked
      /\ leaked \in Nat /\ free \in Nat
      /\ pc \in [Process -> H!Labels]
  BY BenchAssumption, HeldCounts DEF Holds, H!IInv, H!TypeOK
<1>1. CASE \/ Stat \/ Preflight \/ OpenBufreader \/ Report \/ UNCHANGED vars
           \/ (Copy \/ CopyFailed) /\ ~UsesHugepages
  <2>1. UNCHANGED <<decoders, args, lost>>
    BY <1>1
    DEF Stat, Preflight, OpenBufreader, Report, vars, bench, Copy, CopyFailed,
        DropReader
  <2>2. H!IInv' /\ Counted' /\ UNCHANGED <<free, leaked, pc>>
    BY <1>0, <2>1, StillHolds
  <2>3. main' = main \/ (main' # "Opening" /\ pc[Bench] = "Idle")
    BY <1>1
    DEF Stat, Preflight, OpenBufreader, Report, vars, bench, Copy, CopyFailed,
        Holds
  <2>4. UsesHugepages' <=> UsesHugepages
    BY <2>1 DEF UsesHugepages
  <2> QED BY <1>0, <2>1, <2>2, <2>3, <2>4 DEF Holds
<1>2. CASE OpenHugepage
  <2>1. /\ D!Call(Bench, 0) /\ UsesHugepages /\ main' = "Opening"
        /\ UNCHANGED <<args, lost>>
    BY <1>2 DEF OpenHugepage
  <2>2. H!IInv' /\ Counted' /\ leaked' \in Nat /\ leaked' >= leaked
    BY <1>0, <2>1, ProcessStep
  <2>3. UsesHugepages'
    BY <2>1 DEF UsesHugepages
  <2>4. lost' \in 0..leaked'
    BY <1>0, <2>1, <2>2
  <2> QED BY <2>1, <2>2, <2>3, <2>4 DEF Holds
<1>3. CASE Constructor
  <2>1. /\ D!Step(Bench) /\ main = "Opening" /\ UsesHugepages
        /\ lost' = lost + (leaked' - leaked) /\ UNCHANGED args
        /\ main' \in {"Exited", "Copy", main}
        /\ main' = "Exited" => pc'[Bench] = "Idle"
    BY <1>3 DEF Constructor, Holds
  <2>2. H!IInv' /\ Counted' /\ leaked' \in Nat /\ leaked' >= leaked
    BY <1>0, <2>1, ProcessStep
  <2>3. UsesHugepages'
    BY <2>1 DEF UsesHugepages
  <2>4. lost' \in 0..leaked'
    <3> DEFINE l == leaked'
    <3>1. l \in Nat /\ l >= leaked
      BY <2>2
    <3>2. SUFFICES lost + (l - leaked) \in 0..l
      BY <2>1
    <3> HIDE DEF l
    <3> QED BY <1>0, <3>1
  <2> QED BY <2>1, <2>2, <2>3, <2>4 DEF Holds
<1>4. CASE (Copy \/ CopyFailed) /\ UsesHugepages
  <2>1. /\ D!Drop(Bench) /\ main' \in {"Loop", "Exited"}
        /\ UNCHANGED <<args, lost>>
    BY <1>4 DEF Copy, CopyFailed, DropReader
  <2>2. H!IInv' /\ Counted' /\ leaked' \in Nat /\ leaked' >= leaked
    BY <1>0, <2>1, ProcessStep
  <2>3. pc'[Bench] = "Idle"
    BY <1>0, <2>1 DEF D!Drop, D!Goto
  <2>4. lost' \in 0..leaked'
    BY <1>0, <2>1, <2>2
  <2> QED BY <2>1, <2>2, <2>3, <2>4 DEF Holds
<1>5. CASE Reap
  <2>1. /\ main = "Exited" /\ free' = free + lost /\ leaked' = leaked - lost
        /\ lost' = 0
        /\ UNCHANGED <<disk, lostFd, pc, mode, window, len, filled, raw, owned,
                       fd, src, err, args, main>>
    BY <1>5 DEF Reap
  <2>2. free' \in Nat /\ leaked' \in Nat
    BY <1>0, <2>1
  <2>3. H!IInv'
    <3>1. H!TypeOK'
      BY <1>0, <2>1, <2>2 DEF H!IInv, H!TypeOK, H!Labels
    <3>2. H!SliceIsBacked' /\ \A d \in Process : H!Holding(d)'
      BY <1>0, <2>1 DEF H!IInv, H!SliceIsBacked, H!Holding
    <3> QED BY <3>1, <3>2 DEF H!IInv
  <2>4. H!Held' = H!Held
    BY <2>1 DEF H!Held
  <2>5. Counted'
    <3> DEFINE a == SumFunctionOnSet(H!Held, Process)
    <3>1. a \in Nat
      <4> DEFINE h == H!Held
      <4>1. \A d \in Process : h[d] \in Nat
        BY <1>0, HeldCounts
      <4> HIDE DEF h
      <4>2. SumFunctionOnSet(h, Process) \in Nat
        BY <4>1, Assumptions, SumNat
      <4> QED BY <4>2 DEF h
    <3>2. free + leaked + a = PoolSize
      BY <1>0 DEF Counted
    <3>3. SumFunctionOnSet(H!Held', Process) = a
      BY <2>4
    <3> HIDE DEF a
    <3>4. (free + lost) + (leaked - lost) + a = PoolSize
      BY <1>0, <3>1, <3>2
    <3> QED BY <2>1, <3>3, <3>4 DEF Counted
  <2>6. UsesHugepages' <=> UsesHugepages
    BY <2>1 DEF UsesHugepages
  <2> QED BY <2>1, <2>2, <2>3, <2>5, <2>6 DEF Holds
<1>6. CASE Environment
  <2>1. UNCHANGED <<args, main, lost>>
    BY <1>6 DEF Environment, bench
  <2>2. /\ H!IInv' /\ Counted' /\ leaked' \in Nat /\ leaked' >= leaked
        /\ pc'[Bench] = pc[Bench]
    <3>1. CASE \E d \in Others : \/ D!Step(d) \/ D!Drop(d)
                                 \/ \E w \in Windows \cup {0} : D!Call(d, w)
      BY <1>0, <3>1, ProcessStep DEF Others
    <3>2. CASE (\E n \in Sizes : D!Resize(n)) \/ D!Remove
      <4>1. (\E n \in Sizes : H!Resize(n)) \/ H!Remove
        BY <3>2, SameSteps
      <4>2. H!IInv'
        BY <1>0, <4>1, Assumptions, H!DiskInvariant
      <4>3. UNCHANGED <<free, leaked, pc, raw, owned>>
        BY <3>2 DEF D!Resize, D!Remove, D!pool, D!holding
      <4> QED BY <1>0, <4>2, <4>3 DEF Counted, H!Held
    <3> QED BY <1>6, <3>1, <3>2 DEF Environment
  <2>3. lost' \in 0..leaked'
    BY <1>0, <2>1, <2>2
  <2>4. UsesHugepages' <=> UsesHugepages
    BY <2>1 DEF UsesHugepages
  <2> QED BY <2>1, <2>2, <2>3, <2>4 DEF Holds
<1> QED
  BY <1>1, <1>2, <1>3, <1>4, <1>5, <1>6 DEF Next, BenchStep

\* Between the runs of the command, and however it ends, every page of the
\* pool is free, in a decoder of somebody else, or was lost in a constructor.
THEOREM NothingLeft == Spec => []LeavesNothing
<1>1. Holds => LeavesNothing
  <2> SUFFICES ASSUME Holds, main \notin {"Opening", "Copy"}
               PROVE  free + leaked + SumFunctionOnSet(D!Held, Others) = PoolSize
    BY DEF LeavesNothing
  <2>1. H!Held[Bench] = 0
    BY BenchAssumption DEF Holds, H!IInv, H!TypeOK, H!Holding, H!Held
  <2> DEFINE h == H!Held
  <2>2. \A d \in Process : h[d] \in Nat
    BY HeldCounts DEF Holds
  <2>3. h[Bench] = 0
    BY <2>1
  <2>4. free + leaked + SumFunctionOnSet(h, Process) = PoolSize
    BY DEF Holds, Counted
  <2>5. D!Held = h
    BY DEF D!Held, H!Held
  <2> HIDE DEF h
  <2>6. SumFunctionOnSet(h, Process) = 0 + SumFunctionOnSet(h, Others)
    BY <2>2, <2>3, Assumptions, BenchAssumption, SumStep DEF Others
  <2>7. SumFunctionOnSet(h, Others) \in Nat
    <3>1. IsFiniteSet(Others)
      BY Assumptions, FS_Subset DEF Others
    <3> QED BY <2>2, <3>1, SumNat DEF Others
  <2> QED BY <2>4, <2>5, <2>6, <2>7
<1> QED BY <1>1, InitHolds, StepHolds, PTL DEF Spec

-----------------------------------------------------------------------------
\* What the preflight counts is the length in huge pages, rounded up.
LEMMA NeededRoundsUp ==
    ASSUME NEW x \in Nat
    PROVE  needed_hugepages(x) = (x + Huge - 1) \div Huge
<1> DEFINE q == x \div Huge
           r == x % Huge
<1>1. Huge \in Nat \ {0}
  BY OpeningAssumption DEF D!SizesAssumption
<1>2. q \in Nat /\ r \in 0..(Huge - 1) /\ x = Huge * q + r
  BY <1>1, DivMod
<1>3. needed_hugepages(x) = q + (IF r = 0 THEN 0 ELSE 1)
  BY DEF needed_hugepages
<1> HIDE DEF q, r
<1>4. CASE r = 0
  <2>1. x + Huge - 1 = Huge * q + (Huge - 1)
    <3>1. Huge * q \in Nat
      BY <1>1, <1>2, SMT
    <3> QED BY <1>1, <1>2, <1>4, <3>1
  <2>2. (Huge * q + (Huge - 1)) \div Huge = q
    BY <1>1, <1>2, DivUnique
  <2> QED BY <1>2, <1>3, <1>4, <2>1, <2>2
<1>5. CASE r # 0
  <2>1. x + Huge - 1 = Huge * (q + 1) + (r - 1)
    <3>1. Huge * q \in Nat /\ Huge * (q + 1) = Huge * q + Huge
      BY <1>1, <1>2, SMT
    <3> QED BY <1>1, <1>2, <3>1
  <2>2. r - 1 \in 0..(Huge - 1) /\ q + 1 \in Nat
    BY <1>1, <1>2, <1>5
  <2>3. (Huge * (q + 1) + (r - 1)) \div Huge = q + 1
    BY <1>1, <2>2, DivUnique
  <2> QED BY <1>2, <1>3, <1>5, <2>1, <2>3
<1> QED BY <1>4, <1>5

(***************************************************************************)
(* What holds of a command that is left alone: the constructors see the    *)
(* size the preflight counted, and the pool has that many pages in all.    *)
(***************************************************************************)
Prepared ==
    /\ mode[Bench] \in {"anon", "memfd"}
    /\ pc[Bench] \in {"Idle", "Load", "MapAnon", "Stat", "Create", "Extend",
                      "MapFd", "Fill", "Zstd", "Ready"}
    /\ pc[Bench] \in {"MapAnon", "Create", "Extend", "MapFd", "Fill"} =>
          len[Bench] = file_size
    /\ main \notin {"Stat", "Exited"} => file_size \in Sizes
    /\ main \in {"Loop", "Opening", "Copy"} /\ UsesHugepages =>
          needed_hugepages(file_size) <= PoolSize
    /\ err[Bench] \notin {"OutOfMemory", "UnexpectedEof"}

\* While the others hold nothing, the pages of the pool are those that are
\* free and the command's own, and the kernel shows all that are free.
LEMMA PoolOfOne ==
    ASSUME Holds, Undisturbed
    PROVE  /\ free \in 0..PoolSize
           /\ raw[Bench] = 0 /\ owned[Bench] = 0 => free = PoolSize
           /\ Untouched = 0
<1> DEFINE h == H!Held
           a == SumFunctionOnSet(h, Process)
           g == [d \in Others |->
                    IF pc[d] = "Fill" THEN raw[d]
                    ELSE IF mode[d] = "streaming" /\ pc[d] # "Idle" THEN owned[d]
                    ELSE 0]
<1>1. /\ \A d \in Process : h[d] = raw[d] + owned[d] /\ h[d] \in Nat
      /\ free \in Nat /\ leaked = 0 /\ free + leaked + a = PoolSize
  BY HeldCounts DEF Holds, Undisturbed, Counted
<1>2. \A d \in Others : h[d] = 0
  BY <1>1 DEF Undisturbed, Others, Holds, H!IInv, H!TypeOK, H!Holding
<1>3. \A d \in Others : g[d] = 0
  BY DEF Undisturbed
<1>4. IsFiniteSet(Others)
  BY Assumptions, FS_Subset DEF Others
<1>5. Untouched = leaked + SumFunctionOnSet(g, Others)
  BY DEF Untouched
<1>6. raw[Bench] = 0 /\ owned[Bench] = 0 => \A d \in Process : h[d] = 0
  BY <1>1, <1>2 DEF Others
<1> HIDE DEF h, g
<1>7. a \in Nat /\ ((\A d \in Process : h[d] = 0) => a = 0)
  BY <1>1, Assumptions, SumNat, SumZero
<1>8. SumFunctionOnSet(g, Others) = 0
  BY <1>3, <1>4, SumZero
<1> HIDE DEF a
<1> QED BY <1>1, <1>5, <1>6, <1>7, <1>8, Assumptions

\* The pool that was counted has the pages of a file of that size.
LEMMA EnoughMapped ==
    ASSUME Holds, Undisturbed, Prepared, PoolSize * Huge < D!Limit,
           main = "Opening", D!Step(Bench), pc[Bench] \in {"MapAnon", "MapFd"}
    PROVE  D!CanMap(D!PagesFor(len[Bench]))
<1>1. /\ len[Bench] = file_size /\ file_size \in Sizes
      /\ needed_hugepages(file_size) <= PoolSize
      /\ file_size = disk /\ disk # 0
  BY DEF Prepared, Undisturbed, Holds
<1>2. len[Bench] \in 0..(H!Limit - 1) /\ len[Bench] > 0 /\ len[Bench] \in Nat
  <2>1. len[Bench] \in 0..(H!Limit - 1)
    BY <1>1, Assumptions DEF H!SizesAssumption, H!Limit
  <2>2. len[Bench] # 0
    BY <1>1
  <2> QED BY <2>1, <2>2
<1>3. raw[Bench] = 0 /\ owned[Bench] = 0
  BY BenchAssumption DEF Holds, H!IInv, H!TypeOK, H!Holding
<1>4. free = PoolSize /\ free \in 0..PoolSize
  BY <1>3, PoolOfOne
<1>5. (len[Bench] + Huge - 1) \div Huge <= free
  BY <1>1, <1>2, <1>4, NeededRoundsUp
<1>6. (len[Bench] + Huge - 1) \div Huge \in Nat
  <2>1. Huge \in Nat \ {0} /\ len[Bench] + Huge - 1 \in Nat
    BY <1>2, OpeningAssumption DEF D!SizesAssumption
  <2> QED BY <2>1, DivMod
<1>7. PoolSize * Huge < H!Limit
  BY DEF D!Limit, H!Limit
<1>8. ASSUME ~H!CanMap(H!PagesFor(len[Bench])) PROVE FALSE
  <2>1. (len[Bench] + Huge - 1) \div Huge > free
    BY <1>2, <1>4, <1>7, <1>8, Assumptions, H!ScarceFor
  <2> QED BY <1>4, <1>5, <1>6, <2>1
<1> QED BY <1>8, SamePages

\* A constructor finds the file as the preflight did, and its pages.
LEMMA ConstructorPrepared ==
    ASSUME Holds, Undisturbed, Prepared, "memfd" \notin Faults,
           PoolSize * Huge < D!Limit,
           main = "Opening", D!Step(Bench)
    PROVE  /\ mode' = mode
           /\ pc'[Bench] \in {"Idle", "MapAnon", "Create", "Extend", "MapFd",
                              "Fill", "Zstd", "Ready"}
           /\ pc'[Bench] \in {"MapAnon", "Create", "Extend", "MapFd", "Fill"} =>
                 len'[Bench] = file_size
           /\ err'[Bench] \notin {"OutOfMemory", "UnexpectedEof"}
<1>0. /\ Bench \in Process /\ pc \in [Process -> H!Labels]
      /\ len \in [Process -> Sizes \cup {0}] /\ DOMAIN err = Process
      /\ disk = file_size /\ file_size \in Nat
      /\ len[Bench] = file_size \/ pc[Bench] \in {"Idle", "Load", "Stat", "Zstd", "Ready"}
      /\ err[Bench] \notin {"OutOfMemory", "UnexpectedEof"}
  <2>1. file_size \in Nat
    <3>1. file_size \in 0..(H!Limit - 1)
      BY Assumptions DEF Prepared, H!SizesAssumption, H!Limit
    <3> QED BY <3>1
  <2>2. /\ pc \in [Process -> H!Labels] /\ len \in [Process -> Sizes \cup {0}]
        /\ DOMAIN err = Process
    BY DEF Holds, H!IInv, H!TypeOK
  <2>3. disk = file_size
    BY DEF Undisturbed
  <2> QED BY <2>1, <2>2, <2>3, BenchAssumption DEF Prepared
<1>1. CASE \E kind \in {"NotFound", "Denied", "Os", "Zstd"} : \E r, f :
                D!FailHolding(Bench, kind, r, f)
  BY <1>0, <1>1 DEF D!FailHolding, D!Goto, D!request
<1>2. CASE ~\E kind \in {"NotFound", "Denied", "Os", "Zstd"} : \E r, f :
                D!FailHolding(Bench, kind, r, f)
  <2> USE DEF D!Fail, D!FailClosed, D!FailUnmapped, D!NotOpened, D!FillFailed,
              D!Goto, D!request, D!holding
  <2>1. CASE D!Load(Bench) \/ D!Stat(Bench)
    BY <1>0, <1>2, <2>1 DEF D!Load, D!Stat
  <2>2. CASE D!MapAnon(Bench) \/ D!MapFd(Bench)
    <3>1. D!CanMap(D!PagesFor(len[Bench]))
      BY <2>2, EnoughMapped DEF D!MapAnon, D!MapFd
    <3> QED BY <1>0, <2>2, <3>1 DEF D!MapAnon, D!MapFd
  <2>3. CASE D!Create(Bench) \/ D!Extend(Bench)
    BY <1>0, <1>2, <2>3 DEF D!Create, D!Extend, D!ExtendFailed
  <2>4. CASE D!Fill(Bench)
    <3>1. pc[Bench] = "Fill" /\ ~D!Short(Bench)
      BY <1>0, <2>4 DEF D!Fill, D!Short
    <3> QED BY <1>0, <1>2, <2>4, <3>1 DEF D!Fill
  <2>5. CASE D!NewZstd(Bench)
    BY <1>0, <1>2, <2>5 DEF D!NewZstd
  <2> QED
    BY <2>1, <2>2, <2>3, <2>4, <2>5
    DEF Prepared, D!Step, D!Window, D!StatWindow, D!MapScratch, D!MapSource,
        D!Advise
<1> QED BY <1>1, <1>2

LEMMA InitPrepared == Init => Prepared
<1> SUFFICES ASSUME Init PROVE Prepared
  OBVIOUS
<1>1. /\ mode[Bench] \in {"anon", "memfd"} /\ main = "Stat"
      /\ pc[Bench] = "Idle" /\ err[Bench] = "none"
  BY BenchAssumption DEF Init, D!Init
<1> QED BY <1>1 DEF Prepared

\* A step of a command that is left alone.
LEMMA StepPrepared ==
    ASSUME Holds, Undisturbed, Prepared, [Next]_vars, "memfd" \notin Faults,
           PoolSize * Huge < D!Limit
    PROVE  Prepared'
<1> USE DEF opening, loop, ending, End
<1>0. /\ Bench \in Process /\ pc \in [Process -> H!Labels]
      /\ DOMAIN err = Process /\ DOMAIN mode = Process
      /\ disk \in Sizes \cup {Absent}
  BY BenchAssumption DEF Holds, H!IInv, H!TypeOK
<1>1. CASE \/ Stat \/ Preflight \/ OpenBufreader \/ Report \/ UNCHANGED vars
           \/ (Copy \/ CopyFailed) /\ ~UsesHugepages
  <2>1. UNCHANGED <<mode, pc, len, err, args>>
    BY <1>1
    DEF Stat, Preflight, OpenBufreader, Report, vars, bench, Copy, CopyFailed,
        DropReader, decoders
  <2>2. CASE Stat
    BY <1>0, <2>1, <2>2 DEF Stat, Prepared, UsesHugepages, Holds
  <2>3. CASE Preflight
    <3>1. main' = "Loop" => needed_hugepages(file_size) <= PoolSize
      <4> SUFFICES ASSUME main' = "Loop"
                   PROVE  needed_hugepages(file_size) <= PoolSize
        OBVIOUS
      <4>1. PICK shown \in free..(free + Untouched) :
                ~(shown < needed_hugepages(file_size))
        BY <2>3 DEF Preflight
      <4>2. free \in 0..PoolSize /\ Untouched = 0
        BY PoolOfOne
      <4>3. file_size \in Nat
        <5>1. file_size \in 0..(H!Limit - 1)
          BY <2>3, Assumptions DEF Preflight, Prepared, H!SizesAssumption, H!Limit
        <5> QED BY <5>1
      <4>4. needed_hugepages(file_size) \in Nat
        <5>1. Huge \in Nat \ {0} /\ file_size + Huge - 1 \in Nat
          BY <4>3, OpeningAssumption DEF D!SizesAssumption
        <5>2. (file_size + Huge - 1) \div Huge \in Nat
          BY <5>1, DivMod
        <5> QED BY <4>3, <5>2, NeededRoundsUp
      <4> QED BY <4>1, <4>2, <4>4, Assumptions
    <3>2. /\ main = "Preflight" /\ main' \in {"Exited", "Loop"}
          /\ file_size' = file_size
      BY <2>3 DEF Preflight
    <3> QED BY <2>1, <3>1, <3>2 DEF Prepared, UsesHugepages, needed_hugepages
  <2>4. CASE ~Stat /\ ~Preflight
    <3>1. /\ file_size' = file_size
          /\ main' = main \/ main' = "Exited" \/ ~UsesHugepages
          /\ main' # "Exited" => main \notin {"Stat", "Exited"} \/ main' = main
      BY <1>1, <2>4
      DEF OpenBufreader, Report, vars, bench, Copy, CopyFailed
    <3> QED BY <2>1, <3>1 DEF Prepared, UsesHugepages, needed_hugepages
  <2> QED BY <2>2, <2>3, <2>4
<1>2. CASE OpenHugepage
  <2>1. /\ D!Call(Bench, 0) /\ main = "Loop" /\ main' = "Opening"
        /\ UNCHANGED <<args, file_size>>
    BY <1>2 DEF OpenHugepage
  <2>2. /\ mode' = mode /\ len' = len /\ pc'[Bench] \in {"Load", "Stat"}
        /\ err'[Bench] = "none"
    BY <1>0, <2>1 DEF D!Call, D!Goto, Prepared
  <2> QED BY <2>1, <2>2 DEF Prepared, UsesHugepages, needed_hugepages
<1>3. CASE Constructor
  <2>1. /\ D!Step(Bench) /\ main = "Opening" /\ UNCHANGED <<args, file_size>>
    BY <1>3 DEF Constructor
  <2>2. /\ mode' = mode
        /\ pc'[Bench] \in {"Idle", "MapAnon", "Create", "Extend", "MapFd",
                           "Fill", "Zstd", "Ready"}
        /\ pc'[Bench] \in {"MapAnon", "Create", "Extend", "MapFd", "Fill"} =>
              len'[Bench] = file_size
        /\ err'[Bench] \notin {"OutOfMemory", "UnexpectedEof"}
    BY <2>1, ConstructorPrepared
  <2> QED BY <2>1, <2>2 DEF Prepared, UsesHugepages, needed_hugepages
<1>4. CASE (Copy \/ CopyFailed) /\ UsesHugepages
  <2>1. /\ D!Drop(Bench) /\ main = "Copy" /\ UNCHANGED <<args, file_size>>
    BY <1>4 DEF Copy, CopyFailed, DropReader
  <2>2. pc'[Bench] = "Idle" /\ UNCHANGED <<mode, len, err>>
    BY <1>0, <2>1 DEF D!Drop, D!Goto, D!request
  <2> QED BY <2>1, <2>2 DEF Prepared, UsesHugepages, needed_hugepages
<1>5. CASE Reap
  BY <1>5 DEF Reap, Prepared, UsesHugepages, needed_hugepages
<1>6. CASE Environment
  <2>1. UNCHANGED <<args, file_size, main>>
    BY <1>6 DEF Environment, bench
  <2>2. /\ mode' = mode /\ pc'[Bench] = pc[Bench] /\ len'[Bench] = len[Bench]
        /\ err'[Bench] = err[Bench]
    <3>1. CASE \E d \in Others : \/ D!Step(d) \/ D!Drop(d)
                                 \/ \E w \in Windows \cup {0} : D!Call(d, w)
      <4>1. PICK d \in Others : \/ H!Step(d) \/ H!Drop(d)
                                \/ \E w \in Windows \cup {0} : H!Call(d, w)
        BY <3>1, SameStep, SameSteps
      <4>2. d \in Process \ {Bench} /\ H!IInv
        BY DEF Others, Holds
      <4> QED BY <1>0, <4>1, <4>2, Assumptions, H!OthersStand
    <3>2. CASE (\E n \in Sizes : D!Resize(n)) \/ D!Remove
      BY <3>2 DEF D!Resize, D!Remove, D!request
    <3> QED BY <1>6, <3>1, <3>2 DEF Environment
  <2> QED BY <2>1, <2>2 DEF Prepared, UsesHugepages, needed_hugepages
<1> QED
  BY <1>1, <1>2, <1>3, <1>4, <1>5, <1>6 DEF Next, BenchStep

\* A command that passed the preflight does not fail for want of huge pages
\* or of bytes of the file, while nobody else touches the pool or the file,
\* provided that memfd_create itself does not fail and that the pool is
\* smaller than the address space.
THEOREM PreflightEnough ==
    ASSUME "memfd" \notin Faults, PoolSize * Huge < D!Limit
    PROVE  Spec => PreflightSuffices
<1>1. Holds /\ Undisturbed /\ Prepared /\ [Next]_vars => Prepared'
  BY StepPrepared
<1>2. Prepared => err[Bench] \notin {"OutOfMemory", "UnexpectedEof"}
  BY DEF Prepared
<1> QED
  BY <1>1, <1>2, InitPrepared, InitHolds, StepHolds, PTL
  DEF Spec, PreflightSuffices

=============================================================================
