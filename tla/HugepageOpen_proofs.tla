------------------------ MODULE HugepageOpen_proofs ------------------------
(***************************************************************************)
(* Proofs about HugepageOpen, for any number of processes, any pool, page, *)
(* width of usize, file sizes and windows.                                 *)
(***************************************************************************)
EXTENDS HugepageOpen, PageLemmas

-----------------------------------------------------------------------------
\* What the rounding gives for a length that a usize can hold: no page when
\* it wraps, otherwise enough pages, and none of them to spare.
LEMMA RoundUpFacts ==
    ASSUME NEW x \in 0..(Limit - 1)
    PROVE  /\ PagesFor(x) \in Nat
           /\ RoundUp(x) = Huge * PagesFor(x)
           /\ PagesFor(x) > 0 => /\ x <= RoundUp(x)
                                 /\ RoundUp(x) <= x + (Huge - 1)
           /\ x + Huge <= Limit => x <= RoundUp(x)
<1> DEFINE y == (x + Huge - 1) % Limit
           k == y \div Huge
<1>1. Limit \in Nat \ {0} /\ Huge \in Nat \ {0, 1} /\ Limit % Huge = 0
  BY SizesAssumption DEF Limit
<1>2. Huge <= Limit
  BY <1>1, DivMod
<1> HIDE DEF Limit
<1>3. y \in 0..(Limit - 1) /\ x + Huge - 1 \in Nat
  BY <1>1, DivMod
<1>4. IF x + Huge - 1 < Limit THEN y = x + Huge - 1 ELSE y < Huge - 1
  <2>1. CASE x + Huge - 1 < Limit
    BY <1>1, <2>1, SMT
  <2>2. CASE x + Huge - 1 >= Limit
    <3>1. (x + Huge - 1) - Limit \in 0..(Limit - 1)
      BY <1>1, <1>2, <2>2
    <3>2. y = (x + Huge - 1) - Limit
      BY <1>1, <2>2, <3>1, SMT
    <3> QED BY <1>1, <2>2, <3>2
  <2> QED BY <1>1, <2>1, <2>2
<1>5. k \in Nat /\ y = Huge * k + (y % Huge) /\ y % Huge \in 0..(Huge - 1)
  <2>1. y \in Nat
    BY <1>1, <1>3
  <2> HIDE DEF y
  <2> QED BY <1>1, <2>1, DivMod
<1>6. RoundUp(x) = Huge * k
  <2>1. RoundUp(x) = y - (y % Huge)
    BY DEF RoundUp
  <2>2. Huge * k \in Nat
    BY <1>1, <1>5, SMT
  <2> HIDE DEF k, y
  <2>3. y \in Nat /\ y % Huge \in Int
    BY <1>1, <1>3, <1>5
  <2> QED BY <1>5, <2>1, <2>2, <2>3, SMT
<1>7. PagesFor(x) = k
  <2> HIDE DEF k
  <2>1. (Huge * k) \div Huge = k
    BY <1>1, <1>5, DivTimes
  <2> QED BY <1>6, <2>1 DEF PagesFor
<1>8. k > 0 => x + Huge - 1 < Limit
  <2> SUFFICES ASSUME x + Huge - 1 >= Limit PROVE k = 0
    BY <1>1, <1>5
  <2>1. y \in 0..(Huge - 1)
    BY <1>1, <1>3, <1>4
  <2> HIDE DEF y
  <2> QED BY <1>1, <2>1, DivZero
<1> HIDE DEF k, y
<1>9. Huge * k \in Nat
  BY <1>1, <1>5, SMT
<1> QED BY <1>1, <1>3, <1>4, <1>5, <1>6, <1>7, <1>8, <1>9

\* Windows, and the sizes of files, are lengths that a usize can hold.
LEMMA Lengths ==
    ASSUME IInv, NEW d \in Process
    PROVE  /\ window[d] \in 0..(Limit - 1)
           /\ len[d] \in 0..(Limit - 1)
           /\ disk # Absent => disk \in 0..(Limit - 1)
<1>1. /\ window[d] \in Windows \cup {0}
      /\ len[d] \in Sizes \cup {0}
      /\ disk # Absent => disk \in Sizes
  BY DEF IInv, TypeOK
<1>2. \A x \in Sizes \cup Windows \cup {0} : x \in 0..(Limit - 1)
  BY SizesAssumption DEF Limit
<1> QED BY <1>1, <1>2

\* Pages are mapped for a length only if they hold it.
LEMMA MappedFits ==
    ASSUME NEW x \in Sizes \cup Windows \cup {0}, CanMap(PagesFor(x))
    PROVE  PagesFor(x) \in Nat /\ x <= PagesFor(x) * Huge
<1> DEFINE n == PagesFor(x)
<1>1. x \in 0..(Limit - 1)
  BY SizesAssumption DEF Limit
<1>2. n \in Nat /\ RoundUp(x) = Huge * n /\ (n > 0 => x <= RoundUp(x))
  BY <1>1, RoundUpFacts
<1>3. 0 < n
  BY DEF CanMap
<1> HIDE DEF n
<1>4. Huge * n = n * Huge
  BY <1>2, SizesAssumption, SMT
<1> QED BY <1>2, <1>3, <1>4 DEF n

-----------------------------------------------------------------------------
\* Nothing is held and nothing was measured at first.
LEMMA InitInvariant == Init => IInv
<1> SUFFICES ASSUME Init PROVE IInv
  OBVIOUS
<1>1. TypeOK
  BY SizesAssumption DEF Init, TypeOK, Labels
<1>2. SliceIsBacked /\ \A d \in Process : Holding(d)
  BY DEF Init, SliceIsBacked, Holding
<1> QED BY <1>1, <1>2 DEF IInv

Errors == {"NotFound", "OutOfMemory", "Os", "Denied", "UnexpectedEof",
           "InvalidInput", "Zstd"}

\* An error returns what is owned, and nothing is held after it.
LEMMA FailInvariant ==
    ASSUME IInv, NEW d \in Process,
           NEW kind \in Errors,
           NEW r \in {0, raw[d]}, NEW f, FailHolding(d, kind, r, f),
           f \in BOOLEAN
    PROVE  IInv'
<1> USE DEF IInv, FailHolding, request
<1>1. free' \in Nat /\ leaked' \in Nat
  BY DEF TypeOK
<1>2. TypeOK'
  BY <1>1 DEF TypeOK, Goto, Labels, Errors
<1>3. SliceIsBacked'
  BY DEF TypeOK, SliceIsBacked, Goto
<1>4. \A e \in Process : Holding(e)'
  BY DEF TypeOK, Holding, Goto
<1> QED BY <1>2, <1>3, <1>4

\* Where a call begins, whatever the mode.
LEMMA CallBegins ==
    ASSUME IInv, NEW d \in Process, NEW w \in Windows \cup {0}, Call(d, w)
    PROVE  \E label \in {"Load", "Stat", "Window", "Advise", "Zstd"} :
              /\ pc' = [pc EXCEPT ![d] = label]
              /\ \/ label # "Advise" /\ src' = src
                 \/ label = "Advise" /\ src' = [src EXCEPT ![d] = TRUE]
              /\ label = "Zstd" => mode[d] = "slice"
<1>1. mode[d] \in {"anon", "memfd", "streaming", "mmap", "slice"}
  BY EnvironmentAssumption DEF IInv, TypeOK, Mode
<1>2. CASE mode[d] = "mmap"
  BY <1>2 DEF Call, Goto
<1>3. CASE mode[d] # "mmap"
  BY <1>1, <1>3 DEF Call, Goto
<1> QED BY <1>2, <1>3

LEMMA CallInvariant ==
    ASSUME IInv, NEW d \in Process, NEW w \in Windows \cup {0}, Call(d, w)
    PROVE  IInv'
<1> USE DEF IInv, pool
<1>0. PICK label \in {"Load", "Stat", "Window", "Advise", "Zstd"} :
          /\ pc' = [pc EXCEPT ![d] = label]
          /\ \/ label # "Advise" /\ src' = src
             \/ label = "Advise" /\ src' = [src EXCEPT ![d] = TRUE]
          /\ label = "Zstd" => mode[d] = "slice"
  BY CallBegins
<1>1. /\ pc[d] = "Idle"
      /\ window' = [window EXCEPT ![d] = w]
      /\ err' = [err EXCEPT ![d] = "none"]
      /\ filled' = [filled EXCEPT ![d] = 0]
      /\ UNCHANGED <<disk, pool, mode, len, raw, owned, fd>>
  BY DEF Call
<1>2. TypeOK'
  BY <1>0, <1>1, SizesAssumption DEF TypeOK, Labels
<1>3. SliceIsBacked'
  BY <1>0, <1>1 DEF TypeOK, SliceIsBacked
<1>4. ASSUME NEW e \in Process PROVE Holding(e)'
  <2>1. CASE e = d
    <3>1. /\ raw[d] \in Nat /\ owned[d] \in Nat /\ fd[d] \in BOOLEAN
          /\ raw[d] = 0 /\ owned[d] = 0 /\ ~fd[d] /\ ~src[d]
      BY <1>1 DEF TypeOK, Holding
    <3>2. /\ pc'[d] = label /\ raw'[d] = 0 /\ owned'[d] = 0 /\ ~fd'[d]
          /\ src'[d] <=> label = "Advise"
      BY <1>0, <1>1, <3>1 DEF TypeOK
    <3> QED BY <2>1, <3>2 DEF Holding
  <2>2. CASE e # d
    <3>1. /\ pc'[e] = pc[e] /\ src'[e] = src[e] /\ filled'[e] = filled[e]
          /\ UNCHANGED <<raw, owned, fd, len>>
      BY <1>0, <1>1, <2>2 DEF TypeOK
    <3> QED BY <3>1 DEF Holding
  <2> QED BY <2>1, <2>2
<1> QED BY <1>2, <1>3, <1>4

\* Steps that map nothing, take nothing over and give nothing back.
LEMMA LightStepInvariant ==
    ASSUME IInv, NEW d \in Process,
           \/ Load(d) \/ Stat(d) \/ Create(d) \/ Extend(d) \/ Window(d)
           \/ StatWindow(d) \/ Advise(d)
    PROVE  IInv'
<1> USE DEF IInv, pool, request, holding
<1>0. raw[d] \in {0, raw[d]} /\ fd[d] \in BOOLEAN
  BY DEF TypeOK
<1>1. CASE \E kind \in Errors :
              Fail(d, kind) \/ FailClosed(d, kind)
  BY <1>0, <1>1, FailInvariant DEF Errors, Fail, FailClosed
<1>2. CASE ~\E kind \in Errors :
               Fail(d, kind) \/ FailClosed(d, kind)
  <2>1. /\ UNCHANGED <<disk, pool, request, raw, owned, src, err>>
        /\ fd' \in [Process -> BOOLEAN]
    BY <1>2
    DEF Load, Stat, Create, Extend, ExtendFailed, Window, StatWindow, Advise,
        NotOpened, TypeOK, Errors
  <2>2. \E label \in {"MapAnon", "Create", "Extend", "MapFd", "StatWindow",
                      "Stat", "MapScratch", "Zstd"} :
           /\ Goto(d, label)
           /\ label = "Zstd" => src[d]
           /\ label = "MapAnon" => /\ len' = [len EXCEPT ![d] = disk]
                                   /\ filled' = [filled EXCEPT ![d] = disk]
    BY <1>2
    DEF Load, Stat, Create, Extend, ExtendFailed, Window, StatWindow, Advise,
        NotOpened, Holding, Errors
  <2>3. /\ len' \in {len, [len EXCEPT ![d] = disk]}
        /\ filled' \in {filled, [filled EXCEPT ![d] = disk]}
        /\ len' # len \/ filled' # filled => disk \in Sizes
    BY <1>2
    DEF Load, Stat, Create, Extend, ExtendFailed, Window, StatWindow, Advise,
        NotOpened, TypeOK, Errors
  <2>4. /\ pc[d] \notin {"Fill", "Zstd", "MapSource", "Ready"}
        /\ raw[d] = 0 /\ (pc[d] # "Advise" => owned[d] = 0 /\ ~src[d])
    BY DEF Load, Stat, Create, Extend, Window, StatWindow, Advise, TypeOK, Holding
  <2>5. TypeOK'
    BY <2>1, <2>2, <2>3 DEF TypeOK, Goto, Labels
  <2>6. SliceIsBacked'
    BY <2>1, <2>2, <2>3 DEF TypeOK, SliceIsBacked, Goto
  <2>7. \A e \in Process : Holding(e)'
    BY <1>2, <2>1, <2>2, <2>3, <2>4
    DEF TypeOK, Holding, Goto, Load, Stat, Create, Extend, ExtendFailed, Window,
        StatWindow, Advise, NotOpened, Errors
  <2> QED BY <2>5, <2>6, <2>7
<1> QED BY <1>1, <1>2

\* Steps that map pages.
LEMMA MapStepInvariant ==
    ASSUME IInv, NEW d \in Process, MapAnon(d) \/ MapFd(d) \/ MapScratch(d)
    PROVE  IInv'
<1> USE DEF IInv, request
<1>0. raw[d] \in {0, raw[d]} /\ fd[d] \in BOOLEAN
  BY DEF TypeOK
<1>1. CASE Fail(d, "OutOfMemory") \/ FailClosed(d, "OutOfMemory")
  BY <1>0, <1>1, FailInvariant DEF Errors, Fail, FailClosed
<1>2. CASE /\ ~Fail(d, "OutOfMemory") /\ ~FailClosed(d, "OutOfMemory")
           /\ MapAnon(d) \/ MapFd(d)
  <2> DEFINE n == PagesFor(len[d])
  <2>1. /\ CanMap(n) /\ free' = free - n /\ raw' = [raw EXCEPT ![d] = n]
        /\ fd' \in [Process -> BOOLEAN]
        /\ UNCHANGED <<disk, leaked, lostFd, request, len, filled, owned, src, err>>
    BY <1>2 DEF MapAnon, MapFd, TypeOK
  <2>2. /\ \/ Goto(d, "Zstd") /\ filled[d] = len[d]
           \/ Goto(d, "Fill")
        /\ ~fd'[d] /\ \A e \in Process \ {d} : fd'[e] = fd[e]
    BY <1>2 DEF MapAnon, MapFd, Holding, TypeOK
  <2>3. len[d] \in Sizes \cup Windows \cup {0}
    BY DEF TypeOK
  <2>4. n \in Nat /\ len[d] <= n * Huge
    BY <2>1, <2>3, MappedFits
  <2>5. owned[d] = 0 /\ ~src[d]
    BY <1>2 DEF MapAnon, MapFd, TypeOK, Holding
  <2> HIDE DEF n
  <2>6. TypeOK'
    BY <2>1, <2>2, <2>4 DEF TypeOK, Goto, Labels, CanMap
  <2>7. SliceIsBacked'
    BY <2>1, <2>2, <2>4, <2>5 DEF TypeOK, SliceIsBacked, Goto
  <2>8. \A e \in Process : Holding(e)'
    BY <2>1, <2>2, <2>4, <2>5 DEF TypeOK, Holding, Goto
  <2> QED BY <2>6, <2>7, <2>8
<1>3. CASE /\ ~Fail(d, "OutOfMemory")
           /\ MapScratch(d)
  <2> DEFINE n == PagesFor(window[d])
  <2>1. /\ CanMap(n) /\ free' = free - n /\ owned' = [owned EXCEPT ![d] = n]
        /\ pc[d] = "MapScratch" /\ Goto(d, "MapSource")
        /\ UNCHANGED <<disk, leaked, lostFd, request, len, filled, raw, fd, src, err>>
    BY <1>3 DEF MapScratch
  <2>2. window[d] \in Sizes \cup Windows \cup {0}
    BY DEF TypeOK
  <2>3. n \in Nat
    BY <2>1, <2>2, MappedFits
  <2> HIDE DEF n
  <2>4. TypeOK'
    BY <2>1, <2>3 DEF TypeOK, Goto, Labels, CanMap
  <2>5. SliceIsBacked'
    BY <2>1 DEF TypeOK, SliceIsBacked, Goto
  <2>6. \A e \in Process : Holding(e)'
    BY <2>1, <2>3 DEF TypeOK, Holding, Goto
  <2> QED BY <2>4, <2>5, <2>6
<1> QED BY <1>1, <1>2, <1>3

\* The copy of the file behind the pointer, whose file was long enough.
LEMMA FillInvariant ==
    ASSUME IInv, NEW d \in Process, Fill(d)
    PROVE  IInv'
<1> USE DEF IInv, request, pool, holding
<1>0. raw[d] \in {0, raw[d]} /\ fd[d] \in BOOLEAN
  BY DEF TypeOK
<1>1. CASE \E kind \in Errors : Fail(d, kind) \/ FillFailed(d, kind)
  BY <1>0, <1>1, FailInvariant DEF Fail, FillFailed, FailUnmapped
<1>2. CASE ~\E kind \in Errors : Fail(d, kind) \/ FillFailed(d, kind)
  <2>1. /\ pc[d] = "Fill" /\ Goto(d, "Zstd") /\ disk \in Sizes /\ ~(disk < len[d])
        /\ filled' = [filled EXCEPT ![d] = IF disk < len[d] THEN disk ELSE len[d]]
        /\ UNCHANGED <<disk, pool, request, len, holding, err>>
    BY <1>2 DEF Fill, NotOpened, Short, TypeOK, Errors
  <2>2. filled' = [filled EXCEPT ![d] = len[d]]
    BY <2>1
  <2>3. owned[d] = 0 /\ ~src[d] /\ len[d] <= raw[d] * Huge /\ raw[d] \in Nat
    BY <2>1 DEF TypeOK, Holding
  <2>4. TypeOK'
    BY <2>1, <2>2 DEF TypeOK, Goto, Labels
  <2>5. SliceIsBacked'
    BY <2>1, <2>2, <2>3 DEF TypeOK, SliceIsBacked, Goto
  <2>6. \A e \in Process : Holding(e)'
    BY <2>1, <2>2 DEF TypeOK, Holding, Goto
  <2> QED BY <2>4, <2>5, <2>6
<1> QED BY <1>1, <1>2

\* The mapping of the source of a streaming decoder.
LEMMA MapSourceInvariant ==
    ASSUME IInv, NEW d \in Process, MapSource(d)
    PROVE  IInv'
<1> USE DEF IInv, request, pool
<1>0. raw[d] \in {0, raw[d]} /\ fd[d] \in BOOLEAN
  BY DEF TypeOK
<1>1. CASE \E kind \in Errors : Fail(d, kind)
  BY <1>0, <1>1, FailInvariant DEF Fail
<1>2. CASE ~\E kind \in Errors : Fail(d, kind)
  <2>1. /\ pc[d] = "MapSource" /\ Goto(d, "Advise") /\ disk \in Sizes
        /\ len' = [len EXCEPT ![d] = disk]
        /\ src' = [src EXCEPT ![d] = TRUE]
        /\ UNCHANGED <<disk, pool, request, filled, raw, owned, fd, err>>
    BY <1>2 DEF MapSource, NotOpened, TypeOK, Errors
  <2>2. TypeOK'
    BY <2>1 DEF TypeOK, Goto, Labels
  <2>3. SliceIsBacked'
    BY <2>1 DEF TypeOK, SliceIsBacked, Goto
  <2>4. \A e \in Process : Holding(e)'
    BY <2>1 DEF TypeOK, Holding, Goto
  <2> QED BY <2>2, <2>3, <2>4
<1> QED BY <1>1, <1>2

\* A value takes the pages over, and later gives them back.
LEMMA OwnInvariant ==
    ASSUME IInv, NEW d \in Process, NewZstd(d) \/ Drop(d)
    PROVE  IInv'
<1> USE DEF IInv, request, pool
<1>0. raw[d] \in {0, raw[d]} /\ raw[d] \in Nat /\ owned[d] \in Nat /\ fd[d] \in BOOLEAN
  BY DEF TypeOK
<1>1. CASE Fail(d, "Zstd")
  BY <1>0, <1>1, FailInvariant DEF Errors, Fail
<1>2. CASE NewZstd(d) /\ ~Fail(d, "Zstd")
  <2>1. /\ pc[d] = "Zstd" /\ Goto(d, "Ready")
        /\ owned' = [owned EXCEPT ![d] = owned[d] + raw[d]]
        /\ raw' = [raw EXCEPT ![d] = 0]
        /\ UNCHANGED <<disk, pool, request, len, filled, fd, src, err>>
    BY <1>2 DEF NewZstd
  <2>2. TypeOK'
    BY <1>0, <2>1 DEF TypeOK, Goto, Labels
  <2>3. raw'[d] + owned'[d] = raw[d] + owned[d]
    BY <1>0, <2>1 DEF TypeOK
  <2>4. SliceIsBacked'
    BY <2>1, <2>3 DEF TypeOK, SliceIsBacked, Goto
  <2>5. \A e \in Process : Holding(e)'
    BY <1>0, <2>1 DEF TypeOK, Holding, Goto
  <2> QED BY <2>2, <2>4, <2>5
<1>3. CASE Drop(d)
  <2>1. TypeOK'
    BY <1>0, <1>3 DEF TypeOK, Drop, Released, Goto, Labels
  <2>2. SliceIsBacked'
    BY <1>3 DEF TypeOK, SliceIsBacked, Drop, Goto
  <2>3. \A e \in Process : Holding(e)'
    BY <1>0, <1>3 DEF TypeOK, Holding, Drop, Goto
  <2> QED BY <2>1, <2>2, <2>3
<1> QED BY <1>1, <1>2, <1>3

\* What other programs do to the file changes nothing a process holds.
LEMMA DiskInvariant ==
    ASSUME IInv, (\E n \in Sizes : Resize(n)) \/ Remove \/ UNCHANGED vars
    PROVE  IInv'
<1> USE DEF IInv, Resize, Remove, vars, pool, request, holding
<1>1. TypeOK'
  BY DEF TypeOK
<1>2. SliceIsBacked' /\ \A d \in Process : Holding(d)'
  BY DEF SliceIsBacked, Holding
<1> QED BY <1>1, <1>2

\* Every step of a process keeps the invariant.
LEMMA ProcessInvariant ==
    ASSUME IInv, NEW d \in Process,
           Step(d) \/ Drop(d) \/ (\E w \in Windows \cup {0} : Call(d, w))
    PROVE  IInv'
  BY CallInvariant, LightStepInvariant, MapStepInvariant, FillInvariant,
     MapSourceInvariant, OwnInvariant
  DEF Step

LEMMA StepInvariant == IInv /\ [Next]_vars => IInv'
  BY ProcessInvariant, DiskInvariant DEF Next

\* The inductive invariant holds throughout.
THEOREM Invariance == Spec => []IInv
  BY InitInvariant, StepInvariant, PTL DEF Spec

\* The slice a decoder is given fits its mapping, for every length a usize
\* has, and every byte of it came from the file.
THEOREM SliceBacked == Spec => []SliceIsBacked
<1>1. IInv => SliceIsBacked
  BY DEF IInv
<1> QED BY <1>1, Invariance, PTL

-----------------------------------------------------------------------------
\* Of all exits, only those that hold pages behind a raw pointer lose them.
THEOREM OnlyRawIsLost == Spec => LosesOnlyRaw
<1> DEFINE Loses(d) == /\ leaked' = leaked + raw[d]
                       /\ \/ pc[d] = "Zstd"
                          \/ pc[d] = "Fill" /\ err'[d] \in {"NotFound", "Denied"}
<1>1. IInv /\ [Next]_vars =>
         [leaked' > leaked => \E d \in Process : Loses(d)]_vars
  <2> SUFFICES ASSUME IInv, [Next]_vars, leaked' > leaked
               PROVE  \E d \in Process : Loses(d)
    OBVIOUS
  <2>1. PICK d \in Process : Step(d)
    <3>1. CASE \E d \in Process, w \in Windows : Call(d, w)
      BY <3>1 DEF Call, pool, IInv, TypeOK
    <3>2. CASE \/ \E d \in Process : Drop(d)
               \/ \E n \in Sizes : Resize(n)
               \/ Remove \/ UNCHANGED vars
      BY <3>2 DEF Drop, Resize, Remove, vars, pool, IInv, TypeOK
    <3> QED BY <3>1, <3>2 DEF Next
  <2>2. \/ \E kind \in Errors : Fail(d, kind) \/ FailClosed(d, kind)
        \/ \E kind : FillFailed(d, kind)
    BY <2>1
    DEF Step, Load, MapAnon, Stat, Create, Extend, ExtendFailed, MapFd, Fill,
        Window, StatWindow, MapScratch, MapSource, Advise, NewZstd, NotOpened,
        pool, IInv, TypeOK, Errors
  <2>3. leaked' = leaked + raw[d] /\ \A kind : ~FillFailed(d, kind)
    BY <2>2 DEF Fail, FailClosed, FillFailed, FailUnmapped, FailHolding, IInv, TypeOK
  <2>4. pc[d] \in {"Fill", "Zstd"}
    BY <2>3 DEF IInv, TypeOK, Holding
  <2>5. pc[d] = "Fill" => err'[d] \in {"NotFound", "Denied"}
    <3> SUFFICES ASSUME pc[d] = "Fill"
                 PROVE  err'[d] \in {"NotFound", "Denied"}
      OBVIOUS
    <3>1. Fill(d)
      BY <2>1
      DEF Step, Load, MapAnon, Stat, Create, Extend, MapFd, Window,
          StatWindow, MapScratch, MapSource, Advise, NewZstd
    <3>2. Fail(d, "NotFound") \/ Fail(d, "Denied")
      BY <2>3, <3>1 DEF Fill, NotOpened, pool, IInv, TypeOK
    <3> QED BY <3>2 DEF Fail, FailHolding, IInv, TypeOK
  <2> QED BY <2>3, <2>4, <2>5
<1> QED BY <1>1, Invariance, PTL DEF Spec, LosesOnlyRaw

-----------------------------------------------------------------------------
\* What a step of d moves between the pool, its own pages and the lost ones
\* adds up, no other process's pages change, a lost page stays lost, and no
\* descriptor is lost.
Balanced(d) ==
    /\ free' + leaked' + raw'[d] + owned'[d] = free + leaked + raw[d] + owned[d]
    /\ \A e \in Process \ {d} : raw'[e] = raw[e] /\ owned'[e] = owned[e]
    /\ leaked' >= leaked
    /\ lostFd' = lostFd

\* An error gives back or loses what was held; the descriptor is not open.
LEMMA FailBalance ==
    ASSUME IInv, NEW d \in Process, NEW kind, NEW r \in {0, raw[d]},
           FailHolding(d, kind, r, FALSE)
    PROVE  Balanced(d)
  BY DEF FailHolding, Balanced, IInv, TypeOK

\* Every step of a process is balanced.
LEMMA StepBalance ==
    ASSUME IInv, NEW d \in Process,
           Step(d) \/ Drop(d) \/ (\E w \in Windows \cup {0} : Call(d, w))
    PROVE  Balanced(d)
<1>1. ASSUME NEW kind,
             \/ ~fd[d] /\ (Fail(d, kind) \/ FailUnmapped(d, kind))
             \/ FailClosed(d, kind)
      PROVE  Balanced(d)
  <2>1. fd[d] \in BOOLEAN
    BY DEF IInv, TypeOK
  <2> QED BY <1>1, <2>1, FailBalance DEF Fail, FailUnmapped, FailClosed
<1>2. pc[d] \notin {"Extend", "MapFd"} => ~fd[d]
  BY DEF IInv, Holding
<1>3. CASE \/ Load(d) \/ Stat(d) \/ Create(d) \/ Window(d) \/ StatWindow(d)
           \/ Fill(d) \/ MapSource(d) \/ Advise(d) \/ Extend(d)
           \/ \E w \in Windows \cup {0} : Call(d, w)
  <2>1. \/ \E kind : \/ ~fd[d] /\ (Fail(d, kind) \/ FailUnmapped(d, kind))
                     \/ FailClosed(d, kind)
        \/ UNCHANGED <<free, leaked, lostFd, raw, owned>>
    BY <1>2, <1>3
    DEF Load, Stat, Create, Window, StatWindow, Fill, FillFailed, MapSource,
        Advise, Extend, ExtendFailed, NotOpened, Call, pool, holding
  <2>2. leaked \in Nat
    BY DEF IInv, TypeOK
  <2> QED BY <1>1, <2>1, <2>2 DEF Balanced
<1>4. CASE MapAnon(d) \/ MapFd(d) \/ MapScratch(d)
  <2>1. /\ PagesFor(len[d]) \in Nat /\ PagesFor(window[d]) \in Nat
        /\ free \in Nat /\ leaked \in Nat
        /\ raw \in [Process -> Nat] /\ owned \in [Process -> Nat]
    BY Lengths, RoundUpFacts DEF IInv, TypeOK
  <2>2. CASE \E kind : \/ ~fd[d] /\ Fail(d, kind)
                       \/ FailClosed(d, kind)
    BY <1>1, <2>2
  <2>3. CASE /\ MapAnon(d) \/ MapFd(d)
             /\ free' = free - PagesFor(len[d])
             /\ raw' = [raw EXCEPT ![d] = PagesFor(len[d])]
             /\ UNCHANGED <<leaked, lostFd, owned>>
    <3>1. raw[d] = 0
      BY <2>3 DEF MapAnon, MapFd, IInv, Holding, TypeOK
    <3> QED BY <2>1, <2>3, <3>1 DEF Balanced
  <2>4. CASE /\ MapScratch(d)
             /\ free' = free - PagesFor(window[d])
             /\ owned' = [owned EXCEPT ![d] = PagesFor(window[d])]
             /\ UNCHANGED <<leaked, lostFd, raw>>
    <3>1. owned[d] = 0
      BY <2>4 DEF MapScratch, IInv, Holding, TypeOK
    <3> QED BY <2>1, <2>4, <3>1 DEF Balanced
  <2> QED BY <1>2, <1>4, <2>2, <2>3, <2>4 DEF MapAnon, MapFd, MapScratch
<1>5. CASE NewZstd(d) \/ Drop(d)
  <2>1. CASE \E kind : ~fd[d] /\ Fail(d, kind)
    BY <1>1, <2>1
  <2>2. CASE /\ owned' = [owned EXCEPT ![d] = owned[d] + raw[d]]
             /\ raw' = [raw EXCEPT ![d] = 0]
             /\ UNCHANGED <<free, leaked, lostFd>>
    BY <2>2 DEF Balanced, IInv, TypeOK
  <2>3. CASE Drop(d)
    BY <2>3 DEF Drop, Released, Balanced, IInv, TypeOK
  <2> QED BY <1>2, <1>5, <2>1, <2>2, <2>3 DEF NewZstd, pool
<1> QED BY <1>3, <1>4, <1>5 DEF Step

\* Nobody else moves pages.
LEMMA DiskBalance ==
    ASSUME (\E n \in Sizes : Resize(n)) \/ Remove \/ UNCHANGED vars
    PROVE  UNCHANGED <<free, leaked, lostFd, raw, owned>>
  BY DEF Resize, Remove, vars, pool, holding

\* The sum over the processes follows the one that moves.
LEMMA InUseFollows ==
    ASSUME TypeOK, TypeOK', NEW d \in Process, Balanced(d)
    PROVE  /\ InUse' + raw[d] + owned[d] = InUse + raw'[d] + owned'[d]
           /\ InUse \in Nat /\ InUse' \in Nat
<1>1. /\ \A e \in Process : Held[e] \in Nat /\ Held'[e] \in Nat
      /\ \A e \in Process : e # d => Held'[e] = Held[e]
      /\ Held[d] = raw[d] + owned[d] /\ Held'[d] = raw'[d] + owned'[d]
  BY DEF TypeOK, Balanced, Held
<1>2. /\ InUse = SumFunctionOnSet(Held, Process)
      /\ InUse' = SumFunctionOnSet(Held', Process)
  BY DEF InUse
<1> HIDE DEF Held
<1>3. /\ SumFunctionOnSet(Held', Process) + Held[d]
            = SumFunctionOnSet(Held, Process) + Held'[d]
      /\ SumFunctionOnSet(Held, Process) \in Nat
      /\ SumFunctionOnSet(Held', Process) \in Nat
  BY <1>1, ProcessAssumption, SumChange, SumNat
<1>4. raw[d] \in Nat /\ owned[d] \in Nat /\ raw'[d] \in Nat /\ owned'[d] \in Nat
  BY DEF TypeOK
<1> HIDE DEF InUse
<1> QED BY <1>1, <1>2, <1>3, <1>4

\* At first the whole pool is free.
LEMMA InitConserved == Init => PoolConserved
<1> SUFFICES ASSUME Init PROVE PoolConserved
  OBVIOUS
<1>1. \A d \in Process : Held[d] = 0
  BY DEF Init, Held
<1>2. InUse = 0
  BY <1>1, ProcessAssumption, SumZero DEF InUse
<1> QED BY <1>2, SizesAssumption DEF Init, PoolConserved

\* A huge page is free, mapped by one of the processes, or leaked, and no
\* step creates or loses one; no descriptor stays open.
THEOREM Conserved == Spec => []PoolConserved
<1>1. IInv /\ IInv' /\ PoolConserved /\ [Next]_vars => PoolConserved'
  <2> SUFFICES ASSUME IInv, IInv', PoolConserved, [Next]_vars
               PROVE  PoolConserved'
    OBVIOUS
  <2>1. CASE \E d \in Process :
                Step(d) \/ Drop(d) \/ \E w \in Windows : Call(d, w)
    <3>1. PICK d \in Process : Balanced(d)
      BY <2>1, StepBalance
    <3>2. /\ InUse' + raw[d] + owned[d] = InUse + raw'[d] + owned'[d]
          /\ InUse \in Nat /\ InUse' \in Nat
      BY <3>1, InUseFollows DEF IInv
    <3>3. /\ free \in Nat /\ leaked \in Nat /\ free' \in Nat /\ leaked' \in Nat
          /\ raw[d] \in Nat /\ owned[d] \in Nat
          /\ raw'[d] \in Nat /\ owned'[d] \in Nat
      BY DEF IInv, TypeOK
    <3>4. /\ free' + leaked' + raw'[d] + owned'[d]
                = free + leaked + raw[d] + owned[d]
          /\ lostFd' = lostFd
      BY <3>1 DEF Balanced
    <3>5. free' + InUse' + leaked' = free + InUse + leaked
      <4> DEFINE f == free'
                 s == InUse'
                 l == leaked'
                 a == raw[d] + owned[d]
                 b == raw'[d] + owned'[d]
      <4>1. /\ f \in Nat /\ s \in Nat /\ l \in Nat /\ a \in Nat /\ b \in Nat
            /\ s + a = InUse + b /\ f + l + b = free + leaked + a
        BY <3>2, <3>3, <3>4
      <4>2. SUFFICES f + s + l = free + InUse + leaked
        OBVIOUS
      <4> HIDE DEF f, s, l, a, b
      <4> QED BY <3>2, <3>3, <4>1
    <3> QED BY <3>4, <3>5 DEF PoolConserved
  <2>2. CASE (\E n \in Sizes : Resize(n)) \/ Remove \/ UNCHANGED vars
    BY <2>2, DiskBalance DEF PoolConserved, InUse, Held
  <2> QED BY <2>1, <2>2 DEF Next
<1> QED BY <1>1, InitConserved, Invariance, PTL DEF Spec

\* Where nothing is raw, an error loses nothing.
LEMMA NothingLost ==
    ASSUME IInv, Opened, Opened', NEW d \in Process, Step(d)
    PROVE  leaked' = leaked
<1>1. /\ leaked \in Nat /\ raw[d] \in Nat
      /\ pc[d] \notin {"Fill", "Zstd"} => raw[d] = 0
  BY DEF IInv, TypeOK, Holding
<1>2. \/ \E kind : /\ pc[d] \notin {"Fill", "Zstd"}
                   /\ Fail(d, kind) \/ FailClosed(d, kind)
      \/ \E kind : FillFailed(d, kind)
      \/ Fail(d, "Denied") \/ Fail(d, "Zstd")
      \/ UNCHANGED leaked
  BY DEF Step, Load, MapAnon, Stat, Create, Extend, ExtendFailed, MapFd, Fill,
         Window, StatWindow, MapScratch, MapSource, Advise, NewZstd, NotOpened,
         pool, Opened
<1>3. ~Fail(d, "Denied") /\ ~Fail(d, "Zstd")
  BY DEF Fail, FailHolding, Opened, IInv, TypeOK
<1> QED
  BY <1>1, <1>2, <1>3
  DEF Fail, FailClosed, FillFailed, FailUnmapped, FailHolding

\* With nobody inside a constructor and no decoder alive, the pool is whole
\* again, whatever else fails and whatever is done to the file, provided that
\* the file can be opened when its pages are to be filled and that zstd
\* contexts can be made: only the two exits that lose raw pages keep it from
\* being so.
THEOREM Restored == Spec => RestoredIfOpened
<1> DEFINE Kept == leaked = 0
<1>1. Init => Kept
  BY DEF Init
<1>2. IInv /\ Opened /\ Opened' /\ Kept /\ [Next]_vars => Kept'
  <2> SUFFICES ASSUME IInv, Opened, Opened', Kept, [Next]_vars PROVE Kept'
    OBVIOUS
  <2>1. CASE \E d \in Process : Step(d)
    BY <2>1, NothingLost
  <2>2. CASE \/ \E d \in Process : Drop(d)
             \/ \E d \in Process, w \in Windows : Call(d, w)
             \/ (\E n \in Sizes : Resize(n)) \/ Remove \/ UNCHANGED vars
    BY <2>2 DEF Drop, Call, Resize, Remove, vars, pool
  <2> QED BY <2>1, <2>2 DEF Next
<1>3. IInv /\ PoolConserved /\ Kept => PoolRestored
  <2> SUFFICES ASSUME IInv, PoolConserved, leaked = 0,
                      \A d \in Process : pc[d] = "Idle"
               PROVE  free = PoolSize /\ ~lostFd
    BY DEF PoolRestored
  <2>1. \A d \in Process : Held[d] = 0
    BY DEF IInv, TypeOK, Holding, Held
  <2>2. InUse = 0
    BY <2>1, ProcessAssumption, SumZero DEF InUse
  <2> QED BY <2>2 DEF PoolConserved, IInv, TypeOK
<1> HIDE DEF Kept
<1> QED
  BY <1>1, <1>2, <1>3, Invariance, Conserved, PTL DEF Spec, RestoredIfOpened

-----------------------------------------------------------------------------
\* A step of one process leaves the others where they are.
LEMMA OthersStand ==
    ASSUME IInv, NEW e \in Process, NEW d \in Process \ {e},
           Step(d) \/ Drop(d) \/ (\E w \in Windows \cup {0} : Call(d, w))
    PROVE  /\ pc'[e] = pc[e] /\ window'[e] = window[e] /\ len'[e] = len[e]
           /\ raw'[e] = raw[e] /\ owned'[e] = owned[e] /\ err'[e] = err[e]
           /\ mode' = mode /\ disk' = disk
<1>1. CASE \E w \in Windows \cup {0} : Call(d, w)
  <2>1. PICK label : pc' = [pc EXCEPT ![d] = label]
    BY <1>1, CallBegins
  <2> QED BY <1>1, <2>1 DEF Call, IInv, TypeOK
<1>2. CASE \E kind, r, f : FailHolding(d, kind, r, f)
  BY <1>2 DEF FailHolding, Goto, request, IInv, TypeOK
<1>3. CASE /\ ~\E kind, r, f : FailHolding(d, kind, r, f)
           /\ Step(d) \/ Drop(d)
  BY <1>3
  DEF Step, Drop, Load, MapAnon, Stat, Create, Extend, ExtendFailed,
      MapFd, Fill, FillFailed, Window, StatWindow, MapScratch, MapSource,
      Advise, NewZstd, NotOpened, Fail, FailClosed, FailUnmapped, Goto,
      request, holding, IInv, TypeOK
<1> QED BY <1>1, <1>2, <1>3

\* A window that passed the check is no shorter than a huge page.
WindowChecked(d) == pc[d] \in {"StatWindow", "MapScratch"} => window[d] >= Huge

LEMMA WindowCheckedKept ==
    ASSUME IInv, [Next]_vars, \A d \in Process : WindowChecked(d)
    PROVE  \A d \in Process : WindowChecked(d)'
<1> SUFFICES ASSUME NEW e \in Process PROVE WindowChecked(e)'
  OBVIOUS
<1>0. WindowChecked(e)
  OBVIOUS
<1>1. CASE \/ \E d \in Process \ {e} :
                  Step(d) \/ Drop(d) \/ \E w \in Windows : Call(d, w)
           \/ (\E n \in Sizes : Resize(n)) \/ Remove \/ UNCHANGED vars
  <2>1. pc'[e] = pc[e] /\ len'[e] = len[e] /\ window'[e] = window[e]
    BY <1>1, OthersStand DEF Resize, Remove, vars, request
  <2> QED BY <1>0, <2>1 DEF WindowChecked
<1>2. CASE \/ Drop(e) \/ \E kind, r, f : FailHolding(e, kind, r, f)
           \/ \E w \in Windows : Call(e, w)
  <2>1. pc'[e] \in {"Idle", "Load", "Stat", "Window", "Advise", "Zstd"}
    <3>1. CASE \E w \in Windows : Call(e, w)
      <4>1. PICK label \in {"Load", "Stat", "Window", "Advise", "Zstd"} :
               pc' = [pc EXCEPT ![e] = label]
        BY <3>1, CallBegins
      <4> QED BY <4>1 DEF IInv, TypeOK
    <3>2. CASE Drop(e) \/ \E kind, r, f : FailHolding(e, kind, r, f)
      BY <3>2 DEF Drop, FailHolding, Goto, IInv, TypeOK
    <3> QED BY <1>2, <3>1, <3>2
  <2> QED BY <2>1 DEF WindowChecked
<1>3. CASE Step(e) /\ ~\E kind, r, f : FailHolding(e, kind, r, f)
  BY <1>0, <1>3
  DEF WindowChecked, Step, Load, MapAnon, Stat, Create, Extend, ExtendFailed,
      MapFd, Fill, FillFailed, Window, StatWindow, MapScratch, MapSource,
      Advise, NewZstd, NotOpened, Fail, FailClosed, FailUnmapped, Goto, request,
      holding, IInv, TypeOK
<1> QED BY <1>1, <1>2, <1>3 DEF Next

\* A length above zero that cannot be mapped, although the pool is smaller
\* than the address space, needs more pages than are free: either it needs
\* what the rounding says, or the rounding wrapped.
LEMMA ScarceFor ==
    ASSUME NEW x \in 0..(Limit - 1), x > 0, free \in 0..PoolSize,
           PoolSize * Huge < Limit, ~CanMap(PagesFor(x))
    PROVE  (x + Huge - 1) \div Huge > free
<1> DEFINE z == x + Huge - 1
           q == z \div Huge
<1>1. /\ Limit \in Nat \ {0} /\ Huge \in Nat \ {0, 1} /\ PoolSize \in Nat
      /\ Limit % Huge = 0
  BY SizesAssumption DEF Limit
<1> HIDE DEF Limit
<1>2. z \in Nat /\ z >= Huge
  BY <1>1
<1> HIDE DEF z
<1>3. q \in Nat /\ z = Huge * q + (z % Huge) /\ z % Huge \in 0..(Huge - 1)
  BY <1>1, <1>2, DivMod
<1>4. q > 0
  <2>1. q = 0 => Huge * q = 0
    BY <1>1, SMT
  <2> QED BY <1>1, <1>2, <1>3, <2>1
<1> HIDE DEF q
<1>5. CASE z < Limit
  <2>1. z % Limit = z
    BY <1>1, <1>2, <1>5, SMT
  <2>2. RoundUp(x) = z - (z % Huge)
    BY <2>1 DEF RoundUp, z
  <2>3. Huge * q \in Nat
    BY <1>1, <1>3, SMT
  <2>4. RoundUp(x) = Huge * q
    BY <1>1, <1>2, <1>3, <2>2, <2>3
  <2>5. PagesFor(x) = q
    BY <1>1, <1>3, <2>4, DivTimes DEF PagesFor
  <2> QED BY <1>1, <1>3, <1>4, <2>5 DEF CanMap, q, z
<1>6. CASE z >= Limit
  <2>1. SUFFICES ASSUME q <= PoolSize PROVE FALSE
    BY <1>1, <1>3 DEF q, z
  <2>2. Huge * q <= Huge * PoolSize /\ Huge * PoolSize = PoolSize * Huge
    BY <1>1, <1>3, <2>1, SMT
  <2>3. Huge * q \in Nat /\ PoolSize * Huge \in Nat
    BY <1>1, <1>3, SMT
  <2> DEFINE k == Limit \div Huge
  <2>4. k \in Nat /\ Limit = Huge * k
    <3>1. k \in Nat /\ Limit = Huge * k + (Limit % Huge)
      BY <1>1, DivMod
    <3> HIDE DEF k
    <3>2. Huge * k \in Nat
      BY <1>1, <3>1, SMT
    <3> QED BY <1>1, <3>1, <3>2
  <2> HIDE DEF k
  <2>5. k <= q
    <3>1. SUFFICES ASSUME q + 1 <= k PROVE FALSE
      BY <1>3, <2>4
    <3>2. Huge * (q + 1) <= Huge * k /\ Huge * (q + 1) = Huge * q + Huge
      BY <1>1, <1>3, <2>4, <3>1, SMT
    <3> QED BY <1>1, <1>2, <1>3, <1>6, <2>3, <2>4, <3>2
  <2>6. Huge * k <= Huge * q
    BY <1>1, <1>3, <2>4, <2>5, SMT
  <2> QED BY <1>1, <2>2, <2>3, <2>4, <2>6
<1> QED BY <1>1, <1>2, <1>5, <1>6

\* OutOfMemory is returned only when the pool has fewer free pages than the
\* file or the window needs, or for an empty file, or by memfd_create itself,
\* provided that the pool is smaller than the address space.
THEOREM OomJustified ==
    ASSUME PoolSize * Huge < Limit
    PROVE  Spec => OomMeansScarce
<1> DEFINE Checked == \A d \in Process : WindowChecked(d)
           Justified(d) == err[d] = "none" /\ err'[d] = "OutOfMemory" =>
                               Needed(d) > free \/ IsEmpty(d) \/ pc[d] = "Create"
<1>1. Init => Checked
  BY DEF Init, WindowChecked
<1>2. IInv /\ Checked /\ [Next]_vars => Checked'
  BY WindowCheckedKept
<1>3. IInv /\ Checked /\ PoolConserved /\ [Next]_vars =>
         [\A d \in Process : Justified(d)]_vars
  <2> SUFFICES ASSUME IInv, Checked, PoolConserved, [Next]_vars,
                      NEW d \in Process,
                      err[d] = "none", err'[d] = "OutOfMemory"
               PROVE  Needed(d) > free \/ IsEmpty(d) \/ pc[d] = "Create"
    OBVIOUS
  <2>1. WindowChecked(d)
    OBVIOUS
  <2> HIDE DEF Checked
  <2>2. Step(d)
    <3>1. CASE \/ \E e \in Process \ {d} :
                      Step(e) \/ Drop(e) \/ \E w \in Windows : Call(e, w)
               \/ (\E n \in Sizes : Resize(n)) \/ Remove \/ UNCHANGED vars
      <4>1. err'[d] = err[d]
        BY <3>1, OthersStand DEF Resize, Remove, vars
      <4> QED BY <4>1
    <3>2. CASE Drop(d) \/ \E w \in Windows : Call(d, w)
      BY <3>2 DEF Drop, Call, IInv, TypeOK
    <3> QED BY <3>1, <3>2 DEF Next
  <2>3. free \in 0..PoolSize
    <3>1. \A e \in Process : Held[e] \in Nat
      BY DEF Held, IInv, TypeOK
    <3>2. InUse \in Nat
      BY <3>1, ProcessAssumption, SumNat DEF InUse
    <3> QED BY <3>2, SizesAssumption DEF PoolConserved, IInv, TypeOK
  <2>4. CASE pc[d] \in {"MapAnon", "MapFd"} /\ ~IsEmpty(d)
    <3>1. ~CanMap(PagesFor(len[d]))
      BY <2>2, <2>4
      DEF Step, Load, MapAnon, Stat, Create, Extend, MapFd, Fill, Window,
          StatWindow, MapScratch, MapSource, Advise, NewZstd
    <3>2. len[d] \in 0..(Limit - 1) /\ len[d] > 0
      <4>1. len[d] # 0
        BY <2>4 DEF IsEmpty
      <4> QED BY <4>1, Lengths
    <3>3. (len[d] + Huge - 1) \div Huge > free
      BY <2>3, <3>1, <3>2, ScarceFor
    <3> QED BY <2>4, <3>3 DEF Needed
  <2>5. CASE pc[d] = "MapScratch"
    <3>1. ~CanMap(PagesFor(window[d]))
      BY <2>2, <2>5
      DEF Step, Load, MapAnon, Stat, Create, Extend, MapFd, Fill, Window,
          StatWindow, MapScratch, MapSource, Advise, NewZstd
    <3>2. window[d] \in 0..(Limit - 1) /\ window[d] > 0
      BY <2>1, <2>5, Lengths, SizesAssumption DEF WindowChecked
    <3>3. (window[d] + Huge - 1) \div Huge > free
      BY <2>3, <3>1, <3>2, ScarceFor
    <3> QED BY <2>5, <3>3 DEF Needed
  <2>6. CASE pc[d] \notin {"MapAnon", "MapFd", "MapScratch", "Create"}
    <3>1. \/ \E kind \in Errors \ {"OutOfMemory"} :
                Fail(d, kind) \/ FailClosed(d, kind) \/ FailUnmapped(d, kind)
          \/ UNCHANGED err
      BY <2>2, <2>6
      DEF Step, Load, MapAnon, Stat, Create, Extend, ExtendFailed, MapFd, Fill,
          FillFailed, Window, StatWindow, MapScratch, MapSource, Advise,
          NewZstd, NotOpened, Errors
    <3>2. err'[d] # "OutOfMemory"
      BY <3>1
      DEF Fail, FailClosed, FailUnmapped, FailHolding, Errors, IInv, TypeOK
    <3> QED BY <3>2
  <2> QED BY <2>4, <2>5, <2>6
<1> HIDE DEF Checked
<1> QED BY <1>1, <1>2, <1>3, Invariance, Conserved, PTL DEF Spec, OomMeansScarce

-----------------------------------------------------------------------------
\* A scratch is mapped only for a file larger than the window that was asked
\* for, provided that no window is so large that rounding it up wraps.
THEOREM Delegates ==
    ASSUME \A w \in Windows : w + Huge <= Limit
    PROVE  Spec => []DelegatesWhenCovered
<1>1. Init => DelegatesWhenCovered
  BY DEF Init, DelegatesWhenCovered
<1>2. IInv /\ DelegatesWhenCovered /\ [Next]_vars => DelegatesWhenCovered'
  <2> SUFFICES ASSUME IInv, DelegatesWhenCovered, [Next]_vars,
                      NEW e \in Process, pc'[e] = "MapScratch"
               PROVE  window'[e] < len'[e]
    BY DEF DelegatesWhenCovered
  <2>1. CASE StatWindow(e)
    <3>1. /\ disk # Absent /\ ~Covers(e, disk)
          /\ len' = [len EXCEPT ![e] = disk] /\ window' = window
      BY <2>1
      DEF StatWindow, NotOpened, Fail, FailHolding, Goto, request, IInv, TypeOK
    <3>2. window[e] \in Windows \cup {0} /\ len'[e] = disk
      BY <3>1 DEF IInv, TypeOK
    <3>3. window[e] <= RoundUp(window[e]) /\ RoundUp(window[e]) \in Nat
      <4>1. window[e] \in 0..(Limit - 1)
        BY Lengths
      <4>2. /\ PagesFor(window[e]) \in Nat
            /\ RoundUp(window[e]) = Huge * PagesFor(window[e])
            /\ window[e] + Huge <= Limit => window[e] <= RoundUp(window[e])
        BY <4>1, RoundUpFacts
      <4> DEFINE n == PagesFor(window[e])
      <4>3. Huge * n \in Nat
        <5>1. n \in Nat
          BY <4>2
        <5> HIDE DEF n
        <5> QED BY <5>1, SizesAssumption, SMT
      <4> QED BY <3>2, <4>2, <4>3
    <3>4. disk \in Nat /\ window[e] \in Nat
      <4>1. disk \in 0..(Limit - 1) /\ window[e] \in 0..(Limit - 1)
        BY <3>1, Lengths
      <4> QED BY <4>1
    <3>5. RoundUp(window[e]) < disk
      BY <3>1, <3>3, <3>4 DEF Covers
    <3> QED BY <3>1, <3>2, <3>3, <3>4, <3>5
  <2>2. CASE ~StatWindow(e)
    <3>1. pc[e] = "MapScratch" /\ window'[e] = window[e] /\ len'[e] = len[e]
      <4>1. CASE \E d \in Process, w \in Windows : Call(d, w)
        <5>1. PICK d \in Process, w \in Windows : Call(d, w)
          BY <4>1
        <5>2. mode[d] \in {"anon", "memfd", "streaming", "mmap", "slice"}
          BY EnvironmentAssumption DEF IInv, TypeOK, Mode
        <5> QED BY <5>1, <5>2 DEF Call, Goto, IInv, TypeOK
      <4>2. CASE \E d \in Process : Drop(d)
        BY <4>2 DEF Drop, Goto, request, IInv, TypeOK
      <4>3. CASE (\E n \in Sizes : Resize(n)) \/ Remove \/ UNCHANGED vars
        BY <4>3 DEF Resize, Remove, vars, request
      <4>4. ASSUME NEW d \in Process, NEW kind, NEW r, NEW f,
                   FailHolding(d, kind, r, f)
            PROVE  pc[e] = "MapScratch" /\ window'[e] = window[e] /\ len'[e] = len[e]
        BY <4>4 DEF FailHolding, Goto, request, IInv, TypeOK
      <4>5. CASE \E d \in Process : Step(d)
        <5>1. PICK d \in Process : Step(d)
          BY <4>5
        <5>2. CASE \E kind \in Errors :
                      Fail(d, kind) \/ FailClosed(d, kind) \/ FailUnmapped(d, kind)
          BY <4>4, <5>2 DEF Fail, FailClosed, FailUnmapped
        <5>3. CASE ~\E kind \in Errors :
                      Fail(d, kind) \/ FailClosed(d, kind) \/ FailUnmapped(d, kind)
          BY <2>2, <5>1, <5>3
          DEF Step, Load, MapAnon, Stat, Create, Extend, ExtendFailed, MapFd,
              Fill, FillFailed, Window, StatWindow, MapScratch, MapSource,
              Advise, NewZstd, NotOpened, Goto, request, IInv, TypeOK, Errors
        <5> QED BY <5>2, <5>3
      <4> QED BY <4>1, <4>2, <4>3, <4>5 DEF Next
    <3> QED BY <3>1 DEF DelegatesWhenCovered
  <2> QED BY <2>1, <2>2
<1> QED BY <1>1, <1>2, Invariance, PTL DEF Spec

-----------------------------------------------------------------------------
\* A file no longer than the rounded window takes no more pages than it.
LEMMA FewerPages ==
    ASSUME NEW x \in 0..(Limit - 1), NEW w \in 0..(Limit - 1), x <= RoundUp(w)
    PROVE  PagesFor(x) <= PagesFor(w)
<1> DEFINE m == PagesFor(x)
           n == PagesFor(w)
<1>1. /\ m \in Nat /\ RoundUp(x) = Huge * m
      /\ m > 0 => RoundUp(x) <= x + (Huge - 1)
      /\ n \in Nat /\ RoundUp(w) = Huge * n
  BY RoundUpFacts
<1> HIDE DEF m, n
<1>2. Huge \in Nat \ {0} /\ x \in Nat
  BY SizesAssumption
<1>3. SUFFICES ASSUME n + 1 <= m PROVE FALSE
  BY <1>1 DEF m, n
<1>4. Huge * (n + 1) <= Huge * m /\ Huge * (n + 1) = Huge * n + Huge
  BY <1>1, <1>2, <1>3, SMT
<1>5. Huge * n \in Nat /\ Huge * m \in Nat
  BY <1>1, <1>2, SMT
<1> QED BY <1>1, <1>2, <1>3, <1>4, <1>5

\* What a streaming decoder knows of the file on its way to its pages, while
\* the stats of a delegated call agree.
BelowWindow(d) ==
    mode[d] = "streaming" =>
        /\ pc[d] \notin {"Load", "MapAnon"}
        /\ pc[d] \in {"Stat", "Create", "Extend", "MapFd"} =>
              len[d] <= RoundUp(window[d])
        /\ raw[d] + owned[d] <= PagesFor(window[d])

\* The steps of the process itself.
LEMMA OwnStepBelow ==
    ASSUME IInv, StatsAgree, NEW d \in Process, BelowWindow(d),
           Step(d) \/ Drop(d) \/ (\E w \in Windows : Call(d, w))
    PROVE  BelowWindow(d)'
<1> SUFFICES ASSUME mode[d] = "streaming" PROVE BelowWindow(d)'
  BY DEF BelowWindow, Step, Call, Drop, Load, MapAnon, Stat, Create, Extend,
         ExtendFailed, MapFd, Fill, FillFailed, Window, StatWindow, MapScratch,
         MapSource, Advise, NewZstd, NotOpened, Fail, FailClosed,
         FailUnmapped, FailHolding, request
<1>1. PagesFor(window[d]) \in Nat /\ raw[d] \in Nat /\ owned[d] \in Nat
  BY Lengths, RoundUpFacts DEF IInv, TypeOK
<1>2. CASE \E kind, r, f : FailHolding(d, kind, r, f)
  BY <1>1, <1>2 DEF FailHolding, Goto, request, BelowWindow, PagesFor, RoundUp,
                    IInv, TypeOK
<1>3. CASE \E w \in Windows : Call(d, w)
  <2>1. PICK w \in Windows : Call(d, w)
    BY <1>3
  <2>2. PagesFor(w) \in Nat
    <3>1. w \in 0..(Limit - 1)
      BY SizesAssumption DEF Limit
    <3> QED BY <3>1, RoundUpFacts
  <2>3. raw[d] = 0 /\ owned[d] = 0
    BY <2>1 DEF Call, IInv, TypeOK, Holding
  <2>4. raw'[d] = 0 /\ owned'[d] = 0 /\ pc'[d] = "Window" /\ window'[d] = w
    BY <2>1, <2>3 DEF Call, Goto, IInv, TypeOK
  <2>5. PagesFor(window[d])' = PagesFor(w)
    BY <2>4 DEF PagesFor, RoundUp
  <2> QED BY <2>2, <2>4, <2>5 DEF BelowWindow
<1>4. CASE /\ ~\E kind, r, f : FailHolding(d, kind, r, f)
           /\ Step(d) \/ Drop(d)
  <2> USE DEF NotOpened, Fail, FailClosed, FailUnmapped, ExtendFailed,
              FillFailed, Goto
  <2>1. window' = window /\ mode' = mode /\ disk' = disk
    BY <1>4
    DEF Step, Drop, Load, MapAnon, Stat, Create, Extend, MapFd, Fill, Window,
        StatWindow, MapScratch, MapSource, Advise, NewZstd, request
  <2>2. PagesFor(window[d])' = PagesFor(window[d])
        /\ RoundUp(window[d])' = RoundUp(window[d])
    BY <2>1 DEF PagesFor, RoundUp
  <2>3. CASE MapFd(d)
    <3>1. /\ CanMap(PagesFor(len[d]))
          /\ raw'[d] = PagesFor(len[d]) /\ owned'[d] = owned[d]
          /\ pc[d] = "MapFd" /\ pc'[d] = "Fill"
      BY <1>4, <2>3 DEF MapFd, IInv, TypeOK
    <3>2. owned[d] = 0 /\ len[d] <= RoundUp(window[d])
      BY <3>1 DEF IInv, TypeOK, Holding, BelowWindow
    <3>3. PagesFor(len[d]) <= PagesFor(window[d]) /\ PagesFor(len[d]) \in Nat
      BY <3>2, Lengths, FewerPages, RoundUpFacts
    <3> QED BY <1>1, <2>2, <3>1, <3>2, <3>3 DEF BelowWindow
  <2>4. CASE MapScratch(d)
    <3>1. /\ raw'[d] = raw[d] /\ owned'[d] = PagesFor(window[d])
          /\ pc[d] = "MapScratch" /\ pc'[d] = "MapSource"
      BY <1>4, <2>4 DEF MapScratch, IInv, TypeOK
    <3>2. raw[d] = 0
      BY <3>1 DEF IInv, TypeOK, Holding
    <3> QED BY <1>1, <2>2, <3>1, <3>2 DEF BelowWindow
  <2>5. CASE StatWindow(d)
    <3>1. /\ raw'[d] = raw[d] /\ owned'[d] = owned[d] /\ len'[d] = disk
          /\ pc'[d] = IF Covers(d, disk) THEN "Stat" ELSE "MapScratch"
      BY <1>4, <2>5 DEF StatWindow, holding, IInv, TypeOK
    <3>2. Covers(d, disk) => disk <= RoundUp(window[d])
      BY DEF Covers
    <3> QED BY <2>1, <2>2, <3>1, <3>2 DEF BelowWindow
  <2>6. CASE NewZstd(d) \/ Drop(d)
    <3>1. /\ raw'[d] + owned'[d] <= raw[d] + owned[d]
          /\ pc'[d] \in {"Ready", "Idle"}
      BY <1>1, <1>4, <2>6 DEF NewZstd, Drop, Released, IInv, TypeOK
    <3>2. raw'[d] \in Nat /\ owned'[d] \in Nat
      BY <1>1, <1>4, <2>6 DEF NewZstd, Drop, Released, IInv, TypeOK
    <3> QED BY <1>1, <2>2, <3>1, <3>2 DEF BelowWindow
  <2>7. CASE Stat(d)
    <3>1. /\ raw'[d] = raw[d] /\ owned'[d] = owned[d] /\ len'[d] = disk
          /\ disk # Absent /\ pc[d] = "Stat" /\ pc'[d] = "Create"
      BY <1>4, <2>7 DEF Stat, holding, IInv, TypeOK
    <3>2. disk = len[d]
      BY <3>1 DEF StatsAgree
    <3> QED BY <2>2, <3>1, <3>2 DEF BelowWindow
  <2>8. CASE Create(d) \/ Extend(d) \/ Window(d) \/ Fill(d) \/ MapSource(d) \/ Advise(d)
    <3>1. /\ raw'[d] = raw[d] /\ owned'[d] = owned[d]
          /\ pc'[d] \in {"Extend", "MapFd", "StatWindow", "Zstd", "Advise"}
          /\ pc'[d] \in {"Extend", "MapFd"} =>
                /\ len'[d] = len[d]
                /\ pc[d] \in {"Create", "Extend", "MapFd"}
      BY <1>4, <2>8
      DEF Create, Extend, Window, Fill, MapSource, Advise, holding, IInv, TypeOK
    <3> QED BY <2>2, <3>1 DEF BelowWindow
  <2>9. ~Load(d) /\ ~MapAnon(d)
    BY DEF BelowWindow, Load, MapAnon
  <2> QED
    BY <1>4, <2>3, <2>4, <2>5, <2>6, <2>7, <2>8, <2>9 DEF Step
<1> QED BY <1>2, <1>3, <1>4

\* A streaming decoder never has more huge pages than its window takes, as
\* long as the two stats of a delegated call agree: the whole copy it is given
\* then is of a file that the window covers.
THEOREM WindowKept == Spec => WindowHolds
<1> DEFINE Below == \A d \in Process : BelowWindow(d)
<1>1. Init => Below
  <2> SUFFICES ASSUME Init, NEW d \in Process PROVE BelowWindow(d)
    OBVIOUS
  <2>1. 0 \in 0..(Limit - 1)
    BY SizesAssumption DEF Limit
  <2>2. PagesFor(0) \in Nat
    BY <2>1, RoundUpFacts
  <2> QED BY <2>2 DEF Init, BelowWindow
<1>2. IInv /\ StatsAgree /\ Below /\ [Next]_vars => Below'
  <2> SUFFICES ASSUME IInv, StatsAgree, Below, [Next]_vars, NEW e \in Process
               PROVE  BelowWindow(e)'
    OBVIOUS
  <2>1. BelowWindow(e)
    OBVIOUS
  <2> HIDE DEF Below
  <2>2. CASE Step(e) \/ Drop(e) \/ \E w \in Windows : Call(e, w)
    BY <2>1, <2>2, OwnStepBelow
  <2>3. CASE (\E n \in Sizes : Resize(n)) \/ Remove \/ UNCHANGED vars
    BY <2>1, <2>3
    DEF Resize, Remove, vars, pool, request, holding, BelowWindow, PagesFor, RoundUp
  <2>4. CASE \E d \in Process \ {e} :
                Step(d) \/ Drop(d) \/ \E w \in Windows : Call(d, w)
    <3>1. /\ pc'[e] = pc[e] /\ window'[e] = window[e] /\ len'[e] = len[e]
          /\ raw'[e] = raw[e] /\ owned'[e] = owned[e]
          /\ mode' = mode
      BY <2>4, OthersStand
    <3> QED BY <2>1, <3>1 DEF BelowWindow, PagesFor, RoundUp
  <2> QED BY <2>2, <2>3, <2>4 DEF Next
<1>3. Below => WithinWindow
  BY DEF BelowWindow, WithinWindow
<1> HIDE DEF Below
<1> QED BY <1>1, <1>2, <1>3, Invariance, PTL DEF Spec, WindowHolds

=============================================================================
