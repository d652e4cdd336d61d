------------------------ MODULE ScratchReader_proofs ------------------------
(***************************************************************************)
(* Proofs about ScratchReader, for every file, chunk, allocation and       *)
(* buffer, with system calls that return little or fail.                   *)
(***************************************************************************)
EXTENDS ScratchReader, TLAPS

\* Refilling overwrites the scratch: it must be used up by then.
RefillsDrained == pc = "Refill" => Drained

IInv == TypeOK /\ Accounted /\ RefillsDrained

\* The scratch takes what one system call returns, and the file has it.
LEMMA ReturnedBounds ==
    ASSUME IInv, NEW n \in Returned
    PROVE  n \in 0..AllocLen /\ ReadAt + n \in 0..file_len
<1>1. /\ ReadAt \in 0..file_len /\ file_len \in Nat
      /\ ToRead \in 1..AllocLen
  BY ScratchAssumption DEF IInv, TypeOK, ReadAt, ToRead, Smaller
<1> HIDE DEF ToRead, ReadAt
<1> QED BY <1>1, ScratchAssumption DEF Returned, Smaller

\* Nothing was read and nothing handed out at first.
LEMMA InitInvariant == Init => IInv
<1> SUFFICES ASSUME Init PROVE IInv
  OBVIOUS
<1>1. TypeOK
  BY ScratchAssumption DEF Init, TypeOK
<1>2. Accounted /\ RefillsDrained
  BY DEF Init, Accounted, RefillsDrained, ReadAt
<1> QED BY <1>1, <1>2 DEF IInv

\* A refill of a used-up scratch puts the next bytes into it.
LEMMA RefillInvariant ==
    ASSUME IInv, Refill
    PROVE  IInv'
<1>1. PICK n \in Returned :
          /\ cell' = [i \in DOMAIN cell |-> IF i < n THEN ReadAt + i ELSE cell[i]]
          /\ start' = 0
          /\ end' = n
          /\ IF use_pread
             THEN file_offset' = Advanced(file_offset, n) /\ UNCHANGED f_pos
             ELSE f_pos' = f_pos + n /\ UNCHANGED file_offset
  BY DEF Refill
<1>2. /\ n \in 0..AllocLen /\ ReadAt + n \in 0..file_len
      /\ file_len \in Nat /\ AllocLen \in Nat
  BY ReturnedBounds, ScratchAssumption DEF IInv, TypeOK
<1>3. UNCHANGED <<file_len, use_pread, dst, chunk, given, ret>> /\ pc' = "Copy"
  BY DEF Refill, output
<1>4. ReadAt \in Nat /\ given = ReadAt /\ given \in Nat
  BY DEF IInv, TypeOK, Accounted, RefillsDrained, Refill, Drained, ReadAt
<1>5. file_offset' \in 0..file_len /\ f_pos' \in 0..file_len /\ ReadAt' = ReadAt + n
  BY <1>1, <1>2, <1>3 DEF IInv, TypeOK, ReadAt, Advanced
<1>6. DOMAIN cell = 0..(AllocLen - 1)
  BY DEF IInv, TypeOK
<1>7. cell' \in [0..(AllocLen - 1) -> Nat \cup {Zero}]
  BY <1>1, <1>4, <1>6 DEF IInv, TypeOK
<1>8. TypeOK'
  BY <1>1, <1>2, <1>3, <1>5, <1>7 DEF IInv, TypeOK
<1>9. Accounted'
  <2>1. ReadAt' = given' + (end' - start')
    BY <1>1, <1>2, <1>3, <1>4, <1>5
  <2>2. ASSUME NEW i \in start'..(end' - 1)
        PROVE  cell'[i] = given' + (i - start')
    <3>1. i \in 0..(AllocLen - 1) /\ i < n /\ i \in Nat
      BY <1>1, <1>2, <2>2
    <3>2. cell'[i] = ReadAt + i
      BY <1>1, <1>6, <3>1
    <3> QED BY <1>1, <1>3, <1>4, <3>1, <3>2
  <2> QED BY <2>1, <2>2 DEF Accounted
<1> QED BY <1>3, <1>8, <1>9 DEF IInv, RefillsDrained

\* Handing out moves bytes from the scratch to the count of those given.
LEMMA CopyInvariant ==
    ASSUME IInv, Copy
    PROVE  IInv'
<1> DEFINE k == Smaller(end - start, dst)
<1>1. /\ start' = start + k /\ given' = given + k /\ pc' = "Idle"
      /\ UNCHANGED <<file_len, use_pread, cell, end, file_offset, f_pos, dst>>
      /\ ret' \in {"empty", "data"}
  BY DEF Copy, position
<1>2. /\ start \in Nat /\ end \in Nat /\ start < end /\ end <= AllocLen
      /\ given \in Nat /\ file_len \in Nat /\ dst \in Nat
      /\ AllocLen \in Nat
  BY ScratchAssumption DEF IInv, TypeOK, Copy
<1>3. k \in 0..(end - start)
  BY <1>2 DEF Smaller
<1> HIDE DEF k
<1>4. ReadAt = given + (end - start) /\ ReadAt \in 0..file_len /\ ReadAt' = ReadAt
  BY <1>1 DEF IInv, TypeOK, Accounted, ReadAt
<1>5. TypeOK'
  <2>1. start' \in 0..end' /\ end' \in 0..AllocLen /\ given' \in 0..file_len'
    BY <1>1, <1>2, <1>3, <1>4
  <2> QED BY <1>1, <2>1 DEF IInv, TypeOK
<1>6. Accounted'
  <2>1. ReadAt' = given' + (end' - start')
    BY <1>1, <1>2, <1>3, <1>4
  <2>2. ASSUME NEW i \in start'..(end' - 1)
        PROVE  cell'[i] = given' + (i - start')
    <3>1. i \in start..(end - 1) /\ i \in Nat
      BY <1>1, <1>2, <1>3, <2>2
    <3>2. cell[i] = given + (i - start)
      BY <3>1 DEF IInv, Accounted
    <3> QED BY <1>1, <1>2, <1>3, <3>1, <3>2
  <2> QED BY <2>1, <2>2 DEF Accounted
<1> QED BY <1>1, <1>5, <1>6 DEF IInv, RefillsDrained

\* Every step keeps the invariant.
LEMMA StepInvariant == IInv /\ [Next]_vars => IInv'
<1> SUFFICES ASSUME IInv, [Next]_vars PROVE IInv'
  OBVIOUS
<1>1. ASSUME NEW n \in DstLens, CallRead(n) PROVE IInv'
  <2>1. TypeOK'
    BY <1>1 DEF CallRead, scratch, position, IInv, TypeOK
  <2>2. Accounted' /\ RefillsDrained'
    BY <1>1
    DEF CallRead, scratch, position, IInv, Accounted, ReadAt, RefillsDrained,
        Drained
  <2> QED BY <2>1, <2>2 DEF IInv
<1>2. CASE RefillFailed \/ ReturnEof \/ UNCHANGED vars
  <2>1. TypeOK'
    BY <1>2
    DEF RefillFailed, ReturnEof, vars, scratch, position, output, IInv, TypeOK
  <2>2. Accounted' /\ RefillsDrained'
    BY <1>2
    DEF RefillFailed, ReturnEof, vars, scratch, position, output, IInv,
        Accounted, ReadAt, RefillsDrained, Drained
  <2> QED BY <2>1, <2>2 DEF IInv
<1> QED
  BY <1>1, <1>2, RefillInvariant, CopyInvariant DEF Next, ReadStep

\* The scratch and both positions account for every byte, for every constant.
THEOREM AlwaysAccounted == Spec => []Accounted
<1>1. IInv => Accounted
  BY DEF IInv
<1> QED BY <1>1, InitInvariant, StepInvariant, PTL DEF Spec

\* Types and ranges, for every constant.
THEOREM TypeCorrect == Spec => []TypeOK
<1>1. IInv => TypeOK
  BY DEF IInv
<1> QED BY <1>1, InitInvariant, StepInvariant, PTL DEF Spec

\* What a call hands out continues where the one before stopped.
THEOREM InOrder == Spec => []HandedOutInOrder
<1>1. Init => HandedOutInOrder
  BY DEF Init, HandedOutInOrder
<1>2. IInv /\ HandedOutInOrder /\ [Next]_vars => HandedOutInOrder'
  <2> SUFFICES ASSUME IInv, HandedOutInOrder, [Next]_vars
               PROVE  HandedOutInOrder'
    OBVIOUS
  <2>1. CASE Copy
    <3> DEFINE k == Smaller(end - start, dst)
    <3>1. /\ start \in Nat /\ end \in Nat /\ start < end
          /\ given \in Nat /\ dst \in Nat
      BY <2>1, ScratchAssumption DEF IInv, TypeOK, Copy
    <3>2. k \in Nat /\ k <= end - start
      BY <3>1 DEF Smaller
    <3>3. chunk' = [i \in 1..k |-> cell[start + i - 1]] /\ given' = given + k
      BY <2>1 DEF Copy
    <3> HIDE DEF k
    <3>4. Len(chunk') = k
      BY <3>2, <3>3
    <3>5. ASSUME NEW i \in 1..k
          PROVE  chunk'[i] = (given' - k) + (i - 1)
      <4>1. start + i - 1 \in start..(end - 1)
        BY <3>1, <3>2, <3>5
      <4>2. cell[start + i - 1] = given + ((start + i - 1) - start)
        BY <4>1 DEF IInv, Accounted
      <4> QED BY <3>1, <3>2, <3>3, <4>2
    <3> QED BY <3>4, <3>5 DEF HandedOutInOrder
  <2>2. ASSUME NEW n \in DstLens, CallRead(n) PROVE HandedOutInOrder'
    BY <2>2 DEF CallRead, HandedOutInOrder
  <2>3. CASE Refill \/ RefillFailed \/ ReturnEof \/ UNCHANGED vars
    BY <2>3
    DEF Refill, RefillFailed, ReturnEof, vars, output, HandedOutInOrder
  <2> QED BY <2>1, <2>2, <2>3 DEF Next, ReadStep
<1> QED BY <1>1, <1>2, InitInvariant, StepInvariant, PTL DEF Spec

-----------------------------------------------------------------------------
\* A refill brings nothing only at the end of the file.
EmptyAtEnd == pc = "Copy" /\ start >= end => given = file_len

LEMMA EmptyAtEndKept ==
    ASSUME IInv, EmptyAtEnd, [Next]_vars
    PROVE  EmptyAtEnd'
<1>1. CASE Refill
  <2>1. PICK n \in Returned :
            /\ start' = 0 /\ end' = n /\ file_len' = file_len /\ given' = given
    BY <1>1 DEF Refill, output
  <2>2. /\ ReadAt = given /\ given \in 0..file_len /\ file_len \in Nat
        /\ ToRead \in Nat \ {0}
    BY <1>1, ScratchAssumption
    DEF IInv, TypeOK, Accounted, RefillsDrained, Refill, Drained, ReadAt,
        ToRead, Smaller
  <2> HIDE DEF ReadAt, ToRead
  <2>3. n <= 0 => given = file_len
    BY <2>1, <2>2 DEF Returned, Smaller
  <2> QED BY <2>1, <2>3 DEF EmptyAtEnd
<1>2. ASSUME NEW n \in DstLens, CallRead(n) PROVE EmptyAtEnd'
  BY <1>2 DEF CallRead, scratch, Drained, IInv, TypeOK, EmptyAtEnd
<1>3. CASE RefillFailed \/ ReturnEof \/ Copy \/ UNCHANGED vars
  BY <1>3
  DEF RefillFailed, ReturnEof, Copy, vars, scratch, output, EmptyAtEnd
<1> QED BY <1>1, <1>2, <1>3 DEF Next, ReadStep

\* A step of the reader is a step of the contract or is not seen by it.
LEMMA StepImplements ==
    ASSUME IInv, IInv', EmptyAtEnd, [Next]_vars
    PROVE  [Contract!Next]_(Contract!vars)
<1>0. /\ dst \in Nat /\ given \in Nat /\ file_len \in Nat
      /\ pc \in {"Idle", "Refill", "Copy"}
  BY ScratchAssumption DEF IInv, TypeOK
<1>1. ASSUME NEW n \in DstLens, CallRead(n)
      PROVE  Contract!Ask(n)
  <2>1. /\ pc = "Idle" /\ pc' \in {"Refill", "Copy"} /\ dst' = n /\ ret' = "none"
        /\ UNCHANGED <<file_len, given>>
    BY <1>1 DEF CallRead
  <2> QED BY <2>1 DEF Contract!Ask
<1>2. CASE Refill
  <2>1. /\ pc = "Refill" /\ pc' = "Copy"
        /\ UNCHANGED <<file_len, given, dst, ret>>
    BY <1>2 DEF Refill, output
  <2> QED BY <2>1 DEF Contract!vars
<1>3. CASE RefillFailed
  <2>1. /\ pc = "Refill" /\ pc' = "Idle" /\ ret' = "error" /\ Interrupts
        /\ UNCHANGED <<file_len, given, dst>>
    BY <1>3 DEF RefillFailed, output
  <2>2. CASE dst = 0
    BY <2>1, <2>2 DEF Contract!vars
  <2>3. CASE dst > 0
    <3>1. Contract!Fail
      BY <2>1, <2>3 DEF Contract!Fail
    <3> QED BY <3>1 DEF Contract!Next, Contract!Answer
  <2> QED BY <1>0, <2>2, <2>3
<1>4. CASE ReturnEof
  <2>1. /\ pc = "Copy" /\ pc' = "Idle" /\ given = file_len
        /\ ret' = (IF dst = 0 THEN "empty" ELSE "eof")
        /\ UNCHANGED <<file_len, given, dst>>
    BY <1>4 DEF ReturnEof, output, EmptyAtEnd
  <2>2. CASE dst = 0
    BY <2>1, <2>2 DEF Contract!vars
  <2>3. CASE dst > 0
    <3>1. Contract!End
      BY <2>1, <2>3 DEF Contract!End
    <3> QED BY <3>1 DEF Contract!Next, Contract!Answer
  <2> QED BY <1>0, <2>2, <2>3
<1>5. CASE Copy
  <2> DEFINE k == Smaller(end - start, dst)
  <2>1. /\ pc = "Copy" /\ pc' = "Idle" /\ given' = given + k
        /\ ret' = (IF dst = 0 THEN "empty" ELSE "data")
        /\ UNCHANGED <<file_len, dst>>
    BY <1>5 DEF Copy
  <2>2. k \in Nat /\ k <= dst /\ (dst > 0 => k > 0)
    BY <1>0, <1>5, ScratchAssumption DEF Copy, Smaller, IInv, TypeOK
  <2>3. given' <= file_len
    BY <2>1 DEF IInv, TypeOK
  <2> HIDE DEF k
  <2>4. CASE dst = 0
    <3>1. k = 0
      BY <2>2, <2>4
    <3> QED BY <1>0, <2>1, <2>4, <3>1 DEF Contract!vars
  <2>5. CASE dst > 0
    <3>1. given + k \in (given + 1)..(given + dst)
      BY <1>0, <2>2, <2>5
    <3>2. Contract!Give
      BY <2>1, <2>3, <2>5, <3>1 DEF Contract!Give
    <3> QED BY <3>2 DEF Contract!Next, Contract!Answer
  <2> QED BY <1>0, <2>4, <2>5
<1>6. CASE UNCHANGED vars
  BY <1>6 DEF vars, output, Contract!vars
<1> QED
  BY <1>1, <1>2, <1>3, <1>4, <1>5, <1>6 DEF Next, ReadStep, Contract!Next

\* The scratch reader keeps the contract of the BufReader it stands for: bytes
\* in order, Ok(0) only at the end of the file, an error only where a system
\* call failed.
THEOREM Implements == Spec => IsAReader
<1>1. Init => Contract!Init
  BY ScratchAssumption DEF Init, Contract!Init
<1>2. Init => EmptyAtEnd
  BY DEF Init, EmptyAtEnd
<1> QED
  BY <1>1, <1>2, InitInvariant, StepInvariant, EmptyAtEndKept, StepImplements,
     PTL
  DEF Spec, IsAReader, Contract!Spec

=============================================================================
