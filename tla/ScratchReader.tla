--------------------------- MODULE ScratchReader ---------------------------
(***************************************************************************)
(* The reader of examples/measure_bufreader_hugepage.rs, which stands for  *)
(* a BufReader whose buffer is one huge page: `refill` reads a chunk of    *)
(* the compressed file into the scratch, by read(2) or by pread(2) at an   *)
(* offset of its own, and `read` copies out of it.                         *)
(*                                                                         *)
(* The kernel may return fewer bytes than were asked for, and may be       *)
(* interrupted; the caller then calls again, as io::copy and zstd do.      *)
(***************************************************************************)
EXTENDS Integers, Sequences

CONSTANTS
    FileLens,    \* lengths of the file
    chunk_size,  \* self.chunk_size
    AllocLen,    \* self.alloc.len: 2 MiB in the code
    DstLens,     \* lengths of the buffers a caller passes
    Zero,        \* the content of a cell nobody wrote
    Interrupts   \* a system call may fail

ASSUME ScratchAssumption ==
    /\ FileLens \subseteq Nat
    /\ chunk_size \in Nat \ {0}
    /\ AllocLen \in Nat \ {0}
    /\ DstLens \subseteq Nat
    /\ Zero \notin Nat
    /\ Interrupts \in BOOLEAN

VARIABLES
    file_len,     \* length of self.inner
    use_pread,    \* self.use_pread
    cell,         \* which byte of the file each cell of the scratch holds
    start,        \* self.start
    end,          \* self.end
    file_offset,  \* self.file_offset
    f_pos,        \* the position the kernel keeps for self.inner
    dst,          \* dst.len() of the call under way
    chunk,        \* the bytes the last call handed out
    given,        \* how many bytes were handed out so far
    pc,           \* where the call is
    ret           \* what the last finished call returned

position == <<file_offset, f_pos>>
scratch  == <<cell, start, end>>
output   == <<chunk, given>>
vars     == <<file_len, use_pread, scratch, position, dst, output, pc, ret>>

Smaller(x, y) == IF x < y THEN x ELSE y

Init ==
    /\ file_len \in FileLens
    /\ use_pread \in BOOLEAN
    /\ cell = [i \in 0..(AllocLen - 1) |-> Zero]
    /\ start = 0
    /\ end = 0
    /\ file_offset = 0
    /\ f_pos = 0
    /\ dst = 0
    /\ chunk = <<>>
    /\ given = 0
    /\ pc = "Idle"
    /\ ret = "none"

\* Mutant: refills while one byte is left.
Drained_Early == start + 1 >= end

Drained == start >= end

\* read(dst): an empty buffer is not answered before the refill.
CallRead(n) ==
    /\ pc = "Idle"
    /\ dst' = n
    /\ chunk' = <<>>
    /\ ret' = "none"
    /\ pc' = IF Drained THEN "Refill" ELSE "Copy"
    /\ UNCHANGED <<file_len, use_pread, scratch, position, given>>

\* Mutant: a chunk larger than the allocation is not cut.
ToRead_Uncut == chunk_size

ToRead == Smaller(chunk_size, AllocLen)

\* pread reads at file_offset, read where the kernel is.
ReadAt == IF use_pread THEN file_offset ELSE f_pos

\* What one system call may return: nothing only at the end of the file.
Returned ==
    LET most == Smaller(ToRead, file_len - ReadAt)
    IN  IF most <= 0 THEN {0} ELSE 1..most

\* Mutant: the offset moves by what was asked for.
Advanced_Asked(x, n) == x + ToRead

Advanced(x, n) == x + n

Refill ==
    /\ pc = "Refill"
    /\ \E n \in Returned :
          /\ cell' = [i \in DOMAIN cell |-> IF i < n THEN ReadAt + i ELSE cell[i]]
          /\ start' = 0
          /\ end' = n
          /\ IF use_pread
             THEN file_offset' = Advanced(file_offset, n) /\ UNCHANGED f_pos
             ELSE f_pos' = f_pos + n /\ UNCHANGED file_offset
    /\ pc' = "Copy"
    /\ UNCHANGED <<file_len, use_pread, dst, output, ret>>

\* Mutant: a failed refill is left for the end of the file.
RefillFailed_AsEnd ==
    /\ pc = "Refill"
    /\ Interrupts
    /\ start' = 0
    /\ end' = 0
    /\ pc' = "Copy"
    /\ UNCHANGED <<file_len, use_pread, cell, position, dst, output, ret>>

\* The system call fails: `?` leaves read before anything was changed.
RefillFailed ==
    /\ pc = "Refill"
    /\ Interrupts
    /\ pc' = "Idle"
    /\ ret' = "error"
    /\ UNCHANGED <<file_len, use_pread, scratch, position, dst, output>>

\* Nothing came: Ok(0).
ReturnEof ==
    /\ pc = "Copy"
    /\ start >= end
    /\ pc' = "Idle"
    /\ ret' = IF dst = 0 THEN "empty" ELSE "eof"
    /\ UNCHANGED <<file_len, use_pread, scratch, position, dst, output>>

Copy ==
    /\ pc = "Copy"
    /\ start < end
    /\ LET to_copy == Smaller(end - start, dst) IN
          /\ chunk' = [i \in 1..to_copy |-> cell[start + i - 1]]
          /\ start' = start + to_copy
          /\ given' = given + to_copy
    /\ pc' = "Idle"
    /\ ret' = IF dst = 0 THEN "empty" ELSE "data"
    /\ UNCHANGED <<file_len, use_pread, cell, end, position, dst>>

ReadStep == Refill \/ RefillFailed \/ ReturnEof \/ Copy

Next == (\E n \in DstLens : CallRead(n)) \/ ReadStep

Spec == Init /\ [][Next]_vars

\* A caller that drains the file calls again after an error, until Ok(0).
Draining == ret # "eof" /\ \E n \in DstLens : n > 0 /\ CallRead(n)

\* A call runs on, and a caller who tries again and again is not interrupted
\* every time.
FairSpec ==
    /\ Spec
    /\ WF_vars(ReadStep)
    /\ SF_vars(dst > 0 /\ Refill)
    /\ SF_vars(Draining)

-----------------------------------------------------------------------------
TypeOK ==
    /\ file_len \in FileLens
    /\ use_pread \in BOOLEAN
    /\ cell \in [0..(AllocLen - 1) -> Nat \cup {Zero}]
    /\ end \in 0..AllocLen
    /\ start \in 0..end
    /\ file_offset \in 0..file_len
    /\ f_pos \in 0..file_len
    /\ dst \in DstLens \cup {0}
    /\ given \in 0..file_len
    /\ pc \in {"Idle", "Refill", "Copy"}
    /\ ret \in {"none", "empty", "data", "eof", "error"}

(***************************************************************************)
(* Bytes the kernel was asked for, those handed out and those still in the *)
(* scratch agree, for both ways of reading, after short reads and after    *)
(* failed calls; and the scratch holds the bytes that come next.           *)
(***************************************************************************)
Accounted ==
    /\ ReadAt = given + (end - start)
    /\ \A i \in start..(end - 1) : cell[i] = given + (i - start)

(***************************************************************************)
(* What a call hands out continues where the one before stopped.           *)
(***************************************************************************)
HandedOutInOrder ==
    \A i \in 1..Len(chunk) : chunk[i] = (given - Len(chunk)) + (i - 1)

\* A failed call loses nothing: a caller that calls again gets all of it.
DeliversAll == <>(ret = "eof" /\ given = file_len)

\* The contract says nothing of a call without room, which may fail here.
Contract == INSTANCE ReadContract WITH
    BufLens <- DstLens,
    total <- file_len,
    Transient <- Interrupts,
    whole <- TRUE,
    given <- given,
    want  <- IF pc = "Idle" THEN 0 ELSE dst,
    ret   <- IF dst = 0 /\ (pc # "Idle" \/ ret # "none") THEN "empty" ELSE ret

(***************************************************************************)
(* The scratch reader keeps the contract of the BufReader it stands for:   *)
(* the next bytes in order, Ok(0) only when the file is used up, and an    *)
(* error only from a system call, after which the next call goes on.       *)
(***************************************************************************)
IsAReader == Contract!Spec

=============================================================================
