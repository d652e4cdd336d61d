---------------------------- MODULE ReadContract ----------------------------
(***************************************************************************)
(* What every constructor of the crate promises: a `std::io::Read` over    *)
(* the decompressed stream.  A call with room for output is answered by    *)
(* some of the next bytes, by Ok(0), or by an error; Ok(0) means that      *)
(* nothing is left.  Only a stream that is damaged, cut off, or taken away *)
(* under the decoder may end early; only such a one may fail, or one whose *)
(* source can be read at one time and not at another.                      *)
(***************************************************************************)
EXTENDS Naturals

CONSTANTS
    BufLens,    \* lengths of the buffers a caller passes
    Transient   \* reading the source may fail, and succeed when tried again

VARIABLES
    total,   \* length of the decompressed stream
    whole,   \* the compressed stream is complete and stays so
    given,   \* bytes handed out so far, in order
    want,    \* room in the buffer of the call under way, 0 between calls
    ret      \* what the last finished call returned

vars == <<total, whole, given, want, ret>>

Init ==
    /\ total \in Nat
    /\ whole \in BOOLEAN
    /\ given = 0
    /\ want = 0
    /\ ret = "none"

Ask(n) ==
    /\ want = 0
    /\ IF n = 0 THEN want' = 0 /\ ret' = "empty"
                ELSE want' = n /\ ret' = "none"
    /\ UNCHANGED <<total, whole, given>>

\* Between 1 and want of the bytes that come next.
Give ==
    /\ want > 0
    /\ given' \in (given + 1)..(given + want)
    /\ given' <= total
    /\ want' = 0
    /\ ret' = "data"
    /\ UNCHANGED <<total, whole>>

End ==
    /\ want > 0
    /\ whole => given = total
    /\ want' = 0
    /\ ret' = "eof"
    /\ UNCHANGED <<total, whole, given>>

Fail ==
    /\ want > 0
    /\ ~whole \/ Transient
    /\ want' = 0
    /\ ret' = "error"
    /\ UNCHANGED <<total, whole, given>>

\* The file is cut short by someone else while it is being decoded.
Spoil ==
    /\ whole' = FALSE
    /\ UNCHANGED <<total, given, want, ret>>

\* Over a stream that is not whole a caller may get bytes that are not in it,
\* after an error for one, or die with the mapping.
Undone ==
    /\ want > 0
    /\ ~whole
    /\ want' = 0
    /\ ret' \in {"none", "data"}
    /\ UNCHANGED <<total, whole, given>>

Answer == Give \/ End \/ Fail \/ Undone

Next == (\E n \in BufLens : Ask(n)) \/ Answer \/ Spoil

Spec == Init /\ [][Next]_vars

\* A call with room for output is answered.
Answered == want > 0 ~> want = 0

=============================================================================
