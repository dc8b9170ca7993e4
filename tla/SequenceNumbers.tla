--------------------------- MODULE SequenceNumbers ---------------------------
(***************************************************************************)
(* Sequence numbers and stream positions as the TCB stores them: uint32_t  *)
(* fields, compared by the SEQ_ macros of utcp_utils.h.  The operators     *)
(* take the true numbers and reduce them first, as storing them does.      *)
(***************************************************************************)
EXTENDS Integers

CONSTANT HALF  \* 2^31: half the number of values of a field

ASSUME HalfAssumption == HALF \in Nat \ {0}

uint32(n) == n % (2 * HALF)

\* a - b in unsigned arithmetic.
minus(a, b) == (uint32(a) - uint32(b)) % (2 * HALF)

\* Fault: numbers are compared as they are stored.
SEQ_LT_plain(a, b) == uint32(a) < uint32(b)

\* The difference as a signed int is negative, not positive, positive, or not
\* negative.
SEQ_LT(a, b)  == minus(a, b) >= HALF
SEQ_LEQ(a, b) == minus(a, b) = 0 \/ SEQ_LT(a, b)
SEQ_GT(a, b)  == ~SEQ_LEQ(a, b)
SEQ_GEQ(a, b) == ~SEQ_LT(a, b)
=============================================================================
