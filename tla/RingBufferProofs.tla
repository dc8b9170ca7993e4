-------------------------- MODULE RingBufferProofs --------------------------
(***************************************************************************)
(* What ring_buf_read and ring_buf_write return, what the SEQ_ macros      *)
(* decide, and the arithmetic of offsets and windows that the proofs about *)
(* both halves of a TCB use.                                               *)
(***************************************************************************)
EXTENDS RingBuffer, SequenceNumbers, TLAPS

\* Arithmetic the provers do not find by themselves.

\* Quotients and remainders of the ring offsets and of the windows: a
\* quotient of naturals is one.
LEMMA DivNat == ASSUME NEW a \in Nat, NEW b \in Nat \ {0} PROVE a \div b \in Nat
  BY SMT

\* A remainder lies below its divisor.
LEMMA ModRange == ASSUME NEW a \in Nat, NEW b \in Nat \ {0}
                  PROVE a % b \in Nat /\ a % b < b /\ a % b <= a
  BY SMT

\* A product of naturals is one.
LEMMA TimesNat == ASSUME NEW a \in Nat, NEW b \in Nat PROVE a * b \in Nat
  BY SMT

\* The ring buffers: a read of at most the ring's size yields bytes, a write
\* keeps the ring a ring.
LEMMA ReadType ==
  ASSUME NEW n \in Nat \ {0}, NEW ring \in [0 .. n - 1 -> Nat],
         NEW offset \in Nat, NEW len \in Nat, len <= n
  PROVE  /\ ring_buf_read(ring, n, offset, len) \in Seq(Nat)
         /\ Len(ring_buf_read(ring, n, offset, len)) = len
<1> DEFINE p == offset % n
<1>1. p \in Nat /\ p < n
  BY ModRange
<1> HIDE DEF p
<1>2. \A k \in 1 .. len : (IF p + len <= n \/ k <= n - p THEN ring[p + k - 1]
                                                        ELSE ring[k - (n - p) - 1]) \in Nat
  BY <1>1
<1>3. ring_buf_read(ring, n, offset, len)
        = [k \in 1 .. len |-> IF p + len <= n \/ k <= n - p THEN ring[p + k - 1]
                                                          ELSE ring[k - (n - p) - 1]]
  BY DEF ring_buf_read, p
<1> QED
  BY <1>2, <1>3

\* ring_buf_write keeps the ring a ring of bytes.
LEMMA WriteType ==
  ASSUME NEW n \in Nat \ {0}, NEW ring \in [0 .. n - 1 -> Nat],
         NEW offset \in Nat, NEW src \in Seq(Nat)
  PROVE  ring_buf_write(ring, n, offset, src) \in [0 .. n - 1 -> Nat]
<1> DEFINE p == offset % n
<1>1. p \in Nat /\ p < n
  BY ModRange
<1>2. DOMAIN ring = 0 .. n - 1
  OBVIOUS
<1> HIDE DEF p
<1> DEFINE val(i) == CASE i >= p /\ i < p + Len(src) -> src[i - p + 1]
                       [] i < p /\ i < Len(src) - (n - p) -> src[(n - p) + i + 1]
                       [] OTHER -> ring[i]
<1>3. ASSUME NEW i \in 0 .. n - 1 PROVE val(i) \in Nat
  <2>1. CASE i >= p /\ i < p + Len(src)
    BY <1>1, <2>1
  <2>2. CASE i < p /\ i < Len(src) - (n - p)
    BY <1>1, <2>2
  <2>3. CASE ~(i >= p /\ i < p + Len(src)) /\ ~(i < p /\ i < Len(src) - (n - p))
    BY <1>1, <2>3
  <2> QED
    BY <2>1, <2>2, <2>3
<1>4. ring_buf_write(ring, n, offset, src) = [i \in 0 .. n - 1 |-> val(i)]
  BY <1>2 DEF ring_buf_write, p
<1> HIDE DEF val
<1> QED
  BY <1>3, <1>4
-----------------------------------------------------------------------------
\* Where bytes are

\* A remainder is determined by the division.
LEMMA ModUnique ==
  ASSUME NEW a \in Nat, NEW b \in Nat \ {0}, NEW q \in Int, NEW m \in 0 .. b - 1,
         a = b * q + m
  PROVE  a % b = m
  BY SMT

\* The slot of a stream position less than a whole ring behind offset.
LEMMA RingSlot ==
  ASSUME NEW n \in Nat \ {0}, NEW offset \in Nat, NEW k \in Nat, k < n
  PROVE  (offset + k) % n = IF (offset % n) + k < n THEN (offset % n) + k
                                                    ELSE (offset % n) + k - n
<1> DEFINE q == offset \div n
           p == offset % n
<1>1. q \in Int /\ p \in Nat /\ p < n /\ offset = n * q + p
  BY SMT
<1> HIDE DEF q, p
<1>3. CASE p + k < n
  <2>1. offset + k = n * q + (p + k) /\ p + k \in 0 .. n - 1
    BY <1>1, <1>3
  <2>2. (offset + k) % n = p + k
    BY <1>1, <2>1, ModUnique
  <2> QED
    BY <1>3, <2>2 DEF p
<1>4. CASE ~(p + k < n)
  <2> DEFINE d == q + 1
             m == p + k - n
  <2>1. n * d = n * q + n /\ d \in Int
    BY <1>1
  <2>2. offset + k = n * d + m /\ m \in 0 .. n - 1
    BY <1>1, <1>4, <2>1
  <2>3. offset + k \in Nat
    OBVIOUS
  <2> HIDE DEF d, m
  <2>4. (offset + k) % n = m
    BY <2>1, <2>2, <2>3, ModUnique
  <2> QED
    BY <1>4, <2>4 DEF p, m
<1> QED
  BY <1>3, <1>4

\* Both copies of ring_buf_read together: byte k is that of position offset + k.
LEMMA ReadSlot ==
  ASSUME NEW n \in Nat \ {0}, NEW ring \in [0 .. n - 1 -> Nat],
         NEW offset \in Nat, NEW len \in Nat, len <= n, NEW k \in 1 .. len
  PROVE  ring_buf_read(ring, n, offset, len)[k] = ring[(offset + (k - 1)) % n]
<1> DEFINE p == offset % n
<1>1. p \in Nat /\ p < n
  BY ModRange
<1>2. k - 1 \in Nat /\ k - 1 < n
  OBVIOUS
<1>3. (offset + (k - 1)) % n = IF p + (k - 1) < n THEN p + (k - 1) ELSE p + (k - 1) - n
  BY <1>2, RingSlot
<1>4. ring_buf_read(ring, n, offset, len)[k]
        = IF p + len <= n \/ k <= n - p THEN ring[p + k - 1] ELSE ring[k - (n - p) - 1]
  BY DEF ring_buf_read
<1> HIDE DEF p
<1> QED
  BY <1>1, <1>3, <1>4

\* Both copies of ring_buf_write together: the new bytes lie at their positions,
\* and what lay less than a ring before their end is still there.
LEMMA WriteAt ==
  ASSUME NEW n \in Nat \ {0}, NEW ring \in [0 .. n - 1 -> Nat],
         NEW offset \in Nat, NEW src \in Seq(Nat), Len(src) <= n
  PROVE  LET after == ring_buf_write(ring, n, offset, src)
         IN  /\ \A k \in 1 .. Len(src) : after[(offset + (k - 1)) % n] = src[k]
             /\ \A pos \in Nat : pos < offset /\ offset + Len(src) - n <= pos
                  => after[pos % n] = ring[pos % n]
<1> DEFINE p == offset % n
           after == ring_buf_write(ring, n, offset, src)
           len == Len(src)
<1>1. p \in Nat /\ p < n /\ len \in Nat /\ len <= n
  BY ModRange
<1>2. DOMAIN ring = 0 .. n - 1
  OBVIOUS
<1> DEFINE first(i)  == i >= p /\ i < p + len
           second(i) == i < p /\ i < len - (n - p)
<1>3. ASSUME NEW i \in 0 .. n - 1
      PROVE  /\ first(i) => after[i] = src[i - p + 1]
             /\ ~first(i) /\ second(i) => after[i] = src[(n - p) + i + 1]
             /\ ~first(i) /\ ~second(i) => after[i] = ring[i]
  <2>1. after[i] = CASE first(i) -> src[i - p + 1]
                     [] second(i) -> src[(n - p) + i + 1]
                     [] OTHER -> ring[i]
    BY <1>2 DEF ring_buf_write
  <2>2. ~(first(i) /\ second(i))
    BY <1>1
  <2> HIDE DEF after, first, second
  <2> QED
    BY <2>1, <2>2
<1> HIDE DEF after
<1>4. ASSUME NEW k \in 1 .. len PROVE after[(offset + (k - 1)) % n] = src[k]
  <2> DEFINE i == (offset + (k - 1)) % n
  <2>1. k - 1 \in Nat /\ k - 1 < n
    BY <1>1
  <2>2. i = IF p + (k - 1) < n THEN p + (k - 1) ELSE p + (k - 1) - n
    BY <2>1, RingSlot
  <2> HIDE DEF p, i, len
  <2>3. i \in 0 .. n - 1
    BY <1>1, <2>2
  <2>4. CASE p + (k - 1) < n
    <3>1. i >= p /\ i < p + len /\ i - p + 1 = k
      BY <1>1, <2>2, <2>4
    <3> QED
      BY <1>3, <2>3, <3>1 DEF i
  <2>5. CASE ~(p + (k - 1) < n)
    <3>1. i < p /\ i < len - (n - p) /\ (n - p) + i + 1 = k
      BY <1>1, <2>2, <2>5
    <3>2. ~(i >= p /\ i < p + len)
      BY <1>1, <2>3, <3>1
    <3>3. after[i] = src[(n - p) + i + 1]
      BY <1>3, <2>3, <3>1, <3>2
    <3> QED
      BY <3>1, <3>3 DEF i
  <2> QED
    BY <2>4, <2>5
<1>5. ASSUME NEW pos \in Nat, pos < offset, offset + len - n <= pos
      PROVE  after[pos % n] = ring[pos % n]
  <2> DEFINE i == pos % n
             k == offset - pos
             h == IF k = n THEN 0 ELSE k
  <2>1. k \in Nat /\ 0 < k /\ k <= n /\ len <= n - k
    BY <1>1, <1>5
  <2>2. p = IF i + h < n THEN i + h ELSE i + h - n
    <3>1. CASE k < n
      <4>1. (pos + k) % n = IF i + k < n THEN i + k ELSE i + k - n
        BY <2>1, <3>1, RingSlot
      <4>2. pos + k = offset
        OBVIOUS
      <4> QED
        BY <3>1, <4>1, <4>2
    <3>2. CASE k = n
      <4>1. offset = pos + n
        BY <3>2
      <4> DEFINE d == pos \div n
                 e == d + 1
      <4>2. i \in 0 .. n - 1 /\ d \in Int /\ pos = n * d + i
        BY SMT
      <4> HIDE DEF i, d
      <4>3. e \in Int /\ offset = n * e + i
        BY <4>1, <4>2
      <4> HIDE DEF e
      <4>4. p = i
        BY <4>2, <4>3, ModUnique
      <4>5. h = 0
        BY <3>2
      <4> HIDE DEF h, p
      <4> QED
        BY <4>2, <4>4, <4>5
    <3> QED
      BY <2>1, <3>1, <3>2
  <2>3. i \in Nat /\ i < n
    BY ModRange
  <2> HIDE DEF p, i, len, k
  <2>4. ~(i >= p /\ i < p + len) /\ ~(i < p /\ i < len - (n - p))
    BY <1>1, <2>1, <2>2, <2>3
  <2>5. i \in 0 .. n - 1
    BY <2>3
  <2> QED
    BY <1>3, <2>4, <2>5 DEF i
<1> QED
  BY <1>4, <1>5 DEF after, len

\* Positions from .. to - 1 of a stream whose byte at position k is k + 1.
Holds(ring, n, from, to) == \A pos \in from .. to - 1 : ring[pos % n] = pos + 1

\* Appending the stream's next bytes to what is held, without running into it.
LEMMA WriteHolds ==
  ASSUME NEW n \in Nat \ {0}, NEW ring \in [0 .. n - 1 -> Nat],
         NEW from \in Nat, NEW to \in Nat, NEW src \in Seq(Nat),
         from <= to, to + Len(src) - from <= n,
         \A k \in 1 .. Len(src) : src[k] = to + k,
         Holds(ring, n, from, to)
  PROVE  Holds(ring_buf_write(ring, n, to, src), n, from, to + Len(src))
<1> DEFINE after == ring_buf_write(ring, n, to, src)
<1>1. Len(src) \in Nat /\ Len(src) <= n
  OBVIOUS
<1>2. /\ \A k \in 1 .. Len(src) : after[(to + (k - 1)) % n] = src[k]
      /\ \A pos \in Nat : pos < to /\ to + Len(src) - n <= pos
           => after[pos % n] = ring[pos % n]
  BY <1>1, WriteAt
<1> HIDE DEF after
<1> DEFINE end == to + Len(src)
<1>3. ASSUME NEW pos \in from .. end - 1 PROVE after[pos % n] = pos + 1
  <2>1. pos \in Nat
    BY <1>1
  <2>2. CASE pos < to
    <3>1. to + Len(src) - n <= pos /\ pos \in from .. to - 1
      BY <1>1, <2>1, <2>2
    <3> QED
      BY <1>2, <2>1, <2>2, <3>1 DEF Holds
  <2>3. CASE pos >= to
    <3> DEFINE k == pos - to + 1
    <3>1. k \in 1 .. Len(src) /\ to + (k - 1) = pos /\ to + k = pos + 1
      BY <1>1, <2>1, <2>3
    <3> HIDE DEF k
    <3>2. after[(to + (k - 1)) % n] = src[k] /\ src[k] = to + k
      BY <1>2, <3>1
    <3> QED
      BY <3>1, <3>2
  <2> QED
    BY <2>1, <2>2, <2>3
<1> HIDE DEF end
<1>4. Holds(after, n, from, end)
  BY <1>3, Zenon DEF Holds
<1> QED
  BY <1>4 DEF after, end

\* Reading what is held.
LEMMA ReadHolds ==
  ASSUME NEW n \in Nat \ {0}, NEW ring \in [0 .. n - 1 -> Nat],
         NEW from \in Nat, NEW to \in Nat, Holds(ring, n, from, to),
         NEW offset \in Nat, NEW len \in Nat, len <= n, from <= offset, offset + len <= to
  PROVE  ring_buf_read(ring, n, offset, len) = [k \in 1 .. len |-> offset + k]
<1>1. ASSUME NEW k \in 1 .. len
      PROVE  ring_buf_read(ring, n, offset, len)[k] = offset + k
  <2> DEFINE pos == offset + (k - 1)
  <2>1. pos \in from .. to - 1 /\ pos + 1 = offset + k
    OBVIOUS
  <2>2. ring_buf_read(ring, n, offset, len)[k] = ring[pos % n]
    BY ReadSlot
  <2> HIDE DEF pos
  <2> QED
    BY <2>1, <2>2 DEF Holds
<1> DEFINE f(k) == IF (offset % n) + len <= n \/ k <= n - (offset % n)
                     THEN ring[(offset % n) + k - 1] ELSE ring[k - (n - (offset % n)) - 1]
<1>2. ring_buf_read(ring, n, offset, len) = [k \in 1 .. len |-> f(k)]
  BY DEF ring_buf_read
<1> HIDE DEF f
<1> QED
  BY <1>1, <1>2
-----------------------------------------------------------------------------
\* Sequence numbers of 32 bits

\* Numbers that differ by less than n have remainders that do or do not wrap.
LEMMA WrapDiff ==
  ASSUME NEW n \in Nat \ {0}, NEW a \in Nat, NEW b \in Nat, b <= a, a - b < n
  PROVE  /\ a % n \in 0 .. n - 1 /\ b % n \in 0 .. n - 1
         /\ (a % n) - (b % n) \in {a - b, a - b - n}
<1> DEFINE k == a - b
<1>1. k \in Nat /\ k < n /\ b + k = a
  OBVIOUS
<1>2. (b + k) % n = IF (b % n) + k < n THEN (b % n) + k ELSE (b % n) + k - n
  BY <1>1, RingSlot
<1>3. a % n \in Nat /\ a % n < n /\ b % n \in Nat /\ b % n < n
  BY ModRange
<1> QED
  BY <1>1, <1>2, <1>3

\* A small difference, or one less a whole turn, reduced.
LEMMA ModTurn ==
  ASSUME NEW n \in Nat \ {0}, NEW d \in Nat, d < n
  PROVE  d % n = d /\ (d - n) % n = d
<1>1. d = n * 0 + d /\ d - n = n * (-1) + d
  OBVIOUS
<1> QED
  BY SMT

\* Unsigned subtraction gives the true difference, or what is missing to a
\* whole turn.
LEMMA MinusExact ==
  ASSUME NEW a \in Nat, NEW b \in Nat, b <= a, a - b < 2 * HALF
  PROVE  minus(a, b) = a - b /\ (b < a => minus(b, a) = 2 * HALF - (a - b))
<1> DEFINE n == 2 * HALF
           x == (a % n) - (b % n)
           d == a - b
           e == n - d
<1>1. n \in Nat \ {0} /\ d \in Nat /\ d < n
  BY HalfAssumption
<1>2. x = d \/ x = d - n
  BY <1>1, WrapDiff
<1>3. minus(a, b) = x % n /\ minus(b, a) = ((b % n) - (a % n)) % n
  BY DEF minus, uint32
<1>4. a % n \in Int /\ b % n \in Int
  BY <1>1, ModRange
<1> HIDE DEF n
<1>5. (b % n) - (a % n) = -x
  BY <1>4
<1> HIDE DEF x
<1>6. d % n = d /\ (d - n) % n = d
  BY <1>1, ModTurn
<1>7. ASSUME b < a PROVE (-x) % n = e
  <2>1. e \in Nat /\ e < n
    BY <1>1, <1>7
  <2>2. e % n = e /\ (e - n) % n = e
    BY <1>1, <2>1, ModTurn
  <2>3. -x = e - n \/ -x = e
    BY <1>1, <1>2
  <2> QED
    BY <2>2, <2>3
<1> QED
  BY <1>2, <1>3, <1>5, <1>6, <1>7 DEF n

\* The macros decide as the true numbers do when these are less than half the
\* number space apart.
LEMMA SeqOrder ==
  ASSUME NEW a \in Nat, NEW b \in Nat, a - b < HALF, b - a < HALF
  PROVE  /\ SEQ_LT(a, b) <=> a < b
         /\ SEQ_LEQ(a, b) <=> a <= b
         /\ SEQ_GT(a, b) <=> a > b
         /\ SEQ_GEQ(a, b) <=> a >= b
<1>1. CASE b <= a
  <2>1. minus(a, b) = a - b
    BY <1>1, HalfAssumption, MinusExact
  <2> QED
    BY <1>1, <2>1, HalfAssumption DEF SEQ_LT, SEQ_LEQ, SEQ_GT, SEQ_GEQ
<1>2. CASE a < b
  <2>1. minus(a, b) = 2 * HALF - (b - a)
    BY <1>2, HalfAssumption, MinusExact
  <2> QED
    BY <1>2, <2>1, HalfAssumption DEF SEQ_LT, SEQ_LEQ, SEQ_GT, SEQ_GEQ
<1> QED
  BY <1>1, <1>2

\* They are stored alike only if they are equal.
LEMMA SeqSame ==
  ASSUME NEW a \in Nat, NEW b \in Nat, a - b < HALF, b - a < HALF
  PROVE  uint32(a) = uint32(b) <=> a = b
<1> SUFFICES ASSUME uint32(a) = uint32(b) PROVE a = b
  OBVIOUS
<1>1. 2 * HALF \in Nat \ {0} /\ HALF \in Nat
  BY HalfAssumption
<1>2. minus(a, b) = 0 /\ minus(b, a) = 0
  <2>1. uint32(a) \in Nat
    BY <1>1, ModRange DEF uint32
  <2>2. 0 % (2 * HALF) = 0
    BY <1>1, ModTurn
  <2> QED
    BY <2>1, <2>2 DEF minus
<1> QED
  BY <1>1, <1>2, MinusExact

\* Division with remainder.
LEMMA DivMod ==
  ASSUME NEW a \in Nat, NEW b \in Nat \ {0}
  PROVE  /\ a \div b \in Int /\ a % b \in Nat /\ a % b \in 0 .. b - 1
         /\ a = b * (a \div b) + (a % b)
  BY SMT

\* The slot of a stream position is that of its stored value, if the ring
\* divides the number space.
LEMMA StoredSlot ==
  ASSUME NEW n \in Nat \ {0}, (2 * HALF) % n = 0, NEW pos \in Nat
  PROVE  uint32(pos) \in Nat /\ uint32(pos) % n = pos % n
<1> DEFINE m == 2 * HALF
           q == pos \div m
           x == pos % m
           c == m \div n
           d == x \div n
           y == x % n
<1>1. m \in Nat \ {0} /\ m % n = 0
  BY HalfAssumption
<1>5. uint32(pos) = x
  BY DEF uint32
<1> HIDE DEF m
<1>2. q \in Int /\ x \in Nat /\ pos = m * q + x
  BY <1>1, DivMod
<1>3. c \in Int /\ m = n * c
  BY <1>1, DivMod
<1> HIDE DEF x
<1>4. d \in Int /\ y \in 0 .. n - 1 /\ x = n * d + y
  BY <1>2, DivMod
<1> HIDE DEF q, c, d, y
<1>6. c * q \in Int /\ c * q + d \in Int
  BY <1>2, <1>3, <1>4
<1>7. pos = n * (c * q + d) + y
  BY <1>2, <1>3, <1>4, <1>6
<1>8. pos % n = y
  BY <1>4, <1>6, <1>7, ModUnique
<1> QED
  BY <1>2, <1>5, <1>8 DEF y
=============================================================================
