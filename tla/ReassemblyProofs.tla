-------------------------- MODULE ReassemblyProofs --------------------------
(***************************************************************************)
(* The list walks of ReassemblyLoops implement the set operations of       *)
(* Receiver, for every buffer size, MSS and stream length and every number *)
(* width the ring divides.                                                 *)
(***************************************************************************)
EXTENDS ReassemblyLoops, ReceiverProofs

-----------------------------------------------------------------------------
\* The ring

\* How far slot i lies behind slot p, going round the ring.
Behind(i, p, n) == IF i >= p THEN i - p ELSE i - p + n

\* What slot i holds after a write: the byte that lies as far behind the first
\* one as the slot lies behind the offset, if there is one.
Overlaid(ring, n, offset, src, i) ==
  LET d == Behind(i, offset % n, n)
  IN  IF d < Len(src) THEN src[d + 1] ELSE ring[i]

LEMMA WriteSlot ==
  ASSUME NEW n \in Nat \ {0}, NEW ring \in [0 .. n - 1 -> Nat], NEW offset \in Nat,
         NEW src \in Seq(Nat), Len(src) <= n, NEW i \in 0 .. n - 1
  PROVE  ring_buf_write(ring, n, offset, src)[i] = Overlaid(ring, n, offset, src, i)
<1> DEFINE p == offset % n
           d == Behind(i, p, n)
           len == Len(src)
           after == ring_buf_write(ring, n, offset, src)
<1>1. p \in Nat /\ p < n /\ len \in Nat /\ len <= n
  BY ModRange
<1>2. after[i] = CASE i >= p /\ i < p + len -> src[i - p + 1]
                   [] i < p /\ i < len - (n - p) -> src[(n - p) + i + 1]
                   [] OTHER -> ring[i]
  BY DEF ring_buf_write
<1> HIDE DEF p, len, after
<1>3. CASE i >= p
  <2>1. d = i - p /\ (i < p + len <=> d < len) /\ i - p + 1 = d + 1 /\ ~(i < p)
    BY <1>1, <1>3 DEF Behind
  <2> QED
    BY <1>2, <1>3, <2>1 DEF p, len, after, Overlaid
<1>4. CASE i < p
  <2>1. /\ d = i - p + n /\ (i < len - (n - p) <=> d < len) /\ (n - p) + i + 1 = d + 1
        /\ ~(i >= p)
    BY <1>1, <1>4 DEF Behind
  <2> QED
    BY <1>2, <1>4, <2>1 DEF p, len, after, Overlaid
<1> QED
  BY <1>1, <1>3, <1>4

\* Writing no bytes changes nothing.
LEMMA WriteNothing ==
  ASSUME NEW n \in Nat \ {0}, NEW ring \in [0 .. n - 1 -> Nat], NEW offset \in Nat,
         NEW src \in Seq(Nat), src = <<>>
  PROVE  ring_buf_write(ring, n, offset, src) = ring
<1>1. Len(src) <= n
  OBVIOUS
<1>2. ring_buf_write(ring, n, offset, src) \in [0 .. n - 1 -> Nat]
  BY WriteType
<1>3. ASSUME NEW i \in 0 .. n - 1 PROVE ring_buf_write(ring, n, offset, src)[i] = ring[i]
  <2> DEFINE p == offset % n
             d == Behind(i, p, n)
  <2>1. p \in Nat /\ p < n
    BY ModRange
  <2>2. ring_buf_write(ring, n, offset, src)[i] = Overlaid(ring, n, offset, src, i)
    BY <1>1, WriteSlot
  <2> HIDE DEF p
  <2>3. ~(d < Len(src))
    BY <2>1 DEF Behind
  <2> QED
    BY <2>2, <2>3 DEF Overlaid, p
<1> QED
  BY <1>2, <1>3

\* Two writes, one behind the other, are one write of both.
LEMMA WriteTwice ==
  ASSUME NEW n \in Nat \ {0}, NEW ring \in [0 .. n - 1 -> Nat], NEW offset \in Nat,
         NEW a \in Seq(Nat), NEW b \in Seq(Nat), Len(a) + Len(b) <= n
  PROVE  ring_buf_write(ring_buf_write(ring, n, offset, a), n, offset + Len(a), b)
           = ring_buf_write(ring, n, offset, a \o b)
<1> DEFINE la == Len(a)
           lb == Len(b)
           one == ring_buf_write(ring, n, offset, a)
           two == ring_buf_write(one, n, offset + la, b)
           both == ring_buf_write(ring, n, offset, a \o b)
<1>1. la \in Nat /\ lb \in Nat /\ la <= n /\ lb <= n /\ offset + la \in Nat
  OBVIOUS
<1>2. a \o b \in Seq(Nat) /\ Len(a \o b) = la + lb
  OBVIOUS
<1>3. one \in [0 .. n - 1 -> Nat]
  BY WriteType
<1>4. both \in [0 .. n - 1 -> Nat]
  BY <1>2, WriteType
<1> HIDE DEF la, one
<1>5. two \in [0 .. n - 1 -> Nat]
  BY <1>1, <1>3, WriteType
<1>6. CASE la = n
  <2>1. b = <<>>
    BY <1>1, <1>6 DEF la
  <2>2. a \o b = a
    BY <2>1
  <2>3. two = one
    BY <1>1, <1>3, <2>1, WriteNothing
  <2> QED
    BY <2>2, <2>3 DEF one, la
<1>7. CASE la < n
  <2>4. \A i \in 0 .. n - 1 : two[i] = Overlaid(one, n, offset + la, b, i)
    <3> DEFINE at == offset + la
    <3>1. Len(b) <= n /\ at \in Nat
      BY <1>1
    <3>2. two = ring_buf_write(one, n, at, b)
      OBVIOUS
    <3> HIDE DEF at, two, both
    <3>3. \A i \in 0 .. n - 1 : ring_buf_write(one, n, at, b)[i] = Overlaid(one, n, at, b, i)
      BY <1>3, <3>1, WriteSlot
    <3> QED
      BY <3>2, <3>3 DEF at
  <2> DEFINE p == offset % n
             q == (offset + la) % n
  <2>1. p \in Nat /\ p < n
    BY ModRange
  <2>2. q = IF p + la < n THEN p + la ELSE p + la - n
    BY <1>1, <1>7, RingSlot
  <2>3. ASSUME NEW i \in 0 .. n - 1 PROVE two[i] = both[i]
    <3> DEFINE d == Behind(i, p, n)
               e == Behind(i, q, n)
    <3>1. two[i] = IF e < lb THEN b[e + 1] ELSE one[i]
      BY <2>4 DEF Overlaid
    <3>2. one[i] = IF d < la THEN a[d + 1] ELSE ring[i]
      <4>1. Len(a) <= n
        BY <1>1 DEF la
      <4> QED
        BY <4>1, WriteSlot DEF Overlaid, one, la
    <3>3. both[i] = IF d < Len(a \o b) THEN (a \o b)[d + 1] ELSE ring[i]
      <4>1. Len(a \o b) <= n
        BY <1>2
      <4> QED
        BY <1>2, <4>1, WriteSlot DEF Overlaid
    <3> HIDE DEF p, q, two, both, lb
    <3>4. d \in Nat /\ d < n
      BY <2>1 DEF Behind
    <3>5. e = IF d >= la THEN d - la ELSE d - la + n
      BY <1>1, <1>7, <2>1, <2>2 DEF Behind
    <3> HIDE DEF d, e
    <3>6. CASE d < la
      <4>1. ~(e < lb) /\ d < la + lb
        BY <1>1, <3>4, <3>5, <3>6 DEF la, lb
      <4>2. (a \o b)[d + 1] = a[d + 1]
        BY <3>4, <3>6 DEF la
      <4> QED
        BY <1>2, <3>1, <3>2, <3>3, <3>6, <4>1, <4>2
    <3>7. CASE d >= la /\ d < la + lb
      <4>1. e < lb /\ e = d - la /\ ~(d < la)
        BY <1>1, <3>4, <3>5, <3>7
      <4>2. (a \o b)[d + 1] = b[(d + 1) - la]
        BY <1>1, <3>4, <3>7 DEF la, lb
      <4>3. (d + 1) - la = e + 1
        BY <1>1, <3>4, <4>1
      <4> QED
        BY <1>2, <3>1, <3>3, <3>7, <4>1, <4>2, <4>3
    <3>8. CASE d >= la + lb
      <4>1. ~(e < lb) /\ ~(d < la) /\ ~(d < la + lb)
        BY <1>1, <3>4, <3>5, <3>8
      <4> QED
        BY <1>2, <3>1, <3>2, <3>3, <4>1
    <3> QED
      BY <1>1, <3>4, <3>6, <3>7, <3>8
  <2> QED
    BY <1>4, <1>5, <2>3 DEF one, la
<1> QED
  BY <1>1, <1>6, <1>7

\* The code hands the ring functions a stored position, reduced to its width.
LEMMA WriteStored ==
  ASSUME NEW ring, NEW pos \in Nat, NEW src
  PROVE  ring_buf_write(ring, RECV_BUF_SIZE, uint32(pos), src)
           = ring_buf_write(ring, RECV_BUF_SIZE, pos, src)
<1>1. uint32(pos) % RECV_BUF_SIZE = pos % RECV_BUF_SIZE
  BY RecvAssumption, WidthAssumption, StoredSlot
<1> QED
  BY <1>1 DEF ring_buf_write

\* A piece of the stream and the piece behind it.
LEMMA StreamAppend ==
  ASSUME NEW a \in Nat \ {0}, NEW k \in Nat, NEW m \in Nat
  PROVE  Stream(a, k) \o Stream(a + k, m) = Stream(a, k + m)
<1> DEFINE s == Stream(a, k)
           u == Stream(a + k, m)
           v == Stream(a, k + m)
<1>1. a + k \in Nat \ {0} /\ k + m \in Nat
  OBVIOUS
<1>2. /\ s \in Seq(Nat) /\ Len(s) = k /\ u \in Seq(Nat) /\ Len(u) = m
      /\ v \in Seq(Nat) /\ Len(v) = k + m
  BY <1>1, StreamType
<1>3. /\ \A i \in 1 .. k : s[i] = a + i - 1
      /\ \A i \in 1 .. m : u[i] = a + k + i - 1
      /\ \A i \in 1 .. k + m : v[i] = a + i - 1
  BY DEF Stream
<1> HIDE DEF s, u, v
<1>4. /\ s \o u \in Seq(Nat) /\ Len(s \o u) = k + m
      /\ \A i \in 1 .. k + m : (s \o u)[i] = IF i <= k THEN s[i] ELSE u[i - k]
  BY <1>2, ConcatProperties
<1>5. ASSUME NEW i \in 1 .. k + m PROVE (s \o u)[i] = v[i]
  <2>1. CASE i <= k
    BY <1>3, <1>4, <2>1
  <2>2. CASE ~(i <= k)
    <3>1. i - k \in 1 .. m
      BY <2>2
    <3>2. u[i - k] = a + k + (i - k) - 1
      BY <1>3, <3>1
    <3> QED
      BY <1>3, <1>4, <2>2, <3>2
  <2> QED
    BY <2>1, <2>2
<1>6. s \o u = v
  BY <1>2, <1>4, <1>5, SeqEqual
<1> QED
  BY <1>6 DEF s, u, v

-----------------------------------------------------------------------------
\* Lists of entries

\* Every entry ends before the next one starts.
Sorted(l) == \A i, j \in DOMAIN l : i < j => EndOf(l[i]) <= l[j].seq

\* A piece of the stream that is not empty.
InRange(e) == 1 <= e.seq /\ e.seq < EndOf(e) /\ EndOf(e) <= StreamLen + 1

ListOk(l) == l \in Seq(Entries) /\ Sorted(l) /\ \A e \in entries(l) : InRange(e)

\* The bytes a list holds.
Count(l) == Cardinality(Bytes(entries(l)))

\* An entry of a list, and its bounds.
LEMMA ListEntry ==
  ASSUME NEW l, ListOk(l), NEW e \in entries(l)
  PROVE  /\ e \in Entries /\ e.seq \in Nat /\ EndOf(e) \in Nat /\ Len(e.data) \in Nat
         /\ e.data \in Seq(Nat) /\ EndOf(e) = e.seq + Len(e.data)
         /\ 1 <= e.seq /\ e.seq < EndOf(e) /\ EndOf(e) <= StreamLen + 1
         /\ \A n : n \in Span(e) <=> n \in Nat /\ e.seq <= n /\ n < EndOf(e)
<1>1. l \in Seq(Entries) /\ InRange(e)
  BY DEF ListOk
<1>2. e \in Entries
  BY <1>1 DEF entries
<1> QED
  BY <1>1, <1>2, EntryBounds DEF InRange

LEMMA EmptyList == ListOk(<<>>) /\ entries(<<>>) = {}
<1>1. <<>> \in Seq(Entries) /\ DOMAIN <<>> = {}
  OBVIOUS
<1>2. entries(<<>>) = {}
  BY <1>1 DEF entries
<1> QED
  BY <1>1, <1>2 DEF ListOk, Sorted

LEMMA OneList ==
  ASSUME NEW e \in Entries, InRange(e)
  PROVE  ListOk(<<e>>) /\ entries(<<e>>) = {e}
<1>1. <<e>> \in Seq(Entries) /\ DOMAIN <<e>> = {1} /\ <<e>>[1] = e
  OBVIOUS
<1>2. entries(<<e>>) = {e}
  BY <1>1 DEF entries
<1> QED
  BY <1>1, <1>2 DEF ListOk, Sorted

\* Two lists, the first of which ends before the second starts.
LEMMA ConcatList ==
  ASSUME NEW a, ListOk(a), NEW b, ListOk(b),
         \A x \in entries(a), y \in entries(b) : EndOf(x) <= y.seq
  PROVE  ListOk(a \o b) /\ entries(a \o b) = entries(a) \cup entries(b)
<1> DEFINE l == a \o b
           m == Len(a)
           n == Len(b)
<1>1. a \in Seq(Entries) /\ b \in Seq(Entries)
  BY DEF ListOk
<1>2. m \in Nat /\ n \in Nat /\ DOMAIN a = 1 .. m /\ DOMAIN b = 1 .. n
  BY <1>1
<1>3. /\ l \in Seq(Entries) /\ Len(l) = m + n
      /\ \A i \in 1 .. m + n : l[i] = IF i <= m THEN a[i] ELSE b[i - m]
  BY <1>1, ConcatProperties
<1>4. DOMAIN l = 1 .. m + n
  BY <1>3
<1> HIDE DEF l, m, n
<1>5. ASSUME NEW i \in 1 .. m + n
      PROVE  \/ i <= m /\ i \in 1 .. m /\ l[i] = a[i] /\ l[i] \in entries(a)
             \/ ~(i <= m) /\ i - m \in 1 .. n /\ l[i] = b[i - m] /\ l[i] \in entries(b)
  <2>1. CASE i <= m
    <3>1. i \in 1 .. m /\ l[i] = a[i]
      BY <1>2, <1>3, <2>1
    <3> QED
      BY <1>2, <2>1, <3>1 DEF entries
  <2>2. CASE ~(i <= m)
    <3>1. i - m \in 1 .. n /\ l[i] = b[i - m]
      BY <1>2, <1>3, <2>2
    <3> QED
      BY <1>2, <2>2, <3>1 DEF entries
  <2> QED
    BY <2>1, <2>2
<1>6. entries(l) \subseteq entries(a) \cup entries(b)
  <2> SUFFICES ASSUME NEW e \in entries(l) PROVE e \in entries(a) \cup entries(b)
    OBVIOUS
  <2>1. PICK i \in 1 .. m + n : e = l[i]
    BY <1>4 DEF entries
  <2> QED
    BY <1>5, <2>1
<1>7. entries(a) \subseteq entries(l)
  <2> SUFFICES ASSUME NEW i \in 1 .. m PROVE a[i] \in entries(l)
    BY <1>2 DEF entries
  <2>1. i \in 1 .. m + n /\ i <= m
    BY <1>2
  <2>2. l[i] = a[i]
    BY <1>3, <2>1
  <2> QED
    BY <1>4, <2>1, <2>2 DEF entries
<1>8. entries(b) \subseteq entries(l)
  <2> SUFFICES ASSUME NEW i \in 1 .. n PROVE b[i] \in entries(l)
    BY <1>2 DEF entries
  <2> DEFINE j == m + i
  <2>1. j \in 1 .. m + n /\ ~(j <= m) /\ j - m = i
    BY <1>2
  <2> HIDE DEF j
  <2>2. l[j] = b[i]
    BY <1>3, <2>1
  <2> QED
    BY <1>4, <2>1, <2>2 DEF entries
<1>9. Sorted(l)
  <2> SUFFICES ASSUME NEW i \in 1 .. m + n, NEW j \in 1 .. m + n, i < j
               PROVE  EndOf(l[i]) <= l[j].seq
    BY <1>4 DEF Sorted
  <2>1. CASE j <= m
    <3>1. i <= m
      BY <1>2, <2>1
    <3>2. i \in 1 .. m /\ j \in 1 .. m /\ l[i] = a[i] /\ l[j] = a[j]
      BY <1>5, <2>1, <3>1
    <3>3. Sorted(a)
      BY DEF ListOk
    <3> QED
      BY <1>2, <3>2, <3>3 DEF Sorted
  <2>2. CASE i <= m /\ ~(j <= m)
    <3>1. l[i] \in entries(a) /\ l[j] \in entries(b)
      BY <1>5, <2>2
    <3> QED
      BY <3>1
  <2>3. CASE ~(i <= m)
    <3>1. ~(j <= m) /\ i - m < j - m
      BY <1>2, <2>3
    <3>2. i - m \in 1 .. n /\ j - m \in 1 .. n /\ l[i] = b[i - m] /\ l[j] = b[j - m]
      BY <1>5, <2>3, <3>1
    <3>3. Sorted(b)
      BY DEF ListOk
    <3>4. EndOf(b[i - m]) <= b[j - m].seq
      BY <1>2, <3>1, <3>2, <3>3 DEF Sorted
    <3> QED
      BY <3>2, <3>4
  <2> QED
    BY <2>1, <2>2, <2>3
<1>10. entries(l) = entries(a) \cup entries(b)
  BY <1>6, <1>7, <1>8
<1>11. \A e \in entries(l) : InRange(e)
  BY <1>10 DEF ListOk
<1> QED
  BY <1>3, <1>9, <1>10, <1>11 DEF ListOk, l

\* A list taken apart.
LEMMA HeadTailList ==
  ASSUME NEW l, ListOk(l), l # <<>>
  PROVE  /\ Head(l) \in entries(l) /\ InRange(Head(l)) /\ ListOk(Tail(l))
         /\ entries(l) = {Head(l)} \cup entries(Tail(l))
         /\ \A f \in entries(Tail(l)) : EndOf(Head(l)) <= f.seq
<1> DEFINE t == Tail(l)
           n == Len(l)
<1>1. l \in Seq(Entries) /\ Sorted(l)
  BY DEF ListOk
<1>2. n \in Nat \ {0} /\ DOMAIN l = 1 .. n /\ Head(l) = l[1]
  BY <1>1, EmptySeq
<1>3. /\ t \in Seq(Entries) /\ Len(t) = n - 1
      /\ \A i \in 1 .. n - 1 : t[i] = l[i + 1]
  BY <1>1, HeadTailProperties
<1>4. DOMAIN t = 1 .. n - 1
  BY <1>3
<1> HIDE DEF t, n
<1>5. Head(l) \in entries(l)
  BY <1>2 DEF entries
<1>6. entries(t) \subseteq entries(l)
  <2> SUFFICES ASSUME NEW i \in 1 .. n - 1 PROVE t[i] \in entries(l)
    BY <1>4 DEF entries
  <2>1. i + 1 \in 1 .. n /\ t[i] = l[i + 1]
    BY <1>2, <1>3
  <2> QED
    BY <1>2, <2>1 DEF entries
<1>7. entries(l) \subseteq {Head(l)} \cup entries(t)
  <2> SUFFICES ASSUME NEW i \in 1 .. n, i # 1 PROVE l[i] \in entries(t)
    BY <1>2 DEF entries
  <2> DEFINE j == i - 1
  <2>1. j \in 1 .. n - 1 /\ j + 1 = i
    BY <1>2
  <2> HIDE DEF j
  <2> QED
    BY <1>3, <1>4, <2>1 DEF entries
<1>8. Sorted(t)
  <2> SUFFICES ASSUME NEW i \in 1 .. n - 1, NEW j \in 1 .. n - 1, i < j
               PROVE  EndOf(t[i]) <= t[j].seq
    BY <1>4 DEF Sorted
  <2>1. /\ i + 1 \in 1 .. n /\ j + 1 \in 1 .. n /\ i + 1 < j + 1
        /\ t[i] = l[i + 1] /\ t[j] = l[j + 1]
    BY <1>2, <1>3
  <2>2. EndOf(l[i + 1]) <= l[j + 1].seq
    BY <1>1, <1>2, <2>1 DEF Sorted
  <2> QED
    BY <2>1, <2>2
<1>9. ASSUME NEW f \in entries(t) PROVE EndOf(Head(l)) <= f.seq
  <2>1. PICK i \in 1 .. n - 1 : f = t[i]
    BY <1>4 DEF entries
  <2>2. 1 \in 1 .. n /\ i + 1 \in 1 .. n /\ 1 < i + 1 /\ t[i] = l[i + 1]
    BY <1>2, <1>3
  <2>3. EndOf(l[1]) <= l[i + 1].seq
    BY <1>1, <1>2, <2>2 DEF Sorted
  <2> QED
    BY <1>2, <2>1, <2>2, <2>3
<1>10. InRange(Head(l)) /\ \A e \in entries(t) : InRange(e)
  BY <1>5, <1>6 DEF ListOk
<1>11. ListOk(t)
  BY <1>3, <1>8, <1>10 DEF ListOk
<1> QED
  BY <1>5, <1>6, <1>7, <1>9, <1>10, <1>11 DEF t

\* The entries of a list make a sound queue.
LEMMA ListSound ==
  ASSUME NEW l, ListOk(l)
  PROVE  Sound(entries(l))
<1>1. l \in Seq(Entries) /\ Sorted(l)
  BY DEF ListOk
<1>2. Len(l) \in Nat /\ DOMAIN l = 1 .. Len(l)
  BY <1>1
<1>3. \A e \in entries(l) : e \in Entries /\ 1 <= e.seq /\ e.seq < EndOf(e) /\ EndOf(e) <= StreamLen + 1
  BY ListEntry
<1>4. ASSUME NEW e \in entries(l), NEW f \in entries(l), e # f PROVE Span(e) \cap Span(f) = {}
  <2>1. PICK i \in 1 .. Len(l) : e = l[i]
    BY <1>2 DEF entries
  <2>2. PICK j \in 1 .. Len(l) : f = l[j]
    BY <1>2 DEF entries
  <2>3. i < j \/ j < i
    BY <1>2, <1>4, <2>1, <2>2
  <2>4. EndOf(e) <= f.seq \/ EndOf(f) <= e.seq
    BY <1>1, <1>2, <2>1, <2>2, <2>3 DEF Sorted
  <2>5. /\ e.seq \in Nat /\ EndOf(e) \in Nat /\ f.seq \in Nat /\ EndOf(f) \in Nat
        /\ \A n : n \in Span(e) <=> n \in Nat /\ e.seq <= n /\ n < EndOf(e)
        /\ \A n : n \in Span(f) <=> n \in Nat /\ f.seq <= n /\ n < EndOf(f)
    BY ListEntry
  <2> QED
    BY <2>4, <2>5
<1> QED
  BY <1>3, <1>4 DEF Sound, Disjoint

\* Bytes of two parts of a queue that do not overlap.
LEMMA PartsCount ==
  ASSUME NEW p, Sound(p), NEW q, Sound(q),
         \A e \in p, f \in q : Span(e) \cap Span(f) = {}
  PROVE  /\ Cardinality(Bytes(p)) \in Nat /\ Cardinality(Bytes(q)) \in Nat
         /\ Cardinality(Bytes(p \cup q)) = Cardinality(Bytes(p)) + Cardinality(Bytes(q))
<1>1. /\ IsFiniteSet(Bytes(p)) /\ IsFiniteSet(Bytes(q))
      /\ Cardinality(Bytes(p)) \in Nat /\ Cardinality(Bytes(q)) \in Nat
  BY BytesFinite
<1>2. Bytes(p) \cap Bytes(q) = {}
  BY DEF Bytes
<1>3. Bytes(p \cup q) = Bytes(p) \cup Bytes(q)
  BY DEF Bytes
<1> QED
  BY <1>1, <1>2, <1>3, AddBytes

\* Two lists of which the first ends before the second starts.
LEMMA ListsCount ==
  ASSUME NEW a, ListOk(a), NEW b, ListOk(b),
         \A x \in entries(a), y \in entries(b) : EndOf(x) <= y.seq
  PROVE  /\ Count(a) \in Nat /\ Count(b) \in Nat
         /\ Cardinality(Bytes(entries(a) \cup entries(b))) = Count(a) + Count(b)
<1>1. Sound(entries(a)) /\ Sound(entries(b))
  BY ListSound
<1>2. ASSUME NEW x \in entries(a), NEW y \in entries(b) PROVE Span(x) \cap Span(y) = {}
  <2>1. /\ EndOf(x) <= y.seq /\ y.seq \in Nat /\ EndOf(x) \in Nat
        /\ \A n : n \in Span(x) <=> n \in Nat /\ x.seq <= n /\ n < EndOf(x)
        /\ \A n : n \in Span(y) <=> n \in Nat /\ y.seq <= n /\ n < EndOf(y)
    BY ListEntry
  <2> QED
    BY <2>1
<1> QED
  BY <1>1, <1>2, PartsCount DEF Count

LEMMA OneCount ==
  ASSUME NEW e \in Entries, InRange(e)
  PROVE  Count(<<e>>) = Len(e.data) /\ Len(e.data) \in Nat
<1>1. entries(<<e>>) = {e}
  BY OneList
<1>2. Bytes({e}) = Span(e)
  BY DEF Bytes
<1>3. Len(e.data) \in Nat
  BY EntryBounds
<1> QED
  BY <1>1, <1>2, <1>3, SpanCount DEF Count

\* The bytes of a list are those of its head and of its tail.
LEMMA HeadCount ==
  ASSUME NEW l, ListOk(l), l # <<>>
  PROVE  /\ Count(l) = Len(Head(l).data) + Count(Tail(l))
         /\ Count(l) \in Nat /\ Count(Tail(l)) \in Nat /\ Len(Head(l).data) \in Nat
<1> DEFINE e == Head(l)
           t == Tail(l)
<1>1. /\ e \in entries(l) /\ InRange(e) /\ ListOk(t) /\ entries(l) = {e} \cup entries(t)
      /\ \A f \in entries(t) : EndOf(e) <= f.seq
  BY HeadTailList
<1> HIDE DEF e, t
<1>2. e \in Entries
  BY <1>1, ListEntry
<1>3. ListOk(<<e>>) /\ entries(<<e>>) = {e}
  BY <1>1, <1>2, OneList
<1>4. \A x \in entries(<<e>>), y \in entries(t) : EndOf(x) <= y.seq
  BY <1>1, <1>3
<1>5. Count(t) \in Nat /\ Cardinality(Bytes({e} \cup entries(t))) = Count(<<e>>) + Count(t)
  BY <1>1, <1>3, <1>4, ListsCount
<1>6. Count(<<e>>) = Len(e.data) /\ Len(e.data) \in Nat
  BY <1>1, <1>2, OneCount
<1> QED
  BY <1>1, <1>5, <1>6 DEF Count, e, t

-----------------------------------------------------------------------------
\* Cutting the front off an entry

LEMMA CutEntry ==
  ASSUME NEW e \in Entries, NEW x \in Nat, e.seq <= x
  PROVE  cut(e, x - e.seq) = TrimFront(e, x)
<1>1. e.seq \in Nat
  BY DEF Entries
<1>2. e.seq + (x - e.seq) = x
  BY <1>1
<1> QED
  BY <1>2 DEF cut, TrimFront

LEMMA CutNothing ==
  ASSUME NEW e \in Entries
  PROVE  cut(e, 0) = e
<1>1. e.seq \in Nat /\ e.data \in Seq(Nat) /\ e = [seq |-> e.seq, data |-> e.data]
  BY DEF Entries
<1>2. e.seq + 0 = e.seq /\ 0 + 1 = 1
  BY <1>1
<1>3. SubSeq(e.data, 1, Len(e.data)) = e.data
  BY <1>1, SubSeqFull
<1> QED
  BY <1>1, <1>2, <1>3 DEF cut

-----------------------------------------------------------------------------
\* drain_ooo_queue

\* All of a queue lies past nxt, and within half the number space.
NearQueue(nxt, q) == \A e \in q : nxt < e.seq /\ EndOf(e) <= nxt + HALF

\* The half t after the bytes up to x were moved into the ring and the entries
\* of l are left.
DrainedUpTo(t, x, l) ==
  [t EXCEPT !.recv_buf = ring_buf_write(t.recv_buf, RECV_BUF_SIZE, t.recv_buf_tail,
                                        Stream(t.rcv_nxt, x - t.rcv_nxt)),
            !.recv_buf_tail = x - 1, !.rcv_nxt = x, !.ooo_bytes = Count(l)]

\* Loop invariant of the drain: t is the half at its begin, l the list from
\* ooo_head on, x is rcv_nxt.  The bytes moved were all in the queue, and no
\* entry that reaches past x is lost.
Draining(t, x, l) ==
  /\ ListOk(l) /\ entries(l) \subseteq t.ooo
  /\ x \in Nat /\ t.rcv_nxt <= x /\ \A k \in t.rcv_nxt .. x - 1 : k \in Bytes(t.ooo)
  /\ \A e \in t.ooo : EndOf(e) > x => e \in entries(l)

\* Bytes that were all in the queue have room in the ring.
LEMMA DrainRoom ==
  ASSUME NEW t, GoodHalf(t), NEW m \in Nat, t.rcv_nxt <= m,
         \A k \in t.rcv_nxt .. m - 1 : k \in Bytes(t.ooo)
  PROVE  /\ m - t.rcv_nxt <= t.ooo_bytes
         /\ m - 1 - t.recv_buf_head <= RECV_BUF_SIZE
         /\ t.recv_buf_head <= m - 1 /\ m - 1 \in Nat /\ m - t.rcv_nxt <= RECV_BUF_SIZE
<1>1. t \in RecvHalves
  BY DEF GoodHalf
<1>2. /\ t.rcv_nxt \in Nat /\ t.recv_buf_head \in Nat /\ t.recv_buf_tail \in Nat
      /\ t.ooo_bytes \in Nat /\ RECV_BUF_SIZE \in Nat
  BY <1>1, HalfFields, RecvAssumption
<1>3. /\ 1 <= t.rcv_nxt /\ t.recv_buf_tail = t.rcv_nxt - 1
      /\ t.recv_buf_head <= t.recv_buf_tail
      /\ Sound(t.ooo) /\ t.ooo_bytes = Cardinality(Bytes(t.ooo))
      /\ t.recv_buf_tail - t.recv_buf_head + t.ooo_bytes <= RECV_BUF_SIZE
  BY DEF GoodHalf
<1>4. m - t.rcv_nxt <= t.ooo_bytes
  <2> DEFINE I == t.rcv_nxt .. m - 1
  <2>1. I \subseteq Bytes(t.ooo)
    OBVIOUS
  <2>2. IsFiniteSet(Bytes(t.ooo))
    BY <1>3, BytesFinite
  <2>3. Cardinality(I) <= Cardinality(Bytes(t.ooo))
    BY <2>1, <2>2, FS_Subset
  <2>4. Cardinality(I) = m - t.rcv_nxt
    <3>1. t.rcv_nxt \in Int /\ m - 1 \in Int
      BY <1>2
    <3>2. Cardinality(I) = IF t.rcv_nxt > m - 1 THEN 0 ELSE (m - 1) - t.rcv_nxt + 1
      BY <3>1, FS_Interval
    <3> HIDE DEF I
    <3> QED
      BY <1>2, <3>2
  <2> QED
    BY <1>3, <2>3, <2>4
<1> QED
  BY <1>2, <1>3, <1>4

\* The first entry of the list is redundant.
LEMMA RedundantStep ==
  ASSUME NEW t, NEW x, NEW l, Draining(t, x, l), l # <<>>, EndOf(Head(l)) <= x
  PROVE  Draining(t, x, Tail(l)) /\ Count(l) - Len(Head(l).data) = Count(Tail(l))
<1>1. ListOk(l)
  BY DEF Draining
<1>2. /\ Head(l) \in entries(l) /\ ListOk(Tail(l))
      /\ entries(l) = {Head(l)} \cup entries(Tail(l))
  BY <1>1, HeadTailList
<1>3. EndOf(Head(l)) \in Nat /\ x \in Nat
  BY <1>1, <1>2, ListEntry DEF Draining
<1>4. ~(EndOf(Head(l)) > x)
  BY <1>3
<1>5. \A e \in t.ooo : EndOf(e) > x => e \in entries(Tail(l))
  BY <1>2, <1>4 DEF Draining
<1>6. Count(l) - Len(Head(l).data) = Count(Tail(l))
  BY <1>1, HeadCount
<1> QED
  BY <1>2, <1>5, <1>6 DEF Draining

\* The first entry of the list continues the stream: all of it is passed.
LEMMA NextStep ==
  ASSUME NEW t, GoodHalf(t), NEW x, NEW l, Draining(t, x, l), l # <<>>,
         Head(l).seq <= x, x < EndOf(Head(l))
  PROVE  /\ Draining(t, EndOf(Head(l)), Tail(l))
         /\ Count(l) - Len(Head(l).data) = Count(Tail(l))
<1> DEFINE f == Head(l)
           y == EndOf(Head(l))
<1>1. ListOk(l) /\ x \in Nat /\ t.rcv_nxt <= x /\ entries(l) \subseteq t.ooo
  BY DEF Draining
<1>2. /\ f \in entries(l) /\ ListOk(Tail(l)) /\ entries(l) = {f} \cup entries(Tail(l))
  BY <1>1, HeadTailList
<1>3. y \in Nat /\ f.seq \in Nat /\ \A n : n \in Span(f) <=> n \in Nat /\ f.seq <= n /\ n < y
  BY <1>1, <1>2, ListEntry
<1>4. t.rcv_nxt \in Nat
  BY HalfFields DEF GoodHalf
<1>5. ASSUME NEW k \in t.rcv_nxt .. y - 1 PROVE k \in Bytes(t.ooo)
  <2>1. CASE k < x
    <3>1. k \in t.rcv_nxt .. x - 1
      BY <1>1, <1>3, <1>4, <2>1
    <3> QED
      BY <3>1 DEF Draining
  <2>2. CASE ~(k < x)
    <3>1. k \in Span(f)
      BY <1>1, <1>3, <1>4, <2>2
    <3>2. f \in t.ooo
      BY <1>1, <1>2
    <3> HIDE DEF f
    <3> QED
      BY <3>1, <3>2 DEF Bytes
  <2> QED
    BY <2>1, <2>2
<1>6. t.rcv_nxt <= y
  BY <1>1, <1>3, <1>4
<1>7. ASSUME NEW e \in t.ooo, EndOf(e) > y PROVE e \in entries(Tail(l))
  <2>1. e \in Entries
    BY DEF GoodHalf, Sound
  <2>2. EndOf(e) \in Nat
    BY <2>1, EntryBounds
  <2>3. EndOf(e) > x /\ e # f
    BY <1>1, <1>3, <1>7, <2>2
  <2>4. e \in entries(l)
    BY <2>3 DEF Draining
  <2> QED
    BY <1>2, <2>3, <2>4
<1>8. Count(l) - Len(f.data) = Count(Tail(l))
  BY <1>1, HeadCount
<1>9. entries(Tail(l)) \subseteq t.ooo
  BY <1>1, <1>2
<1> QED
  BY <1>2, <1>3, <1>5, <1>6, <1>7, <1>8, <1>9 DEF Draining

\* The half after the fresh bytes of the first entry were stored as well; m is
\* the list then left.
Moved(t, x, l, m) ==
  [stored(DrainedUpTo(t, x, l), TrimFront(Head(l), x).data) EXCEPT !.ooo_bytes = Count(m)]

\* They are the next ones of the stream, and go behind the others.
LEMMA NextWrite ==
  ASSUME NEW t, GoodHalf(t), TrueHalf(t), NEW x, NEW l, NEW m, Draining(t, x, l), l # <<>>,
         Head(l).seq <= x, x < EndOf(Head(l))
  PROVE  Moved(t, x, l, m) = DrainedUpTo(t, EndOf(Head(l)), m)
<1> DEFINE f == Head(l)
           y == EndOf(Head(l))
           d == TrimFront(Head(l), x).data
           n == t.rcv_nxt
           N == RECV_BUF_SIZE
           buf == t.recv_buf
           tail == t.recv_buf_tail
           h == DrainedUpTo(t, x, l)
<1>1. ListOk(l) /\ x \in Nat /\ n <= x /\ entries(l) \subseteq t.ooo
  BY DEF Draining
<1>2. f \in entries(l)
  BY <1>1, HeadTailList
<1>3. y \in Nat /\ f.seq \in Nat /\ f \in Entries /\ 1 <= f.seq /\ f.seq <= x /\ x < y
  BY <1>1, <1>2, ListEntry
<1>4. t \in RecvHalves
  BY DEF GoodHalf
<1>5. n \in Nat /\ 1 <= n /\ tail \in Nat /\ tail = n - 1
  BY <1>4, HalfFields DEF GoodHalf
<1>6. N \in Nat \ {0} /\ buf \in [0 .. N - 1 -> Nat]
  BY <1>4, HalfFields, RecvAssumption
<1>7. d = Stream(x, y - x) /\ d \in Seq(Nat) /\ Len(d) = y - x
  <2>1. f \in t.ooo
    BY <1>1, <1>2
  <2> HIDE DEF f
  <2>2. f.data = Stream(f.seq, Len(f.data))
    BY <2>1 DEF TrueHalf, TrueQueue
  <2> USE DEF f
  <2>3. /\ TrimFront(f, x) \in Entries /\ TrimFront(f, x).seq = x
        /\ EndOf(TrimFront(f, x)) = y
    BY <1>1, <1>3, TrimmedEntry
  <2>4. d = Stream(x, Len(d))
    BY <1>1, <1>3, <2>2, TrimmedTrue
  <2>5. /\ Len(d) \in Nat /\ d \in Seq(Nat)
        /\ EndOf(TrimFront(f, x)) = TrimFront(f, x).seq + Len(d)
    BY <2>3, EntryBounds
  <2>6. Len(d) = y - x
    BY <1>1, <1>3, <2>3, <2>5
  <2> QED
    BY <2>4, <2>5, <2>6
<1>8. Draining(t, y, Tail(l))
  BY NextStep
<1>9. y - n <= N
  BY <1>3, <1>8, DrainRoom DEF Draining
<1> DEFINE j == x - n
           k == y - x
           i == y - n
           a == Stream(n, j)
<1> HIDE DEF d, n, h, buf, tail, y, f
<1>10. /\ n \in Nat \ {0} /\ j \in Nat /\ k \in Nat /\ n + j = x /\ j + k = i /\ i <= N
       /\ tail + j = x - 1 /\ x - 1 \in Nat /\ (x - 1) + k = y - 1 /\ x + k = y
  <2>1. n \in Nat /\ x \in Nat /\ y \in Nat /\ 1 <= n /\ n <= x /\ x < y /\ tail = n - 1
    BY <1>1, <1>3, <1>5
  <2> QED
    BY <1>9, <2>1
<1> HIDE DEF j, k, i
<1>11. a \in Seq(Nat) /\ Len(a) = j
  BY <1>10, StreamType
<1>12. a \o d = Stream(n, i)
  <2>1. d = Stream(n + j, k)
    BY <1>7, <1>10 DEF k
  <2>2. Stream(n, j) \o Stream(n + j, k) = Stream(n, j + k)
    BY <1>10, StreamAppend
  <2> QED
    BY <1>10, <2>1, <2>2
<1> HIDE DEF a
<1>13. Len(d) = k /\ Len(a) + Len(d) <= N /\ tail + Len(a) = x - 1
  <2>1. Len(d) = k
    BY <1>7 DEF k
  <2> QED
    BY <1>10, <1>11, <2>1
<1>14. /\ h.recv_buf = ring_buf_write(buf, N, tail, a) /\ h.recv_buf_tail = x - 1
       /\ h.rcv_nxt = x
  BY <1>4 DEF DrainedUpTo, RecvHalves, h, buf, tail, a, n, j
<1>15. ring_buf_write(h.recv_buf, N, uint32(h.recv_buf_tail), d)
         = ring_buf_write(buf, N, tail, Stream(n, i))
  <2> DEFINE at == x - 1
  <2>1. at \in Nat /\ at = tail + Len(a) /\ h.recv_buf_tail = at
    BY <1>10, <1>13, <1>14
  <2> HIDE DEF at
  <2>2. ring_buf_write(h.recv_buf, N, uint32(at), d) = ring_buf_write(h.recv_buf, N, at, d)
    BY <2>1, WriteStored
  <2>3. ring_buf_write(ring_buf_write(buf, N, tail, a), N, tail + Len(a), d)
          = ring_buf_write(buf, N, tail, a \o d)
    <3>1. /\ N \in Nat \ {0} /\ buf \in [0 .. N - 1 -> Nat] /\ tail \in Nat
          /\ a \in Seq(Nat) /\ d \in Seq(Nat) /\ Len(a) + Len(d) <= N
      BY <1>5, <1>6, <1>7, <1>11, <1>13
    <3> HIDE DEF N
    <3> QED
      BY <3>1, WriteTwice
  <2> QED
    BY <1>12, <1>14, <2>1, <2>2, <2>3
<1>16. h.recv_buf_tail + Len(d) = y - 1 /\ h.rcv_nxt + Len(d) = y
  BY <1>10, <1>13, <1>14
<1> DEFINE w == ring_buf_write(buf, N, tail, Stream(n, i))
<1>17. stored(h, d) = [h EXCEPT !.recv_buf = w, !.recv_buf_tail = y - 1, !.rcv_nxt = y]
  <2>1. stored(h, d) = [h EXCEPT !.recv_buf = ring_buf_write(h.recv_buf, N, uint32(h.recv_buf_tail), d),
                                 !.recv_buf_tail = h.recv_buf_tail + Len(d),
                                 !.rcv_nxt = h.rcv_nxt + Len(d)]
    BY DEF stored
  <2> QED
    BY <1>15, <1>16, <2>1
<1>18. [stored(h, d) EXCEPT !.ooo_bytes = Count(m)] = DrainedUpTo(t, y, m)
  <2> DEFINE v  == ring_buf_write(buf, N, tail, a)
             c  == Count(m)
             o  == Count(l)
             x1 == x - 1
             y1 == y - 1
  <2>1. h = [t EXCEPT !.recv_buf = v, !.recv_buf_tail = x1, !.rcv_nxt = x, !.ooo_bytes = o]
    BY DEF DrainedUpTo, h, buf, tail, a, n, j
  <2>2. DrainedUpTo(t, y, m)
          = [t EXCEPT !.recv_buf = w, !.recv_buf_tail = y1, !.rcv_nxt = y, !.ooo_bytes = c]
    BY DEF DrainedUpTo, buf, tail, n, i
  <2>3. stored(h, d) = [h EXCEPT !.recv_buf = w, !.recv_buf_tail = y1, !.rcv_nxt = y]
    BY <1>17
  <2> HIDE DEF w, v, c, o, x1, y1
  <2>4. stored(h, d) = [t EXCEPT !.recv_buf = w, !.recv_buf_tail = y1, !.rcv_nxt = y, !.ooo_bytes = o]
    BY <1>4, <2>1, <2>3 DEF RecvHalves
  <2> QED
    BY <1>4, <2>2, <2>4 DEF RecvHalves, c
<1> QED
  BY <1>18 DEF h, d, y, Moved

\* At a gap, or at the end of the list, the code has done what the set
\* operation does.
LEMMA DrainEnds ==
  ASSUME NEW t, GoodHalf(t), TrueHalf(t), NEW x, NEW l, Draining(t, x, l),
         l # <<>> => Head(l).seq > x
  PROVE  /\ x = drained_to(t) /\ entries(l) = Left(t)
         /\ [DrainedUpTo(t, x, l) EXCEPT !.ooo = entries(l)] = drain_ooo_queue(t)
<1> DEFINE n == t.rcv_nxt
           D == drained_to(t)
<1>1. ListOk(l) /\ x \in Nat /\ n <= x /\ entries(l) \subseteq t.ooo
  BY DEF Draining
<1>2. /\ D \in Nat /\ n <= D /\ \A k \in n .. D - 1 : k \in Bytes(t.ooo)
      /\ \A e \in t.ooo : EndOf(e) > D => e.seq > D
  BY DrainedTo
<1>3. t \in RecvHalves
  BY DEF GoodHalf
<1>4. n \in Nat /\ 1 <= n /\ t.recv_buf_tail = n - 1
  BY <1>3, HalfFields DEF GoodHalf
<1>5. \A e \in t.ooo : /\ e.seq \in Nat /\ EndOf(e) \in Nat /\ e.seq < EndOf(e)
                       /\ \A k : k \in Span(e) <=> k \in Nat /\ e.seq <= k /\ k < EndOf(e)
  <2>1. \A e \in t.ooo : e \in Entries /\ e.seq < EndOf(e)
    BY DEF GoodHalf, Sound
  <2> QED
    BY <2>1, EntryBounds
<1>6. ASSUME NEW f \in entries(l) PROVE f.seq > x
  <2>1. l # <<>>
    BY EmptyList
  <2>2. /\ Head(l) \in entries(l) /\ entries(l) = {Head(l)} \cup entries(Tail(l))
        /\ \A g \in entries(Tail(l)) : EndOf(Head(l)) <= g.seq
    BY <1>1, <2>1, HeadTailList
  <2>3. Head(l) \in t.ooo /\ f \in t.ooo
    BY <1>1, <2>2
  <2>4. CASE f = Head(l)
    BY <2>1, <2>4
  <2>5. CASE f \in entries(Tail(l))
    <3>1. Head(l).seq > x /\ EndOf(Head(l)) <= f.seq
      BY <2>1, <2>2, <2>5
    <3>2. Head(l).seq \in Nat /\ EndOf(Head(l)) \in Nat /\ Head(l).seq < EndOf(Head(l)) /\ f.seq \in Nat
      BY <1>5, <2>3
    <3> QED
      BY <1>1, <3>1, <3>2
  <2> QED
    BY <2>2, <2>4, <2>5
<1>7. \A e \in t.ooo : EndOf(e) > x => e.seq > x
  BY <1>6 DEF Draining
<1>8. \A k \in n .. x - 1 : k \in Bytes(t.ooo)
  BY DEF Draining
<1> HIDE DEF D, n
<1>9. ~(x < D)
  <2> SUFFICES ASSUME x < D PROVE FALSE
    OBVIOUS
  <2>1. x \in n .. D - 1
    BY <1>1, <1>2, <1>4
  <2>2. PICK e \in t.ooo : x \in Span(e)
    BY <1>2, <2>1 DEF Bytes
  <2>3. e.seq <= x /\ x < EndOf(e) /\ e.seq \in Nat /\ EndOf(e) \in Nat
    BY <1>5, <2>2
  <2>4. e.seq > x
    BY <1>1, <1>7, <2>3
  <2> QED
    BY <1>1, <2>3, <2>4
<1>10. ~(D < x)
  <2> SUFFICES ASSUME D < x PROVE FALSE
    OBVIOUS
  <2>1. D \in n .. x - 1
    BY <1>1, <1>2, <1>4
  <2>2. PICK e \in t.ooo : D \in Span(e)
    BY <1>8, <2>1 DEF Bytes
  <2>3. e.seq <= D /\ D < EndOf(e) /\ e.seq \in Nat /\ EndOf(e) \in Nat
    BY <1>5, <2>2
  <2>4. e.seq > D
    BY <1>2, <2>3
  <2> QED
    BY <1>2, <2>3, <2>4
<1>11. x = D
  BY <1>1, <1>2, <1>9, <1>10
<1>12. entries(l) = Left(t)
  <2>1. \A e \in entries(l) : e \in t.ooo /\ EndOf(e) > x
    <3>1. \A e \in entries(l) : e \in t.ooo /\ e.seq > x
      BY <1>1, <1>6
    <3> QED
      BY <1>1, <1>5, <3>1
  <2>2. \A e \in t.ooo : EndOf(e) > x => e \in entries(l)
    BY DEF Draining
  <2> QED
    BY <1>11, <2>1, <2>2 DEF Left, D
<1>13. DrainRun(t) = Stream(n, x - n)
  <2>1. /\ DrainRun(t) \in Seq(Nat) /\ Len(DrainRun(t)) = x - n
        /\ \A k \in 1 .. Len(DrainRun(t)) : DrainRun(t)[k] = n + k - 1
    BY <1>11, DrainedRun DEF TrueHalf, D, n
  <2>2. n \in Nat \ {0} /\ x - n \in Nat
    BY <1>1, <1>4
  <2>3. Stream(n, x - n) \in Seq(Nat) /\ Len(Stream(n, x - n)) = x - n
    BY <2>2, StreamType
  <2>4. \A k \in 1 .. x - n : Stream(n, x - n)[k] = n + k - 1
    BY DEF Stream
  <2> QED
    BY <2>1, <2>3, <2>4, SeqEqual
<1>14. t.recv_buf_tail + (x - n) = x - 1
  BY <1>1, <1>4
<1> DEFINE ring == ring_buf_write(t.recv_buf, RECV_BUF_SIZE, t.recv_buf_tail, Stream(n, x - n))
<1>15. drain_ooo_queue(t)
         = [t EXCEPT !.recv_buf = ring, !.recv_buf_tail = x - 1, !.rcv_nxt = x,
                     !.ooo = entries(l), !.ooo_bytes = Count(l)]
  <2>1. drain_ooo_queue(t)
         = [t EXCEPT !.recv_buf = ring_buf_write(t.recv_buf, RECV_BUF_SIZE, t.recv_buf_tail,
                                                 DrainRun(t)),
                     !.recv_buf_tail = t.recv_buf_tail + (D - n),
                     !.rcv_nxt = D, !.ooo = Left(t),
                     !.ooo_bytes = Cardinality(Bytes(Left(t)))]
    BY DrainIs DEF D, n
  <2> QED
    BY <1>11, <1>12, <1>13, <1>14, <2>1 DEF Count
<1>16. DrainedUpTo(t, x, l)
         = [t EXCEPT !.recv_buf = ring, !.recv_buf_tail = x - 1, !.rcv_nxt = x,
                     !.ooo_bytes = Count(l)]
  BY DEF DrainedUpTo, n
<1> HIDE DEF ring
<1>17. [DrainedUpTo(t, x, l) EXCEPT !.ooo = entries(l)] = drain_ooo_queue(t)
  BY <1>3, <1>15, <1>16 DEF RecvHalves
<1> QED
  BY <1>11, <1>12, <1>17 DEF D

-----------------------------------------------------------------------------
\* The drain as the handler of one segment

\* The bytes of segment s that are new to the half t.
Payload(t, s) == fresh(t, s.seq, Stream(s.seq, s.len))

\* The in-order branch takes s.
Taken(t, s) ==
  /\ s \in Segments
  /\ s.seq <= t.rcv_nxt /\ t.rcv_nxt < s.seq + s.len /\ s.seq + s.len <= t.rcv_nxt + HALF
  /\ fits(t, Payload(t, s))

LEMMA SegmentType ==
  ASSUME NEW s \in Segments
  PROVE  /\ s.seq \in Nat \ {0} /\ s.len \in Nat \ {0} /\ s.seq + s.len \in Nat
         /\ s.seq + s.len <= StreamLen + 1
  BY RecvAssumption, ReceiverAssumption DEF Segments

LEMMA TakenWritten ==
  ASSUME NEW t, GoodHalf(t), TrueHalf(t), NEW s, Taken(t, s)
  PROVE  LET w == Written(t, Payload(t, s))
         IN  /\ GoodHalf(w) /\ TrueHalf(w) /\ w.rcv_nxt = s.seq + s.len /\ w.ooo = t.ooo
             /\ w.ooo_bytes = t.ooo_bytes /\ stored(t, Payload(t, s)) = w
             /\ Payload(t, s) \in Seq(Nat)
<1> DEFINE d == Payload(t, s)
           w == Written(t, d)
<1>1. s \in Segments /\ s.seq <= t.rcv_nxt /\ t.rcv_nxt < s.seq + s.len /\ fits(t, d)
  BY DEF Taken
<1>2. s.seq \in Nat \ {0} /\ s.len \in Nat /\ s.seq + s.len <= StreamLen + 1
  BY <1>1, SegmentType
<1>3. t \in RecvHalves
  BY DEF GoodHalf
<1>4. t.rcv_nxt \in Nat /\ t.recv_buf_tail \in Nat
  BY <1>3, HalfFields
<1>5. /\ d \in Seq(Nat) /\ t.rcv_nxt + Len(d) = s.seq + s.len
      /\ d = Stream(t.rcv_nxt, Len(d))
  BY <1>1, <1>2, <1>4, FreshType DEF Payload
<1> HIDE DEF d
<1>6. /\ GoodHalf(w) /\ w.rcv_nxt = t.rcv_nxt + Len(d) /\ w.ooo = t.ooo
      /\ w.ooo_bytes = t.ooo_bytes
      /\ TrueHalf(t) /\ d = Stream(t.rcv_nxt, Len(d)) => TrueHalf(w)
  <2>1. t.rcv_nxt + Len(d) <= StreamLen + 1
    BY <1>2, <1>5
  <2> QED
    BY <1>1, <1>5, <2>1, WrittenGood
<1>7. stored(t, d) = w
  <2>1. ring_buf_write(t.recv_buf, RECV_BUF_SIZE, uint32(t.recv_buf_tail), d)
          = ring_buf_write(t.recv_buf, RECV_BUF_SIZE, t.recv_buf_tail, d)
    BY <1>4, WriteStored
  <2> QED
    BY <2>1 DEF stored, Written
<1> QED
  BY <1>5, <1>6, <1>7 DEF d

\* The loop invariant holds at the begin.
LEMMA DrainBegins ==
  ASSUME NEW t, GoodHalf(t), NEW l, ListOk(l), entries(l) = t.ooo
  PROVE  Draining(t, t.rcv_nxt, l) /\ DrainedUpTo(t, t.rcv_nxt, l) = t
<1> DEFINE n == t.rcv_nxt
           none == Stream(n, n - n)
<1>1. t \in RecvHalves
  BY DEF GoodHalf
<1>2. /\ n \in Nat /\ 1 <= n /\ t.recv_buf_tail = n - 1 /\ t.recv_buf_tail \in Nat
      /\ t.recv_buf \in [0 .. RECV_BUF_SIZE - 1 -> Nat] /\ RECV_BUF_SIZE \in Nat \ {0}
      /\ t.ooo_bytes = Cardinality(Bytes(t.ooo))
  BY <1>1, HalfFields, RecvAssumption DEF GoodHalf
<1>3. n .. n - 1 = {} /\ n <= n /\ n - n = 0
  BY <1>2
<1>4. none \in Seq(Nat) /\ none = <<>>
  <2> DEFINE z == n - n
  <2>1. z \in Nat /\ z = 0 /\ n \in Nat \ {0}
    BY <1>2, <1>3
  <2> HIDE DEF z, n
  <2>2. Stream(n, z) \in Seq(Nat) /\ Len(Stream(n, z)) = z
    BY <2>1, StreamType
  <2>3. Stream(n, z) = <<>>
    BY <2>1, <2>2
  <2> QED
    BY <2>2, <2>3 DEF z
<1>5. Draining(t, n, l)
  BY <1>2, <1>3 DEF Draining
<1> HIDE DEF none
<1>6. ring_buf_write(t.recv_buf, RECV_BUF_SIZE, t.recv_buf_tail, none) = t.recv_buf
  BY <1>2, <1>4, WriteNothing
<1>7. DrainedUpTo(t, n, l) = [t EXCEPT !.recv_buf = t.recv_buf, !.recv_buf_tail = t.recv_buf_tail,
                                       !.rcv_nxt = t.rcv_nxt, !.ooo_bytes = t.ooo_bytes]
  BY <1>2, <1>6 DEF DrainedUpTo, Count, none
<1> QED
  BY <1>1, <1>5, <1>7 DEF RecvHalves

\* The numbers the drain compares lie within half the number space.
LEMMA DrainNear ==
  ASSUME NEW t, GoodHalf(t), NEW b \in Nat, b < t.rcv_nxt, t.rcv_nxt <= b + HALF,
         NearQueue(b, t.ooo), NEW x, NEW l, Draining(t, x, l), l # <<>>
  PROVE  LET e == Head(l)
         IN  /\ x \in Nat /\ e \in t.ooo /\ e \in Entries
             /\ e.seq \in Nat /\ EndOf(e) \in Nat /\ e.seq < EndOf(e)
             /\ EndOf(e) - x < HALF /\ x - EndOf(e) < HALF
             /\ e.seq - x < HALF /\ x - e.seq < HALF
<1> DEFINE e == Head(l)
           n == t.rcv_nxt
<1>1. ListOk(l) /\ x \in Nat /\ n <= x /\ entries(l) \subseteq t.ooo
      /\ \A k \in n .. x - 1 : k \in Bytes(t.ooo)
  BY DEF Draining
<1>2. e \in entries(l) /\ e \in t.ooo
  BY <1>1, HeadTailList
<1> HIDE DEF e
<1>3. /\ e.seq \in Nat /\ EndOf(e) \in Nat /\ e.seq < EndOf(e) /\ e \in Entries
      /\ b < e.seq /\ EndOf(e) <= b + HALF
  BY <1>1, <1>2, ListEntry DEF NearQueue
<1>4. n \in Nat /\ HALF \in Nat
  BY HalfFields, HalfAssumption DEF GoodHalf
<1>5. x <= b + HALF
  <2>1. CASE x = n
    BY <2>1
  <2>2. CASE x # n
    <3>1. x - 1 \in n .. x - 1
      BY <1>1, <1>4, <2>2
    <3>2. PICK f \in t.ooo : x - 1 \in Span(f)
      BY <1>1, <3>1 DEF Bytes
    <3>3. f \in Entries /\ EndOf(f) <= b + HALF
      BY DEF GoodHalf, Sound, NearQueue
    <3>4. x - 1 < EndOf(f) /\ EndOf(f) \in Nat
      BY <3>2, <3>3, EntryBounds
    <3> QED
      BY <1>1, <1>4, <3>3, <3>4
  <2> QED
    BY <2>1, <2>2
<1>6. b < x
  BY <1>1, <1>4
<1>7. /\ EndOf(e) - x < HALF /\ x - EndOf(e) < HALF
      /\ e.seq - x < HALF /\ x - e.seq < HALF
  BY <1>1, <1>3, <1>4, <1>5, <1>6
<1> QED
  BY <1>1, <1>2, <1>3, <1>7 DEF e

\* What the code decides about the first entry of the list.
LEMMA DrainDecides ==
  ASSUME NEW t, GoodHalf(t), NEW b \in Nat, b < t.rcv_nxt, t.rcv_nxt <= b + HALF,
         NearQueue(b, t.ooo), NEW x, NEW l, Draining(t, x, l), l # <<>>,
         walk.half = DrainedUpTo(t, x, l)
  PROVE  LET e == Head(l)
         IN  /\ redundant(e) <=> EndOf(e) <= x
             /\ ~redundant(e) => (continues(e) <=> e.seq <= x)
             /\ ~redundant(e) /\ e.seq <= x => cut(e, trim(e)) = TrimFront(e, x)
             /\ e.seq > x => trim(e) = 0 /\ cut(e, trim(e)) = e
<1> DEFINE e == Head(l)
           h == walk.half
<1>1. /\ x \in Nat /\ e \in t.ooo /\ e \in Entries
      /\ e.seq \in Nat /\ EndOf(e) \in Nat /\ e.seq < EndOf(e)
      /\ EndOf(e) - x < HALF /\ x - EndOf(e) < HALF
      /\ e.seq - x < HALF /\ x - e.seq < HALF
  BY DrainNear
<1>2. t \in RecvHalves
  BY DEF GoodHalf
<1>3. h.rcv_nxt = x /\ h.recv_buf_tail = x - 1 /\ h.recv_buf_head = t.recv_buf_head
  BY <1>2 DEF DrainedUpTo, RecvHalves
<1>10. l # <<>> /\ Draining(t, x, l) /\ ListOk(l)
  BY DEF Draining
<1> HIDE DEF e, h
<1>4. redundant(e) <=> EndOf(e) <= x
  BY <1>1, <1>3, SeqOrder DEF redundant, h
<1>5. trim(e) = IF e.seq < x THEN x - e.seq ELSE 0
  <2>1. SEQ_LT(e.seq, x) <=> e.seq < x
    BY <1>1, SeqOrder
  <2>2. e.seq < x => minus(x, e.seq) = x - e.seq
    BY <1>1, MinusExact, HalfAssumption
  <2> QED
    BY <1>3, <2>1, <2>2 DEF trim, h
<1>6. ASSUME e.seq <= x PROVE cut(e, trim(e)) = TrimFront(e, x)
  <2>1. trim(e) = x - e.seq
    BY <1>1, <1>5, <1>6
  <2> QED
    BY <1>1, <1>6, <2>1, CutEntry
<1>7. ASSUME e.seq > x PROVE trim(e) = 0 /\ cut(e, trim(e)) = e
  <2>1. trim(e) = 0
    BY <1>1, <1>5, <1>7
  <2> QED
    BY <1>1, <2>1, CutNothing
<1>8. ASSUME e.seq > x PROVE ~continues(e)
  <2>1. cut(e, trim(e)).seq = e.seq
    BY <1>7, <1>8
  <2>2. uint32(e.seq) # uint32(x)
    BY <1>1, <1>8, SeqSame
  <2> QED
    BY <1>3, <2>1, <2>2 DEF continues, h
<1>9. ASSUME ~redundant(e), e.seq <= x PROVE continues(e)
  <2> DEFINE f == TrimFront(e, x)
  <2>1. x < EndOf(e)
    BY <1>1, <1>4, <1>9
  <2>2. f \in Entries /\ f.seq = x /\ EndOf(f) = EndOf(e)
    BY <1>1, <1>9, <2>1, TrimmedEntry
  <2>3. cut(e, trim(e)) = f
    BY <1>6, <1>9
  <2> HIDE DEF f
  <2>4. Len(f.data) = EndOf(e) - x
    <3>1. Len(f.data) \in Nat /\ EndOf(f) = f.seq + Len(f.data)
      BY <2>2, EntryBounds
    <3> QED
      BY <1>1, <2>2, <3>1
  <2>5. Draining(t, EndOf(e), Tail(l))
    BY <1>9, <2>1, NextStep DEF e
  <2>6. /\ (EndOf(e) - 1) - t.recv_buf_head <= RECV_BUF_SIZE
    BY <1>1, <2>5, DrainRoom DEF Draining
  <2>7. /\ (x - 1) - t.recv_buf_head <= RECV_BUF_SIZE /\ t.recv_buf_head <= x - 1
        /\ x - 1 \in Nat
    BY <1>1, <1>10, DrainRoom DEF Draining
  <2>8. t.recv_buf_head \in Nat /\ RECV_BUF_SIZE \in Nat \ {0} /\ RECV_BUF_SIZE <= HALF
        /\ HALF \in Nat
    BY <1>2, HalfFields, RecvAssumption, WidthAssumption, HalfAssumption
  <2> DEFINE y == x - 1
             g == t.recv_buf_head
  <2>9. y \in Nat /\ g \in Nat /\ g <= y /\ y - g < 2 * HALF
    BY <2>7, <2>8
  <2>10. h.recv_buf_tail = y /\ h.recv_buf_head = g
    BY <1>3
  <2> HIDE DEF y, g
  <2>11. minus(y, g) = y - g
    BY <2>9, MinusExact
  <2>12. EndOf(e) - x <= RECV_BUF_SIZE - (y - g)
    BY <1>1, <2>6, <2>8 DEF y, g
  <2>13. Len(f.data) <= RECV_BUF_SIZE - minus(h.recv_buf_tail, h.recv_buf_head)
    BY <2>4, <2>10, <2>11, <2>12
  <2> QED
    BY <1>3, <2>2, <2>3, <2>13 DEF continues, h
<1>11. e.seq <= x \/ e.seq > x
  BY <1>1
<1> QED
  BY <1>4, <1>6, <1>7, <1>8, <1>9, <1>11 DEF e

-----------------------------------------------------------------------------
\* insert_ooo_segment

\* Loop invariant of the first loop: q is the queue, a the start of the new
\* entry, p the entries passed and c those from cur on.
Skipping(q, a, p, c) ==
  /\ ListOk(p) /\ ListOk(c) /\ entries(p) \cup entries(c) = q
  /\ \A x \in entries(p), y \in entries(c) : EndOf(x) <= y.seq
  /\ \A x \in entries(p) : EndOf(x) <= a

\* Loop invariant of the second loop: b is the end of the new entry.  What lies
\* before the new entry is in p; what reaches past its end is in c, if need be
\* without its front; nothing else is in them but entries not looked at yet.
Absorbing(q, a, b, p, c) ==
  /\ ListOk(p) /\ ListOk(c)
  /\ \A x \in entries(p) : x \in q /\ EndOf(x) <= a
  /\ \A e \in q : EndOf(e) <= a => e \in entries(p)
  /\ \A e \in q : EndOf(e) > b
       => e \in entries(c) \/ (e.seq < b /\ TrimFront(e, b) \in entries(c))
  /\ \A y \in entries(c) :
       EndOf(y) > a /\ (y \in q \/ \E e \in straddling(q, b) : y = TrimFront(e, b))

LEMMA SkipStep ==
  ASSUME NEW q, NEW a, NEW p, NEW c, Skipping(q, a, p, c), c # <<>>, EndOf(Head(c)) <= a
  PROVE  Skipping(q, a, Append(p, Head(c)), Tail(c))
<1> DEFINE e == Head(c)
<1>1. ListOk(p) /\ ListOk(c)
  BY DEF Skipping
<1>2. /\ e \in entries(c) /\ InRange(e) /\ ListOk(Tail(c))
      /\ entries(c) = {e} \cup entries(Tail(c))
      /\ \A f \in entries(Tail(c)) : EndOf(e) <= f.seq
  BY <1>1, HeadTailList
<1> HIDE DEF e
<1>3. e \in Entries
  BY <1>1, <1>2, ListEntry
<1>4. ListOk(<<e>>) /\ entries(<<e>>) = {e}
  BY <1>2, <1>3, OneList
<1>5. \A x \in entries(p), y \in entries(<<e>>) : EndOf(x) <= y.seq
  BY <1>2, <1>4 DEF Skipping
<1>6. ListOk(p \o <<e>>) /\ entries(p \o <<e>>) = entries(p) \cup {e}
  BY <1>1, <1>4, <1>5, ConcatList
<1>7. Append(p, e) = p \o <<e>>
  BY <1>1, <1>3, AppendIsConcat DEF ListOk
<1>8. \A x \in entries(p) \cup {e}, y \in entries(Tail(c)) : EndOf(x) <= y.seq
  BY <1>2 DEF Skipping
<1>9. \A x \in entries(p) \cup {e} : EndOf(x) <= a
  BY DEF Skipping, e
<1>10. (entries(p) \cup {e}) \cup entries(Tail(c)) = q
  BY <1>2 DEF Skipping
<1> QED
  BY <1>2, <1>6, <1>7, <1>8, <1>9, <1>10 DEF Skipping, e

LEMMA SkipEnds ==
  ASSUME NEW q, NEW a \in Nat, NEW b \in Nat, a < b, NEW p, NEW c, Skipping(q, a, p, c),
         c # <<>> => ~(EndOf(Head(c)) <= a)
  PROVE  Absorbing(q, a, b, p, c) /\ Count(p) + Count(c) = Cardinality(Bytes(q))
<1>1. /\ ListOk(p) /\ ListOk(c) /\ entries(p) \cup entries(c) = q
      /\ \A x \in entries(p) : EndOf(x) <= a
      /\ \A x \in entries(p), y \in entries(c) : EndOf(x) <= y.seq
  BY DEF Skipping
<1>2. ASSUME NEW y \in entries(c) PROVE EndOf(y) > a
  <2>1. c # <<>>
    BY EmptyList
  <2>2. /\ Head(c) \in entries(c) /\ entries(c) = {Head(c)} \cup entries(Tail(c))
        /\ \A f \in entries(Tail(c)) : EndOf(Head(c)) <= f.seq
    BY <1>1, <2>1, HeadTailList
  <2>3. /\ y.seq \in Nat /\ EndOf(y) \in Nat /\ y.seq < EndOf(y) /\ EndOf(Head(c)) \in Nat
    BY <1>1, <2>2, ListEntry
  <2>4. EndOf(Head(c)) > a
    BY <2>1, <2>3
  <2>5. CASE y = Head(c)
    BY <2>4, <2>5
  <2>6. CASE y \in entries(Tail(c))
    <3>1. EndOf(Head(c)) <= y.seq
      BY <2>2, <2>6
    <3> QED
      BY <2>3, <2>4, <3>1
  <2> QED
    BY <2>2, <2>5, <2>6
<1>3. \A e \in q : EndOf(e) \in Nat
  BY <1>1, ListEntry
<1>4. \A e \in q : EndOf(e) <= a => e \in entries(p)
  BY <1>1, <1>2, <1>3
<1>5. \A e \in q : EndOf(e) > b => e \in entries(c)
  BY <1>1, <1>3
<1>6. Absorbing(q, a, b, p, c)
  BY <1>1, <1>2, <1>4, <1>5 DEF Absorbing
<1>7. Count(p) + Count(c) = Cardinality(Bytes(q))
  BY <1>1, ListsCount
<1> QED
  BY <1>6, <1>7

\* An entry of c, and where it comes from.
LEMMA AbsorbEntry ==
  ASSUME NEW q, Sound(q), NEW a \in Nat, NEW b \in Nat, NEW p, NEW c, Absorbing(q, a, b, p, c),
         NEW y \in entries(c)
  PROVE  /\ y \in Entries /\ InRange(y) /\ y.seq \in Nat /\ EndOf(y) \in Nat
         /\ y \in q \/ \E e \in q : /\ e.seq < b /\ b < EndOf(e)
                                    /\ y = TrimFront(e, b) /\ y.seq = b /\ EndOf(y) = EndOf(e)
<1>1. ListOk(c) /\ (y \in q \/ \E e \in straddling(q, b) : y = TrimFront(e, b))
  BY DEF Absorbing
<1>2. y \in Entries /\ InRange(y) /\ y.seq \in Nat /\ EndOf(y) \in Nat
  BY <1>1, ListEntry DEF InRange
<1>3. ASSUME NEW e \in straddling(q, b), y = TrimFront(e, b)
      PROVE  /\ e \in q /\ e.seq < b /\ b < EndOf(e)
             /\ y = TrimFront(e, b) /\ y.seq = b /\ EndOf(y) = EndOf(e)
  <2>1. e \in q /\ e.seq < b /\ EndOf(e) > b
    BY DEF straddling
  <2>2. e \in Entries
    BY <2>1 DEF Sound
  <2>3. e.seq \in Nat /\ EndOf(e) \in Nat
    BY <2>2, EntryBounds
  <2>4. e.seq <= b /\ b < EndOf(e)
    BY <2>1, <2>3
  <2> QED
    BY <1>3, <2>1, <2>2, <2>4, TrimmedEntry
<1> QED
  BY <1>1, <1>2, <1>3

\* The first entry of c ends inside the new one: it is freed.
LEMMA AbsorbCovered ==
  ASSUME NEW q, Sound(q), NEW a \in Nat, NEW b \in Nat, NEW p, NEW c, Absorbing(q, a, b, p, c),
         c # <<>>, EndOf(Head(c)) <= b
  PROVE  Absorbing(q, a, b, p, Tail(c)) /\ Count(c) - Len(Head(c).data) = Count(Tail(c))
<1> DEFINE f == Head(c)
<1>1. ListOk(p) /\ ListOk(c)
  BY DEF Absorbing
<1>2. f \in entries(c) /\ ListOk(Tail(c)) /\ entries(c) = {f} \cup entries(Tail(c))
  BY <1>1, HeadTailList
<1>3. Count(c) - Len(f.data) = Count(Tail(c))
  BY <1>1, HeadCount
<1>4. EndOf(f) \in Nat /\ EndOf(f) <= b
  BY <1>1, <1>2, ListEntry
<1> HIDE DEF f
<1>5. ASSUME NEW e \in q, EndOf(e) > b
      PROVE  e \in entries(Tail(c)) \/ (e.seq < b /\ TrimFront(e, b) \in entries(Tail(c)))
  <2>1. e \in Entries
    BY DEF Sound
  <2>2. e.seq \in Nat /\ EndOf(e) \in Nat
    BY <2>1, EntryBounds
  <2>3. e # f
    BY <1>4, <1>5, <2>2
  <2>4. CASE e \in entries(c)
    BY <1>2, <2>3, <2>4
  <2>5. CASE e.seq < b /\ TrimFront(e, b) \in entries(c)
    <3>1. EndOf(TrimFront(e, b)) = EndOf(e)
      BY <1>5, <2>1, <2>2, <2>5, TrimmedEntry
    <3>2. TrimFront(e, b) # f
      BY <1>4, <1>5, <2>2, <3>1
    <3> QED
      BY <1>2, <2>5, <3>2
  <2> QED
    BY <1>5, <2>4, <2>5 DEF Absorbing
<1>6. \A y \in entries(Tail(c)) :
        EndOf(y) > a /\ (y \in q \/ \E e \in straddling(q, b) : y = TrimFront(e, b))
  BY <1>2 DEF Absorbing
<1> QED
  BY <1>1, <1>2, <1>3, <1>5, <1>6 DEF Absorbing, f

\* It reaches past the new one: its front is cut off.
LEMMA AbsorbTrimmed ==
  ASSUME NEW q, Sound(q), NEW a \in Nat, NEW b \in Nat, NEW p, NEW c, Absorbing(q, a, b, p, c),
         a < b, c # <<>>, Head(c).seq < b, ~(EndOf(Head(c)) <= b)
  PROVE  LET l == <<TrimFront(Head(c), b)>> \o Tail(c)
         IN  Absorbing(q, a, b, p, l) /\ Count(c) - (b - Head(c).seq) = Count(l)
<1> DEFINE f == Head(c)
           g == TrimFront(f, b)
           t == Tail(c)
           l == <<g>> \o t
<1>1. ListOk(p) /\ ListOk(c)
  BY DEF Absorbing
<1>2. /\ f \in entries(c) /\ InRange(f) /\ ListOk(t) /\ entries(c) = {f} \cup entries(t)
      /\ \A y \in entries(t) : EndOf(f) <= y.seq
  BY <1>1, HeadTailList
<1>3. Count(c) = Len(f.data) + Count(t) /\ Count(t) \in Nat /\ Len(f.data) \in Nat
  BY <1>1, HeadCount
<1>4. /\ f \in Entries /\ f.seq \in Nat /\ EndOf(f) \in Nat /\ EndOf(f) = f.seq + Len(f.data)
      /\ EndOf(f) <= StreamLen + 1 /\ 1 <= f.seq
  BY <1>1, <1>2, ListEntry
<1>5. f.seq < b /\ f.seq <= b /\ b < EndOf(f)
  BY <1>4
<1> HIDE DEF f, t
<1>6. g \in Entries /\ g.seq = b /\ EndOf(g) = EndOf(f)
  BY <1>4, <1>5, TrimmedEntry
<1> HIDE DEF g
<1>7. InRange(g)
  BY <1>4, <1>5, <1>6 DEF InRange
<1>8. ListOk(<<g>>) /\ entries(<<g>>) = {g}
  BY <1>6, <1>7, OneList
<1>9. \A x \in entries(<<g>>), y \in entries(t) : EndOf(x) <= y.seq
  BY <1>2, <1>6, <1>8
<1>10. ListOk(l) /\ entries(l) = {g} \cup entries(t)
  BY <1>2, <1>8, <1>9, ConcatList
<1>11. Count(l) = Len(g.data) + Count(t)
  <2>1. Cardinality(Bytes(entries(<<g>>) \cup entries(t))) = Count(<<g>>) + Count(t)
    BY <1>2, <1>8, <1>9, ListsCount
  <2>2. Count(<<g>>) = Len(g.data)
    BY <1>6, <1>7, OneCount
  <2> QED
    BY <1>8, <1>10, <2>1, <2>2 DEF Count
<1> HIDE DEF l
<1>12. Len(g.data) \in Nat /\ EndOf(g) = g.seq + Len(g.data)
  BY <1>6, EntryBounds
<1>13. Count(c) - (b - f.seq) = Count(l)
  <2> DEFINE Lf == Len(f.data)
             Lg == Len(g.data)
             Ct == Count(t)
             E  == EndOf(f)
             s  == f.seq
  <2>1. Lf \in Nat /\ Lg \in Nat /\ Ct \in Nat /\ s \in Nat /\ E = s + Lf /\ E = b + Lg
    BY <1>3, <1>4, <1>6, <1>12
  <2>2. Count(c) = Lf + Ct /\ Count(l) = Lg + Ct
    BY <1>3, <1>11
  <2> HIDE DEF Lf, Lg, Ct, E, s
  <2>3. Lf + Ct - (b - s) = Lg + Ct
    BY <2>1
  <2>4. Count(c) - (b - s) = Count(l)
    BY <2>1, <2>2, <2>3
  <2> QED
    BY <2>4 DEF s
<1>14. f \in straddling(q, b)
  <2>1. f \in q
    BY <1>2, <1>4, <1>5, AbsorbEntry
  <2> QED
    BY <1>4, <1>5, <2>1 DEF straddling
<1>15. ASSUME NEW e \in q, EndOf(e) > b
       PROVE  e \in entries(l) \/ (e.seq < b /\ TrimFront(e, b) \in entries(l))
  <2>1. CASE e = f
    BY <1>5, <1>10, <2>1 DEF g
  <2>2. CASE e # f /\ e \in entries(c)
    BY <1>2, <1>10, <2>2
  <2>3. CASE e.seq < b /\ TrimFront(e, b) \in entries(c)
    <3>1. TrimFront(e, b).seq = b
      BY DEF TrimFront
    <3>2. TrimFront(e, b) # f
      BY <1>4, <1>5, <3>1
    <3> QED
      BY <1>2, <1>10, <2>3, <3>2
  <2> QED
    BY <1>15, <2>1, <2>2, <2>3 DEF Absorbing
<1>16. ASSUME NEW y \in entries(l)
       PROVE  EndOf(y) > a /\ (y \in q \/ \E e \in straddling(q, b) : y = TrimFront(e, b))
  <2>1. CASE y = g
    <3>1. EndOf(y) > a
      BY <1>4, <1>5, <1>6, <2>1
    <3> QED
      BY <1>14, <2>1, <3>1 DEF g
  <2>2. CASE y \in entries(t)
    BY <1>2, <2>2 DEF Absorbing
  <2> QED
    BY <1>10, <2>1, <2>2
<1>17. Absorbing(q, a, b, p, l)
  BY <1>1, <1>10, <1>15, <1>16 DEF Absorbing
<1> QED
  BY <1>13, <1>17 DEF l, g, f, t

\* At the first entry past the new one the list is what the set operation
\* makes of the queue.
LEMMA LinkEnds ==
  ASSUME NEW q, Sound(q), NEW e \in Entries, InRange(e), NEW p, NEW c,
         Absorbing(q, e.seq, EndOf(e), p, c), c # <<>> => ~(Head(c).seq < EndOf(e))
  PROVE  LET l == p \o <<e>> \o c
         IN  /\ ListOk(l) /\ entries(l) = Inserted(q, e)
             /\ Count(p) + Count(c) + Len(e.data)
                  = Cardinality(Bytes(q)) - freed_bytes(q, e.seq, EndOf(e)) + Len(e.data)
<1> DEFINE a == e.seq
           b == EndOf(e)
           P == entries(p)
           C == entries(c)
           l == p \o <<e>> \o c
<1>1. /\ ListOk(p) /\ ListOk(c)
      /\ \A x \in P : x \in q /\ EndOf(x) <= a
      /\ \A x \in q : EndOf(x) <= a => x \in P
      /\ \A x \in q : EndOf(x) > b => x \in C \/ (x.seq < b /\ TrimFront(x, b) \in C)
      /\ \A y \in C : EndOf(y) > a /\ (y \in q \/ \E x \in straddling(q, b) : y = TrimFront(x, b))
  BY DEF Absorbing
<1>2. a \in Nat /\ b \in Nat /\ a < b
  BY EntryBounds DEF InRange
<1>3. \A x \in q : x.seq \in Nat /\ EndOf(x) \in Nat
  <2>1. \A x \in q : x \in Entries
    BY DEF Sound
  <2> QED
    BY <2>1, EntryBounds
<1>4. \A y \in C : y.seq \in Nat /\ EndOf(y) \in Nat /\ y.seq < EndOf(y)
  BY <1>1, ListEntry
<1>5. ASSUME NEW y \in C PROVE y.seq >= b
  <2>1. c # <<>>
    BY EmptyList
  <2>2. /\ Head(c) \in C /\ C = {Head(c)} \cup entries(Tail(c))
        /\ \A f \in entries(Tail(c)) : EndOf(Head(c)) <= f.seq
    BY <1>1, <2>1, HeadTailList
  <2>3. /\ Head(c).seq \in Nat /\ EndOf(Head(c)) \in Nat /\ Head(c).seq < EndOf(Head(c))
        /\ y.seq \in Nat
    BY <1>4, <2>2
  <2>4. Head(c).seq >= b
    BY <1>2, <2>1, <2>3
  <2>5. CASE y = Head(c)
    BY <2>4, <2>5
  <2>6. CASE y \in entries(Tail(c))
    <3>1. EndOf(Head(c)) <= y.seq
      BY <2>2, <2>6
    <3> HIDE DEF b
    <3> QED
      BY <1>2, <2>3, <2>4, <3>1
  <2> QED
    BY <2>2, <2>5, <2>6
<1> HIDE DEF a, b
<1>6. ListOk(<<e>>) /\ entries(<<e>>) = {e}
  BY OneList
<1>7. \A x \in P, y \in entries(<<e>>) : EndOf(x) <= y.seq
  BY <1>1, <1>6 DEF a
<1>8. ListOk(p \o <<e>>) /\ entries(p \o <<e>>) = P \cup {e}
  BY <1>1, <1>6, <1>7, ConcatList
<1>9. ASSUME NEW x \in entries(p \o <<e>>), NEW y \in C PROVE EndOf(x) <= y.seq
  <2>1. y.seq >= b /\ y.seq \in Nat
    BY <1>4, <1>5
  <2>2. CASE x = e
    BY <1>2, <2>1, <2>2 DEF b
  <2>3. CASE x \in P
    <3>1. EndOf(x) <= a /\ EndOf(x) \in Nat
      BY <1>1, <1>3, <2>3
    <3> QED
      BY <1>2, <2>1, <3>1
  <2> QED
    BY <1>8, <2>2, <2>3
<1>10. ListOk(l) /\ entries(l) = (P \cup {e}) \cup C
  BY <1>1, <1>8, <1>9, ConcatList
<1>11. entries(l) = Inserted(q, e)
  <2> DEFINE kept == (q \ covered(q, a, b)) \ straddling(q, b)
             cutoff == {TrimFront(x, b) : x \in straddling(q, b)}
  <2>1. Inserted(q, e) = kept \cup cutoff \cup {e}
    BY DEF Inserted, a, b
  <2>2. P \subseteq kept
    BY <1>1, <1>2, <1>3 DEF covered, straddling
  <2>3. C \subseteq kept \cup cutoff
    <3> SUFFICES ASSUME NEW y \in C, y \in q PROVE y \in kept
      BY <1>1
    <3>1. y.seq \in Nat /\ EndOf(y) \in Nat /\ y.seq >= b /\ EndOf(y) > b
      BY <1>2, <1>4, <1>5
    <3> QED
      BY <1>2, <3>1 DEF covered, straddling
  <2>4. kept \subseteq P \cup C
    <3> SUFFICES ASSUME NEW x \in q, x \notin covered(q, a, b), x \notin straddling(q, b)
                 PROVE  x \in P \cup C
      OBVIOUS
    <3>1. x.seq \in Nat /\ EndOf(x) \in Nat
      BY <1>3
    <3>2. CASE EndOf(x) <= a
      BY <1>1, <3>2
    <3>3. CASE ~(EndOf(x) <= a)
      <4>1. EndOf(x) > b
        BY <1>2, <3>1, <3>3 DEF covered
      <4>2. ~(x.seq < b)
        BY <4>1 DEF straddling
      <4> QED
        BY <1>1, <4>1, <4>2
    <3> QED
      BY <3>2, <3>3
  <2>5. cutoff \subseteq C
    <3> SUFFICES ASSUME NEW x \in straddling(q, b) PROVE TrimFront(x, b) \in C
      OBVIOUS
    <3>1. x \in q /\ x.seq < b /\ EndOf(x) > b
      BY DEF straddling
    <3>2. x \notin C
      BY <1>2, <1>3, <1>5, <3>1
    <3> QED
      BY <1>1, <3>1, <3>2
  <2> HIDE DEF kept, cutoff
  <2> QED
    BY <1>10, <2>1, <2>2, <2>3, <2>4, <2>5
<1>12. Count(p) + Count(c) + Len(e.data)
         = Cardinality(Bytes(q)) - freed_bytes(q, a, b) + Len(e.data)
  <2>1. /\ Count(p) \in Nat /\ Count(<<e>>) \in Nat
        /\ Cardinality(Bytes(P \cup {e})) = Count(p) + Count(<<e>>)
    BY <1>1, <1>6, <1>7, ListsCount
  <2>2. /\ Count(c) \in Nat /\ Count(p \o <<e>>) \in Nat
        /\ Cardinality(Bytes((P \cup {e}) \cup C)) = Count(p \o <<e>>) + Count(c)
    BY <1>1, <1>8, <1>9, ListsCount
  <2>3. Count(p \o <<e>>) = Count(p) + Count(<<e>>)
    BY <1>8, <2>1 DEF Count
  <2>4. Count(<<e>>) = Len(e.data) /\ Len(e.data) \in Nat
    BY OneCount
  <2>5. Cardinality(Bytes(Inserted(q, e)))
          = Cardinality(Bytes(q)) - freed_bytes(q, a, b) + Len(e.data)
    BY <1>2, InsertCount DEF a, b
  <2>6. Cardinality(Bytes(Inserted(q, e))) = Count(p) + Len(e.data) + Count(c)
    BY <1>10, <1>11, <2>2, <2>3, <2>4
  <2>7. Count(p) + Len(e.data) + Count(c) = Count(p) + Count(c) + Len(e.data)
    BY <2>1, <2>2, <2>4
  <2> QED
    BY <2>5, <2>6, <2>7
<1> QED
  BY <1>10, <1>11, <1>12 DEF a, b

-----------------------------------------------------------------------------
\* The inductive invariant

\* insert_ooo_segment takes s.
Placed(t, s) ==
  /\ s \in Segments
  /\ t.rcv_nxt < s.seq /\ s.seq + s.len <= t.rcv_nxt + HALF
  /\ fits(t, Stream(s.seq, s.len))

\* A walk over the list on behalf of segment s, and the fields of the TCB in
\* each of the three loops; t is the half before the handler.
SkipWalk(t, s, p, c) == [pc |-> "skip", seg |-> s, prev |-> p, cur |-> c, half |-> t]

AbsorbWalk(t, s, p, c) ==
  [pc |-> "absorb", seg |-> s, prev |-> p, cur |-> c,
   half |-> [t EXCEPT !.ooo_bytes = Count(p) + Count(c)]]

DrainWalk(t, s, x, c) ==
  [pc |-> "drain", seg |-> s, prev |-> <<>>, cur |-> c,
   half |-> DrainedUpTo(Written(t, Payload(t, s)), x, c)]

\* Walk w is in the loop, and its invariant holds.
SkipState(w, t) ==
  /\ w = SkipWalk(t, w.seg, w.prev, w.cur) /\ Placed(t, w.seg)
  /\ Skipping(t.ooo, w.seg.seq, w.prev, w.cur)

AbsorbState(w, t) ==
  /\ w = AbsorbWalk(t, w.seg, w.prev, w.cur) /\ Placed(t, w.seg)
  /\ Absorbing(t.ooo, w.seg.seq, w.seg.seq + w.seg.len, w.prev, w.cur)

DrainState(w, t) ==
  /\ w = DrainWalk(t, w.seg, w.half.rcv_nxt, w.cur) /\ Taken(t, w.seg)
  /\ Draining(Written(t, Payload(t, w.seg)), w.half.rcv_nxt, w.cur)

WalkOk(w, t) == w = Idle \/ SkipState(w, t) \/ AbsorbState(w, t) \/ DrainState(w, t)

\* The list is the queue, in order, and near enough to compare.
QueueOk(l, t) == ListOk(l) /\ entries(l) = t.ooo /\ NearQueue(t.rcv_nxt, t.ooo)

LoopInv == RecvInv /\ QueueOk(ooo_head, r) /\ WalkOk(walk, r)

\* The half before the handler.
LEMMA InvHalf ==
  ASSUME LoopInv
  PROVE  /\ GoodHalf(r) /\ TrueHalf(r) /\ Ahead(r) /\ r \in RecvHalves /\ r.rcv_nxt \in Nat
         /\ Sound(r.ooo) /\ r.ooo_bytes = Cardinality(Bytes(r.ooo))
         /\ ListOk(ooo_head) /\ entries(ooo_head) = r.ooo /\ NearQueue(r.rcv_nxt, r.ooo)
<1>1. GoodHalf(r) /\ TrueHalf(r) /\ Ahead(r)
  BY DEF LoopInv, RecvInv, Settled
<1>2. r \in RecvHalves /\ Sound(r.ooo) /\ r.ooo_bytes = Cardinality(Bytes(r.ooo))
  BY <1>1 DEF GoodHalf
<1>3. r.rcv_nxt \in Nat
  BY <1>2, HalfFields
<1> QED
  BY <1>1, <1>2, <1>3 DEF LoopInv, QueueOk

\* Where the handler is.
LEMMA WalkPc ==
  ASSUME WalkOk(walk, r)
  PROVE  /\ walk.pc = "idle" => walk = Idle
         /\ walk.pc = "skip" => SkipState(walk, r)
         /\ walk.pc = "absorb" => AbsorbState(walk, r)
         /\ walk.pc = "drain" => DrainState(walk, r)
<1>1. CASE walk = Idle
  BY <1>1 DEF Idle
<1>2. CASE SkipState(walk, r)
  <2>1. walk.pc = "skip"
    BY <1>2 DEF SkipState, SkipWalk
  <2> QED
    BY <1>2, <2>1
<1>3. CASE AbsorbState(walk, r)
  <2>1. walk.pc = "absorb"
    BY <1>3 DEF AbsorbState, AbsorbWalk
  <2> QED
    BY <1>3, <2>1
<1>4. CASE DrainState(walk, r)
  <2>1. walk.pc = "drain"
    BY <1>4 DEF DrainState, DrainWalk
  <2> QED
    BY <1>4, <2>1
<1> QED
  BY <1>1, <1>2, <1>3, <1>4 DEF WalkOk

LEMMA MakeSkip ==
  ASSUME NEW t, NEW s, NEW p, NEW c, Placed(t, s), Skipping(t.ooo, s.seq, p, c)
  PROVE  WalkOk(SkipWalk(t, s, p, c), t)
<1> DEFINE w == SkipWalk(t, s, p, c)
<1>1. w.seg = s /\ w.prev = p /\ w.cur = c
  BY DEF SkipWalk
<1> HIDE DEF w
<1>2. w = SkipWalk(t, w.seg, w.prev, w.cur)
  BY <1>1 DEF w
<1>3. SkipState(w, t)
  BY <1>1, <1>2 DEF SkipState
<1> QED
  BY <1>3 DEF WalkOk, w

LEMMA MakeAbsorb ==
  ASSUME NEW t, NEW s, NEW p, NEW c, Placed(t, s),
         Absorbing(t.ooo, s.seq, s.seq + s.len, p, c)
  PROVE  WalkOk(AbsorbWalk(t, s, p, c), t)
<1> DEFINE w == AbsorbWalk(t, s, p, c)
<1>1. w.seg = s /\ w.prev = p /\ w.cur = c
  BY DEF AbsorbWalk
<1> HIDE DEF w
<1>2. w = AbsorbWalk(t, w.seg, w.prev, w.cur)
  BY <1>1 DEF w
<1>3. AbsorbState(w, t)
  BY <1>1, <1>2 DEF AbsorbState
<1> QED
  BY <1>3 DEF WalkOk, w

LEMMA MakeDrain ==
  ASSUME NEW t, GoodHalf(t), TrueHalf(t), NEW s, NEW x, NEW c, Taken(t, s),
         Draining(Written(t, Payload(t, s)), x, c)
  PROVE  WalkOk(DrainWalk(t, s, x, c), t)
<1> DEFINE w == DrainWalk(t, s, x, c)
           v == Written(t, Payload(t, s))
<1>1. v \in RecvHalves
  <2>1. GoodHalf(v)
    BY TakenWritten
  <2> QED
    BY <2>1 DEF GoodHalf
<1> HIDE DEF v
<1>2. DrainedUpTo(v, x, c).rcv_nxt = x
  BY <1>1 DEF DrainedUpTo, RecvHalves
<1>3. w.seg = s /\ w.cur = c /\ w.half = DrainedUpTo(v, x, c)
  BY DEF DrainWalk, v
<1>4. w.half.rcv_nxt = x
  BY <1>2, <1>3
<1> HIDE DEF w
<1>5. w = DrainWalk(t, w.seg, w.half.rcv_nxt, w.cur)
  BY <1>3, <1>4 DEF w
<1>6. DrainState(w, t)
  BY <1>3, <1>4, <1>5 DEF DrainState
<1> QED
  BY <1>6 DEF WalkOk, w

-----------------------------------------------------------------------------
\* The walk of insert_ooo_segment, step by step

\* What a segment brings is a true entry.
LEMMA NewEntry ==
  ASSUME NEW s \in Segments
  PROVE  LET e == [seq |-> s.seq, data |-> Stream(s.seq, s.len)]
         IN  /\ e \in Entries /\ e.seq = s.seq /\ Len(e.data) = s.len
             /\ EndOf(e) = s.seq + s.len /\ InRange(e)
<1> DEFINE d == Stream(s.seq, s.len)
           e == [seq |-> s.seq, data |-> d]
<1>1. /\ s.seq \in Nat \ {0} /\ s.len \in Nat \ {0} /\ s.seq + s.len <= StreamLen + 1
  BY SegmentType
<1>2. d \in Seq(Nat) /\ Len(d) = s.len
  BY <1>1, StreamType
<1> HIDE DEF d
<1>3. e \in Entries /\ e.seq = s.seq /\ Len(e.data) = s.len
  BY <1>1, <1>2 DEF Entries
<1> HIDE DEF e
<1>4. EndOf(e) = s.seq + s.len
  BY <1>3 DEF EndOf
<1>5. InRange(e)
  BY <1>1, <1>3, <1>4 DEF InRange
<1> QED
  BY <1>3, <1>4, <1>5 DEF e, d

\* What the code decides about an entry that it meets.
LEMMA InsertDecides ==
  ASSUME NEW n \in Nat, walk.seg \in Segments, n < walk.seg.seq,
         walk.seg.seq + walk.seg.len <= n + HALF,
         NEW y \in Entries, n < y.seq, EndOf(y) <= n + HALF
  PROVE  LET a == walk.seg.seq
             b == walk.seg.seq + walk.seg.len
         IN  /\ new \in Entries /\ InRange(new) /\ new.seq = a /\ EndOf(new) = b
             /\ Len(new.data) = walk.seg.len
             /\ ends_before(y) <=> EndOf(y) <= a
             /\ overlapped(y) <=> y.seq < b
             /\ SEQ_LEQ(EndOf(y), EndOf(new)) <=> EndOf(y) <= b
             /\ y.seq < b => /\ minus(EndOf(new), y.seq) = b - y.seq
                             /\ cut(y, minus(EndOf(new), y.seq)) = TrimFront(y, b)
<1> DEFINE a == walk.seg.seq
           b == walk.seg.seq + walk.seg.len
           z == EndOf(y)
           s == y.seq
<1>1. /\ new \in Entries /\ InRange(new) /\ new.seq = a /\ EndOf(new) = b
      /\ Len(new.data) = walk.seg.len
  BY NewEntry DEF new
<1>2. a \in Nat /\ b \in Nat /\ a < b /\ a < n + HALF
  <2>1. a \in Nat /\ b \in Nat /\ a < b
    BY <1>1, EntryBounds DEF InRange
  <2> QED
    BY <2>1, HalfAssumption
<1>3. s \in Nat /\ z \in Nat /\ s <= z /\ n < s /\ z <= n + HALF
  <2>1. s \in Nat /\ Len(y.data) \in Nat /\ z = s + Len(y.data)
    BY EntryBounds
  <2> QED
    BY <2>1
<1>4. HALF \in Nat /\ n < a /\ b <= n + HALF
  BY HalfAssumption
<1> HIDE DEF a, b, z, s
<1>5. z - a < HALF /\ a - z < HALF
  BY <1>2, <1>3, <1>4
<1>6. s - b < HALF /\ b - s < HALF
  BY <1>2, <1>3, <1>4
<1>7. z - b < HALF /\ b - z < HALF
  BY <1>2, <1>3, <1>4
<1>8. SEQ_LEQ(z, a) <=> z <= a
  BY <1>2, <1>3, <1>5, SeqOrder
<1>9. SEQ_LT(s, b) <=> s < b
  BY <1>2, <1>3, <1>6, SeqOrder
<1>10. SEQ_LEQ(z, b) <=> z <= b
  BY <1>2, <1>3, <1>7, SeqOrder
<1>11. ASSUME s < b PROVE minus(b, s) = b - s /\ cut(y, minus(b, s)) = TrimFront(y, b)
  <2>1. s <= b /\ b - s < 2 * HALF
    BY <1>2, <1>3, <1>4, <1>6, <1>11
  <2>2. minus(b, s) = b - s
    BY <1>2, <1>3, <2>1, MinusExact
  <2>3. cut(y, b - y.seq) = TrimFront(y, b)
    BY <1>2, <2>1, CutEntry DEF s
  <2> QED
    BY <2>2, <2>3 DEF s
<1>12. ends_before(y) <=> z <= a
  BY <1>1, <1>8 DEF ends_before, z
<1>13. overlapped(y) <=> s < b
  BY <1>1, <1>9 DEF overlapped, s
<1> QED
  BY <1>1, <1>10, <1>11, <1>12, <1>13 DEF a, b, z, s

\* An entry of the list in the first and in the second loop is near.
LEMMA SkipNear ==
  ASSUME NEW t, NearQueue(t.rcv_nxt, t.ooo), NEW a, NEW p, NEW c, Skipping(t.ooo, a, p, c),
         NEW y \in entries(c)
  PROVE  y \in Entries /\ t.rcv_nxt < y.seq /\ EndOf(y) <= t.rcv_nxt + HALF
<1>1. ListOk(c) /\ y \in t.ooo
  BY DEF Skipping
<1>2. y \in Entries
  BY <1>1, ListEntry
<1> QED
  BY <1>1, <1>2 DEF NearQueue

LEMMA AbsorbNear ==
  ASSUME NEW t, t.rcv_nxt \in Nat, Sound(t.ooo), NearQueue(t.rcv_nxt, t.ooo), NEW a \in Nat,
         NEW b \in Nat, t.rcv_nxt < b, NEW p, NEW c, Absorbing(t.ooo, a, b, p, c),
         NEW y \in entries(c)
  PROVE  y \in Entries /\ t.rcv_nxt < y.seq /\ EndOf(y) <= t.rcv_nxt + HALF
<1> DEFINE q == t.ooo
<1>1. /\ y \in Entries
      /\ y \in q \/ \E e \in q : /\ e.seq < b /\ b < EndOf(e)
                                 /\ y = TrimFront(e, b) /\ y.seq = b /\ EndOf(y) = EndOf(e)
  BY AbsorbEntry
<1>2. CASE y \in q
  BY <1>1, <1>2 DEF NearQueue
<1>3. CASE \E e \in q : y.seq = b /\ EndOf(y) = EndOf(e)
  BY <1>1, <1>3 DEF NearQueue
<1> QED
  BY <1>1, <1>2, <1>3

\* The entry at cur.
LEMMA CurEntry ==
  ASSUME NEW l, ListOk(l), l # <<>>
  PROVE  Head(l) \in entries(l)
  BY HeadTailList

LEMMA BeginInsertKeeps ==
  ASSUME LoopInv, NEW s \in Segments, BeginInsert(s)
  PROVE  WalkOk(walk', r)
<1>1. /\ ListOk(ooo_head) /\ entries(ooo_head) = r.ooo /\ r.rcv_nxt \in Nat
  BY InvHalf
<1>2. walk' = SkipWalk(r, s, <<>>, ooo_head)
  BY DEF BeginInsert, SkipWalk
<1>3. s.seq \in Nat /\ s.len \in Nat /\ s.seq > r.rcv_nxt
  BY SegmentType DEF BeginInsert
<1>4. Placed(r, s)
  BY <1>1, <1>3 DEF BeginInsert, Placed, Near
<1>5. Skipping(r.ooo, s.seq, <<>>, ooo_head)
  BY <1>1, EmptyList DEF Skipping
<1> QED
  BY <1>2, <1>4, <1>5, MakeSkip

\* Facts about a walk in the first loop.
LEMMA SkipFacts ==
  ASSUME LoopInv, walk.pc = "skip"
  PROVE  /\ walk = SkipWalk(r, walk.seg, walk.prev, walk.cur) /\ Placed(r, walk.seg)
         /\ Skipping(r.ooo, walk.seg.seq, walk.prev, walk.cur)
         /\ walk.cur # <<>> =>
              (ends_before(Head(walk.cur)) <=> EndOf(Head(walk.cur)) <= walk.seg.seq)
<1>1. SkipState(walk, r)
  BY WalkPc DEF LoopInv
<1>2. /\ walk = SkipWalk(r, walk.seg, walk.prev, walk.cur) /\ Placed(r, walk.seg)
      /\ Skipping(r.ooo, walk.seg.seq, walk.prev, walk.cur)
  BY <1>1 DEF SkipState
<1>3. /\ r.rcv_nxt \in Nat /\ NearQueue(r.rcv_nxt, r.ooo)
  BY InvHalf
<1>4. /\ walk.seg \in Segments /\ r.rcv_nxt < walk.seg.seq
      /\ walk.seg.seq + walk.seg.len <= r.rcv_nxt + HALF
  BY <1>2 DEF Placed
<1>5. ASSUME walk.cur # <<>>
      PROVE  ends_before(Head(walk.cur)) <=> EndOf(Head(walk.cur)) <= walk.seg.seq
  <2> DEFINE y == Head(walk.cur)
  <2>1. y \in entries(walk.cur)
    BY <1>2, <1>5, CurEntry DEF Skipping
  <2> HIDE DEF y
  <2>2. y \in Entries /\ r.rcv_nxt < y.seq /\ EndOf(y) <= r.rcv_nxt + HALF
    BY <1>2, <1>3, <2>1, SkipNear
  <2>3. ends_before(y) <=> EndOf(y) <= walk.seg.seq
    BY <1>3, <1>4, <2>2, InsertDecides
  <2> QED
    BY <2>3 DEF y
<1> QED
  BY <1>2, <1>5

LEMMA SkipKeeps ==
  ASSUME LoopInv, Skip
  PROVE  WalkOk(walk', r)
<1> DEFINE s == walk.seg
           p == walk.prev
           c == walk.cur
<1>1. walk.pc = "skip" /\ c # <<>> /\ ends_before(Head(c))
  BY DEF Skip
<1>2. /\ walk = SkipWalk(r, s, p, c) /\ Placed(r, s) /\ Skipping(r.ooo, s.seq, p, c)
      /\ EndOf(Head(c)) <= s.seq
  BY <1>1, SkipFacts
<1>3. walk' = [walk EXCEPT !.prev = Append(p, Head(c)), !.cur = Tail(c)]
  BY DEF Skip
<1> HIDE DEF s, p, c
<1>4. walk' = SkipWalk(r, s, Append(p, Head(c)), Tail(c))
  BY <1>2, <1>3 DEF SkipWalk
<1>5. Skipping(r.ooo, s.seq, Append(p, Head(c)), Tail(c))
  <2> DEFINE a == s.seq
  <2>1. Skipping(r.ooo, a, p, c) /\ EndOf(Head(c)) <= a
    BY <1>2
  <2> HIDE DEF a
  <2>2. Skipping(r.ooo, a, Append(p, Head(c)), Tail(c))
    BY <1>1, <2>1, SkipStep
  <2> QED
    BY <2>2 DEF a
<1> QED
  BY <1>2, <1>4, <1>5, MakeSkip

LEMMA SkippedKeeps ==
  ASSUME LoopInv, Skipped
  PROVE  WalkOk(walk', r)
<1> DEFINE s == walk.seg
           p == walk.prev
           c == walk.cur
           a == s.seq
           b == s.seq + s.len
<1>1. walk.pc = "skip" /\ (c # <<>> => ~ends_before(Head(c)))
  BY DEF Skipped
<1>2. /\ walk = SkipWalk(r, s, p, c) /\ Placed(r, s) /\ Skipping(r.ooo, a, p, c)
      /\ c # <<>> => ~(EndOf(Head(c)) <= a)
  BY <1>1, SkipFacts
<1>3. walk' = [walk EXCEPT !.pc = "absorb"]
  BY DEF Skipped
<1>4. a \in Nat /\ b \in Nat /\ a < b
  <2>1. s \in Segments
    BY <1>2 DEF Placed
  <2> HIDE DEF s
  <2>2. s.seq \in Nat \ {0} /\ s.len \in Nat \ {0}
    BY <2>1, SegmentType
  <2> QED
    BY <2>2
<1>5. r \in RecvHalves /\ r.ooo_bytes = Cardinality(Bytes(r.ooo))
  BY InvHalf
<1> HIDE DEF p, c, a, b
<1>6. Absorbing(r.ooo, a, b, p, c) /\ Count(p) + Count(c) = Cardinality(Bytes(r.ooo))
  BY <1>2, <1>4, SkipEnds
<1>7. [r EXCEPT !.ooo_bytes = Count(p) + Count(c)] = r
  BY <1>5, <1>6 DEF RecvHalves
<1> HIDE DEF s
<1>8. walk' = AbsorbWalk(r, s, p, c)
  BY <1>2, <1>3, <1>7 DEF SkipWalk, AbsorbWalk
<1>9. Absorbing(r.ooo, s.seq, s.seq + s.len, p, c)
  BY <1>6 DEF a, b
<1> QED
  BY <1>2, <1>8, <1>9, MakeAbsorb

\* Facts about a walk in the second loop.
LEMMA AbsorbFacts ==
  ASSUME LoopInv, walk.pc = "absorb"
  PROVE  LET s == walk.seg
             a == walk.seg.seq
             b == walk.seg.seq + walk.seg.len
             c == walk.cur
             y == Head(walk.cur)
         IN  /\ walk = AbsorbWalk(r, s, walk.prev, c) /\ Placed(r, s)
             /\ Absorbing(r.ooo, a, b, walk.prev, c)
             /\ a \in Nat /\ b \in Nat /\ a < b /\ r.rcv_nxt < a /\ b <= r.rcv_nxt + HALF
             /\ new \in Entries /\ InRange(new) /\ new.seq = a /\ EndOf(new) = b
             /\ Len(new.data) = s.len
             /\ c # <<>> => /\ overlapped(y) <=> y.seq < b
                            /\ SEQ_LEQ(EndOf(y), EndOf(new)) <=> EndOf(y) <= b
                            /\ y.seq < b => /\ minus(EndOf(new), y.seq) = b - y.seq
                                            /\ cut(y, minus(EndOf(new), y.seq)) = TrimFront(y, b)
<1> DEFINE a == walk.seg.seq
           b == walk.seg.seq + walk.seg.len
           y == Head(walk.cur)
<1>1. AbsorbState(walk, r)
  BY WalkPc DEF LoopInv
<1>2. /\ walk = AbsorbWalk(r, walk.seg, walk.prev, walk.cur) /\ Placed(r, walk.seg)
      /\ Absorbing(r.ooo, a, b, walk.prev, walk.cur)
  BY <1>1 DEF AbsorbState
<1>3. r.rcv_nxt \in Nat /\ Sound(r.ooo) /\ NearQueue(r.rcv_nxt, r.ooo)
  BY InvHalf
<1>4. walk.seg \in Segments /\ r.rcv_nxt < a /\ b <= r.rcv_nxt + HALF
  BY <1>2 DEF Placed
<1>5. new \in Entries /\ InRange(new) /\ new.seq = a /\ EndOf(new) = b /\ Len(new.data) = walk.seg.len
  BY <1>4, NewEntry DEF new
<1>6. a \in Nat /\ b \in Nat /\ a < b
  BY <1>5, EntryBounds DEF InRange
<1>7. ASSUME walk.cur # <<>>
      PROVE  y \in Entries /\ r.rcv_nxt < y.seq /\ EndOf(y) <= r.rcv_nxt + HALF
  <2>1. y \in entries(walk.cur)
    BY <1>2, <1>7, CurEntry DEF Absorbing
  <2>2. r.rcv_nxt < b
    BY <1>3, <1>4, <1>6
  <2> HIDE DEF a, b, y
  <2> QED
    BY <1>2, <1>3, <1>6, <2>1, <2>2, AbsorbNear
<1>8. ASSUME walk.cur # <<>>
      PROVE  /\ overlapped(y) <=> y.seq < b
             /\ SEQ_LEQ(EndOf(y), EndOf(new)) <=> EndOf(y) <= b
             /\ y.seq < b => /\ minus(EndOf(new), y.seq) = b - y.seq
                             /\ cut(y, minus(EndOf(new), y.seq)) = TrimFront(y, b)
  <2>1. y \in Entries /\ r.rcv_nxt < y.seq /\ EndOf(y) <= r.rcv_nxt + HALF
    BY <1>7, <1>8
  <2> HIDE DEF y
  <2> QED
    BY <1>3, <1>4, <2>1, InsertDecides
<1> QED
  BY <1>2, <1>4, <1>5, <1>6, <1>8

LEMMA AbsorbKeeps ==
  ASSUME LoopInv, Absorb
  PROVE  WalkOk(walk', r)
<1> DEFINE s == walk.seg
           p == walk.prev
           c == walk.cur
           a == s.seq
           b == s.seq + s.len
           e == Head(c)
           o == Count(p) + Count(c)
<1>1. walk.pc = "absorb" /\ c # <<>> /\ overlapped(e)
  BY DEF Absorb
<1>2. /\ walk = AbsorbWalk(r, s, p, c) /\ Placed(r, s)
      /\ Absorbing(r.ooo, a, b, p, c)
      /\ a \in Nat /\ b \in Nat /\ a < b
      /\ e.seq < b
      /\ SEQ_LEQ(EndOf(e), EndOf(new)) <=> EndOf(e) <= b
      /\ minus(EndOf(new), e.seq) = b - e.seq
      /\ cut(e, minus(EndOf(new), e.seq)) = TrimFront(e, b)
  BY <1>1, AbsorbFacts
<1>3. r \in RecvHalves /\ Sound(r.ooo)
  BY InvHalf
<1>4. walk' = IF EndOf(e) <= b
                THEN [walk EXCEPT !.cur = Tail(c), !.half.ooo_bytes = @ - Len(e.data)]
                ELSE [walk EXCEPT !.cur = <<TrimFront(e, b)>> \o Tail(c),
                                  !.half.ooo_bytes = @ - (b - e.seq)]
  BY <1>2 DEF Absorb
<1>5. /\ Count(p) \in Nat /\ Count(c) \in Nat /\ Count(Tail(c)) \in Nat /\ Len(e.data) \in Nat
      /\ Count(c) = Len(e.data) + Count(Tail(c)) /\ e.seq \in Nat
  <2>1. ListOk(p) /\ ListOk(c)
    BY <1>2 DEF Absorbing
  <2>2. Count(p) \in Nat
    BY <2>1, ListSound, BytesFinite DEF Count
  <2>3. e.seq \in Nat
    BY <1>1, <2>1, CurEntry, ListEntry
  <2> QED
    BY <1>1, <2>1, <2>2, <2>3, HeadCount
<1>6. r \in RecvHalves /\ walk.half = [r EXCEPT !.ooo_bytes = o]
  BY <1>2, <1>3 DEF AbsorbWalk
<1>7. ASSUME NEW l, NEW n, o - n = Count(p) + Count(l),
             walk' = [walk EXCEPT !.cur = l, !.half.ooo_bytes = @ - n]
      PROVE  walk' = AbsorbWalk(r, s, p, l)
  <2> DEFINE k == Count(p) + Count(l)
  <2>1. o - n = k
    BY <1>7
  <2> HIDE DEF s, p, c, a, b, e, o, k
  <2>2. walk = [pc |-> "absorb", seg |-> s, prev |-> p, cur |-> c,
                half |-> [r EXCEPT !.ooo_bytes = o]]
    BY <1>2 DEF AbsorbWalk, o
  <2>3. [r EXCEPT !.ooo_bytes = o].ooo_bytes = o
    BY <1>3 DEF RecvHalves
  <2>4. walk' = [walk EXCEPT !.cur = l, !.half = [@ EXCEPT !.ooo_bytes = o - n]]
    BY <1>7, <2>2, <2>3
  <2>5. [[r EXCEPT !.ooo_bytes = o] EXCEPT !.ooo_bytes = k] = [r EXCEPT !.ooo_bytes = k]
    BY <1>3 DEF RecvHalves
  <2>6. walk' = [pc |-> "absorb", seg |-> s, prev |-> p, cur |-> l,
                 half |-> [r EXCEPT !.ooo_bytes = k]]
    BY <2>1, <2>2, <2>4, <2>5
  <2> QED
    BY <2>6 DEF AbsorbWalk, k
<1> HIDE DEF p, c, a, b, e
<1>8. CASE EndOf(e) <= b
  <2>1. Absorbing(r.ooo, a, b, p, Tail(c)) /\ Count(c) - Len(e.data) = Count(Tail(c))
    BY <1>1, <1>2, <1>3, <1>8, AbsorbCovered DEF e
  <2>2. o - Len(e.data) = Count(p) + Count(Tail(c))
    BY <1>5
  <2>3. walk' = AbsorbWalk(r, s, p, Tail(c))
    BY <1>4, <1>7, <1>8, <2>2
  <2>4. Absorbing(r.ooo, s.seq, s.seq + s.len, p, Tail(c))
    BY <2>1 DEF a, b
  <2> HIDE DEF s, o
  <2> QED
    BY <1>2, <2>3, <2>4, MakeAbsorb
<1>9. CASE ~(EndOf(e) <= b)
  <2> DEFINE l == <<TrimFront(e, b)>> \o Tail(c)
             n == b - e.seq
  <2>1. Absorbing(r.ooo, a, b, p, l) /\ Count(c) - n = Count(l)
    BY <1>1, <1>2, <1>3, <1>9, AbsorbTrimmed DEF e
  <2>2. n \in Int
    BY <1>2, <1>5
  <2>3. walk' = [walk EXCEPT !.cur = l, !.half.ooo_bytes = @ - n]
    BY <1>4, <1>9
  <2> HIDE DEF l, n
  <2>4. o - n = Count(p) + Count(l)
    BY <1>5, <2>1, <2>2
  <2>5. walk' = AbsorbWalk(r, s, p, l)
    BY <1>7, <2>3, <2>4
  <2>6. Absorbing(r.ooo, s.seq, s.seq + s.len, p, l)
    BY <2>1 DEF a, b
  <2> HIDE DEF s, o
  <2> QED
    BY <1>2, <2>5, <2>6, MakeAbsorb
<1> QED
  BY <1>8, <1>9

\* What a forced ACK and a decision about one leave alone.
LEMMA ForcedStore ==
  ASSUME NEW t, GoodHalf(t), Ahead(t), NEW has_data \in BOOLEAN
  PROVE  LET u == utcp_output(force_ack(t), has_data)
         IN  u.ooo = t.ooo /\ u.rcv_nxt = t.rcv_nxt
  BY ForcedSettles DEF SameStore

\* The queue with a new near entry is near.
LEMMA InsertedNear ==
  ASSUME NEW n \in Nat, NEW q, Sound(q), NearQueue(n, q), NEW e \in Entries, n < e.seq,
         e.seq < EndOf(e), EndOf(e) <= n + HALF
  PROVE  NearQueue(n, Inserted(q, e))
<1> SUFFICES ASSUME NEW y \in Inserted(q, e) PROVE n < y.seq /\ EndOf(y) <= n + HALF
  BY DEF NearQueue
<1>1. e.seq \in Nat /\ EndOf(e) \in Nat
  BY EntryBounds
<1>2. CASE y \in q
  BY <1>2 DEF NearQueue
<1>3. CASE \E x \in q : y.seq = EndOf(e) /\ EndOf(y) = EndOf(x)
  <2>1. n < EndOf(e)
    BY <1>1
  <2> QED
    BY <1>3, <2>1 DEF NearQueue
<1>4. CASE y = e
  BY <1>4
<1>5. y \in q \/ (\E x \in q : y.seq = EndOf(e) /\ EndOf(y) = EndOf(x)) \/ y = e
  BY InsertedEntries
<1> QED
  BY <1>2, <1>3, <1>4, <1>5

\* Link is insert_ooo_segment with its set operations, and leaves list and queue
\* in agreement.
LEMMA LinkImplements ==
  ASSUME LoopInv, NEW has_data \in BOOLEAN, Link(has_data)
  PROVE  /\ walk.seg \in Segments /\ RecvOutOfOrder(walk.seg, TRUE, has_data)
         /\ QueueOk(ooo_head', r')
<1> DEFINE s == walk.seg
           p == walk.prev
           c == walk.cur
           a == s.seq
           b == s.seq + s.len
           q == r.ooo
           l == linked
           data == Stream(s.seq, s.len)
           o == Count(p) + Count(c)
           k == Cardinality(Bytes(q)) - freed_bytes(q, a, b) + s.len
           v == insert_ooo_segment(r, s.seq, data, TRUE)
<1>1. walk.pc = "absorb" /\ (c # <<>> => ~overlapped(Head(c)))
  BY DEF Link
<1>2. /\ walk = AbsorbWalk(r, s, p, c) /\ Placed(r, s)
      /\ Absorbing(q, a, b, p, c)
      /\ a \in Nat /\ b \in Nat /\ a < b /\ r.rcv_nxt < a /\ b <= r.rcv_nxt + HALF
      /\ new \in Entries /\ InRange(new) /\ new.seq = a /\ EndOf(new) = b
      /\ Len(new.data) = s.len
      /\ c # <<>> => ~(Head(c).seq < b)
  BY <1>1, AbsorbFacts
<1>3. /\ r \in RecvHalves /\ Sound(q) /\ r.ooo_bytes = Cardinality(Bytes(q))
      /\ GoodHalf(r) /\ Ahead(r) /\ r.rcv_nxt \in Nat /\ NearQueue(r.rcv_nxt, q)
  BY InvHalf
<1>4. /\ s \in Segments /\ s.seq \in Nat \ {0} /\ s.len \in Nat \ {0}
      /\ s.seq + s.len <= StreamLen + 1 /\ fits(r, data)
  BY <1>2, SegmentType DEF Placed
<1>5. data \in Seq(Nat) /\ Len(data) = s.len
  BY <1>4, StreamType
<1>6. ListOk(l) /\ entries(l) = Inserted(q, new) /\ o + s.len = k
  <2> DEFINE e == new
             m == p \o <<e>> \o c
  <2>1. l = m
    BY DEF linked
  <2>2. /\ e \in Entries /\ InRange(e) /\ Len(e.data) = s.len /\ e.seq = a /\ EndOf(e) = b
        /\ Absorbing(q, e.seq, EndOf(e), p, c) /\ (c # <<>> => ~(Head(c).seq < EndOf(e)))
    BY <1>2
  <2> HIDE DEF e, p, c, q, a, b, l, s
  <2>3. /\ ListOk(m) /\ entries(m) = Inserted(q, e)
        /\ Count(p) + Count(c) + Len(e.data)
             = Cardinality(Bytes(q)) - freed_bytes(q, e.seq, EndOf(e)) + Len(e.data)
    BY <1>3, <2>2, LinkEnds
  <2> HIDE DEF m
  <2>4. o + s.len = k
    BY <2>2, <2>3
  <2> QED
    BY <2>1, <2>3, <2>4 DEF e
<1>7. v = [r EXCEPT !.ooo = Inserted(q, new), !.ooo_bytes = k]
  <2>1. Len(data) <= free_space(r)
    BY <1>4 DEF fits
  <2>2. ~(Len(data) > free_space(r))
    <3>1. /\ r.recv_buf_tail \in Nat /\ r.recv_buf_head \in Nat /\ r.ooo_bytes \in Nat
          /\ RECV_BUF_SIZE \in Nat
      BY <1>3, HalfFields, RecvAssumption
    <3>2. free_space(r) \in Int
      BY <3>1 DEF free_space, buffered
    <3> HIDE DEF data
    <3> QED
      BY <1>4, <1>5, <2>1, <3>2
  <2>3. s.seq + Len(data) = b /\ new = [seq |-> s.seq, data |-> data]
    BY <1>5 DEF new
  <2> HIDE DEF data, b
  <2>4. v = [r EXCEPT !.ooo = ((@ \ covered(@, a, b)) \ straddling(r.ooo, b))
                                 \cup {TrimFront(e, b) : e \in straddling(r.ooo, b)}
                                 \cup {[seq |-> s.seq, data |-> data]},
                      !.ooo_bytes = @ - freed_bytes(r.ooo, a, b) + Len(data)]
    BY <2>2, <2>3 DEF insert_ooo_segment
  <2>5. Inserted(q, new) = ((q \ covered(q, a, b)) \ straddling(q, b))
                              \cup {TrimFront(e, b) : e \in straddling(q, b)} \cup {new}
    BY <1>2 DEF Inserted
  <2>6. r.ooo_bytes - freed_bytes(r.ooo, a, b) + Len(data) = k
    BY <1>3, <1>5
  <2> HIDE DEF a, q, k, v
  <2> QED
    BY <2>3, <2>4, <2>5, <2>6 DEF q
<1>8. [walk.half EXCEPT !.ooo = entries(l), !.ooo_bytes = @ + Len(new.data)] = v
  <2> DEFINE Q == Inserted(q, new)
  <2> HIDE DEF Q, k, o, v, l, p, c, q
  <2>1. walk.half = [r EXCEPT !.ooo_bytes = o]
    BY <1>2 DEF AbsorbWalk, o
  <2>2. walk.half.ooo_bytes + Len(new.data) = k
    <3>1. walk.half.ooo_bytes = o
      BY <1>3, <2>1 DEF RecvHalves
    <3> QED
      BY <1>2, <1>6, <3>1
  <2>3. [walk.half EXCEPT !.ooo = Q, !.ooo_bytes = k] = [r EXCEPT !.ooo = Q, !.ooo_bytes = k]
    BY <1>3, <2>1 DEF RecvHalves
  <2> QED
    BY <1>6, <1>7, <2>2, <2>3 DEF Q
<1>9. r' = utcp_output(force_ack(v), has_data) /\ ooo_head' = l /\ delivered' = delivered
  BY <1>8 DEF Link
<1>10. RecvOutOfOrder(s, TRUE, has_data)
  BY <1>2, <1>3, <1>9 DEF RecvOutOfOrder
<1>11. v.ooo = Inserted(q, new) /\ v.rcv_nxt = r.rcv_nxt
  BY <1>3, <1>7 DEF RecvHalves
<1>12. GoodHalf(v) /\ Ahead(v)
  <2>1. data # <<>> /\ s.seq + Len(data) <= StreamLen + 1 /\ s.seq \in Nat
    BY <1>4, <1>5
  <2>2. r.rcv_nxt < s.seq /\ TRUE \in BOOLEAN
    BY <1>2
  <2> HIDE DEF data, s
  <2> QED
    BY <1>3, <1>5, <2>1, <2>2, InsertGood
<1>13. r'.ooo = Inserted(q, new) /\ r'.rcv_nxt = r.rcv_nxt
  <2> HIDE DEF v, q
  <2> QED
    BY <1>9, <1>11, <1>12, ForcedStore
<1>14. NearQueue(r.rcv_nxt, Inserted(q, new))
  BY <1>2, <1>3, InsertedNear
<1>15. QueueOk(ooo_head', r')
  <2> HIDE DEF l
  <2> QED
    BY <1>6, <1>9, <1>13, <1>14 DEF QueueOk
<1> QED
  BY <1>4, <1>10, <1>15

-----------------------------------------------------------------------------
\* The walk of drain_ooo_queue, step by step

LEMMA BeginDrainKeeps ==
  ASSUME LoopInv, NEW s \in Segments, BeginDrain(s)
  PROVE  WalkOk(walk', r)
<1> DEFINE d == Payload(r, s)
           t == Written(r, d)
           x == t.rcv_nxt
<1>1. /\ GoodHalf(r) /\ TrueHalf(r) /\ ListOk(ooo_head) /\ entries(ooo_head) = r.ooo
  BY InvHalf
<1>2. Taken(r, s)
  BY DEF BeginDrain, Near, Taken, Payload
<1>3. GoodHalf(t) /\ t.ooo = r.ooo /\ stored(r, d) = t
  BY <1>1, <1>2, TakenWritten
<1>4. walk' = [pc |-> "drain", seg |-> s, prev |-> <<>>, cur |-> ooo_head, half |-> stored(r, d)]
  BY DEF BeginDrain, Payload
<1> HIDE DEF t
<1>5. Draining(t, x, ooo_head) /\ DrainedUpTo(t, x, ooo_head) = t
  BY <1>1, <1>3, DrainBegins
<1> HIDE DEF x
<1>6. walk' = DrainWalk(r, s, x, ooo_head)
  BY <1>3, <1>4, <1>5 DEF DrainWalk, t
<1>7. Draining(Written(r, Payload(r, s)), x, ooo_head)
  BY <1>5 DEF t
<1> QED
  BY <1>1, <1>2, <1>6, <1>7, MakeDrain

\* Facts about a walk in the drain; t is the half at its begin.
LEMMA DrainFacts ==
  ASSUME LoopInv, walk.pc = "drain"
  PROVE  LET s == walk.seg
             t == Written(r, Payload(r, walk.seg))
             x == walk.half.rcv_nxt
             c == walk.cur
             e == Head(walk.cur)
         IN  /\ walk = DrainWalk(r, s, x, c) /\ Taken(r, s) /\ Draining(t, x, c)
             /\ walk.half = DrainedUpTo(t, x, c)
             /\ GoodHalf(t) /\ TrueHalf(t) /\ t.ooo = r.ooo
             /\ t.rcv_nxt = s.seq + s.len /\ r.rcv_nxt < t.rcv_nxt /\ x \in Nat
             /\ c # <<>> => /\ redundant(e) <=> EndOf(e) <= x
                            /\ ~redundant(e) => (continues(e) <=> e.seq <= x)
                            /\ ~redundant(e) /\ e.seq <= x => cut(e, trim(e)) = TrimFront(e, x)
                            /\ e.seq > x => trim(e) = 0 /\ cut(e, trim(e)) = e
                            /\ e.seq \in Nat /\ EndOf(e) \in Nat
<1> DEFINE s == walk.seg
           t == Written(r, Payload(r, walk.seg))
           x == walk.half.rcv_nxt
           c == walk.cur
           e == Head(walk.cur)
<1>1. DrainState(walk, r)
  BY WalkPc DEF LoopInv
<1>2. walk = DrainWalk(r, s, x, c) /\ Taken(r, s) /\ Draining(t, x, c)
  BY <1>1 DEF DrainState
<1>3. walk.half = DrainedUpTo(t, x, c)
  <2> HIDE DEF x, c, s
  <2> QED
    BY <1>2 DEF DrainWalk, s
<1>4. GoodHalf(r) /\ TrueHalf(r) /\ r.rcv_nxt \in Nat /\ NearQueue(r.rcv_nxt, r.ooo)
  BY InvHalf
<1>5. GoodHalf(t) /\ TrueHalf(t) /\ t.ooo = r.ooo /\ t.rcv_nxt = s.seq + s.len
  BY <1>2, <1>4, TakenWritten
<1>6. r.rcv_nxt < t.rcv_nxt /\ t.rcv_nxt <= r.rcv_nxt + HALF
  BY <1>2, <1>5 DEF Taken
<1>7. x \in Nat
  BY <1>2 DEF Draining
<1>8. ASSUME c # <<>>
      PROVE  /\ redundant(e) <=> EndOf(e) <= x
             /\ ~redundant(e) => (continues(e) <=> e.seq <= x)
             /\ ~redundant(e) /\ e.seq <= x => cut(e, trim(e)) = TrimFront(e, x)
             /\ e.seq > x => trim(e) = 0 /\ cut(e, trim(e)) = e
             /\ e.seq \in Nat /\ EndOf(e) \in Nat
  <2> DEFINE b == r.rcv_nxt
  <2>1. b \in Nat /\ b < t.rcv_nxt /\ t.rcv_nxt <= b + HALF /\ NearQueue(b, t.ooo)
    BY <1>4, <1>5, <1>6
  <2>2. e \in entries(c) /\ ListOk(c)
    BY <1>2, <1>8, CurEntry DEF Draining
  <2>3. e.seq \in Nat /\ EndOf(e) \in Nat
    <3> HIDE DEF e, c
    <3> QED
      BY <2>2, ListEntry
  <2> HIDE DEF t, x, b
  <2>4. /\ redundant(e) <=> EndOf(e) <= x
        /\ ~redundant(e) => (continues(e) <=> e.seq <= x)
        /\ ~redundant(e) /\ e.seq <= x => cut(e, trim(e)) = TrimFront(e, x)
        /\ e.seq > x => trim(e) = 0 /\ cut(e, trim(e)) = e
    BY <1>2, <1>3, <1>5, <1>8, <2>1, DrainDecides
  <2> QED
    BY <2>3, <2>4
<1> QED
  BY <1>2, <1>3, <1>5, <1>6, <1>7, <1>8

\* Only the count depends on the list that is left.
LEMMA DrainedCount ==
  ASSUME NEW t, t \in RecvHalves, NEW x, NEW l, NEW m
  PROVE  /\ DrainedUpTo(t, x, l).ooo_bytes = Count(l)
         /\ [DrainedUpTo(t, x, l) EXCEPT !.ooo_bytes = Count(m)] = DrainedUpTo(t, x, m)
<1> DEFINE ring == ring_buf_write(t.recv_buf, RECV_BUF_SIZE, t.recv_buf_tail,
                                  Stream(t.rcv_nxt, x - t.rcv_nxt))
           cl == Count(l)
           cm == Count(m)
           tail == x - 1
<1>1. /\ DrainedUpTo(t, x, l) = [t EXCEPT !.recv_buf = ring, !.recv_buf_tail = tail,
                                          !.rcv_nxt = x, !.ooo_bytes = cl]
      /\ DrainedUpTo(t, x, m) = [t EXCEPT !.recv_buf = ring, !.recv_buf_tail = tail,
                                          !.rcv_nxt = x, !.ooo_bytes = cm]
  BY DEF DrainedUpTo
<1> HIDE DEF ring, cl, cm, tail
<1>2. /\ DrainedUpTo(t, x, l).ooo_bytes = cl
      /\ [DrainedUpTo(t, x, l) EXCEPT !.ooo_bytes = cm] = DrainedUpTo(t, x, m)
  BY <1>1 DEF RecvHalves
<1> QED
  BY <1>2 DEF cl, cm

LEMMA DrainRedundantKeeps ==
  ASSUME LoopInv, DrainRedundant
  PROVE  WalkOk(walk', r)
<1> DEFINE s == walk.seg
           t == Written(r, Payload(r, walk.seg))
           x == walk.half.rcv_nxt
           c == walk.cur
           e == Head(c)
           n == Len(e.data)
           h == DrainedUpTo(t, x, c)
           k == Count(Tail(c))
<1>1. walk.pc = "drain" /\ c # <<>> /\ redundant(e)
  BY DEF DrainRedundant
<1>2. /\ walk = DrainWalk(r, s, x, c) /\ Taken(r, s) /\ Draining(t, x, c)
      /\ walk.half = h /\ GoodHalf(t) /\ EndOf(e) <= x
  BY <1>1, DrainFacts
<1>3. GoodHalf(r) /\ TrueHalf(r)
  BY InvHalf
<1>4. walk' = [walk EXCEPT !.cur = Tail(c), !.half.ooo_bytes = @ - n]
  BY DEF DrainRedundant
<1> HIDE DEF x, c
<1>5. Draining(t, x, Tail(c)) /\ Count(c) - n = k
  <2> HIDE DEF t
  <2> QED
    BY <1>1, <1>2, RedundantStep
<1>6. h.ooo_bytes = Count(c) /\ [h EXCEPT !.ooo_bytes = k] = DrainedUpTo(t, x, Tail(c))
  <2>1. t \in RecvHalves
    BY <1>2 DEF GoodHalf
  <2> HIDE DEF t
  <2> QED
    BY <2>1, DrainedCount
<1> HIDE DEF s, n, k, h
<1>7. walk = [pc |-> "drain", seg |-> s, prev |-> <<>>, cur |-> c, half |-> h]
  BY <1>2 DEF DrainWalk, h, s
<1>8. walk' = [walk EXCEPT !.cur = Tail(c), !.half = [h EXCEPT !.ooo_bytes = k]]
  BY <1>4, <1>5, <1>6, <1>7
<1> DEFINE g == DrainedUpTo(t, x, Tail(c))
<1>9. walk' = [pc |-> "drain", seg |-> s, prev |-> <<>>, cur |-> Tail(c), half |-> g]
  <2> HIDE DEF g, t
  <2> QED
    BY <1>6, <1>7, <1>8 DEF g
<1>10. walk' = DrainWalk(r, s, x, Tail(c))
  BY <1>9 DEF DrainWalk, s
<1>11. Draining(Written(r, Payload(r, s)), x, Tail(c))
  BY <1>5 DEF s
<1> QED
  BY <1>2, <1>3, <1>10, <1>11, MakeDrain

LEMMA DrainNextKeeps ==
  ASSUME LoopInv, DrainNext
  PROVE  WalkOk(walk', r)
<1> DEFINE s == walk.seg
           t == Written(r, Payload(r, walk.seg))
           x == walk.half.rcv_nxt
           c == walk.cur
           e == Head(c)
           n == Len(e.data)
           h == DrainedUpTo(t, x, c)
           k == Count(Tail(c))
           d == TrimFront(e, x).data
           y == EndOf(e)
           g == DrainedUpTo(t, y, Tail(c))
<1>1. walk.pc = "drain" /\ c # <<>> /\ ~redundant(e) /\ continues(e)
  BY DEF DrainNext
<1>2. /\ walk = DrainWalk(r, s, x, c) /\ Taken(r, s) /\ Draining(t, x, c)
      /\ walk.half = h /\ GoodHalf(t) /\ TrueHalf(t)
      /\ e.seq <= x /\ ~(y <= x) /\ cut(e, trim(e)) = TrimFront(e, x)
      /\ x \in Nat /\ y \in Nat
  BY <1>1, DrainFacts
<1>3. GoodHalf(r) /\ TrueHalf(r) /\ x < y
  <2>1. x < y
    <3> HIDE DEF x, y
    <3> QED
      BY <1>2
  <2> QED
    BY <2>1, InvHalf
<1>4. walk' = [walk EXCEPT !.cur = Tail(c), !.half = [stored(h, d) EXCEPT !.ooo_bytes = @ - n]]
  <2> DEFINE f == cut(e, trim(e))
  <2>1. walk' = [walk EXCEPT !.cur = Tail(c),
                             !.half = [stored(walk.half, f.data) EXCEPT !.ooo_bytes = @ - n]]
    BY DEF DrainNext
  <2>2. f.data = d /\ walk.half = h
    BY <1>2
  <2> HIDE DEF f, d, h, n, c, e
  <2> QED
    BY <2>1, <2>2
<1> HIDE DEF x, c
<1>5. Draining(t, y, Tail(c)) /\ Count(c) - n = k
  <2> HIDE DEF t
  <2> QED
    BY <1>1, <1>2, <1>3, NextStep
<1>6. [stored(h, d) EXCEPT !.ooo_bytes = k] = g
  <2> DEFINE m == Tail(c)
  <2> HIDE DEF t, m
  <2>1. Moved(t, x, c, m) = DrainedUpTo(t, EndOf(Head(c)), m)
    BY <1>1, <1>2, <1>3, NextWrite
  <2> QED
    BY <2>1 DEF m, Moved
<1>7. stored(h, d).ooo_bytes = Count(c)
  <2>1. t \in RecvHalves
    BY <1>2 DEF GoodHalf
  <2> HIDE DEF t
  <2>2. h.ooo_bytes = Count(c)
    BY <2>1, DrainedCount
  <2>3. stored(h, d).ooo_bytes = h.ooo_bytes
    BY <2>1 DEF stored, RecvHalves, DrainedUpTo
  <2> QED
    BY <2>2, <2>3
<1> HIDE DEF s, n, k, h, d, g, y
<1>8. walk = [pc |-> "drain", seg |-> s, prev |-> <<>>, cur |-> c, half |-> h]
  BY <1>2 DEF DrainWalk, h, s
<1>9. [stored(h, d) EXCEPT !.ooo_bytes = @ - n] = g
  <2>1. [stored(h, d) EXCEPT !.ooo_bytes = @ - n]
          = [stored(h, d) EXCEPT !.ooo_bytes = stored(h, d).ooo_bytes - n]
    OBVIOUS
  <2> QED
    BY <1>5, <1>6, <1>7, <2>1
<1>10. walk' = [pc |-> "drain", seg |-> s, prev |-> <<>>, cur |-> Tail(c), half |-> g]
  BY <1>4, <1>8, <1>9
<1>11. walk' = DrainWalk(r, s, y, Tail(c))
  BY <1>10 DEF DrainWalk, s, g
<1>12. Draining(Written(r, Payload(r, s)), y, Tail(c))
  BY <1>5 DEF s
<1> QED
  BY <1>2, <1>3, <1>11, <1>12, MakeDrain

\* EndDrain is the whole in-order branch with the set operations of
\* drain_ooo_queue, and leaves list and queue in agreement.
LEMMA EndDrainImplements ==
  ASSUME LoopInv, NEW dupacks \in BOOLEAN, NEW has_data \in BOOLEAN, EndDrain(dupacks, has_data)
  PROVE  /\ walk.seg \in Segments /\ RecvInOrder(walk.seg, dupacks, has_data)
         /\ QueueOk(ooo_head', r')
<1> DEFINE s == walk.seg
           d == Payload(r, s)
           t == Written(r, Payload(r, walk.seg))
           x == walk.half.rcv_nxt
           c == walk.cur
           e == Head(c)
           h == DrainedUpTo(t, x, c)
           u == drain_ooo_queue(t)
           v == ack_policy(u, u.rcv_nxt # t.rcv_nxt, dupacks)
<1>1. walk.pc = "drain" /\ (c # <<>> => ~redundant(e) /\ ~continues(e))
  BY DEF EndDrain, drained
<1>2. /\ walk = DrainWalk(r, s, x, c) /\ Taken(r, s) /\ Draining(t, x, c)
      /\ walk.half = h /\ GoodHalf(t) /\ TrueHalf(t) /\ t.ooo = r.ooo
      /\ t.rcv_nxt = s.seq + s.len /\ r.rcv_nxt < t.rcv_nxt /\ x \in Nat
      /\ c # <<>> => /\ e.seq \in Nat /\ ~(e.seq <= x)
                     /\ e.seq > x => trim(e) = 0 /\ cut(e, trim(e)) = e
  BY <1>1, DrainFacts
<1>3. /\ GoodHalf(r) /\ r.rcv_nxt \in Nat /\ NearQueue(r.rcv_nxt, r.ooo)
  BY InvHalf
<1>4. ListOk(c) /\ entries(c) \subseteq t.ooo /\ t.rcv_nxt <= x /\ Count(c) \in Nat
  <2>1. ListOk(c) /\ entries(c) \subseteq t.ooo /\ t.rcv_nxt <= x
    BY <1>2 DEF Draining
  <2>2. Count(c) \in Nat
    BY <2>1, ListSound, BytesFinite DEF Count
  <2> QED
    BY <2>1, <2>2
<1>5. c # <<>> => e.seq > x /\ trim(e) = 0 /\ cut(e, trim(e)) = e
  <2> HIDE DEF e, x, c
  <2> QED
    BY <1>2
<1>6. rest = c
  <2>1. CASE c = <<>>
    BY <2>1 DEF rest
  <2>2. CASE c # <<>>
    <3>1. c \in Seq(Entries)
      BY <1>4 DEF ListOk
    <3>2. rest = <<e>> \o Tail(c)
      BY <1>5, <2>2 DEF rest
    <3> HIDE DEF c
    <3>3. <<Head(c)>> \o Tail(c) = c
      BY <2>2, <3>1
    <3> QED
      BY <3>2, <3>3
  <2> QED
    BY <2>1, <2>2
<1> DEFINE cut_off == IF walk.cur = <<>> THEN 0 ELSE trim(Head(walk.cur))
           t2 == [walk.half EXCEPT !.ooo = entries(rest), !.ooo_bytes = @ - cut_off]
<1>7. cut_off = 0
  BY <1>5
<1>8. /\ r' = utcp_output(ack_policy(t2, t2.rcv_nxt # s.seq + s.len, dupacks), has_data)
      /\ ooo_head' = rest /\ delivered' = delivered
  BY DEF EndDrain
<1>9. t \in RecvHalves
  BY <1>2 DEF GoodHalf
<1> HIDE DEF c, x
<1>10. x = drained_to(t) /\ entries(c) = Left(t) /\ [h EXCEPT !.ooo = entries(c)] = u
  <2> HIDE DEF t
  <2> QED
    BY <1>2, <1>5, DrainEnds
<1>11. t2 = u
  <2>1. h.ooo_bytes = Count(c)
    <3> HIDE DEF t
    <3> QED
      BY <1>9, DrainedCount
  <2> HIDE DEF h, u, cut_off
  <2>2. h.ooo_bytes - cut_off = h.ooo_bytes
    BY <1>4, <1>7, <2>1
  <2>3. t2 = [h EXCEPT !.ooo = entries(c), !.ooo_bytes = h.ooo_bytes]
    BY <1>2, <1>6, <2>2
  <2>4. h = [t EXCEPT !.recv_buf = h.recv_buf, !.recv_buf_tail = h.recv_buf_tail,
                      !.rcv_nxt = h.rcv_nxt, !.ooo_bytes = h.ooo_bytes]
    <3> HIDE DEF t
    <3> QED
      BY <1>9 DEF h, DrainedUpTo, RecvHalves
  <2>5. [h EXCEPT !.ooo = entries(c), !.ooo_bytes = h.ooo_bytes] = [h EXCEPT !.ooo = entries(c)]
    <3> HIDE DEF t
    <3> QED
      BY <1>9, <2>4 DEF RecvHalves
  <2> QED
    BY <1>10, <2>3, <2>5
<1> HIDE DEF t2, rest, cut_off
<1>12. r' = utcp_output(v, has_data)
  BY <1>2, <1>8, <1>11
<1>13. accept_in_order(r, d, dupacks) = v
  BY DEF accept_in_order, Written
<1>14. RecvInOrder(s, dupacks, has_data) /\ s \in Segments
  <2>1. /\ s \in Segments /\ s.seq <= r.rcv_nxt /\ r.rcv_nxt < s.seq + s.len
        /\ fits(r, d)
    BY <1>2 DEF Taken
  <2> HIDE DEF v
  <2> QED
    BY <1>8, <1>12, <1>13, <2>1 DEF RecvInOrder, Payload
<1>15. GoodHalf(u) /\ Ahead(u) /\ u.rcv_nxt = x /\ u.ooo = entries(c)
  <2> HIDE DEF t
  <2>1. GoodHalf(u) /\ Ahead(u)
    BY <1>2, DrainGood
  <2>2. u.rcv_nxt = x /\ u.ooo = entries(c)
    <3> HIDE DEF u
    <3> QED
      BY <1>9, <1>10 DEF h, DrainedUpTo, RecvHalves
  <2> QED
    BY <2>1, <2>2
<1> HIDE DEF u
<1>16. GoodHalf(v) /\ SameStore(u, v)
  <2> DEFINE gap == u.rcv_nxt # t.rcv_nxt
  <2>1. gap \in BOOLEAN
    OBVIOUS
  <2> HIDE DEF gap
  <2>2. GoodHalf(ack_policy(u, gap, dupacks)) /\ SameStore(u, ack_policy(u, gap, dupacks))
    BY <1>15, <2>1, PolicyGood
  <2> QED
    BY <2>2 DEF gap
<1> HIDE DEF v
<1>17. r'.ooo = entries(c) /\ r'.rcv_nxt = x
  <2>1. SameStore(v, r')
    BY <1>12, <1>16, OutputStamps
  <2> QED
    BY <1>15, <1>16, <2>1 DEF SameStore
<1>18. NearQueue(x, entries(c))
  <2> SUFFICES ASSUME NEW y \in entries(c) PROVE x < y.seq /\ EndOf(y) <= x + HALF
    BY DEF NearQueue
  <2>1. y.seq > x
    BY <1>15 DEF Ahead
  <2>2. y.seq \in Nat /\ EndOf(y) \in Nat
    BY <1>4, ListEntry
  <2>3. EndOf(y) <= r.rcv_nxt + HALF
    BY <1>2, <1>3, <1>4 DEF NearQueue
  <2>4. t.rcv_nxt \in Nat
    <3> HIDE DEF t
    <3> QED
      BY <1>9, HalfFields
  <2> HIDE DEF t
  <2> QED
    BY <1>2, <1>3, <1>4, <2>1, <2>2, <2>3, <2>4, HalfAssumption
<1>19. QueueOk(ooo_head', r')
  BY <1>4, <1>6, <1>8, <1>17, <1>18 DEF QueueOk
<1> QED
  BY <1>14, <1>19

-----------------------------------------------------------------------------
\* Every step

\* The branches without a walk leave the queue alone.
LEMMA NoWalkKeeps ==
  ASSUME LoopInv, NoWalk
  PROVE  [Next]_vars /\ r'.ooo = r.ooo /\ r'.rcv_nxt = r.rcv_nxt
<1> DEFINE Goal == [Next]_vars /\ r'.ooo = r.ooo /\ r'.rcv_nxt = r.rcv_nxt
<1>1. GoodHalf(r) /\ Ahead(r) /\ Settled(r) /\ r.rcv_nxt \in Nat /\ r \in RecvHalves
  BY InvHalf DEF LoopInv, RecvInv
<1> SUFFICES Goal
  OBVIOUS
<1>2. ASSUME NEW s \in Segments, NEW has_data \in BOOLEAN, RecvDuplicate(s, has_data) PROVE Goal
  <2>1. r' = utcp_output(force_ack(r), has_data)
    BY <1>2 DEF RecvDuplicate
  <2>2. r'.ooo = r.ooo /\ r'.rcv_nxt = r.rcv_nxt
    BY <1>1, <2>1, ForcedStore
  <2>3. Next
    BY <1>2 DEF Next, Recv
  <2> QED
    BY <2>2, <2>3
<1>3. ASSUME NEW s \in Segments, NEW has_data \in BOOLEAN, RecvOutOfOrder(s, FALSE, has_data)
      PROVE  Goal
  <2>1. r' = utcp_output(force_ack(r), has_data)
    BY <1>3 DEF RecvOutOfOrder, insert_ooo_segment
  <2>2. r'.ooo = r.ooo /\ r'.rcv_nxt = r.rcv_nxt
    BY <1>1, <2>1, ForcedStore
  <2>3. Next
    BY <1>3 DEF Next, Recv
  <2> QED
    BY <2>2, <2>3
<1>4. ASSUME NEW s \in Segments, RecvNoSpace(s) PROVE Goal
  BY <1>4 DEF RecvNoSpace, vars
<1>5. CASE AppRead
  <2>1. PICK len \in 1 .. ReadMax, has_data \in BOOLEAN : Read(len, has_data)
    BY <1>5 DEF AppRead
  <2>2. len \in Nat
    BY ReceiverAssumption
  <2>3. buffered(r) > 0 /\ r' = utcp_read(r, len, has_data).r
    BY <2>1 DEF Read
  <2>4. r'.ooo = r.ooo /\ r'.rcv_nxt = r.rcv_nxt
    BY <1>1, <2>2, <2>3, ReadSettles
  <2> QED
    BY <1>5, <2>4 DEF Next
<1>6. CASE Delack
  <2>1. PICK has_data \in BOOLEAN : DelackExpire(has_data)
    BY <1>6 DEF Delack
  <2> DEFINE v == Flagged(r, r.t_flags \ {"TF_DELACK"}, FALSE)
  <2>2. r' = utcp_output(force_ack(v), has_data)
    BY <2>1 DEF DelackExpire, Flagged
  <2>3. r.t_flags \ {"TF_DELACK"} \in SUBSET {"TF_ACKNOW", "TF_DELACK"} /\ FALSE \in BOOLEAN
    BY <1>1, HalfFields
  <2>4. GoodHalf(v) /\ v.rcv_nxt = r.rcv_nxt /\ v.ooo = r.ooo
    BY <1>1, <2>3, FlagsGood
  <2> HIDE DEF v
  <2>5. Ahead(v)
    BY <1>1, <2>4 DEF Ahead
  <2>6. r'.ooo = v.ooo /\ r'.rcv_nxt = v.rcv_nxt
    BY <2>2, <2>4, <2>5, ForcedStore
  <2> QED
    BY <1>6, <2>4, <2>6 DEF Next
<1>7. CASE SendData
  <2>1. TRUE \in BOOLEAN /\ r' = utcp_output(r, TRUE)
    BY <1>7 DEF SendData
  <2>2. SameStore(r, r')
    BY <1>1, <2>1, OutputStamps
  <2> QED
    BY <1>7, <2>2 DEF Next, SameStore
<1>8. CASE Retransmit
  <2>1. r' = utcp_send_segment(r)
    BY <1>8 DEF Retransmit
  <2>2. SameStore(r, r')
    BY <1>1, <2>1, SendGood
  <2> QED
    BY <1>8, <2>2 DEF Next, SameStore
<1> HIDE DEF Goal
<1> QED
  BY <1>2, <1>3, <1>4, <1>5, <1>6, <1>7, <1>8 DEF NoWalk

\* Every step of the loops is a step of Receiver or none, and keeps list and
\* queue in agreement and the walk where its loop invariant holds.
LEMMA StepImplements ==
  ASSUME LoopInv, [LoopNext]_loop_vars
  PROVE  [Next]_vars /\ QueueOk(ooo_head', r') /\ WalkOk(walk', r')
<1> DEFINE Goal == [Next]_vars /\ QueueOk(ooo_head', r') /\ WalkOk(walk', r')
<1>1. QueueOk(ooo_head, r) /\ WalkOk(walk, r)
  BY DEF LoopInv
<1>2. ASSUME UNCHANGED <<vars, ooo_head>>, WalkOk(walk', r) PROVE Goal
  BY <1>1, <1>2 DEF vars
<1>3. ASSUME [Next]_vars, QueueOk(ooo_head', r'), walk' = Idle PROVE Goal
  BY <1>3 DEF WalkOk
<1> SUFFICES Goal
  OBVIOUS
<1> HIDE DEF Goal
<1>4. CASE NoWalk
  <2>1. [Next]_vars /\ r'.ooo = r.ooo /\ r'.rcv_nxt = r.rcv_nxt
    BY <1>4, NoWalkKeeps
  <2>2. ooo_head' = ooo_head /\ walk' = Idle
    BY <1>4 DEF NoWalk
  <2>3. QueueOk(ooo_head', r')
    BY <1>1, <2>1, <2>2 DEF QueueOk
  <2> QED
    BY <1>3, <2>1, <2>2, <2>3
<1>5. ASSUME NEW s \in Segments, BeginInsert(s) PROVE Goal
  <2>1. UNCHANGED <<vars, ooo_head>>
    BY <1>5 DEF BeginInsert
  <2> QED
    BY <1>2, <1>5, <2>1, BeginInsertKeeps
<1>6. ASSUME NEW s \in Segments, BeginDrain(s) PROVE Goal
  <2>1. UNCHANGED <<vars, ooo_head>>
    BY <1>6 DEF BeginDrain
  <2> QED
    BY <1>2, <1>6, <2>1, BeginDrainKeeps
<1>7. CASE Skip
  <2>1. UNCHANGED <<vars, ooo_head>>
    BY <1>7 DEF Skip
  <2> QED
    BY <1>2, <1>7, <2>1, SkipKeeps
<1>8. CASE Skipped
  <2>1. UNCHANGED <<vars, ooo_head>>
    BY <1>8 DEF Skipped
  <2> QED
    BY <1>2, <1>8, <2>1, SkippedKeeps
<1>9. CASE Absorb
  <2>1. UNCHANGED <<vars, ooo_head>>
    BY <1>9 DEF Absorb
  <2> QED
    BY <1>2, <1>9, <2>1, AbsorbKeeps
<1>10. ASSUME NEW has_data \in BOOLEAN, Link(has_data) PROVE Goal
  <2>1. /\ walk.seg \in Segments /\ RecvOutOfOrder(walk.seg, TRUE, has_data)
        /\ QueueOk(ooo_head', r')
    BY <1>10, LinkImplements
  <2>2. Next
    BY <2>1 DEF Next, Recv
  <2>3. walk' = Idle
    BY <1>10 DEF Link
  <2> QED
    BY <1>3, <2>1, <2>2, <2>3
<1>11. CASE DrainRedundant
  <2>1. UNCHANGED <<vars, ooo_head>>
    BY <1>11 DEF DrainRedundant
  <2> QED
    BY <1>2, <1>11, <2>1, DrainRedundantKeeps
<1>12. CASE DrainNext
  <2>1. UNCHANGED <<vars, ooo_head>>
    BY <1>12 DEF DrainNext
  <2> QED
    BY <1>2, <1>12, <2>1, DrainNextKeeps
<1>13. ASSUME NEW dupacks \in BOOLEAN, NEW has_data \in BOOLEAN, EndDrain(dupacks, has_data)
       PROVE  Goal
  <2>1. /\ walk.seg \in Segments /\ RecvInOrder(walk.seg, dupacks, has_data)
        /\ QueueOk(ooo_head', r')
    BY <1>13, EndDrainImplements
  <2>2. Next
    BY <2>1 DEF Next, Recv
  <2>3. walk' = Idle
    BY <1>13 DEF EndDrain
  <2> QED
    BY <1>3, <2>1, <2>2, <2>3
<1>14. CASE UNCHANGED loop_vars
  <2>1. r' = r /\ delivered' = delivered /\ ooo_head' = ooo_head /\ walk' = walk
    BY <1>14 DEF loop_vars
  <2>2. UNCHANGED <<vars, ooo_head>> /\ WalkOk(walk', r)
    BY <1>1, <2>1 DEF vars
  <2> QED
    BY <1>2, <2>2
<1> QED
  BY <1>4, <1>5, <1>6, <1>7, <1>8, <1>9, <1>10, <1>11, <1>12, <1>13, <1>14 DEF LoopNext

LEMMA LoopInitInv == LoopInit => LoopInv
<1> SUFFICES ASSUME LoopInit PROVE LoopInv
  OBVIOUS
<1>1. Init /\ ooo_head = <<>> /\ walk = Idle
  BY DEF LoopInit
<1>2. RecvInv
  BY <1>1, InitInv
<1>3. r.ooo = {}
  BY <1>1 DEF Init
<1>4. QueueOk(ooo_head, r)
  BY <1>1, <1>3, EmptyList DEF QueueOk, NearQueue
<1> QED
  BY <1>1, <1>2, <1>4 DEF LoopInv, WalkOk

LEMMA LoopStepInv == LoopInv /\ [LoopNext]_loop_vars => LoopInv' /\ [Next]_vars
<1> SUFFICES ASSUME LoopInv, [LoopNext]_loop_vars PROVE LoopInv' /\ [Next]_vars
  OBVIOUS
<1>1. [Next]_vars /\ QueueOk(ooo_head', r') /\ WalkOk(walk', r')
  BY StepImplements
<1>2. RecvInv'
  BY <1>1, StepInv DEF LoopInv
<1>3. LoopInv'
  BY <1>1, <1>2 DEF LoopInv
<1> QED
  BY <1>1, <1>3

\* The inductive invariant of the walks: in every reachable state the list is
\* the queue in order, and a walk that is under way satisfies the invariant of
\* its loop.
THEOREM LoopInvariance == LoopSpec => []LoopInv
<1>1. LoopInit => LoopInv
  BY LoopInitInv
<1>2. LoopInv /\ [LoopNext]_loop_vars => LoopInv'
  BY LoopStepInv
<1> QED
  BY <1>1, <1>2, PTL DEF LoopSpec

\* ListSorted: skipping, absorbing, cutting and draining leave the list in
\* ascending order, without overlaps and without bytes received already, also
\* across the wrap of the numbers, and it holds what the queue of Receiver holds.
THEOREM ListStaysSorted == LoopSpec => []ListSorted
<1>1. LoopInv => ListSorted
  <2> SUFFICES ASSUME LoopInv PROVE ListSorted
    OBVIOUS
  <2>1. ListOk(ooo_head) /\ entries(ooo_head) = r.ooo /\ NearQueue(r.rcv_nxt, r.ooo)
    BY DEF LoopInv, QueueOk
  <2>2. ASSUME NEW e \in r.ooo PROVE e.data # <<>> /\ e.seq > r.rcv_nxt
    <3>1. /\ e.seq \in Nat /\ EndOf(e) = e.seq + Len(e.data) /\ e.seq < EndOf(e)
      BY <2>1, ListEntry
    <3>2. r.rcv_nxt < e.seq
      BY <2>1 DEF NearQueue
    <3>3. e.data = <<>> => Len(e.data) = 0
      OBVIOUS
    <3>4. r.rcv_nxt \in Nat
      BY InvHalf, HalfFields DEF LoopInv
    <3> QED
      BY <3>1, <3>2, <3>3, <3>4
  <2> QED
    BY <2>1, <2>2 DEF ListOk, Sorted, ListSorted
<1> QED
  BY <1>1, LoopInvariance, PTL

\* Free space computed from stored positions is the true one.
LEMMA FreeSpaceStored ==
  ASSUME LoopInv
  PROVE  RECV_BUF_SIZE - minus(r.recv_buf_tail, r.recv_buf_head) - r.ooo_bytes = free_space(r)
<1> DEFINE a == r.recv_buf_tail
           b == r.recv_buf_head
<1>1. GoodHalf(r) /\ r \in RecvHalves
  BY InvHalf
<1>2. /\ a \in Nat /\ b \in Nat /\ r.ooo_bytes \in Nat /\ b <= a
      /\ a - b + r.ooo_bytes <= RECV_BUF_SIZE
  BY <1>1, HalfFields DEF GoodHalf
<1>3. /\ RECV_BUF_SIZE \in Nat \ {0} /\ RECV_BUF_SIZE <= HALF /\ HALF \in Nat
  BY RecvAssumption, WidthAssumption, HalfAssumption
<1> HIDE DEF a, b
<1>4. a - b < 2 * HALF
  BY <1>2, <1>3
<1>5. minus(a, b) = a - b
  BY <1>2, <1>4, MinusExact
<1> QED
  BY <1>5 DEF free_space, buffered, a, b

\* BranchAgrees: comparing sequence numbers of 32 bits and subtracting stored
\* positions, handle_received_data takes the branch the true numbers call for,
\* whatever has been received.
THEOREM BranchesAgree == LoopSpec => []BranchAgrees
<1>1. ASSUME LoopInv, NEW s \in Segments, Near(s)
      PROVE  /\ SEQ_LT(s.seq, r.rcv_nxt) <=> s.seq < r.rcv_nxt
             /\ s.seq < r.rcv_nxt => minus(r.rcv_nxt, s.seq) = duplicate_bytes(r, s.seq)
             /\ uint32(s.seq) = uint32(r.rcv_nxt) <=> s.seq = r.rcv_nxt
  <2> DEFINE a == s.seq
             n == r.rcv_nxt
  <2>1. a \in Nat /\ s.len \in Nat \ {0} /\ n \in Nat /\ HALF \in Nat
    BY <1>1, SegmentType, InvHalf, HalfAssumption
  <2>2. a + HALF > n /\ a + s.len <= n + HALF
    BY <1>1 DEF Near
  <2> HIDE DEF a, n
  <2>3. a - n < HALF /\ n - a < HALF
    BY <2>1, <2>2
  <2>4. SEQ_LT(a, n) <=> a < n
    BY <2>1, <2>3, SeqOrder
  <2>5. uint32(a) = uint32(n) <=> a = n
    BY <2>1, <2>3, SeqSame
  <2>6. ASSUME a < n PROVE minus(n, a) = n - a
    <3>1. a <= n /\ n - a < 2 * HALF
      BY <2>1, <2>3, <2>6
    <3> QED
      BY <2>1, <3>1, MinusExact
  <2> QED
    BY <2>4, <2>5, <2>6 DEF duplicate_bytes, a, n
<1>2. LoopInv => BranchAgrees
  BY <1>1, FreeSpaceStored DEF BranchAgrees
<1> QED
  BY <1>2, LoopInvariance, PTL

\* ImplementsReceiver: the code's walks over the list of 32-bit entries do what
\* the set operations of RecvPath do, step for step.  What is proved about
\* Receiver therefore holds of the code's own loops.
THEOREM ReassemblyRefines == LoopSpec => ImplementsReceiver
<1>1. LoopInit => Init
  BY DEF LoopInit
<1>2. LoopInv /\ [LoopNext]_loop_vars => [Next]_vars
  BY LoopStepInv
<1> QED
  BY <1>1, <1>2, LoopInvariance, PTL DEF LoopSpec, ImplementsReceiver
=============================================================================
