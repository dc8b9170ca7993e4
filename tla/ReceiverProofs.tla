--------------------------- MODULE ReceiverProofs ---------------------------
(***************************************************************************)
(* Invariants of module Receiver, proved for every buffer size, MSS,       *)
(* window unit and stream.                                                 *)
(***************************************************************************)
EXTENDS Receiver, RingBufferProofs, FiniteSetTheorems, SequenceTheorems, WellFoundedInduction

\* A non-empty set of naturals with an upper bound has a largest element,
\* and it is what Max chooses.
LEMMA MaxOfBounded ==
  ASSUME NEW S \in SUBSET Nat, S # {}, NEW b \in Nat, \A x \in S : x <= b
  PROVE  Max(S) \in S /\ \A x \in S : x <= Max(S)
<1> DEFINE T == {b - x : x \in S}
<1>1. T \subseteq Nat /\ T # {}
  <2>1. \A x \in S : b - x \in Nat /\ b - x \in T
    OBVIOUS
  <2> QED
    BY <2>1
<1>2. \E d \in T : \A e \in T : ~ (<<e, d>> \in OpToRel(<, Nat))
  BY <1>1, NatLessThanWellFounded, WFMin
<1>3. PICK d \in T : \A e \in T : ~ (e < d)
  BY <1>1, <1>2 DEF OpToRel
<1>4. PICK m \in S : d = b - m
  OBVIOUS
<1>5. ASSUME NEW x \in S PROVE x <= m
  <2>1. b - x \in T
    OBVIOUS
  <2>2. ~ (b - x < b - m)
    BY <1>3, <1>4, <2>1
  <2> QED
    BY <2>2
<1>6. m \in S /\ \A x \in S : m >= x
  BY <1>5
<1>7. Max(S) \in S /\ \A x \in S : Max(S) >= x
  BY <1>6 DEF Max
<1> QED
  BY <1>7

-----------------------------------------------------------------------------
\* Pieces of the peer's stream

\* A piece of the stream is a sequence of bytes.
LEMMA StreamType ==
  ASSUME NEW seq \in Nat \ {0}, NEW n \in Nat
  PROVE  Stream(seq, n) \in Seq(Nat) /\ Len(Stream(seq, n)) = n
  BY DEF Stream

\* What is left of a piece without its first bytes is the piece behind them.
LEMMA StreamSlice ==
  ASSUME NEW seq \in Nat \ {0}, NEW m \in Nat, NEW a \in 1 .. m
  PROVE  /\ SubSeq(Stream(seq, m), a, m) = Stream(seq + a - 1, m - a + 1)
         /\ Len(SubSeq(Stream(seq, m), a, m)) = m - a + 1
<1> DEFINE x == Stream(seq, m)
           d == SubSeq(x, a, m)
           b == seq + a - 1
           k == m - a + 1
<1>1. x \in Seq(Nat) /\ Len(x) = m
  BY StreamType
<1>8. \A i \in 1 .. m : x[i] = seq + i - 1
  BY DEF Stream
<1>2. b \in Nat \ {0} /\ k \in Nat
  OBVIOUS
<1> HIDE DEF x
<1>3. \A i \in a .. m : x[i] \in Nat
  <2>1. \A i \in a .. m : i \in 1 .. m
    OBVIOUS
  <2> QED
    BY <1>1, <2>1
<1>4. /\ SubSeq(x, a, m) \in Seq(Nat)
      /\ Len(SubSeq(x, a, m)) = IF a <= m THEN m - a + 1 ELSE 0
      /\ \A i \in 1 .. m - a + 1 : SubSeq(x, a, m)[i] = x[a + i - 1]
  BY <1>1, <1>3, SubSeqProperties
<1>5. d \in Seq(Nat) /\ Len(d) = k
  BY <1>4
<1>6. ASSUME NEW i \in 1 .. k PROVE d[i] = b + i - 1
  <2>1. a + i - 1 \in 1 .. m
    OBVIOUS
  <2>2. x[a + i - 1] = seq + (a + i - 1) - 1
    BY <1>8, <2>1
  <2> QED
    BY <1>4, <2>2
<1> HIDE DEF d, b, k
<1>7. d = Stream(b, k)
  <2>1. Stream(b, k) \in Seq(Nat) /\ Len(Stream(b, k)) = k
    BY <1>2, StreamType
  <2>2. \A i \in 1 .. k : Stream(b, k)[i] = b + i - 1
    BY DEF Stream
  <2> QED
    BY <1>5, <1>6, <2>1, <2>2, SeqEqual
<1> QED
  BY <1>5, <1>7 DEF x, d, b, k

\* The stream up to h, continued.
LEMMA StreamConcat ==
  ASSUME NEW h \in Nat, NEW n \in Nat
  PROVE  Stream(1, h) \o [k \in 1 .. n |-> h + k] = Stream(1, h + n)
<1> DEFINE x == Stream(1, h)
           y == [k \in 1 .. n |-> h + k]
           z == Stream(1, h + n)
<1>1. x \in Seq(Nat) /\ Len(x) = h /\ z \in Seq(Nat) /\ Len(z) = h + n
  BY StreamType
<1>2. y \in Seq(Nat) /\ Len(y) = n
  OBVIOUS
<1>3. /\ \A i \in 1 .. h : x[i] = i
      /\ \A i \in 1 .. n : y[i] = h + i
      /\ \A i \in 1 .. h + n : z[i] = i
  BY DEF Stream
<1> HIDE DEF x, y, z
<1>4. /\ x \o y \in Seq(Nat) /\ Len(x \o y) = h + n
      /\ \A i \in 1 .. h + n : (x \o y)[i] = IF i <= h THEN x[i] ELSE y[i - h]
  BY <1>1, <1>2, ConcatProperties
<1>5. ASSUME NEW i \in 1 .. h + n PROVE (x \o y)[i] = i
  <2>1. CASE i <= h
    BY <1>3, <1>4, <2>1
  <2>2. CASE ~(i <= h)
    <3>1. i - h \in 1 .. n
      BY <2>2
    <3>2. y[i - h] = h + (i - h)
      BY <1>3, <3>1
    <3>3. (x \o y)[i] = y[i - h]
      BY <1>4, <2>2
    <3>4. h + (i - h) = i
      OBVIOUS
    <3> QED
      BY <3>2, <3>3, <3>4
  <2> QED
    BY <2>1, <2>2
<1>6. x \o y = z
  BY <1>1, <1>3, <1>4, <1>5, SeqEqual
<1> QED
  BY <1>6 DEF x, y, z

-----------------------------------------------------------------------------
\* The reassembly queue

Disjoint(q) == \A e, f \in q : e # f => Span(e) \cap Span(f) = {}

\* What the queue is at any time, also in the middle of an operation: pieces of
\* the stream that are not empty and do not overlap.
Sound(q) ==
  /\ \A e \in q : /\ e \in Entries /\ 1 <= e.seq /\ e.seq < EndOf(e)
                  /\ EndOf(e) <= StreamLen + 1
  /\ Disjoint(q)

\* The bounds of an entry are numbers, and its bytes are those in between.
LEMMA EntryBounds ==
  ASSUME NEW e \in Entries
  PROVE  /\ e.seq \in Nat /\ EndOf(e) \in Nat /\ Len(e.data) \in Nat
         /\ e.data \in Seq(Nat)
         /\ EndOf(e) = e.seq + Len(e.data)
         /\ \A n : n \in Span(e) <=> n \in Nat /\ e.seq <= n /\ n < EndOf(e)
<1>1. e.seq \in Nat /\ e.data \in Seq(Nat)
  BY DEF Entries
<1>2. Len(e.data) \in Nat
  BY <1>1
<1>3. EndOf(e) = e.seq + Len(e.data) /\ EndOf(e) \in Nat
  BY <1>1, <1>2 DEF EndOf
<1> QED
  BY <1>1, <1>2, <1>3 DEF Span

\* Cutting the front off an entry leaves an entry with the same end.
LEMMA TrimmedEntry ==
  ASSUME NEW e \in Entries, NEW n \in Nat, e.seq <= n, n < EndOf(e)
  PROVE  /\ TrimFront(e, n) \in Entries
         /\ TrimFront(e, n).seq = n
         /\ EndOf(TrimFront(e, n)) = EndOf(e)
<1>1. /\ e.seq \in Nat /\ EndOf(e) \in Nat /\ Len(e.data) \in Nat
      /\ e.data \in Seq(Nat) /\ EndOf(e) = e.seq + Len(e.data)
  BY EntryBounds
<1> DEFINE a == n - e.seq + 1
           d == SubSeq(e.data, a, Len(e.data))
<1>2. a \in Int /\ 1 <= a /\ a <= Len(e.data)
  BY <1>1
<1>3. \A i \in a .. Len(e.data) : e.data[i] \in Nat
  <2> HIDE DEF a, d
  <2>1. \A i \in a .. Len(e.data) : i \in 1 .. Len(e.data)
    BY <1>1, <1>2
  <2> QED
    BY <1>1, <2>1
<1>4. d \in Seq(Nat) /\ Len(d) = Len(e.data) - a + 1
  <2> HIDE DEF a
  <2> QED
    BY <1>1, <1>2, <1>3
<1>5. TrimFront(e, n) = [seq |-> n, data |-> d]
  BY DEF TrimFront
<1> HIDE DEF d
<1>6. n + Len(d) = EndOf(e)
  <2>1. Len(d) = Len(e.data) - (n - e.seq + 1) + 1
    BY <1>4
  <2> QED
    BY <1>1, <2>1
<1> QED
  BY <1>4, <1>5, <1>6 DEF Entries, EndOf

\* The bytes of a sound queue are a finite set of numbers of the stream.
LEMMA BytesFinite ==
  ASSUME NEW q, Sound(q)
  PROVE  /\ Bytes(q) \subseteq 1 .. StreamLen
         /\ IsFiniteSet(Bytes(q)) /\ Cardinality(Bytes(q)) \in Nat
<1>1. StreamLen \in Nat
  BY ReceiverAssumption
<1>2. ASSUME NEW n \in Bytes(q) PROVE n \in 1 .. StreamLen
  <2>1. PICK e \in q : n \in Span(e)
    BY DEF Bytes
  <2>2. e \in Entries /\ 1 <= e.seq /\ EndOf(e) <= StreamLen + 1
    BY DEF Sound
  <2> QED
    BY <1>1, <2>1, <2>2, EntryBounds
<1>3. IsFiniteSet(1 .. StreamLen)
  BY <1>1, FS_Interval
<1>4. IsFiniteSet(Bytes(q))
  BY <1>2, <1>3, FS_Subset
<1> QED
  BY <1>2, <1>4, FS_CardinalityType

\* Removing bytes from a queue, counted.
LEMMA RemoveBytes ==
  ASSUME NEW S, IsFiniteSet(S), NEW F, F \subseteq S
  PROVE  /\ IsFiniteSet(S \ F) /\ IsFiniteSet(F)
         /\ Cardinality(S) \in Nat /\ Cardinality(F) \in Nat
         /\ Cardinality(F) <= Cardinality(S)
         /\ Cardinality(S \ F) = Cardinality(S) - Cardinality(F)
<1>1. S \cap F = F /\ F \in SUBSET S
  OBVIOUS
<1>2. IsFiniteSet(F) /\ Cardinality(F) <= Cardinality(S)
  BY <1>1, FS_Subset
<1>3. IsFiniteSet(S \ F) /\ Cardinality(S \ F) = Cardinality(S) - Cardinality(S \cap F)
  BY FS_Difference
<1> QED
  BY <1>1, <1>2, <1>3, FS_CardinalityType

\* Adding bytes that were not there, counted.
LEMMA AddBytes ==
  ASSUME NEW S, IsFiniteSet(S), NEW T, IsFiniteSet(T), S \cap T = {}
  PROVE  Cardinality(S \cup T) = Cardinality(S) + Cardinality(T)
<1>1. Cardinality(S \cup T) = Cardinality(S) + Cardinality(T) - Cardinality(S \cap T)
  BY FS_Union
<1>2. Cardinality(S \cap T) = 0
  BY FS_EmptySet
<1>3. Cardinality(S) \in Nat /\ Cardinality(T) \in Nat
  BY FS_CardinalityType
<1> QED
  BY <1>1, <1>2, <1>3

\* The queue after a new entry was linked in.
Inserted(q, new) ==
  LET end_seq == EndOf(new)
  IN  ((q \ covered(q, new.seq, end_seq)) \ straddling(q, end_seq))
        \cup {TrimFront(e, end_seq) : e \in straddling(q, end_seq)}
        \cup {new}

\* The bytes that the new entry replaces.
Replaced(q, new) ==
  Bytes(covered(q, new.seq, EndOf(new)))
    \cup {n \in Bytes(straddling(q, EndOf(new))) : n < EndOf(new)}

\* Every entry after an insertion is an old one beside the new one, a trimmed
\* one behind it, or the new one.
LEMMA InsertedEntries ==
  ASSUME NEW q, Sound(q), NEW new \in Entries, NEW p \in Inserted(q, new)
  PROVE  \/ /\ p \in q /\ p \notin covered(q, new.seq, EndOf(new))
            /\ p \notin straddling(q, EndOf(new))
            /\ EndOf(p) <= new.seq \/ EndOf(new) <= p.seq
         \/ \E e \in q : /\ e \in straddling(q, EndOf(new)) /\ p = TrimFront(e, EndOf(new))
                         /\ p \in Entries /\ p.seq = EndOf(new) /\ EndOf(p) = EndOf(e)
                         /\ e.seq < EndOf(new) /\ EndOf(new) < EndOf(e)
         \/ p = new
<1> DEFINE a == new.seq
           b == EndOf(new)
<1>1. a \in Nat /\ b \in Nat
  BY EntryBounds
<1> HIDE DEF a, b
<1>2. CASE p \in (q \ covered(q, a, b)) \ straddling(q, b)
  <2>1. p \in q /\ p \in Entries
    BY <1>2 DEF Sound
  <2>2. p.seq \in Nat /\ EndOf(p) \in Nat
    BY <2>1, EntryBounds
  <2>3. ~(EndOf(p) > a /\ EndOf(p) <= b) /\ ~(p.seq < b /\ EndOf(p) > b)
    BY <1>2 DEF covered, straddling
  <2>4. p.seq < EndOf(p)
    BY <2>1 DEF Sound
  <2>5. EndOf(p) <= a \/ b <= p.seq
    BY <1>1, <2>2, <2>3, <2>4
  <2> QED
    BY <1>2, <2>1, <2>5 DEF a, b
<1>3. CASE p \in {TrimFront(e, b) : e \in straddling(q, b)}
  <2>1. PICK e \in straddling(q, b) : p = TrimFront(e, b)
    BY <1>3
  <2>2. e \in q /\ e.seq < b /\ EndOf(e) > b
    BY DEF straddling
  <2>3. e \in Entries /\ e.seq \in Nat /\ EndOf(e) \in Nat
    BY <2>2, EntryBounds DEF Sound
  <2>4. p \in Entries /\ p.seq = b /\ EndOf(p) = EndOf(e)
    BY <1>1, <2>1, <2>2, <2>3, TrimmedEntry
  <2>5. b < EndOf(e)
    BY <1>1, <2>2, <2>3
  <2> QED
    BY <2>1, <2>2, <2>4, <2>5 DEF a, b
<1> QED
  BY <1>2, <1>3 DEF Inserted, a, b

\* An entry other than the new one comes from one old entry, of which it keeps
\* what lies outside the new one.
LEMMA InsertedOwner ==
  ASSUME NEW q, Sound(q), NEW new \in Entries, new.seq < EndOf(new),
         NEW p \in Inserted(q, new), p # new
  PROVE  \E e \in q : /\ p = IF e \in straddling(q, EndOf(new))
                               THEN TrimFront(e, EndOf(new)) ELSE e
                      /\ e \notin covered(q, new.seq, EndOf(new))
                      /\ Span(p) \subseteq Span(e)
                      /\ Span(p) \cap Span(new) = {}
                      /\ e \in straddling(q, EndOf(new)) => p.seq = EndOf(new) /\ p \in Entries
<1> DEFINE a == new.seq
           b == EndOf(new)
<1>1. a \in Nat /\ b \in Nat /\ a < b /\ \A n : n \in Span(new) <=> n \in Nat /\ a <= n /\ n < b
  BY EntryBounds
<1> HIDE DEF a, b
<1>2. CASE /\ p \in q /\ p \notin covered(q, a, b) /\ p \notin straddling(q, b)
           /\ EndOf(p) <= a \/ b <= p.seq
  <2>1. p \in Entries
    BY <1>2 DEF Sound
  <2>2. /\ p.seq \in Nat /\ EndOf(p) \in Nat
        /\ \A n : n \in Span(p) <=> n \in Nat /\ p.seq <= n /\ n < EndOf(p)
    BY <2>1, EntryBounds
  <2>3. Span(p) \cap Span(new) = {}
    BY <1>1, <1>2, <2>2
  <2> QED
    BY <1>2, <2>3 DEF a, b
<1>3. ASSUME NEW e \in q, e \in straddling(q, b), p = TrimFront(e, b), p \in Entries,
             p.seq = b, EndOf(p) = EndOf(e), e.seq < b, b < EndOf(e)
      PROVE  /\ e \notin covered(q, a, b)
             /\ Span(p) \subseteq Span(e)
             /\ Span(p) \cap Span(new) = {}
  <2>1. e \in Entries
    BY DEF Sound
  <2>2. /\ e.seq \in Nat /\ EndOf(e) \in Nat
        /\ \A n : n \in Span(e) <=> n \in Nat /\ e.seq <= n /\ n < EndOf(e)
    BY <2>1, EntryBounds
  <2>3. \A n : n \in Span(p) <=> n \in Nat /\ b <= n /\ n < EndOf(e)
    BY <1>3, EntryBounds
  <2>4. e \notin covered(q, a, b)
    BY <1>1, <1>3, <2>2 DEF covered
  <2>5. Span(p) \subseteq Span(e)
    BY <1>1, <1>3, <2>2, <2>3
  <2>6. Span(p) \cap Span(new) = {}
    BY <1>1, <2>3
  <2> QED
    BY <2>4, <2>5, <2>6
<1>4. \/ /\ p \in q /\ p \notin covered(q, a, b) /\ p \notin straddling(q, b)
         /\ EndOf(p) <= a \/ b <= p.seq
      \/ \E e \in q : /\ e \in straddling(q, b) /\ p = TrimFront(e, b)
                      /\ p \in Entries /\ p.seq = b /\ EndOf(p) = EndOf(e)
                      /\ e.seq < b /\ b < EndOf(e)
  BY InsertedEntries DEF a, b
<1>5. CASE \E e \in q : /\ e \in straddling(q, b) /\ p = TrimFront(e, b)
                        /\ p \in Entries /\ p.seq = b /\ EndOf(p) = EndOf(e)
                        /\ e.seq < b /\ b < EndOf(e)
  BY <1>3, <1>5 DEF a, b
<1> QED
  BY <1>2, <1>4, <1>5

\* insert_ooo_segment keeps the queue sound: what overlaps the new entry is
\* removed or trimmed, and nothing else overlaps.
LEMMA InsertSound ==
  ASSUME NEW q, Sound(q), NEW new \in Entries,
         1 <= new.seq, new.seq < EndOf(new), EndOf(new) <= StreamLen + 1
  PROVE  Sound(Inserted(q, new))
<1> DEFINE b == EndOf(new)
           I == Inserted(q, new)
           O == straddling(q, b)
<1>1. new.seq \in Nat /\ b \in Nat /\ StreamLen \in Nat
  BY EntryBounds, ReceiverAssumption
<1>2. ASSUME NEW p \in I
      PROVE  p \in Entries /\ 1 <= p.seq /\ p.seq < EndOf(p) /\ EndOf(p) <= StreamLen + 1
  <2>1. CASE p \in q
    BY <2>1 DEF Sound
  <2>2. CASE p = new
    BY <2>2
  <2>3. ASSUME NEW e \in q, p \in Entries, p.seq = b, EndOf(p) = EndOf(e), b < EndOf(e)
        PROVE  p \in Entries /\ 1 <= p.seq /\ p.seq < EndOf(p) /\ EndOf(p) <= StreamLen + 1
    <3>1. EndOf(e) <= StreamLen + 1
      BY DEF Sound
    <3> QED
      BY <1>1, <2>3, <3>1
  <2> HIDE DEF I, b
  <2> QED
    BY <2>1, <2>2, <2>3, InsertedEntries DEF I, b
<1>3. ASSUME NEW p \in I, NEW f \in I, p # f
      PROVE  Span(p) \cap Span(f) = {}
  <2>1. CASE p = new
    BY <1>3, <2>1, InsertedOwner
  <2>2. CASE f = new
    BY <1>3, <2>2, InsertedOwner
  <2>3. CASE p # new /\ f # new
    <3>1. PICK e \in q : p = (IF e \in O THEN TrimFront(e, b) ELSE e) /\ Span(p) \subseteq Span(e)
      BY <2>3, InsertedOwner
    <3>2. PICK g \in q : f = (IF g \in O THEN TrimFront(g, b) ELSE g) /\ Span(f) \subseteq Span(g)
      BY <2>3, InsertedOwner
    <3>3. e # g
      BY <1>3, <3>1, <3>2
    <3>4. Span(e) \cap Span(g) = {}
      BY <3>3 DEF Sound, Disjoint
    <3> QED
      BY <3>1, <3>2, <3>4
  <2> QED
    BY <2>1, <2>2, <2>3
<1> QED
  BY <1>2, <1>3 DEF Sound, Disjoint

\* The bytes after an insertion: those not replaced, and the new ones.
LEMMA InsertedBytes ==
  ASSUME NEW q, Sound(q), NEW new \in Entries, new.seq < EndOf(new)
  PROVE  /\ Replaced(q, new) \subseteq Bytes(q)
         /\ Bytes(Inserted(q, new)) = (Bytes(q) \ Replaced(q, new)) \cup Span(new)
         /\ (Bytes(q) \ Replaced(q, new)) \cap Span(new) = {}
<1> DEFINE a == new.seq
           b == EndOf(new)
           C == covered(q, a, b)
           O == straddling(q, b)
           R == Replaced(q, new)
           I == Inserted(q, new)
<1>1. a \in Nat /\ b \in Nat /\ a < b /\ \A n : n \in Span(new) <=> n \in Nat /\ a <= n /\ n < b
  BY EntryBounds
<1>2. \A n : n \in R <=> \/ \E c \in C : n \in Span(c)
                         \/ n < b /\ \E o \in O : n \in Span(o)
  BY DEF Replaced, Bytes
<1>3. C \subseteq q /\ O \subseteq q
  BY DEF covered, straddling
<1>4. \A e \in q : e \in C <=> EndOf(e) > a /\ EndOf(e) <= b
  BY DEF covered
<1>5. \A e \in q : e \in O <=> e.seq < b /\ EndOf(e) > b
  BY DEF straddling
<1>6. \A e \in q : /\ e.seq \in Nat /\ EndOf(e) \in Nat /\ e \in Entries
                   /\ \A n : n \in Span(e) <=> n \in Nat /\ e.seq <= n /\ n < EndOf(e)
  BY EntryBounds DEF Sound
<1>7. \A e \in q, f \in q : e # f => Span(e) \cap Span(f) = {}
  BY DEF Sound, Disjoint
<1>8. ASSUME NEW e \in q, e \notin C, e \notin O PROVE e \in I
  BY <1>8 DEF Inserted
<1>9. ASSUME NEW e \in O PROVE TrimFront(e, b) \in I
  BY DEF Inserted
<1>10. new \in I
  BY DEF Inserted
<1>11. ASSUME NEW p \in I, p # new
       PROVE  \E e \in q : /\ p = IF e \in O THEN TrimFront(e, b) ELSE e
                           /\ e \notin C /\ Span(p) \subseteq Span(e)
                           /\ e \in O => p.seq = b /\ p \in Entries
  BY <1>11, InsertedOwner
<1>12. ASSUME NEW e \in O
       PROVE \A n : n \in Span(TrimFront(e, b)) <=> n \in Nat /\ b <= n /\ n < EndOf(e)
  <2>1. e \in Entries /\ e.seq <= b /\ b < EndOf(e)
    BY <1>1, <1>3, <1>5, <1>6
  <2>2. /\ TrimFront(e, b) \in Entries /\ TrimFront(e, b).seq = b
        /\ EndOf(TrimFront(e, b)) = EndOf(e)
    BY <1>1, <2>1, TrimmedEntry
  <2> QED
    BY <2>2, EntryBounds
<1> HIDE DEF a, b, C, O, R, I
<1>13. R \subseteq Bytes(q)
  BY <1>2, <1>3 DEF Bytes
<1>14. ASSUME NEW n \in Bytes(q), n \in Span(new) PROVE n \in R
  <2>1. PICK e \in q : n \in Span(e)
    BY DEF Bytes
  <2>2. EndOf(e) > a /\ e.seq < b /\ n < b
    BY <1>1, <1>6, <1>14, <2>1
  <2>3. e \in C \/ e \in O
    BY <1>1, <1>4, <1>5, <1>6, <2>2
  <2> QED
    BY <1>2, <2>1, <2>2, <2>3
<1>15. ASSUME NEW p \in I, p # new, NEW n \in Span(p) PROVE n \in Bytes(q) /\ n \notin R
  <2>1. PICK e \in q : /\ p = IF e \in O THEN TrimFront(e, b) ELSE e
                       /\ e \notin C /\ Span(p) \subseteq Span(e)
                       /\ e \in O => p.seq = b /\ p \in Entries
    BY <1>11, <1>15
  <2>2. n \in Span(e)
    BY <2>1
  <2>3. \A f \in q : n \in Span(f) => f = e
    BY <1>7, <2>2
  <2>4. ~(\E c \in C : n \in Span(c))
    BY <1>3, <2>1, <2>3
  <2>5. ~(n < b /\ \E o \in O : n \in Span(o))
    <3> SUFFICES ASSUME n < b, NEW o \in O, n \in Span(o) PROVE FALSE
      OBVIOUS
    <3>1. o = e /\ p = TrimFront(e, b)
      BY <1>3, <2>1, <2>3
    <3>2. n \in Nat /\ b <= n
      BY <1>12, <3>1
    <3> QED
      BY <1>1, <3>2
  <2> QED
    BY <1>2, <2>2, <2>4, <2>5 DEF Bytes
<1>16. ASSUME NEW n \in Bytes(q), n \notin R PROVE \E p \in I : n \in Span(p)
  <2>1. PICK e \in q : n \in Span(e)
    BY DEF Bytes
  <2>2. e \notin C
    BY <1>2, <1>16, <2>1
  <2>3. CASE e \in O
    <3>1. n \in Nat /\ b <= n /\ n < EndOf(e)
      BY <1>1, <1>2, <1>6, <1>16, <2>1, <2>3
    <3> QED
      BY <1>9, <1>12, <2>3, <3>1
  <2>4. CASE e \notin O
    BY <1>8, <2>1, <2>2, <2>4
  <2> QED
    BY <2>3, <2>4
<1>17. \A n : n \in Bytes(I) <=> n \in (Bytes(q) \ R) \cup Span(new)
  BY <1>10, <1>15, <1>16 DEF Bytes
<1>18. Bytes(I) = (Bytes(q) \ R) \cup Span(new)
  BY <1>17
<1> QED
  BY <1>13, <1>14, <1>18 DEF R, I

\* The bytes of an entry, counted.
LEMMA SpanCount ==
  ASSUME NEW e \in Entries
  PROVE  IsFiniteSet(Span(e)) /\ Cardinality(Span(e)) = Len(e.data)
<1>1. e.seq \in Nat /\ EndOf(e) \in Nat /\ Len(e.data) \in Nat /\ EndOf(e) = e.seq + Len(e.data)
  BY EntryBounds
<1>2. /\ IsFiniteSet(e.seq .. EndOf(e) - 1)
      /\ Cardinality(e.seq .. EndOf(e) - 1)
           = IF e.seq > EndOf(e) - 1 THEN 0 ELSE EndOf(e) - 1 - e.seq + 1
  <2>1. e.seq \in Int /\ EndOf(e) - 1 \in Int
    BY <1>1
  <2> QED
    BY <2>1, FS_Interval
<1>3. (IF e.seq > EndOf(e) - 1 THEN 0 ELSE EndOf(e) - 1 - e.seq + 1) = Len(e.data)
  BY <1>1
<1> QED
  BY <1>2, <1>3 DEF Span

\* freed_bytes is exactly what an insertion releases.
LEMMA InsertCount ==
  ASSUME NEW q, Sound(q), NEW new \in Entries, new.seq < EndOf(new)
  PROVE  /\ freed_bytes(q, new.seq, EndOf(new)) \in Nat
         /\ freed_bytes(q, new.seq, EndOf(new)) <= Cardinality(Bytes(q))
         /\ Cardinality(Bytes(Inserted(q, new)))
              = Cardinality(Bytes(q)) - freed_bytes(q, new.seq, EndOf(new)) + Len(new.data)
<1> DEFINE B == Bytes(q)
           R == Replaced(q, new)
<1>1. freed_bytes(q, new.seq, EndOf(new)) = Cardinality(R)
  BY DEF freed_bytes, Replaced
<1>2. R \subseteq B /\ (B \ R) \cap Span(new) = {}
      /\ Bytes(Inserted(q, new)) = (B \ R) \cup Span(new)
  BY InsertedBytes
<1>3. IsFiniteSet(B)
  BY BytesFinite
<1> HIDE DEF B, R
<1>4. /\ IsFiniteSet(B \ R) /\ Cardinality(B) \in Nat /\ Cardinality(R) \in Nat
      /\ Cardinality(R) <= Cardinality(B)
      /\ Cardinality(B \ R) = Cardinality(B) - Cardinality(R)
  BY <1>2, <1>3, RemoveBytes
<1>5. IsFiniteSet(Span(new)) /\ Cardinality(Span(new)) = Len(new.data)
  BY SpanCount
<1>6. Cardinality((B \ R) \cup Span(new)) = Cardinality(B \ R) + Cardinality(Span(new))
  BY <1>2, <1>4, <1>5, AddBytes
<1> QED
  BY <1>1, <1>2, <1>4, <1>5, <1>6 DEF B

-----------------------------------------------------------------------------
\* What the queue holds

\* Every entry holds the bytes its sequence number names.
TrueQueue(q) == \A e \in q : e.data = Stream(e.seq, Len(e.data))

\* A trimmed entry still does.
LEMMA TrimmedTrue ==
  ASSUME NEW e \in Entries, e.data = Stream(e.seq, Len(e.data)), 1 <= e.seq,
         NEW n \in Nat, e.seq <= n, n < EndOf(e)
  PROVE  TrimFront(e, n).data = Stream(n, Len(TrimFront(e, n).data))
<1> DEFINE seq == e.seq
           m == Len(e.data)
           a == n - seq + 1
<1>1. e.seq \in Nat /\ m \in Nat /\ EndOf(e) = e.seq + m
  BY EntryBounds
<1>2. seq \in Nat \ {0} /\ a \in 1 .. m /\ seq + a - 1 = n
  BY <1>1
<1>3. TrimFront(e, n).data = SubSeq(Stream(seq, m), a, m)
  BY DEF TrimFront
<1> HIDE DEF seq, m, a
<1>4. /\ SubSeq(Stream(seq, m), a, m) = Stream(seq + a - 1, m - a + 1)
      /\ Len(SubSeq(Stream(seq, m), a, m)) = m - a + 1
  BY <1>1, <1>2, StreamSlice
<1> QED
  BY <1>2, <1>3, <1>4

\* So does every entry after an insertion of a true one.
LEMMA InsertedTrue ==
  ASSUME NEW q, Sound(q), TrueQueue(q), NEW new \in Entries,
         new.data = Stream(new.seq, Len(new.data))
  PROVE  TrueQueue(Inserted(q, new))
<1> DEFINE b == EndOf(new)
<1>1. SUFFICES ASSUME NEW p \in Inserted(q, new) PROVE p.data = Stream(p.seq, Len(p.data))
  BY DEF TrueQueue
<1>2. CASE p \in q
  BY <1>2 DEF TrueQueue
<1>3. ASSUME NEW e \in q, p = TrimFront(e, b), p.seq = b, e.seq < b, b < EndOf(e)
      PROVE  p.data = Stream(p.seq, Len(p.data))
  <2>1. e \in Entries /\ 1 <= e.seq /\ e.data = Stream(e.seq, Len(e.data))
    BY DEF Sound, TrueQueue
  <2>2. b \in Nat /\ e.seq \in Nat
    BY <2>1, EntryBounds
  <2> HIDE DEF b
  <2>3. e.seq <= b
    BY <1>3, <2>2
  <2>4. TrimFront(e, b).data = Stream(b, Len(TrimFront(e, b).data))
    BY <1>3, <2>1, <2>2, <2>3, TrimmedTrue
  <2> QED
    BY <1>3, <2>4
<1>4. CASE p = new
  BY <1>4
<1> HIDE DEF b
<1> QED
  BY <1>2, <1>3, <1>4, InsertedEntries DEF b

\* The last byte of every entry of q is queued in p, or below nxt.
KeepsEnds(q, p, nxt) == \A e \in q : EndOf(e) - 1 \in Bytes(p) \/ EndOf(e) <= nxt

\* Linking in a new entry replaces last bytes only by the same bytes of its own.
LEMMA InsertedEnds ==
  ASSUME NEW q, Sound(q), NEW new \in Entries, new.seq < EndOf(new), NEW nxt
  PROVE  KeepsEnds(q, Inserted(q, new), nxt)
<1> DEFINE a == new.seq
           b == EndOf(new)
<1>1. SUFFICES ASSUME NEW e \in q PROVE EndOf(e) - 1 \in Bytes(Inserted(q, new))
  BY DEF KeepsEnds
<1>2. a \in Nat /\ b \in Nat /\ a < b /\ \A n : n \in Span(new) <=> n \in Nat /\ a <= n /\ n < b
  BY EntryBounds
<1>3. \A f \in q : /\ f.seq \in Nat /\ EndOf(f) \in Nat /\ f.seq < EndOf(f)
                   /\ \A n : n \in Span(f) <=> n \in Nat /\ f.seq <= n /\ n < EndOf(f)
  BY EntryBounds DEF Sound
<1> DEFINE n == EndOf(e) - 1
<1>4. n \in Nat /\ n \in Span(e) /\ EndOf(e) = n + 1
  BY <1>3
<1>5. n \in Bytes(q)
  BY <1>4 DEF Bytes
<1>6. \A f \in q : n \in Span(f) => f = e
  BY <1>4 DEF Sound, Disjoint
<1>7. Bytes(Inserted(q, new)) = (Bytes(q) \ Replaced(q, new)) \cup Span(new)
  BY InsertedBytes
<1> HIDE DEF n, a, b
<1>8. CASE n \in Replaced(q, new)
  <2>1. \/ \E c \in covered(q, a, b) : n \in Span(c)
        \/ n < b /\ \E o \in straddling(q, b) : n \in Span(o)
    BY <1>8 DEF Replaced, Bytes, a, b
  <2>2. ASSUME NEW c \in covered(q, a, b), n \in Span(c) PROVE n \in Span(new)
    <3>1. c \in q /\ EndOf(c) > a /\ EndOf(c) <= b
      BY DEF covered
    <3>2. c = e
      BY <1>6, <2>2, <3>1
    <3> QED
      BY <1>2, <1>4, <3>1, <3>2
  <2>3. ASSUME n < b, NEW o \in straddling(q, b), n \in Span(o) PROVE FALSE
    <3>1. o \in q /\ EndOf(o) > b
      BY DEF straddling
    <3>2. o = e
      BY <1>6, <2>3, <3>1
    <3> QED
      BY <1>2, <1>4, <2>3, <3>1, <3>2
  <2>4. n \in Span(new)
    BY <2>1, <2>2, <2>3
  <2> QED
    BY <1>7, <2>4 DEF n
<1>9. CASE n \notin Replaced(q, new)
  BY <1>5, <1>7, <1>9 DEF n
<1> QED
  BY <1>8, <1>9

\* A queue keeps its own last bytes.
LEMMA SameEnds == ASSUME NEW q, Sound(q), NEW nxt PROVE KeepsEnds(q, q, nxt)
<1> SUFFICES ASSUME NEW e \in q PROVE EndOf(e) - 1 \in Bytes(q)
  BY DEF KeepsEnds
<1>1. /\ e.seq \in Nat /\ EndOf(e) \in Nat /\ e.seq < EndOf(e)
      /\ \A n : n \in Span(e) <=> n \in Nat /\ e.seq <= n /\ n < EndOf(e)
  BY EntryBounds DEF Sound
<1>2. EndOf(e) - 1 \in Span(e)
  BY <1>1
<1> QED
  BY <1>2 DEF Bytes

-----------------------------------------------------------------------------
\* The receive half

\* The inductive invariant of the receive half, also in the middle of an
\* operation.  recv_buf_tail runs with rcv_nxt, which ties the ring to the
\* sequence space; edge stays within what the ring can take from its head on.
GoodHalf(t) ==
  /\ t \in RecvHalves
  /\ 1 <= t.rcv_nxt /\ t.rcv_nxt <= StreamLen + 1
  /\ t.recv_buf_tail = t.rcv_nxt - 1
  /\ t.recv_buf_head <= t.recv_buf_tail
  /\ Sound(t.ooo)
  /\ t.ooo_bytes = Cardinality(Bytes(t.ooo))
  /\ t.recv_buf_tail - t.recv_buf_head + t.ooo_bytes <= RECV_BUF_SIZE
  /\ t.edge <= RECV_BUF_SIZE + t.recv_buf_head + 1

\* Between operations the queue lies past a gap ...
Ahead(t) == \A e \in t.ooo : e.seq > t.rcv_nxt

\* ... and unacknowledged bytes have a delayed ACK with a running timer.
Owed(t) ==
  /\ t.adv.ack < t.rcv_nxt => "TF_DELACK" \in t.t_flags
  /\ t.delack <=> "TF_DELACK" \in t.t_flags

\* The ring holds the stream from the reader's position on, and the queue the
\* bytes its sequence numbers name.
TrueHalf(t) ==
  /\ Holds(t.recv_buf, RECV_BUF_SIZE, t.recv_buf_head, t.recv_buf_tail)
  /\ TrueQueue(t.ooo)

\* Nothing received lies past byte b of the stream.
Within(t, b) == t.rcv_nxt <= b + 1 /\ \A n \in Bytes(t.ooo) : n <= b

\* What an operation on the flags, or a segment sent, leaves alone.
SameStore(t, u) ==
  /\ u.rcv_nxt = t.rcv_nxt /\ u.recv_buf = t.recv_buf
  /\ u.recv_buf_head = t.recv_buf_head /\ u.recv_buf_tail = t.recv_buf_tail
  /\ u.ooo = t.ooo /\ u.ooo_bytes = t.ooo_bytes

\* The last segment sent acknowledges everything and announces all free space.
Stamped(t) == t.adv = [ack |-> t.rcv_nxt, win |-> scaled_win(t)]

\* What matters about the bytes held is the same in two halves with one store.
LEMMA SameStoreTrue ==
  ASSUME NEW t, NEW u, SameStore(t, u)
  PROVE  /\ TrueHalf(t) => TrueHalf(u)
         /\ free_space(u) = free_space(t) /\ scaled_win(u) = scaled_win(t)
         /\ \A nxt : Sound(t.ooo) => KeepsEnds(t.ooo, u.ooo, nxt)
<1>1. TrueHalf(t) => TrueHalf(u)
  BY DEF SameStore, TrueHalf
<1>2. free_space(u) = free_space(t)
  BY DEF SameStore, free_space, buffered
<1>3. scaled_win(u) = scaled_win(t)
  BY <1>2 DEF scaled_win
<1>4. \A nxt : Sound(t.ooo) => KeepsEnds(t.ooo, u.ooo, nxt)
  BY SameEnds DEF SameStore
<1> QED
  BY <1>1, <1>2, <1>3, <1>4

\* The fields of a receive half.
LEMMA HalfFields ==
  ASSUME NEW t \in RecvHalves
  PROVE  /\ t.rcv_nxt \in Nat /\ t.recv_buf \in [0 .. RECV_BUF_SIZE - 1 -> Nat]
         /\ t.recv_buf_head \in Nat /\ t.recv_buf_tail \in Nat
         /\ t.ooo \in SUBSET Entries /\ t.ooo_bytes \in Nat
         /\ t.t_flags \in SUBSET {"TF_ACKNOW", "TF_DELACK"} /\ t.delack \in BOOLEAN
         /\ t.adv \in [ack : Nat, win : Nat] /\ t.edge \in Nat
  BY DEF RecvHalves

\* insert_ooo_segment keeps the half good: the count stays exact, and what is
\* linked in fits.
LEMMA InsertGood ==
  ASSUME NEW t, GoodHalf(t), Ahead(t), NEW seq \in Nat, NEW data \in Seq(Nat),
         NEW alloc \in BOOLEAN, data # <<>>, t.rcv_nxt < seq, seq + Len(data) <= StreamLen + 1
  PROVE  LET u == insert_ooo_segment(t, seq, data, alloc)
         IN  /\ GoodHalf(u) /\ Ahead(u)
             /\ u.rcv_nxt = t.rcv_nxt /\ u.adv = t.adv /\ u.t_flags = t.t_flags
             /\ u.delack = t.delack
             /\ u.recv_buf_head = t.recv_buf_head /\ KeepsEnds(t.ooo, u.ooo, u.rcv_nxt)
             /\ TrueHalf(t) /\ data = Stream(seq, Len(data)) => TrueHalf(u)
             /\ \A b \in Nat : Within(t, b) /\ seq + Len(data) <= b + 1 => Within(u, b)
<1> DEFINE u == insert_ooo_segment(t, seq, data, alloc)
           new == [seq |-> seq, data |-> data]
           freed == freed_bytes(t.ooo, seq, seq + Len(data))
<1>1. CASE Len(data) > free_space(t) \/ ~alloc
  <2>1. u = t
    BY <1>1 DEF insert_ooo_segment
  <2>2. KeepsEnds(t.ooo, t.ooo, t.rcv_nxt)
    BY SameEnds DEF GoodHalf
  <2> QED
    BY <2>1, <2>2
<1>2. CASE ~(Len(data) > free_space(t) \/ ~alloc)
  <2>1. u = [t EXCEPT !.ooo = Inserted(t.ooo, new), !.ooo_bytes = t.ooo_bytes - freed + Len(data)]
    BY <1>2 DEF insert_ooo_segment, Inserted, EndOf
  <2>2. new \in Entries /\ new.seq = seq /\ new.data = data /\ EndOf(new) = seq + Len(data)
    BY DEF Entries, EndOf
  <2>3. Len(data) \in Nat /\ Len(data) > 0
    OBVIOUS
  <2>4. t \in RecvHalves
    BY DEF GoodHalf
  <2>5. /\ t.rcv_nxt \in Nat /\ t.recv_buf_head \in Nat /\ t.recv_buf_tail \in Nat
        /\ t.ooo_bytes \in Nat
    BY <2>4, HalfFields
  <2>6. Sound(t.ooo) /\ t.ooo_bytes = Cardinality(Bytes(t.ooo)) /\ 1 <= t.rcv_nxt
    BY DEF GoodHalf
  <2>7. new.seq < EndOf(new) /\ 1 <= new.seq /\ EndOf(new) <= StreamLen + 1
    BY <2>2, <2>3, <2>5, <2>6
  <2> HIDE DEF new, u
  <2>8. Sound(Inserted(t.ooo, new))
    BY <2>2, <2>6, <2>7, InsertSound
  <2>9. /\ freed \in Nat /\ freed <= t.ooo_bytes
        /\ Cardinality(Bytes(Inserted(t.ooo, new))) = t.ooo_bytes - freed + Len(data)
    BY <2>2, <2>6, <2>7, InsertCount
  <2> HIDE DEF freed
  <2>10. t.ooo_bytes - freed + Len(data) \in Nat
    BY <2>3, <2>5, <2>9
  <2>11. Inserted(t.ooo, new) \in SUBSET Entries
    BY <2>8 DEF Sound
  <2>12. u \in RecvHalves
    BY <2>1, <2>4, <2>10, <2>11 DEF RecvHalves
  <2>13. /\ u.ooo = Inserted(t.ooo, new) /\ u.ooo_bytes = t.ooo_bytes - freed + Len(data)
         /\ u.rcv_nxt = t.rcv_nxt /\ u.recv_buf_head = t.recv_buf_head
         /\ u.recv_buf_tail = t.recv_buf_tail /\ u.edge = t.edge /\ u.recv_buf = t.recv_buf
         /\ u.adv = t.adv /\ u.t_flags = t.t_flags /\ u.delack = t.delack
    BY <2>1, <2>4 DEF RecvHalves
  <2>14. u.recv_buf_tail - u.recv_buf_head + u.ooo_bytes <= RECV_BUF_SIZE
    <3>1. Len(data) <= RECV_BUF_SIZE - (t.recv_buf_tail - t.recv_buf_head) - t.ooo_bytes
      BY <1>2, <2>3, <2>5, RecvAssumption DEF free_space, buffered
    <3>2. freed \in Nat
      BY <2>9
    <3>3. t.recv_buf_tail - t.recv_buf_head + (t.ooo_bytes - freed + Len(data)) <= RECV_BUF_SIZE
      BY <2>3, <2>5, <3>1, <3>2, RecvAssumption
    <3> QED
      BY <2>13, <3>3
  <2>15. GoodHalf(u)
    BY <2>8, <2>9, <2>12, <2>13, <2>14 DEF GoodHalf
  <2>16. ASSUME NEW p \in Inserted(t.ooo, new) PROVE p.seq > t.rcv_nxt
    <3>1. CASE p \in t.ooo
      BY <3>1 DEF Ahead
    <3>2. CASE p = new
      BY <2>2, <2>5, <3>2
    <3>3. CASE p.seq = EndOf(new)
      BY <2>2, <2>3, <2>5, <3>3
    <3> QED
      BY <2>2, <2>6, <3>1, <3>2, <3>3, InsertedEntries
  <2>17. Ahead(u)
    BY <2>13, <2>16 DEF Ahead
  <2>18. KeepsEnds(t.ooo, u.ooo, u.rcv_nxt)
    BY <2>2, <2>6, <2>7, <2>13, InsertedEnds
  <2>19. TrueHalf(t) /\ data = Stream(seq, Len(data)) => TrueHalf(u)
    <3> SUFFICES ASSUME TrueHalf(t), data = Stream(seq, Len(data)) PROVE TrueHalf(u)
      OBVIOUS
    <3>1. TrueQueue(Inserted(t.ooo, new))
      BY <2>2, <2>6, InsertedTrue DEF TrueHalf
    <3> QED
      BY <2>13, <3>1 DEF TrueHalf
  <2>20. ASSUME NEW b \in Nat, Within(t, b), seq + Len(data) <= b + 1 PROVE Within(u, b)
    <3>1. Bytes(Inserted(t.ooo, new)) = (Bytes(t.ooo) \ Replaced(t.ooo, new)) \cup Span(new)
      BY <2>2, <2>6, <2>7, InsertedBytes
    <3>2. \A n \in Span(new) : n \in Nat /\ n < seq + Len(data)
      BY <2>2, EntryBounds
    <3>3. \A n \in Span(new) : n <= b
      BY <2>3, <2>20, <3>2
    <3>4. \A n \in Bytes(t.ooo) : n <= b
      BY <2>20 DEF Within
    <3>5. \A n \in Bytes(Inserted(t.ooo, new)) : n <= b
      BY <3>1, <3>3, <3>4
    <3> QED
      BY <2>13, <2>20, <3>5 DEF Within
  <2> QED
    BY <2>13, <2>15, <2>17, <2>18, <2>19, <2>20 DEF u
<1> QED
  BY <1>1, <1>2

\* How far the drain gets: everything it passes is in the queue, and every
\* entry that it leaves lies past a gap, because whatever the queue holds has
\* room in recv_buf.
LEMMA DrainedTo ==
  ASSUME NEW t, GoodHalf(t)
  PROVE  /\ drained_to(t) \in Nat
         /\ t.rcv_nxt <= drained_to(t) /\ drained_to(t) <= StreamLen + 1
         /\ \A n \in t.rcv_nxt .. drained_to(t) - 1 : n \in Bytes(t.ooo)
         /\ \A e \in t.ooo : EndOf(e) > drained_to(t) => e.seq > drained_to(t)
<1> DEFINE n0      == t.rcv_nxt
           B       == Bytes(t.ooo)
           room    == RECV_BUF_SIZE - buffered(t)
           reached == {e \in t.ooo : EndOf(e) > n0 /\ n0 .. EndOf(e) - 1 \subseteq B
                                       /\ EndOf(e) - n0 <= room}
           M       == {n0} \cup {EndOf(e) : e \in reached}
           nxt     == drained_to(t)
<1>1. t \in RecvHalves /\ Sound(t.ooo)
  BY DEF GoodHalf
<1>2. /\ n0 \in Nat /\ t.recv_buf_head \in Nat /\ t.recv_buf_tail \in Nat
      /\ t.ooo_bytes \in Nat /\ StreamLen \in Nat /\ RECV_BUF_SIZE \in Nat
  BY <1>1, HalfFields, ReceiverAssumption, RecvAssumption
<1>3. \A e \in t.ooo : /\ e.seq \in Nat /\ EndOf(e) \in Nat /\ EndOf(e) <= StreamLen + 1
                       /\ \A n : n \in Span(e) <=> n \in Nat /\ e.seq <= n /\ n < EndOf(e)
  BY <1>1, EntryBounds DEF Sound
<1>4. M \in SUBSET Nat /\ M # {} /\ \A x \in M : x <= StreamLen + 1
  <2>1. n0 <= StreamLen + 1
    BY DEF GoodHalf
  <2> QED
    BY <1>2, <1>3, <2>1
<1>5. nxt = Max(M)
  BY DEF drained_to
<1> HIDE DEF nxt
<1>6. nxt \in M /\ \A x \in M : x <= nxt
  <2> HIDE DEF M
  <2>1. StreamLen + 1 \in Nat
    BY <1>2
  <2> QED
    BY <1>4, <1>5, <2>1, MaxOfBounded
<1>7. nxt \in Nat /\ n0 <= nxt /\ nxt <= StreamLen + 1
  BY <1>4, <1>6
<1>8. ASSUME NEW n \in n0 .. nxt - 1 PROVE n \in B
  <2>1. CASE nxt = n0
    BY <1>2, <2>1
  <2>2. ASSUME NEW e \in reached, nxt = EndOf(e) PROVE n \in B
    BY <2>2
  <2> QED
    BY <1>6, <2>1, <2>2
<1>9. ASSUME NEW e \in t.ooo, EndOf(e) > nxt, ~(e.seq > nxt) PROVE FALSE
  <2>1. n0 .. EndOf(e) - 1 \subseteq B
    <3> SUFFICES ASSUME NEW n \in n0 .. EndOf(e) - 1 PROVE n \in B
      OBVIOUS
    <3>1. CASE n < nxt
      BY <1>2, <1>7, <1>8, <3>1
    <3>2. CASE n >= nxt
      <4>1. n \in Span(e)
        BY <1>2, <1>3, <1>7, <1>9, <3>2
      <4> QED
        BY <4>1 DEF Bytes
    <3> QED
      BY <1>2, <1>7, <3>1, <3>2
  <2>2. EndOf(e) - n0 <= Cardinality(B)
    <3>1. IsFiniteSet(B)
      BY <1>1, BytesFinite
    <3>2. Cardinality(n0 .. EndOf(e) - 1) <= Cardinality(B)
      BY <2>1, <3>1, FS_Subset
    <3>3. n0 \in Int /\ EndOf(e) - 1 \in Int
      BY <1>2, <1>3
    <3>4. Cardinality(n0 .. EndOf(e) - 1)
            = IF n0 > EndOf(e) - 1 THEN 0 ELSE EndOf(e) - 1 - n0 + 1
      BY <3>3, FS_Interval
    <3>5. (IF n0 > EndOf(e) - 1 THEN 0 ELSE EndOf(e) - 1 - n0 + 1) = EndOf(e) - n0
      BY <1>2, <1>3, <1>7, <1>9
    <3> QED
      BY <3>2, <3>4, <3>5
  <2>3. EndOf(e) - n0 <= room
    <3>1. t.recv_buf_tail - t.recv_buf_head + t.ooo_bytes <= RECV_BUF_SIZE
      BY DEF GoodHalf
    <3>2. t.ooo_bytes = Cardinality(B)
      BY DEF GoodHalf
    <3>3. room = RECV_BUF_SIZE - (t.recv_buf_tail - t.recv_buf_head)
      BY DEF buffered
    <3> HIDE DEF room, B
    <3> QED
      BY <1>2, <1>3, <2>2, <3>1, <3>2, <3>3
  <2>4. EndOf(e) > n0
    BY <1>2, <1>3, <1>7, <1>9
  <2>5. EndOf(e) \in M
    BY <2>1, <2>3, <2>4
  <2> HIDE DEF M
  <2>6. EndOf(e) <= nxt
    BY <1>6, <2>5
  <2> QED
    BY <1>3, <1>7, <1>9, <2>6
<1> QED
  BY <1>7, <1>8, <1>9 DEF nxt

\* The bytes that the drain moves into recv_buf.
DrainRun(t) ==
  [k \in 1 .. drained_to(t) - t.rcv_nxt |->
     LET n == t.rcv_nxt + k - 1
         e == Holder(t.ooo, n)
     IN  e.data[n - e.seq + 1]]

\* There are as many as rcv_nxt advances by, and they continue the stream.
LEMMA DrainedRun ==
  ASSUME NEW t, GoodHalf(t)
  PROVE  /\ DrainRun(t) \in Seq(Nat) /\ Len(DrainRun(t)) = drained_to(t) - t.rcv_nxt
         /\ TrueQueue(t.ooo)
              => \A k \in 1 .. Len(DrainRun(t)) : DrainRun(t)[k] = t.rcv_nxt + k - 1
<1> DEFINE nxt == drained_to(t)
           n0  == t.rcv_nxt
           val(n) == LET e == Holder(t.ooo, n) IN e.data[n - e.seq + 1]
           run == [k \in 1 .. nxt - n0 |-> val(n0 + k - 1)]
<1>1. n0 \in Nat /\ nxt \in Nat /\ n0 <= nxt /\ \A n \in n0 .. nxt - 1 : n \in Bytes(t.ooo)
  BY DrainedTo, HalfFields DEF GoodHalf
<1>2. Sound(t.ooo)
  BY DEF GoodHalf
<1> HIDE DEF nxt
<1>3. ASSUME NEW n \in n0 .. nxt - 1 PROVE val(n) \in Nat /\ (TrueQueue(t.ooo) => val(n) = n)
  <2>1. \E e \in t.ooo : n \in Span(e)
    BY <1>1 DEF Bytes
  <2>2. Holder(t.ooo, n) \in t.ooo /\ n \in Span(Holder(t.ooo, n))
    BY <2>1 DEF Holder
  <2>3. ASSUME NEW e \in t.ooo, n \in Span(e)
        PROVE  /\ e.data[n - e.seq + 1] \in Nat
               /\ TrueQueue(t.ooo) => e.data[n - e.seq + 1] = n
    <3>1. e \in Entries
      BY <1>2 DEF Sound
    <3>2. /\ e.data \in Seq(Nat) /\ e.seq \in Nat /\ Len(e.data) \in Nat
          /\ EndOf(e) = e.seq + Len(e.data) /\ n \in Nat /\ e.seq <= n /\ n < EndOf(e)
      BY <2>3, <3>1, EntryBounds
    <3>3. n - e.seq + 1 \in 1 .. Len(e.data)
      BY <3>2
    <3>4. e.data[n - e.seq + 1] \in Nat
      BY <3>2, <3>3
    <3>5. ASSUME TrueQueue(t.ooo) PROVE e.data[n - e.seq + 1] = n
      <4> DEFINE m == Len(e.data)
                 i == n - e.seq + 1
      <4>1. e.data = Stream(e.seq, m)
        BY <3>5 DEF TrueQueue
      <4>2. i \in 1 .. m
        BY <3>3
      <4> HIDE DEF m, i
      <4>3. e.data[i] = e.seq + i - 1
        BY <4>1, <4>2 DEF Stream
      <4>4. e.seq + i - 1 = n
        BY <3>2 DEF i
      <4> QED
        BY <4>3, <4>4 DEF i
    <3> QED
      BY <3>4, <3>5
  <2> QED
    BY <2>2, <2>3
<1> HIDE DEF val
<1>4. ASSUME NEW k \in 1 .. nxt - n0 
      PROVE val(n0 + k - 1) \in Nat /\ (TrueQueue(t.ooo) => val(n0 + k - 1) = n0 + k - 1)
  <2>1. n0 + k - 1 \in n0 .. nxt - 1
    BY <1>1
  <2> QED
    BY <1>3, <2>1
<1>5. nxt - n0 \in Nat
  BY <1>1
<1>6. /\ run \in Seq(Nat) /\ Len(run) = nxt - n0
      /\ TrueQueue(t.ooo) => \A k \in 1 .. nxt - n0 : run[k] = n0 + k - 1
  <2> DEFINE len == nxt - n0
  <2>1. len \in Nat /\ \A k \in 1 .. len : val(n0 + k - 1) \in Nat
    BY <1>4, <1>5
  <2> HIDE DEF len
  <2>2. [k \in 1 .. len |-> val(n0 + k - 1)] \in Seq(Nat)
    BY <2>1
  <2>3. Len([k \in 1 .. len |-> val(n0 + k - 1)]) = len
    BY <2>1
  <2>4. TrueQueue(t.ooo) => \A k \in 1 .. nxt - n0 : run[k] = n0 + k - 1
    BY <1>4
  <2> QED
    BY <2>2, <2>3, <2>4 DEF len
<1> HIDE DEF run
<1>7. TrueQueue(t.ooo) => \A k \in 1 .. Len(run) : run[k] = n0 + k - 1
  BY <1>6
<1> QED
  BY <1>6, <1>7 DEF run, val, nxt, DrainRun

\* The queue that the drain leaves.
Left(t) == {e \in t.ooo : EndOf(e) > drained_to(t)}

\* It is sound, lies past the gap, and has lost exactly the bytes that were
\* passed, at least as many as were moved.
LEMMA DrainLeft ==
  ASSUME NEW t, GoodHalf(t)
  PROVE  LET D == {n \in Bytes(t.ooo) : n < drained_to(t)}
         IN  /\ Sound(Left(t)) /\ \A e \in Left(t) : e.seq > drained_to(t)
             /\ Cardinality(D) \in Nat /\ Cardinality(D) <= t.ooo_bytes
             /\ drained_to(t) - t.rcv_nxt <= Cardinality(D)
             /\ Cardinality(Bytes(Left(t))) = t.ooo_bytes - Cardinality(D)
<1> DEFINE nxt == drained_to(t)
           n0  == t.rcv_nxt
           B   == Bytes(t.ooo)
           D   == {n \in B : n < nxt}
<1>1. /\ n0 \in Nat /\ nxt \in Nat /\ n0 <= nxt /\ \A n \in n0 .. nxt - 1 : n \in B
      /\ \A e \in t.ooo : EndOf(e) > nxt => e.seq > nxt
  BY DrainedTo, HalfFields DEF GoodHalf
<1>2. Sound(t.ooo) /\ t.ooo_bytes = Cardinality(B)
  BY DEF GoodHalf
<1>3. \A e \in t.ooo : /\ e.seq \in Nat /\ EndOf(e) \in Nat
                       /\ \A n : n \in Span(e) <=> n \in Nat /\ e.seq <= n /\ n < EndOf(e)
  BY <1>2, EntryBounds DEF Sound
<1>4. Sound(Left(t)) /\ \A e \in Left(t) : e.seq > nxt
  BY <1>1, <1>2 DEF Sound, Disjoint, Left
<1>5. \A e \in t.ooo : e \in Left(t) <=> EndOf(e) > nxt
  BY DEF Left
<1>6. Left(t) \subseteq t.ooo
  BY DEF Left
<1> HIDE DEF nxt
<1>7. ASSUME NEW n \in Bytes(Left(t)) PROVE n \in B \ D
  <2>1. PICK e \in Left(t) : n \in Span(e)
    BY DEF Bytes
  <2>2. n \in B
    BY <1>6, <2>1 DEF Bytes
  <2>3. ~(n < nxt)
    BY <1>1, <1>3, <1>4, <1>6, <2>1
  <2> QED
    BY <2>2, <2>3
<1>8. ASSUME NEW n \in B \ D PROVE n \in Bytes(Left(t))
  <2>1. PICK e \in t.ooo : n \in Span(e)
    BY DEF Bytes
  <2>2. EndOf(e) > nxt
    BY <1>1, <1>3, <1>8, <2>1
  <2> QED
    BY <1>5, <2>1, <2>2 DEF Bytes
<1>9. Bytes(Left(t)) = B \ D /\ D \subseteq B
  BY <1>7, <1>8
<1>10. IsFiniteSet(B)
  BY <1>2, BytesFinite
<1>11. n0 .. nxt - 1 \subseteq D
  BY <1>1
<1> HIDE DEF B, D
<1>12. /\ IsFiniteSet(D) /\ Cardinality(D) \in Nat /\ Cardinality(D) <= Cardinality(B)
       /\ Cardinality(B \ D) = Cardinality(B) - Cardinality(D)
  BY <1>9, <1>10, RemoveBytes
<1>13. nxt - n0 <= Cardinality(D)
  <2>1. Cardinality(n0 .. nxt - 1) <= Cardinality(D)
    BY <1>11, <1>12, FS_Subset
  <2>2. n0 \in Int /\ nxt - 1 \in Int
    BY <1>1
  <2>3. Cardinality(n0 .. nxt - 1) = IF n0 > nxt - 1 THEN 0 ELSE nxt - 1 - n0 + 1
    BY <2>2, FS_Interval
  <2>4. (IF n0 > nxt - 1 THEN 0 ELSE nxt - 1 - n0 + 1) = nxt - n0
    BY <1>1
  <2> QED
    BY <2>1, <2>3, <2>4
<1> QED
  BY <1>2, <1>4, <1>9, <1>12, <1>13 DEF nxt, B, D

\* What drain_ooo_queue does, in terms of DrainRun and Left: entries are moved
\* whole or stay whole, and the count is that of the entries left.
LEMMA DrainIs ==
  ASSUME NEW t, GoodHalf(t)
  PROVE  drain_ooo_queue(t)
           = [t EXCEPT !.recv_buf = ring_buf_write(t.recv_buf, RECV_BUF_SIZE, t.recv_buf_tail,
                                                   DrainRun(t)),
                       !.recv_buf_tail = t.recv_buf_tail + (drained_to(t) - t.rcv_nxt),
                       !.rcv_nxt = drained_to(t), !.ooo = Left(t),
                       !.ooo_bytes = Cardinality(Bytes(Left(t)))]
<1> DEFINE nxt  == drained_to(t)
           run  == DrainRun(t)
           gone == Cardinality({n \in Bytes(t.ooo) : n < nxt})
           ring == ring_buf_write(t.recv_buf, RECV_BUF_SIZE, t.recv_buf_tail, run)
           u    == drain_ooo_queue(t)
<1>1. nxt \in Nat
  BY DrainedTo
<1>2. Len(run) = nxt - t.rcv_nxt
  BY DrainedRun
<1>3. /\ Sound(Left(t)) /\ \A e \in Left(t) : e.seq > nxt
      /\ Cardinality(Bytes(Left(t))) = t.ooo_bytes - gone
  BY DrainLeft
<1>4. {IF e.seq < nxt THEN TrimFront(e, nxt) ELSE e : e \in Left(t)} = Left(t)
  <2>1. \A e \in Left(t) : e.seq \in Nat
    BY <1>3, EntryBounds DEF Sound
  <2> HIDE DEF nxt
  <2>2. \A e \in Left(t) : ~(e.seq < nxt)
    BY <1>1, <1>3, <2>1
  <2>3. \A e \in Left(t) : (IF e.seq < nxt THEN TrimFront(e, nxt) ELSE e) = e
    BY <2>2
  <2> QED
    BY <2>3
<1>5. u = [t EXCEPT !.recv_buf = ring, !.recv_buf_tail = t.recv_buf_tail + Len(run),
                    !.rcv_nxt = nxt,
                    !.ooo = {IF e.seq < nxt THEN TrimFront(e, nxt) ELSE e : e \in Left(t)},
                    !.ooo_bytes = t.ooo_bytes - gone]
  BY DEF drain_ooo_queue, Left, DrainRun
<1> HIDE DEF run, gone, u, ring, nxt
<1>6. u = [t EXCEPT !.recv_buf = ring, !.recv_buf_tail = t.recv_buf_tail + (nxt - t.rcv_nxt),
                    !.rcv_nxt = nxt, !.ooo = Left(t), !.ooo_bytes = Cardinality(Bytes(Left(t)))]
  BY <1>2, <1>3, <1>4, <1>5
<1> QED
  BY <1>6 DEF u, ring, run, nxt


\* drain_ooo_queue keeps the half good and leaves the queue past a gap.
LEMMA DrainGood ==
  ASSUME NEW t, GoodHalf(t)
  PROVE  LET u == drain_ooo_queue(t)
         IN  /\ GoodHalf(u) /\ Ahead(u) /\ t.rcv_nxt <= u.rcv_nxt
             /\ u.adv = t.adv /\ u.t_flags = t.t_flags /\ u.delack = t.delack
             /\ u.recv_buf_head = t.recv_buf_head /\ KeepsEnds(t.ooo, u.ooo, u.rcv_nxt)
             /\ TrueHalf(t) => TrueHalf(u)
             /\ \A b \in Nat : Within(t, b) => Within(u, b)
<1> DEFINE nxt  == drained_to(t)
           run  == DrainRun(t)
           gone == Cardinality({n \in Bytes(t.ooo) : n < nxt})
           ring == ring_buf_write(t.recv_buf, RECV_BUF_SIZE, t.recv_buf_tail, run)
           u    == drain_ooo_queue(t)
<1>1. t \in RecvHalves
  BY DEF GoodHalf
<1>2. /\ t.rcv_nxt \in Nat /\ t.recv_buf_head \in Nat /\ t.recv_buf_tail \in Nat
      /\ t.ooo_bytes \in Nat /\ t.recv_buf \in [0 .. RECV_BUF_SIZE - 1 -> Nat]
      /\ RECV_BUF_SIZE \in Nat \ {0}
  BY <1>1, HalfFields, RecvAssumption
<1>3. nxt \in Nat /\ t.rcv_nxt <= nxt /\ nxt <= StreamLen + 1
  BY DrainedTo
<1>4. /\ run \in Seq(Nat) /\ Len(run) = nxt - t.rcv_nxt
      /\ TrueQueue(t.ooo) => \A k \in 1 .. Len(run) : run[k] = t.rcv_nxt + k - 1
  BY DrainedRun
<1>5. /\ Sound(Left(t)) /\ \A e \in Left(t) : e.seq > nxt
      /\ gone \in Nat /\ gone <= t.ooo_bytes /\ nxt - t.rcv_nxt <= gone
      /\ Cardinality(Bytes(Left(t))) = t.ooo_bytes - gone
  BY DrainLeft
<1>6. u = [t EXCEPT !.recv_buf = ring, !.recv_buf_tail = t.recv_buf_tail + (nxt - t.rcv_nxt),
                    !.rcv_nxt = nxt, !.ooo = Left(t), !.ooo_bytes = Cardinality(Bytes(Left(t)))]
  BY DrainIs
<1> HIDE DEF run, gone, u
<1>8. ring \in [0 .. RECV_BUF_SIZE - 1 -> Nat]
  BY <1>2, <1>4, WriteType
<1> HIDE DEF ring, nxt
<1>9. u = [t EXCEPT !.recv_buf = ring, !.recv_buf_tail = t.recv_buf_tail + (nxt - t.rcv_nxt),
                    !.rcv_nxt = nxt, !.ooo = Left(t), !.ooo_bytes = t.ooo_bytes - gone]
  BY <1>5, <1>6
<1>10. t.recv_buf_tail + (nxt - t.rcv_nxt) \in Nat /\ t.ooo_bytes - gone \in Nat
  BY <1>2, <1>3, <1>5
<1>11. Left(t) \in SUBSET Entries
  BY <1>5 DEF Sound
<1>12. u \in RecvHalves
  BY <1>1, <1>3, <1>8, <1>9, <1>10, <1>11 DEF RecvHalves
<1>13. /\ u.rcv_nxt = nxt /\ u.recv_buf_tail = t.recv_buf_tail + (nxt - t.rcv_nxt)
       /\ u.recv_buf_head = t.recv_buf_head /\ u.ooo = Left(t)
       /\ u.ooo_bytes = t.ooo_bytes - gone /\ u.edge = t.edge /\ u.recv_buf = ring
       /\ u.adv = t.adv /\ u.t_flags = t.t_flags /\ u.delack = t.delack
  BY <1>1, <1>9 DEF RecvHalves
<1>14. /\ 1 <= t.rcv_nxt /\ t.recv_buf_tail = t.rcv_nxt - 1
       /\ t.recv_buf_head <= t.recv_buf_tail
       /\ t.recv_buf_tail - t.recv_buf_head + t.ooo_bytes <= RECV_BUF_SIZE
       /\ t.edge <= RECV_BUF_SIZE + t.recv_buf_head + 1
  BY DEF GoodHalf
<1>15. /\ 1 <= nxt /\ u.recv_buf_tail = nxt - 1 /\ u.recv_buf_head <= u.recv_buf_tail
       /\ u.recv_buf_tail - u.recv_buf_head + u.ooo_bytes <= RECV_BUF_SIZE
  <2>1. gone \in Nat /\ nxt - t.rcv_nxt <= gone
    BY <1>5
  <2>2. /\ u.recv_buf_tail = t.recv_buf_tail + (nxt - t.rcv_nxt)
        /\ u.recv_buf_head = t.recv_buf_head /\ u.ooo_bytes = t.ooo_bytes - gone
    BY <1>13
  <2>3. /\ t.rcv_nxt \in Nat /\ t.recv_buf_head \in Nat /\ t.recv_buf_tail \in Nat
        /\ t.ooo_bytes \in Nat /\ RECV_BUF_SIZE \in Nat /\ nxt \in Nat /\ t.rcv_nxt <= nxt
    BY <1>2, <1>3
  <2>4. 1 <= nxt /\ t.recv_buf_tail + (nxt - t.rcv_nxt) = nxt - 1
    BY <1>14, <2>3
  <2>5. t.recv_buf_head <= t.recv_buf_tail + (nxt - t.rcv_nxt)
    BY <1>14, <2>3
  <2>6. t.recv_buf_tail + (nxt - t.rcv_nxt) - t.recv_buf_head + (t.ooo_bytes - gone)
          <= RECV_BUF_SIZE
    BY <1>14, <2>1, <2>3
  <2> QED
    BY <2>1, <2>2, <2>3, <2>4, <2>5, <2>6
<1>16. GoodHalf(u)
  BY <1>3, <1>5, <1>12, <1>13, <1>14, <1>15 DEF GoodHalf
<1>17. Ahead(u)
  BY <1>5, <1>13 DEF Ahead
<1>18. KeepsEnds(t.ooo, u.ooo, u.rcv_nxt)
  <2> SUFFICES ASSUME NEW e \in t.ooo, ~(EndOf(e) <= nxt) PROVE EndOf(e) - 1 \in Bytes(Left(t))
    BY <1>13 DEF KeepsEnds
  <2>1. e \in Entries /\ e.seq < EndOf(e)
    BY DEF GoodHalf, Sound
  <2>2. /\ e.seq \in Nat /\ EndOf(e) \in Nat
        /\ \A n : n \in Span(e) <=> n \in Nat /\ e.seq <= n /\ n < EndOf(e)
    BY <2>1, EntryBounds
  <2>3. EndOf(e) - 1 \in Span(e)
    BY <2>1, <2>2
  <2>4. EndOf(e) > nxt
    BY <1>3, <2>2
  <2>5. e \in Left(t)
    BY <2>4 DEF Left, nxt
  <2> QED
    BY <2>3, <2>5 DEF Bytes
<1>19. ASSUME TrueHalf(t) PROVE TrueHalf(u)
  <2> DEFINE buf  == t.recv_buf
             head == t.recv_buf_head
             tail == t.recv_buf_tail
  <2>1. \A k \in 1 .. Len(run) : run[k] = tail + k
    <3>1. \A k \in 1 .. Len(run) : run[k] = t.rcv_nxt + k - 1
      BY <1>4, <1>19 DEF TrueHalf
    <3>2. \A k \in 1 .. Len(run) : t.rcv_nxt + k - 1 = tail + k
      BY <1>2, <1>14
    <3> QED
      BY <3>1, <3>2
  <2>2. Holds(buf, RECV_BUF_SIZE, head, tail) /\ TrueQueue(t.ooo)
    BY <1>19 DEF TrueHalf
  <2>3. /\ head \in Nat /\ tail \in Nat /\ RECV_BUF_SIZE \in Nat \ {0}
        /\ buf \in [0 .. RECV_BUF_SIZE - 1 -> Nat]
        /\ head <= tail /\ run \in Seq(Nat) /\ Len(run) \in Nat
    BY <1>2, <1>4, <1>14
  <2>4. tail + Len(run) - head <= RECV_BUF_SIZE
    <3>1. gone \in Nat /\ gone <= t.ooo_bytes /\ nxt - t.rcv_nxt <= gone
      BY <1>5
    <3>2. /\ nxt \in Nat /\ t.rcv_nxt \in Nat /\ t.ooo_bytes \in Nat /\ RECV_BUF_SIZE \in Nat
          /\ t.recv_buf_head \in Nat /\ t.recv_buf_tail \in Nat
      BY <1>2, <1>3
    <3>3. t.recv_buf_tail - t.recv_buf_head + t.ooo_bytes <= RECV_BUF_SIZE
      BY <1>14
    <3>4. t.recv_buf_tail - t.recv_buf_head + (nxt - t.rcv_nxt) <= RECV_BUF_SIZE
      BY <3>1, <3>2, <3>3
    <3>5. nxt - t.rcv_nxt = Len(run)
      BY <1>4
    <3> QED
      BY <2>3, <3>4, <3>5
  <2>5. ring = ring_buf_write(buf, RECV_BUF_SIZE, tail, run)
    BY DEF ring
  <2>6. u.recv_buf = ring /\ u.recv_buf_head = head /\ u.recv_buf_tail = tail + Len(run)
    BY <1>4, <1>13
  <2> HIDE DEF buf, head, tail
  <2>7. Holds(ring_buf_write(buf, RECV_BUF_SIZE, tail, run), RECV_BUF_SIZE, head, tail + Len(run))
    BY <2>1, <2>2, <2>3, <2>4, WriteHolds
  <2>8. TrueQueue(u.ooo)
    BY <1>13, <2>2 DEF TrueQueue, Left
  <2> QED
    BY <2>5, <2>6, <2>7, <2>8 DEF TrueHalf
<1>20. ASSUME NEW b \in Nat, Within(t, b) PROVE Within(u, b)
  <2>1. \A n \in t.rcv_nxt .. nxt - 1 : n \in Bytes(t.ooo)
    BY DrainedTo DEF nxt
  <2>2. t.rcv_nxt <= b + 1 /\ \A n \in Bytes(t.ooo) : n <= b
    BY <1>20 DEF Within
  <2>3. nxt = t.rcv_nxt \/ nxt - 1 \in t.rcv_nxt .. nxt - 1
    BY <1>2, <1>3
  <2>4. nxt <= b + 1
    BY <1>2, <1>3, <2>1, <2>2, <2>3
  <2>5. \A n \in Bytes(Left(t)) : n \in Bytes(t.ooo)
    BY DEF Bytes, Left
  <2> QED
    BY <1>13, <2>2, <2>4, <2>5 DEF Within
<1> QED
  BY <1>3, <1>13, <1>16, <1>17, <1>18, <1>19, <1>20 DEF u

Flagged(t, flags, timer) == [t EXCEPT !.t_flags = flags, !.delack = timer]

\* Flags and the delayed-ACK timer do not bear on the rest.
LEMMA FlagsGood ==
  ASSUME NEW t, GoodHalf(t), NEW flags \in SUBSET {"TF_ACKNOW", "TF_DELACK"},
         NEW timer \in BOOLEAN
  PROVE  LET u == Flagged(t, flags, timer)
         IN  /\ GoodHalf(u) /\ u.t_flags = flags /\ u.delack = timer
             /\ u.rcv_nxt = t.rcv_nxt /\ u.adv = t.adv /\ u.ooo = t.ooo
             /\ u.recv_buf_head = t.recv_buf_head /\ u.recv_buf_tail = t.recv_buf_tail
             /\ u.ooo_bytes = t.ooo_bytes /\ SameStore(t, u)
<1> DEFINE u == Flagged(t, flags, timer)
<1>1. t \in RecvHalves
  BY DEF GoodHalf
<1>2. u \in RecvHalves
  BY <1>1 DEF RecvHalves, Flagged
<1>3. /\ u.t_flags = flags /\ u.delack = timer
      /\ u.rcv_nxt = t.rcv_nxt /\ u.adv = t.adv /\ u.ooo = t.ooo /\ u.edge = t.edge
      /\ u.recv_buf_head = t.recv_buf_head /\ u.recv_buf_tail = t.recv_buf_tail
      /\ u.ooo_bytes = t.ooo_bytes /\ u.recv_buf = t.recv_buf
  BY <1>1 DEF RecvHalves, Flagged
<1> HIDE DEF u
<1>4. GoodHalf(u)
  BY <1>2, <1>3 DEF GoodHalf
<1>5. SameStore(t, u)
  BY <1>3 DEF SameStore
<1> QED
  BY <1>3, <1>4, <1>5 DEF u

\* The announced window never exceeds the free space.
LEMMA WindowFits ==
  ASSUME NEW a \in Nat, NEW b \in Nat \ {0}
  PROVE  (a \div b) * b \in Nat /\ (a \div b) * b <= a /\ (a \div b) * b > a - b
<1>1. a \div b \in Nat
  BY DivNat
<1>2. a = b * (a \div b) + (a % b) /\ a % b \in Nat /\ a % b < b
  BY SMT
<1>3. (a \div b) * b = b * (a \div b) /\ (a \div b) * b \in Nat
  BY <1>1, SMT
<1> QED
  BY <1>2, <1>3

\* A segment sent announces no more than fits, acknowledges rcv_nxt, and
\* leaves the rest alone.
LEMMA SendGood ==
  ASSUME NEW t, GoodHalf(t)
  PROVE  LET u == utcp_send_segment(t)
         IN  /\ GoodHalf(u) /\ u.adv.ack = t.rcv_nxt /\ u.rcv_nxt = t.rcv_nxt
             /\ u.t_flags = t.t_flags /\ u.delack = t.delack /\ u.ooo = t.ooo
             /\ SameStore(t, u) /\ Stamped(u)
<1> DEFINE win  == scaled_win(t)
           edge == Max({t.edge, t.rcv_nxt + win})
           u    == utcp_send_segment(t)
<1>1. t \in RecvHalves
  BY DEF GoodHalf
<1>2. /\ t.rcv_nxt \in Nat /\ t.recv_buf_head \in Nat /\ t.recv_buf_tail \in Nat
      /\ t.ooo_bytes \in Nat /\ t.edge \in Nat /\ RECV_BUF_SIZE \in Nat
  BY <1>1, HalfFields, RecvAssumption
<1>3. /\ 1 <= t.rcv_nxt /\ t.recv_buf_tail = t.rcv_nxt - 1
      /\ t.recv_buf_head <= t.recv_buf_tail
      /\ t.recv_buf_tail - t.recv_buf_head + t.ooo_bytes <= RECV_BUF_SIZE
      /\ t.edge <= RECV_BUF_SIZE + t.recv_buf_head + 1
  BY DEF GoodHalf
<1>4. free_space(t) \in Nat /\ free_space(t) <= RECV_BUF_SIZE - (t.recv_buf_tail - t.recv_buf_head)
  BY <1>2, <1>3 DEF free_space, buffered
<1>5. win \in Nat /\ win <= free_space(t)
  BY <1>4, WindowFits, RecvAssumption DEF scaled_win
<1>6. u = [t EXCEPT !.adv = [ack |-> t.rcv_nxt, win |-> win], !.edge = edge]
  BY DEF utcp_send_segment
<1> HIDE DEF win
<1>7. t.rcv_nxt + win \in Nat /\ t.rcv_nxt + win <= RECV_BUF_SIZE + t.recv_buf_head + 1
  BY <1>2, <1>3, <1>4, <1>5
<1>8. edge \in Nat /\ edge <= RECV_BUF_SIZE + t.recv_buf_head + 1
  <2> DEFINE e2 == t.rcv_nxt + win
             b  == RECV_BUF_SIZE + t.recv_buf_head + 1
             S  == {t.edge, e2}
  <2>1. e2 \in Nat /\ e2 <= b /\ b \in Nat /\ t.edge <= b
    BY <1>2, <1>3, <1>7
  <2> HIDE DEF e2, b
  <2>2. S \in SUBSET Nat /\ S # {} /\ \A x \in S : x <= b
    BY <1>2, <2>1
  <2>3. edge = Max(S)
    BY DEF e2
  <2> HIDE DEF S, edge
  <2>4. Max(S) \in S
    BY <2>1, <2>2, MaxOfBounded
  <2> QED
    BY <2>2, <2>3, <2>4 DEF b
<1> HIDE DEF edge
<1>9. u \in RecvHalves
  <2>1. [ack |-> t.rcv_nxt, win |-> win] \in [ack : Nat, win : Nat]
    BY <1>2, <1>5
  <2>2. edge \in Nat
    BY <1>8
  <2> HIDE DEF u
  <2> QED
    BY <1>1, <1>6, <2>1, <2>2 DEF RecvHalves
<1>10. /\ u.adv = [ack |-> t.rcv_nxt, win |-> win] /\ u.edge = edge
       /\ u.rcv_nxt = t.rcv_nxt /\ u.t_flags = t.t_flags /\ u.delack = t.delack
       /\ u.ooo = t.ooo /\ u.ooo_bytes = t.ooo_bytes
       /\ u.recv_buf_head = t.recv_buf_head /\ u.recv_buf_tail = t.recv_buf_tail
       /\ u.recv_buf = t.recv_buf
  BY <1>1, <1>6 DEF RecvHalves
<1> HIDE DEF u
<1>11. GoodHalf(u)
  BY <1>8, <1>9, <1>10 DEF GoodHalf
<1>12. SameStore(t, u)
  BY <1>10 DEF SameStore
<1>13. Stamped(u)
  BY <1>10, <1>12, SameStoreTrue DEF Stamped, win
<1> QED
  BY <1>10, <1>11, <1>12, <1>13 DEF u

\* A half between operations.
Settled(t) == GoodHalf(t) /\ Ahead(t) /\ Owed(t) /\ "TF_ACKNOW" \notin t.t_flags

\* utcp_output settles a half: a forced ACK goes out, an owed one stays timed.
LEMMA OutputSettles ==
  ASSUME NEW t, GoodHalf(t), Ahead(t), NEW has_data \in BOOLEAN,
         "TF_ACKNOW" \in t.t_flags \/ Owed(t)
  PROVE  Settled(utcp_output(t, has_data))
<1>1. CASE "TF_ACKNOW" \in t.t_flags \/ has_data
  <2> DEFINE v == Flagged(t, {}, FALSE)
             u == utcp_send_segment(v)
  <2>1. utcp_output(t, has_data) = u
    BY <1>1 DEF utcp_output, Flagged
  <2>2. /\ GoodHalf(v) /\ v.t_flags = {} /\ v.delack = FALSE /\ v.rcv_nxt = t.rcv_nxt
        /\ v.ooo = t.ooo
    <3>1. {} \in SUBSET {"TF_ACKNOW", "TF_DELACK"} /\ FALSE \in BOOLEAN
      OBVIOUS
    <3> QED
      BY <3>1, FlagsGood
  <2> HIDE DEF v
  <2>3. /\ GoodHalf(u) /\ u.adv.ack = v.rcv_nxt /\ u.rcv_nxt = v.rcv_nxt
        /\ u.t_flags = v.t_flags /\ u.delack = v.delack /\ u.ooo = v.ooo
    BY <2>2, SendGood
  <2> HIDE DEF u
  <2>4. Ahead(u)
    BY <2>2, <2>3 DEF Ahead
  <2>5. v.rcv_nxt \in Nat
    BY <2>2, HalfFields DEF GoodHalf
  <2>6. ~(u.adv.ack < u.rcv_nxt)
    BY <2>3, <2>5
  <2>7. u.t_flags = {} /\ u.delack = FALSE
    BY <2>2, <2>3
  <2>8. Owed(u)
    BY <2>6, <2>7 DEF Owed
  <2> QED
    BY <2>1, <2>3, <2>4, <2>7, <2>8 DEF Settled
<1>2. CASE ~("TF_ACKNOW" \in t.t_flags \/ has_data)
  BY <1>2 DEF utcp_output, Settled
<1> QED
  BY <1>1, <1>2

\* A segment that leaves is stamped, and a forced ACK leaves.
LEMMA OutputStamps ==
  ASSUME NEW t, GoodHalf(t), NEW has_data \in BOOLEAN
  PROVE  LET u == utcp_output(t, has_data)
         IN  /\ SameStore(t, u) /\ (Stamped(u) \/ u.adv = t.adv)
             /\ "TF_ACKNOW" \in t.t_flags \/ has_data => Stamped(u)
<1>1. CASE "TF_ACKNOW" \in t.t_flags \/ has_data
  <2> DEFINE v == Flagged(t, {}, FALSE)
             u == utcp_send_segment(v)
  <2>1. utcp_output(t, has_data) = u
    BY <1>1 DEF utcp_output, Flagged
  <2>2. GoodHalf(v) /\ SameStore(t, v)
    <3>1. {} \in SUBSET {"TF_ACKNOW", "TF_DELACK"} /\ FALSE \in BOOLEAN
      OBVIOUS
    <3> QED
      BY <3>1, FlagsGood
  <2> HIDE DEF v
  <2>3. SameStore(v, u) /\ Stamped(u)
    BY <2>2, SendGood
  <2> HIDE DEF u
  <2>4. SameStore(t, u)
    BY <2>2, <2>3 DEF SameStore
  <2> QED
    BY <2>1, <2>3, <2>4
<1>2. CASE ~("TF_ACKNOW" \in t.t_flags \/ has_data)
  BY <1>2 DEF utcp_output, SameStore
<1> QED
  BY <1>1, <1>2

\* A forced ACK settles a half whatever it owed.
LEMMA ForcedSettles ==
  ASSUME NEW t, GoodHalf(t), Ahead(t), NEW has_data \in BOOLEAN
  PROVE  LET u == utcp_output(force_ack(t), has_data)
         IN  Settled(u) /\ SameStore(t, u) /\ Stamped(u)
<1> DEFINE flags == t.t_flags \cup {"TF_ACKNOW"}
           u == Flagged(t, flags, t.delack)
<1>1. t \in RecvHalves
  BY DEF GoodHalf
<1>2. flags \in SUBSET {"TF_ACKNOW", "TF_DELACK"} /\ t.delack \in BOOLEAN
  BY <1>1, HalfFields
<1>3. force_ack(t) = u
  BY <1>1 DEF force_ack, RecvHalves, Flagged
<1>4. "TF_ACKNOW" \in flags
  OBVIOUS
<1> HIDE DEF flags
<1>5. GoodHalf(u) /\ u.t_flags = flags /\ u.rcv_nxt = t.rcv_nxt /\ u.ooo = t.ooo
      /\ SameStore(t, u)
  BY <1>2, FlagsGood
<1> HIDE DEF u
<1>6. Ahead(u) /\ "TF_ACKNOW" \in u.t_flags
  BY <1>4, <1>5 DEF Ahead
<1> DEFINE o == utcp_output(u, has_data)
<1>7. Settled(o)
  BY <1>5, <1>6, OutputSettles
<1>8. SameStore(u, o) /\ Stamped(o)
  BY <1>5, <1>6, OutputStamps
<1> HIDE DEF o
<1>9. SameStore(t, o)
  BY <1>5, <1>8 DEF SameStore
<1> QED
  BY <1>3, <1>7, <1>8, <1>9 DEF o

\* The ACK policy forces an ACK or starts the timer of a delayed one.
LEMMA PolicyGood ==
  ASSUME NEW t, GoodHalf(t), Ahead(t), NEW gap_filled \in BOOLEAN, NEW dupacks \in BOOLEAN
  PROVE  LET u == ack_policy(t, gap_filled, dupacks)
         IN  /\ GoodHalf(u) /\ Ahead(u) /\ ("TF_ACKNOW" \in u.t_flags \/ Owed(u))
             /\ SameStore(t, u) /\ u.adv = t.adv
<1> DEFINE now   == (t.t_flags \ {"TF_DELACK"}) \cup {"TF_ACKNOW"}
           later == t.t_flags \cup {"TF_DELACK"}
           u     == ack_policy(t, gap_filled, dupacks)
<1>1. t.t_flags \in SUBSET {"TF_ACKNOW", "TF_DELACK"}
  BY HalfFields DEF GoodHalf
<1>2. /\ now \in SUBSET {"TF_ACKNOW", "TF_DELACK"} /\ later \in SUBSET {"TF_ACKNOW", "TF_DELACK"}
      /\ "TF_ACKNOW" \in now /\ "TF_DELACK" \in later
  BY <1>1
<1>3. CASE gap_filled \/ dupacks \/ "TF_DELACK" \in t.t_flags
  <2> DEFINE v == Flagged(t, now, FALSE)
  <2>1. u = v
    BY <1>3 DEF ack_policy, Flagged
  <2> HIDE DEF now
  <2>2. /\ GoodHalf(v) /\ v.t_flags = now /\ v.rcv_nxt = t.rcv_nxt /\ v.ooo = t.ooo
        /\ SameStore(t, v) /\ v.adv = t.adv
    <3>1. FALSE \in BOOLEAN
      OBVIOUS
    <3> QED
      BY <1>2, <3>1, FlagsGood
  <2> HIDE DEF v
  <2>3. Ahead(v) /\ "TF_ACKNOW" \in v.t_flags
    BY <1>2, <2>2 DEF Ahead
  <2> QED
    BY <2>1, <2>2, <2>3
<1>4. CASE ~(gap_filled \/ dupacks \/ "TF_DELACK" \in t.t_flags)
  <2> DEFINE v == Flagged(t, later, TRUE)
  <2>1. u = v
    BY <1>4 DEF ack_policy, Flagged
  <2> HIDE DEF later
  <2>2. /\ GoodHalf(v) /\ v.t_flags = later /\ v.delack = TRUE /\ v.rcv_nxt = t.rcv_nxt
        /\ v.ooo = t.ooo /\ SameStore(t, v) /\ v.adv = t.adv
    <3>1. TRUE \in BOOLEAN /\ later \in SUBSET {"TF_ACKNOW", "TF_DELACK"}
      BY <1>2
    <3> QED
      BY <3>1, FlagsGood
  <2> HIDE DEF v
  <2>3. Ahead(v) /\ Owed(v)
    BY <1>2, <2>2 DEF Ahead, Owed
  <2> QED
    BY <2>1, <2>2, <2>3
<1> QED
  BY <1>3, <1>4

\* A payload that fits and continues the stream, put into recv_buf.
Written(t, data) ==
  [t EXCEPT !.recv_buf = ring_buf_write(t.recv_buf, RECV_BUF_SIZE, t.recv_buf_tail, data),
            !.recv_buf_tail = t.recv_buf_tail + Len(data),
            !.rcv_nxt = t.rcv_nxt + Len(data)]

\* The half stays good in the middle of the handler, before the drain.
LEMMA WrittenGood ==
  ASSUME NEW t, GoodHalf(t), NEW data \in Seq(Nat), fits(t, data),
         t.rcv_nxt + Len(data) <= StreamLen + 1
  PROVE  LET w == Written(t, data)
         IN  /\ GoodHalf(w)
             /\ w.rcv_nxt = t.rcv_nxt + Len(data)
             /\ w.recv_buf_tail = t.recv_buf_tail + Len(data)
             /\ w.recv_buf_head = t.recv_buf_head /\ w.ooo = t.ooo
             /\ w.ooo_bytes = t.ooo_bytes /\ w.adv = t.adv
             /\ TrueHalf(t) /\ data = Stream(t.rcv_nxt, Len(data)) => TrueHalf(w)
<1> DEFINE ring == ring_buf_write(t.recv_buf, RECV_BUF_SIZE, t.recv_buf_tail, data)
           w == [t EXCEPT !.recv_buf = ring, !.recv_buf_tail = t.recv_buf_tail + Len(data),
                          !.rcv_nxt = t.rcv_nxt + Len(data)]
<1>1. t \in RecvHalves
  BY DEF GoodHalf
<1>2. /\ t.rcv_nxt \in Nat /\ t.recv_buf_head \in Nat /\ t.recv_buf_tail \in Nat
      /\ t.ooo_bytes \in Nat /\ Len(data) \in Nat /\ RECV_BUF_SIZE \in Nat
  BY <1>1, HalfFields, RecvAssumption
<1>3. ring \in [0 .. RECV_BUF_SIZE - 1 -> Nat]
  BY <1>1, <1>2, HalfFields, RecvAssumption, WriteType
<1>4. Written(t, data) = w
  BY DEF Written
<1> HIDE DEF ring
<1>5. w \in RecvHalves
  <2>1. t.recv_buf_tail + Len(data) \in Nat /\ t.rcv_nxt + Len(data) \in Nat
    BY <1>2
  <2> QED
    BY <1>1, <1>3, <2>1 DEF RecvHalves
<1>6. /\ w.rcv_nxt = t.rcv_nxt + Len(data) /\ w.recv_buf_tail = t.recv_buf_tail + Len(data)
      /\ w.recv_buf_head = t.recv_buf_head /\ w.ooo = t.ooo /\ w.ooo_bytes = t.ooo_bytes
      /\ w.edge = t.edge /\ w.adv = t.adv /\ w.recv_buf = ring
  BY <1>1 DEF RecvHalves
<1> HIDE DEF w
<1>7. /\ 1 <= t.rcv_nxt /\ t.recv_buf_tail = t.rcv_nxt - 1
      /\ t.recv_buf_head <= t.recv_buf_tail
      /\ t.edge <= RECV_BUF_SIZE + t.recv_buf_head + 1
      /\ Sound(t.ooo) /\ t.ooo_bytes = Cardinality(Bytes(t.ooo))
  BY DEF GoodHalf
<1>8. Len(data) <= RECV_BUF_SIZE - (t.recv_buf_tail - t.recv_buf_head) - t.ooo_bytes
  BY DEF fits, free_space, buffered
<1>9. /\ 1 <= w.rcv_nxt /\ w.rcv_nxt <= StreamLen + 1 /\ w.recv_buf_tail = w.rcv_nxt - 1
      /\ w.recv_buf_head <= w.recv_buf_tail
      /\ w.recv_buf_tail - w.recv_buf_head + w.ooo_bytes <= RECV_BUF_SIZE
  <2>1. /\ 1 <= t.rcv_nxt /\ t.recv_buf_tail = t.rcv_nxt - 1
        /\ t.recv_buf_head <= t.recv_buf_tail
    BY <1>7
  <2>2. 1 <= t.rcv_nxt + Len(data) /\ t.recv_buf_tail + Len(data) = t.rcv_nxt + Len(data) - 1
    BY <1>2, <2>1
  <2>3. t.recv_buf_head <= t.recv_buf_tail + Len(data)
    BY <1>2, <2>1
  <2>4. t.recv_buf_tail + Len(data) - t.recv_buf_head + t.ooo_bytes <= RECV_BUF_SIZE
    BY <1>2, <1>8
  <2>5. /\ w.rcv_nxt = t.rcv_nxt + Len(data) /\ w.recv_buf_tail = t.recv_buf_tail + Len(data)
        /\ w.recv_buf_head = t.recv_buf_head /\ w.ooo_bytes = t.ooo_bytes
    BY <1>6
  <2>6. /\ w.rcv_nxt \in Nat /\ w.recv_buf_tail \in Nat /\ w.recv_buf_head \in Nat
        /\ w.ooo_bytes \in Nat
    BY <1>5, HalfFields
  <2>7. 1 <= w.rcv_nxt /\ w.rcv_nxt <= StreamLen + 1 /\ w.recv_buf_tail = w.rcv_nxt - 1
    <3>1. 1 <= w.rcv_nxt /\ w.rcv_nxt <= StreamLen + 1
      BY <2>2, <2>5, Zenon
    <3>2. w.recv_buf_tail = w.rcv_nxt - 1
      <4>1. t.recv_buf_tail + Len(data) = (t.rcv_nxt + Len(data)) - 1
        BY <1>2, <2>1
      <4>2. /\ w.rcv_nxt = t.rcv_nxt + Len(data)
            /\ w.recv_buf_tail = t.recv_buf_tail + Len(data)
        BY <2>5
      <4> QED
        BY <4>1, <4>2
    <3> QED
      BY <3>1, <3>2
  <2>8. w.recv_buf_head <= w.recv_buf_tail
    BY <2>3, <2>5
  <2>9. w.recv_buf_tail - w.recv_buf_head + w.ooo_bytes <= RECV_BUF_SIZE
    BY <1>2, <2>4, <2>5, <2>6
  <2> QED
    BY <2>7, <2>8, <2>9
<1>10. GoodHalf(w)
  BY <1>5, <1>6, <1>7, <1>9 DEF GoodHalf
<1>11. ASSUME TrueHalf(t), data = Stream(t.rcv_nxt, Len(data)) PROVE TrueHalf(w)
  <2> DEFINE buf  == t.recv_buf
             head == t.recv_buf_head
             tail == t.recv_buf_tail
             nxt  == t.rcv_nxt
             m    == Len(data)
  <2>1. \A k \in 1 .. Len(data) : data[k] = tail + k
    <3>1. data = [k \in 1 .. m |-> nxt + k - 1]
      BY <1>11 DEF Stream
    <3>2. nxt \in Nat /\ m \in Nat /\ nxt - 1 = tail
      BY <1>2, <1>7
    <3> HIDE DEF nxt, m, tail
    <3>3. \A k \in 1 .. m : data[k] = nxt + k - 1
      BY <3>1
    <3>4. \A k \in 1 .. m : data[k] = tail + k
      BY <3>2, <3>3
    <3> QED
      BY <3>4 DEF m
  <2>2. Holds(buf, RECV_BUF_SIZE, head, tail) /\ TrueQueue(t.ooo)
    BY <1>11 DEF TrueHalf
  <2>3. /\ head \in Nat /\ tail \in Nat /\ RECV_BUF_SIZE \in Nat \ {0}
        /\ buf \in [0 .. RECV_BUF_SIZE - 1 -> Nat] /\ head <= tail /\ Len(data) \in Nat
    BY <1>1, <1>2, <1>7, HalfFields, RecvAssumption
  <2>4. tail + Len(data) - head <= RECV_BUF_SIZE
    BY <1>2, <1>8
  <2>5. ring = ring_buf_write(buf, RECV_BUF_SIZE, tail, data)
    BY DEF ring
  <2>6. w.recv_buf = ring /\ w.recv_buf_head = head /\ w.recv_buf_tail = tail + Len(data)
    BY <1>6
  <2> HIDE DEF buf, head, tail
  <2>7. Holds(ring_buf_write(buf, RECV_BUF_SIZE, tail, data), RECV_BUF_SIZE,
              head, tail + Len(data))
    BY <2>1, <2>2, <2>3, <2>4, WriteHolds
  <2> QED
    BY <1>6, <2>2, <2>5, <2>6, <2>7 DEF TrueHalf
<1> QED
  BY <1>4, <1>6, <1>10, <1>11


\* An in-order payload that fits.
LEMMA AcceptSettles ==
  ASSUME NEW t, GoodHalf(t), NEW data \in Seq(Nat), fits(t, data),
         t.rcv_nxt + Len(data) <= StreamLen + 1,
         NEW dupacks \in BOOLEAN, NEW has_data \in BOOLEAN
  PROVE  LET o == utcp_output(accept_in_order(t, data, dupacks), has_data)
         IN  /\ Settled(o) /\ (Stamped(o) \/ o.adv = t.adv)
             /\ o.recv_buf_head = t.recv_buf_head /\ t.rcv_nxt + Len(data) <= o.rcv_nxt
             /\ KeepsEnds(t.ooo, o.ooo, o.rcv_nxt)
             /\ TrueHalf(t) /\ data = Stream(t.rcv_nxt, Len(data)) => TrueHalf(o)
             /\ \A b \in Nat : Within(t, b) /\ t.rcv_nxt + Len(data) <= b + 1 => Within(o, b)
<1> DEFINE w == Written(t, data)
           d == drain_ooo_queue(w)
<1>4. accept_in_order(t, data, dupacks) = ack_policy(d, d.rcv_nxt # w.rcv_nxt, dupacks)
  BY DEF accept_in_order, Written
<1>6. /\ GoodHalf(w) /\ w.rcv_nxt = t.rcv_nxt + Len(data)
      /\ w.recv_buf_head = t.recv_buf_head /\ w.ooo = t.ooo /\ w.adv = t.adv
      /\ TrueHalf(t) /\ data = Stream(t.rcv_nxt, Len(data)) => TrueHalf(w)
  BY WrittenGood
<1> HIDE DEF w
<1>11. /\ GoodHalf(d) /\ Ahead(d) /\ d.adv = w.adv /\ w.rcv_nxt <= d.rcv_nxt
       /\ d.recv_buf_head = w.recv_buf_head /\ KeepsEnds(w.ooo, d.ooo, d.rcv_nxt)
       /\ TrueHalf(w) => TrueHalf(d)
       /\ \A b \in Nat : Within(w, b) => Within(d, b)
  BY <1>6, DrainGood
<1> HIDE DEF d
<1>12. (d.rcv_nxt # w.rcv_nxt) \in BOOLEAN
  OBVIOUS
<1> DEFINE gap == d.rcv_nxt # w.rcv_nxt
           u   == ack_policy(d, gap, dupacks)
<1> HIDE DEF gap
<1>13. gap \in BOOLEAN
  BY <1>12 DEF gap
<1>14. /\ GoodHalf(u) /\ Ahead(u) /\ ("TF_ACKNOW" \in u.t_flags \/ Owed(u))
       /\ SameStore(d, u) /\ u.adv = d.adv
  BY <1>11, <1>13, PolicyGood
<1>15. accept_in_order(t, data, dupacks) = u
  BY <1>4 DEF gap
<1> HIDE DEF u
<1> DEFINE o == utcp_output(u, has_data)
<1>16. Settled(o)
  BY <1>14, OutputSettles
<1>17. SameStore(u, o) /\ (Stamped(o) \/ o.adv = u.adv)
  BY <1>14, OutputStamps
<1> HIDE DEF o
<1>18. SameStore(d, o)
  BY <1>14, <1>17 DEF SameStore
<1>19. Stamped(o) \/ o.adv = t.adv
  BY <1>6, <1>11, <1>14, <1>17
<1>20. o.recv_buf_head = t.recv_buf_head /\ t.rcv_nxt + Len(data) <= o.rcv_nxt
  BY <1>6, <1>11, <1>18 DEF SameStore
<1>21. KeepsEnds(t.ooo, o.ooo, o.rcv_nxt)
  BY <1>6, <1>11, <1>18 DEF SameStore
<1>22. ASSUME TrueHalf(t), data = Stream(t.rcv_nxt, Len(data)) PROVE TrueHalf(o)
  BY <1>6, <1>11, <1>18, <1>22, SameStoreTrue
<1>23. ASSUME NEW b \in Nat, Within(t, b), t.rcv_nxt + Len(data) <= b + 1 PROVE Within(o, b)
  <2>1. Within(w, b)
    BY <1>6, <1>23 DEF Within
  <2>2. Within(d, b)
    BY <1>11, <2>1
  <2> QED
    BY <1>18, <2>2 DEF Within, SameStore
<1> QED
  BY <1>15, <1>16, <1>19, <1>20, <1>21, <1>22, <1>23 DEF o

\* Reading frees room and never takes a promise back.
LEMMA ReadSettles ==
  ASSUME NEW t, Settled(t), NEW len \in Nat, NEW has_data \in BOOLEAN, buffered(t) > 0
  PROVE  /\ Settled(utcp_read(t, len, has_data).r)
         /\ utcp_read(t, len, has_data).bytes \in Seq(Nat)
         /\ LET u == utcp_read(t, len, has_data).r
                n == u.recv_buf_head - t.recv_buf_head
            IN  /\ n \in Nat /\ u.rcv_nxt = t.rcv_nxt /\ u.ooo = t.ooo
                /\ Stamped(u) \/ (u.adv = t.adv /\ ~(free_space(u) >= sws_threshold))
                /\ TrueHalf(t) => /\ TrueHalf(u)
                                  /\ utcp_read(t, len, has_data).bytes
                                       = [k \in 1 .. n |-> t.recv_buf_head + k]
<1> DEFINE available == buffered(t)
           num  == IF len < available THEN len ELSE available
           rest == [t EXCEPT !.recv_buf_head = t.recv_buf_head + num]
           res  == utcp_read(t, len, has_data)
<1>1. t \in RecvHalves
  BY DEF Settled, GoodHalf
<1>2. /\ t.rcv_nxt \in Nat /\ t.recv_buf_head \in Nat /\ t.recv_buf_tail \in Nat
      /\ t.ooo_bytes \in Nat /\ t.edge \in Nat /\ RECV_BUF_SIZE \in Nat
  BY <1>1, HalfFields, RecvAssumption
<1>3. /\ t.recv_buf_tail - t.recv_buf_head + t.ooo_bytes <= RECV_BUF_SIZE
      /\ t.edge <= RECV_BUF_SIZE + t.recv_buf_head + 1
  BY DEF Settled, GoodHalf
<1>4. available = t.recv_buf_tail - t.recv_buf_head /\ available > 0
  BY DEF buffered
<1>5. /\ res.r = IF announces(available, rest) THEN utcp_output(force_ack(rest), has_data)
                                              ELSE rest
      /\ res.bytes = ring_buf_read(t.recv_buf, RECV_BUF_SIZE, t.recv_buf_head, num)
  BY DEF utcp_read
<1> HIDE DEF available, res
<1>6. num \in Nat /\ num <= t.recv_buf_tail - t.recv_buf_head
  BY <1>2, <1>4
<1> HIDE DEF num
<1>7. num <= RECV_BUF_SIZE /\ t.recv_buf_head + num \in Nat
  BY <1>2, <1>3, <1>6
<1>8. res.bytes \in Seq(Nat)
  <2>1. t.recv_buf \in [0 .. RECV_BUF_SIZE - 1 -> Nat] /\ RECV_BUF_SIZE \in Nat \ {0}
    BY <1>1, HalfFields, RecvAssumption
  <2>2. ring_buf_read(t.recv_buf, RECV_BUF_SIZE, t.recv_buf_head, num) \in Seq(Nat)
    BY <1>2, <1>6, <1>7, <2>1, ReadType
  <2> QED
    BY <1>5, <2>2
<1>9. rest \in RecvHalves
  BY <1>1, <1>7 DEF RecvHalves
<1>10. /\ rest.recv_buf_head = t.recv_buf_head + num /\ rest.recv_buf_tail = t.recv_buf_tail
       /\ rest.rcv_nxt = t.rcv_nxt /\ rest.ooo = t.ooo /\ rest.ooo_bytes = t.ooo_bytes
       /\ rest.edge = t.edge /\ rest.adv = t.adv /\ rest.t_flags = t.t_flags
       /\ rest.delack = t.delack /\ rest.recv_buf = t.recv_buf
  BY <1>1 DEF RecvHalves
<1> HIDE DEF rest
<1>11. /\ t.recv_buf_head + num <= t.recv_buf_tail
       /\ t.recv_buf_tail - (t.recv_buf_head + num) + t.ooo_bytes <= RECV_BUF_SIZE
       /\ t.edge <= RECV_BUF_SIZE + (t.recv_buf_head + num) + 1
  BY <1>2, <1>3, <1>6
<1>12. GoodHalf(rest)
  BY <1>9, <1>10, <1>11 DEF Settled, GoodHalf
<1>13. Settled(rest)
  BY <1>10, <1>12 DEF Settled, Ahead, Owed
<1> DEFINE f == utcp_output(force_ack(rest), has_data)
           u == res.r
<1>14. Settled(f) /\ SameStore(rest, f) /\ Stamped(f)
  BY <1>13, ForcedSettles DEF Settled
<1>15. Settled(u)
  BY <1>5, <1>13, <1>14
<1> HIDE DEF f
<1>16. u = IF announces(available, rest) THEN f ELSE rest
  BY <1>5 DEF f
<1> HIDE DEF u
<1>17. SameStore(rest, u)
  BY <1>14, <1>16 DEF SameStore
<1>18. Stamped(u) \/ (u.adv = t.adv /\ ~(free_space(u) >= sws_threshold))
  <2>1. CASE announces(available, rest)
    BY <1>14, <1>16, <2>1
  <2>2. CASE ~announces(available, rest)
    <3>1. u = rest
      BY <1>16, <2>2
    <3>2. ~(free_space(rest) >= sws_threshold)
      BY <2>2 DEF announces
    <3> QED
      BY <1>10, <3>1, <3>2
  <2> QED
    BY <2>1, <2>2
<1>19. u.rcv_nxt = t.rcv_nxt /\ u.ooo = t.ooo /\ u.recv_buf_head = t.recv_buf_head + num
  BY <1>10, <1>17 DEF SameStore
<1>20. u.recv_buf_head - t.recv_buf_head = num
  BY <1>2, <1>6, <1>19
<1>21. ASSUME TrueHalf(t)
       PROVE  TrueHalf(u) /\ res.bytes = [k \in 1 .. num |-> t.recv_buf_head + k]
  <2> DEFINE buf  == t.recv_buf
             head == t.recv_buf_head
             tail == t.recv_buf_tail
  <2>1. Holds(buf, RECV_BUF_SIZE, head, tail) /\ TrueQueue(t.ooo)
    BY <1>21 DEF TrueHalf
  <2>2. /\ head \in Nat /\ tail \in Nat /\ RECV_BUF_SIZE \in Nat \ {0}
        /\ buf \in [0 .. RECV_BUF_SIZE - 1 -> Nat] /\ num \in Nat /\ num <= RECV_BUF_SIZE
        /\ head + num <= tail
    BY <1>1, <1>2, <1>6, <1>7, <1>11, HalfFields, RecvAssumption
  <2>3. res.bytes = ring_buf_read(buf, RECV_BUF_SIZE, head, num)
    BY <1>5
  <2>4. /\ rest.recv_buf = buf /\ rest.recv_buf_head = head + num /\ rest.recv_buf_tail = tail
        /\ rest.ooo = t.ooo
    BY <1>10
  <2> HIDE DEF buf, head, tail
  <2>5. ring_buf_read(buf, RECV_BUF_SIZE, head, num) = [k \in 1 .. num |-> head + k]
    <3>1. head <= head
      BY <2>2
    <3> QED
      BY <2>1, <2>2, <3>1, ReadHolds
  <2>6. Holds(buf, RECV_BUF_SIZE, head + num, tail)
    <3>1. \A pos \in head + num .. tail - 1 : pos \in head .. tail - 1
      BY <2>2
    <3> QED
      BY <2>1, <3>1 DEF Holds
  <2>7. TrueHalf(rest)
    BY <2>1, <2>4, <2>6 DEF TrueHalf
  <2>8. TrueHalf(u)
    BY <1>17, <2>7, SameStoreTrue
  <2> QED
    BY <2>3, <2>5, <2>8 DEF head
<1> QED
  BY <1>6, <1>8, <1>15, <1>18, <1>19, <1>20, <1>21 DEF u, res

-----------------------------------------------------------------------------
\* Segments of the peer's stream

\* What is left of a segment that begins at or before rcv_nxt ends where the
\* segment ends.
LEMMA FreshType ==
  ASSUME NEW t, t.rcv_nxt \in Nat, NEW seq \in Nat \ {0}, NEW len \in Nat,
         seq <= t.rcv_nxt, t.rcv_nxt < seq + len
  PROVE  LET data == fresh(t, seq, Stream(seq, len))
         IN  /\ data \in Seq(Nat) /\ t.rcv_nxt + Len(data) = seq + len
             /\ data = Stream(t.rcv_nxt, Len(data))
<1> DEFINE st  == Stream(seq, len)
           a   == duplicate_bytes(t, seq) + 1
           data == fresh(t, seq, st)
<1>2. st \in Seq(Nat) /\ Len(st) = len
  BY StreamType
<1>3. duplicate_bytes(t, seq) = t.rcv_nxt - seq
  BY DEF duplicate_bytes
<1>4. data = SubSeq(st, a, Len(st))
  BY DEF fresh
<1>5. a \in Nat /\ 1 <= a /\ a <= len /\ a = t.rcv_nxt - seq + 1
  BY <1>3
<1>9. data = SubSeq(Stream(seq, len), a, len)
  BY <1>2, <1>4
<1> HIDE DEF a, st, data
<1>6. \A i \in a .. Len(st) : st[i] \in Nat
  <2>1. \A i \in a .. Len(st) : i \in 1 .. Len(st)
    BY <1>2, <1>5
  <2> QED
    BY <1>2, <2>1
<1>7. data \in Seq(Nat) /\ Len(data) = len - a + 1
  BY <1>2, <1>4, <1>5, <1>6
<1>8. t.rcv_nxt + Len(data) = seq + len
  <2> DEFINE nxt == t.rcv_nxt
  <2>1. nxt \in Nat /\ a = nxt - seq + 1
    BY <1>5
  <2> HIDE DEF nxt
  <2>2. nxt + (len - a + 1) = seq + len
    BY <2>1
  <2> QED
    BY <1>7, <2>2 DEF nxt
<1>10. data = Stream(t.rcv_nxt, Len(data))
  <2>1. a \in 1 .. len /\ seq + a - 1 = t.rcv_nxt
    BY <1>5
  <2>2. data = SubSeq(Stream(seq, len), a, len) /\ Len(data) = len - a + 1
    BY <1>7, <1>9
  <2>3. SubSeq(Stream(seq, len), a, len) = Stream(seq + a - 1, len - a + 1)
    BY <1>5, <2>1, StreamSlice
  <2> QED
    BY <2>1, <2>2, <2>3
<1> QED
  BY <1>7, <1>8, <1>10 DEF data, st

-----------------------------------------------------------------------------
\* The specification

\* What a step makes of a settled half t, and the bytes it hands to the
\* application.  Last bytes of the queue stay; the last segment sent says all
\* there is to say unless nothing changed, or bytes wait for the reader, or the
\* window is not worth announcing.
StepOf(t, u, bytes) ==
  /\ Settled(u)
  /\ KeepsEnds(t.ooo, u.ooo, u.rcv_nxt)
  /\ Stamped(u) \/ u.adv = t.adv
  /\ Stamped(u) \/ u = t \/ buffered(u) > 0 \/ ~(free_space(u) >= sws_threshold)
  /\ t.recv_buf_head <= u.recv_buf_head
  /\ TrueHalf(t) =>
       /\ TrueHalf(u)
       /\ bytes = [k \in 1 .. u.recv_buf_head - t.recv_buf_head |-> t.recv_buf_head + k]

\* Nothing handed over.
LEMMA NoBytes ==
  ASSUME NEW t, NEW u, t.recv_buf_head \in Nat, u.recv_buf_head = t.recv_buf_head
  PROVE  /\ t.recv_buf_head <= u.recv_buf_head
         /\ <<>> = [k \in 1 .. u.recv_buf_head - t.recv_buf_head |-> t.recv_buf_head + k]
<1> DEFINE n == u.recv_buf_head - t.recv_buf_head
<1>1. n = 0 /\ t.recv_buf_head <= u.recv_buf_head
  OBVIOUS
<1> HIDE DEF n
<1>2. <<>> = [k \in 1 .. n |-> t.recv_buf_head + k]
  BY <1>1
<1> QED
  BY <1>1, <1>2 DEF n

\* A segment sent and nothing else.
LEMMA QuietStep ==
  ASSUME NEW t, Settled(t), NEW u, Settled(u), SameStore(t, u), Stamped(u)
  PROVE  StepOf(t, u, <<>>)
<1>1. t.recv_buf_head \in Nat /\ u.recv_buf_head = t.recv_buf_head
  BY HalfFields DEF Settled, GoodHalf, SameStore
<1>2. KeepsEnds(t.ooo, u.ooo, u.rcv_nxt) /\ (TrueHalf(t) => TrueHalf(u))
  BY SameStoreTrue DEF Settled, GoodHalf
<1> QED
  BY <1>1, <1>2, NoBytes DEF StepOf

\* The inductive invariant of module Receiver.  What was read is the stream up
\* to the reader's position, and the last announced edge lies within what the
\* ring can take from that position on.
RecvInv ==
  /\ Settled(r) /\ TrueHalf(r)
  /\ delivered = Stream(1, r.recv_buf_head)
  /\ WindowReopens
  /\ r.adv.ack + r.adv.win <= RECV_BUF_SIZE + r.recv_buf_head + 1

\* The established connection is settled.
LEMMA InitInv == Init => RecvInv
<1> SUFFICES ASSUME Init PROVE RecvInv
  OBVIOUS
<1> DEFINE win == IF RECV_BUF_SIZE > 65535 THEN 65535 ELSE RECV_BUF_SIZE
<1>1. r = [rcv_nxt |-> 1, recv_buf |-> EmptyRing(RECV_BUF_SIZE),
           recv_buf_head |-> 0, recv_buf_tail |-> 0, ooo |-> {}, ooo_bytes |-> 0,
           t_flags |-> {}, delack |-> FALSE,
           adv |-> [ack |-> 1, win |-> win], edge |-> 1 + win]
  BY DEF Init
<1>2. RECV_BUF_SIZE \in Nat \ {0} /\ StreamLen \in Nat
  BY RecvAssumption, ReceiverAssumption
<1>3. win \in Nat /\ win <= RECV_BUF_SIZE /\ 1 + win \in Nat
  BY <1>2
<1> HIDE DEF win
<1>4. EmptyRing(RECV_BUF_SIZE) \in [0 .. RECV_BUF_SIZE - 1 -> Nat]
  BY DEF EmptyRing
<1>5. r \in RecvHalves
  <2>1. [ack |-> 1, win |-> win] \in [ack : Nat, win : Nat]
    BY <1>3
  <2> QED
    BY <1>1, <1>3, <1>4, <2>1 DEF RecvHalves
<1>6. /\ r.rcv_nxt = 1 /\ r.recv_buf_head = 0 /\ r.recv_buf_tail = 0 /\ r.ooo = {}
      /\ r.ooo_bytes = 0 /\ r.t_flags = {} /\ r.delack = FALSE /\ r.adv.ack = 1
      /\ r.edge = 1 + win /\ r.adv.win = win
  BY <1>1
<1>7. Sound({}) /\ Cardinality(Bytes({})) = 0
  <2>1. Bytes({}) = {}
    BY DEF Bytes
  <2> QED
    BY <2>1, FS_EmptySet DEF Sound, Disjoint
<1>8. GoodHalf(r)
  <2>1. /\ 1 <= r.rcv_nxt /\ r.rcv_nxt <= StreamLen + 1 /\ r.recv_buf_tail = r.rcv_nxt - 1
        /\ r.recv_buf_head <= r.recv_buf_tail
        /\ r.recv_buf_tail - r.recv_buf_head + r.ooo_bytes <= RECV_BUF_SIZE
        /\ r.edge <= RECV_BUF_SIZE + r.recv_buf_head + 1
    BY <1>2, <1>3, <1>6
  <2> QED
    BY <1>5, <1>6, <1>7, <2>1 DEF GoodHalf
<1>9. Ahead(r) /\ Owed(r) /\ "TF_ACKNOW" \notin r.t_flags
  BY <1>6 DEF Ahead, Owed
<1>10. delivered = <<>>
  BY DEF Init
<1>11. Stream(1, 0) = <<>>
  BY DEF Stream
<1>12. TrueHalf(r)
  <2>1. Holds(r.recv_buf, RECV_BUF_SIZE, 0, 0)
    BY DEF Holds
  <2> QED
    BY <1>6, <2>1 DEF TrueHalf, TrueQueue
<1>13. r.adv.ack + r.adv.win <= RECV_BUF_SIZE + r.recv_buf_head + 1
  BY <1>2, <1>3, <1>6
<1>14. WindowReopens
  <2>1. Len(delivered) = 0
    BY <1>10
  <2> QED
    BY <2>1 DEF WindowReopens
<1> QED
  BY <1>6, <1>8, <1>9, <1>10, <1>11, <1>12, <1>13, <1>14 DEF RecvInv, Settled

\* Every action is such a step.
LEMMA StepKinds ==
  ASSUME Settled(r), delivered \in Seq(Nat), [Next]_vars
  PROVE  \E bytes : StepOf(r, r', bytes) /\ delivered' = delivered \o bytes
<1> DEFINE Goal == \E bytes : StepOf(r, r', bytes) /\ delivered' = delivered \o bytes
<1>1. GoodHalf(r) /\ Ahead(r) /\ Owed(r) /\ "TF_ACKNOW" \notin r.t_flags
  BY DEF Settled
<1>2. r \in RecvHalves /\ r.rcv_nxt \in Nat /\ r.recv_buf_head \in Nat
  BY <1>1, HalfFields DEF GoodHalf
<1>3. ASSUME NEW u, r' = u, delivered' = delivered, StepOf(r, u, <<>>) PROVE Goal
  <2>1. delivered' = delivered \o <<>>
    BY <1>3
  <2> QED
    BY <1>3, <2>1
<1> SUFFICES Goal
  OBVIOUS
<1> HIDE DEF Goal
<1>4. ASSUME NEW s \in Segments, Recv(s) PROVE Goal
  <2>1. /\ s.seq \in Nat \ {0} /\ s.len \in Nat \ {0} /\ s.seq + s.len <= StreamLen + 1
    BY ReceiverAssumption, RecvAssumption DEF Segments
  <2>2. ASSUME NEW has_data \in BOOLEAN, RecvDuplicate(s, has_data) PROVE Goal
    <3> DEFINE u == utcp_output(force_ack(r), has_data)
    <3>1. r' = u /\ delivered' = delivered
      BY <2>2 DEF RecvDuplicate
    <3>2. Settled(u) /\ SameStore(r, u) /\ Stamped(u)
      BY <1>1, ForcedSettles
    <3> HIDE DEF u
    <3> QED
      BY <1>3, <3>1, <3>2, QuietStep
  <2>3. ASSUME NEW dupacks \in BOOLEAN, NEW has_data \in BOOLEAN,
               RecvInOrder(s, dupacks, has_data)
        PROVE  Goal
    <3> DEFINE data == fresh(r, s.seq, Stream(s.seq, s.len))
               u    == utcp_output(accept_in_order(r, data, dupacks), has_data)
    <3>1. /\ s.seq <= r.rcv_nxt /\ r.rcv_nxt < s.seq + s.len /\ fits(r, data)
          /\ r' = u /\ delivered' = delivered
      BY <2>3 DEF RecvInOrder
    <3>2. /\ data \in Seq(Nat) /\ r.rcv_nxt + Len(data) = s.seq + s.len
          /\ data = Stream(r.rcv_nxt, Len(data))
      BY <1>2, <2>1, <3>1, FreshType
    <3> HIDE DEF data
    <3>3. r.rcv_nxt + Len(data) <= StreamLen + 1
      BY <2>1, <3>2
    <3>4. /\ Settled(u) /\ (Stamped(u) \/ u.adv = r.adv)
          /\ u.recv_buf_head = r.recv_buf_head /\ r.rcv_nxt + Len(data) <= u.rcv_nxt
          /\ KeepsEnds(r.ooo, u.ooo, u.rcv_nxt)
          /\ TrueHalf(r) => TrueHalf(u)
      BY <1>1, <3>1, <3>2, <3>3, AcceptSettles
    <3> HIDE DEF u
    <3>5. buffered(u) > 0
      <4>1. /\ u.recv_buf_tail = u.rcv_nxt - 1 /\ u.rcv_nxt \in Nat
            /\ r.recv_buf_tail = r.rcv_nxt - 1 /\ r.recv_buf_head <= r.recv_buf_tail
        BY <1>1, <3>4, HalfFields DEF Settled, GoodHalf
      <4>2. r.rcv_nxt < u.rcv_nxt
        BY <1>2, <2>1, <3>1, <3>2, <3>4, <4>1
      <4>3. u.rcv_nxt - 1 - r.recv_buf_head > 0
        BY <1>2, <4>1, <4>2
      <4> QED
        BY <3>4, <4>1, <4>3 DEF buffered
    <3>6. StepOf(r, u, <<>>)
      BY <1>2, <3>4, <3>5, NoBytes DEF StepOf
    <3> QED
      BY <1>3, <3>1, <3>6
  <2>4. CASE RecvNoSpace(s)
    <3>1. r' = r /\ delivered' = delivered
      BY <2>4 DEF RecvNoSpace, vars
    <3>2. StepOf(r, r, <<>>)
      BY <1>1, <1>2, NoBytes, SameEnds DEF StepOf, GoodHalf
    <3> QED
      BY <1>3, <3>1, <3>2
  <2>5. ASSUME NEW alloc \in BOOLEAN, NEW has_data \in BOOLEAN,
               RecvOutOfOrder(s, alloc, has_data)
        PROVE  Goal
    <3> DEFINE data == Stream(s.seq, s.len)
               v    == insert_ooo_segment(r, s.seq, data, alloc)
               u    == utcp_output(force_ack(v), has_data)
    <3>1. s.seq > r.rcv_nxt /\ r' = u /\ delivered' = delivered
      BY <2>5 DEF RecvOutOfOrder
    <3>2. data \in Seq(Nat) /\ Len(data) = s.len
      BY <2>1, StreamType
    <3>3. data = Stream(s.seq, Len(data))
      BY <3>2
    <3> HIDE DEF data
    <3>4. data # <<>> /\ s.seq \in Nat /\ r.rcv_nxt < s.seq /\ s.seq + Len(data) <= StreamLen + 1
      BY <1>2, <2>1, <3>1, <3>2
    <3>5. /\ GoodHalf(v) /\ Ahead(v) /\ v.recv_buf_head = r.recv_buf_head
          /\ KeepsEnds(r.ooo, v.ooo, v.rcv_nxt) /\ (TrueHalf(r) => TrueHalf(v))
      BY <1>1, <3>2, <3>3, <3>4, InsertGood
    <3> HIDE DEF v
    <3>6. Settled(u) /\ SameStore(v, u) /\ Stamped(u)
      BY <3>5, ForcedSettles
    <3> HIDE DEF u
    <3>7. u.recv_buf_head = r.recv_buf_head /\ KeepsEnds(r.ooo, u.ooo, u.rcv_nxt)
      BY <3>5, <3>6 DEF SameStore
    <3>8. TrueHalf(r) => TrueHalf(u)
      BY <3>5, <3>6, SameStoreTrue
    <3>9. StepOf(r, u, <<>>)
      BY <1>2, <3>6, <3>7, <3>8, NoBytes DEF StepOf
    <3> QED
      BY <1>3, <3>1, <3>9
  <2> QED
    BY <1>4, <2>2, <2>3, <2>4, <2>5 DEF Recv
<1>5. CASE AppRead
  <2>1. PICK len \in 1 .. ReadMax, has_data \in BOOLEAN : Read(len, has_data)
    BY <1>5 DEF AppRead
  <2>2. len \in Nat
    BY ReceiverAssumption
  <2> DEFINE res == utcp_read(r, len, has_data)
             u   == res.r
             n   == u.recv_buf_head - r.recv_buf_head
  <2>3. buffered(r) > 0 /\ r' = u /\ delivered' = delivered \o res.bytes
    BY <2>1 DEF Read
  <2>4. /\ Settled(u) /\ n \in Nat /\ u.rcv_nxt = r.rcv_nxt /\ u.ooo = r.ooo
        /\ Stamped(u) \/ (u.adv = r.adv /\ ~(free_space(u) >= sws_threshold))
        /\ TrueHalf(r) => TrueHalf(u) /\ res.bytes = [k \in 1 .. n |-> r.recv_buf_head + k]
    BY <2>2, <2>3, ReadSettles
  <2> HIDE DEF res
  <2>5. KeepsEnds(r.ooo, u.ooo, u.rcv_nxt)
    BY <1>1, <2>4, SameEnds DEF GoodHalf
  <2>6. r.recv_buf_head <= u.recv_buf_head
    <3>1. u.recv_buf_head \in Nat
      BY <2>4, HalfFields DEF Settled, GoodHalf
    <3> QED
      BY <1>2, <2>4, <3>1
  <2>7. StepOf(r, u, res.bytes)
    BY <2>4, <2>5, <2>6 DEF StepOf
  <2> QED
    BY <2>3, <2>7 DEF Goal
<1>6. CASE Delack
  <2>1. PICK has_data \in BOOLEAN : DelackExpire(has_data)
    BY <1>6 DEF Delack
  <2> DEFINE v == Flagged(r, r.t_flags \ {"TF_DELACK"}, FALSE)
             u == utcp_output(force_ack(v), has_data)
  <2>2. r' = u /\ delivered' = delivered
    BY <2>1 DEF DelackExpire, Flagged
  <2>3. r.t_flags \ {"TF_DELACK"} \in SUBSET {"TF_ACKNOW", "TF_DELACK"} /\ FALSE \in BOOLEAN
    BY <1>2, HalfFields
  <2>4. GoodHalf(v) /\ v.rcv_nxt = r.rcv_nxt /\ v.ooo = r.ooo /\ SameStore(r, v)
    BY <1>1, <2>3, FlagsGood
  <2> HIDE DEF v
  <2>5. Ahead(v)
    BY <1>1, <2>4 DEF Ahead
  <2>6. Settled(u) /\ SameStore(v, u) /\ Stamped(u)
    BY <2>4, <2>5, ForcedSettles
  <2> HIDE DEF u
  <2>7. SameStore(r, u)
    BY <2>4, <2>6 DEF SameStore
  <2> QED
    BY <1>3, <2>2, <2>6, <2>7, QuietStep
<1>7. CASE SendData
  <2> DEFINE u == utcp_output(r, TRUE)
  <2>1. r' = u /\ delivered' = delivered
    BY <1>7 DEF SendData
  <2>2. TRUE \in BOOLEAN
    OBVIOUS
  <2>3. Settled(u)
    BY <1>1, <2>2, OutputSettles
  <2>4. SameStore(r, u) /\ Stamped(u)
    BY <1>1, <2>2, OutputStamps
  <2> HIDE DEF u
  <2> QED
    BY <1>3, <2>1, <2>3, <2>4, QuietStep
<1>8. CASE Retransmit
  <2> DEFINE u == utcp_send_segment(r)
  <2>1. r' = u /\ delivered' = delivered
    BY <1>8 DEF Retransmit
  <2>2. /\ GoodHalf(u) /\ u.adv.ack = r.rcv_nxt /\ u.rcv_nxt = r.rcv_nxt
        /\ u.t_flags = r.t_flags /\ u.delack = r.delack /\ u.ooo = r.ooo
        /\ SameStore(r, u) /\ Stamped(u)
    BY <1>1, SendGood
  <2> HIDE DEF u
  <2>3. Ahead(u)
    BY <1>1, <2>2 DEF Ahead
  <2>4. ~(u.adv.ack < u.rcv_nxt)
    BY <1>2, <2>2
  <2>5. Owed(u)
    BY <1>1, <2>2, <2>4 DEF Owed
  <2>6. Settled(u)
    BY <1>1, <2>2, <2>3, <2>5 DEF Settled
  <2> QED
    BY <1>3, <2>1, <2>2, <2>6, QuietStep
<1>9. CASE UNCHANGED vars
  <2>1. r' = r /\ delivered' = delivered
    BY <1>9 DEF vars
  <2>2. StepOf(r, r, <<>>)
    BY <1>1, <1>2, NoBytes, SameEnds DEF StepOf, GoodHalf
  <2> QED
    BY <1>3, <2>1, <2>2
<1> QED
  BY <1>4, <1>5, <1>6, <1>7, <1>8, <1>9 DEF Next

\* The edge a stamped segment announces: the free space rounded down.
LEMMA StampedEdge ==
  ASSUME NEW t, GoodHalf(t), Stamped(t)
  PROVE  \E edge \in Nat :
           /\ edge = t.adv.ack + t.adv.win
           /\ edge <= RECV_BUF_SIZE + t.recv_buf_head + 1 - t.ooo_bytes
           /\ edge > RECV_BUF_SIZE + t.recv_buf_head + 1 - t.ooo_bytes - WIN_UNIT
<1>1. /\ t.rcv_nxt \in Nat /\ t.recv_buf_head \in Nat /\ t.recv_buf_tail \in Nat
      /\ t.ooo_bytes \in Nat /\ RECV_BUF_SIZE \in Nat /\ WIN_UNIT \in Nat \ {0}
  BY HalfFields, RecvAssumption DEF GoodHalf
<1>2. /\ t.recv_buf_tail = t.rcv_nxt - 1
      /\ t.recv_buf_tail - t.recv_buf_head + t.ooo_bytes <= RECV_BUF_SIZE
  BY DEF GoodHalf
<1> DEFINE free == free_space(t)
           win  == (free \div WIN_UNIT) * WIN_UNIT
<1>3. free = RECV_BUF_SIZE - (t.recv_buf_tail - t.recv_buf_head) - t.ooo_bytes
  BY DEF free_space, buffered
<1>4. t.adv.ack = t.rcv_nxt /\ t.adv.win = win
  BY DEF Stamped, scaled_win
<1> HIDE DEF free
<1>5. free \in Nat
  BY <1>1, <1>2, <1>3
<1>6. win \in Nat /\ win <= free /\ win > free - WIN_UNIT
  BY <1>1, <1>5, WindowFits
<1> HIDE DEF win
<1>7. /\ t.rcv_nxt + win \in Nat
      /\ t.rcv_nxt + win <= RECV_BUF_SIZE + t.recv_buf_head + 1 - t.ooo_bytes
      /\ t.rcv_nxt + win > RECV_BUF_SIZE + t.recv_buf_head + 1 - t.ooo_bytes - WIN_UNIT
  BY <1>1, <1>2, <1>3, <1>5, <1>6
<1>8. t.adv.ack + t.adv.win = t.rcv_nxt + win
  BY <1>4
<1> QED
  BY <1>7, <1>8

\* Every step of the receive half keeps the invariant.
LEMMA StepInv == RecvInv /\ [Next]_vars => RecvInv'
<1> SUFFICES ASSUME RecvInv, [Next]_vars PROVE RecvInv'
  OBVIOUS
<1> DEFINE head  == r.recv_buf_head
           head2 == r'.recv_buf_head
<1>1. Settled(r) /\ TrueHalf(r) /\ delivered = Stream(1, head) /\ WindowReopens
      /\ r.adv.ack + r.adv.win <= RECV_BUF_SIZE + head + 1
  BY DEF RecvInv
<1>2. head \in Nat /\ r.adv.ack \in Nat /\ r.adv.win \in Nat /\ RECV_BUF_SIZE \in Nat
  BY <1>1, HalfFields, RecvAssumption DEF Settled, GoodHalf
<1>3. delivered \in Seq(Nat)
  <2> HIDE DEF head
  <2>1. 1 \in Nat \ {0}
    OBVIOUS
  <2> QED
    BY <1>1, <1>2, <2>1, StreamType
<1>4. PICK bytes : StepOf(r, r', bytes) /\ delivered' = delivered \o bytes
  BY <1>1, <1>3, StepKinds
<1>5. /\ Settled(r') /\ TrueHalf(r') /\ head <= head2
      /\ bytes = [k \in 1 .. head2 - head |-> head + k]
      /\ Stamped(r') \/ r'.adv = r.adv
      /\ Stamped(r') \/ r' = r \/ buffered(r') > 0 \/ ~(free_space(r') >= sws_threshold)
  BY <1>1, <1>4 DEF StepOf
<1>6. GoodHalf(r') /\ head2 \in Nat
  BY <1>5, HalfFields DEF Settled, GoodHalf
<1>7. delivered' = Stream(1, head2)
  <2> DEFINE n == head2 - head
  <2>1. n \in Nat /\ head + n = head2
    BY <1>2, <1>5, <1>6
  <2>2. delivered' = Stream(1, head) \o [k \in 1 .. n |-> head + k]
    BY <1>1, <1>4, <1>5
  <2> HIDE DEF n, head, head2
  <2> QED
    BY <1>2, <2>1, <2>2, StreamConcat
<1>8. WindowReopens'
  <2>1. CASE Stamped(r')
    BY <2>1 DEF Stamped, WindowReopens
  <2>2. CASE r' = r
    <3>1. delivered' = delivered
      BY <1>1, <1>7, <2>2
    <3> QED
      BY <1>1, <2>2, <3>1 DEF WindowReopens
  <2>3. CASE buffered(r') > 0
    <3>1. buffered(r') # 0
      BY <2>3
    <3> QED
      BY <3>1 DEF WindowReopens
  <2>4. CASE ~(free_space(r') >= sws_threshold)
    BY <2>4 DEF WindowReopens
  <2> QED
    BY <1>5, <2>1, <2>2, <2>3, <2>4
<1>9. r'.adv.ack + r'.adv.win <= RECV_BUF_SIZE + head2 + 1
  <2>1. CASE Stamped(r')
    <3>1. PICK edge \in Nat : /\ edge = r'.adv.ack + r'.adv.win
                              /\ edge <= RECV_BUF_SIZE + head2 + 1 - r'.ooo_bytes
      BY <1>6, <2>1, StampedEdge
    <3>2. r'.ooo_bytes \in Nat
      BY <1>6, HalfFields DEF GoodHalf
    <3> HIDE DEF head2
    <3>3. edge <= RECV_BUF_SIZE + head2 + 1
      BY <1>2, <1>6, <3>1, <3>2
    <3> QED
      BY <3>1, <3>3
  <2>2. CASE r'.adv = r.adv
    <3> DEFINE edge == r.adv.ack + r.adv.win
    <3>1. edge \in Nat /\ r'.adv.ack + r'.adv.win = edge
      BY <1>2, <2>2
    <3>2. edge <= RECV_BUF_SIZE + head + 1
      BY <1>1
    <3>3. head \in Nat /\ head2 \in Nat /\ head <= head2 /\ RECV_BUF_SIZE \in Nat
      BY <1>2, <1>5, <1>6
    <3> HIDE DEF edge, head, head2
    <3>4. edge <= RECV_BUF_SIZE + head2 + 1
      BY <3>1, <3>2, <3>3
    <3> QED
      BY <3>1, <3>4
  <2> QED
    BY <1>5, <2>1, <2>2
<1> QED
  BY <1>5, <1>7, <1>8, <1>9 DEF RecvInv

\* The inductive invariant of the receive half holds in every reachable state.
THEOREM RecvInvariance == Spec => []RecvInv
<1>1. Init => RecvInv
  BY InitInv
<1>2. RecvInv /\ [Next]_vars => RecvInv'
  BY StepInv
<1> QED
  BY <1>1, <1>2, PTL DEF Spec

\* TypeOK: the fields of the receive half keep their ranges; in particular the
\* unsigned ooo_bytes never goes below zero.
THEOREM ReceiverTypes == Spec => []TypeOK
<1>1. RecvInv => TypeOK
  <2> SUFFICES ASSUME RecvInv PROVE TypeOK
    OBVIOUS
  <2>1. r \in RecvHalves /\ delivered = Stream(1, r.recv_buf_head)
    BY DEF RecvInv, Settled, GoodHalf
  <2>2. 1 \in Nat \ {0} /\ r.recv_buf_head \in Nat
    BY <2>1, HalfFields
  <2>3. delivered \in Seq(Nat)
    BY <2>1, <2>2, StreamType
  <2> QED
    BY <2>1, <2>3 DEF TypeOK
<1> QED
  BY <1>1, RecvInvariance, PTL

\* QueueDisjoint: insert_ooo_segment and drain_ooo_queue never leave an empty
\* entry, two overlapping ones, or one that rcv_nxt has reached.
THEOREM QueueStaysDisjoint == Spec => []QueueDisjoint
<1>1. RecvInv => QueueDisjoint
  <2> SUFFICES ASSUME RecvInv PROVE QueueDisjoint
    OBVIOUS
  <2>1. Sound(r.ooo) /\ Ahead(r)
    BY DEF RecvInv, Settled, GoodHalf
  <2>2. ASSUME NEW e \in r.ooo PROVE e.data # <<>>
    <3>1. e \in Entries /\ e.seq < EndOf(e)
      BY <2>1 DEF Sound
    <3>2. e.seq \in Nat /\ EndOf(e) = e.seq + Len(e.data)
      BY <3>1, EntryBounds
    <3>3. Len(e.data) # 0
      BY <3>1, <3>2
    <3> QED
      BY <3>3
  <2> QED
    BY <2>1, <2>2 DEF QueueDisjoint, Sound, Disjoint, Ahead
<1> QED
  BY <1>1, RecvInvariance, PTL

\* OooAccounting: ooo_bytes is the number of queued bytes whatever sequence of
\* segments, absorptions, trims and drains led there.
THEOREM AccountingExact == Spec => []OooAccounting
<1>1. RecvInv => OooAccounting
  BY DEF RecvInv, Settled, GoodHalf, OooAccounting
<1> QED
  BY <1>1, RecvInvariance, PTL

\* Capacity: recv_buf and the queue together never exceed RECV_BUF_SIZE, so
\* no unread byte is overwritten and the free space never wraps around.
THEOREM CapacityKept == Spec => []Capacity
<1>1. RecvInv => Capacity
  <2> SUFFICES ASSUME RecvInv PROVE Capacity
    OBVIOUS
  <2>1. GoodHalf(r)
    BY DEF RecvInv, Settled
  <2>2. r.recv_buf_head \in Nat /\ r.recv_buf_tail \in Nat
    BY <2>1, HalfFields DEF GoodHalf
  <2> QED
    BY <2>1, <2>2 DEF GoodHalf, Capacity, buffered
<1> QED
  BY <1>1, RecvInvariance, PTL

\* AckOwed: bytes that no segment has acknowledged have a delayed ACK whose
\* timer runs; a forced ACK never outlives the step that asked for it.
THEOREM AckNotForgotten == Spec => []AckOwed
<1>1. RecvInv => AckOwed
  BY DEF RecvInv, Settled, Owed, AckOwed
<1> QED
  BY <1>1, RecvInvariance, PTL

\* PromiseKept: the bytes missing below the announced edge have room beside
\* what is buffered and what is queued behind them, unless the peer itself sent
\* beyond that edge.  The queued bytes then all lie between rcv_nxt and the
\* edge, and the whole stretch fits into the ring behind what was read.
THEOREM PromisesKept == Spec => []PromiseKept
<1>1. RecvInv => PromiseKept
  <2> SUFFICES ASSUME RecvInv, \A e \in r.ooo : EndOf(e) <= r.edge
               PROVE  Cardinality(missing) <= free_space(r)
    BY DEF PromiseKept
  <2> DEFINE B == Bytes(r.ooo)
             W == r.rcv_nxt .. r.edge - 1
  <2>1. GoodHalf(r) /\ Ahead(r)
    BY DEF RecvInv, Settled
  <2>2. /\ r.rcv_nxt \in Nat /\ r.recv_buf_head \in Nat /\ r.recv_buf_tail \in Nat
        /\ r.ooo_bytes \in Nat /\ r.edge \in Nat /\ RECV_BUF_SIZE \in Nat
    BY <2>1, HalfFields, RecvAssumption DEF GoodHalf
  <2>3. /\ r.recv_buf_tail = r.rcv_nxt - 1 /\ r.edge <= RECV_BUF_SIZE + r.recv_buf_head + 1
        /\ r.ooo_bytes = Cardinality(B) /\ Sound(r.ooo)
    BY <2>1 DEF GoodHalf, B
  <2>4. B \subseteq W
    <3> SUFFICES ASSUME NEW e \in r.ooo, NEW n \in Span(e) PROVE n \in W
      BY DEF Bytes, B
    <3>1. e \in Entries /\ e.seq > r.rcv_nxt /\ EndOf(e) <= r.edge
      BY <2>1, <2>3 DEF Sound, Ahead
    <3>2. e.seq \in Nat /\ EndOf(e) \in Nat
      BY <3>1, EntryBounds
    <3> QED
      BY <2>2, <3>1, <3>2, EntryBounds DEF W
  <2>5. /\ IsFiniteSet(W)
        /\ Cardinality(W) = IF r.rcv_nxt > r.edge - 1 THEN 0 ELSE r.edge - 1 - r.rcv_nxt + 1
    <3>1. r.rcv_nxt \in Int /\ r.edge - 1 \in Int
      BY <2>2
    <3> QED
      BY <3>1, FS_Interval
  <2> HIDE DEF B, W
  <2>6. /\ Cardinality(W \ B) = Cardinality(W) - Cardinality(B)
        /\ Cardinality(B) <= Cardinality(W) /\ Cardinality(B) \in Nat
    BY <2>4, <2>5, RemoveBytes
  <2>7. r.edge <= r.rcv_nxt => Cardinality(B) = 0
    BY <2>2, <2>3, <2>5, <2>6
  <2>8. Cardinality(W \ B)
          <= RECV_BUF_SIZE - (r.recv_buf_tail - r.recv_buf_head) - r.ooo_bytes
    <3>1. CASE r.edge > r.rcv_nxt
      BY <2>2, <2>3, <2>5, <2>6, <3>1
    <3>2. CASE r.edge <= r.rcv_nxt
      <4>1. buffered(r) + r.ooo_bytes <= RECV_BUF_SIZE
        BY <2>1 DEF GoodHalf, buffered
      <4> QED
        BY <2>2, <2>3, <2>5, <2>6, <2>7, <3>2, <4>1 DEF buffered
    <3> QED
      BY <2>2, <3>1, <3>2
  <2> QED
    BY <2>8 DEF missing, free_space, buffered, B, W
<1> QED
  BY <1>1, RecvInvariance, PTL

\* StreamIntegrity: whatever order, overlap and repetition the segments came
\* in, the bytes read and the bytes waiting in the ring are the peer's stream up
\* to rcv_nxt, and every queued entry holds the bytes its number names.
THEOREM StreamIntact == Spec => []StreamIntegrity
<1>1. RecvInv => StreamIntegrity
  <2> SUFFICES ASSUME RecvInv PROVE StreamIntegrity
    OBVIOUS
  <2> DEFINE buf  == r.recv_buf
             head == r.recv_buf_head
             tail == r.recv_buf_tail
             n    == buffered(r)
  <2>1. GoodHalf(r) /\ TrueHalf(r) /\ delivered = Stream(1, head)
    BY DEF RecvInv, Settled
  <2>2. /\ buf \in [0 .. RECV_BUF_SIZE - 1 -> Nat] /\ head \in Nat /\ tail \in Nat
        /\ r.ooo_bytes \in Nat /\ r.rcv_nxt \in Nat /\ RECV_BUF_SIZE \in Nat \ {0}
    BY <2>1, HalfFields, RecvAssumption DEF GoodHalf
  <2>3. /\ head <= tail /\ tail - head + r.ooo_bytes <= RECV_BUF_SIZE
        /\ tail = r.rcv_nxt - 1
    BY <2>1 DEF GoodHalf
  <2>4. n = tail - head
    BY DEF buffered
  <2>5. Holds(buf, RECV_BUF_SIZE, head, tail) /\ TrueQueue(r.ooo)
    BY <2>1 DEF TrueHalf
  <2> DEFINE o == r.ooo_bytes
             x == r.rcv_nxt
  <2>6. /\ head \in Nat /\ tail \in Nat /\ o \in Nat /\ x \in Nat /\ RECV_BUF_SIZE \in Nat
        /\ head <= tail /\ tail - head + o <= RECV_BUF_SIZE /\ tail = x - 1
    BY <2>2, <2>3
  <2> HIDE DEF buf, head, tail, n, o, x
  <2>7. n \in Nat /\ n <= RECV_BUF_SIZE /\ head <= head /\ head + n <= tail /\ head + n = x - 1
    BY <2>4, <2>6
  <2>8. ring_buf_read(buf, RECV_BUF_SIZE, head, n) = [k \in 1 .. n |-> head + k]
    <3>1. RECV_BUF_SIZE \in Nat \ {0} /\ buf \in [0 .. RECV_BUF_SIZE - 1 -> Nat]
      BY <2>2
    <3>2. /\ head \in Nat /\ tail \in Nat /\ n \in Nat
          /\ n <= RECV_BUF_SIZE /\ head <= head /\ head + n <= tail
      BY <2>7, <2>6
    <3>3. Holds(buf, RECV_BUF_SIZE, head, tail)
      BY <2>5
    <3> QED
      BY <3>1, <3>2, <3>3, ReadHolds
  <2>9. delivered \o ring_buf_read(buf, RECV_BUF_SIZE, head, n) = Stream(1, x - 1)
    BY <2>1, <2>7, <2>8, <2>6, StreamConcat
  <2> QED
    BY <2>5, <2>9 DEF StreamIntegrity, TrueQueue, buf, head, n, x
<1> QED
  BY <1>1, RecvInvariance, PTL

\* WindowReopens: a reader that has emptied the buffer has announced the space,
\* whichever segments, reads and timer expiries came in between.
THEOREM WindowAnnounced == Spec => []WindowReopens
<1>1. RecvInv => WindowReopens
  BY DEF RecvInv
<1> QED
  BY <1>1, RecvInvariance, PTL

\* WindowNotRetracted: the edge that a segment announces falls behind an earlier
\* one at most by the bytes queued since and the rounding of one unit.
THEOREM WindowHeld == Spec => WindowNotRetracted
<1> DEFINE A == r'.adv.ack + r'.adv.win + r'.ooo_bytes > r.adv.ack + r.adv.win - WIN_UNIT
<1>1. ASSUME RecvInv, RecvInv', [Next]_vars PROVE A \/ UNCHANGED vars
  <2>1. GoodHalf(r) /\ GoodHalf(r') /\ Settled(r)
    BY <1>1 DEF RecvInv, Settled
  <2>2. /\ r.recv_buf_head \in Nat /\ r.adv.ack \in Nat /\ r.adv.win \in Nat
        /\ RECV_BUF_SIZE \in Nat /\ WIN_UNIT \in Nat \ {0}
        /\ r'.recv_buf_head \in Nat /\ r'.ooo_bytes \in Nat
    BY <2>1, HalfFields, RecvAssumption DEF GoodHalf
  <2>3. r.adv.ack + r.adv.win <= RECV_BUF_SIZE + r.recv_buf_head + 1
    BY <1>1 DEF RecvInv
  <2>4. delivered \in Seq(Nat)
    <3>1. delivered = Stream(1, r.recv_buf_head) /\ 1 \in Nat \ {0}
      BY <1>1 DEF RecvInv
    <3> QED
      BY <2>2, <3>1, StreamType
  <2>5. (Stamped(r') \/ r'.adv = r.adv) /\ r.recv_buf_head <= r'.recv_buf_head
    BY <1>1, <2>1, <2>4, StepKinds DEF StepOf
  <2>6. CASE Stamped(r')
    <3>1. PICK edge \in Nat :
            /\ edge = r'.adv.ack + r'.adv.win
            /\ edge > RECV_BUF_SIZE + r'.recv_buf_head + 1 - r'.ooo_bytes - WIN_UNIT
      BY <2>1, <2>6, StampedEdge
    <3>2. edge + r'.ooo_bytes > r.adv.ack + r.adv.win - WIN_UNIT
      BY <2>2, <2>3, <2>5, <3>1
    <3> QED
      BY <3>1, <3>2
  <2>7. CASE r'.adv = r.adv
    BY <2>2, <2>7
  <2> QED
    BY <2>5, <2>6, <2>7
<1>2. RecvInv /\ RecvInv' /\ [Next]_vars => [A]_vars
  BY <1>1
<1>3. Spec => [][A]_vars
  BY <1>2, RecvInvariance, PTL DEF Spec
<1> QED
  BY <1>3 DEF WindowNotRetracted

\* QueueKeepsEnds: no insertion, trim or drain loses the last byte of a queued
\* entry before rcv_nxt has passed it.
THEOREM EndsKept == Spec => QueueKeepsEnds
<1> DEFINE A == \A e \in r.ooo : EndOf(e) - 1 \in Bytes(r'.ooo) \/ EndOf(e) <= r'.rcv_nxt
<1>1. ASSUME RecvInv, [Next]_vars PROVE A
  <2>1. Settled(r) /\ delivered = Stream(1, r.recv_buf_head)
    BY <1>1 DEF RecvInv
  <2>2. r.recv_buf_head \in Nat /\ 1 \in Nat \ {0}
    BY <2>1, HalfFields DEF Settled, GoodHalf
  <2>3. delivered \in Seq(Nat)
    BY <2>1, <2>2, StreamType
  <2>4. KeepsEnds(r.ooo, r'.ooo, r'.rcv_nxt)
    BY <1>1, <2>1, <2>3, StepKinds DEF StepOf
  <2> QED
    BY <2>4 DEF KeepsEnds
<1>2. RecvInv /\ [Next]_vars => [A]_vars
  BY <1>1
<1>3. Spec => [][A]_vars
  BY <1>2, RecvInvariance, PTL DEF Spec
<1> QED
  BY <1>3 DEF QueueKeepsEnds
=============================================================================
