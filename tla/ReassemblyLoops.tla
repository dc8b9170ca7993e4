--------------------------- MODULE ReassemblyLoops ---------------------------
(***************************************************************************)
(* The reassembly queue as the code keeps it: a linked list, walked entry  *)
(* by entry by insert_ooo_segment and drain_ooo_queue, with sequence       *)
(* numbers of 32 bits.  A walk is a part of handle_received_data, which    *)
(* holds the TCB lock: no other step happens before it ends, and r keeps   *)
(* its value from before.  Module Receiver, where the queue is a set and   *)
(* numbers are unbounded, is what this implements.                         *)
(***************************************************************************)
EXTENDS Receiver, SequenceNumbers

\* The real sizes are 2^20 and 2^32.
ASSUME WidthAssumption == RECV_BUF_SIZE <= HALF /\ (2 * HALF) % RECV_BUF_SIZE = 0

VARIABLES
  ooo_head,  \* the list: a sequence of entries
  walk       \* pc; seg: the segment being handled; prev: the entries passed;
             \* cur: those from cur (in the drain: ooo_head) on; half: the
             \* fields of the TCB as changed so far, the queue excepted

loop_vars == <<r, delivered, ooo_head, walk>>

Idle == [pc |-> "idle"]

LoopInit == Init /\ ooo_head = <<>> /\ walk = Idle

\* A segment that is neither older nor further ahead than half the number
\* space: the window and the lifetime of datagrams see to that.
Near(s) == s.seq + HALF > r.rcv_nxt /\ s.seq + s.len <= r.rcv_nxt + HALF

\* What the segment brings, as an entry.
new == [seq |-> walk.seg.seq, data |-> Stream(walk.seg.seq, walk.seg.len)]

\* Whichever branch leaves the queue alone; an out-of-order segment that finds
\* no space or no memory does.
NoWalk ==
  /\ walk = Idle
  /\ \/ \E s \in Segments, has_data \in BOOLEAN :
          Near(s) /\ (RecvDuplicate(s, has_data) \/ RecvOutOfOrder(s, FALSE, has_data))
     \/ \E s \in Segments : Near(s) /\ RecvNoSpace(s)
     \/ AppRead \/ Delack \/ SendData \/ Retransmit
  /\ UNCHANGED <<ooo_head, walk>>

-----------------------------------------------------------------------------
\* insert_ooo_segment

BeginInsert(s) ==
  /\ walk = Idle /\ Near(s)
  /\ s.seq > r.rcv_nxt /\ fits(r, Stream(s.seq, s.len))
  /\ walk' = [pc |-> "skip", seg |-> s, prev |-> <<>>, cur |-> ooo_head, half |-> r]
  /\ UNCHANGED <<vars, ooo_head>>

\* The entry ends before the new one starts.
ends_before(e) == SEQ_LEQ(EndOf(e), new.seq)

\* First loop, one iteration.
Skip ==
  /\ walk.pc = "skip" /\ walk.cur # <<>> /\ ends_before(Head(walk.cur))
  /\ walk' = [walk EXCEPT !.prev = Append(@, Head(walk.cur)), !.cur = Tail(@)]
  /\ UNCHANGED <<vars, ooo_head>>

\* Its end.  What the code then trims from the front of the new segment is
\* nothing: the entry before it ends before it.
Skipped ==
  /\ walk.pc = "skip"
  /\ walk.cur # <<>> => ~ends_before(Head(walk.cur))
  /\ walk' = [walk EXCEPT !.pc = "absorb"]
  /\ UNCHANGED <<vars, ooo_head>>

overlapped(e) == SEQ_LT(e.seq, EndOf(new))

\* Entry e without its first n bytes.
cut(e, n) == [seq |-> e.seq + n, data |-> SubSeq(e.data, n + 1, Len(e.data))]

\* Second loop, one iteration: the entry is freed, or loses its front.  In the
\* second case the loop is left; the entry now starts where the new one ends.
Absorb ==
  /\ walk.pc = "absorb" /\ walk.cur # <<>> /\ overlapped(Head(walk.cur))
  /\ LET e       == Head(walk.cur)
         overlap == minus(EndOf(new), e.seq)
     IN  walk' = IF SEQ_LEQ(EndOf(e), EndOf(new))
                   THEN [walk EXCEPT !.cur = Tail(@), !.half.ooo_bytes = @ - Len(e.data)]
                   ELSE [walk EXCEPT !.cur = <<cut(e, overlap)>> \o Tail(@),
                                     !.half.ooo_bytes = @ - overlap]
  /\ UNCHANGED <<vars, ooo_head>>

entries(l) == {l[i] : i \in DOMAIN l}

\* Fault: the new entry is linked in at the front.
linked_first == <<new>> \o walk.prev \o walk.cur

\* Fault: what follows the new entry is not linked to it.
linked_alone == walk.prev \o <<new>>

linked == walk.prev \o <<new>> \o walk.cur

\* The new entry is linked in, and the handler ends with its duplicate ACK.
Link(has_data) ==
  /\ walk.pc = "absorb"
  /\ walk.cur # <<>> => ~overlapped(Head(walk.cur))
  /\ ooo_head' = linked
  /\ r' = utcp_output(force_ack([walk.half EXCEPT !.ooo = entries(linked),
                                                  !.ooo_bytes = @ + Len(new.data)]), has_data)
  /\ walk' = Idle
  /\ UNCHANGED delivered

-----------------------------------------------------------------------------
\* The in-order branch with drain_ooo_queue

\* data put into recv_buf behind what it holds.
stored(t, data) ==
  [t EXCEPT !.recv_buf = ring_buf_write(@, RECV_BUF_SIZE, uint32(t.recv_buf_tail), data),
            !.recv_buf_tail = @ + Len(data),
            !.rcv_nxt       = @ + Len(data)]

BeginDrain(s) ==
  LET data == fresh(r, s.seq, Stream(s.seq, s.len))
  IN  /\ walk = Idle /\ Near(s)
      /\ s.seq <= r.rcv_nxt /\ r.rcv_nxt < s.seq + s.len /\ fits(r, data)
      /\ walk' = [pc |-> "drain", seg |-> s, prev |-> <<>>, cur |-> ooo_head,
                  half |-> stored(r, data)]
      /\ UNCHANGED <<vars, ooo_head>>

redundant(e) == SEQ_LEQ(EndOf(e), walk.half.rcv_nxt)

\* Fault: the bytes of a redundant entry stay counted.
DrainRedundant_counted ==
  /\ walk.pc = "drain" /\ walk.cur # <<>> /\ redundant(Head(walk.cur))
  /\ walk' = [walk EXCEPT !.cur = Tail(@)]
  /\ UNCHANGED <<vars, ooo_head>>

\* Case 1: all of the entry was received already.
DrainRedundant ==
  /\ walk.pc = "drain" /\ walk.cur # <<>> /\ redundant(Head(walk.cur))
  /\ walk' = [walk EXCEPT !.cur = Tail(@), !.half.ooo_bytes = @ - Len(Head(walk.cur).data)]
  /\ UNCHANGED <<vars, ooo_head>>

\* Fault: the received front of an entry is not cut off.
trim_none(e) == 0

\* Case 2: bytes of it that were received already.
trim(e) == IF SEQ_LT(e.seq, walk.half.rcv_nxt) THEN minus(walk.half.rcv_nxt, e.seq) ELSE 0

\* Case 3: what is left of it comes next, and recv_buf has room for it.
continues(e) ==
  LET t == walk.half
      f == cut(e, trim(e))
  IN  /\ uint32(f.seq) = uint32(t.rcv_nxt)
      /\ Len(f.data) <= RECV_BUF_SIZE - minus(t.recv_buf_tail, t.recv_buf_head)

DrainNext ==
  /\ walk.pc = "drain" /\ walk.cur # <<>>
  /\ ~redundant(Head(walk.cur)) /\ continues(Head(walk.cur))
  /\ LET e == Head(walk.cur)
         t == stored(walk.half, cut(e, trim(e)).data)
     IN  walk' = [walk EXCEPT !.cur = Tail(@),
                              !.half = [t EXCEPT !.ooo_bytes = @ - Len(e.data)]]
  /\ UNCHANGED <<vars, ooo_head>>

\* The loop ends at a gap or with the list.
drained ==
  walk.cur # <<>> => ~redundant(Head(walk.cur)) /\ ~continues(Head(walk.cur))

\* The list it leaves; an entry that was trimmed may stay.
rest == IF walk.cur = <<>> THEN <<>>
        ELSE <<cut(Head(walk.cur), trim(Head(walk.cur)))>> \o Tail(walk.cur)

\* The handler's decision when to acknowledge, and its output.
EndDrain(dupacks, has_data) ==
  /\ walk.pc = "drain" /\ drained
  /\ LET cut_off == IF walk.cur = <<>> THEN 0 ELSE trim(Head(walk.cur))
         t       == [walk.half EXCEPT !.ooo = entries(rest), !.ooo_bytes = @ - cut_off]
     IN  r' = utcp_output(ack_policy(t, t.rcv_nxt # walk.seg.seq + walk.seg.len, dupacks),
                          has_data)
  /\ ooo_head' = rest /\ walk' = Idle
  /\ UNCHANGED delivered

-----------------------------------------------------------------------------
LoopNext ==
  \/ NoWalk
  \/ \E s \in Segments : BeginInsert(s) \/ BeginDrain(s)
  \/ Skip \/ Skipped \/ Absorb
  \/ \E has_data \in BOOLEAN : Link(has_data)
  \/ DrainRedundant \/ DrainNext
  \/ \E dupacks, has_data \in BOOLEAN : EndDrain(dupacks, has_data)

LoopSpec == LoopInit /\ [][LoopNext]_loop_vars

LoopDelack == walk = Idle /\ Delack /\ UNCHANGED <<ooo_head, walk>>

\* A handler that has begun goes on, and the ticker as in Receiver.
LoopFairness == WF_loop_vars(walk # Idle /\ LoopNext) /\ WF_loop_vars(LoopDelack)

FairLoopSpec == LoopSpec /\ LoopFairness

-----------------------------------------------------------------------------
\* Comment of insert_ooo_segment: the queue is kept sorted and never holds
\* redundant data.  The list is in ascending order, without overlaps, empty
\* entries or bytes that rcv_nxt has passed, after any sequence of skipping,
\* absorbing, cutting and draining, also across the wrap of the numbers.
ListSorted ==
  /\ entries(ooo_head) = r.ooo
  /\ \A e \in r.ooo : e.data # <<>> /\ e.seq > r.rcv_nxt
  /\ \A i, j \in DOMAIN ooo_head : i < j => EndOf(ooo_head[i]) <= ooo_head[j].seq

\* handle_received_data compares sequence numbers of 32 bits and subtracts
\* stored positions of the ring, and chooses the branch that the true numbers
\* call for.
BranchAgrees ==
  /\ \A s \in Segments : Near(s) =>
       /\ SEQ_LT(s.seq, r.rcv_nxt) <=> s.seq < r.rcv_nxt
       /\ s.seq < r.rcv_nxt => minus(r.rcv_nxt, s.seq) = duplicate_bytes(r, s.seq)
       /\ uint32(s.seq) = uint32(r.rcv_nxt) <=> s.seq = r.rcv_nxt
  /\ RECV_BUF_SIZE - minus(r.recv_buf_tail, r.recv_buf_head) - r.ooo_bytes = free_space(r)

\* Refinement: each walk over the list, from the lock to its end, is one step
\* of Receiver: insert_ooo_segment and drain_ooo_queue do to the list what the
\* set operations of RecvPath do to the queue, with the same ooo_bytes, ring
\* and rcv_nxt, for streams that are longer than the number space.
ImplementsReceiver == Init /\ [][Next]_vars
=============================================================================
