------------------------------ MODULE RecvPath ------------------------------
(***************************************************************************)
(* The receive half of a TCB as pure operators: what handle_received_data  *)
(* does with a payload, the out-of-order reassembly queue, utcp_read, and  *)
(* what the acknowledgement fields of an outgoing segment say.             *)
(*                                                                         *)
(* A receive half r is a record holding                                    *)
(*   rcv_nxt                      next sequence number expected            *)
(*   recv_buf, recv_buf_head/tail the ring and its stream positions        *)
(*   ooo, ooo_bytes               the reassembly queue and its byte count  *)
(*   t_flags                      subset of {"TF_ACKNOW", "TF_DELACK"}     *)
(*   delack                       t_timer[TCPT_DELACK] # 0                 *)
(*   adv                          th_ack and window of the last segment    *)
(*                                sent (history, not a field of the code)  *)
(*   edge                         largest th_ack + window ever sent        *)
(*                                (history)                                *)
(*                                                                         *)
(* The queue's linked list is sorted and its entries are disjoint          *)
(* (QueueDisjoint of module Receiver), so it is the set of its entries     *)
(* here; module ReassemblyLoops has the two list walks of the code and     *)
(* shows that they implement the set operations below.                     *)
(***************************************************************************)
EXTENDS RingBuffer, FiniteSets, FiniteSetsExt

CONSTANTS
  RECV_BUF_SIZE,  \* bytes in recv_buf
  MSS,            \* largest payload of a segment
  WIN_UNIT        \* 2^rcv_scale: granularity of an advertised window

ASSUME RecvAssumption == /\ RECV_BUF_SIZE \in Nat \ {0}
                         /\ MSS \in Nat \ {0}
                         /\ WIN_UNIT \in Nat \ {0}

\* A queue entry is [seq, data]; EndOf is exclusive.
EndOf(e) == e.seq + Len(e.data)
Span(e)  == e.seq .. EndOf(e) - 1

\* The sequence numbers a queue holds.
Bytes(q) == UNION {Span(e) : e \in q}

\* Entry e without its bytes below seq.
TrimFront(e, seq) ==
  [seq  |-> seq, data |-> SubSeq(e.data, seq - e.seq + 1, Len(e.data))]

buffered(r) == r.recv_buf_tail - r.recv_buf_head

\* What neither in-order nor out-of-order bytes occupy.
free_space(r) == RECV_BUF_SIZE - buffered(r) - r.ooo_bytes

\* Fault: the window is rounded up to the next unit.
scaled_win_up(r) == ((free_space(r) + WIN_UNIT - 1) \div WIN_UNIT) * WIN_UNIT

\* The window the peer decodes: th_win is shifted right here, left there.
scaled_win(r) == (free_space(r) \div WIN_UNIT) * WIN_UNIT

-----------------------------------------------------------------------------
\* Acknowledgement fields of outgoing segments

\* Fault: less than a full segment of free space is announced as none.
utcp_send_segment_closed(r) ==
  LET win == IF free_space(r) < MSS THEN 0 ELSE scaled_win(r)
  IN  [r EXCEPT !.adv  = [ack |-> r.rcv_nxt, win |-> win],
                !.edge = Max({@, r.rcv_nxt + win})]

\* utcp_send_segment stamps rcv_nxt and the free space on whatever it sends.
utcp_send_segment(r) ==
  LET win == scaled_win(r)
  IN  [r EXCEPT !.adv  = [ack |-> r.rcv_nxt, win |-> win],
                !.edge = Max({@, r.rcv_nxt + win})]

\* utcp_output in ESTABLISHED, receive side: a segment leaves when an ACK is
\* forced or the send side has data for it (has_data), and any segment that
\* leaves carries the ACK and cancels the delayed one.
utcp_output(r, has_data) ==
  IF "TF_ACKNOW" \in r.t_flags \/ has_data
    THEN utcp_send_segment([r EXCEPT !.t_flags = {}, !.delack = FALSE])
    ELSE r

-----------------------------------------------------------------------------
\* The reassembly queue

\* Entries that end inside [seq, end_seq), also those that begin before it.
covered(q, seq, end_seq) == {e \in q : EndOf(e) > seq /\ EndOf(e) <= end_seq}

\* The entry that reaches past end_seq from before it.
straddling(q, end_seq) == {e \in q : e.seq < end_seq /\ EndOf(e) > end_seq}

\* Bytes released when [seq, end_seq) is inserted.
freed_bytes(q, seq, end_seq) ==
  Cardinality(Bytes(covered(q, seq, end_seq))
                \cup {n \in Bytes(straddling(q, end_seq)) : n < end_seq})

\* A segment past rcv_nxt enters the queue unless it does not fit or malloc
\* fails (alloc is FALSE).  Every entry that ends inside the new one is
\* freed, the one that reaches past its end loses what lies before that end.
insert_ooo_segment(r, seq, data, alloc) ==
  LET end_seq == seq + Len(data)
      over    == straddling(r.ooo, end_seq)
  IN  IF Len(data) > free_space(r) \/ ~alloc
        THEN r
        ELSE [r EXCEPT !.ooo = ((@ \ covered(@, seq, end_seq)) \ over)
                                 \cup {TrimFront(e, end_seq) : e \in over}
                                 \cup {[seq |-> seq, data |-> data]},
                       !.ooo_bytes = @ - freed_bytes(r.ooo, seq, end_seq) + Len(data)]

\* The entry holding byte n.
Holder(q, n) == CHOOSE e \in q : n \in Span(e)

\* rcv_nxt after the drain: the end of the last entry that the bytes in the
\* queue reach without a gap and that recv_buf has room for.
drained_to(r) ==
  LET room    == RECV_BUF_SIZE - buffered(r)
      reached == {e \in r.ooo : /\ EndOf(e) > r.rcv_nxt
                                /\ r.rcv_nxt .. EndOf(e) - 1 \subseteq Bytes(r.ooo)
                                /\ EndOf(e) - r.rcv_nxt <= room}
  IN  Max({r.rcv_nxt} \cup {EndOf(e) : e \in reached})

\* Entries now below rcv_nxt are freed, the one across it is trimmed, and the
\* entries that continue the stream are moved into recv_buf.
drain_ooo_queue(r) ==
  LET nxt  == drained_to(r)
      keep == {e \in r.ooo : EndOf(e) > nxt}
      run  == [k \in 1 .. nxt - r.rcv_nxt |->
                 LET n == r.rcv_nxt + k - 1
                     e == Holder(r.ooo, n)
                 IN  e.data[n - e.seq + 1]]
  IN  [r EXCEPT !.recv_buf      = ring_buf_write(@, RECV_BUF_SIZE, r.recv_buf_tail, run),
                !.recv_buf_tail = @ + Len(run),
                !.rcv_nxt       = nxt,
                !.ooo           = {IF e.seq < nxt THEN TrimFront(e, nxt) ELSE e : e \in keep},
                !.ooo_bytes     = @ - Cardinality({n \in Bytes(r.ooo) : n < nxt})]

-----------------------------------------------------------------------------
\* The payload branches of handle_received_data

\* Bytes of data (first byte seq) that rcv_nxt is already past.
duplicate_bytes(r, seq) == IF seq < r.rcv_nxt THEN r.rcv_nxt - seq ELSE 0

\* The payload without them.
fresh(r, seq, data) == SubSeq(data, duplicate_bytes(r, seq) + 1, Len(data))

\* Fault: the delayed ACK is noted but its timer is never started.
ack_policy_unarmed(r, gap_filled, dupacks) ==
  IF gap_filled \/ dupacks \/ "TF_DELACK" \in r.t_flags
    THEN [r EXCEPT !.t_flags = {"TF_ACKNOW"}, !.delack = FALSE]
    ELSE [r EXCEPT !.t_flags = @ \cup {"TF_DELACK"}]

\* Acknowledge at once when a gap was filled, while duplicate ACKs are coming
\* in (dupacks: t_dupacks > 0), or on the second segment; else delay.
ack_policy(r, gap_filled, dupacks) ==
  IF gap_filled \/ dupacks \/ "TF_DELACK" \in r.t_flags
    THEN [r EXCEPT !.t_flags = (@ \ {"TF_DELACK"}) \cup {"TF_ACKNOW"}, !.delack = FALSE]
    ELSE [r EXCEPT !.t_flags = @ \cup {"TF_DELACK"}, !.delack = TRUE]

\* Fault: the in-order payload may also use the space reserved for the queue.
fits_ignoring_ooo(r, data) == Len(data) <= RECV_BUF_SIZE - buffered(r)

\* An in-order payload is taken only if it leaves room for the queue.
fits(r, data) == Len(data) <= free_space(r)

\* In-order payload into recv_buf, then whatever it made contiguous.
accept_in_order(r, data, dupacks) ==
  LET written == [r EXCEPT !.recv_buf = ring_buf_write(@, RECV_BUF_SIZE, r.recv_buf_tail, data),
                           !.recv_buf_tail = @ + Len(data),
                           !.rcv_nxt       = @ + Len(data)]
      drained == drain_ooo_queue(written)
  IN  ack_policy(drained, drained.rcv_nxt # written.rcv_nxt, dupacks)

force_ack(r) == [r EXCEPT !.t_flags = @ \cup {"TF_ACKNOW"}]

-----------------------------------------------------------------------------
\* The application's side

sws_threshold == IF MSS < RECV_BUF_SIZE \div 2 THEN MSS ELSE RECV_BUF_SIZE \div 2

\* Fault: only a completely full buffer announces its window again.
announces_full(available, r) == available = RECV_BUF_SIZE

\* Clark's rule: the window left after a read is announced when it is worth a
\* segment, or when the buffer had been full (available: bytes before it).
announces(available, r) == free_space(r) >= sws_threshold \/ available = RECV_BUF_SIZE

\* One read of at most len bytes (the buffer is not empty), with the window
\* update it sends.
utcp_read(r, len, has_data) ==
  LET available == buffered(r)
      num       == IF len < available THEN len ELSE available
      rest      == [r EXCEPT !.recv_buf_head = @ + num]
  IN  [r     |-> IF announces(available, rest) THEN utcp_output(force_ack(rest), has_data)
                                               ELSE rest,
       bytes |-> ring_buf_read(r.recv_buf, RECV_BUF_SIZE, r.recv_buf_head, num)]
=============================================================================
