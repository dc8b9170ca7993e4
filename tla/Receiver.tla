------------------------------ MODULE Receiver ------------------------------
(***************************************************************************)
(* The receive half of one established UTCP connection.  The listen thread *)
(* feeds it segments of the peer's stream in any order and number, the     *)
(* application reads, the timer thread expires the delayed ACK, and the    *)
(* send half of the same TCB sends segments that carry its ACK.  Each of   *)
(* these holds the TCB lock throughout, so each is one step.               *)
(*                                                                         *)
(* The peer's initial sequence number is 0, its SYN took sequence number   *)
(* 0, and the byte with sequence number n is written as the number n: what *)
(* the application reads is right when it reads 1, 2, 3, ...               *)
(***************************************************************************)
EXTENDS RecvPath

CONSTANTS
  StreamLen,  \* bytes the peer's application sends
  ReadMax     \* largest len passed to utcp_read

ASSUME ReceiverAssumption == StreamLen \in Nat /\ ReadMax \in Nat \ {0}

VARIABLES
  r,          \* the receive half of the TCB
  delivered   \* everything utcp_read has returned, in order

vars == <<r, delivered>>

\* The n bytes of the peer's stream from sequence number seq on.
Stream(seq, n) == [i \in 1 .. n |-> seq + i - 1]

\* Established and nothing received.  The SYN-ACK announced an unscaled
\* window, at most 65535 bytes.
Init ==
  /\ r = LET win == IF RECV_BUF_SIZE > 65535 THEN 65535 ELSE RECV_BUF_SIZE
         IN  [rcv_nxt |-> 1, recv_buf |-> EmptyRing(RECV_BUF_SIZE),
              recv_buf_head |-> 0, recv_buf_tail |-> 0, ooo |-> {}, ooo_bytes |-> 0,
              t_flags |-> {}, delack |-> FALSE,
              adv |-> [ack |-> 1, win |-> win], edge |-> 1 + win]
  /\ delivered = <<>>

\* The payloads the peer can send: any piece of its stream of at most an MSS.
Segments == {s \in [seq : 1 .. StreamLen, len : 1 .. MSS] : s.seq + s.len <= StreamLen + 1}

\* The payload lies below rcv_nxt: answered with an immediate ACK.
RecvDuplicate(s, has_data) ==
  /\ s.seq + s.len <= r.rcv_nxt
  /\ r' = utcp_output(force_ack(r), has_data)
  /\ UNCHANGED delivered

\* The payload continues the stream, possibly after a duplicate front.
RecvInOrder(s, dupacks, has_data) ==
  LET data == fresh(r, s.seq, Stream(s.seq, s.len))
  IN  /\ s.seq <= r.rcv_nxt /\ r.rcv_nxt < s.seq + s.len
      /\ fits(r, data)
      /\ r' = utcp_output(accept_in_order(r, data, dupacks), has_data)
      /\ UNCHANGED delivered

\* It continues the stream but does not fit: dropped, and the handler returns
\* before utcp_output.
RecvNoSpace(s) ==
  /\ s.seq <= r.rcv_nxt /\ r.rcv_nxt < s.seq + s.len
  /\ ~fits(r, fresh(r, s.seq, Stream(s.seq, s.len)))
  /\ UNCHANGED vars

\* The payload lies past rcv_nxt: queued if possible, and a duplicate ACK.
RecvOutOfOrder(s, alloc, has_data) ==
  /\ s.seq > r.rcv_nxt
  /\ r' = utcp_output(force_ack(insert_ooo_segment(r, s.seq, Stream(s.seq, s.len), alloc)),
                      has_data)
  /\ UNCHANGED delivered

\* utcp_read(len); it blocks while the buffer is empty.
Read(len, has_data) ==
  /\ buffered(r) > 0
  /\ LET res == utcp_read(r, len, has_data)
     IN  r' = res.r /\ delivered' = delivered \o res.bytes

\* Fault: the expired timer clears the pending ACK without forcing it out.
DelackExpire_silent(has_data) ==
  /\ r.delack
  /\ r' = utcp_output([r EXCEPT !.t_flags = @ \ {"TF_DELACK"}, !.delack = FALSE], has_data)
  /\ UNCHANGED delivered

\* The timer thread counts t_timer[TCPT_DELACK] down to 0.
DelackExpire(has_data) ==
  /\ r.delack
  /\ r' = utcp_output(force_ack([r EXCEPT !.t_flags = @ \ {"TF_DELACK"}, !.delack = FALSE]),
                      has_data)
  /\ UNCHANGED delivered

\* The send half calls utcp_output and has data for it (utcp_send, an ACK
\* that opens the window, a retransmission timeout).
SendData ==
  /\ r' = utcp_output(r, TRUE)
  /\ UNCHANGED delivered

\* Congestion control calls utcp_retransmit_segment, which stamps the ACK
\* fields but leaves the delayed ACK pending.
Retransmit ==
  /\ r' = utcp_send_segment(r)
  /\ UNCHANGED delivered

\* One segment with a payload, whichever branch takes it.
Recv(s) ==
  \/ \E has_data \in BOOLEAN : RecvDuplicate(s, has_data)
  \/ \E dupacks, has_data \in BOOLEAN : RecvInOrder(s, dupacks, has_data)
  \/ RecvNoSpace(s)
  \/ \E alloc, has_data \in BOOLEAN : RecvOutOfOrder(s, alloc, has_data)

AppRead == \E len \in 1 .. ReadMax, has_data \in BOOLEAN : Read(len, has_data)
Delack  == \E has_data \in BOOLEAN : DelackExpire(has_data)

Next ==
  \/ \E s \in Segments : Recv(s)
  \/ AppRead
  \/ Delack
  \/ SendData
  \/ Retransmit

\* The timer thread never stops ticking.  Nothing obliges the network to
\* deliver or the application to read.
Fairness == WF_vars(Delack)

Spec == Init /\ [][Next]_vars /\ Fairness

-----------------------------------------------------------------------------
Entries == [seq : Nat, data : Seq(Nat)]

RecvHalves ==
  [rcv_nxt : Nat, recv_buf : [0 .. RECV_BUF_SIZE - 1 -> Nat],
   recv_buf_head : Nat, recv_buf_tail : Nat,
   ooo : SUBSET Entries, ooo_bytes : Nat,
   t_flags : SUBSET {"TF_ACKNOW", "TF_DELACK"}, delack : BOOLEAN,
   adv : [ack : Nat, win : Nat], edge : Nat]

\* The fields of the receive half of struct tcb and their ranges.
TypeOK ==
  /\ r \in RecvHalves
  /\ delivered \in Seq(Nat)

\* Comment of insert_ooo_segment: the queue never holds redundant data.  No
\* byte is queued twice, none at or below rcv_nxt, and no entry is empty.
QueueDisjoint ==
  /\ \A e \in r.ooo : e.data # <<>> /\ e.seq > r.rcv_nxt
  /\ \A e, f \in r.ooo : e # f => Span(e) \cap Span(f) = {}

\* ooo_bytes is exactly the number of queued bytes through any sequence of
\* absorbing, trimming and draining.
OooAccounting == r.ooo_bytes = Cardinality(Bytes(r.ooo))

\* In-order and out-of-order bytes together never exceed the buffer, so the
\* unsigned RECV_BUF_SIZE - used - ooo_bytes never wraps, no unread byte is
\* overwritten, and drain_ooo_queue never finds recv_buf full.
Capacity ==
  /\ 0 <= buffered(r)
  /\ buffered(r) + r.ooo_bytes <= RECV_BUF_SIZE

\* What was read, then what waits in the ring, is the peer's stream up to
\* rcv_nxt, each byte once and in order; the queue holds the right bytes.
StreamIntegrity ==
  /\ delivered \o ring_buf_read(r.recv_buf, RECV_BUF_SIZE, r.recv_buf_head, buffered(r))
       = Stream(1, r.rcv_nxt - 1)
  /\ \A e \in r.ooo : e.data = Stream(e.seq, Len(e.data))

\* Received bytes that no sent segment has acknowledged have a delayed ACK
\* pending, and a pending one has its timer running: no ACK is forgotten.
AckOwed ==
  /\ r.adv.ack < r.rcv_nxt => "TF_DELACK" \in r.t_flags
  /\ r.delack <=> "TF_DELACK" \in r.t_flags
  /\ "TF_ACKNOW" \notin r.t_flags

\* Sequence numbers the peer may still send, up to the edge announced.
missing == (r.rcv_nxt .. r.edge - 1) \ Bytes(r.ooo)

\* The bytes that are missing below the announced edge have room, whatever was
\* queued behind the gaps between them, read, and announced in rounded units
\* since.  (Not so once a segment beyond the edge is queued: insert_ooo_segment
\* looks for space, not at the window, and gives such a segment promised room.)
PromiseKept ==
  (\A e \in r.ooo : EndOf(e) <= r.edge) => Cardinality(missing) <= free_space(r)

\* A reader that has emptied the buffer has also told the peer: the last
\* segment sent acknowledges everything and announces all free space, so the
\* peer does not wait on a closed window that is open.
WindowReopens ==
  buffered(r) = 0 /\ free_space(r) >= sws_threshold /\ Len(delivered) > 0
    => r.adv = [ack |-> r.rcv_nxt, win |-> scaled_win(r)]

\* While received bytes wait to be acknowledged, a segment that acknowledges
\* all that was received by then goes out sooner or later, so every in-order
\* byte is acknowledged.
AckEventually == r.adv.ack < r.rcv_nxt ~> r.adv.ack = r.rcv_nxt

\* The window is not taken back: from one segment to the next the announced
\* edge retreats at most by the bytes now queued behind a gap, which the peer
\* need not send again, and by the rounding of one window unit.
WindowNotRetracted ==
  [][r'.adv.ack + r'.adv.win + r'.ooo_bytes > r.adv.ack + r.adv.win - WIN_UNIT]_vars

\* insert_ooo_segment frees and cuts entries, but forgets at most the front of
\* one that a new segment overlaps from behind: the last byte of an entry stays
\* queued until rcv_nxt has passed it.
QueueKeepsEnds ==
  [][\A e \in r.ooo : EndOf(e) - 1 \in Bytes(r'.ooo) \/ EndOf(e) <= r'.rcv_nxt]_vars
=============================================================================
