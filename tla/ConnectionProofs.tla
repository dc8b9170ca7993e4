-------------------------- MODULE ConnectionProofs --------------------------
(***************************************************************************)
(* Module Connection implements the pipe of ByteStream, for every buffer   *)
(* size, MSS, window unit, stream length, chunk and read length and any    *)
(* number of faults.  What each half does by itself is taken from the      *)
(* lemmas of SenderProofs and ReceiverProofs.                              *)
(***************************************************************************)
EXTENDS Connection, SequenceTheorems, TLAPS

\* No lemma used below depends on the width of the number fields (HALF).
SP == INSTANCE SenderProofs WITH
  CcChoices <- {"new_reno"}, Windows <- Nat, ChunkMax <- 1, PeerData <- FALSE,
  ReplyDropped <- FALSE, MaxShift <- TCP_MAXRXTSHIFT, MaxCwnd <- 0, HALF <- 1

RP == INSTANCE ReceiverProofs WITH ReadMax <- 1, HALF <- 1

-----------------------------------------------------------------------------
\* The assumptions and operators of the two halves are those of Connection

LEMMA SendConstants == SP!CcAssumption /\ SP!SendAssumption /\ SP!SenderAssumption
<1>1. SP!CcAssumption /\ SP!SendAssumption
  BY ConnectionAssumption DEF ConnectionAssumption, SP!CcAssumption, SP!SendAssumption,
     S!CcAssumption, S!SendAssumption
<1>2. SP!SenderAssumption
  BY ConnectionAssumption DEF ConnectionAssumption, SP!SenderAssumption, S!SendAssumption,
     SP!CcAlgorithms
<1> QED
  BY <1>1, <1>2

LEMMA RecvConstants == RP!RecvAssumption /\ RP!ReceiverAssumption
<1>1. RP!RecvAssumption
  BY ConnectionAssumption DEF ConnectionAssumption, RP!RecvAssumption, R!RecvAssumption
<1>2. RP!ReceiverAssumption
  BY ConnectionAssumption DEF ConnectionAssumption, RP!ReceiverAssumption
<1> QED
  BY <1>1, <1>2

\* The send half.
LEMMA SameOutput == \A t : S!utcp_output(t) = SP!utcp_output(t)
<1> SUFFICES ASSUME NEW t PROVE S!utcp_output(t) = SP!utcp_output(t)
  OBVIOUS
<1>1. S!burst(t) = SP!burst(t)
  BY Zenon DEF S!burst, SP!burst, S!sendable, SP!sendable, S!buffered_data,
     SP!buffered_data, S!MIN, SP!MIN, S!MAX, SP!MAX, S!iss, SP!iss
<1>2. \A seq, len : S!Segment(t, seq, len) = SP!Segment(t, seq, len)
  BY Zenon DEF S!Segment, SP!Segment, S!ring_buf_read, SP!ring_buf_read, S!iss, SP!iss
<1>3. \A a, b : S!MIN(a, b) = SP!MIN(a, b) /\ S!MAX(a, b) = SP!MAX(a, b)
  BY Zenon DEF S!MIN, SP!MIN, S!MAX, SP!MAX
<1> DEFINE n == SP!burst(t)
           sent  == {S!Segment(t, t.snd_nxt + k * MSS, S!MIN(n - k * MSS, MSS)) :
                      k \in 0 .. (n + MSS - 1) \div MSS - 1}
           sent2 == {SP!Segment(t, t.snd_nxt + k * MSS, SP!MIN(n - k * MSS, MSS)) :
                      k \in 0 .. (n + MSS - 1) \div MSS - 1}
<1> HIDE DEF n
<1>4. sent = sent2
  BY <1>2, <1>3
<1>5. S!utcp_output(t) = [t EXCEPT !.out = @ \cup sent, !.snd_nxt = t.snd_nxt + n,
                            !.snd_max = S!MAX(@, t.snd_nxt + n), !.rexmt = @ \/ n > 0]
  BY <1>1, Zenon DEF S!utcp_output, n
<1>6. SP!utcp_output(t) = [t EXCEPT !.out = @ \cup sent2, !.snd_nxt = t.snd_nxt + n,
                            !.snd_max = SP!MAX(@, t.snd_nxt + n), !.rexmt = @ \/ n > 0]
  BY Zenon DEF SP!utcp_output, n
<1> QED
  BY <1>3, <1>4, <1>5, <1>6, Zenon

LEMMA SameAppend == \A t, data : S!append(t, data) = SP!append(t, data)
  BY SameOutput, Zenon DEF S!append, SP!append, S!ring_buf_write, SP!ring_buf_write

LEMMA SameTimeout == \A t, in : S!rexmt_timeout(t, in) = SP!rexmt_timeout(t, in)
<1> SUFFICES ASSUME NEW t, NEW in PROVE S!rexmt_timeout(t, in) = SP!rexmt_timeout(t, in)
  OBVIOUS
<1>1. \A u, flight : S!cc_timeout(u, flight) = SP!cc_timeout(u, flight)
  BY Zenon DEF S!cc_timeout, SP!cc_timeout, S!cc_halve_ssthresh, SP!cc_halve_ssthresh,
     S!MIN, SP!MIN, S!MAX, SP!MAX
<1>2. \A u, flight : S!cc_event_timeout(u, flight) = SP!cc_event_timeout(u, flight)
  BY <1>1 DEF S!cc_event_timeout, SP!cc_event_timeout, S!new_reno_timeout, SP!new_reno_timeout
<1> DEFINE shift == S!MIN(t.t_rxtshift + 1, TCP_MAXRXTSHIFT + 1)
           u == [t EXCEPT !.t_rxtshift = shift, !.rexmt = S!backed_off(shift, in),
                          !.snd_nxt = t.snd_una]
           flight == t.snd_nxt - t.snd_una
<1>4. S!rexmt_timeout(t, in) = S!utcp_output(S!cc_event_timeout(u, flight))
  BY Zenon DEF S!rexmt_timeout
<1>5. SP!rexmt_timeout(t, in) = SP!utcp_output(SP!cc_event_timeout(u, flight))
  BY Zenon DEF SP!rexmt_timeout, S!MIN, SP!MIN, S!backed_off, SP!backed_off
<1> HIDE DEF u, flight
<1> QED
  BY <1>2, <1>4, <1>5, SameOutput

LEMMA SameApply == \A res : S!apply_cc(res) = SP!apply_cc(res)
  BY SameOutput, Zenon DEF S!apply_cc, SP!apply_cc, S!utcp_retransmit_segment,
     SP!utcp_retransmit_segment, S!buffered_data, SP!buffered_data, S!Segment, SP!Segment,
     S!ring_buf_read, SP!ring_buf_read, S!MIN, SP!MIN, S!MAX, SP!MAX, S!iss, SP!iss

LEMMA SameAckEvent == \A t, acked, fired :
                        S!cc_event_ack(t, acked, fired) = SP!cc_event_ack(t, acked, fired)
<1>1. \A t, acked : S!cc_aimd(t, acked) = SP!cc_aimd(t, acked)
  BY Zenon DEF S!cc_aimd, SP!cc_aimd, S!MIN, SP!MIN, S!MAX, SP!MAX
<1>2. \A t, acked : S!recovery_ack(t, acked) = SP!recovery_ack(t, acked)
  BY Zenon DEF S!recovery_ack, SP!recovery_ack, S!Only, SP!Only, S!AndRetransmit,
     SP!AndRetransmit
<1>3. \A t, acked : S!tahoe_ack(t, acked) = SP!tahoe_ack(t, acked)
  BY <1>1 DEF S!tahoe_ack, SP!tahoe_ack, S!Only, SP!Only
<1>4. \A t, acked : S!reno_ack(t, acked) = SP!reno_ack(t, acked)
  BY <1>1 DEF S!reno_ack, SP!reno_ack, S!Only, SP!Only
<1>5. \A t, acked : S!new_reno_ack(t, acked) = SP!new_reno_ack(t, acked)
  BY <1>1, <1>2 DEF S!new_reno_ack, SP!new_reno_ack, S!Only, SP!Only
<1>6. \A t, acked, fired : S!lstm_reno_ack(t, acked, fired) = SP!lstm_reno_ack(t, acked, fired)
  BY <1>1, <1>2 DEF S!lstm_reno_ack, SP!lstm_reno_ack, S!Only, SP!Only, S!cc_halve_ssthresh,
     SP!cc_halve_ssthresh, S!MIN, SP!MIN, S!MAX, SP!MAX
<1> SUFFICES ASSUME NEW t, NEW acked, NEW fired
             PROVE  S!cc_event_ack(t, acked, fired) = SP!cc_event_ack(t, acked, fired)
  OBVIOUS
<1> QED
  BY <1>3, <1>4, <1>5, <1>6, Zenon DEF S!cc_event_ack, SP!cc_event_ack

LEMMA SameDupEvent == \A t, dups : S!cc_event_dup_ack(t, dups) = SP!cc_event_dup_ack(t, dups)
  BY Zenon DEF S!cc_event_dup_ack, SP!cc_event_dup_ack, S!tahoe_dup_ack, SP!tahoe_dup_ack,
     S!reno_dup_ack, SP!reno_dup_ack, S!new_reno_dup_ack, SP!new_reno_dup_ack,
     S!cc_halve_ssthresh, SP!cc_halve_ssthresh, S!Only, SP!Only, S!AndRetransmit,
     SP!AndRetransmit, S!AndOutput, SP!AndOutput, S!MAX, SP!MAX

LEMMA SameHandleAck == \A t, ack, win, has_data, in :
                         S!handle_ack(t, ack, win, has_data, in)
                           = SP!handle_ack(t, ack, win, has_data, in)
<1> SUFFICES ASSUME NEW t, NEW ack, NEW win, NEW has_data, NEW in
             PROVE  S!handle_ack(t, ack, win, has_data, in)
                      = SP!handle_ack(t, ack, win, has_data, in)
  OBVIOUS
<1>1. S!process_ack(t, ack, win, in) = SP!process_ack(t, ack, win, in)
  <2> DEFINE all == ack = t.snd_max
             u == [t EXCEPT !.snd_una = ack, !.snd_nxt = S!MAX(@, ack), !.t_dupacks = 0,
                     !.send_buf_head = @ + (ack - t.snd_una), !.snd_wnd = win,
                     !.rexmt = ~all /\ S!backed_off(t.t_rxtshift, in),
                     !.t_rxtshift = IF all THEN 0 ELSE @]
             acked == ack - t.snd_una
  <2>1. S!process_ack(t, ack, win, in) = S!apply_cc(S!cc_event_ack(u, acked, in.fired))
    BY Zenon DEF S!process_ack
  <2>2. SP!process_ack(t, ack, win, in) = SP!apply_cc(SP!cc_event_ack(u, acked, in.fired))
    BY Zenon DEF SP!process_ack, S!MAX, SP!MAX, S!backed_off, SP!backed_off
  <2> HIDE DEF u, acked
  <2> QED
    BY <2>1, <2>2, SameApply, SameAckEvent
<1>2. S!process_dup_ack(t, win) = SP!process_dup_ack(t, win)
  BY SameApply, SameDupEvent, Zenon DEF S!process_dup_ack, SP!process_dup_ack, S!MIN, SP!MIN
<1> DEFINE p == S!process_ack(t, ack, win, in)
           d == S!process_dup_ack(t, win)
<1>3. S!handle_ack(t, ack, win, has_data, in)
        = CASE S!valid_ack(t, ack) -> p
            [] ack = t.snd_una /\ win > t.snd_wnd -> [t EXCEPT !.snd_wnd = win]
            [] ack = t.snd_una /\ win <= t.snd_wnd /\ ~has_data /\ t.snd_una # t.snd_max -> d
            [] OTHER -> t
  BY Zenon DEF S!handle_ack
<1>4. SP!handle_ack(t, ack, win, has_data, in)
        = CASE S!valid_ack(t, ack) -> p
            [] ack = t.snd_una /\ win > t.snd_wnd -> [t EXCEPT !.snd_wnd = win]
            [] ack = t.snd_una /\ win <= t.snd_wnd /\ ~has_data /\ t.snd_una # t.snd_max -> d
            [] OTHER -> t
  <2> HIDE DEF p, d
  <2>1. SP!process_ack(t, ack, win, in) = p /\ SP!process_dup_ack(t, win) = d
    BY <1>1, <1>2 DEF p, d
  <2> QED
    BY <2>1, Zenon DEF SP!handle_ack, S!valid_ack, SP!valid_ack
<1> QED
  BY <1>3, <1>4

\* The receive half.
LEMMA SameRecvOutput == \A t, d : R!utcp_output(t, d) = RP!utcp_output(t, d)
  BY Zenon DEF R!utcp_output, RP!utcp_output, R!utcp_send_segment, RP!utcp_send_segment,
     R!scaled_win, RP!scaled_win, R!free_space, RP!free_space, R!buffered, RP!buffered,
     R!Max, RP!Max

\* Small operators of both halves.
LEMMA SameRing ==
  /\ \A ring, n, at, len : /\ S!ring_buf_read(ring, n, at, len) = SP!ring_buf_read(ring, n, at, len)
                           /\ R!ring_buf_read(ring, n, at, len) = RP!ring_buf_read(ring, n, at, len)
  /\ \A ring, n, at, src : R!ring_buf_write(ring, n, at, src) = RP!ring_buf_write(ring, n, at, src)
<1>1. \A ring, n, at, len : S!ring_buf_read(ring, n, at, len) = SP!ring_buf_read(ring, n, at, len)
  BY Zenon DEF S!ring_buf_read, SP!ring_buf_read
<1>2. \A ring, n, at, len : R!ring_buf_read(ring, n, at, len) = RP!ring_buf_read(ring, n, at, len)
  BY Zenon DEF R!ring_buf_read, RP!ring_buf_read
<1>3. \A ring, n, at, src : R!ring_buf_write(ring, n, at, src) = RP!ring_buf_write(ring, n, at, src)
  BY Zenon DEF R!ring_buf_write, RP!ring_buf_write
<1> QED
  BY <1>1, <1>2, <1>3

LEMMA SameFields ==
  /\ \A t : S!send_free_space(t) = SP!send_free_space(t)
  /\ \A t : R!buffered(t) = RP!buffered(t)
  /\ \A t : R!free_space(t) = RP!free_space(t)
  /\ \A t : R!force_ack(t) = RP!force_ack(t)
  BY Zenon DEF S!send_free_space, SP!send_free_space, R!buffered, RP!buffered, R!force_ack,
     RP!force_ack, R!free_space, RP!free_space

LEMMA SameFresh ==
  /\ \A t, seq, data : R!fresh(t, seq, data) = RP!fresh(t, seq, data)
  /\ \A t, data : R!fits(t, data) <=> RP!fits(t, data)
<1>1. \A t, seq, data : R!fresh(t, seq, data) = RP!fresh(t, seq, data)
  BY Zenon DEF R!fresh, RP!fresh, R!duplicate_bytes, RP!duplicate_bytes
<1>2. \A t, data : R!fits(t, data) <=> RP!fits(t, data)
  BY Zenon DEF R!fits, RP!fits, R!free_space, RP!free_space, R!buffered, RP!buffered
<1> QED
  BY <1>1, <1>2

\* Queues.
LEMMA SameCount == \A X : R!Cardinality(X) = RP!Cardinality(X)
  BY Zenon DEF R!Cardinality, RP!Cardinality

LEMMA SameQueue ==
  /\ \A e : R!EndOf(e) = RP!EndOf(e) /\ R!Span(e) = RP!Span(e)
  /\ \A q : R!Bytes(q) = RP!Bytes(q)
  /\ \A e, seq : R!TrimFront(e, seq) = RP!TrimFront(e, seq)
  /\ \A q, n : R!Holder(q, n) = RP!Holder(q, n)
  /\ \A q, a, b : R!covered(q, a, b) = RP!covered(q, a, b)
  /\ \A q, b : R!straddling(q, b) = RP!straddling(q, b)
  /\ \A q, a, b : R!freed_bytes(q, a, b) = RP!freed_bytes(q, a, b)
<1>1. \A e : R!EndOf(e) = RP!EndOf(e) /\ R!Span(e) = RP!Span(e)
  BY Zenon DEF R!EndOf, RP!EndOf, R!Span, RP!Span
<1>2. \A q : R!Bytes(q) = RP!Bytes(q)
  BY <1>1 DEF R!Bytes, RP!Bytes
<1>3. \A e, seq : R!TrimFront(e, seq) = RP!TrimFront(e, seq)
  BY Zenon DEF R!TrimFront, RP!TrimFront
<1>4. \A q, n : R!Holder(q, n) = RP!Holder(q, n)
  BY Zenon DEF R!Holder, RP!Holder, R!Span, RP!Span, R!EndOf, RP!EndOf
<1>5. \A q, a, b : R!covered(q, a, b) = RP!covered(q, a, b)
  BY <1>1 DEF R!covered, RP!covered
<1>6. \A q, b : R!straddling(q, b) = RP!straddling(q, b)
  BY <1>1 DEF R!straddling, RP!straddling
<1>7. \A q, a, b : R!freed_bytes(q, a, b) = RP!freed_bytes(q, a, b)
  BY <1>2, <1>5, <1>6, SameCount DEF R!freed_bytes, RP!freed_bytes
<1> QED
  BY <1>1, <1>2, <1>3, <1>4, <1>5, <1>6, <1>7

LEMMA SameInsert == \A t, seq, data, alloc :
                      R!insert_ooo_segment(t, seq, data, alloc)
                        = RP!insert_ooo_segment(t, seq, data, alloc)
<1> SUFFICES ASSUME NEW t, NEW seq, NEW data, NEW alloc
             PROVE  R!insert_ooo_segment(t, seq, data, alloc)
                      = RP!insert_ooo_segment(t, seq, data, alloc)
  OBVIOUS
<1> DEFINE end  == seq + Len(data)
           over == R!straddling(t.ooo, end)
           q1 == ((t.ooo \ R!covered(t.ooo, seq, end)) \ over)
                    \cup {R!TrimFront(e, end) : e \in over} \cup {[seq |-> seq, data |-> data]}
           q2 == ((t.ooo \ RP!covered(t.ooo, seq, end)) \ RP!straddling(t.ooo, end))
                    \cup {RP!TrimFront(e, end) : e \in RP!straddling(t.ooo, end)}
                    \cup {[seq |-> seq, data |-> data]}
<1>1. R!insert_ooo_segment(t, seq, data, alloc)
        = IF Len(data) > R!free_space(t) \/ ~alloc THEN t
          ELSE [t EXCEPT !.ooo = q1,
                         !.ooo_bytes = @ - R!freed_bytes(t.ooo, seq, end) + Len(data)]
  BY Zenon DEF R!insert_ooo_segment
<1>2. RP!insert_ooo_segment(t, seq, data, alloc)
        = IF Len(data) > RP!free_space(t) \/ ~alloc THEN t
          ELSE [t EXCEPT !.ooo = q2,
                         !.ooo_bytes = @ - RP!freed_bytes(t.ooo, seq, end) + Len(data)]
  BY Zenon DEF RP!insert_ooo_segment
<1>3. q1 = q2
  BY SameQueue
<1>4. R!freed_bytes(t.ooo, seq, end) = RP!freed_bytes(t.ooo, seq, end)
  BY SameQueue
<1> HIDE DEF q1, q2, end
<1> QED
  BY <1>1, <1>2, <1>3, <1>4, SameFields

LEMMA SameDrain == \A t : R!drain_ooo_queue(t) = RP!drain_ooo_queue(t)
<1> SUFFICES ASSUME NEW t PROVE R!drain_ooo_queue(t) = RP!drain_ooo_queue(t)
  OBVIOUS
<1>1. R!drained_to(t) = RP!drained_to(t)
  <2> DEFINE room == RECV_BUF_SIZE - R!buffered(t)
             a == {e \in t.ooo : /\ R!EndOf(e) > t.rcv_nxt
                                 /\ t.rcv_nxt .. R!EndOf(e) - 1 \subseteq R!Bytes(t.ooo)
                                 /\ R!EndOf(e) - t.rcv_nxt <= room}
             b == {e \in t.ooo : /\ RP!EndOf(e) > t.rcv_nxt
                                 /\ t.rcv_nxt .. RP!EndOf(e) - 1 \subseteq RP!Bytes(t.ooo)
                                 /\ RP!EndOf(e) - t.rcv_nxt <= room}
             c == {t.rcv_nxt} \cup {R!EndOf(e) : e \in a}
             d == {t.rcv_nxt} \cup {RP!EndOf(e) : e \in b}
  <2>1. a = b
    <3> HIDE DEF room
    <3> QED
      BY SameQueue
  <2>2. R!drained_to(t) = R!Max(c)
    BY Zenon DEF R!drained_to
  <2>3. RP!drained_to(t) = RP!Max(d)
    BY SameFields, Zenon DEF RP!drained_to, R!buffered, RP!buffered
  <2>4. c = d
    <3> HIDE DEF a, b
    <3> QED
      BY <2>1, SameQueue
  <2> HIDE DEF c, d
  <2>5. R!Max(c) = RP!Max(c)
    BY Zenon DEF R!Max, RP!Max
  <2> QED
    BY <2>2, <2>3, <2>4, <2>5
<1> DEFINE nxt   == R!drained_to(t)
           nxt2  == RP!drained_to(t)
           run1  == [k \in 1 .. nxt - t.rcv_nxt |->
                       LET n == t.rcv_nxt + k - 1
                           e == R!Holder(t.ooo, n)
                       IN  e.data[n - e.seq + 1]]
           run2  == [k \in 1 .. nxt2 - t.rcv_nxt |->
                       LET n == t.rcv_nxt + k - 1
                           e == RP!Holder(t.ooo, n)
                       IN  e.data[n - e.seq + 1]]
           keep1 == {e \in t.ooo : R!EndOf(e) > nxt}
           keep2 == {e \in t.ooo : RP!EndOf(e) > nxt2}
           left1 == {IF e.seq < nxt THEN R!TrimFront(e, nxt) ELSE e : e \in keep1}
           left2 == {IF e.seq < nxt2 THEN RP!TrimFront(e, nxt2) ELSE e : e \in keep2}
           gone1 == R!Cardinality({n \in R!Bytes(t.ooo) : n < nxt})
           gone2 == RP!Cardinality({n \in RP!Bytes(t.ooo) : n < nxt2})
<1>2. R!drain_ooo_queue(t)
        = [t EXCEPT !.recv_buf = R!ring_buf_write(@, RECV_BUF_SIZE, t.recv_buf_tail, run1),
                    !.recv_buf_tail = @ + Len(run1), !.rcv_nxt = nxt, !.ooo = left1,
                    !.ooo_bytes = @ - gone1]
  BY Zenon DEF R!drain_ooo_queue
<1>3. RP!drain_ooo_queue(t)
        = [t EXCEPT !.recv_buf = RP!ring_buf_write(@, RECV_BUF_SIZE, t.recv_buf_tail, run2),
                    !.recv_buf_tail = @ + Len(run2), !.rcv_nxt = nxt2, !.ooo = left2,
                    !.ooo_bytes = @ - gone2]
  BY Zenon DEF RP!drain_ooo_queue
<1>4. nxt2 = nxt
  BY <1>1
<1> HIDE DEF nxt, nxt2
<1>5. run1 = run2
  BY <1>4, SameQueue, Zenon
<1>6. keep1 = keep2
  BY <1>4, SameQueue
<1>7. left1 = left2
  <2> HIDE DEF keep1, keep2
  <2> QED
    BY <1>6, <1>4, SameQueue
<1>8. gone1 = gone2
  BY <1>4, SameQueue, SameCount
<1> HIDE DEF run1, run2, left1, left2, gone1, gone2
<1> QED
  BY <1>2, <1>3, <1>5, <1>7, <1>8, <1>4, SameRing

LEMMA SameAccept == \A t, data, dups :
                      R!accept_in_order(t, data, dups) = RP!accept_in_order(t, data, dups)
<1> SUFFICES ASSUME NEW t, NEW data, NEW dups
             PROVE  R!accept_in_order(t, data, dups) = RP!accept_in_order(t, data, dups)
  OBVIOUS
<1> DEFINE w == [t EXCEPT !.recv_buf = RP!ring_buf_write(@, RECV_BUF_SIZE, t.recv_buf_tail, data),
                          !.recv_buf_tail = @ + Len(data), !.rcv_nxt = @ + Len(data)]
           d == RP!drain_ooo_queue(w)
<1>1. R!accept_in_order(t, data, dups)
        = R!ack_policy(R!drain_ooo_queue(w), R!drain_ooo_queue(w).rcv_nxt # w.rcv_nxt, dups)
  BY Zenon DEF R!accept_in_order, R!ring_buf_write, RP!ring_buf_write
<1>2. RP!accept_in_order(t, data, dups) = RP!ack_policy(d, d.rcv_nxt # w.rcv_nxt, dups)
  BY Zenon DEF RP!accept_in_order
<1>3. R!drain_ooo_queue(w) = d
  BY SameDrain
<1> HIDE DEF w, d
<1> DEFINE gap == d.rcv_nxt # w.rcv_nxt
<1>4. R!ack_policy(d, gap, dups) = RP!ack_policy(d, gap, dups)
  BY Zenon DEF R!ack_policy, RP!ack_policy
<1> QED
  BY <1>1, <1>2, <1>3, <1>4, Zenon

LEMMA SameRead == \A t, len, d : R!utcp_read(t, len, d) = RP!utcp_read(t, len, d)
<1> SUFFICES ASSUME NEW t, NEW len, NEW d PROVE R!utcp_read(t, len, d) = RP!utcp_read(t, len, d)
  OBVIOUS
<1> DEFINE available == RP!buffered(t)
           num  == IF len < available THEN len ELSE available
           rest == [t EXCEPT !.recv_buf_head = @ + num]
<1>1. R!utcp_read(t, len, d)
        = [r |-> IF R!announces(available, rest) THEN R!utcp_output(R!force_ack(rest), d)
                                                ELSE rest,
           bytes |-> R!ring_buf_read(t.recv_buf, RECV_BUF_SIZE, t.recv_buf_head, num)]
  BY Zenon DEF R!utcp_read, R!buffered, RP!buffered
<1>2. RP!utcp_read(t, len, d)
        = [r |-> IF RP!announces(available, rest) THEN RP!utcp_output(RP!force_ack(rest), d)
                                                 ELSE rest,
           bytes |-> RP!ring_buf_read(t.recv_buf, RECV_BUF_SIZE, t.recv_buf_head, num)]
  BY Zenon DEF RP!utcp_read
<1> HIDE DEF available, num, rest
<1>3. R!announces(available, rest) <=> RP!announces(available, rest)
  BY SameFields, Zenon DEF R!announces, RP!announces, R!sws_threshold, RP!sws_threshold
<1> QED
  BY <1>1, <1>2, <1>3, SameFields, SameRing, SameRecvOutput

\* Stream and the inputs of a step are the same in all modules.
LEMMA SameStream ==
  /\ \A seq, n : SP!Stream(seq, n) = Stream(seq, n) /\ RP!Stream(seq, n) = Stream(seq, n)
  /\ [fired |-> FALSE, armed |-> TRUE] \in SP!Inputs
<1>1. \A seq, n : SP!Stream(seq, n) = Stream(seq, n) /\ RP!Stream(seq, n) = Stream(seq, n)
  BY Zenon DEF SP!Stream, RP!Stream, Stream
<1>2. [fired |-> FALSE, armed |-> TRUE] \in SP!Inputs
  BY DEF SP!Inputs
<1> QED
  BY <1>1, <1>2

-----------------------------------------------------------------------------
\* The network

\* Bags gain and lose elements.
LEMMA BagJoined == \A B, X : BagToSet(B (+) SetToBag(X)) = BagToSet(B) \cup X
  BY DEF BagToSet, (+), SetToBag

LEMMA BagReduced == \A B, X : BagToSet(B (-) SetToBag(X)) \subseteq BagToSet(B)
  BY DEF BagToSet, (-), SetToBag

LEMMA BagEmpty == BagToSet(EmptyBag) = {}
  BY DEF BagToSet, EmptyBag, SetToBag

-----------------------------------------------------------------------------
\* The bytes between two positions of the stream

Run(a, b) == [k \in 1 .. b - a |-> a + k]

LEMMA RunType ==
  ASSUME NEW a \in Nat, NEW b \in Nat, a <= b
  PROVE  Run(a, b) \in Seq(Nat) /\ Len(Run(a, b)) = b - a
<1>1. b - a \in Nat /\ \A k \in 1 .. b - a : a + k \in Nat
  OBVIOUS
<1> DEFINE n == b - a
<1> HIDE DEF n
<1>2. [k \in 1 .. n |-> a + k] \in Seq(Nat) /\ Len([k \in 1 .. n |-> a + k]) = n
  BY <1>1 DEF n
<1> QED
  BY <1>2 DEF Run, n

\* Two runs that meet are one.
LEMMA RunJoin ==
  ASSUME NEW a \in Nat, NEW b \in Nat, NEW c \in Nat, a <= b, b <= c
  PROVE  Run(a, b) \o Run(b, c) = Run(a, c)
<1> DEFINE x == Run(a, b)
           y == Run(b, c)
           z == Run(a, c)
           m == b - a
           n == c - b
<1>1. a <= c /\ m \in Nat /\ n \in Nat /\ c - a = m + n /\ b = a + m
  OBVIOUS
<1>2. /\ x \in Seq(Nat) /\ y \in Seq(Nat) /\ z \in Seq(Nat)
      /\ Len(x) = m /\ Len(y) = n /\ Len(z) = m + n
  BY <1>1, RunType
<1>3. /\ \A k \in 1 .. m : x[k] = a + k
      /\ \A k \in 1 .. n : y[k] = a + m + k
      /\ \A k \in 1 .. m + n : z[k] = a + k
  BY <1>1 DEF Run
<1> HIDE DEF x, y, z, m, n
<1>4. /\ x \o y \in Seq(Nat) /\ Len(x \o y) = m + n
      /\ \A k \in 1 .. m + n : (x \o y)[k] = IF k <= m THEN x[k] ELSE y[k - m]
  BY <1>1, <1>2, ConcatProperties
<1>5. ASSUME NEW k \in 1 .. m + n PROVE (x \o y)[k] = z[k]
  <2>1. CASE k <= m
    BY <1>1, <1>3, <1>4, <2>1
  <2>2. CASE ~(k <= m)
    <3>1. k - m \in 1 .. n /\ a + m + (k - m) = a + k
      BY <1>1, <2>2
    <3> QED
      BY <1>1, <1>3, <1>4, <2>2, <3>1
  <2> QED
    BY <2>1, <2>2
<1>6. x \o y = z
  BY <1>1, <1>2, <1>4, <1>5, SeqEqual
<1> QED
  BY <1>6 DEF x, y, z

\* A part of a run is a run.
PartOf(a, b, c, d, i, j) ==
  /\ a \in Nat /\ b \in Nat /\ c \in Nat /\ d \in Nat /\ i \in Nat /\ j \in Nat
  /\ a <= c /\ c <= d /\ d <= b /\ a + i = c + 1 /\ a + j = d

LEMMA RunPart ==
  ASSUME NEW a, NEW b, NEW c, NEW d, NEW i, NEW j, PartOf(a, b, c, d, i, j)
  PROVE  SubSeq(Run(a, b), i, j) = Run(c, d)
<1> DEFINE x == Run(a, b)
           z == Run(c, d)
           m == b - a
           n == d - c
<1>1. /\ a <= b /\ m \in Nat /\ n \in Nat /\ 1 <= i /\ j - i + 1 = n /\ j <= m /\ i <= j + 1
      /\ a \in Nat /\ b \in Nat /\ c \in Nat /\ d \in Nat /\ i \in Nat /\ j \in Nat
      /\ c <= d /\ a + i = c + 1
  BY DEF PartOf
<1>2. x \in Seq(Nat) /\ Len(x) = m /\ \A k \in 1 .. m : x[k] = a + k
  BY <1>1, RunType DEF Run
<1>3. z \in Seq(Nat) /\ Len(z) = n /\ \A k \in 1 .. n : z[k] = c + k
  BY <1>1, RunType DEF Run
<1> HIDE DEF x, z, m, n
<1>4. SubSeq(x, i, j) \in Seq(Nat) /\ Len(SubSeq(x, i, j)) = n
  <2>1. \A k \in i .. j : k \in 1 .. Len(x)
    BY <1>1, <1>2
  <2>2. \A k \in i .. j : x[k] \in Nat
    BY <1>2, <2>1
  <2> QED
    BY <1>1, <1>2, <2>2
<1>5. ASSUME NEW k \in 1 .. n PROVE SubSeq(x, i, j)[k] = z[k]
  <2>1. i + k - 1 \in 1 .. m /\ a + (i + k - 1) = c + k /\ k \in 1 .. j - i + 1
    BY <1>1
  <2>2. SubSeq(x, i, j)[k] = x[i + k - 1]
    BY <1>1, <1>2, <2>1
  <2> QED
    BY <1>2, <1>3, <2>1, <2>2
<1>6. SubSeq(x, i, j) = z
  BY <1>1, <1>3, <1>4, <1>5, SeqEqual
<1> QED
  BY <1>6 DEF x, z

-----------------------------------------------------------------------------
\* The inductive invariant

\* A send half between two steps, with what it put into the ring and sent.
SendOK(t) == SP!Good(t) /\ SP!Truthful(t) /\ t.cc_ops = "new_reno"

\* A receive half between two steps that took nothing past position b.
RecvOK(t, b) == RP!Settled(t) /\ RP!TrueHalf(t) /\ RP!Within(t, b)

\* A segment in the network: part of the stream that send half t has written.
SegOK(m, t) ==
  m \in [seq : Nat, data : Seq(Nat)] /\ m.data # <<>> /\ SP!Carries(t, m)

\* An ACK in the network: for bytes that receive half t has.
AckOK(m, t) == m \in [ack : Nat, win : Nat] /\ m.ack <= t.rcv_nxt

AppOK ==
  /\ app \in [todo : Nat, left : Nat, asleep : BOOLEAN, draining : BOOLEAN]
  /\ app.todo + app.left + s.send_buf_tail = StreamLen

\* Both halves are in order, hold bytes of the stream and nothing else; the
\* server is never ahead of what the client wrote, nor the client's snd_una
\* ahead of the server, also through what is in the network.
ConnInv ==
  /\ SendOK(s) /\ s.out = {} /\ AppOK
  /\ RecvOK(r, s.send_buf_tail)
  /\ delivered = Stream(1, r.recv_buf_head)
  /\ r.adv.ack <= r.rcv_nxt /\ s.snd_una <= r.rcv_nxt
  /\ \A m \in BagToSet(segs) : SegOK(m, s)
  /\ \A m \in BagToSet(acks) : AckOK(m, r)

\* The numbers and sets a good half is made of.
LEMMA SendNumbers ==
  ASSUME NEW t, SP!Good(t)
  PROVE  /\ t \in SP!SendHalves
         /\ t.snd_una \in Nat /\ t.send_buf_head \in Nat /\ t.send_buf_tail \in Nat
         /\ t.snd_wnd \in Nat /\ t.snd_max \in Nat
         /\ 1 <= t.snd_una /\ t.snd_una <= t.snd_max /\ t.snd_max <= t.send_buf_tail + 1
         /\ t.send_buf_head = t.snd_una - 1 /\ t.send_buf_head <= t.send_buf_tail
         /\ t.send_buf_tail - t.send_buf_head <= SEND_BUF_SIZE
<1>1. t \in SP!SendHalves /\ SP!Ordered(t)
  BY DEF SP!Good
<1>2. /\ t.snd_una \in Nat /\ t.send_buf_head \in Nat /\ t.send_buf_tail \in Nat
      /\ t.snd_wnd \in Nat /\ t.snd_max \in Nat /\ t.snd_nxt \in Nat
  BY <1>1 DEF SP!SendHalves
<1>3. /\ 1 <= t.snd_una /\ t.snd_una <= t.snd_nxt /\ t.snd_nxt <= t.snd_max
      /\ t.snd_max <= t.send_buf_tail + 1 /\ t.send_buf_head = t.snd_una - 1
      /\ t.send_buf_tail - t.send_buf_head <= SEND_BUF_SIZE
  BY <1>1 DEF SP!Ordered
<1> QED
  BY <1>1, <1>2, <1>3

LEMMA RecvNumbers ==
  ASSUME NEW t, RP!GoodHalf(t)
  PROVE  /\ t \in RP!RecvHalves
         /\ t.rcv_nxt \in Nat /\ 1 <= t.rcv_nxt /\ t.rcv_nxt <= StreamLen + 1
         /\ t.recv_buf_head \in Nat /\ t.recv_buf_tail \in Nat
         /\ t.recv_buf_tail = t.rcv_nxt - 1 /\ t.recv_buf_head <= t.recv_buf_tail
         /\ t.recv_buf_tail - t.recv_buf_head <= RECV_BUF_SIZE
         /\ t.adv \in [ack : Nat, win : Nat]
<1>1. t \in RP!RecvHalves /\ t.ooo_bytes \in Nat
  BY DEF RP!GoodHalf, RP!RecvHalves
<1>2. /\ t.rcv_nxt \in Nat /\ t.recv_buf_head \in Nat /\ t.recv_buf_tail \in Nat
      /\ t.adv \in [ack : Nat, win : Nat]
  BY <1>1 DEF RP!RecvHalves
<1>3. /\ 1 <= t.rcv_nxt /\ t.rcv_nxt <= StreamLen + 1
      /\ t.recv_buf_tail = t.rcv_nxt - 1 /\ t.recv_buf_head <= t.recv_buf_tail
      /\ t.recv_buf_tail - t.recv_buf_head + t.ooo_bytes <= RECV_BUF_SIZE
  BY DEF RP!GoodHalf
<1>4. RECV_BUF_SIZE \in Nat
  BY RecvConstants DEF RP!RecvAssumption
<1> QED
  BY <1>1, <1>2, <1>3, <1>4

\* What was sent leaves the send half for the network.
LEMMA SentGood ==
  ASSUME NEW t, SendOK(t)
  PROVE  LET u == [t EXCEPT !.out = {}]
         IN  /\ SendOK(u) /\ u.out = {} /\ u.send_buf_tail = t.send_buf_tail
             /\ u.snd_una = t.snd_una
<1> DEFINE u == [t EXCEPT !.out = {}]
<1>1. SP!Good(t) /\ t \in SP!SendHalves /\ SP!Truthful(t)
  BY DEF SendOK, SP!Good
<1>2. /\ u.snd_una = t.snd_una /\ u.snd_nxt = t.snd_nxt /\ u.snd_max = t.snd_max
      /\ u.cwnd = t.cwnd /\ u.ssthresh = t.ssthresh /\ u.ca_state = t.ca_state
      /\ u.recover = t.recover /\ u.cc_ops = t.cc_ops /\ u.rexmt = t.rexmt
      /\ u.send_buf = t.send_buf /\ u.send_buf_head = t.send_buf_head
      /\ u.send_buf_tail = t.send_buf_tail /\ u.out = {} /\ u \in SP!SendHalves
  BY <1>1 DEF SP!SendHalves
<1> HIDE DEF u
<1>3. SP!Good(u)
  BY <1>1, <1>2 DEF SP!Good, SP!Ordered, SP!Floored, SP!Recovering
<1>4. SP!Truthful(u)
  BY <1>1, <1>2 DEF SP!Truthful, SP!Filled
<1> QED
  BY <1>2, <1>3, <1>4 DEF SendOK, u

\* More that is written leaves the rest as it was.
LEMMA WithinMore ==
  ASSUME NEW t, RP!GoodHalf(t), NEW a \in Nat, NEW b \in Nat, a <= b, RP!Within(t, a)
  PROVE  RP!Within(t, b)
<1>1. RP!Bytes(t.ooo) \subseteq 1 .. StreamLen /\ StreamLen \in Nat
  BY RP!BytesFinite, RecvConstants DEF RP!GoodHalf, RP!ReceiverAssumption
<1>2. t.rcv_nxt \in Nat
  BY RecvNumbers
<1>3. \A n \in RP!Bytes(t.ooo) : n \in Nat
  BY <1>1
<1> QED
  BY <1>2, <1>3 DEF RP!Within

LEMMA SegMore ==
  ASSUME NEW t, NEW u, t.send_buf_tail \in Nat, u.send_buf_tail \in Nat,
         t.send_buf_tail <= u.send_buf_tail, NEW m, SegOK(m, t)
  PROVE  SegOK(m, u)
<1>1. m.seq \in Nat /\ Len(m.data) \in Nat
  BY DEF SegOK
<1> QED
  BY <1>1 DEF SegOK, SP!Carries

LEMMA AckMore ==
  ASSUME NEW t, NEW u, t.rcv_nxt \in Nat, u.rcv_nxt \in Nat, t.rcv_nxt <= u.rcv_nxt,
         NEW m, AckOK(m, t)
  PROVE  AckOK(m, u)
<1>1. m.ack \in Nat
  BY DEF AckOK
<1> QED
  BY <1>1 DEF AckOK

\* A step of the client: its half becomes t, what t sent is in the network.
LEMMA SendStep ==
  ASSUME ConnInv, NEW t, SendOK(t), \A g \in t.out : g.data # <<>>,
         s.send_buf_tail <= t.send_buf_tail, t.snd_una <= r.rcv_nxt,
         Transmit(t), r' = r, delivered' = delivered, AppOK',
         BagToSet(acks') \subseteq BagToSet(acks)
  PROVE  ConnInv' /\ s'.send_buf_tail = t.send_buf_tail
<1>1. /\ s' = [t EXCEPT !.out = {}] /\ SendOK(s') /\ s'.out = {}
      /\ s'.send_buf_tail = t.send_buf_tail /\ s'.snd_una = t.snd_una
  BY SentGood DEF Transmit
<1>2. SP!Good(s) /\ SP!Good(t) /\ RP!GoodHalf(r)
  BY DEF ConnInv, SendOK, RecvOK, RP!Settled
<1>3. /\ s.send_buf_tail \in Nat /\ t.send_buf_tail \in Nat /\ t.snd_una \in Nat
      /\ t \in SP!SendHalves /\ r.rcv_nxt \in Nat
  BY <1>2, SendNumbers, RecvNumbers
<1>4. /\ t.send_buf_tail <= s'.send_buf_tail /\ s'.send_buf_tail \in Nat
      /\ s.send_buf_tail <= s'.send_buf_tail
  BY <1>1, <1>3
<1>5. RecvOK(r', s'.send_buf_tail)
  BY <1>1, <1>2, <1>3, WithinMore DEF ConnInv, RecvOK
<1>6. ASSUME NEW m \in BagToSet(segs') PROVE SegOK(m, s')
  <2>1. m \in BagToSet(segs) \/ m \in t.out
    BY BagJoined DEF Transmit
  <2>2. CASE m \in BagToSet(segs)
    BY <2>2, <1>1, <1>3, SegMore DEF ConnInv
  <2>3. CASE m \in t.out
    <3>1. m \in [seq : Nat, data : Seq(Nat)]
      BY <2>3, <1>3 DEF SP!SendHalves
    <3>2. m.data # <<>> /\ SP!Carries(t, m)
      BY <2>3 DEF SendOK, SP!Truthful
    <3>3. SegOK(m, t)
      BY <3>1, <3>2 DEF SegOK
    <3> QED
      BY <3>3, <1>4, <1>3, SegMore
  <2> QED
    BY <2>1, <2>2, <2>3
<1>7. \A m \in BagToSet(acks') : AckOK(m, r')
  BY DEF ConnInv
<1>8. /\ delivered' = Stream(1, r'.recv_buf_head) /\ r'.adv.ack <= r'.rcv_nxt
      /\ s'.snd_una <= r'.rcv_nxt
  BY <1>1 DEF ConnInv
<1> QED
  BY <1>1, <1>5, <1>6, <1>7, <1>8 DEF ConnInv

\* A step of the server: its half becomes t, and an ACK that leaves is t's.
LEMMA RecvStep ==
  ASSUME ConnInv, NEW t, RecvOK(t, s.send_buf_tail), r.rcv_nxt <= t.rcv_nxt,
         RP!Stamped(t) \/ t.adv = r.adv,
         r' = t, delivered' = Stream(1, t.recv_buf_head), UNCHANGED <<s, app>>,
         BagToSet(acks') \subseteq BagToSet(acks) \cup {t.adv},
         BagToSet(segs') \subseteq BagToSet(segs)
  PROVE  ConnInv'
<1>1. RP!GoodHalf(r) /\ RP!GoodHalf(t) /\ SP!Good(s)
  BY DEF ConnInv, SendOK, RecvOK, RP!Settled
<1>2. /\ r.rcv_nxt \in Nat /\ t.rcv_nxt \in Nat /\ s.snd_una \in Nat
      /\ t.adv \in [ack : Nat, win : Nat] /\ r.adv \in [ack : Nat, win : Nat]
  BY <1>1, RecvNumbers, SendNumbers
<1>3. t.adv.ack <= t.rcv_nxt
  <2>1. CASE RP!Stamped(t)
    BY <2>1, <1>2 DEF RP!Stamped
  <2>2. CASE t.adv = r.adv
    <3>1. t.adv.ack \in Nat /\ t.adv.ack <= r.rcv_nxt
      BY <2>2, <1>2 DEF ConnInv
    <3> QED
      BY <3>1, <1>2
  <2> QED
    BY <2>1, <2>2
<1>4. AckOK(t.adv, t)
  BY <1>2, <1>3 DEF AckOK
<1>5. ASSUME NEW m \in BagToSet(acks') PROVE AckOK(m, r')
  <2>1. CASE m = t.adv
    BY <2>1, <1>4
  <2>2. CASE m \in BagToSet(acks)
    BY <2>2, <1>2, AckMore DEF ConnInv
  <2> QED
    BY <2>1, <2>2
<1>6. \A m \in BagToSet(segs') : SegOK(m, s')
  BY DEF ConnInv
<1>7. s'.snd_una <= r'.rcv_nxt
  BY <1>2 DEF ConnInv
<1>8. AppOK'
  BY DEF ConnInv, AppOK
<1> QED
  BY <1>3, <1>5, <1>6, <1>7, <1>8 DEF ConnInv

-----------------------------------------------------------------------------
\* One lemma per action: the invariant is kept, and at most one end of the
\* pipe moves, forward

Moved ==
  /\ s.send_buf_tail <= s'.send_buf_tail /\ r.recv_buf_head <= r'.recv_buf_head
  /\ s'.send_buf_tail = s.send_buf_tail \/ r'.recv_buf_head = r.recv_buf_head

LEMMA AppStep ==
  ASSUME ConnInv, ClientApp PROVE ConnInv' /\ Moved
<1> DEFINE n    == chunk
           tail == s.send_buf_tail
           data == Stream(tail + 1, n)
           u    == S!append(s, data)
           t    == IF n = 0 THEN s ELSE u
<1>1. SendOK(s) /\ SP!Good(s) /\ RP!GoodHalf(r) /\ s.out = {}
  BY DEF ConnInv, SendOK, RecvOK, RP!Settled
<1>2. tail \in Nat /\ s.snd_una \in Nat /\ S!send_free_space(s) \in Nat
  <2>1. SEND_BUF_SIZE \in Nat
    BY SendConstants DEF SP!SendAssumption
  <2> QED
    BY <1>1, <2>1, SendNumbers DEF S!send_free_space
<1>3. /\ app.todo \in Nat /\ app.left \in Nat /\ app \in [todo : Nat, left : Nat,
         asleep : BOOLEAN, draining : BOOLEAN] /\ app.todo + app.left + tail = StreamLen
  BY DEF ConnInv, AppOK
<1>4. n \in Nat /\ n <= app.left /\ n <= S!send_free_space(s) /\ n \in {app.left, S!send_free_space(s)}
  BY <1>2, <1>3 DEF chunk, S!MIN
<1>5. /\ data \in Seq(Nat) /\ Len(data) = n /\ \A k \in 1 .. Len(data) : data[k] = tail + k
  <2>1. \A k \in 1 .. n : tail + 1 + k - 1 \in Nat /\ tail + 1 + k - 1 = tail + k
    BY <1>2, <1>4
  <2> HIDE DEF n, tail
  <2>2. [k \in 1 .. n |-> tail + 1 + k - 1] \in Seq(Nat)
        /\ Len([k \in 1 .. n |-> tail + 1 + k - 1]) = n
    BY <1>4, <2>1
  <2> QED
    BY <2>1, <2>2 DEF Stream
<1> HIDE DEF n, data
<1>6. SendOK(t) /\ (\A g \in t.out : g.data # <<>>) /\ t.send_buf_tail = tail + n
      /\ t.snd_una = s.snd_una
  <2>1. CASE n = 0
    BY <2>1, <1>1, <1>2
  <2>2. CASE n # 0
    <3>1. u = SP!append(s, data)
      BY SameAppend
    <3>2. Len(data) <= SP!send_free_space(s)
      BY <1>4, <1>5, SameFields
    <3>3. /\ SP!Good(u) /\ u.send_buf_tail = tail + Len(data) /\ u.snd_una = s.snd_una
          /\ SP!Truthful(s) /\ (\A k \in 1 .. Len(data) : data[k] = s.send_buf_tail + k)
               => SP!Truthful(u)
          /\ SP!Onward(s, u)
      <4> HIDE DEF u
      <4> QED
        BY <1>1, <1>5, <3>1, <3>2, SendConstants, SP!AppendGood
    <3> HIDE DEF u
    <3>4. SP!Truthful(u)
      BY <1>1, <1>5, <3>3 DEF SendOK
    <3>5. u.cc_ops = "new_reno" /\ \A g \in u.out : g.data # <<>>
      BY <1>1, <3>3 DEF SP!Onward, SendOK
    <3> QED
      BY <2>2, <3>3, <3>4, <3>5, <1>5 DEF SendOK
  <2> QED
    BY <2>1, <2>2
<1>7. Transmit(t)
  BY DEF ClientApp, n, data
<1> HIDE DEF u, t
<1>8. /\ app' \in [todo : Nat, left : Nat, asleep : BOOLEAN, draining : BOOLEAN]
      /\ app'.todo + app'.left = app.todo + app.left - n
  <2>1. ASSUME NEW len \in Chunks, CallSend(len)
        PROVE  /\ app' \in [todo : Nat, left : Nat, asleep : BOOLEAN, draining : BOOLEAN]
               /\ app'.todo + app'.left = app.todo + app.left - n
    <3>1. len \in Nat /\ app.left = 0 /\ len <= app.todo /\ n = 0
          /\ app' = [app EXCEPT !.todo = @ - len, !.left = len]
      BY <2>1, <1>3, <1>4, ConnectionAssumption DEF ConnectionAssumption, CallSend
    <3> DEFINE rest == app.todo - len
    <3>2. rest \in Nat /\ app' = [app EXCEPT !.todo = rest, !.left = len]
      BY <3>1, <1>3
    <3> HIDE DEF rest
    <3>3. /\ app' \in [todo : Nat, left : Nat, asleep : BOOLEAN, draining : BOOLEAN]
          /\ app'.todo = rest /\ app'.left = len
      BY <3>1, <3>2, <1>3
    <3> QED
      BY <3>1, <3>3, <1>3 DEF rest
  <2>2. CASE WriteChunk
    <3>1. /\ app.left - n \in Nat /\ (n < app.left) \in BOOLEAN
          /\ app' = [app EXCEPT !.left = @ - n, !.asleep = n < app.left]
      BY <2>2, <1>3, <1>4 DEF WriteChunk, n
    <3> DEFINE left == app.left - n
               more == n < app.left
    <3>2. left \in Nat /\ more \in BOOLEAN /\ app' = [app EXCEPT !.left = left, !.asleep = more]
      BY <3>1
    <3> HIDE DEF left, more
    <3>3. /\ app' \in [todo : Nat, left : Nat, asleep : BOOLEAN, draining : BOOLEAN]
          /\ app'.todo = app.todo /\ app'.left = left
      BY <3>2, <1>3
    <3> QED
      BY <3>3, <1>3, <1>4 DEF left
  <2>3. CASE Drain
    <3> DEFINE wait == s.send_buf_head # s.send_buf_tail
    <3>1. /\ app.left = 0 /\ n = 0 /\ wait \in BOOLEAN
          /\ app' = [app EXCEPT !.draining = TRUE, !.asleep = wait]
      BY <2>3, <1>3, <1>4 DEF Drain
    <3> HIDE DEF wait
    <3>2. /\ app' \in [todo : Nat, left : Nat, asleep : BOOLEAN, draining : BOOLEAN]
          /\ app'.todo = app.todo /\ app'.left = app.left
      BY <3>1, <1>3
    <3> QED
      BY <3>1, <3>2, <1>3
  <2> QED
    BY <2>1, <2>2, <2>3 DEF ClientApp, AppMoves
<1>9. AppOK'
  <2>1. s' = [t EXCEPT !.out = {}] /\ t \in SP!SendHalves
    BY <1>6, <1>7 DEF Transmit, SendOK, SP!Good
  <2>2. s'.send_buf_tail = t.send_buf_tail
    BY <2>1 DEF SP!SendHalves
  <2>3. app'.todo \in Nat /\ app'.left \in Nat
    BY <1>8
  <2>4. app'.todo + app'.left + s'.send_buf_tail = StreamLen
    BY <2>2, <2>3, <1>2, <1>3, <1>4, <1>6, <1>8
  <2> QED
    BY <2>4, <1>8 DEF AppOK
<1>10. /\ s.send_buf_tail <= t.send_buf_tail /\ t.snd_una <= r.rcv_nxt
       /\ r' = r /\ delivered' = delivered /\ BagToSet(acks') \subseteq BagToSet(acks)
  BY <1>2, <1>4, <1>6 DEF ClientApp, ConnInv
<1>11. ConnInv' /\ s'.send_buf_tail = t.send_buf_tail
  BY <1>6, <1>7, <1>9, <1>10, SendStep
<1>12. r.recv_buf_head \in Nat
  BY <1>1, RecvNumbers
<1> QED
  BY <1>10, <1>11, <1>12 DEF Moved

LEMMA AckStep ==
  ASSUME ConnInv, NEW m \in BagToSet(acks), DeliverAck(m)
  PROVE  ConnInv' /\ Moved
<1> DEFINE in == [fired |-> FALSE, armed |-> TRUE]
           has_data == FALSE
           h  == SP!handle_ack(s, m.ack, m.win, has_data, in)
           t  == SP!utcp_output(h)
<1>1. /\ SP!Good(s) /\ SP!Truthful(s) /\ s.cc_ops = "new_reno" /\ s.out = {}
      /\ RP!GoodHalf(r)
  BY DEF ConnInv, SendOK, RecvOK, RP!Settled
<1>2. m.ack \in Nat /\ m.win \in Nat /\ m.ack <= r.rcv_nxt /\ in \in SP!Inputs
      /\ has_data \in BOOLEAN
  BY SameStream DEF ConnInv, AckOK
<1> HIDE DEF in, has_data
<1>3. /\ SP!Good(h) /\ h.send_buf_tail = s.send_buf_tail
      /\ h.snd_una = (IF SP!valid_ack(s, m.ack) THEN m.ack ELSE s.snd_una)
      /\ (SP!Truthful(s) => SP!Truthful(h)) /\ SP!Sends(s, h)
  <2> HIDE DEF h
  <2>1. h = SP!handle_ack(s, m.ack, m.win, has_data, in)
    BY DEF h
  <2> QED
    BY <1>1, <1>2, <2>1, SendConstants, SP!HandleAck
<1>4. Transmit(t) /\ app' = [app EXCEPT !.asleep = @ /\ ~S!ack_wakes(s, m.ack, m.win)]
      /\ acks' = acks (-) SetToBag({m}) /\ UNCHANGED <<r, delivered, faults>>
  BY SameHandleAck, SameOutput DEF DeliverAck, in, has_data
<1> HIDE DEF h
<1>5. SP!Truthful(h) /\ h.cc_ops = "new_reno" /\ \A g \in h.out : g.data # <<>>
  BY <1>1, <1>3 DEF SP!Sends, SP!NewRenos
<1>6. /\ SP!Good(t) /\ SP!Kept(h, t) /\ SP!Truthful(t) /\ SP!Onward(h, t)
  BY <1>3, <1>5, SendConstants, SP!OutputKept, SP!OutputTrue, SP!OutputSent
<1> HIDE DEF t
<1>7. /\ SendOK(t) /\ (\A g \in t.out : g.data # <<>>)
      /\ t.send_buf_tail = s.send_buf_tail /\ t.snd_una = h.snd_una
  BY <1>3, <1>5, <1>6 DEF SendOK, SP!Onward, SP!Kept
<1>8. h.snd_una <= r.rcv_nxt
  BY <1>2, <1>3 DEF ConnInv
<1>9. s.send_buf_tail \in Nat /\ r.recv_buf_head \in Nat
  BY <1>1, SendNumbers, RecvNumbers
<1>10. AppOK'
  <2> DEFINE asleep == app.asleep /\ ~S!ack_wakes(s, m.ack, m.win)
  <2>1. /\ app \in [todo : Nat, left : Nat, asleep : BOOLEAN, draining : BOOLEAN]
        /\ app.todo + app.left + s.send_buf_tail = StreamLen
    BY DEF ConnInv, AppOK
  <2>2. asleep \in BOOLEAN /\ app' = [app EXCEPT !.asleep = asleep]
    BY <1>4
  <2> HIDE DEF asleep
  <2>3. /\ app' \in [todo : Nat, left : Nat, asleep : BOOLEAN, draining : BOOLEAN]
        /\ app'.todo = app.todo /\ app'.left = app.left
    BY <2>1, <2>2
  <2>4. s'.send_buf_tail = s.send_buf_tail
    BY <1>4, <1>7, SentGood DEF Transmit
  <2>5. app'.todo + app'.left + s'.send_buf_tail = StreamLen
    BY <2>1, <2>3, <2>4
  <2> QED
    BY <2>3, <2>5 DEF AppOK
<1>11. ConnInv' /\ s'.send_buf_tail = t.send_buf_tail
  BY <1>4, <1>7, <1>8, <1>9, <1>10, BagReduced, SendStep
<1> QED
  BY <1>4, <1>7, <1>9, <1>11 DEF Moved

LEMMA TimeoutStep ==
  ASSUME ConnInv, RexmtTimeout PROVE ConnInv' /\ Moved
<1> DEFINE in == [fired |-> FALSE, armed |-> TRUE]
           t  == SP!rexmt_timeout(s, in)
<1>1. /\ SP!Good(s) /\ SP!Truthful(s) /\ s.cc_ops = "new_reno" /\ s.out = {}
      /\ RP!GoodHalf(r)
  BY DEF ConnInv, SendOK, RecvOK, RP!Settled
<1>2. in \in SP!Inputs
  BY SameStream
<1>3. s.rexmt /\ Transmit(t) /\ UNCHANGED <<app, r, delivered, acks>>
  BY SameTimeout DEF RexmtTimeout
<1> HIDE DEF in
<1>4. /\ SP!Good(t) /\ t.send_buf_tail = s.send_buf_tail /\ t.snd_una = s.snd_una
      /\ SP!Truthful(t) /\ t.cc_ops = "new_reno" /\ \A g \in t.out : g.data # <<>>
  <2> HIDE DEF t
  <2>1. t = SP!rexmt_timeout(s, in)
    BY DEF t
  <2> QED
    BY <1>1, <1>2, <1>3, <2>1, SendConstants, SP!RexmtTimeoutGood
<1> HIDE DEF t
<1>5. SendOK(t)
  BY <1>4 DEF SendOK
<1>6. s.send_buf_tail \in Nat /\ r.recv_buf_head \in Nat
  BY <1>1, SendNumbers, RecvNumbers
<1>7. AppOK'
  <2>1. s'.send_buf_tail = s.send_buf_tail
    BY <1>3, <1>4, <1>5, SentGood DEF Transmit
  <2> QED
    BY <1>3, <2>1 DEF ConnInv, AppOK
<1>8. s.send_buf_tail <= t.send_buf_tail /\ t.snd_una <= r.rcv_nxt
  BY <1>4, <1>6 DEF ConnInv
<1>9. ConnInv' /\ s'.send_buf_tail = t.send_buf_tail
  BY <1>3, <1>4, <1>5, <1>7, <1>8, SendStep
<1> QED
  BY <1>3, <1>4, <1>6, <1>9 DEF Moved

\* A segment that only has to be acknowledged.
LEMMA ForcedOK ==
  ASSUME NEW v, RP!GoodHalf(v), RP!Ahead(v), RP!TrueHalf(v), NEW b \in Nat, RP!Within(v, b),
         NEW has_data \in BOOLEAN
  PROVE  LET t == RP!utcp_output(RP!force_ack(v), has_data)
         IN  /\ RecvOK(t, b) /\ RP!Stamped(t) /\ t.rcv_nxt = v.rcv_nxt
             /\ t.recv_buf_head = v.recv_buf_head
<1> DEFINE t == RP!utcp_output(RP!force_ack(v), has_data)
<1>1. RP!Settled(t) /\ RP!SameStore(v, t) /\ RP!Stamped(t)
  BY RecvConstants, RP!ForcedSettles
<1> HIDE DEF t
<1>2. RP!TrueHalf(t)
  BY <1>1, RecvConstants, RP!SameStoreTrue
<1>3. t.rcv_nxt = v.rcv_nxt /\ t.ooo = v.ooo /\ t.recv_buf_head = v.recv_buf_head
  BY <1>1 DEF RP!SameStore
<1>4. RP!Within(t, b)
  BY <1>3 DEF RP!Within
<1> QED
  BY <1>1, <1>2, <1>3, <1>4 DEF RecvOK, t

\* What a segment does to the server's half.
LEMMA AcceptOK ==
  ASSUME ConnInv, NEW m \in BagToSet(segs), NEW alloc \in BOOLEAN,
         NEW has_data \in BOOLEAN, ~has_data, NEW t, t = R!utcp_output(Accept(m, alloc), has_data)
  PROVE  /\ RecvOK(t, s.send_buf_tail) /\ r.rcv_nxt <= t.rcv_nxt
         /\ RP!Stamped(t) \/ t.adv = r.adv
         /\ t.recv_buf_head = r.recv_buf_head
<1> DEFINE b   == s.send_buf_tail
           len == Len(m.data)
           dups == FALSE
<1>1. /\ RP!GoodHalf(r) /\ RP!Ahead(r) /\ RP!Settled(r) /\ RP!TrueHalf(r) /\ RP!Within(r, b)
      /\ SP!Good(s)
  BY DEF ConnInv, SendOK, RecvOK, RP!Settled
<1>2. b \in Nat /\ r.rcv_nxt \in Nat /\ dups \in BOOLEAN
  BY <1>1, SendNumbers, RecvNumbers
<1> HIDE DEF dups
<1>3. m.seq \in Nat \ {0} /\ m.data \in Seq(Nat) /\ m.data # <<>> /\ len \in Nat \ {0}
      /\ m.seq + len <= b + 1 /\ m.data = RP!Stream(m.seq, len)
  <2>1. /\ m.seq \in Nat /\ m.data \in Seq(Nat) /\ m.data # <<>> /\ 1 <= m.seq
        /\ m.seq + len <= b + 1 /\ m.data = SP!Stream(m.seq, len)
    BY DEF ConnInv, SegOK, SP!Carries
  <2>2. len \in Nat \ {0}
    BY <2>1
  <2> QED
    BY <2>1, <2>2, SameStream
<1>4. b <= StreamLen /\ StreamLen \in Nat
  <2>1. app.todo \in Nat /\ app.left \in Nat /\ app.todo + app.left + b = StreamLen
    BY DEF ConnInv, AppOK
  <2> QED
    BY <2>1, <1>2, RecvConstants DEF RP!ReceiverAssumption
<1>5. m.seq + len <= StreamLen + 1
  BY <1>2, <1>3, <1>4
<1>6. R!EndOf(m) = m.seq + len
  BY DEF R!EndOf
<1>7. CASE m.seq > r.rcv_nxt
  <2> DEFINE v == RP!insert_ooo_segment(r, m.seq, m.data, alloc)
  <2>1. Accept(m, alloc) = R!force_ack(R!insert_ooo_segment(r, m.seq, m.data, alloc))
    <3>1. ~(R!EndOf(m) <= r.rcv_nxt)
      BY <1>2, <1>3, <1>6, <1>7
    <3> QED
      BY <1>7, <3>1, Zenon DEF Accept
  <2>2. t = RP!utcp_output(RP!force_ack(v), has_data)
    BY <2>1, SameInsert, SameFields, SameRecvOutput
  <2>3. /\ RP!GoodHalf(v) /\ RP!Ahead(v) /\ v.rcv_nxt = r.rcv_nxt
        /\ v.recv_buf_head = r.recv_buf_head /\ RP!TrueHalf(v) /\ RP!Within(v, b)
    <3> HIDE DEF b, len, v
    <3>1. v = RP!insert_ooo_segment(r, m.seq, m.data, alloc) /\ r.rcv_nxt < m.seq /\ len = Len(m.data)
      BY <1>7, <1>2, <1>3 DEF v, len
    <3> QED
      BY <1>1, <1>2, <1>3, <1>5, <3>1, RecvConstants, RP!InsertGood
  <2> HIDE DEF v, b
  <2>4. /\ RecvOK(t, b) /\ RP!Stamped(t) /\ t.rcv_nxt = v.rcv_nxt
        /\ t.recv_buf_head = v.recv_buf_head
    BY <1>2, <2>2, <2>3, ForcedOK
  <2>5. r.rcv_nxt <= t.rcv_nxt
    BY <1>2, <2>3, <2>4
  <2> QED
    BY <2>3, <2>4, <2>5 DEF b
<1>8. CASE ~(m.seq > r.rcv_nxt) /\ R!EndOf(m) <= r.rcv_nxt
  <2>1. Accept(m, alloc) = R!force_ack(r)
    BY <1>8, Zenon DEF Accept
  <2>2. t = RP!utcp_output(RP!force_ack(r), has_data)
    BY <2>1, SameFields, SameRecvOutput
  <2> HIDE DEF b
  <2>3. /\ RecvOK(t, b) /\ RP!Stamped(t) /\ t.rcv_nxt = r.rcv_nxt
        /\ t.recv_buf_head = r.recv_buf_head
    BY <1>1, <1>2, <2>2, ForcedOK
  <2>4. r.rcv_nxt <= t.rcv_nxt
    BY <1>2, <2>3
  <2> QED
    BY <2>3, <2>4 DEF b
<1>9. CASE ~(m.seq > r.rcv_nxt) /\ ~(R!EndOf(m) <= r.rcv_nxt)
  <2> DEFINE data == RP!fresh(r, m.seq, m.data)
  <2>1. Accept(m, alloc)
          = IF R!fits(r, R!fresh(r, m.seq, m.data))
              THEN R!accept_in_order(r, R!fresh(r, m.seq, m.data), dups) ELSE r
    BY <1>9, Zenon DEF Accept, dups
  <2>2. R!fresh(r, m.seq, m.data) = data /\ (R!fits(r, data) <=> RP!fits(r, data))
    BY SameFresh
  <2>3. data \in Seq(Nat) /\ r.rcv_nxt + Len(data) = m.seq + len
        /\ data = RP!Stream(r.rcv_nxt, Len(data))
    <3> HIDE DEF len, data
    <3>1. m.seq <= r.rcv_nxt /\ r.rcv_nxt < m.seq + len
          /\ data = RP!fresh(r, m.seq, RP!Stream(m.seq, len))
      BY <1>2, <1>3, <1>6, <1>9 DEF data
    <3>2. m.seq \in Nat \ {0} /\ len \in Nat /\ r.rcv_nxt \in Nat
      BY <1>2, <1>3
    <3>3. LET d == RP!fresh(r, m.seq, RP!Stream(m.seq, len))
          IN  /\ d \in Seq(Nat) /\ r.rcv_nxt + Len(d) = m.seq + len
              /\ d = RP!Stream(r.rcv_nxt, Len(d))
      BY <3>1, <3>2, RecvConstants, RP!FreshType
    <3> QED
      BY <3>1, <3>3
  <2> HIDE DEF data
  <2>4. CASE RP!fits(r, data)
    <3>1. t = RP!utcp_output(RP!accept_in_order(r, data, dups), has_data)
      BY <2>1, <2>2, <2>4, SameAccept, SameRecvOutput
    <3>2. Len(data) \in Nat
      BY <2>3
    <3>3. r.rcv_nxt + Len(data) <= StreamLen + 1 /\ r.rcv_nxt + Len(data) <= b + 1
          /\ r.rcv_nxt <= r.rcv_nxt + Len(data)
      BY <1>2, <1>3, <1>5, <2>3, <3>2
    <3> HIDE DEF b, len
    <3>4. /\ RP!Settled(t) /\ (RP!Stamped(t) \/ t.adv = r.adv)
          /\ t.recv_buf_head = r.recv_buf_head /\ r.rcv_nxt + Len(data) <= t.rcv_nxt
          /\ RP!TrueHalf(r) /\ data = RP!Stream(r.rcv_nxt, Len(data)) => RP!TrueHalf(t)
          /\ \A c \in Nat : RP!Within(r, c) /\ r.rcv_nxt + Len(data) <= c + 1 => RP!Within(t, c)
      <4>1. RP!GoodHalf(r) /\ data \in Seq(Nat) /\ dups \in BOOLEAN
        BY <1>1, <1>2, <2>3
      <4> QED
        BY <2>4, <3>1, <3>2, <3>3, <4>1, RecvConstants, RP!AcceptSettles
    <3>5. RecvOK(t, b)
      BY <1>1, <1>2, <2>3, <3>3, <3>4 DEF RecvOK
    <3>6. RP!GoodHalf(t)
      BY <3>4 DEF RP!Settled
    <3>7. t.rcv_nxt \in Nat
      BY <3>6, RecvNumbers
    <3>8. r.rcv_nxt + Len(data) <= t.rcv_nxt
      BY <3>4
    <3>9. r.rcv_nxt <= t.rcv_nxt
      BY <1>2, <3>2, <3>7, <3>8
    <3> QED
      BY <3>4, <3>5, <3>9 DEF b
  <2>5. CASE ~RP!fits(r, data)
    <3>1. Accept(m, alloc) = r
      BY <2>1, <2>2, <2>5
    <3>2. "TF_ACKNOW" \notin r.t_flags
      BY <1>1 DEF RP!Settled
    <3>3. t = r
      BY <3>1, <3>2 DEF R!utcp_output
    <3>4. RecvOK(r, s.send_buf_tail) /\ r.rcv_nxt <= r.rcv_nxt
      BY <1>1, <1>2 DEF RecvOK
    <3> QED
      BY <3>3, <3>4
  <2> QED
    BY <2>4, <2>5
<1> QED
  BY <1>7, <1>8, <1>9

\* No byte that was not read has been delivered.
LEMMA SameDelivered ==
  ASSUME ConnInv, NEW t, t.recv_buf_head = r.recv_buf_head, delivered' = delivered
  PROVE  delivered' = Stream(1, t.recv_buf_head)
  BY DEF ConnInv

\* The ACK that Answer puts into the network is the one it has just stamped.
LEMMA AnswerAcks ==
  ASSUME NEW u, Answer(u)
  PROVE  BagToSet(acks') \subseteq BagToSet(acks) \cup {r'.adv}
<1>1. acks' = acks (+) SetToBag({r'.adv}) \/ acks' = acks
  BY DEF Answer
<1>2. BagToSet(acks (+) SetToBag({r'.adv})) = BagToSet(acks) \cup {r'.adv}
  BY BagJoined
<1> QED
  BY <1>1, <1>2

LEMMA SegStep ==
  ASSUME ConnInv, NEW m \in BagToSet(segs), DeliverSeg(m)
  PROVE  ConnInv' /\ Moved
<1> DEFINE has_data == FALSE
<1>1. has_data \in BOOLEAN /\ ~has_data
  OBVIOUS
<1>2. PICK alloc \in BOOLEAN : Answer(Accept(m, alloc))
  BY DEF DeliverSeg
<1>3. r' = R!utcp_output(Accept(m, alloc), has_data)
  BY <1>2 DEF Answer
<1> HIDE DEF has_data
<1>4. PICK t : t = r'
  OBVIOUS
<1>5. /\ RecvOK(t, s.send_buf_tail) /\ r.rcv_nxt <= t.rcv_nxt
      /\ RP!Stamped(t) \/ t.adv = r.adv
      /\ t.recv_buf_head = r.recv_buf_head
  BY <1>1, <1>3, <1>4, AcceptOK
<1>6. /\ UNCHANGED <<s, app>> /\ delivered' = delivered
      /\ BagToSet(segs') \subseteq BagToSet(segs)
  BY BagReduced DEF DeliverSeg
<1>7. BagToSet(acks') \subseteq BagToSet(acks) \cup {t.adv}
  BY <1>2, <1>4, AnswerAcks
<1>8. delivered' = Stream(1, t.recv_buf_head)
  BY <1>5, <1>6, SameDelivered
<1>9. ConnInv'
  BY <1>4, <1>5, <1>6, <1>7, <1>8, RecvStep
<1>10. Moved
  <2>1. s.send_buf_tail \in Nat /\ r.recv_buf_head \in Nat
    BY SendNumbers, RecvNumbers DEF ConnInv, SendOK, RecvOK, RP!Settled
  <2>2. s'.send_buf_tail = s.send_buf_tail /\ r'.recv_buf_head = r.recv_buf_head
    BY <1>4, <1>5, <1>6
  <2> QED
    BY <2>1, <2>2 DEF Moved
<1> QED
  BY <1>9, <1>10

LEMMA DelackStep ==
  ASSUME ConnInv, DelackExpire PROVE ConnInv' /\ Moved
<1> DEFINE has_data == FALSE
           flags == r.t_flags \ {"TF_DELACK"}
           timer == FALSE
           v == RP!Flagged(r, flags, timer)
<1>1. /\ RP!GoodHalf(r) /\ RP!Ahead(r) /\ RP!TrueHalf(r) /\ RP!Within(r, s.send_buf_tail)
      /\ SP!Good(s)
  BY DEF ConnInv, SendOK, RecvOK, RP!Settled
<1>2. has_data \in BOOLEAN /\ timer \in BOOLEAN /\ flags \in SUBSET {"TF_ACKNOW", "TF_DELACK"}
  BY <1>1, RecvNumbers DEF RP!RecvHalves
<1>3. s.send_buf_tail \in Nat /\ r.recv_buf_head \in Nat /\ r.rcv_nxt \in Nat
  BY <1>1, SendNumbers, RecvNumbers
<1>4. Answer(R!force_ack(v)) /\ UNCHANGED <<s, app, segs, delivered>>
  BY DEF DelackExpire, RP!Flagged
<1> HIDE DEF flags, timer
<1>5. RP!GoodHalf(v) /\ RP!SameStore(r, v)
  BY <1>1, <1>2, RecvConstants, RP!FlagsGood
<1> HIDE DEF v
<1>6. v.rcv_nxt = r.rcv_nxt /\ v.recv_buf_head = r.recv_buf_head /\ v.ooo = r.ooo
  BY <1>5 DEF RP!SameStore
<1>7. RP!Ahead(v) /\ RP!Within(v, s.send_buf_tail) /\ RP!TrueHalf(v)
  <2>1. RP!TrueHalf(v)
    BY <1>1, <1>5, RecvConstants, RP!SameStoreTrue
  <2> QED
    BY <1>1, <1>6, <2>1 DEF RP!Ahead, RP!Within
<1>8. r' = RP!utcp_output(RP!force_ack(v), has_data)
  BY <1>4, SameRecvOutput, SameFields DEF Answer
<1> HIDE DEF has_data
<1>9. PICK t : t = r'
  OBVIOUS
<1>10. /\ RecvOK(t, s.send_buf_tail) /\ RP!Stamped(t) /\ t.rcv_nxt = v.rcv_nxt
       /\ t.recv_buf_head = v.recv_buf_head
  BY <1>2, <1>3, <1>5, <1>7, <1>8, <1>9, ForcedOK
<1>11. r.rcv_nxt <= t.rcv_nxt /\ t.recv_buf_head = r.recv_buf_head
  BY <1>3, <1>6, <1>10
<1>12. BagToSet(acks') \subseteq BagToSet(acks) \cup {t.adv}
  BY <1>4, <1>9, AnswerAcks
<1>13. delivered' = Stream(1, t.recv_buf_head)
  BY <1>4, <1>11, SameDelivered
<1>14. ConnInv'
  BY <1>4, <1>9, <1>10, <1>11, <1>12, <1>13, RecvStep
<1>15. s'.send_buf_tail = s.send_buf_tail /\ r'.recv_buf_head = r.recv_buf_head
  BY <1>4, <1>9, <1>11
<1> QED
  BY <1>3, <1>14, <1>15 DEF Moved

LEMMA ReadStep ==
  ASSUME ConnInv, NEW len \in ReadLens, ServerApp(len)
  PROVE  ConnInv' /\ Moved
<1> DEFINE has_data == FALSE
           res  == RP!utcp_read(r, len, has_data)
           t    == res.r
           head == r.recv_buf_head
           n    == t.recv_buf_head - head
<1>1. /\ RP!GoodHalf(r) /\ RP!Settled(r) /\ RP!TrueHalf(r) /\ RP!Within(r, s.send_buf_tail)
      /\ SP!Good(s)
  BY DEF ConnInv, SendOK, RecvOK, RP!Settled
<1>2. has_data \in BOOLEAN /\ len \in Nat
  BY ConnectionAssumption DEF ConnectionAssumption
<1>3. s.send_buf_tail \in Nat /\ head \in Nat /\ r.rcv_nxt \in Nat
  BY <1>1, SendNumbers, RecvNumbers
<1>4. /\ RP!buffered(r) > 0 /\ r' = t /\ delivered' = delivered \o res.bytes
      /\ acks' = acks (+) SetToBag({t.adv}) \/ acks' = acks
      /\ UNCHANGED <<s, app, segs>>
  BY SameFields, SameRead DEF ServerApp, Reads
<1> HIDE DEF has_data
<1>5. RP!Settled(t)
  <2> HIDE DEF t
  <2>1. t = RP!utcp_read(r, len, has_data).r
    BY DEF t
  <2> QED
    BY <1>1, <1>2, <1>4, <2>1, RecvConstants, RP!ReadSettles
<1>6. /\ n \in Nat /\ t.rcv_nxt = r.rcv_nxt /\ t.ooo = r.ooo
      /\ RP!Stamped(t) \/ t.adv = r.adv
      /\ RP!TrueHalf(t) /\ res.bytes = [k \in 1 .. n |-> head + k]
  BY <1>1, <1>2, <1>4, RecvConstants, RP!ReadSettles
<1> HIDE DEF res, t
<1>7. RP!GoodHalf(t) /\ t.recv_buf_head \in Nat /\ t.rcv_nxt \in Nat
  BY <1>5, RecvNumbers DEF RP!Settled
<1>8. head <= t.recv_buf_head /\ head + n = t.recv_buf_head
  BY <1>3, <1>6, <1>7
<1>9. RecvOK(t, s.send_buf_tail) /\ r.rcv_nxt <= t.rcv_nxt
  BY <1>1, <1>3, <1>5, <1>6 DEF RecvOK, RP!Within
<1>10. delivered' = Stream(1, t.recv_buf_head)
  <2> HIDE DEF n, head
  <2>1. RP!Stream(1, head) \o [k \in 1 .. n |-> head + k] = RP!Stream(1, head + n)
    BY <1>3, <1>6, RecvConstants, RP!StreamConcat
  <2>2. delivered = RP!Stream(1, head)
    BY SameStream DEF ConnInv, head
  <2>3. delivered' = RP!Stream(1, t.recv_buf_head)
    BY <1>4, <1>6, <1>8, <2>1, <2>2
  <2> QED
    BY <2>3, SameStream
<1>11. /\ BagToSet(acks') \subseteq BagToSet(acks) \cup {t.adv}
       /\ BagToSet(segs') \subseteq BagToSet(segs)
  BY <1>4, BagJoined
<1>12. ConnInv'
  BY <1>4, <1>6, <1>9, <1>10, <1>11, RecvStep
<1>13. s'.send_buf_tail = s.send_buf_tail /\ r.recv_buf_head <= r'.recv_buf_head
  BY <1>4, <1>8
<1> QED
  BY <1>3, <1>12, <1>13 DEF Moved

\* The network drops or repeats something, or nothing happens.
LEMMA NetworkStep ==
  ASSUME ConnInv, UNCHANGED <<s, app, r, delivered>>,
         BagToSet(acks') \subseteq BagToSet(acks), BagToSet(segs') \subseteq BagToSet(segs)
  PROVE  ConnInv' /\ Moved
<1>1. s.send_buf_tail \in Nat /\ r.recv_buf_head \in Nat
  BY SendNumbers, RecvNumbers DEF ConnInv, SendOK, RecvOK, RP!Settled
<1>2. ConnInv'
  BY DEF ConnInv, AppOK
<1> QED
  BY <1>1, <1>2 DEF Moved

LEMMA InitOK == Init => ConnInv
<1> SUFFICES ASSUME Init PROVE ConnInv
  OBVIOUS
<1> DEFINE win == S!MIN(RECV_BUF_SIZE, 65535)
           ring == SP!EmptyRing(SEND_BUF_SIZE)
           start == [snd_una |-> 1, snd_nxt |-> 1, snd_max |-> 1, snd_wnd |-> win,
                     cwnd |-> 0, ssthresh |-> 0, ca_state |-> "OPEN", t_dupacks |-> 0,
                     recover |-> 0, cc_ops |-> "new_reno", rexmt |-> FALSE, t_rxtshift |-> 0,
                     send_buf |-> ring,
                     send_buf_head |-> 0, send_buf_tail |-> 0, out |-> {}]
<1>1. RECV_BUF_SIZE \in Nat \ {0} /\ StreamLen \in Nat
  BY RecvConstants DEF RP!RecvAssumption, RP!ReceiverAssumption
<1>2. win \in Nat /\ win = IF RECV_BUF_SIZE > 65535 THEN 65535 ELSE RECV_BUF_SIZE
  BY <1>1 DEF S!MIN
<1>3. /\ s = SP!cc_event_init(start)
      /\ app = [todo |-> StreamLen, left |-> 0, asleep |-> FALSE, draining |-> FALSE]
  <2>1. S!EmptyRing(SEND_BUF_SIZE) = ring
    BY Zenon DEF S!EmptyRing, SP!EmptyRing
  <2>2. \A t : S!cc_event_init(t) = SP!cc_event_init(t)
    BY Zenon DEF S!cc_event_init, SP!cc_event_init, S!cc_init, SP!cc_init
  <2> HIDE DEF ring
  <2> QED
    BY <2>1, <2>2, SMT DEF Init
<1>4. /\ r = [rcv_nxt |-> 1, recv_buf |-> RP!EmptyRing(RECV_BUF_SIZE),
              recv_buf_head |-> 0, recv_buf_tail |-> 0, ooo |-> {}, ooo_bytes |-> 0,
              t_flags |-> {}, delack |-> FALSE,
              adv |-> [ack |-> 1, win |-> win], edge |-> 1 + win]
      /\ delivered = <<>>
  <2>1. R!EmptyRing(RECV_BUF_SIZE) = RP!EmptyRing(RECV_BUF_SIZE)
    BY Zenon DEF R!EmptyRing, RP!EmptyRing
  <2> QED
    BY <2>1, SMT DEF Init
<1> HIDE DEF win
<1>5. SP!Good(s)
  <2>1. SP!Init
    <3> DEFINE first(cc, w) ==
                 [snd_una |-> 1, snd_nxt |-> 1, snd_max |-> 1, snd_wnd |-> w,
                  cwnd |-> 0, ssthresh |-> 0, ca_state |-> "OPEN", t_dupacks |-> 0,
                  recover |-> 0, cc_ops |-> cc, rexmt |-> FALSE, t_rxtshift |-> 0,
                  send_buf |-> SP!EmptyRing(SEND_BUF_SIZE),
                  send_buf_head |-> 0, send_buf_tail |-> 0, out |-> {}]
    <3>1. s = SP!cc_event_init(first("new_reno", win))
      BY <1>3
    <3> HIDE DEF first, start
    <3>2. \E cc \in {"new_reno"}, w \in Nat : s = SP!cc_event_init(first(cc, w))
      BY <1>2, <3>1
    <3> QED
      BY <1>3, <3>2, Zenon DEF SP!Init, first
  <2> QED
    BY <2>1, SendConstants, SP!InitInv DEF SP!SendInv
<1>6. /\ s.snd_una = 1 /\ s.send_buf_head = 0 /\ s.send_buf_tail = 0
      /\ s.cc_ops = "new_reno" /\ s.out = {}
  BY <1>3 DEF SP!cc_event_init, SP!cc_init
<1>7. SP!Truthful(s)
  BY <1>6 DEF SP!Truthful, SP!Filled, SP!Holds
<1>8. RP!Settled(r) /\ RP!TrueHalf(r)
  <2>1. RP!Init
    BY <1>2, <1>4 DEF RP!Init
  <2> QED
    BY <2>1, RecvConstants, RP!InitInv DEF RP!RecvInv
<1>9. /\ r.rcv_nxt = 1 /\ r.recv_buf_head = 0 /\ r.ooo = {} /\ r.adv.ack = 1
  BY <1>4
<1>10. RP!Within(r, s.send_buf_tail)
  BY <1>6, <1>9 DEF RP!Within, RP!Bytes
<1>11. delivered = Stream(1, r.recv_buf_head)
  BY <1>4, <1>9 DEF Stream
<1>12. BagToSet(segs) = {} /\ BagToSet(acks) = {}
  BY BagEmpty DEF Init
<1>13. AppOK
  BY <1>1, <1>3, <1>6 DEF AppOK
<1> QED
  BY <1>5, <1>6, <1>7, <1>8, <1>9, <1>10, <1>11, <1>12, <1>13 DEF ConnInv, SendOK, RecvOK

LEMMA StepOK ==
  ASSUME ConnInv, [Next]_vars PROVE ConnInv' /\ Moved
<1>1. CASE ClientApp
  BY <1>1, AppStep
<1>2. ASSUME NEW len \in ReadLens, ServerApp(len) PROVE ConnInv' /\ Moved
  BY <1>2, ReadStep
<1>3. ASSUME NEW m \in BagToSet(segs), DeliverSeg(m) PROVE ConnInv' /\ Moved
  BY <1>3, SegStep
<1>4. ASSUME NEW m \in BagToSet(acks), DeliverAck(m) PROVE ConnInv' /\ Moved
  BY <1>4, AckStep
<1>5. CASE RexmtTimeout
  BY <1>5, TimeoutStep
<1>6. CASE DelackExpire
  BY <1>6, DelackStep
<1>7. CASE Lose
  <2>1. /\ BagToSet(segs') \subseteq BagToSet(segs) /\ BagToSet(acks') \subseteq BagToSet(acks)
        /\ UNCHANGED <<s, app, r, delivered>>
    BY <1>7, BagReduced DEF Lose, SegLeaves, AckLeaves
  <2> QED
    BY <2>1, NetworkStep
<1>8. CASE Duplicate
  <2>1. /\ BagToSet(segs') \subseteq BagToSet(segs) /\ BagToSet(acks') \subseteq BagToSet(acks)
        /\ UNCHANGED <<s, app, r, delivered>>
    <3>1. ASSUME NEW m \in BagToSet(segs), segs' = segs (+) SetToBag({m})
          PROVE  BagToSet(segs') \subseteq BagToSet(segs)
      BY <3>1, BagJoined
    <3>2. ASSUME NEW m \in BagToSet(acks), acks' = acks (+) SetToBag({m})
          PROVE  BagToSet(acks') \subseteq BagToSet(acks)
      BY <3>2, BagJoined
    <3> QED
      BY <1>8, <3>1, <3>2 DEF Duplicate
  <2> QED
    BY <2>1, NetworkStep
<1>9. CASE UNCHANGED vars
  BY <1>9, NetworkStep DEF vars
<1> QED
  BY <1>1, <1>2, <1>3, <1>4, <1>5, <1>6, <1>7, <1>8, <1>9 DEF Next

\* Through loss, duplication, reordering, early and late timeouts, whatever is
\* in a buffer, a queue, the network or the server's hands is the client's
\* stream, and neither side knows of bytes the other has not written or taken
\* (utcp_send, utcp_read, handle_received_data and utcp_timers together).
THEOREM ConnectionInvariance == Spec => []ConnInv
<1>1. Init => ConnInv
  BY InitOK
<1>2. ConnInv /\ [Next]_vars => ConnInv'
  BY StepOK
<1> QED
  BY <1>1, <1>2, PTL DEF Spec

-----------------------------------------------------------------------------
\* The refinement

\* What is on its way is the stream between the server's head and the client's
\* tail.
LEMMA PipeRun ==
  ASSUME ConnInv
  PROVE  /\ Pipe = Run(r.recv_buf_head, s.send_buf_tail)
         /\ r.recv_buf_head \in Nat /\ s.send_buf_tail \in Nat
         /\ r.recv_buf_head <= s.send_buf_tail /\ s.send_buf_tail <= StreamLen
         /\ s.send_buf_tail - r.recv_buf_head <= SEND_BUF_SIZE + RECV_BUF_SIZE
<1> DEFINE head == r.recv_buf_head
           mid  == r.rcv_nxt - 1
           una  == s.send_buf_head
           tail == s.send_buf_tail
           x    == R!ring_buf_read(r.recv_buf, RECV_BUF_SIZE, head, R!buffered(r))
           y    == S!ring_buf_read(s.send_buf, SEND_BUF_SIZE, mid, tail - mid)
<1>1. /\ SP!Good(s) /\ SP!Filled(s) /\ RP!GoodHalf(r) /\ RP!TrueHalf(r) /\ RP!Within(r, tail)
      /\ s.snd_una <= r.rcv_nxt
  BY DEF ConnInv, SendOK, RecvOK, RP!Settled, SP!Truthful
<1>2. /\ head \in Nat /\ mid \in Nat /\ una \in Nat /\ tail \in Nat
      /\ r.recv_buf_tail = mid /\ head <= mid /\ una <= mid /\ mid <= tail
      /\ mid - head <= RECV_BUF_SIZE /\ tail - una <= SEND_BUF_SIZE
  <2>1. /\ r.rcv_nxt \in Nat /\ 1 <= r.rcv_nxt /\ r.rcv_nxt <= tail + 1
        /\ s.send_buf_head = s.snd_una - 1
    BY <1>1, SendNumbers, RecvNumbers DEF RP!Within
  <2>2. /\ s.snd_una \in Nat /\ s.send_buf_head \in Nat /\ tail \in Nat
        /\ tail - s.send_buf_head <= SEND_BUF_SIZE
    BY <1>1, SendNumbers
  <2>3. /\ r.recv_buf_head \in Nat /\ r.recv_buf_tail = r.rcv_nxt - 1
        /\ r.recv_buf_head <= r.recv_buf_tail
        /\ r.recv_buf_tail - r.recv_buf_head <= RECV_BUF_SIZE
    BY <1>1, RecvNumbers
  <2> QED
    BY <1>1, <2>1, <2>2, <2>3
<1>3. /\ SEND_BUF_SIZE \in Nat \ {0} /\ RECV_BUF_SIZE \in Nat \ {0}
      /\ s.send_buf \in [0 .. SEND_BUF_SIZE - 1 -> Nat]
      /\ r.recv_buf \in [0 .. RECV_BUF_SIZE - 1 -> Nat]
  <2>1. SEND_BUF_SIZE \in Nat \ {0} /\ RECV_BUF_SIZE \in Nat \ {0}
    BY SendConstants, RecvConstants DEF SP!SendAssumption, RP!RecvAssumption
  <2>2. s.send_buf \in [0 .. SEND_BUF_SIZE - 1 -> Nat]
    BY <1>1 DEF SP!Good, SP!SendHalves
  <2>3. r.recv_buf \in [0 .. RECV_BUF_SIZE - 1 -> Nat]
    BY <1>1 DEF RP!GoodHalf, RP!RecvHalves
  <2> QED
    BY <2>1, <2>2, <2>3
<1>4. /\ RP!Holds(r.recv_buf, RECV_BUF_SIZE, head, mid)
      /\ SP!Holds(s.send_buf, SEND_BUF_SIZE, una, tail)
  <2>1. /\ RP!Holds(r.recv_buf, RECV_BUF_SIZE, r.recv_buf_head, r.recv_buf_tail)
        /\ SP!Holds(s.send_buf, SEND_BUF_SIZE, s.send_buf_head, s.send_buf_tail)
    BY <1>1, Zenon DEF RP!TrueHalf, SP!Filled
  <2>2. r.recv_buf_tail = mid
    BY <1>2
  <2> QED
    BY <2>1, <2>2, Zenon
<1>5. tail <= StreamLen
  <2>1. app.todo \in Nat /\ app.left \in Nat /\ app.todo + app.left + tail = StreamLen
    BY DEF ConnInv, AppOK
  <2> QED
    BY <2>1, <1>2
<1>6. x = Run(head, mid)
  <2>1. x = RP!ring_buf_read(r.recv_buf, RECV_BUF_SIZE, head, mid - head)
    BY <1>2, SameRing DEF R!buffered
  <2> HIDE DEF head, mid, x
  <2> DEFINE len == mid - head
  <2>2. len \in Nat /\ len <= RECV_BUF_SIZE /\ head + len <= mid
    BY <1>2, <1>3
  <2> HIDE DEF len
  <2>3. head \in Nat /\ mid \in Nat /\ head <= head
    BY <1>2
  <2> DEFINE buf == r.recv_buf
             n   == RECV_BUF_SIZE
  <2>4. n \in Nat \ {0} /\ buf \in [0 .. n - 1 -> Nat] /\ RP!Holds(buf, n, head, mid) /\ len <= n
    BY <1>3, <1>4, <2>2
  <2> HIDE DEF buf, n
  <2>5. RP!ring_buf_read(buf, n, head, len) = [k \in 1 .. len |-> head + k]
    BY <2>2, <2>3, <2>4, RecvConstants, RP!ReadHolds
  <2> QED
    BY <2>1, <2>5 DEF Run, len, buf, n
<1>7. y = Run(mid, tail)
  <2>1. y = SP!ring_buf_read(s.send_buf, SEND_BUF_SIZE, mid, tail - mid)
    BY SameRing
  <2> HIDE DEF mid, tail, una, y
  <2> DEFINE len == tail - mid
  <2>2. len \in Nat /\ len <= SEND_BUF_SIZE /\ mid + len <= tail
    BY <1>2, <1>3
  <2> HIDE DEF len
  <2>3. mid \in Nat /\ tail \in Nat /\ una \in Nat /\ una <= mid
    BY <1>2
  <2> DEFINE buf == s.send_buf
             n   == SEND_BUF_SIZE
  <2>4. n \in Nat \ {0} /\ buf \in [0 .. n - 1 -> Nat] /\ SP!Holds(buf, n, una, tail) /\ len <= n
    BY <1>3, <1>4, <2>2
  <2> HIDE DEF buf, n
  <2>5. SP!ring_buf_read(buf, n, mid, len) = [k \in 1 .. len |-> mid + k]
    BY <2>2, <2>3, <2>4, SendConstants, SP!ReadHolds
  <2> QED
    BY <2>1, <2>5 DEF Run, len, buf, n
<1>8. Pipe = x \o y
  BY DEF Pipe
<1> HIDE DEF x, y, head, mid, tail, una
<1>9. Pipe = Run(head, tail)
  BY <1>2, <1>6, <1>7, <1>8, RunJoin
<1>10. tail - head <= SEND_BUF_SIZE + RECV_BUF_SIZE /\ head <= tail
  BY <1>2, <1>3
<1> QED
  BY <1>2, <1>5, <1>9, <1>10 DEF head, tail

\* The state of ByteStream that a state of Connection stands for.
PipeState ==
  /\ Pipe = Run(r.recv_buf_head, s.send_buf_tail)
  /\ delivered = Stream(1, r.recv_buf_head)
  /\ r.recv_buf_head \in Nat /\ s.send_buf_tail \in Nat
  /\ r.recv_buf_head <= s.send_buf_tail /\ s.send_buf_tail <= StreamLen
  /\ s.send_buf_tail - r.recv_buf_head <= SEND_BUF_SIZE + RECV_BUF_SIZE

\* What the stream is from the start.
LEMMA StreamStart == ASSUME NEW n \in Nat PROVE Stream(1, n) = Run(0, n)
<1>1. n - 0 = n /\ \A k \in 1 .. n : 1 + k - 1 = 0 + k
  OBVIOUS
<1> QED
  BY <1>1 DEF Stream, Run

\* Bytes c - b of the source put in behind the run from a to b.
LEMMA RunWritten ==
  ASSUME NEW a \in Nat, NEW b \in Nat, NEW c \in Nat, NEW l \in Nat, a <= b, b <= c, c <= l
  PROVE  Run(a, b) \o SubSeq(Stream(1, l), b + 1, c) = Run(a, c)
<1> DEFINE z == 0
           i == b + 1
<1>1. z \in Nat /\ z <= b /\ z + i = b + 1 /\ z + c = c /\ i \in Nat
  OBVIOUS
<1>2. Stream(1, l) = Run(z, l)
  BY StreamStart
<1> HIDE DEF z, i
<1>3. SubSeq(Run(z, l), i, c) = Run(b, c)
  <2>1. PartOf(z, l, b, c, i, c)
    BY <1>1 DEF PartOf
  <2> QED
    BY <2>1, RunPart
<1>4. Run(a, b) \o Run(b, c) = Run(a, c)
  BY RunJoin
<1> QED
  BY <1>2, <1>3, <1>4 DEF i

\* The first bytes of the run from a to b taken out, up to c.
LEMMA RunRead ==
  ASSUME NEW a \in Nat, NEW b \in Nat, NEW c \in Nat, a <= c, c <= b
  PROVE  /\ SubSeq(Run(a, b), 1, c - a) = Run(a, c)
         /\ SubSeq(Run(a, b), c - a + 1, Len(Run(a, b))) = Run(c, b)
         /\ Stream(1, a) \o Run(a, c) = Stream(1, c)
<1> DEFINE n == c - a
           m == b - a
           z == 0
           o == 1
           i == n + 1
<1>1. /\ n \in Nat /\ m \in Nat /\ z \in Nat /\ o \in Nat /\ i \in Nat /\ a <= b /\ z <= a
      /\ a <= a /\ b <= b /\ a + o = a + 1 /\ a + n = c /\ a + i = c + 1 /\ a + m = b
  OBVIOUS
<1>2. Len(Run(a, b)) = m
  BY <1>1, RunType
<1>3. Stream(1, a) = Run(z, a) /\ Stream(1, c) = Run(z, c)
  BY StreamStart
<1> HIDE DEF n, m, z, o, i
<1>4. SubSeq(Run(a, b), o, n) = Run(a, c)
  <2>1. PartOf(a, b, a, c, o, n)
    BY <1>1 DEF PartOf
  <2> QED
    BY <2>1, RunPart
<1>5. SubSeq(Run(a, b), i, m) = Run(c, b)
  <2>1. PartOf(a, b, c, b, i, m)
    BY <1>1 DEF PartOf
  <2> QED
    BY <2>1, RunPart
<1>6. Run(z, a) \o Run(a, c) = Run(z, c)
  <2>1. z \in Nat /\ z <= a
    BY <1>1
  <2> QED
    BY <2>1, RunJoin
<1> QED
  BY <1>2, <1>3, <1>4, <1>5, <1>6 DEF n, o, i

\* Every step is a write, a read or nothing to the pipe.
LEMMA RefineStep ==
  ASSUME PipeState, PipeState', Moved
  PROVE  [Abstract!Next]_(Abstract!vars)
<1> DEFINE a == r.recv_buf_head
           b == s.send_buf_tail
           c == r'.recv_buf_head
           d == s'.send_buf_tail
           cap == SEND_BUF_SIZE + RECV_BUF_SIZE
<1>1. /\ Pipe = Run(a, b) /\ Pipe' = Run(c, d)
      /\ delivered = Stream(1, a) /\ delivered' = Stream(1, c)
  BY DEF PipeState
<1>2. /\ a \in Nat /\ b \in Nat /\ c \in Nat /\ d \in Nat /\ a <= b /\ c <= d
      /\ d <= StreamLen /\ b - a <= cap /\ d - c <= cap /\ StreamLen \in Nat /\ cap \in Nat
  <2>1. StreamLen \in Nat /\ SEND_BUF_SIZE \in Nat /\ RECV_BUF_SIZE \in Nat
    BY SendConstants, RecvConstants DEF SP!SendAssumption, RP!RecvAssumption, RP!ReceiverAssumption
  <2>2. cap \in Nat
    BY <2>1
  <2> QED
    BY <2>1, <2>2 DEF PipeState
<1>3. a <= c /\ b <= d /\ (d = b \/ c = a)
  BY DEF Moved
<1>4. Len(Stream(1, StreamLen)) = StreamLen /\ Len(Stream(1, a)) = a /\ Len(Stream(1, c)) = c
  BY <1>2 DEF Stream
<1>5. Len(Run(a, b)) = b - a
  BY <1>2, RunType
<1>6. CASE d = b /\ c = a
  BY <1>1, <1>6 DEF Abstract!vars
<1>7. CASE c = a /\ d # b
  <2> DEFINE n == d - b
  <2>1. /\ n \in 1 .. cap /\ d = b + n /\ d <= Len(Stream(1, StreamLen))
        /\ Len(Run(a, b)) + n <= cap
    BY <1>2, <1>3, <1>4, <1>5, <1>7
  <2>2. Run(c, d) = Run(a, b) \o SubSeq(Stream(1, StreamLen), b + 1, d)
    <3> HIDE DEF a, b, c, d
    <3>1. a \in Nat /\ b \in Nat /\ d \in Nat /\ StreamLen \in Nat
          /\ a <= b /\ b <= d /\ d <= StreamLen
      BY <1>2, <1>3
    <3>2. Run(a, b) \o SubSeq(Stream(1, StreamLen), b + 1, d) = Run(a, d)
      BY <3>1, RunWritten
    <3> QED
      BY <1>7, <3>2
  <2>3. Abstract!Write(n)
    BY <1>1, <1>7, <2>1, <2>2, Zenon DEF Abstract!Write
  <2> HIDE DEF n
  <2> QED
    BY <2>1, <2>3 DEF Abstract!Next
<1>8. CASE d = b /\ c # a
  <2> DEFINE n == c - a
  <2>1. /\ n \in 1 .. cap /\ c = a + n /\ n <= Len(Run(a, b))
        /\ Len(Stream(1, c)) = Len(Stream(1, a)) + n
    BY <1>2, <1>3, <1>4, <1>5, <1>8
  <2>2. /\ Stream(1, c) = Stream(1, a) \o SubSeq(Run(a, b), 1, n)
        /\ Run(c, d) = SubSeq(Run(a, b), n + 1, Len(Run(a, b)))
    <3>1. c <= b
      BY <1>2, <1>8
    <3> HIDE DEF a, b, c, d
    <3>2. a \in Nat /\ b \in Nat /\ c \in Nat /\ a <= c
      BY <1>2, <1>3
    <3>3. /\ SubSeq(Run(a, b), 1, c - a) = Run(a, c)
          /\ SubSeq(Run(a, b), c - a + 1, Len(Run(a, b))) = Run(c, b)
          /\ Stream(1, a) \o Run(a, c) = Stream(1, c)
      BY <3>1, <3>2, RunRead
    <3> QED
      BY <1>8, <3>3
  <2>3. Abstract!Read(n)
    BY <1>1, <1>8, <2>1, <2>2, Zenon DEF Abstract!Read
  <2> HIDE DEF n
  <2> QED
    BY <2>1, <2>3 DEF Abstract!Next
<1> QED
  BY <1>3, <1>6, <1>7, <1>8

\* The pipe starts empty.
LEMMA RefineInit == ASSUME Init, PipeState PROVE Abstract!Init
<1>1. s.send_buf_tail = 0
  <2>1. s = S!cc_event_init(
               [snd_una |-> 1, snd_nxt |-> 1, snd_max |-> 1,
                snd_wnd |-> S!MIN(RECV_BUF_SIZE, 65535),
                cwnd |-> 0, ssthresh |-> 0, ca_state |-> "OPEN", t_dupacks |-> 0,
                recover |-> 0, cc_ops |-> "new_reno", rexmt |-> FALSE, t_rxtshift |-> 0,
                send_buf |-> S!EmptyRing(SEND_BUF_SIZE),
                send_buf_head |-> 0, send_buf_tail |-> 0, out |-> {}])
    BY SMT DEF Init
  <2> QED
    BY <2>1 DEF S!cc_event_init, S!cc_init
<1>2. r.recv_buf_head = 0 /\ delivered = <<>>
  BY DEF Init
<1>3. Run(0, 0) = <<>>
  BY DEF Run
<1> QED
  BY <1>1, <1>2, <1>3 DEF PipeState, Abstract!Init

\* For all buffer sizes, window units, stream lengths and faults, the two
\* applications see the pipe of ByteStream: bytes enter only by utcp_send and
\* leave only by utcp_read, in order, each once, at most as many on their way
\* as both buffers hold.
THEOREM PipeImplemented == Spec => ImplementsByteStream
<1>1. Init => ConnInv
  BY InitOK
<1>2. ConnInv /\ [Next]_vars => ConnInv' /\ Moved
  BY StepOK
<1>3. ConnInv => PipeState
  <2> SUFFICES ASSUME ConnInv PROVE PipeState
    OBVIOUS
  <2>1. delivered = Stream(1, r.recv_buf_head)
    BY DEF ConnInv
  <2> QED
    BY <2>1, PipeRun DEF PipeState
<1>4. Init /\ PipeState => Abstract!Init
  BY RefineInit
<1>5. ConnInv /\ [Next]_vars /\ PipeState /\ PipeState' => [Abstract!Next]_(Abstract!vars)
  BY <1>2, RefineStep
<1> QED
  BY <1>1, <1>2, <1>3, <1>4, <1>5, PTL DEF Spec, ImplementsByteStream, Abstract!Spec
=============================================================================
