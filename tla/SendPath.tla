------------------------------ MODULE SendPath ------------------------------
(***************************************************************************)
(* The send half of an established TCB as pure operators: utcp_output's    *)
(* choice of segments, utcp_retransmit_segment, what handle_received_data  *)
(* does with an acknowledgement, and the retransmission timeout.           *)
(*                                                                         *)
(* A send half s is a record holding                                       *)
(*   snd_una, snd_nxt, snd_max, snd_wnd                                    *)
(*   cwnd, ssthresh, ca_state, t_dupacks, recover, cc_ops                  *)
(*   rexmt                        t_timer[TCPT_REXMT] # 0                  *)
(*   t_rxtshift                   timeouts since everything was acked      *)
(*   send_buf, send_buf_head/tail the ring and its stream positions        *)
(*   out                          the segments the last step sent          *)
(*                                (history, not a field of the code)       *)
(*                                                                         *)
(* iss is 0 and the SYN took sequence number 0, so stream position k is    *)
(* sequence number k + 1.  The timer's length in ticks and the RTT         *)
(* estimator behind it are not represented: an armed timer may expire.     *)
(***************************************************************************)
EXTENDS CongestionControl, RingBuffer

CONSTANTS
  SEND_BUF_SIZE,    \* bytes in send_buf
  DUPACK_MAX,       \* t_dupacks stops counting here (255)
  TCP_MAXRXTSHIFT   \* last index of tcp_backoff

ASSUME SendAssumption == /\ SEND_BUF_SIZE \in Nat \ {0}
                         /\ DUPACK_MAX \in Nat /\ DUPACK_MAX > 3
                         /\ TCP_MAXRXTSHIFT \in Nat \ {0}

iss == 0

\* The payload of a segment: len bytes of send_buf at the sequence number's
\* stream position.
Segment(s, seq, len) ==
  [seq |-> seq, data |-> ring_buf_read(s.send_buf, SEND_BUF_SIZE, seq - iss - 1, len)]

\* Bytes in send_buf from sequence number seq on.
buffered_data(s, seq) == MAX(s.send_buf_tail - (seq - iss - 1), 0)

\* Fault: the position is taken from the head of the buffer.
utcp_retransmit_segment_head(s, seq) ==
  LET len == MIN(s.send_buf_tail - s.send_buf_head, MSS)
  IN  [s EXCEPT !.out = @ \cup {[seq |-> seq, data |->
         ring_buf_read(s.send_buf, SEND_BUF_SIZE, s.send_buf_head + 1, len)]}]

\* One segment from seq on, whatever the windows and snd_max are.
utcp_retransmit_segment(s, seq) ==
  [s EXCEPT !.out = @ \cup {Segment(s, seq, MIN(buffered_data(s, seq), MSS))}]

\* What the windows let through now.
sendable(s) ==
  MIN(buffered_data(s, s.snd_nxt),
      MAX(MIN(s.snd_wnd, s.cwnd) - (s.snd_nxt - s.snd_una), 0))

\* Fault: a short segment is held back even when nothing is in flight.
burst_nagle(s) == sendable(s) - (sendable(s) % MSS)

\* Bytes that one call of utcp_output sends: full segments while they last;
\* a short one only when nothing is in flight (Nagle).
burst(s) ==
  LET n == sendable(s)
  IN  IF n >= MSS THEN n - (n % MSS)
                  ELSE IF s.snd_nxt = s.snd_una THEN n ELSE 0

\* The data part of utcp_output's loop (force_send only adds an empty ACK,
\* see RecvPath): send the burst, advance snd_nxt and snd_max, start the
\* timer if it is not running.
utcp_output(s) ==
  LET n   == burst(s)
      nxt == s.snd_nxt + n
  IN  [s EXCEPT !.out = @ \cup {Segment(s, s.snd_nxt + k * MSS, MIN(n - k * MSS, MSS)) :
                                  k \in 0 .. (n + MSS - 1) \div MSS - 1},
                !.snd_nxt = nxt,
                !.snd_max = MAX(@, nxt),
                !.rexmt   = @ \/ n > 0]

\* Performs what a cong_control function asked for.
apply_cc(res) ==
  CASE res.call = "none"       -> res.t
    [] res.call = "retransmit" -> utcp_retransmit_segment(res.t, res.t.snd_una)
    [] res.call = "output"     -> utcp_output(res.t)

-----------------------------------------------------------------------------
\* The acknowledgement branches of handle_received_data

\* A timer set to t_rxtcur * tcp_backoff[shift] is running.  Past the end of
\* that table the factor is whatever lies there, and a timer set to a product
\* that is not positive does not run (in holds the outcomes decided elsewhere:
\* armed, and the predictor's fired).
backed_off(shift, in) == shift <= TCP_MAXRXTSHIFT \/ in.armed

valid_ack(s, ack) == ack > s.snd_una /\ ack <= s.snd_max

\* Fault: snd_nxt is left behind an ACK that comes after a timeout.
process_ack_behind(s, ack, win, in) ==
  LET all_acked == ack = s.snd_max
  IN  apply_cc(cc_event_ack(
        [s EXCEPT !.snd_una = ack, !.t_dupacks = 0,
                  !.send_buf_head = @ + (ack - s.snd_una), !.snd_wnd = win,
                  !.rexmt = ~all_acked /\ backed_off(s.t_rxtshift, in),
                  !.t_rxtshift = IF all_acked THEN 0 ELSE @],
        ack - s.snd_una, in.fired))

\* Fault: the timer is stopped by any new ACK.
process_ack_disarm(s, ack, win, in) ==
  LET all_acked == ack = s.snd_max
  IN  apply_cc(cc_event_ack(
        [s EXCEPT !.snd_una = ack, !.snd_nxt = MAX(@, ack), !.t_dupacks = 0,
                  !.send_buf_head = @ + (ack - s.snd_una), !.snd_wnd = win,
                  !.rexmt = FALSE,
                  !.t_rxtshift = IF all_acked THEN 0 ELSE @],
        ack - s.snd_una, in.fired))

\* New data acknowledged: the window slides, the timer is stopped when all is
\* acknowledged and restarted otherwise, congestion control is told.
process_ack(s, ack, win, in) ==
  LET all_acked == ack = s.snd_max
  IN  apply_cc(cc_event_ack(
        [s EXCEPT !.snd_una = ack, !.snd_nxt = MAX(@, ack), !.t_dupacks = 0,
                  !.send_buf_head = @ + (ack - s.snd_una), !.snd_wnd = win,
                  !.rexmt = ~all_acked /\ backed_off(s.t_rxtshift, in),
                  !.t_rxtshift = IF all_acked THEN 0 ELSE @],
        ack - s.snd_una, in.fired))

\* Fault: the counter is not stopped at its limit.
process_dup_ack_uncapped(s, win) ==
  LET dups == s.t_dupacks + 1
  IN  apply_cc(cc_event_dup_ack([s EXCEPT !.snd_wnd = win, !.t_dupacks = dups], dups))

\* A bare ACK for snd_una without a larger window while data is in flight.
process_dup_ack(s, win) ==
  LET dups == MIN(s.t_dupacks + 1, DUPACK_MAX)
  IN  apply_cc(cc_event_dup_ack([s EXCEPT !.snd_wnd = win, !.t_dupacks = dups], dups))

\* The whole of it; has_data: the segment carries a payload.
handle_ack(s, ack, win, has_data, in) ==
  CASE valid_ack(s, ack) -> process_ack(s, ack, win, in)
    [] ack = s.snd_una /\ win > s.snd_wnd -> [s EXCEPT !.snd_wnd = win]
    [] ack = s.snd_una /\ win <= s.snd_wnd /\ ~has_data /\ s.snd_una # s.snd_max
         -> process_dup_ack(s, win)
    [] OTHER -> s

\* The branches that broadcast cond_var.
ack_wakes(s, ack, win) == valid_ack(s, ack) \/ (ack = s.snd_una /\ win > s.snd_wnd)

-----------------------------------------------------------------------------
\* Fault: snd_nxt is not rolled back.
rexmt_timeout_forward(s, in) ==
  LET shift == MIN(s.t_rxtshift + 1, TCP_MAXRXTSHIFT + 1)
  IN  utcp_output(cc_event_timeout(
        [s EXCEPT !.t_rxtshift = shift, !.rexmt = backed_off(shift, in)],
        s.snd_nxt - s.snd_una))

\* TCPT_REXMT expired: back off, fall back to snd_una, tell congestion
\* control what was in flight, and send again.  The count saturates one past
\* the table.
rexmt_timeout(s, in) ==
  LET shift == MIN(s.t_rxtshift + 1, TCP_MAXRXTSHIFT + 1)
  IN  utcp_output(cc_event_timeout(
        [s EXCEPT !.t_rxtshift = shift, !.rexmt = backed_off(shift, in),
                  !.snd_nxt = s.snd_una],
        s.snd_nxt - s.snd_una))

\* utcp_send's copy of data into send_buf, and the attempt to send it.
append(s, data) ==
  utcp_output([s EXCEPT !.send_buf = ring_buf_write(@, SEND_BUF_SIZE, s.send_buf_tail, data),
                        !.send_buf_tail = @ + Len(data)])

send_free_space(s) == SEND_BUF_SIZE - (s.send_buf_tail - s.send_buf_head)
=============================================================================
