------------------------------- MODULE Sender -------------------------------
(***************************************************************************)
(* The send half of one established UTCP connection, with the application  *)
(* thread that calls utcp_send and utcp_drain.  The peer is any that       *)
(* acknowledges bytes the application has written: its ACKs arrive late,   *)
(* repeated and out of order, with any window, bare or on data.  The       *)
(* application, listen and timer threads hold the TCB lock for the whole   *)
(* of each step below; cond_wait gives it up, so a blocked utcp_send is    *)
(* two steps.                                                              *)
(***************************************************************************)
EXTENDS SendPath

CONSTANTS
  CcChoices,     \* algorithms compiled in: a subset of CcAlgorithms
  StreamLen,     \* bytes the application sends in all
  ChunkMax,      \* largest len passed to utcp_send
  Windows,       \* windows the peer announces
  PeerData,      \* TRUE if the peer's segments may carry data
  ReplyDropped,  \* TRUE if such data may be dropped for lack of space
  MaxShift,      \* bound: timeouts in a row explored
  MaxCwnd        \* bound: no more duplicates of an ACK once cwnd is larger

ASSUME SenderAssumption ==
  /\ CcChoices \subseteq CcAlgorithms /\ CcChoices # {}
  /\ StreamLen \in Nat /\ ChunkMax \in Nat \ {0}
  /\ Windows \subseteq Nat
  /\ PeerData \in BOOLEAN /\ ReplyDropped \in BOOLEAN
  /\ MaxShift \in Nat /\ MaxCwnd \in Nat

VARIABLES
  s,    \* the send half of the TCB
  app   \* the application thread: todo bytes not yet passed to utcp_send, left
        \* bytes of the current call, asleep in pthread_cond_wait, draining

vars == <<s, app>>

\* The outcomes a step takes from elsewhere (see SendPath), where they matter:
\* the flag that the predictor last sent, and what lies past tcp_backoff.
Inputs == {in \in [fired : BOOLEAN, armed : BOOLEAN] :
             /\ in.fired  => s.cc_ops = "lstm_reno"
             /\ ~in.armed => MaxShift > TCP_MAXRXTSHIFT}

\* The stream's bytes are their own sequence numbers.
Stream(seq, n) == [i \in 1 .. n |-> seq + i - 1]

Init ==
  /\ \E cc \in CcChoices, win \in Windows :
       s = cc_event_init(
             [snd_una |-> 1, snd_nxt |-> 1, snd_max |-> 1, snd_wnd |-> win,
              cwnd |-> 0, ssthresh |-> 0, ca_state |-> "OPEN", t_dupacks |-> 0,
              recover |-> 0, cc_ops |-> cc, rexmt |-> FALSE, t_rxtshift |-> 0,
              send_buf |-> EmptyRing(SEND_BUF_SIZE),
              send_buf_head |-> 0, send_buf_tail |-> 0, out |-> {}])
  /\ app = [todo |-> StreamLen, left |-> 0, asleep |-> FALSE, draining |-> FALSE]

\* Every step starts with nothing sent yet.
quiet == [s EXCEPT !.out = {}]

-----------------------------------------------------------------------------
\* The application thread

\* One turn of utcp_send's loop: copy what fits and try to send it; with bytes
\* left the buffer is now full and the thread waits.
WriteChunk ==
  LET n == MIN(app.left, send_free_space(s))
  IN  /\ app.left > 0 /\ ~app.asleep
      /\ s' = IF n = 0 THEN quiet ELSE append(quiet, Stream(s.send_buf_tail + 1, n))
      /\ app' = [app EXCEPT !.left = @ - n, !.asleep = n < app.left]

\* utcp_send(len) is called.
SendCall(len) ==
  /\ app.left = 0 /\ ~app.draining /\ len <= app.todo
  /\ app' = [app EXCEPT !.todo = @ - len, !.left = len]
  /\ s' = quiet

\* utcp_drain is called once everything has been passed to utcp_send, and
\* after each wakeup looks again whether everything is acknowledged.
Drain ==
  /\ app.left = 0 /\ app.todo = 0 /\ ~app.asleep
  /\ app' = [app EXCEPT !.draining = TRUE, !.asleep = s.send_buf_head # s.send_buf_tail]
  /\ s' = quiet

-----------------------------------------------------------------------------
\* The listen and timer threads

\* Fault: a blocked thread is not woken by a new ACK.
wakes_never(ack, win) == ack = s.snd_una /\ win > s.snd_wnd

wakes(ack, win) == ack_wakes(s, ack, win)

\* Bound: cwnd is inflated without end by duplicates of one ACK.
Explored(ack, win) == s.cwnd <= MaxCwnd \/ ack # s.snd_una \/ win > s.snd_wnd

\* A segment of the peer: its acknowledgement is processed, then utcp_output
\* runs at the end of the handler.
RecvAck(ack, win, has_data, in) ==
  /\ has_data => PeerData
  /\ Explored(ack, win)
  /\ s' = utcp_output(handle_ack(quiet, ack, win, has_data, in))
  /\ app' = [app EXCEPT !.asleep = @ /\ ~wakes(ack, win)]

\* Its payload continues the peer's stream but does not fit in recv_buf: the
\* handler returns without utcp_output.
RecvAckDropped(ack, win, in) ==
  /\ PeerData /\ ReplyDropped
  /\ Explored(ack, win)
  /\ s' = handle_ack(quiet, ack, win, TRUE, in)
  /\ app' = [app EXCEPT !.asleep = @ /\ ~wakes(ack, win)]

\* The retransmission timer runs out.
Timeout(in) ==
  /\ s.rexmt /\ s.t_rxtshift < MaxShift
  /\ s' = rexmt_timeout(quiet, in)
  /\ UNCHANGED app

\* ACK numbers some segment of the peer can carry: it acknowledges no more
\* than the application has written.
Acks == 1 .. s.send_buf_tail + 1

Next ==
  \/ WriteChunk
  \/ \E len \in 1 .. ChunkMax : SendCall(len)
  \/ Drain
  \/ \E ack \in Acks, win \in Windows, in \in Inputs :
       \/ \E has_data \in BOOLEAN : RecvAck(ack, win, has_data, in)
       \/ RecvAckDropped(ack, win, in)
  \/ \E in \in Inputs : Timeout(in)

Spec == Init /\ [][Next]_vars

-----------------------------------------------------------------------------
SendHalves ==
  [snd_una : Nat, snd_nxt : Nat, snd_max : Nat, snd_wnd : Nat,
   cwnd : Nat, ssthresh : Nat, ca_state : CaStates, t_dupacks : 0 .. DUPACK_MAX,
   recover : Nat, cc_ops : CcAlgorithms, rexmt : BOOLEAN,
   t_rxtshift : 0 .. TCP_MAXRXTSHIFT + 1,
   send_buf : [0 .. SEND_BUF_SIZE - 1 -> Nat],
   send_buf_head : Nat, send_buf_tail : Nat,
   out : SUBSET [seq : Nat, data : Seq(Nat)]]

\* The fields of the send half of struct tcb and their ranges.
TypeOK ==
  /\ s \in SendHalves
  /\ app \in [todo : Nat, left : Nat, asleep : BOOLEAN, draining : BOOLEAN]

\* The send sequence space: snd_una <= snd_nxt <= snd_max, all of it written,
\* and the buffer's head is the first unacknowledged byte through timeouts
\* and late ACKs.
SeqSpace ==
  /\ s.snd_una <= s.snd_nxt /\ s.snd_nxt <= s.snd_max
  /\ s.snd_max <= s.send_buf_tail + 1
  /\ s.send_buf_head = s.snd_una - 1
  /\ s.send_buf_tail - s.send_buf_head <= SEND_BUF_SIZE

\* Unacknowledged data always has the retransmission timer running, and the
\* timer runs for nothing else.
InFlightTimed == s.rexmt <=> s.snd_una < s.snd_max

\* Every segment carries the bytes its sequence number names, although the
\* ring is reused while old segments are still being repeated.
SegmentsCarryStream == \A g \in s.out : g.data = Stream(g.seq, Len(g.data))

\* cc_aimd divides by cwnd and half a flight is compared to ssthresh: cwnd is
\* at least one segment and ssthresh two, whatever events have come.
WindowFloor == s.cwnd >= MSS /\ s.ssthresh >= 2 * MSS

\* NewReno: in recovery the recovery point is still ahead of snd_una and within
\* what was sent, so a full ACK can end it.
RecoveryEnds ==
  s.ca_state = "RECOVERY" /\ s.cc_ops \in {"new_reno", "lstm_reno"}
    => s.snd_una < s.recover /\ s.recover <= s.snd_max

\* A thread waits only while what it waits for is missing: utcp_send for space,
\* utcp_drain for the last ACK.  No wakeup is lost.
NoLostWakeup ==
  app.asleep => IF app.left > 0 THEN send_free_space(s) = 0
                                ELSE s.send_buf_head # s.send_buf_tail

\* Comment of utcp_output: every event that makes data sendable also sends it.
\* Written data waits with nothing in flight, hence with no timer to bring it
\* back, only if the peer's window is closed.
NoIdleData ==
  s.snd_una = s.snd_max /\ s.send_buf_tail > s.send_buf_head => s.snd_wnd = 0

\* A timeout with an open window puts the oldest unacknowledged byte on the
\* wire again.
TimeoutResends ==
  [][s'.t_rxtshift > s.t_rxtshift /\ s.snd_wnd > 0
       => \E g \in s'.out : g.seq = s.snd_una /\ g.data # <<>>]_vars

\* timers.h calls TCP_MAXRXTSHIFT the maximum of retransmits: the shift stays
\* within tcp_backoff.
BackoffInTable == s.t_rxtshift <= TCP_MAXRXTSHIFT

=============================================================================
