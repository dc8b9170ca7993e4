----------------------------- MODULE Connection -----------------------------
(***************************************************************************)
(* A whole transfer as client.c and server.c make it: the send half of the *)
(* client's TCB, the receive half of the server's, and the network between *)
(* them.  The operators of SendPath and RecvPath do the work; a segment    *)
(* one side sends is put into the network in the same step.                *)
(*                                                                         *)
(* The network may reorder and delay.  A lost or duplicated segment, and a *)
(* retransmission timer that runs out before the network is quiet, is a    *)
(* fault; MaxFaults bounds their number.  The server sends no data, so its *)
(* segments are bare ACKs.  An ACK whose segment cannot be allocated is,   *)
(* to both sides, an ACK that was lost.                                    *)
(***************************************************************************)
EXTENDS Integers, Sequences, Bags

CONSTANTS
  MSS, IW, SSTHRESH_INIT, SEND_BUF_SIZE, DUPACK_MAX, TCP_MAXRXTSHIFT,
  RECV_BUF_SIZE, WIN_UNIT,
  StreamLen,   \* bytes the client sends in all
  Chunks,      \* lengths passed to utcp_send
  ReadLens,    \* lengths passed to utcp_read
  MaxFaults    \* bound: faults in one behaviour

S == INSTANCE SendPath
R == INSTANCE RecvPath

ASSUME ConnectionAssumption ==
  /\ S!CcAssumption /\ S!SendAssumption /\ R!RecvAssumption
  /\ StreamLen \in Nat /\ Chunks \subseteq Nat \ {0} /\ ReadLens \subseteq Nat \ {0}
  /\ MaxFaults \in Nat

VARIABLES
  s,          \* the client's send half (see SendPath)
  app,        \* the client's thread: todo bytes not yet passed to utcp_send, left
              \* bytes of the current call, asleep in pthread_cond_wait, draining
  r,          \* the server's receive half (see RecvPath)
  delivered,  \* everything utcp_read has returned
  segs,       \* data segments on their way: a bag of [seq, data]
  acks,       \* ACKs on their way: a bag of [ack, win]
  faults      \* losses, duplications and early timeouts so far (history)

vars == <<s, app, r, delivered, segs, acks, faults>>

\* The client's stream: bytes are their own sequence numbers.
Stream(seq, n) == [i \in 1 .. n |-> seq + i - 1]

\* Both sides have just been established; utcp_socket installed NewReno.  The
\* window of the SYN-ACK is not scaled.
Init ==
  LET win == S!MIN(RECV_BUF_SIZE, 65535)
  IN  /\ s = S!cc_event_init(
               [snd_una |-> 1, snd_nxt |-> 1, snd_max |-> 1, snd_wnd |-> win,
                cwnd |-> 0, ssthresh |-> 0, ca_state |-> "OPEN", t_dupacks |-> 0,
                recover |-> 0, cc_ops |-> "new_reno", rexmt |-> FALSE, t_rxtshift |-> 0,
                send_buf |-> S!EmptyRing(SEND_BUF_SIZE),
                send_buf_head |-> 0, send_buf_tail |-> 0, out |-> {}])
      /\ r = [rcv_nxt |-> 1, recv_buf |-> R!EmptyRing(RECV_BUF_SIZE),
              recv_buf_head |-> 0, recv_buf_tail |-> 0, ooo |-> {}, ooo_bytes |-> 0,
              t_flags |-> {}, delack |-> FALSE,
              adv |-> [ack |-> 1, win |-> win], edge |-> 1 + win]
      /\ app = [todo |-> StreamLen, left |-> 0, asleep |-> FALSE, draining |-> FALSE]
      /\ delivered = <<>>
      /\ segs = EmptyBag /\ acks = EmptyBag
      /\ faults = 0

\* The client's half becomes t; what it sent enters the network.
Transmit(t) ==
  /\ s' = [t EXCEPT !.out = {}]
  /\ segs' = segs (+) SetToBag(t.out)

-----------------------------------------------------------------------------
\* The client's application: utcp_send until nothing is left, then utcp_drain.

CallSend(len) ==
  /\ ~app.asleep /\ app.left = 0 /\ len <= app.todo
  /\ app' = [app EXCEPT !.todo = @ - len, !.left = len]

\* Bytes that utcp_send can copy into send_buf now.
chunk == S!MIN(app.left, S!send_free_space(s))

\* One turn of utcp_send's loop; with bytes left the thread waits.
WriteChunk ==
  /\ ~app.asleep /\ app.left > 0
  /\ app' = [app EXCEPT !.left = @ - chunk, !.asleep = chunk < app.left]

Drain ==
  /\ ~app.asleep /\ app.left = 0 /\ app.todo = 0
  /\ app' = [app EXCEPT !.draining = TRUE, !.asleep = s.send_buf_head # s.send_buf_tail]

\* A step of the thread, and the bytes it copies and tries to send.
AppMoves == (\E len \in Chunks : CallSend(len)) \/ WriteChunk \/ Drain

ClientApp ==
  /\ AppMoves
  /\ Transmit(IF chunk = 0 THEN s ELSE S!append(s, Stream(s.send_buf_tail + 1, chunk)))
  /\ UNCHANGED <<r, delivered, acks, faults>>

-----------------------------------------------------------------------------
\* The client's listen and timer threads

\* Fault: cond_var is not signalled.
DeliverAck_silent(m) ==
  /\ Transmit(S!utcp_output(S!handle_ack(s, m.ack, m.win, FALSE,
                                         [fired |-> FALSE, armed |-> TRUE])))
  /\ acks' = acks (-) SetToBag({m})
  /\ UNCHANGED <<app, r, delivered, faults>>

DeliverAck(m) ==
  /\ Transmit(S!utcp_output(S!handle_ack(s, m.ack, m.win, FALSE,
                                         [fired |-> FALSE, armed |-> TRUE])))
  /\ app' = [app EXCEPT !.asleep = @ /\ ~S!ack_wakes(s, m.ack, m.win)]
  /\ acks' = acks (-) SetToBag({m})
  /\ UNCHANGED <<r, delivered, faults>>

\* Nothing is on its way and no ACK is being delayed.
Quiet == segs = EmptyBag /\ acks = EmptyBag /\ ~r.delack

\* Bound: after TCP_MAXRXTSHIFT timeouts in a row no more are explored.
RexmtTimeout ==
  /\ s.rexmt /\ s.t_rxtshift < TCP_MAXRXTSHIFT
  /\ Quiet \/ faults < MaxFaults
  /\ faults' = IF Quiet THEN faults ELSE faults + 1
  /\ Transmit(S!rexmt_timeout(s, [fired |-> FALSE, armed |-> TRUE]))
  /\ UNCHANGED <<app, r, delivered, acks>>

-----------------------------------------------------------------------------
\* The server

\* The receive half becomes t after utcp_output; an ACK leaves if it was forced.
Answer(t) ==
  /\ r' = R!utcp_output(t, FALSE)
  /\ acks' = IF "TF_ACKNOW" \in t.t_flags THEN acks (+) SetToBag({r'.adv}) ELSE acks

\* Fault: the bytes rcv_nxt is already past are not cut off.
Accept_whole(m, alloc) ==
  CASE m.seq > r.rcv_nxt -> R!force_ack(R!insert_ooo_segment(r, m.seq, m.data, alloc))
    [] R!EndOf(m) <= r.rcv_nxt -> R!force_ack(r)
    [] OTHER -> IF R!fits(r, m.data) THEN R!accept_in_order(r, m.data, FALSE) ELSE r

\* The payload branches of handle_received_data (see Receiver).  alloc: malloc
\* of a queue entry succeeds.
Accept(m, alloc) ==
  LET data == R!fresh(r, m.seq, m.data)
  IN  CASE m.seq > r.rcv_nxt -> R!force_ack(R!insert_ooo_segment(r, m.seq, m.data, alloc))
        [] R!EndOf(m) <= r.rcv_nxt -> R!force_ack(r)
        [] OTHER -> IF R!fits(r, data) THEN R!accept_in_order(r, data, FALSE) ELSE r

DeliverSeg(m) ==
  /\ \E alloc \in BOOLEAN : Answer(Accept(m, alloc))
  /\ segs' = segs (-) SetToBag({m})
  /\ UNCHANGED <<s, app, delivered, faults>>

\* utcp_read; it blocks while the buffer is empty.
Reads(len) ==
  /\ R!buffered(r) > 0
  /\ delivered' = delivered \o R!utcp_read(r, len, FALSE).bytes

ServerApp(len) ==
  LET t == R!utcp_read(r, len, FALSE).r
  IN  /\ Reads(len)
      /\ r' = t
      /\ acks' = IF R!announces(R!buffered(r), [r EXCEPT !.recv_buf_head = t.recv_buf_head])
                   THEN acks (+) SetToBag({t.adv}) ELSE acks
      /\ UNCHANGED <<s, app, segs, faults>>

DelackExpire ==
  /\ r.delack
  /\ Answer(R!force_ack([r EXCEPT !.t_flags = @ \ {"TF_DELACK"}, !.delack = FALSE]))
  /\ UNCHANGED <<s, app, segs, delivered, faults>>

-----------------------------------------------------------------------------
\* The network

\* A segment, or an ACK, leaves the network.
SegLeaves == \E m \in BagToSet(segs) : segs' = segs (-) SetToBag({m})
AckLeaves == \E m \in BagToSet(acks) : acks' = acks (-) SetToBag({m})

Lose ==
  /\ faults < MaxFaults
  /\ faults' = faults + 1
  /\ (SegLeaves /\ UNCHANGED acks) \/ (AckLeaves /\ UNCHANGED segs)
  /\ UNCHANGED <<s, app, r, delivered>>

Duplicate ==
  /\ faults < MaxFaults
  /\ faults' = faults + 1
  /\ \/ \E m \in BagToSet(segs) : segs' = segs (+) SetToBag({m}) /\ UNCHANGED acks
     \/ \E m \in BagToSet(acks) : acks' = acks (+) SetToBag({m}) /\ UNCHANGED segs
  /\ UNCHANGED <<s, app, r, delivered>>

Next ==
  \/ ClientApp
  \/ \E len \in ReadLens : ServerApp(len)
  \/ \E m \in BagToSet(segs) : DeliverSeg(m)
  \/ \E m \in BagToSet(acks) : DeliverAck(m)
  \/ RexmtTimeout
  \/ DelackExpire
  \/ Lose
  \/ Duplicate

\* The applications and both timer threads keep running, and nothing stays in
\* the network for ever: what is not lost is delivered.
Fairness ==
  /\ WF_app(AppMoves) /\ WF_delivered(\E len \in ReadLens : Reads(len))
  /\ WF_segs(SegLeaves) /\ WF_acks(AckLeaves)
  /\ WF_vars(Quiet /\ RexmtTimeout) /\ WF_vars(DelackExpire)

Spec == Init /\ [][Next]_vars /\ Fairness

-----------------------------------------------------------------------------
\* What a timeout would send now.
resent == S!rexmt_timeout(s, [fired |-> FALSE, armed |-> TRUE]).out

\* The client holds data back, or repeats it, for lack of a window that the
\* server has open; nothing is on its way that could tell it.
ZeroWindow ==
  /\ Quiet /\ s.snd_wnd = 0 /\ R!scaled_win(r) > 0
  /\ s.send_buf_head # s.send_buf_tail

\* The server has read everything, and what the client repeats begins where
\* the server's stream ends but does not fit into recv_buf beside the queue.
Refused ==
  /\ Quiet /\ R!buffered(r) = 0
  /\ \E m \in resent : m.seq = r.rcv_nxt /\ ~R!fits(r, m.data)

Done == Len(delivered) = StreamLen /\ app.draining /\ ~app.asleep

\* The connection is the pipe of ByteStream: the bytes on their way are the
\* unread ones in recv_buf and, behind them, the ones in send_buf that the
\* server has not taken yet.
Pipe == R!ring_buf_read(r.recv_buf, RECV_BUF_SIZE, r.recv_buf_head, R!buffered(r))
          \o S!ring_buf_read(s.send_buf, SEND_BUF_SIZE, r.rcv_nxt - 1,
                             s.send_buf_tail - (r.rcv_nxt - 1))

Abstract == INSTANCE ByteStream WITH
  Source   <- Stream(1, StreamLen),
  Capacity <- SEND_BUF_SIZE + RECV_BUF_SIZE,
  written  <- s.send_buf_tail,
  pipe     <- Pipe,
  output   <- delivered

\* Refinement: whatever is lost, repeated, reordered, queued or resent, the
\* two applications see a bounded first-in first-out pipe: only utcp_send
\* puts bytes in, only utcp_read takes them out, and no other step of either
\* TCB changes what is between them (utcp_send, utcp_read and everything
\* handle_received_data and utcp_timers do).
ImplementsByteStream == Abstract!Spec

\* Liveness: every byte is read and utcp_drain returns, unless the connection
\* stands still for good behind a zero window (the empty TCPT_PERSIST case of
\* utcp_timers) or with a repeated segment that handle_received_data drops
\* each time for lack of space.
TransferOrStall == <>Done \/ <>[](ZeroWindow \/ Refused)

\* A closed window that the server has opened again does not hold the client
\* back for good: utcp_timers names the persist timer for it, and utcp_output.h
\* promises that a new window makes the send buffer move.  A pause until the
\* server's next read announces the window is no violation.
NoZeroWindow == ZeroWindow ~> ~ZeroWindow

\* When all was read, what the client repeats at the server's rcv_nxt has
\* room: tcp.h says that ooo_bytes counts against the window so that the
\* sender cannot go past what can be accepted.
RepeatedAccepted == ~Refused
=============================================================================
