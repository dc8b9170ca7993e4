------------------------------ MODULE Handshake ------------------------------
(***************************************************************************)
(* Connection establishment: utcp_listen, utcp_connect, the LISTEN,        *)
(* SYN_SENT and SYN_RECV branches of utcp_input, what utcp_output sends in *)
(* these states, and the retransmission timer that runs meanwhile.  Each   *)
(* side may have one byte of data to send once it is established, because  *)
(* data can stand in for the last ACK and because a server still in        *)
(* SYN_RECV also runs handle_received_data.                                *)
(*                                                                         *)
(* The network may reorder; it loses, duplicates and delays past the       *)
(* retransmission timeout only as far as MaxLoss, MaxDup and MaxTimeouts   *)
(* allow.  Windows never close here and delayed ACKs may or may not wait.  *)
(* iss is 0 on both sides.                                                 *)
(***************************************************************************)
EXTENDS Integers, FiniteSets

CONSTANTS
  ListenFirst,  \* TRUE if the server listens before the client connects
  Data,         \* bytes (0 or 1) each side's application sends
  MaxLoss, MaxDup, MaxTimeouts

ASSUME HandshakeAssumption ==
  /\ ListenFirst \in BOOLEAN
  /\ Data \in [{"client", "server"} -> {0, 1}]
  /\ MaxLoss \in Nat /\ MaxDup \in Nat /\ MaxTimeouts \in Nat

Ends == {"client", "server"}
Peer(e) == IF e = "client" THEN "server" ELSE "client"

VARIABLES
  tcb,     \* one TCB per side
  net,     \* segments on their way
  faults   \* losses, duplications and timeouts so far

vars == <<tcb, net, faults>>

States == {"CLOSED", "LISTEN", "SYN_SENT", "SYN_RECV", "ESTABLISHED", "CRASHED"}

\* utcp_socket: calloc, then iss and the sequence numbers.  cwnd: whether cwnd
\* has been given a value, by INIT or by a timeout; calloc leaves it 0.
NewTcb == [state |-> "CLOSED", snd_una |-> 0, snd_nxt |-> 0, snd_max |-> 0,
           rcv_nxt |-> 0, send_buf_head |-> 0, send_buf_tail |-> 0,
           rexmt |-> FALSE, cwnd |-> FALSE, acknow |-> FALSE]

NoFaults == [lost |-> 0, dup |-> 0, late |-> 0]

Init ==
  /\ tcb = [e \in Ends |-> NewTcb]
  /\ net = {}
  /\ faults = NoFaults

-----------------------------------------------------------------------------
\* Output

tcp_outflags(state) ==
  CASE state = "SYN_SENT" -> {"SYN"}
    [] state = "SYN_RECV" -> {"SYN", "ACK"}
    [] state = "ESTABLISHED" -> {"ACK"}

is_syn(t) == "SYN" \in tcp_outflags(t.state)

\* The control packet safeguard: a SYN takes a sequence number only at the
\* frontier of what was sent.
sending_new_syn(t) == is_syn(t) /\ t.snd_nxt = t.snd_max

\* Fault: nothing guards the subtraction.
data_length_unguarded(t) ==
  IF t.state = "ESTABLISHED" THEN t.send_buf_tail - (t.snd_nxt - 1) ELSE 0

\* Unsent bytes; data leaves only in ESTABLISHED.
data_length(t) ==
  IF t.state = "ESTABLISHED" /\ t.send_buf_tail > t.snd_nxt - 1 THEN 1 ELSE 0

\* utcp_output: at most one segment here, since at most one byte waits.
utcp_output(e, t) ==
  LET len      == data_length(t)
      consumed == len + IF sending_new_syn(t) THEN 1 ELSE 0
      seg      == [to |-> Peer(e), flags |-> tcp_outflags(t.state),
                   seq |-> t.snd_nxt, ack |-> t.rcv_nxt, len |-> len]
      nxt      == t.snd_nxt + consumed
  IN  IF consumed > 0 \/ t.acknow
        THEN [t |-> [t EXCEPT !.acknow = FALSE, !.snd_nxt = nxt,
                              !.snd_max = IF nxt > @ THEN nxt ELSE @,
                              !.rexmt = @ \/ consumed > 0],
              segs |-> {seg}]
        ELSE [t |-> t, segs |-> {}]

\* utcp_retransmit_segment: the oldest byte, sent or not; nothing before
\* ESTABLISHED.  Sequence numbers and the timer stay as they are.
utcp_retransmit_segment(e, t) ==
  IF t.state = "ESTABLISHED"
    THEN {[to |-> Peer(e), flags |-> tcp_outflags(t.state), seq |-> t.snd_una,
           ack |-> t.rcv_nxt, len |-> IF t.send_buf_tail > t.snd_una - 1 THEN 1 ELSE 0]}
    ELSE {}

\* A step of side e that ends in utcp_output; taken is removed from the net, and
\* again was sent before.
Finish(e, t, taken, again) ==
  LET o == utcp_output(e, t)
  IN  /\ tcb' = [tcb EXCEPT ![e] = o.t]
      /\ net' = (net \ taken) \cup again \cup o.segs

-----------------------------------------------------------------------------
\* The applications

utcp_listen ==
  /\ tcb["server"].state = "CLOSED"
  /\ tcb' = [tcb EXCEPT !["server"].state = "LISTEN"]
  /\ UNCHANGED <<net, faults>>

utcp_connect ==
  /\ tcb["client"].state = "CLOSED"
  /\ ListenFirst => tcb["server"].state # "CLOSED"
  /\ Finish("client", [tcb["client"] EXCEPT !.state = "SYN_SENT"], {}, {})
  /\ UNCHANGED faults

\* utcp_connect or utcp_accept has returned and the application sends.
utcp_send(e) ==
  /\ tcb[e].state = "ESTABLISHED" /\ tcb[e].send_buf_tail < Data[e]
  /\ Finish(e, [tcb[e] EXCEPT !.send_buf_tail = @ + 1], {}, {})
  /\ UNCHANGED faults

-----------------------------------------------------------------------------
\* utcp_input.  A segment that stays in the network after it is received is
\* one the network duplicated.

\* The receiver of segment m takes it out, or leaves a duplicate behind.
Consumed(m, taken) ==
  \/ taken = {m} /\ UNCHANGED faults
  \/ /\ taken = {} /\ faults.dup < MaxDup
     /\ faults' = [faults EXCEPT !.dup = @ + 1]

\* Fault: a byte that was received before is taken again.
in_order_again(t, m) == m.seq <= t.rcv_nxt

in_order(t, m) == m.seq = t.rcv_nxt

\* handle_received_data, in ESTABLISHED or falling through from SYN_RECV.  An
\* ACK event while cwnd is still 0 divides by zero in cc_aimd.
\* now: the ACK of in-order data is not delayed.
\* A lone byte never lies past rcv_nxt, so nothing is queued here.
handle_received_data(t, m, now) ==
  LET new_ack == m.ack > t.snd_una /\ m.ack <= t.snd_max
      acked   == IF new_ack
                   THEN [t EXCEPT !.snd_una = m.ack,
                                  !.snd_nxt = IF m.ack > @ THEN m.ack ELSE @,
                                  !.send_buf_head = @ + (m.ack - t.snd_una),
                                  !.rexmt = m.ack # t.snd_max,
                                  !.state = IF t.cwnd THEN @ ELSE "CRASHED"]
                   ELSE t
  IN  IF m.len = 0 \/ acked.state = "CRASHED"
        THEN acked
        ELSE IF in_order(t, m)
               THEN [acked EXCEPT !.rcv_nxt = @ + 1, !.acknow = now]
               ELSE [acked EXCEPT !.acknow = TRUE]

\* u, that is t after m, knows of bytes outstanding, and m is an ACK that told it
\* no more than that: a bare duplicate, or one of part of them.
may_repeat(t, u, m) ==
  m.ack = u.snd_una /\ u.snd_una # u.snd_max /\ (m.len = 0 \/ m.ack > t.snd_una)

\* A segment is processed and utcp_output runs.  Congestion control repeats the
\* oldest segment at the third duplicate ACK, or at a partial ACK in recovery,
\* before the data is looked at.  Neither t_dupacks nor ca_state is kept: any
\* ACK that could be the one may be it, and gives cwnd a value.
Processed(t, m, taken) ==
  \E now \in BOOLEAN, repeat \in BOOLEAN :
    LET v == handle_received_data(t, m, now)
    IN  /\ repeat => may_repeat(t, v, m)
        /\ IF v.state = "CRASHED"
             THEN tcb' = [tcb EXCEPT ![m.to] = v] /\ net' = net \ taken
             ELSE Finish(m.to, [v EXCEPT !.cwnd = @ \/ repeat], taken,
                         IF repeat
                           THEN utcp_retransmit_segment(m.to, [v EXCEPT !.rcv_nxt = t.rcv_nxt])
                           ELSE {})

\* A segment for which find_tcb has no TCB: the lock of a null TCB is taken.
RecvStray(m) ==
  /\ m.to = "server" /\ tcb["server"].state = "CLOSED"
  /\ tcb' = [tcb EXCEPT !["server"].state = "CRASHED"]
  /\ \E taken \in SUBSET {m} : Consumed(m, taken) /\ net' = net \ taken

RecvListen(m) ==
  /\ tcb[m.to].state = "LISTEN"
  /\ \E taken \in SUBSET {m} :
       /\ Consumed(m, taken)
       /\ IF "SYN" \in m.flags
            THEN Finish(m.to, [tcb[m.to] EXCEPT !.rcv_nxt = m.seq + 1, !.snd_nxt = 0,
                                                !.snd_una = 0, !.state = "SYN_RECV"],
                                 taken, {})
            ELSE tcb' = tcb /\ net' = net \ taken

\* Fault: the SYN is not counted, so the ACK is expected one too low.
syn_ack_ok_iss(t, m) == {"SYN", "ACK"} \subseteq m.flags /\ m.ack = t.snd_una

\* The SYN-ACK must acknowledge exactly what was sent.
syn_ack_ok(t, m) == {"SYN", "ACK"} \subseteq m.flags /\ m.ack = t.snd_nxt

\* Fault: snd_una stays at the SYN, which is then counted as a byte acked.
syn_acked_una(t, m) ==
  [t EXCEPT !.rcv_nxt = m.seq + 1, !.state = "ESTABLISHED", !.rexmt = FALSE,
            !.cwnd = TRUE, !.acknow = TRUE]

\* The client is established, and must acknowledge the server's SYN.
syn_acked(t, m) ==
  [t EXCEPT !.snd_una = m.ack, !.rcv_nxt = m.seq + 1, !.state = "ESTABLISHED",
            !.rexmt = FALSE, !.cwnd = TRUE, !.acknow = TRUE]

RecvSynSent(m) ==
  LET t == tcb[m.to]
  IN  /\ t.state = "SYN_SENT"
      /\ \E taken \in SUBSET {m} :
           /\ Consumed(m, taken)
           /\ IF syn_ack_ok(t, m)
                THEN Finish(m.to, syn_acked(t, m), taken, {})
                ELSE tcb' = tcb /\ net' = net \ taken

\* Faults: the ACK flag is not looked at; data cannot stand in for the ACK.
last_ack_ok_any(t, m)  == m.ack = t.snd_nxt
last_ack_ok_bare(t, m) == "ACK" \in m.flags /\ m.len = 0 /\ m.ack = t.snd_nxt

\* The last ACK of the handshake acknowledges exactly the SYN-ACK.
last_ack_ok(t, m) == "ACK" \in m.flags /\ m.ack = t.snd_nxt

\* Any other segment leaves the state, but is processed all the same.
RecvSynRecv(m) ==
  LET t == tcb[m.to]
      u == IF last_ack_ok(t, m)
             THEN [t EXCEPT !.state = "ESTABLISHED", !.snd_una = m.ack,
                            !.rexmt = FALSE, !.cwnd = TRUE]
             ELSE t
  IN  /\ t.state = "SYN_RECV"
      /\ \E taken \in SUBSET {m} : Consumed(m, taken) /\ Processed(u, m, taken)

RecvEstablished(m) ==
  /\ tcb[m.to].state = "ESTABLISHED"
  /\ \E taken \in SUBSET {m} : Consumed(m, taken) /\ Processed(tcb[m.to], m, taken)

-----------------------------------------------------------------------------
\* TCPT_REXMT: snd_nxt falls back to snd_una, cc_timeout sets cwnd to an MSS and
\* utcp_output runs.
RexmtTimeout(e) ==
  /\ tcb[e].rexmt /\ tcb[e].state # "CRASHED"
  /\ faults.late < MaxTimeouts
  /\ faults' = [faults EXCEPT !.late = @ + 1]
  /\ Finish(e, [tcb[e] EXCEPT !.snd_nxt = tcb[e].snd_una, !.cwnd = TRUE], {}, {})

Lose(m) ==
  /\ faults.lost < MaxLoss
  /\ faults' = [faults EXCEPT !.lost = @ + 1]
  /\ net' = net \ {m}
  /\ UNCHANGED tcb

Recv(m) ==
  RecvStray(m) \/ RecvListen(m) \/ RecvSynSent(m) \/ RecvSynRecv(m) \/ RecvEstablished(m)

Next ==
  \/ utcp_listen
  \/ utcp_connect
  \/ \E e \in Ends : utcp_send(e) \/ RexmtTimeout(e)
  \/ \E m \in net : Recv(m) \/ Lose(m)

\* The threads keep running and a segment the network keeps is delivered.  The
\* timer may stay away: what is promised below must not need it.
Fairness ==
  /\ WF_vars(utcp_listen) /\ WF_vars(utcp_connect)
  /\ \A e \in Ends : WF_vars(utcp_send(e))
  /\ WF_vars(\E m \in net : Recv(m))

Spec == Init /\ [][Next]_vars /\ Fairness

-----------------------------------------------------------------------------
Segments == [to : Ends, flags : SUBSET {"SYN", "ACK"}, seq : Nat, ack : Nat, len : {0, 1}]

\* The TCB fields establishment touches, and the segments it exchanges.
TypeOK ==
  /\ tcb \in [Ends -> [state : States, snd_una : Nat, snd_nxt : Nat, snd_max : Nat,
                       rcv_nxt : Nat, send_buf_head : Nat, send_buf_tail : Nat,
                       rexmt : BOOLEAN, cwnd : BOOLEAN, acknow : BOOLEAN]]
  /\ net \subseteq Segments
  /\ faults \in [lost : Nat, dup : Nat, late : Nat]

\* Two established sides agree on both sequence spaces: what one has received
\* lies between what the other knows acknowledged and what it has sent.
Synchronised ==
  (\A e \in Ends : tcb[e].state = "ESTABLISHED")
    => \A e \in Ends : /\ tcb[e].snd_una <= tcb[Peer(e)].rcv_nxt
                       /\ tcb[Peer(e)].rcv_nxt <= tcb[e].snd_max

\* The server is established only by a client that is: no half-open accept.
AcceptedHasPeer ==
  tcb["server"].state = "ESTABLISHED" => tcb["client"].state = "ESTABLISHED"

\* The buffer's head never passes its tail: the SYN's sequence number is not
\* counted as a byte of the buffer.  (A duplicated SYN, or a timeout in
\* SYN_RECV, does lead there: the ACK is then taken for one of data.)
HeadBehindTail ==
  faults.dup = 0 /\ faults.late = 0
    => \A e \in Ends : tcb[e].send_buf_head <= tcb[e].send_buf_tail

\* utcp_connect and utcp_accept, both spinning on the state, return unless the
\* network or the timer interferes or the client starts before the server.
BothEstablished ==
  <>(\/ faults # NoFaults \/ tcb["server"].state = "CRASHED"
     \/ \A e \in Ends : tcb[e].state = "ESTABLISHED")

\* A lost last ACK is made up for by the client's first data: once utcp_connect
\* has returned, utcp_accept returns, unless a duplicate or a timeout moved the
\* server's snd_nxt away from what the client acknowledges.
AcceptFollows ==
  tcb["client"].state = "ESTABLISHED"
    ~> tcb["server"].state = "ESTABLISHED" \/ faults.dup > 0 \/ faults.late > 0

\* Comment in utcp_timers: the expired timer forces a retransmission, here when
\* what was sent before is no longer on its way.
TimeoutSends == [][faults'.late > faults.late /\ net = {} => net' # {}]_vars

\* tcp.h: INIT is the event of a connection just established, ACK that of a
\* normal acknowledgement of data; no ACK event comes before INIT.
InitBeforeAck ==
  [][\A e \in Ends : tcb[e].state = "SYN_RECV" => tcb'[e].state # "CRASHED"]_vars
=============================================================================
