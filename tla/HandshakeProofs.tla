--------------------------- MODULE HandshakeProofs ---------------------------
(***************************************************************************)
(* What connection establishment keeps whatever the network and the timer  *)
(* do, proved for any number of losses, duplications and timeouts.  The    *)
(* invariant speaks of the segments on their way: what a segment           *)
(* acknowledges its sender has received, what takes up a sequence number   *)
(* its sender counts as sent, and only an established client sends an ACK. *)
(* As long as nothing was duplicated and no timer expired it also says     *)
(* that the only SYN is the first one and that each side has used exactly  *)
(* one sequence number that is not a byte of its buffer.                   *)
(***************************************************************************)
EXTENDS Handshake, TLAPS

Tcb == [state : States, snd_una : Nat, snd_nxt : Nat, snd_max : Nat,
        rcv_nxt : Nat, send_buf_head : Nat, send_buf_tail : Nat,
        rexmt : BOOLEAN, cwnd : BOOLEAN, acknow : BOOLEAN]

\* The states in which utcp_output has flags to send.
Open == {"SYN_SENT", "SYN_RECV", "ESTABLISHED"}

\* Which side is in which state.
Roles ==
  /\ tcb["client"].state \in {"CLOSED", "SYN_SENT", "ESTABLISHED"}
  /\ tcb["server"].state # "SYN_SENT"
  /\ AcceptedHasPeer

\* Nothing happens to a TCB before it listens or connects.
Fresh ==
  \A e \in Ends : tcb[e].state \in {"CLOSED", "LISTEN"} =>
    /\ tcb[e].snd_una = 0 /\ tcb[e].snd_nxt = 0 /\ tcb[e].snd_max = 0
    /\ tcb[e].rcv_nxt = 0 /\ tcb[e].send_buf_head = 0 /\ tcb[e].send_buf_tail = 0
    /\ tcb[e].rexmt = FALSE /\ tcb[e].acknow = FALSE

\* INIT has been raised on an established side.  A client that waits for the
\* SYN-ACK has received nothing; once it is established, and once the server has
\* left LISTEN, the peer's SYN has been counted.
Raised ==
  /\ \A e \in Ends : tcb[e].state = "ESTABLISHED" => tcb[e].cwnd = TRUE
  /\ tcb["client"].state = "SYN_SENT" => tcb["client"].rcv_nxt = 0
  /\ \A e \in Ends : tcb[e].state \in {"SYN_RECV", "ESTABLISHED"} => tcb[e].rcv_nxt > 0

\* Both sequence spaces agree in every state, established or not.
Agree ==
  \A e \in Ends : /\ tcb[e].snd_una <= tcb[Peer(e)].rcv_nxt
                  /\ tcb[Peer(e)].rcv_nxt <= tcb[e].snd_max
                  /\ tcb[e].snd_nxt <= tcb[e].snd_max

\* What the segments on their way say is true of their senders.
SegmentsTrue ==
  \A m \in net :
    /\ m.ack <= tcb[Peer(m.to)].rcv_nxt
    /\ ("SYN" \in m.flags \/ m.len = 1) => m.seq < tcb[Peer(m.to)].snd_max
    /\ (m.to = "server" /\ "ACK" \in m.flags)
         => (tcb["client"].state = "ESTABLISHED" /\ m.ack > 0)

Quiet == faults.dup = 0 /\ faults.late = 0

\* The SYN of utcp_connect.
FirstSyn == [to |-> "server", flags |-> {"SYN"}, seq |-> 0, ack |-> 0, len |-> 0]

\* One sequence number, the SYN's, is not a byte of the buffer.
Counted(t) ==
  /\ t.send_buf_head <= t.send_buf_tail
  /\ t.state \in {"SYN_SENT", "SYN_RECV"} =>
       /\ t.snd_una = 0 /\ t.snd_nxt = 1 /\ t.snd_max = 1
       /\ t.send_buf_head = 0 /\ t.send_buf_tail = 0
  /\ t.state = "ESTABLISHED" =>
       /\ t.snd_una = t.send_buf_head + 1
       /\ t.snd_una <= t.snd_nxt
       /\ t.snd_max <= t.send_buf_tail + 1

\* Without duplicates and timeouts each side counts right, and the server meets
\* a SYN only while it listens.
Calm ==
  Quiet =>
    /\ \A e \in Ends : Counted(tcb[e])
    /\ \A m \in net : m.to = "server" =>
         \/ m = FirstSyn /\ tcb["server"].state \in {"CLOSED", "LISTEN", "CRASHED"}
         \/ m.flags = {"ACK"}

HandshakeInv == TypeOK /\ Roles /\ Fresh /\ Raised /\ Agree /\ SegmentsTrue /\ Calm

-----------------------------------------------------------------------------
\* Facts about the operators

\* The flags of each state, as a fact without CASE.
LEMMA Flags ==
  /\ tcp_outflags("SYN_SENT") = {"SYN"}
  /\ tcp_outflags("SYN_RECV") = {"SYN", "ACK"}
  /\ tcp_outflags("ESTABLISHED") = {"ACK"}
<1>1. tcp_outflags("SYN_SENT") = {"SYN"}
  BY Zenon DEF tcp_outflags
<1>2. tcp_outflags("SYN_RECV") = {"SYN", "ACK"}
  BY Zenon DEF tcp_outflags
<1>3. tcp_outflags("ESTABLISHED") = {"ACK"}
  BY Zenon DEF tcp_outflags
<1> QED BY <1>1, <1>2, <1>3

LEMMA Peers ==
  /\ Peer("client") = "server" /\ Peer("server") = "client"
  /\ \A e \in Ends : Peer(e) \in Ends /\ Peer(e) # e /\ Peer(Peer(e)) = e
BY DEF Peer, Ends

\* What utcp_output leaves alone, what it counts and what it sends.
OutputGood(e, t, u, segs) ==
  /\ u \in Tcb /\ segs \subseteq Segments
  /\ u.state = t.state /\ u.snd_una = t.snd_una /\ u.rcv_nxt = t.rcv_nxt
  /\ u.send_buf_head = t.send_buf_head /\ u.send_buf_tail = t.send_buf_tail
  /\ u.cwnd = t.cwnd
  /\ t.snd_nxt <= u.snd_nxt /\ t.snd_max <= u.snd_max /\ u.snd_nxt <= u.snd_max
  /\ t.state = "ESTABLISHED" => u.snd_max <= t.snd_max \/ u.snd_max <= t.send_buf_tail + 1
  /\ t.state # "ESTABLISHED" /\ t.snd_nxt = t.snd_max
       => u.snd_nxt = t.snd_nxt + 1 /\ u.snd_max = t.snd_nxt + 1
  /\ \A m \in segs :
       /\ m.to = Peer(e) /\ m.flags = tcp_outflags(t.state)
       /\ m.seq = t.snd_nxt /\ m.ack = t.rcv_nxt
       /\ t.state # "ESTABLISHED" => m.len = 0
       /\ ("SYN" \in m.flags \/ m.len = 1) => m.seq < u.snd_max

LEMMA Output ==
  ASSUME NEW e \in Ends, NEW t \in Tcb, t.state \in Open, t.snd_nxt <= t.snd_max
  PROVE  OutputGood(e, t, utcp_output(e, t).t, utcp_output(e, t).segs)
<1> DEFINE fl == tcp_outflags(t.state)
           len == data_length(t)
           one == IF sending_new_syn(t) THEN 1 ELSE 0
           nxt == t.snd_nxt + (len + one)
           seg == [to |-> Peer(e), flags |-> fl, seq |-> t.snd_nxt,
                   ack |-> t.rcv_nxt, len |-> len]
           top == IF nxt > t.snd_max THEN nxt ELSE t.snd_max
           sent == [t EXCEPT !.acknow = FALSE, !.snd_nxt = nxt, !.snd_max = top,
                             !.rexmt = t.rexmt \/ len + one > 0]
           o == utcp_output(e, t)
<1>1. \/ o.t = sent /\ o.segs = {seg}
      \/ o.t = t /\ o.segs = {} /\ len + one = 0
  <2>1. len \in {0, 1} /\ one \in {0, 1}
    BY DEF data_length
  <2>2. CASE len + one > 0 \/ t.acknow
    <3>1. o = [t |-> sent, segs |-> {seg}]
      BY <2>2, Zenon DEF utcp_output
    <3> HIDE DEF o, sent, seg
    <3> QED BY <3>1
  <2>3. CASE ~(len + one > 0 \/ t.acknow)
    BY <2>1, <2>3 DEF utcp_output, Tcb
  <2> QED BY <2>2, <2>3
<1>2. /\ fl \in SUBSET {"SYN", "ACK"}
      /\ t.state = "ESTABLISHED" => "SYN" \notin fl
      /\ t.state # "ESTABLISHED" => "SYN" \in fl
  BY Flags DEF Open
<1>3. /\ len \in {0, 1} /\ one \in {0, 1}
      /\ t.state # "ESTABLISHED" => len = 0
      /\ t.state = "ESTABLISHED" => one = 0
      /\ len = 1 => t.snd_nxt + 1 <= t.send_buf_tail + 1
      /\ t.state # "ESTABLISHED" => one = IF t.snd_nxt = t.snd_max THEN 1 ELSE 0
  BY <1>2 DEF data_length, sending_new_syn, is_syn, Tcb
<1>4. /\ t.snd_nxt \in Nat /\ t.snd_max \in Nat /\ t.rcv_nxt \in Nat /\ t.send_buf_tail \in Nat
      /\ t.acknow \in BOOLEAN /\ t.rexmt \in BOOLEAN
  BY DEF Tcb
<1> HIDE DEF fl, len, one, o
<1>5. nxt \in Nat /\ top \in Nat /\ nxt <= top /\ t.snd_max <= top /\ t.snd_nxt <= nxt
  BY <1>3, <1>4
<1>6. /\ t.state = "ESTABLISHED" => top <= t.snd_max \/ top <= t.send_buf_tail + 1
      /\ t.state # "ESTABLISHED" /\ t.snd_nxt = t.snd_max
           => nxt = t.snd_nxt + 1 /\ top = t.snd_nxt + 1
      /\ "SYN" \in fl \/ len = 1 => t.snd_nxt < top
  BY <1>2, <1>3, <1>4
<1>7. Peer(e) \in Ends
  BY Peers
<1> HIDE DEF nxt, top
<1>8. CASE o.t = sent /\ o.segs = {seg}
  <2>1. sent \in Tcb /\ seg \in Segments
    BY <1>2, <1>3, <1>4, <1>5, <1>7 DEF Tcb, Segments
  <2>2. /\ sent.state = t.state /\ sent.snd_una = t.snd_una /\ sent.rcv_nxt = t.rcv_nxt
        /\ sent.send_buf_head = t.send_buf_head /\ sent.send_buf_tail = t.send_buf_tail
        /\ sent.cwnd = t.cwnd /\ sent.snd_nxt = nxt /\ sent.snd_max = top
    BY DEF Tcb
  <2>3. /\ seg.to = Peer(e) /\ seg.flags = fl /\ seg.seq = t.snd_nxt
        /\ seg.ack = t.rcv_nxt /\ seg.len = len
    OBVIOUS
  <2> HIDE DEF sent, seg
  <2>4. OutputGood(e, t, sent, {seg})
    BY <1>3, <1>5, <1>6, <2>1, <2>2, <2>3 DEF OutputGood, fl
  <2> QED BY <1>8, <2>4 DEF o
<1>9. CASE o.t = t /\ o.segs = {} /\ len + one = 0
  <2>1. t.state # "ESTABLISHED" => t.snd_nxt # t.snd_max
    BY <1>3, <1>9
  <2>2. OutputGood(e, t, t, {})
    BY <1>4, <2>1 DEF OutputGood
  <2> QED BY <1>9, <2>2 DEF o
<1> QED BY <1>1, <1>8, <1>9

LEMMA TcbTypes ==
  ASSUME TypeOK, NEW e \in Ends
  PROVE  tcb[e] \in Tcb
BY DEF TypeOK, Tcb

\* The fields of a TCB that are numbers.
LEMMA Numbers ==
  ASSUME NEW t \in Tcb
  PROVE  /\ t.snd_una \in Nat /\ t.snd_nxt \in Nat /\ t.snd_max \in Nat
         /\ t.rcv_nxt \in Nat /\ t.send_buf_head \in Nat /\ t.send_buf_tail \in Nat
BY DEF Tcb

-----------------------------------------------------------------------------
\* Steps that end in utcp_output

SafePart == TypeOK /\ Roles /\ Fresh /\ Raised /\ Agree /\ SegmentsTrue

\* The TCB a handler hands to utcp_output on side e: it lost nothing that it
\* counted before, and claims nothing of the peer that the peer does not bear out.
Ready(e, t) ==
  /\ t \in Tcb /\ t.state \in Open /\ t.snd_nxt <= t.snd_max
  /\ t.snd_una <= tcb[Peer(e)].rcv_nxt /\ t.rcv_nxt <= tcb[Peer(e)].snd_max
  /\ tcb[e].rcv_nxt <= t.rcv_nxt /\ tcb[e].snd_max <= t.snd_max
  /\ t.state = "ESTABLISHED" => t.cwnd = TRUE
  /\ t.state # "SYN_SENT" => t.rcv_nxt > 0
  /\ e = "client" => /\ t.state # "SYN_RECV"
                     /\ t.state = "SYN_SENT"
                          => t.rcv_nxt = 0 /\ tcb["client"].state # "ESTABLISHED"
  /\ e = "server" => /\ t.state # "SYN_SENT"
                     /\ t.state = "ESTABLISHED" => tcb["client"].state = "ESTABLISHED"

\* What side e sends again before utcp_output runs: a segment of an established
\* side that says no more than its TCB does.
RepeatGood(e, t, again) ==
  /\ again \subseteq Segments
  /\ \A m \in again : /\ t.state = "ESTABLISHED" /\ m.to = Peer(e) /\ m.flags = {"ACK"}
                      /\ 0 < m.ack /\ m.ack <= t.rcv_nxt
                      /\ m.len = 1 => m.seq < t.snd_max

\* Where congestion control repeats a segment, its oldest byte has been sent.
LEMMA RepeatTrue ==
  ASSUME NEW e \in Ends, NEW u \in Tcb, NEW t \in Tcb, u.state = t.state, u.snd_max = t.snd_max,
         0 < u.rcv_nxt, u.rcv_nxt <= t.rcv_nxt, u.snd_una < u.snd_max
  PROVE  RepeatGood(e, t, utcp_retransmit_segment(e, u))
<1> DEFINE len == IF u.send_buf_tail > u.snd_una - 1 THEN 1 ELSE 0
           seg == [to |-> Peer(e), flags |-> tcp_outflags(u.state), seq |-> u.snd_una,
                   ack |-> u.rcv_nxt, len |-> len]
<1>1. CASE u.state # "ESTABLISHED"
  BY <1>1 DEF utcp_retransmit_segment, RepeatGood
<1>2. CASE u.state = "ESTABLISHED"
  <2>1. utcp_retransmit_segment(e, u) = {seg}
    BY <1>2, Zenon DEF utcp_retransmit_segment
  <2>2. tcp_outflags(u.state) = {"ACK"} /\ Peer(e) \in Ends /\ len \in {0, 1}
    BY <1>2, Flags, Peers
  <2> HIDE DEF len
  <2>3. /\ seg \in Segments /\ seg.to = Peer(e) /\ seg.flags = {"ACK"}
        /\ seg.ack = u.rcv_nxt /\ seg.seq = u.snd_una
    BY <2>2, Numbers DEF Segments
  <2> HIDE DEF seg
  <2> QED BY <1>2, <2>1, <2>3 DEF RepeatGood
<1> QED BY <1>1, <1>2

LEMMA FinishSafe ==
  ASSUME SafePart, NEW e \in Ends, NEW t, Ready(e, t), NEW taken, NEW again,
         RepeatGood(e, t, again), Finish(e, t, taken, again),
         faults' \in [lost : Nat, dup : Nat, late : Nat]
  PROVE  SafePart'
<1> DEFINE o == utcp_output(e, t)  u == o.t  segs == o.segs  p == Peer(e)
<1>1. OutputGood(e, t, u, segs)
  BY Output DEF Ready
<1>2. /\ tcb' = [tcb EXCEPT ![e] = u] /\ net' = (net \ taken) \cup again \cup segs
  BY DEF Finish
<1>3. /\ p \in Ends /\ p # e /\ Peer(p) = e /\ \A x \in Ends : x = e \/ x = p
      /\ (e = "client" /\ p = "server") \/ (e = "server" /\ p = "client")
  BY DEF Peer, Ends
<1> HIDE DEF u, segs, p
<1>4. tcb'[e] = u /\ tcb'[p] = tcb[p]
  BY <1>2, <1>3 DEF SafePart, TypeOK
<1>5. tcb[e] \in Tcb /\ tcb[p] \in Tcb /\ t \in Tcb /\ u \in Tcb
  BY TcbTypes, <1>1, <1>3 DEF SafePart, Ready, OutputGood
<1>6. /\ u.state = t.state /\ u.snd_una = t.snd_una /\ u.rcv_nxt = t.rcv_nxt
      /\ u.cwnd = t.cwnd /\ t.snd_max <= u.snd_max /\ u.snd_nxt <= u.snd_max
  BY <1>1 DEF OutputGood
<1>7. TypeOK'
  <2>1. tcb' \in [Ends -> Tcb]
    BY <1>2, <1>5 DEF SafePart, TypeOK, Tcb
  <2>2. net' \subseteq Segments
    BY <1>1, <1>2 DEF OutputGood, RepeatGood, SafePart, TypeOK
  <2> QED BY <2>1, <2>2 DEF TypeOK, Tcb
<1>8. Roles'
  BY <1>3, <1>4, <1>6 DEF SafePart, Roles, AcceptedHasPeer, Ready, Open
<1>9. Fresh'
  BY <1>3, <1>4, <1>6 DEF SafePart, Fresh, Ready, Open
<1>10. Raised'
  BY <1>3, <1>4, <1>6 DEF SafePart, Raised, Roles, Ready, Open
<1>11. Agree'
  <2>1. /\ u.snd_una <= tcb[p].rcv_nxt /\ tcb[p].rcv_nxt <= u.snd_max
        /\ tcb[p].snd_una <= u.rcv_nxt /\ u.rcv_nxt <= tcb[p].snd_max
        /\ tcb[p].snd_nxt <= tcb[p].snd_max
    <3>1. /\ tcb[e].snd_max <= t.snd_max /\ tcb[e].rcv_nxt <= t.rcv_nxt
          /\ t.snd_una <= tcb[p].rcv_nxt /\ t.rcv_nxt <= tcb[p].snd_max
      BY DEF Ready, p
    <3>2. /\ tcb[p].rcv_nxt <= tcb[e].snd_max /\ tcb[p].snd_una <= tcb[e].rcv_nxt
          /\ tcb[p].snd_nxt <= tcb[p].snd_max
      BY <1>3 DEF SafePart, Agree, p
    <3> QED BY <3>1, <3>2, <1>5, <1>6, Numbers
  <2> QED BY <1>3, <1>4, <1>6, <2>1 DEF Agree, p
<1>12. SegmentsTrue'
  <2> SUFFICES ASSUME NEW m \in net'
               PROVE  /\ m.ack <= tcb'[Peer(m.to)].rcv_nxt
                      /\ ("SYN" \in m.flags \/ m.len = 1) => m.seq < tcb'[Peer(m.to)].snd_max
                      /\ (m.to = "server" /\ "ACK" \in m.flags)
                           => (tcb'["client"].state = "ESTABLISHED" /\ m.ack > 0)
    BY DEF SegmentsTrue
  <2>1. CASE m \in segs
    <3>1. /\ m.to = p /\ m.flags = tcp_outflags(t.state) /\ m.ack = t.rcv_nxt
          /\ ("SYN" \in m.flags \/ m.len = 1) => m.seq < u.snd_max
      BY <1>1, <2>1 DEF OutputGood, p
    <3>2. m.to = "server" /\ "ACK" \in m.flags => t.state = "ESTABLISHED"
      BY <1>3, <3>1, Flags DEF Ready, Open
    <3>3. m.ack <= t.rcv_nxt
      BY <3>1, <1>5, Numbers
    <3>4. t.state = "ESTABLISHED" => t.rcv_nxt > 0
      BY DEF Ready
    <3> QED BY <1>3, <1>4, <1>6, <3>1, <3>2, <3>3, <3>4
  <2>2. CASE m \in net
    <3>1. /\ m.ack <= tcb[Peer(m.to)].rcv_nxt
          /\ ("SYN" \in m.flags \/ m.len = 1) => m.seq < tcb[Peer(m.to)].snd_max
          /\ (m.to = "server" /\ "ACK" \in m.flags)
               => (tcb["client"].state = "ESTABLISHED" /\ m.ack > 0)
      BY <2>2 DEF SafePart, SegmentsTrue
    <3>2. Peer(m.to) \in Ends /\ m.ack \in Nat /\ m.seq \in Nat
      BY <2>2, Peers DEF SafePart, TypeOK, Segments
    <3>3. tcb["client"].state = "ESTABLISHED" => tcb'["client"].state = "ESTABLISHED"
      BY <1>3, <1>4, <1>6 DEF Ready, Open
    <3>4. CASE Peer(m.to) = e
      <4>1. /\ tcb[e].rcv_nxt <= u.rcv_nxt
            /\ tcb[e].snd_max <= u.snd_max
        BY <1>5, <1>6, Numbers DEF Ready
      <4> QED BY <3>1, <3>2, <3>3, <3>4, <4>1, <1>4, <1>5, Numbers
    <3>5. CASE Peer(m.to) = p
      BY <3>1, <3>2, <3>3, <3>5, <1>4
    <3> QED BY <3>2, <3>4, <3>5, <1>3
  <2>3. CASE m \in again
    <3>1. /\ m \in Segments /\ m.to = p /\ m.flags = {"ACK"} /\ t.state = "ESTABLISHED"
          /\ 0 < m.ack /\ m.ack <= t.rcv_nxt /\ (m.len = 1 => m.seq < t.snd_max)
      BY <2>3 DEF RepeatGood, p
    <3>2. m.ack \in Nat /\ m.seq \in Nat
      BY <3>1 DEF Segments
    <3>3. m.len = 1 => m.seq < u.snd_max
      BY <1>5, <1>6, <3>1, <3>2, Numbers
    <3>4. m.to = "server" => e = "client"
      BY <1>3, <3>1
    <3> QED BY <1>3, <1>4, <1>6, <3>1, <3>2, <3>3, <3>4
  <2> QED BY <1>2, <2>1, <2>2, <2>3
<1> QED BY <1>7, <1>8, <1>9, <1>10, <1>11, <1>12 DEF SafePart

\* What Calm says of the segments.
FirstSynOnly ==
  \A m \in net : m.to = "server" =>
    \/ m = FirstSyn /\ tcb["server"].state \in {"CLOSED", "LISTEN", "CRASHED"}
    \/ m.flags = {"ACK"}

\* utcp_output on an established side sends bytes of the buffer only.
LEMMA FinishCalm ==
  ASSUME HandshakeInv, Quiet, NEW e \in Ends, NEW t, Ready(e, t), NEW taken, NEW again,
         RepeatGood(e, t, again), Finish(e, t, taken, again),
         t.state = "ESTABLISHED", Counted(t),
         e = "server" => tcb["server"].state \in {"SYN_RECV", "ESTABLISHED"}
  PROVE  (\A x \in Ends : Counted(tcb[x]))' /\ FirstSynOnly'
<1> DEFINE o == utcp_output(e, t)  u == o.t  segs == o.segs  p == Peer(e)
<1>1. OutputGood(e, t, u, segs)
  BY Output DEF Ready
<1>2. /\ tcb' = [tcb EXCEPT ![e] = u] /\ net' = (net \ taken) \cup again \cup segs
  BY DEF Finish
<1>3. /\ p \in Ends /\ p # e /\ \A x \in Ends : x = e \/ x = p
      /\ (e = "client" /\ p = "server") \/ (e = "server" /\ p = "client")
  BY DEF Peer, Ends
<1> HIDE DEF u, segs, p
<1>4. tcb'[e] = u /\ tcb'[p] = tcb[p]
  BY <1>2, <1>3 DEF HandshakeInv, TypeOK
<1>5. Counted(u)
  <2>1. /\ u.state = "ESTABLISHED" /\ u.snd_una = t.snd_una /\ t.snd_nxt <= u.snd_nxt
        /\ u.send_buf_head = t.send_buf_head /\ u.send_buf_tail = t.send_buf_tail
        /\ u.snd_max <= t.snd_max \/ u.snd_max <= t.send_buf_tail + 1
        /\ t \in Tcb /\ u \in Tcb
    BY <1>1 DEF OutputGood, Ready
  <2>2. /\ t.send_buf_head <= t.send_buf_tail /\ t.snd_una = t.send_buf_head + 1
        /\ t.snd_una <= t.snd_nxt /\ t.snd_max <= t.send_buf_tail + 1
    BY DEF Counted
  <2>3. u.snd_una <= u.snd_nxt /\ u.snd_max <= u.send_buf_tail + 1
    BY <2>1, <2>2, Numbers
  <2> QED BY <2>1, <2>2, <2>3 DEF Counted
<1>6. Counted(tcb[p])
  BY <1>3 DEF HandshakeInv, Calm
<1>7. FirstSynOnly'
  <2> SUFFICES ASSUME NEW m \in net', m.to = "server"
               PROVE  \/ m = FirstSyn /\ tcb'["server"].state \in {"CLOSED", "LISTEN", "CRASHED"}
                      \/ m.flags = {"ACK"}
    BY DEF FirstSynOnly
  <2>1. CASE m \in segs
    BY <2>1, <1>1, Flags DEF OutputGood
  <2>2. CASE m \in net
    <3>1. \/ m = FirstSyn /\ tcb["server"].state \in {"CLOSED", "LISTEN", "CRASHED"}
          \/ m.flags = {"ACK"}
      BY <2>2 DEF HandshakeInv, Calm
    <3> QED BY <3>1, <1>3, <1>4
  <2>3. CASE m \in again
    BY <2>3 DEF RepeatGood
  <2> QED BY <1>2, <2>1, <2>2, <2>3
<1> QED BY <1>3, <1>4, <1>5, <1>6, <1>7

\* The same, put together: a step that ends in utcp_output on an established
\* side keeps the invariant.
LEMMA FinishKeeps ==
  ASSUME HandshakeInv, NEW e \in Ends, NEW t, Ready(e, t), NEW taken, NEW again,
         RepeatGood(e, t, again), Finish(e, t, taken, again), faults' \in [lost : Nat, dup : Nat, late : Nat],
         Quiet' => /\ Quiet /\ t.state = "ESTABLISHED" /\ Counted(t)
                   /\ e = "server" => tcb["server"].state \in {"SYN_RECV", "ESTABLISHED"}
  PROVE  HandshakeInv'
<1>1. SafePart'
  BY FinishSafe DEF HandshakeInv, SafePart
<1>2. Calm'
  BY FinishCalm DEF Calm, FirstSynOnly
<1> QED BY <1>1, <1>2 DEF HandshakeInv, SafePart

\* Most handlers send nothing again.
LEMMA NoneAgain == ASSUME NEW e, NEW t PROVE RepeatGood(e, t, {})
BY DEF RepeatGood

\* Without a step that ends in utcp_output segments only disappear.
LEMMA ConsumedFaults ==
  ASSUME TypeOK, NEW m, NEW taken, Consumed(m, taken)
  PROVE  /\ faults' \in [lost : Nat, dup : Nat, late : Nat]
         /\ Quiet' => Quiet /\ taken = {m}
BY DEF Consumed, TypeOK, Quiet

LEMMA SegmentsLeave ==
  ASSUME HandshakeInv, tcb' = tcb, net' \subseteq net,
         faults' \in [lost : Nat, dup : Nat, late : Nat], Quiet' => Quiet
  PROVE  HandshakeInv'
<1>1. TypeOK' /\ Roles' /\ Fresh' /\ Raised' /\ Agree'
  BY DEF HandshakeInv, TypeOK, Roles, AcceptedHasPeer, Fresh, Raised, Agree
<1>2. SegmentsTrue'
  BY DEF HandshakeInv, SegmentsTrue
<1>3. Calm'
  BY DEF HandshakeInv, Calm
<1> QED BY <1>1, <1>2, <1>3 DEF HandshakeInv

-----------------------------------------------------------------------------
\* handle_received_data

\* v is t after a segment m: acknowledged up to m.ack or not at all, one byte
\* more received or none, and crashed only by an ACK event before INIT.
DataGood(t, m, v) ==
  /\ v \in Tcb
  /\ v.snd_max = t.snd_max /\ v.send_buf_tail = t.send_buf_tail /\ v.cwnd = t.cwnd
  /\ v.state = t.state \/ (v.state = "CRASHED" /\ t.cwnd = FALSE /\ m.ack > t.snd_una)
  /\ \/ v.snd_una = t.snd_una /\ v.snd_nxt = t.snd_nxt /\ v.send_buf_head = t.send_buf_head
     \/ /\ v.snd_una = m.ack /\ m.ack > t.snd_una /\ m.ack <= t.snd_max
        /\ v.snd_nxt = IF m.ack > t.snd_nxt THEN m.ack ELSE t.snd_nxt
        /\ v.send_buf_head = t.send_buf_head + (m.ack - t.snd_una)
  /\ \/ v.rcv_nxt = t.rcv_nxt
     \/ /\ v.rcv_nxt = t.rcv_nxt + 1 /\ m.len = 1 /\ m.seq = t.rcv_nxt
        /\ v.state # "CRASHED"

LEMMA DataHandled ==
  ASSUME NEW t \in Tcb, NEW m \in Segments, NEW now \in BOOLEAN, t.state # "CRASHED"
  PROVE  DataGood(t, m, handle_received_data(t, m, now))
<1> DEFINE new_ack == m.ack > t.snd_una /\ m.ack <= t.snd_max
           nxt == IF m.ack > t.snd_nxt THEN m.ack ELSE t.snd_nxt
           head == t.send_buf_head + (m.ack - t.snd_una)
           timed == m.ack # t.snd_max
           st == IF t.cwnd THEN t.state ELSE "CRASHED"
           seen == [t EXCEPT !.snd_una = m.ack, !.snd_nxt = nxt, !.send_buf_head = head,
                             !.rexmt = timed, !.state = st]
           acked == IF new_ack THEN seen ELSE t
           got == [acked EXCEPT !.rcv_nxt = @ + 1, !.acknow = now]
           old == [acked EXCEPT !.acknow = TRUE]
           v == handle_received_data(t, m, now)
<1>1. v = IF m.len = 0 \/ acked.state = "CRASHED" THEN acked
          ELSE IF in_order(t, m) THEN got ELSE old
  BY Zenon DEF handle_received_data
<1>2. /\ m.ack \in Nat /\ m.len \in {0, 1} /\ m.seq \in Nat
      /\ t.snd_una \in Nat /\ t.snd_nxt \in Nat /\ t.snd_max \in Nat
      /\ t.rcv_nxt \in Nat /\ t.send_buf_head \in Nat /\ t.send_buf_tail \in Nat
      /\ t.cwnd \in BOOLEAN /\ t.state \in States
  BY DEF Tcb, Segments
<1>3. /\ nxt \in Nat /\ (new_ack => head \in Nat) /\ timed \in BOOLEAN /\ st \in States
      /\ st = t.state \/ (st = "CRASHED" /\ t.cwnd = FALSE)
  BY <1>2 DEF States
<1> HIDE DEF nxt, head, timed, st, v
<1>4. new_ack => /\ seen \in Tcb
                 /\ seen.snd_una = m.ack /\ seen.snd_nxt = nxt /\ seen.send_buf_head = head
                 /\ seen.state = st /\ seen.snd_max = t.snd_max /\ seen.cwnd = t.cwnd
                 /\ seen.send_buf_tail = t.send_buf_tail /\ seen.rcv_nxt = t.rcv_nxt
  BY <1>2, <1>3 DEF Tcb
<1> HIDE DEF seen
<1>5. DataGood(t, m, acked) /\ acked \in Tcb /\ acked.rcv_nxt = t.rcv_nxt
  <2>1. CASE new_ack
    BY <1>2, <1>3, <1>4, <2>1 DEF DataGood, nxt, head
  <2>2. CASE ~new_ack
    BY <2>2 DEF DataGood
  <2> QED BY <2>1, <2>2
<1> HIDE DEF acked
<1>6. /\ got \in Tcb /\ got.rcv_nxt = t.rcv_nxt + 1
      /\ got.snd_max = acked.snd_max /\ got.send_buf_tail = acked.send_buf_tail
      /\ got.cwnd = acked.cwnd /\ got.state = acked.state /\ got.snd_una = acked.snd_una
      /\ got.snd_nxt = acked.snd_nxt /\ got.send_buf_head = acked.send_buf_head
  <2> DEFINE r == acked.rcv_nxt + 1
  <2>1. r \in Nat /\ r = t.rcv_nxt + 1
    BY <1>2, <1>5
  <2> HIDE DEF r
  <2>2. got = [acked EXCEPT !.rcv_nxt = r, !.acknow = now]
    BY Zenon DEF r
  <2> QED BY <1>5, <2>1, <2>2 DEF Tcb
<1>7. /\ old \in Tcb /\ old.rcv_nxt = t.rcv_nxt
      /\ old.snd_max = acked.snd_max /\ old.send_buf_tail = acked.send_buf_tail
      /\ old.cwnd = acked.cwnd /\ old.state = acked.state /\ old.snd_una = acked.snd_una
      /\ old.snd_nxt = acked.snd_nxt /\ old.send_buf_head = acked.send_buf_head
  BY <1>2, <1>5 DEF Tcb
<1> HIDE DEF got, old
<1>8. CASE v = acked
  BY <1>5, <1>8 DEF v
<1>9. CASE v = got /\ m.len = 1 /\ m.seq = t.rcv_nxt /\ acked.state # "CRASHED"
  <2>1. DataGood(t, m, got)
    BY <1>5, <1>6, <1>9 DEF DataGood
  <2> QED BY <2>1, <1>9 DEF v
<1>10. CASE v = old
  <2>1. DataGood(t, m, old)
    BY <1>5, <1>7 DEF DataGood
  <2> QED BY <2>1, <1>10 DEF v
<1> QED BY <1>1, <1>2, <1>8, <1>9, <1>10 DEF in_order

-----------------------------------------------------------------------------
\* One lemma per action

LEMMA InitHolds == Init => HandshakeInv
BY Peers DEF Init, NewTcb, NoFaults, HandshakeInv, TypeOK, States, Ends, Roles, AcceptedHasPeer,
             Fresh, Raised, Agree, SegmentsTrue, Calm, Counted

\* A server that is not yet open, or that crashes, sends nothing and counts
\* nothing more.
Moved(v, taken) ==
  /\ v \in Tcb /\ v.state \in {"LISTEN", "CRASHED"}
  /\ v.state = "LISTEN" => /\ v = [tcb["server"] EXCEPT !.state = "LISTEN"]
                           /\ tcb["server"].state = "CLOSED"
  /\ v.snd_una <= tcb["client"].rcv_nxt /\ v.snd_nxt <= v.snd_max
  /\ v.snd_max = tcb["server"].snd_max /\ v.rcv_nxt = tcb["server"].rcv_nxt
  /\ tcb' = [tcb EXCEPT !["server"] = v] /\ net' = net \ taken
  /\ faults' \in [lost : Nat, dup : Nat, late : Nat]
  /\ Quiet' => /\ Quiet
               /\ tcb["server"].state = "CLOSED"
               /\ v.send_buf_head = tcb["server"].send_buf_head

LEMMA ServerMoves ==
  ASSUME HandshakeInv, NEW v, NEW taken, Moved(v, taken)
  PROVE  HandshakeInv'
<1> USE DEF Moved
<1>1. tcb'["server"] = v /\ tcb'["client"] = tcb["client"]
  BY DEF HandshakeInv, TypeOK, Ends
<1>2. /\ "client" \in Ends /\ "server" \in Ends /\ \A x \in Ends : x = "client" \/ x = "server"
      /\ Peer("client") = "server" /\ Peer("server") = "client"
  BY DEF Ends, Peer
<1>3. TypeOK'
  <2>1. tcb' \in [Ends -> Tcb]
    BY <1>2 DEF HandshakeInv, TypeOK, Tcb
  <2> QED BY <2>1 DEF HandshakeInv, TypeOK, Tcb
<1>4. Roles'
  BY <1>1 DEF HandshakeInv, Roles, AcceptedHasPeer
<1>5. Fresh'
  <2>1. CASE v.state = "LISTEN"
    <3>1. tcb["server"] \in Tcb
      BY <1>2, TcbTypes DEF HandshakeInv
    <3>2. /\ v.snd_una = tcb["server"].snd_una /\ v.snd_nxt = tcb["server"].snd_nxt
          /\ v.snd_max = tcb["server"].snd_max /\ v.rcv_nxt = tcb["server"].rcv_nxt
          /\ v.send_buf_head = tcb["server"].send_buf_head
          /\ v.send_buf_tail = tcb["server"].send_buf_tail
          /\ v.rexmt = tcb["server"].rexmt /\ v.acknow = tcb["server"].acknow
      BY <2>1, <3>1 DEF Tcb
    <3> QED BY <1>1, <1>2, <2>1, <3>2 DEF HandshakeInv, Fresh
  <2>2. CASE v.state = "CRASHED"
    BY <1>1, <1>2, <2>2 DEF HandshakeInv, Fresh
  <2> QED BY <2>1, <2>2
<1>6. Raised'
  BY <1>1, <1>2 DEF HandshakeInv, Raised
<1>7. Agree'
  BY <1>1, <1>2 DEF HandshakeInv, Agree
<1>8. SegmentsTrue'
  <2> SUFFICES ASSUME NEW m \in net'
               PROVE  /\ m.ack <= tcb'[Peer(m.to)].rcv_nxt
                      /\ ("SYN" \in m.flags \/ m.len = 1) => m.seq < tcb'[Peer(m.to)].snd_max
                      /\ (m.to = "server" /\ "ACK" \in m.flags)
                           => (tcb'["client"].state = "ESTABLISHED" /\ m.ack > 0)
    BY DEF SegmentsTrue
  <2>1. m \in net /\ m.to \in Ends
    BY DEF HandshakeInv, TypeOK, Segments
  <2> QED BY <1>1, <1>2, <2>1 DEF HandshakeInv, SegmentsTrue
<1>9. Calm'
  <2> SUFFICES ASSUME Quiet'
               PROVE  (\A x \in Ends : Counted(tcb[x]))' /\ FirstSynOnly'
    BY DEF Calm, FirstSynOnly
  <2>1. Counted(tcb["client"])
    BY <1>2 DEF HandshakeInv, Calm
  <2>2. v.send_buf_head = 0
    BY <1>2 DEF HandshakeInv, Fresh
  <2>3. Counted(v)
    BY <2>2, Numbers DEF Counted
  <2>4. FirstSynOnly'
    BY <1>1 DEF HandshakeInv, Calm, FirstSynOnly
  <2> QED BY <1>1, <1>2, <2>1, <2>3, <2>4
<1> QED BY <1>3, <1>4, <1>5, <1>6, <1>7, <1>8, <1>9 DEF HandshakeInv

LEMMA ListenKeeps == HandshakeInv /\ utcp_listen => HandshakeInv'
<1> SUFFICES ASSUME HandshakeInv, utcp_listen PROVE HandshakeInv'
  OBVIOUS
<1> DEFINE v == [tcb["server"] EXCEPT !.state = "LISTEN"]
<1>1. tcb["server"] \in Tcb /\ "server" \in Ends /\ Peer("server") = "client"
  BY TcbTypes DEF HandshakeInv, Ends, Peer
<1>2. /\ v \in Tcb /\ v.state = "LISTEN" /\ v.snd_una = tcb["server"].snd_una
      /\ v.snd_nxt = tcb["server"].snd_nxt /\ v.snd_max = tcb["server"].snd_max
      /\ v.rcv_nxt = tcb["server"].rcv_nxt /\ v.send_buf_head = tcb["server"].send_buf_head
  BY <1>1 DEF Tcb, States
<1>3. v.snd_una <= tcb["client"].rcv_nxt /\ v.snd_nxt <= v.snd_max
  BY <1>1, <1>2 DEF HandshakeInv, Agree
<1>4. tcb' = [tcb EXCEPT !["server"] = v]
  BY DEF utcp_listen
<1>5. net' = net \ {} /\ faults' = faults /\ tcb["server"].state = "CLOSED"
  BY DEF utcp_listen
<1>6. faults' \in [lost : Nat, dup : Nat, late : Nat] /\ (Quiet' => Quiet)
  BY <1>5 DEF HandshakeInv, TypeOK, Quiet
<1> HIDE DEF v
<1>7. v = [tcb["server"] EXCEPT !.state = "LISTEN"]
  BY DEF v
<1>8. Moved(v, {})
  BY <1>2, <1>3, <1>4, <1>5, <1>6, <1>7 DEF Moved
<1> QED BY <1>8, ServerMoves

LEMMA StrayKeeps == ASSUME HandshakeInv, NEW m \in net, RecvStray(m) PROVE HandshakeInv'
<1> DEFINE v == [tcb["server"] EXCEPT !.state = "CRASHED"]
<1>1. tcb["server"] \in Tcb /\ "server" \in Ends /\ Peer("server") = "client"
  BY TcbTypes DEF HandshakeInv, Ends, Peer
<1>2. /\ v \in Tcb /\ v.state = "CRASHED" /\ v.snd_una = tcb["server"].snd_una
      /\ v.snd_nxt = tcb["server"].snd_nxt /\ v.snd_max = tcb["server"].snd_max
      /\ v.rcv_nxt = tcb["server"].rcv_nxt /\ v.send_buf_head = tcb["server"].send_buf_head
  BY <1>1 DEF Tcb, States
<1>3. v.snd_una <= tcb["client"].rcv_nxt /\ v.snd_nxt <= v.snd_max
  BY <1>1, <1>2 DEF HandshakeInv, Agree
<1>4. tcb' = [tcb EXCEPT !["server"] = v] /\ tcb["server"].state = "CLOSED"
  BY DEF RecvStray
<1>5. PICK taken \in SUBSET {m} : Consumed(m, taken) /\ net' = net \ taken
  BY DEF RecvStray
<1>6. faults' \in [lost : Nat, dup : Nat, late : Nat] /\ (Quiet' => Quiet)
  BY <1>5, ConsumedFaults DEF HandshakeInv
<1> HIDE DEF v
<1>7. Moved(v, taken)
  BY <1>2, <1>3, <1>4, <1>5, <1>6 DEF Moved
<1> QED BY <1>7, ServerMoves

LEMMA ConnectKeeps == HandshakeInv /\ utcp_connect => HandshakeInv'
<1> SUFFICES ASSUME HandshakeInv, utcp_connect PROVE HandshakeInv'
  OBVIOUS
<1> DEFINE c == tcb["client"]
           s == tcb["server"]
           t == [c EXCEPT !.state = "SYN_SENT"]
           o == utcp_output("client", t)
<1>1. c \in Tcb /\ s \in Tcb /\ "client" \in Ends /\ "server" \in Ends
      /\ Peer("client") = "server" /\ Peer("server") = "client"
  BY TcbTypes DEF HandshakeInv, Ends, Peer
<1>2. c.state = "CLOSED" /\ Finish("client", t, {}, {}) /\ faults' = faults
  BY DEF utcp_connect
<1>3. /\ c.snd_una = 0 /\ c.snd_nxt = 0 /\ c.snd_max = 0 /\ c.rcv_nxt = 0
      /\ c.send_buf_head = 0 /\ c.send_buf_tail = 0
  BY <1>1, <1>2 DEF HandshakeInv, Fresh
<1>4. /\ t \in Tcb /\ t.state = "SYN_SENT" /\ t.snd_una = 0 /\ t.snd_nxt = 0 /\ t.snd_max = 0
      /\ t.rcv_nxt = 0 /\ t.send_buf_head = 0 /\ t.send_buf_tail = 0
  BY <1>1, <1>3 DEF Tcb, States
<1>5. s.snd_max \in Nat /\ s.rcv_nxt \in Nat
  BY <1>1, Numbers
<1> HIDE DEF t
<1>6. Ready("client", t)
  BY <1>1, <1>2, <1>3, <1>4, <1>5 DEF Ready, Open
<1>7. faults' \in [lost : Nat, dup : Nat, late : Nat]
  BY <1>2 DEF HandshakeInv, TypeOK
<1>8. SafePart'
  BY <1>1, <1>2, <1>6, <1>7, NoneAgain, FinishSafe DEF HandshakeInv, SafePart
<1>9. s.state \in {"CLOSED", "LISTEN", "CRASHED"}
  <2>1. s.state # "SYN_RECV"
    <3>1. s.rcv_nxt <= c.snd_max
      BY <1>1 DEF HandshakeInv, Agree
    <3>2. s.rcv_nxt = 0
      BY <1>3, <1>5, <3>1
    <3> QED BY <1>1, <3>2 DEF HandshakeInv, Raised
  <2> QED BY <1>1, <1>2, <2>1 DEF HandshakeInv, Roles, AcceptedHasPeer, Tcb, States
<1>10. /\ tcb' = [tcb EXCEPT !["client"] = o.t] /\ net' = (net \ {}) \cup {} \cup o.segs
  BY <1>2 DEF Finish
<1>11. OutputGood("client", t, o.t, o.segs)
  BY <1>1, <1>4, Output DEF Open
<1> HIDE DEF o
<1>12. tcb'["client"] = o.t /\ tcb'["server"] = s
  BY <1>1, <1>10 DEF HandshakeInv, TypeOK
<1>13. ASSUME Quiet' PROVE (\A x \in Ends : Counted(tcb[x]))' /\ FirstSynOnly'
  <2>1. Quiet
    BY <1>2, <1>13 DEF Quiet
  <2>2. Counted(o.t)
    <3>1. /\ o.t.state = "SYN_SENT" /\ o.t.snd_una = 0 /\ o.t.snd_nxt = 1 /\ o.t.snd_max = 1
          /\ o.t.send_buf_head = 0 /\ o.t.send_buf_tail = 0
      BY <1>4, <1>11 DEF OutputGood
    <3> QED BY <3>1 DEF Counted
  <2>3. Counted(s)
    BY <1>1, <2>1 DEF HandshakeInv, Calm
  <2>4. \A m \in o.segs : m = FirstSyn
    <3> SUFFICES ASSUME NEW m \in o.segs PROVE m = FirstSyn
      OBVIOUS
    <3>1. /\ m \in Segments /\ m.to = "server" /\ m.flags = {"SYN"} /\ m.seq = 0 /\ m.ack = 0
          /\ m.len = 0
      BY <1>1, <1>4, <1>11, Flags DEF OutputGood
    <3> QED BY <3>1 DEF FirstSyn, Segments
  <2>5. FirstSynOnly'
    BY <1>9, <1>10, <1>12, <2>1, <2>4 DEF HandshakeInv, Calm, FirstSynOnly
  <2> QED BY <1>12, <2>2, <2>3, <2>5 DEF Ends
<1>14. Calm'
  BY <1>13 DEF Calm, FirstSynOnly
<1> QED BY <1>8, <1>14 DEF HandshakeInv, SafePart

LEMMA SendKeeps ==
  ASSUME HandshakeInv, NEW e \in Ends, utcp_send(e)
  PROVE  HandshakeInv'
<1> DEFINE p == tcb[Peer(e)]
           n == tcb[e].send_buf_tail + 1
           t == [tcb[e] EXCEPT !.send_buf_tail = n]
<1>1. tcb[e] \in Tcb /\ Peer(e) \in Ends /\ p \in Tcb /\ Peer(Peer(e)) = e
  BY TcbTypes, Peers DEF HandshakeInv
<1>2. tcb[e].state = "ESTABLISHED" /\ Finish(e, t, {}, {}) /\ faults' = faults
  BY DEF utcp_send
<1>3. n \in Nat /\ tcb[e].send_buf_tail <= n
  BY <1>1, Numbers
<1> HIDE DEF n
<1>4. /\ t \in Tcb /\ t.state = "ESTABLISHED" /\ t.snd_una = tcb[e].snd_una
      /\ t.snd_nxt = tcb[e].snd_nxt /\ t.snd_max = tcb[e].snd_max
      /\ t.rcv_nxt = tcb[e].rcv_nxt /\ t.send_buf_head = tcb[e].send_buf_head
      /\ t.send_buf_tail = n /\ t.cwnd = tcb[e].cwnd
  BY <1>1, <1>2, <1>3 DEF Tcb
<1> HIDE DEF t
<1>5. Ready(e, t)
  <2>1. /\ t.snd_nxt <= t.snd_max /\ t.snd_una <= p.rcv_nxt /\ t.rcv_nxt <= p.snd_max
    BY <1>1, <1>4 DEF HandshakeInv, Agree
  <2>2. tcb[e].rcv_nxt <= t.rcv_nxt /\ tcb[e].snd_max <= t.snd_max
    BY <1>1, <1>4, Numbers
  <2>3. t.cwnd = TRUE /\ (e = "server" => tcb["client"].state = "ESTABLISHED")
    BY <1>2, <1>4 DEF HandshakeInv, Raised, Roles, AcceptedHasPeer
  <2>4. t.rcv_nxt > 0
    BY <1>2, <1>4 DEF HandshakeInv, Raised
  <2> QED BY <1>4, <2>1, <2>2, <2>3, <2>4 DEF Ready, Open
<1>6. faults' \in [lost : Nat, dup : Nat, late : Nat]
  BY <1>2 DEF HandshakeInv, TypeOK
<1>7. Quiet' => Quiet /\ Counted(t)
  <2> SUFFICES ASSUME Quiet' PROVE Quiet /\ Counted(t)
    OBVIOUS
  <2>1. Quiet
    BY <1>2 DEF Quiet
  <2>2. Counted(tcb[e])
    BY <2>1 DEF HandshakeInv, Calm
  <2>3. t.send_buf_head <= n /\ t.snd_max <= n + 1
    BY <1>1, <1>2, <1>3, <1>4, <2>2, Numbers DEF Counted
  <2> QED BY <1>2, <1>4, <2>1, <2>2, <2>3 DEF Counted
<1>8. e = "server" => tcb["server"].state \in {"SYN_RECV", "ESTABLISHED"}
  BY <1>2
<1> QED BY <1>2, <1>4, <1>5, <1>6, <1>7, <1>8, NoneAgain, FinishKeeps

LEMMA RecvListenKeeps ==
  ASSUME HandshakeInv, NEW m \in net, RecvListen(m)
  PROVE  HandshakeInv'
<1> DEFINE s == tcb["server"]
           c == tcb["client"]
           r == m.seq + 1
           t == [s EXCEPT !.rcv_nxt = r, !.snd_nxt = 0, !.snd_una = 0, !.state = "SYN_RECV"]
           o == utcp_output("server", t)
<1>1. /\ c \in Tcb /\ s \in Tcb /\ "client" \in Ends /\ "server" \in Ends
      /\ Peer("client") = "server" /\ Peer("server") = "client" /\ m \in Segments
  BY TcbTypes DEF HandshakeInv, Ends, Peer, TypeOK
<1>2. m.to = "server" /\ s.state = "LISTEN" /\ m.seq \in Nat
  BY <1>1 DEF RecvListen, HandshakeInv, Roles, Segments, Ends
<1>3. PICK taken \in SUBSET {m} :
        /\ Consumed(m, taken)
        /\ IF "SYN" \in m.flags THEN Finish("server", t, taken, {})
                                ELSE tcb' = tcb /\ net' = net \ taken
  BY <1>2 DEF RecvListen
<1>4. /\ faults' \in [lost : Nat, dup : Nat, late : Nat]
      /\ Quiet' => Quiet /\ taken = {m}
  BY <1>3, ConsumedFaults DEF HandshakeInv
<1>5. CASE "SYN" \notin m.flags
  BY <1>3, <1>4, <1>5, SegmentsLeave
<1>6. CASE "SYN" \in m.flags
  <2>1. Finish("server", t, taken, {})
    BY <1>3, <1>6
  <2>2. /\ s.snd_una = 0 /\ s.snd_nxt = 0 /\ s.snd_max = 0 /\ s.rcv_nxt = 0
        /\ s.send_buf_head = 0 /\ s.send_buf_tail = 0
    BY <1>1, <1>2 DEF HandshakeInv, Fresh
  <2>3. r \in Nat /\ r > 0
    BY <1>2
  <2>4. r <= c.snd_max
    <3>1. m.seq < c.snd_max
      BY <1>1, <1>2, <1>6 DEF HandshakeInv, SegmentsTrue
    <3> QED BY <1>1, <1>2, <3>1, Numbers
  <2> HIDE DEF r
  <2>5. /\ t \in Tcb /\ t.state = "SYN_RECV" /\ t.snd_una = 0 /\ t.snd_nxt = 0 /\ t.snd_max = 0
        /\ t.rcv_nxt = r /\ t.send_buf_head = 0 /\ t.send_buf_tail = 0
    BY <1>1, <2>2, <2>3 DEF Tcb, States
  <2> HIDE DEF t
  <2>6. Ready("server", t)
    <3>1. c.rcv_nxt \in Nat
      BY <1>1, Numbers
    <3> QED BY <1>1, <2>2, <2>3, <2>4, <2>5, <3>1 DEF Ready, Open
  <2>7. SafePart'
    BY <1>1, <1>4, <2>1, <2>6, NoneAgain, FinishSafe DEF HandshakeInv, SafePart
  <2>8. /\ tcb' = [tcb EXCEPT !["server"] = o.t] /\ net' = (net \ taken) \cup {} \cup o.segs
    BY <2>1 DEF Finish
  <2>9. OutputGood("server", t, o.t, o.segs)
    BY <1>1, <2>5, Output DEF Open
  <2> HIDE DEF o
  <2>10. tcb'["server"] = o.t /\ tcb'["client"] = c
    BY <1>1, <2>8 DEF HandshakeInv, TypeOK
  <2>11. ASSUME Quiet' PROVE (\A x \in Ends : Counted(tcb[x]))' /\ FirstSynOnly'
    <3>1. Quiet /\ taken = {m}
      BY <1>4, <2>11
    <3>2. Counted(o.t)
      <4>1. /\ o.t.state = "SYN_RECV" /\ o.t.snd_una = 0 /\ o.t.snd_nxt = 1 /\ o.t.snd_max = 1
            /\ o.t.send_buf_head = 0 /\ o.t.send_buf_tail = 0
        BY <2>5, <2>9 DEF OutputGood
      <4> QED BY <4>1 DEF Counted
    <3>3. Counted(c)
      BY <1>1, <3>1 DEF HandshakeInv, Calm
    <3>4. m = FirstSyn
      BY <1>2, <1>6, <3>1 DEF HandshakeInv, Calm
    <3>5. \A k \in o.segs : k.to = "client"
      BY <1>1, <2>9 DEF OutputGood
    <3>6. FirstSynOnly'
      BY <2>8, <3>1, <3>4, <3>5 DEF HandshakeInv, Calm, FirstSynOnly
    <3> QED BY <2>10, <3>2, <3>3, <3>6 DEF Ends
  <2>12. Calm'
    BY <2>11 DEF Calm, FirstSynOnly
  <2> QED BY <2>7, <2>12 DEF HandshakeInv, SafePart
<1> QED BY <1>5, <1>6

LEMMA RecvSynSentKeeps ==
  ASSUME HandshakeInv, NEW m \in net, RecvSynSent(m)
  PROVE  HandshakeInv'
<1> DEFINE s == tcb["server"]
           c == tcb["client"]
           r == m.seq + 1
           t == syn_acked(c, m)
<1>1. /\ c \in Tcb /\ s \in Tcb /\ "client" \in Ends /\ "server" \in Ends
      /\ Peer("client") = "server" /\ Peer("server") = "client" /\ m \in Segments
  BY TcbTypes DEF HandshakeInv, Ends, Peer, TypeOK
<1>2. m.to = "client" /\ c.state = "SYN_SENT" /\ m.seq \in Nat /\ m.ack \in Nat
  BY <1>1 DEF RecvSynSent, HandshakeInv, Roles, Segments, Ends
<1>3. PICK taken \in SUBSET {m} :
        /\ Consumed(m, taken)
        /\ IF syn_ack_ok(c, m) THEN Finish("client", t, taken, {})
                               ELSE tcb' = tcb /\ net' = net \ taken
  BY <1>2 DEF RecvSynSent
<1>4. /\ faults' \in [lost : Nat, dup : Nat, late : Nat]
      /\ Quiet' => Quiet /\ taken = {m}
  BY <1>3, ConsumedFaults DEF HandshakeInv
<1>5. CASE ~syn_ack_ok(c, m)
  BY <1>3, <1>4, <1>5, SegmentsLeave
<1>6. CASE syn_ack_ok(c, m)
  <2>1. Finish("client", t, taken, {}) /\ "SYN" \in m.flags /\ m.ack = c.snd_nxt
    BY <1>3, <1>6 DEF syn_ack_ok
  <2>2. c.rcv_nxt = 0
    BY <1>2 DEF HandshakeInv, Raised
  <2>3. r \in Nat /\ r > 0
    BY <1>2
  <2>4. r <= s.snd_max /\ m.ack <= s.rcv_nxt
    <3>1. m.seq < s.snd_max /\ m.ack <= s.rcv_nxt
      BY <1>1, <1>2, <2>1 DEF HandshakeInv, SegmentsTrue
    <3> QED BY <1>1, <1>2, <3>1, Numbers
  <2>5. t = [c EXCEPT !.snd_una = m.ack, !.rcv_nxt = r, !.state = "ESTABLISHED",
                      !.rexmt = FALSE, !.cwnd = TRUE, !.acknow = TRUE]
    BY DEF syn_acked
  <2> HIDE DEF r, t
  <2>6. /\ t \in Tcb /\ t.state = "ESTABLISHED" /\ t.snd_una = m.ack /\ t.snd_nxt = c.snd_nxt
        /\ t.snd_max = c.snd_max /\ t.cwnd = TRUE
        /\ t.rcv_nxt = r /\ t.send_buf_head = c.send_buf_head
        /\ t.send_buf_tail = c.send_buf_tail
    BY <1>1, <1>2, <2>3, <2>5 DEF Tcb, States
  <2>7. Ready("client", t)
    <3>1. c.snd_nxt <= c.snd_max
      BY <1>1 DEF HandshakeInv, Agree
    <3>2. c.snd_max <= c.snd_max
      BY <1>1, Numbers
    <3> QED BY <1>1, <2>2, <2>3, <2>4, <2>6, <3>1, <3>2 DEF Ready, Open
  <2>8. Quiet' => Quiet /\ Counted(t)
    <3> SUFFICES ASSUME Quiet' PROVE Quiet /\ Counted(t)
      OBVIOUS
    <3>1. Counted(c) /\ Quiet
      BY <1>1, <1>4 DEF HandshakeInv, Calm
    <3>2. /\ c.snd_nxt = 1 /\ c.snd_max = 1 /\ c.send_buf_head = 0 /\ c.send_buf_tail = 0
      BY <1>2, <3>1 DEF Counted
    <3> QED BY <2>1, <2>6, <3>1, <3>2 DEF Counted
  <2> QED BY <1>1, <1>4, <2>1, <2>6, <2>7, <2>8, NoneAgain, FinishKeeps
<1> QED BY <1>5, <1>6

\* Data and acknowledgements leave a TCB that may be handed to utcp_output.
LEMMA DataReady ==
  ASSUME HandshakeInv, NEW m \in net, NEW t, NEW v, Ready(m.to, t), DataGood(t, m, v),
         t.state \in {"SYN_RECV", "ESTABLISHED"}, v.state = t.state
  PROVE  Ready(m.to, v)
<1> DEFINE e == m.to  p == tcb[Peer(m.to)]
<1>1. e \in Ends /\ Peer(e) \in Ends /\ m.ack \in Nat /\ m.seq \in Nat
  BY Peers DEF HandshakeInv, TypeOK, Segments
<1>2. t \in Tcb /\ v \in Tcb /\ p \in Tcb /\ tcb[e] \in Tcb
  BY <1>1, TcbTypes DEF Ready, DataGood, HandshakeInv
<1>3. m.ack <= p.rcv_nxt /\ (m.len = 1 => m.seq < p.snd_max)
  BY DEF HandshakeInv, SegmentsTrue
<1>4. /\ t.snd_nxt <= t.snd_max /\ t.snd_una <= p.rcv_nxt /\ t.rcv_nxt <= p.snd_max
      /\ tcb[e].rcv_nxt <= t.rcv_nxt /\ tcb[e].snd_max <= t.snd_max /\ t.rcv_nxt > 0
  BY DEF Ready
<1>5. v.snd_nxt <= v.snd_max /\ v.snd_una <= p.rcv_nxt /\ tcb[e].snd_max <= v.snd_max
  BY <1>1, <1>2, <1>3, <1>4, Numbers DEF DataGood
<1>6. v.rcv_nxt <= p.snd_max /\ tcb[e].rcv_nxt <= v.rcv_nxt /\ v.rcv_nxt > 0
  BY <1>1, <1>2, <1>3, <1>4, Numbers DEF DataGood
<1>7. v.cwnd = t.cwnd
  BY DEF DataGood
<1> QED BY <1>2, <1>5, <1>6, <1>7 DEF Ready

\* An acknowledgement moves the head by the bytes it covers, never the SYN.
LEMMA DataCounted ==
  ASSUME NEW t \in Tcb, NEW m \in Segments, NEW v, DataGood(t, m, v), Counted(t),
         t.state = "ESTABLISHED", v.state = "ESTABLISHED", t.snd_nxt <= t.snd_max
  PROVE  Counted(v)
<1>1. /\ t.send_buf_head <= t.send_buf_tail /\ t.snd_una = t.send_buf_head + 1
      /\ t.snd_una <= t.snd_nxt /\ t.snd_max <= t.send_buf_tail + 1
  BY DEF Counted
<1>2. m.ack \in Nat /\ v \in Tcb
  BY DEF Segments, DataGood
<1>3. /\ v.send_buf_head <= v.send_buf_tail /\ v.snd_una = v.send_buf_head + 1
      /\ v.snd_una <= v.snd_nxt /\ v.snd_max <= v.send_buf_tail + 1
  BY <1>1, <1>2, Numbers DEF DataGood
<1> QED BY <1>3 DEF Counted

\* A side that is open is already one that may be handed to utcp_output.
LEMMA OpenReady ==
  ASSUME HandshakeInv, NEW e \in Ends, tcb[e].state \in Open
  PROVE  Ready(e, tcb[e])
<1>1. tcb[e] \in Tcb /\ Peer(e) \in Ends /\ Peer(Peer(e)) = e
  BY TcbTypes, Peers DEF HandshakeInv
<1>2. /\ tcb[e].snd_nxt <= tcb[e].snd_max /\ tcb[e].snd_una <= tcb[Peer(e)].rcv_nxt
      /\ tcb[e].rcv_nxt <= tcb[Peer(e)].snd_max
  BY <1>1 DEF HandshakeInv, Agree
<1>3. tcb[e].rcv_nxt <= tcb[e].rcv_nxt /\ tcb[e].snd_max <= tcb[e].snd_max
  BY <1>1, Numbers
<1>4. /\ tcb[e].state = "ESTABLISHED" => tcb[e].cwnd = TRUE
      /\ tcb[e].state # "SYN_SENT" => tcb[e].rcv_nxt > 0
      /\ e = "client" /\ tcb[e].state = "SYN_SENT" => tcb[e].rcv_nxt = 0
  BY DEF HandshakeInv, Raised, Open
<1> QED BY <1>1, <1>2, <1>3, <1>4 DEF Ready, HandshakeInv, Roles, AcceptedHasPeer

\* What Processed hands to utcp_output, and sends again, when nothing crashed.
\* v is the TCB that handle_received_data leaves.
Repeated(m, v, again, w) ==
  /\ w \in Tcb /\ Ready(m.to, w) /\ RepeatGood(m.to, w, again) /\ w.state = v.state
  /\ Counted(v) => Counted(w)

\* Either side of Processed, for the TCB t it was given.
Done(t, m, v, taken) ==
  /\ DataGood(t, m, v)
  /\ \/ /\ v.state = "CRASHED"
        /\ tcb' = [tcb EXCEPT ![m.to] = v] /\ net' = net \ taken
     \/ /\ v.state = t.state
        /\ \E again, w : Repeated(m, v, again, w) /\ Finish(m.to, w, taken, again)

LEMMA ProcessedGood ==
  ASSUME HandshakeInv, NEW m \in net, NEW taken, NEW t, Ready(m.to, t),
         t.state \in {"SYN_RECV", "ESTABLISHED"}, Processed(t, m, taken)
  PROVE  \E v : Done(t, m, v, taken)
<1>1. PICK now \in BOOLEAN, repeat \in BOOLEAN :
        LET v == handle_received_data(t, m, now)
        IN  /\ repeat => may_repeat(t, v, m)
            /\ IF v.state = "CRASHED"
                 THEN tcb' = [tcb EXCEPT ![m.to] = v] /\ net' = net \ taken
                 ELSE Finish(m.to, [v EXCEPT !.cwnd = @ \/ repeat], taken,
                             IF repeat
                               THEN utcp_retransmit_segment(m.to, [v EXCEPT !.rcv_nxt = t.rcv_nxt])
                               ELSE {})
  BY DEF Processed
<1> DEFINE v == handle_received_data(t, m, now)
           c == v.cwnd \/ repeat
           w == [v EXCEPT !.cwnd = c]
           u == [v EXCEPT !.rcv_nxt = t.rcv_nxt]
           again == IF repeat THEN utcp_retransmit_segment(m.to, u) ELSE {}
<1>2. t \in Tcb /\ m \in Segments /\ m.to \in Ends /\ Peer(m.to) \in Ends
  BY Peers DEF Ready, HandshakeInv, TypeOK, Segments
<1>3. DataGood(t, m, v)
  BY <1>2, DataHandled
<1>4. /\ repeat => may_repeat(t, v, m)
      /\ IF v.state = "CRASHED"
           THEN tcb' = [tcb EXCEPT ![m.to] = v] /\ net' = net \ taken
           ELSE Finish(m.to, w, taken, again)
  BY <1>1, Zenon
<1> HIDE DEF v
<1>5. CASE v.state = "CRASHED"
  BY <1>3, <1>4, <1>5 DEF Done
<1>6. CASE v.state # "CRASHED"
  <2>1. v.state = t.state /\ v \in Tcb
    BY <1>3, <1>6 DEF DataGood
  <2>2. Ready(m.to, v)
    BY <1>3, <2>1, DataReady
  <2>3. c \in BOOLEAN /\ (v.cwnd = TRUE => c = TRUE)
    BY <2>1 DEF Tcb
  <2> HIDE DEF c
  <2>4. /\ w \in Tcb /\ w.state = v.state /\ w.snd_una = v.snd_una /\ w.snd_nxt = v.snd_nxt
        /\ w.snd_max = v.snd_max /\ w.rcv_nxt = v.rcv_nxt /\ w.cwnd = c
        /\ w.send_buf_head = v.send_buf_head /\ w.send_buf_tail = v.send_buf_tail
    BY <2>1, <2>3 DEF Tcb
  <2>5. /\ u \in Tcb /\ u.state = v.state /\ u.snd_una = v.snd_una
        /\ u.snd_max = v.snd_max /\ u.rcv_nxt = t.rcv_nxt
    BY <1>2, <2>1 DEF Tcb
  <2> HIDE DEF w, u
  <2>6. Ready(m.to, w)
    BY <2>2, <2>3, <2>4 DEF Ready
  <2>7. RepeatGood(m.to, w, again)
    <3>1. CASE ~repeat
      BY <3>1, NoneAgain
    <3>2. CASE repeat
      <4>1. v.snd_una # v.snd_max
        BY <1>4, <3>2 DEF may_repeat
      <4>2. v.snd_una <= v.snd_max
        <5>1. /\ v.snd_una <= tcb[Peer(m.to)].rcv_nxt /\ tcb[Peer(m.to)].rcv_nxt <= tcb[m.to].snd_max
              /\ tcb[m.to].snd_max <= v.snd_max
          BY <1>2, <2>2 DEF Ready, HandshakeInv, Agree
        <5>2. tcb[m.to] \in Tcb /\ tcb[Peer(m.to)] \in Tcb
          BY <1>2, TcbTypes DEF HandshakeInv
        <5> QED BY <2>1, <5>1, <5>2, Numbers
      <4>3. 0 < t.rcv_nxt /\ t.rcv_nxt <= v.rcv_nxt
        BY <1>2, <1>3, Numbers DEF Ready, DataGood
      <4>4. u.snd_una < u.snd_max
        BY <2>1, <2>5, <4>1, <4>2, Numbers
      <4>5. RepeatGood(m.to, w, utcp_retransmit_segment(m.to, u))
        BY <1>2, <2>4, <2>5, <4>3, <4>4, RepeatTrue
      <4> QED BY <3>2, <4>5
    <3> QED BY <3>1, <3>2
  <2>8. Counted(v) => Counted(w)
    BY <2>4 DEF Counted
  <2> HIDE DEF again
  <2>9. Repeated(m, v, again, w) /\ Finish(m.to, w, taken, again)
    BY <1>4, <1>6, <2>4, <2>6, <2>7, <2>8 DEF Repeated
  <2> QED BY <1>3, <2>1, <2>9 DEF Done
<1> QED BY <1>5, <1>6

LEMMA RecvEstablishedKeeps ==
  ASSUME HandshakeInv, NEW m \in net, RecvEstablished(m)
  PROVE  HandshakeInv'
<1> DEFINE e == m.to  t == tcb[m.to]
<1>1. e \in Ends /\ m \in Segments /\ t \in Tcb /\ t.state = "ESTABLISHED"
  BY TcbTypes DEF HandshakeInv, TypeOK, Segments, RecvEstablished
<1>2. PICK taken \in SUBSET {m} : Consumed(m, taken) /\ Processed(t, m, taken)
  BY DEF RecvEstablished
<1>3. /\ faults' \in [lost : Nat, dup : Nat, late : Nat]
      /\ Quiet' => Quiet
  BY <1>2, ConsumedFaults DEF HandshakeInv
<1>4. Ready(e, t) /\ t.snd_nxt <= t.snd_max
  BY <1>1, OpenReady DEF Open, Ready
<1>5. PICK v : Done(t, m, v, taken)
  BY <1>1, <1>2, <1>4, ProcessedGood
<1>6. DataGood(t, m, v) /\ t.cwnd = TRUE
  BY <1>1, <1>5 DEF Done, HandshakeInv, Raised
<1>7. v.state = "ESTABLISHED"
  BY <1>1, <1>6 DEF DataGood
<1>8. PICK again, w : Repeated(m, v, again, w) /\ Finish(e, w, taken, again)
  BY <1>5, <1>7 DEF Done
<1>9. Quiet' => Counted(v)
  BY <1>1, <1>3, <1>4, <1>6, <1>7, DataCounted DEF HandshakeInv, Calm
<1>10. /\ Ready(e, w) /\ RepeatGood(e, w, again) /\ w.state = "ESTABLISHED"
       /\ Quiet' => Counted(w)
  BY <1>7, <1>8, <1>9 DEF Repeated
<1>11. e = "server" => tcb["server"].state \in {"SYN_RECV", "ESTABLISHED"}
  BY <1>1
<1> QED BY <1>1, <1>3, <1>8, <1>10, <1>11, FinishKeeps

\* A timeout sends nothing new in SYN_SENT and SYN_RECV; it ends the calm.
LEMMA TimeoutKeeps ==
  ASSUME HandshakeInv, NEW e \in Ends, RexmtTimeout(e)
  PROVE  HandshakeInv'
<1> DEFINE w == tcb[e]
           t == [w EXCEPT !.snd_nxt = w.snd_una, !.cwnd = TRUE]
<1>1. w \in Tcb /\ w.rexmt /\ w.state # "CRASHED" /\ Finish(e, t, {}, {})
  BY TcbTypes DEF HandshakeInv, RexmtTimeout
<1>2. /\ faults' \in [lost : Nat, dup : Nat, late : Nat] /\ ~Quiet'
  BY DEF HandshakeInv, TypeOK, RexmtTimeout, Quiet
<1>3. w.state \in Open
  BY <1>1 DEF HandshakeInv, Fresh, Open, Tcb, States
<1>4. Ready(e, w)
  BY <1>3, OpenReady
<1>5. w.snd_una \in Nat /\ w.snd_una <= w.snd_max
  <2>1. w.snd_una <= tcb[Peer(e)].rcv_nxt /\ tcb[Peer(e)].rcv_nxt <= w.snd_max
    BY DEF HandshakeInv, Agree
  <2>2. tcb[Peer(e)] \in Tcb
    BY Peers, TcbTypes DEF HandshakeInv
  <2> QED BY <1>1, <2>1, <2>2, Numbers
<1>6. /\ t \in Tcb /\ t.state = w.state /\ t.snd_una = w.snd_una /\ t.snd_nxt = w.snd_una
      /\ t.snd_max = w.snd_max /\ t.rcv_nxt = w.rcv_nxt /\ t.cwnd = TRUE
  BY <1>1, <1>5 DEF Tcb
<1> HIDE DEF t
<1>7. Ready(e, t)
  BY <1>4, <1>5, <1>6 DEF Ready
<1> QED BY <1>1, <1>2, <1>7, NoneAgain, FinishKeeps

LEMMA RecvSynRecvKeeps ==
  ASSUME HandshakeInv, NEW m \in net, RecvSynRecv(m)
  PROVE  HandshakeInv'
<1> DEFINE s == tcb["server"]
           c == tcb["client"]
           est == [s EXCEPT !.state = "ESTABLISHED", !.snd_una = m.ack,
                            !.rexmt = FALSE, !.cwnd = TRUE]
           u == IF last_ack_ok(s, m) THEN est ELSE s
<1>1. /\ c \in Tcb /\ s \in Tcb /\ "client" \in Ends /\ "server" \in Ends
      /\ Peer("client") = "server" /\ Peer("server") = "client" /\ m \in Segments
  BY TcbTypes DEF HandshakeInv, Ends, Peer, TypeOK
<1>2. m.to = "server" /\ s.state = "SYN_RECV" /\ m.ack \in Nat
  BY <1>1 DEF RecvSynRecv, HandshakeInv, Roles, Segments, Ends
<1>3. PICK taken \in SUBSET {m} : Consumed(m, taken) /\ Processed(u, m, taken)
  BY <1>2 DEF RecvSynRecv
<1>4. /\ faults' \in [lost : Nat, dup : Nat, late : Nat]
      /\ Quiet' => Quiet
  BY <1>3, ConsumedFaults DEF HandshakeInv
<1>5. Ready("server", s) /\ s.snd_nxt <= s.snd_max
  BY <1>1, <1>2, OpenReady DEF Open, Ready
<1>6. m.ack <= c.rcv_nxt /\ ("ACK" \in m.flags => c.state = "ESTABLISHED" /\ m.ack > 0)
  BY <1>1, <1>2 DEF HandshakeInv, SegmentsTrue
<1>7. last_ack_ok(s, m) =>
        /\ est \in Tcb /\ est.state = "ESTABLISHED" /\ est.snd_una = m.ack /\ est.cwnd = TRUE
        /\ est.snd_nxt = m.ack /\ est.snd_max = s.snd_max /\ est.rcv_nxt = s.rcv_nxt
        /\ est.send_buf_head = s.send_buf_head /\ est.send_buf_tail = s.send_buf_tail
        /\ c.state = "ESTABLISHED"
  <2>1. last_ack_ok(s, m) => s.snd_nxt = m.ack /\ "ACK" \in m.flags
    BY DEF last_ack_ok
  <2>2. /\ est \in Tcb /\ est.state = "ESTABLISHED" /\ est.snd_una = m.ack /\ est.cwnd = TRUE
        /\ est.snd_nxt = s.snd_nxt /\ est.snd_max = s.snd_max /\ est.rcv_nxt = s.rcv_nxt
        /\ est.send_buf_head = s.send_buf_head /\ est.send_buf_tail = s.send_buf_tail
    BY <1>1, <1>2 DEF Tcb, States
  <2> HIDE DEF est
  <2> QED BY <1>6, <2>1, <2>2
<1>8. last_ack_ok(s, m) => Ready("server", est)
  BY <1>1, <1>2, <1>5, <1>6, <1>7 DEF Ready, Open
<1> HIDE DEF est
<1>9. /\ u \in Tcb /\ u.state \in {"SYN_RECV", "ESTABLISHED"} /\ Ready("server", u)
      /\ u.snd_max = s.snd_max /\ u.rcv_nxt = s.rcv_nxt /\ u.snd_nxt <= u.snd_max
      /\ u.snd_una <= c.rcv_nxt
  <2>1. /\ u \in Tcb /\ u.state \in {"SYN_RECV", "ESTABLISHED"} /\ Ready("server", u)
        /\ u.snd_max = s.snd_max /\ u.rcv_nxt = s.rcv_nxt
    BY <1>1, <1>2, <1>5, <1>7, <1>8
  <2> QED BY <1>1, <2>1 DEF Ready
<1>10. Quiet => last_ack_ok(s, m) /\ Counted(est)
  <2> SUFFICES ASSUME Quiet PROVE last_ack_ok(s, m) /\ Counted(est)
    OBVIOUS
  <2>1. m.flags = {"ACK"} /\ Counted(s)
    BY <1>1, <1>2 DEF HandshakeInv, Calm
  <2>2. s.snd_nxt = 1 /\ s.snd_max = 1 /\ s.send_buf_head = 0 /\ s.send_buf_tail = 0
    BY <1>2, <2>1 DEF Counted
  <2>3. c.rcv_nxt <= s.snd_max
    BY <1>1 DEF HandshakeInv, Agree
  <2>4. m.ack = 1
    BY <1>1, <1>2, <1>6, <2>1, <2>2, <2>3, Numbers
  <2>5. last_ack_ok(s, m)
    BY <2>1, <2>2, <2>4 DEF last_ack_ok
  <2> QED BY <1>7, <2>2, <2>4, <2>5 DEF Counted
<1>11. u.state = "ESTABLISHED" => u.cwnd = TRUE
  BY <1>9 DEF Ready
<1>12. last_ack_ok(s, m) => u = est /\ u.state = "ESTABLISHED"
  BY <1>7
<1>13. Processed(u, m, taken)
  BY <1>3
<1> HIDE DEF u
<1>14. PICK v : Done(u, m, v, taken)
  BY <1>2, <1>9, <1>13, ProcessedGood
<1>15. DataGood(u, m, v)
  BY <1>14 DEF Done
<1>16. CASE v.state = "CRASHED"
  <2>1. u.state # "ESTABLISHED"
    BY <1>9, <1>11, <1>15, <1>16 DEF DataGood
  <2>2. ~Quiet'
    BY <1>4, <1>10, <1>12, <2>1
  <2>3. /\ v \in Tcb /\ v.snd_max = s.snd_max /\ v.rcv_nxt = s.rcv_nxt
    BY <1>9, <1>15, <1>16 DEF DataGood
  <2>4. v.snd_una <= c.rcv_nxt /\ v.snd_nxt <= v.snd_max
    BY <1>1, <1>2, <1>6, <1>9, <1>15, Numbers DEF DataGood
  <2>5. tcb' = [tcb EXCEPT !["server"] = v] /\ net' = net \ taken
    BY <1>2, <1>9, <1>14, <1>16 DEF Done
  <2>6. Moved(v, taken)
    BY <1>4, <1>16, <2>2, <2>3, <2>4, <2>5 DEF Moved
  <2> QED BY <2>6, ServerMoves
<1>17. CASE v.state # "CRASHED"
  <2>1. PICK again, w : Repeated(m, v, again, w) /\ Finish("server", w, taken, again)
    BY <1>2, <1>14, <1>17 DEF Done
  <2>2. v.state = u.state
    BY <1>14, <1>17 DEF Done
  <2>3. Quiet' => Quiet /\ v.state = "ESTABLISHED" /\ Counted(v)
    BY <1>1, <1>4, <1>9, <1>10, <1>12, <1>15, <2>2, DataCounted
  <2>4. /\ Ready("server", w) /\ RepeatGood("server", w, again)
        /\ Quiet' => Quiet /\ w.state = "ESTABLISHED" /\ Counted(w)
    BY <1>2, <2>1, <2>3 DEF Repeated
  <2> QED BY <1>1, <1>2, <1>4, <2>1, <2>4, FinishKeeps
<1> QED BY <1>16, <1>17

LEMMA NextKeeps == HandshakeInv /\ [Next]_vars => HandshakeInv'
<1> SUFFICES ASSUME HandshakeInv, [Next]_vars PROVE HandshakeInv'
  OBVIOUS
<1>1. CASE utcp_listen
  BY <1>1, ListenKeeps
<1>2. CASE utcp_connect
  BY <1>2, ConnectKeeps
<1>3. CASE \E e \in Ends : utcp_send(e) \/ RexmtTimeout(e)
  BY <1>3, SendKeeps, TimeoutKeeps
<1>4. ASSUME NEW m \in net, Recv(m) PROVE HandshakeInv'
  BY <1>4, StrayKeeps, RecvListenKeeps, RecvSynSentKeeps, RecvSynRecvKeeps,
     RecvEstablishedKeeps DEF Recv
<1>5. ASSUME NEW m \in net, Lose(m) PROVE HandshakeInv'
  <2>1. /\ tcb' = tcb /\ net' \subseteq net /\ (Quiet' => Quiet)
        /\ faults' \in [lost : Nat, dup : Nat, late : Nat]
    BY <1>5 DEF Lose, HandshakeInv, TypeOK, Quiet
  <2> QED BY <2>1, SegmentsLeave
<1>6. CASE UNCHANGED vars
  <2>1. /\ tcb' = tcb /\ net' \subseteq net /\ (Quiet' => Quiet)
        /\ faults' \in [lost : Nat, dup : Nat, late : Nat]
    BY <1>6 DEF vars, HandshakeInv, TypeOK, Quiet
  <2> QED BY <2>1, SegmentsLeave
<1> QED BY <1>1, <1>2, <1>3, <1>4, <1>5, <1>6 DEF Next

-----------------------------------------------------------------------------
\* The theorems

\* The inductive invariant of connection establishment holds in every state
\* utcp_listen, utcp_connect, utcp_input and the timer can lead to.
THEOREM HandshakeInvariance == Spec => []HandshakeInv
BY InitHolds, NextKeeps, PTL DEF Spec

\* The fields of both TCBs and of every segment keep their types: no sequence
\* number that utcp_input subtracts goes below zero.
THEOREM HandshakeTypes == Spec => []TypeOK
<1>1. HandshakeInv => TypeOK
  BY DEF HandshakeInv
<1> QED BY <1>1, HandshakeInvariance, PTL

\* However often segments are lost, duplicated and sent again, what a side has
\* received lies between what its peer knows acknowledged and what it sent.
THEOREM SidesSynchronised == Spec => []Synchronised
<1>1. HandshakeInv => Synchronised
  BY DEF HandshakeInv, Agree, Synchronised
<1> QED BY <1>1, HandshakeInvariance, PTL

\* utcp_accept returns only for a client whose utcp_connect returns.
THEOREM AcceptMeansConnected == Spec => []AcceptedHasPeer
<1>1. HandshakeInv => AcceptedHasPeer
  BY DEF HandshakeInv, Roles
<1> QED BY <1>1, HandshakeInvariance, PTL

\* Without duplicates and timeouts no acknowledgement of a SYN is taken for one
\* of data: send_buf_head stays behind send_buf_tail.
THEOREM HeadStaysBehind == Spec => []HeadBehindTail
<1>1. HandshakeInv => HeadBehindTail
  BY DEF HandshakeInv, Calm, Quiet, Counted, HeadBehindTail
<1> QED BY <1>1, HandshakeInvariance, PTL
=============================================================================
