---------------------------- MODULE SenderProofs ----------------------------
(***************************************************************************)
(* Invariants of module Sender, proved for every buffer size, MSS, window  *)
(* and algorithm.                                                          *)
(***************************************************************************)
EXTENDS SendWidth, RingBufferProofs

\* What every operator of SendPath and CongestionControl preserves of a send
\* half t.
Ordered(t) ==
  /\ 1 <= t.snd_una /\ t.snd_una <= t.snd_nxt /\ t.snd_nxt <= t.snd_max
  /\ t.snd_max <= t.send_buf_tail + 1
  /\ t.send_buf_head = t.snd_una - 1
  /\ t.send_buf_tail - t.send_buf_head <= SEND_BUF_SIZE
  /\ t.rexmt => t.snd_una < t.snd_max

Floored(t) == t.cwnd >= MSS /\ t.ssthresh >= 2 * MSS

Recovering(t) ==
  t.ca_state = "RECOVERY" /\ t.cc_ops \in {"new_reno", "lstm_reno"}
    => t.snd_una < t.recover /\ t.recover <= t.snd_max

Good(t) == t \in SendHalves /\ Ordered(t) /\ Floored(t) /\ Recovering(t)

-----------------------------------------------------------------------------
\* What utcp_output sends lies in the buffer, from snd_nxt on.
LEMMA BurstRange ==
  ASSUME NEW t, Good(t)
  PROVE  burst(t) \in Nat /\ burst(t) <= t.send_buf_tail - (t.snd_nxt - 1)
<1>1. /\ t.snd_una \in Nat /\ t.snd_nxt \in Nat /\ t.send_buf_tail \in Nat
      /\ t.snd_wnd \in Nat /\ t.cwnd \in Nat /\ t.snd_nxt <= t.send_buf_tail + 1
      /\ 1 <= t.snd_nxt
  BY DEF Good, Ordered, SendHalves
<1>2. MSS \in Nat \ {0}
  BY CcAssumption
<1>3. sendable(t) \in Nat /\ sendable(t) <= t.send_buf_tail - (t.snd_nxt - 1)
  BY <1>1 DEF sendable, buffered_data, iss, MIN, MAX
<1>4. sendable(t) % MSS \in Nat /\ sendable(t) % MSS <= sendable(t)
  BY <1>2, <1>3, ModRange
<1> QED
  BY <1>1, <1>2, <1>3, <1>4 DEF burst

\* A segment cut out of send_buf is a segment.
LEMMA SegmentType ==
  ASSUME NEW t, Good(t), NEW seq \in Nat, seq >= 1, NEW len \in Nat, len <= SEND_BUF_SIZE
  PROVE  Segment(t, seq, len) \in [seq : Nat, data : Seq(Nat)]
<1>1. SEND_BUF_SIZE \in Nat \ {0} /\ t.send_buf \in [0 .. SEND_BUF_SIZE - 1 -> Nat]
  BY SendAssumption DEF Good, SendHalves
<1>2. seq - iss - 1 \in Nat
  BY DEF iss
<1>3. ring_buf_read(t.send_buf, SEND_BUF_SIZE, seq - iss - 1, len) \in Seq(Nat)
  BY <1>1, <1>2, ReadType
<1> QED
  BY <1>3 DEF Segment

\* One of at least a byte is not empty.
LEMMA SegmentFull ==
  ASSUME NEW t, Good(t), NEW seq \in Nat, seq >= 1, NEW len \in Nat, 0 < len,
         len <= SEND_BUF_SIZE
  PROVE  Segment(t, seq, len).data # <<>>
<1>1. SEND_BUF_SIZE \in Nat \ {0} /\ t.send_buf \in [0 .. SEND_BUF_SIZE - 1 -> Nat]
  BY SendAssumption DEF Good, SendHalves
<1> DEFINE from == seq - iss - 1
           d    == ring_buf_read(t.send_buf, SEND_BUF_SIZE, from, len)
<1>2. from \in Nat
  BY DEF iss
<1> HIDE DEF from
<1>3. d \in Seq(Nat) /\ Len(d) = len
  BY <1>1, <1>2, ReadType
<1> HIDE DEF d
<1>4. d # <<>>
  BY <1>3
<1> QED
  BY <1>4 DEF Segment, d, from

\* A retransmission changes nothing but the wire.
LEMMA RetransmitGood ==
  ASSUME NEW t, Good(t)
  PROVE  LET u == utcp_retransmit_segment(t, t.snd_una)
         IN  Good(u) /\ u = [t EXCEPT !.out = u.out]
<1> DEFINE len == MIN(buffered_data(t, t.snd_una), MSS)
           g   == Segment(t, t.snd_una, len)
           u   == utcp_retransmit_segment(t, t.snd_una)
<1>1. t \in SendHalves /\ Ordered(t) /\ Floored(t) /\ Recovering(t)
  BY DEF Good
<1>2. t.snd_una \in Nat /\ t.snd_una >= 1 /\ len \in Nat /\ len <= SEND_BUF_SIZE
  <2>1. /\ t.snd_una \in Nat /\ t.send_buf_tail \in Nat /\ t.snd_una >= 1
        /\ t.send_buf_tail - (t.snd_una - 1) <= SEND_BUF_SIZE
    BY <1>1 DEF Ordered, SendHalves
  <2> QED
    BY <2>1, CcAssumption, SendAssumption DEF buffered_data, iss, MIN, MAX
<1>3. g \in [seq : Nat, data : Seq(Nat)]
  BY <1>2, SegmentType
<1>4. u = [t EXCEPT !.out = @ \cup {g}]
  BY DEF utcp_retransmit_segment
<1> HIDE DEF g, len, u
<1>5. u \in SendHalves
  BY <1>1, <1>3, <1>4 DEF SendHalves
<1>6. Ordered(u) /\ Floored(u) /\ Recovering(u)
  BY <1>1, <1>4 DEF Ordered, Floored, Recovering, SendHalves
<1>7. u = [t EXCEPT !.out = u.out]
  BY <1>1, <1>4 DEF SendHalves
<1> QED
  BY <1>5, <1>6, <1>7 DEF Good, u

\* The segments of a burst of n bytes start before its end.
LEMMA SegmentStart ==
  ASSUME NEW n \in Nat, NEW m \in Nat \ {0}, NEW k \in 0 .. (n + m - 1) \div m - 1
  PROVE  k * m \in Nat /\ k * m < n
<1> DEFINE q == (n + m - 1) \div m
<1>1. q \in Nat /\ q * m <= n + m - 1
  BY SMT
<1>2. k \in Nat /\ k + 1 <= q
  BY <1>1
<1> HIDE DEF q
<1>3. (k + 1) * m <= q * m
  BY <1>1, <1>2, SMT
<1>4. (k + 1) * m = k * m + m
  BY <1>2, SMT
<1>5. k * m \in Nat /\ q * m \in Nat
  BY <1>1, <1>2, TimesNat
<1> QED
  BY <1>1, <1>3, <1>4, <1>5

\* utcp_output keeps a send half good, touches only snd_nxt, snd_max, the timer
\* and the wire, and starts the timer exactly when something is in flight.
LEMMA OutputGood ==
  ASSUME NEW t, Good(t)
  PROVE  LET u == utcp_output(t)
         IN  /\ Good(u)
             /\ u = [t EXCEPT !.out = u.out, !.snd_nxt = u.snd_nxt, !.snd_max = u.snd_max,
                              !.rexmt = u.rexmt]
             /\ (t.rexmt <=> t.snd_una < t.snd_max) => (u.rexmt <=> u.snd_una < u.snd_max)
<1> DEFINE n    == burst(t)
           nxt  == t.snd_nxt + n
           segs == {Segment(t, t.snd_nxt + k * MSS, MIN(n - k * MSS, MSS)) :
                      k \in 0 .. (n + MSS - 1) \div MSS - 1}
           u    == utcp_output(t)
<1>1. t \in SendHalves /\ Ordered(t) /\ Floored(t) /\ Recovering(t)
  BY DEF Good
<1>2. n \in Nat /\ n <= t.send_buf_tail - (t.snd_nxt - 1)
  BY BurstRange
<1>3. /\ t.snd_una \in Nat /\ t.snd_nxt \in Nat /\ t.snd_max \in Nat /\ t.send_buf_tail \in Nat
      /\ 1 <= t.snd_una /\ t.snd_una <= t.snd_nxt /\ t.snd_nxt <= t.snd_max
      /\ t.send_buf_tail - (t.snd_nxt - 1) <= SEND_BUF_SIZE
  <2>1. /\ t.snd_una \in Nat /\ t.snd_nxt \in Nat /\ t.snd_max \in Nat
        /\ t.send_buf_tail \in Nat /\ t.send_buf_head \in Nat
    BY <1>1 DEF SendHalves
  <2> QED
    BY <1>1, <2>1, SendAssumption DEF Ordered
<1>4. MSS \in Nat \ {0} /\ SEND_BUF_SIZE \in Nat
  BY CcAssumption, SendAssumption
<1>5. u = [t EXCEPT !.out = @ \cup segs, !.snd_nxt = nxt, !.snd_max = MAX(@, nxt),
                    !.rexmt = @ \/ n > 0]
  BY DEF utcp_output
<1> HIDE DEF n
<1>6. segs \subseteq [seq : Nat, data : Seq(Nat)]
  <2> SUFFICES ASSUME NEW k \in 0 .. (n + MSS - 1) \div MSS - 1
               PROVE  Segment(t, t.snd_nxt + k * MSS, MIN(n - k * MSS, MSS))
                        \in [seq : Nat, data : Seq(Nat)]
    OBVIOUS
  <2>1. k * MSS \in Nat /\ k * MSS <= n
    BY <1>2, <1>4, SegmentStart
  <2> DEFINE km == k * MSS
  <2> HIDE DEF km
  <2>2. t.snd_nxt + km \in Nat /\ t.snd_nxt + km >= 1
    BY <1>3, <2>1 DEF km
  <2>3. MIN(n - km, MSS) \in Nat /\ MIN(n - km, MSS) <= SEND_BUF_SIZE
    BY <1>2, <1>3, <1>4, <2>1 DEF km, MIN
  <2> QED
    BY <2>2, <2>3, SegmentType DEF km
<1>7. /\ u.out = t.out \cup segs /\ u.snd_nxt = nxt /\ u.snd_max = MAX(t.snd_max, nxt)
      /\ u.rexmt = (t.rexmt \/ n > 0)
  BY <1>1, <1>5 DEF SendHalves
<1> HIDE DEF segs, u
<1>8. nxt \in Nat /\ MAX(t.snd_max, nxt) \in Nat /\ nxt <= MAX(t.snd_max, nxt)
      /\ t.snd_max <= MAX(t.snd_max, nxt) /\ MAX(t.snd_max, nxt) <= t.send_buf_tail + 1
  BY <1>1, <1>2, <1>3 DEF MAX, Ordered
<1>9. u \in SendHalves
  BY <1>1, <1>5, <1>6, <1>8 DEF SendHalves
<1>10. /\ u.snd_una = t.snd_una /\ u.send_buf_tail = t.send_buf_tail
       /\ u.send_buf_head = t.send_buf_head /\ u.cwnd = t.cwnd /\ u.ssthresh = t.ssthresh
       /\ u.ca_state = t.ca_state /\ u.cc_ops = t.cc_ops /\ u.recover = t.recover
  BY <1>1, <1>5 DEF SendHalves
<1>11. Ordered(u)
  <2>1. u.rexmt => u.snd_una < u.snd_max
    <3>1. CASE n > 0
      BY <1>2, <1>3, <1>7, <1>10, <3>1 DEF MAX
    <3>2. CASE ~(n > 0)
      <4>1. u.rexmt => t.rexmt
        BY <1>7, <3>2
      <4>2. t.rexmt => t.snd_una < t.snd_max
        BY <1>1 DEF Ordered
      <4>3. t.snd_una < t.snd_max => u.snd_una < u.snd_max
        BY <1>3, <1>7, <1>8, <1>10
      <4> QED
        BY <4>1, <4>2, <4>3
    <3> QED
      BY <3>1, <3>2
  <2> QED
    BY <1>1, <1>2, <1>3, <1>7, <1>8, <1>10, <2>1 DEF Ordered
<1>12. Floored(u)
  BY <1>1, <1>10 DEF Floored
<1>13. Recovering(u)
  <2>1. t.recover \in Nat
    BY <1>1 DEF SendHalves
  <2> QED
    BY <1>1, <1>3, <1>7, <1>8, <1>10, <2>1 DEF Recovering
<1>14. (t.rexmt <=> t.snd_una < t.snd_max) => (u.rexmt <=> u.snd_una < u.snd_max)
  <2>1. CASE n > 0
    <3>1. u.snd_una < u.snd_max
      BY <1>2, <1>3, <1>7, <1>10, <2>1 DEF MAX
    <3> QED
      BY <1>7, <2>1, <3>1
  <2>2. CASE ~(n > 0)
    <3>1. u.snd_max = t.snd_max
      BY <1>2, <1>3, <1>7, <2>2 DEF MAX
    <3>2. t.rexmt \in BOOLEAN
      BY <1>1 DEF SendHalves
    <3> QED
      BY <1>7, <1>10, <2>2, <3>1, <3>2
  <2> QED
    BY <2>1, <2>2
<1>15. u = [t EXCEPT !.out = u.out, !.snd_nxt = u.snd_nxt, !.snd_max = u.snd_max,
                     !.rexmt = u.rexmt]
  BY <1>1, <1>5, <1>7 DEF SendHalves
<1> QED
  BY <1>9, <1>11, <1>12, <1>13, <1>14, <1>15 DEF Good, u

-----------------------------------------------------------------------------
\* The congestion control functions

\* The half of a flight is at least two segments.
LEMMA HalveFloor ==
  ASSUME NEW n \in Nat
  PROVE  cc_halve_ssthresh(n) \in Nat /\ cc_halve_ssthresh(n) >= 2 * MSS
<1>1. n \div 2 \in Nat
  BY DivNat
<1>2. MSS \in Nat
  BY CcAssumption
<1> QED
  BY <1>1, <1>2 DEF cc_halve_ssthresh, MAX

\* New values of the fields congestion control owns leave a send half good when
\* they respect the floors and the recovery point.
LEMMA CcWrites ==
  ASSUME NEW t \in SendHalves, Ordered(t),
         NEW cwnd \in Nat, NEW ssthresh \in Nat, cwnd >= MSS, ssthresh >= 2 * MSS,
         NEW ca \in CaStates, NEW rec \in Nat, NEW dups \in 0 .. DUPACK_MAX,
         ca = "RECOVERY" /\ t.cc_ops \in {"new_reno", "lstm_reno"}
           => t.snd_una < rec /\ rec <= t.snd_max
  PROVE  Good([t EXCEPT !.cwnd = cwnd, !.ssthresh = ssthresh, !.ca_state = ca,
                        !.recover = rec, !.t_dupacks = dups])
<1> DEFINE u == [t EXCEPT !.cwnd = cwnd, !.ssthresh = ssthresh, !.ca_state = ca,
                          !.recover = rec, !.t_dupacks = dups]
<1>1. u \in SendHalves
  BY DEF SendHalves
<1>2. /\ u.snd_una = t.snd_una /\ u.snd_nxt = t.snd_nxt /\ u.snd_max = t.snd_max
      /\ u.send_buf_head = t.send_buf_head /\ u.send_buf_tail = t.send_buf_tail
      /\ u.cc_ops = t.cc_ops /\ u.cwnd = cwnd /\ u.ssthresh = ssthresh
      /\ u.ca_state = ca /\ u.recover = rec /\ u.rexmt = t.rexmt
  BY DEF SendHalves
<1> HIDE DEF u
<1>3. Ordered(u) /\ Floored(u) /\ Recovering(u)
  BY <1>2 DEF Ordered, Floored, Recovering
<1> QED
  BY <1>1, <1>3 DEF Good, u

\* u differs from t only in what congestion control owns.
CcOnly(t, u) ==
  u = [t EXCEPT !.cwnd = u.cwnd, !.ssthresh = u.ssthresh, !.ca_state = u.ca_state,
                !.recover = u.recover, !.t_dupacks = u.t_dupacks]

\* A send half in the middle of an ACK: snd_una has moved, perhaps to or past
\* the recovery point.
Acking(t) ==
  /\ t \in SendHalves /\ Ordered(t) /\ Floored(t)
  /\ t.ca_state = "RECOVERY" /\ t.cc_ops \in {"new_reno", "lstm_reno"} => t.recover <= t.snd_max

\* Additive increase keeps the floor: the increment is at least a byte and the
\* division is by a positive window.
LEMMA AimdGood ==
  ASSUME NEW t, Acking(t), t.ca_state # "RECOVERY", NEW acked \in Nat \ {0}
  PROVE  Good(cc_aimd(t, acked)) /\ CcOnly(t, cc_aimd(t, acked))
<1> DEFINE inc  == IF t.cwnd < t.ssthresh THEN MIN(acked, MSS)
                                          ELSE MAX((MIN(acked, t.cwnd) * MSS) \div t.cwnd, 1)
           cwnd == t.cwnd + inc
           ca   == IF t.ca_state = "LOSS" THEN "OPEN" ELSE t.ca_state
           u    == cc_aimd(t, acked)
<1>1. t \in SendHalves /\ Ordered(t) /\ Floored(t)
  BY DEF Acking
<1>2. /\ t.cwnd \in Nat \ {0} /\ t.cwnd >= MSS /\ t.ssthresh \in Nat /\ t.ssthresh >= 2 * MSS
      /\ t.ca_state \in CaStates /\ t.recover \in Nat /\ t.t_dupacks \in 0 .. DUPACK_MAX
      /\ MSS \in Nat \ {0}
  BY <1>1, CcAssumption DEF SendHalves, Floored
<1>3. MIN(acked, t.cwnd) \in Nat /\ MIN(acked, MSS) \in Nat
  BY <1>2 DEF MIN
<1>4. (MIN(acked, t.cwnd) * MSS) \div t.cwnd \in Nat
  BY <1>2, <1>3, TimesNat, DivNat
<1>5. inc \in Nat
  BY <1>3, <1>4 DEF MAX
<1> HIDE DEF inc
<1>6. cwnd \in Nat /\ cwnd >= MSS
  BY <1>2, <1>5
<1>7. ca \in CaStates /\ ca # "RECOVERY"
  BY <1>2 DEF CaStates
<1>8. u = [t EXCEPT !.ca_state = ca, !.cwnd = cwnd]
  BY DEF cc_aimd, inc
<1> HIDE DEF cwnd, ca, u
<1>9. u = [t EXCEPT !.cwnd = cwnd, !.ssthresh = t.ssthresh, !.ca_state = ca,
                    !.recover = t.recover, !.t_dupacks = t.t_dupacks]
  BY <1>1, <1>8 DEF SendHalves
<1>10. Good(u)
  BY <1>1, <1>2, <1>6, <1>7, <1>9, CcWrites
<1>11. CcOnly(t, u)
  BY <1>1, <1>8 DEF CcOnly, SendHalves
<1> QED
  BY <1>10, <1>11 DEF u

\* What a cong_control function may answer.
CcResult(t, res) ==
  Good(res.t) /\ CcOnly(t, res.t) /\ res.call \in {"none", "retransmit", "output"}

\* An assignment of the window fields that keeps the send half good is a
\* proper answer, whatever it asks of the output side.
LEMMA OnlyResult ==
  ASSUME NEW t, NEW u, Good(u), CcOnly(t, u)
  PROVE  CcResult(t, Only(u)) /\ CcResult(t, AndRetransmit(u)) /\ CcResult(t, AndOutput(u))
  BY DEF CcResult, Only, AndRetransmit, AndOutput

\* The types a proof about one of the functions starts from.
LEMMA CcTypes ==
  ASSUME NEW t \in SendHalves
  PROVE  /\ t.cwnd \in Nat /\ t.ssthresh \in Nat /\ t.ca_state \in CaStates
         /\ t.recover \in Nat /\ t.t_dupacks \in 0 .. DUPACK_MAX
         /\ t.snd_una \in Nat /\ t.snd_nxt \in Nat /\ t.snd_max \in Nat
         /\ MSS \in Nat \ {0}
  BY CcAssumption DEF SendHalves

\* A change of nothing but state and window.
LEMMA StateAndWindow ==
  ASSUME NEW t, Acking(t), NEW cwnd \in Nat, cwnd >= MSS, NEW ssthresh \in Nat,
         ssthresh >= 2 * MSS, NEW ca \in CaStates,
         ca = "RECOVERY" /\ t.cc_ops \in {"new_reno", "lstm_reno"}
           => t.snd_una < t.recover /\ t.recover <= t.snd_max
  PROVE  LET u == [t EXCEPT !.cwnd = cwnd, !.ssthresh = ssthresh, !.ca_state = ca]
         IN  Good(u) /\ CcOnly(t, u)
<1> DEFINE u == [t EXCEPT !.cwnd = cwnd, !.ssthresh = ssthresh, !.ca_state = ca]
<1>1. t \in SendHalves /\ Ordered(t)
  BY DEF Acking
<1>2. u = [t EXCEPT !.cwnd = cwnd, !.ssthresh = ssthresh, !.ca_state = ca,
                    !.recover = t.recover, !.t_dupacks = t.t_dupacks]
  BY <1>1 DEF SendHalves
<1>3. t.recover \in Nat /\ t.t_dupacks \in 0 .. DUPACK_MAX
  BY <1>1, CcTypes
<1>4. CcOnly(t, u)
  BY <1>1 DEF CcOnly, SendHalves
<1> HIDE DEF u
<1>5. Good(u)
  BY <1>1, <1>2, <1>3, CcWrites
<1> QED
  BY <1>4, <1>5 DEF u

\* The ACK event of tahoe.c keeps the send half good.
LEMMA TahoeAck ==
  ASSUME NEW t, Acking(t), t.cc_ops = "tahoe", NEW acked \in Nat \ {0}
  PROVE  CcResult(t, tahoe_ack(t, acked))
<1> DEFINE o == [t EXCEPT !.ca_state = "OPEN"]
           u == cc_aimd(o, acked)
<1>1. t \in SendHalves /\ Ordered(t) /\ Floored(t)
  BY DEF Acking
<1>2. o \in SendHalves /\ o.ca_state = "OPEN"
  BY <1>1 DEF SendHalves, CaStates
<1>3. Ordered(o) /\ Floored(o)
  BY <1>1 DEF SendHalves, Ordered, Floored
<1>4. Acking(o) /\ o.ca_state # "RECOVERY"
  BY <1>2, <1>3 DEF Acking
<1> HIDE DEF o, u
<1>5. Good(u) /\ CcOnly(o, u)
  BY <1>4, AimdGood DEF u
<1>6. u = [o EXCEPT !.cwnd = u.cwnd, !.ssthresh = u.ssthresh, !.ca_state = u.ca_state,
                    !.recover = u.recover, !.t_dupacks = u.t_dupacks]
  BY <1>5 DEF CcOnly
<1>7. CcOnly(t, u)
  BY <1>1, <1>6 DEF CcOnly, o, SendHalves
<1>8. tahoe_ack(t, acked) = Only(u)
  BY DEF tahoe_ack, u, o
<1> QED
  BY <1>5, <1>7, <1>8, OnlyResult

\* The ACK event of reno.c keeps the send half good.
LEMMA RenoAck ==
  ASSUME NEW t, Acking(t), t.cc_ops = "reno", NEW acked \in Nat \ {0}
  PROVE  CcResult(t, reno_ack(t, acked))
<1>1. CASE t.ca_state = "RECOVERY"
  <2> DEFINE u == [t EXCEPT !.cwnd = t.ssthresh, !.ca_state = "OPEN"]
  <2>1. t \in SendHalves /\ t.ssthresh >= 2 * MSS
    BY DEF Acking, Floored
  <2>2. t.ssthresh \in Nat /\ t.ssthresh >= MSS
    BY <2>1, CcTypes
  <2>3. u = [t EXCEPT !.cwnd = t.ssthresh, !.ssthresh = t.ssthresh, !.ca_state = "OPEN"]
    BY <2>1 DEF SendHalves
  <2>4. Good(u) /\ CcOnly(t, u)
    BY <2>1, <2>2, <2>3, StateAndWindow DEF CaStates
  <2>5. reno_ack(t, acked) = Only(u)
    BY <1>1 DEF reno_ack
  <2> QED
    BY <2>4, <2>5, OnlyResult
<1>2. CASE t.ca_state # "RECOVERY"
  BY <1>2, AimdGood, OnlyResult DEF reno_ack
<1> QED
  BY <1>1, <1>2

\* A full ACK leaves recovery; a partial one stays in it, before the recovery
\* point.
LEMMA RecoveryAck ==
  ASSUME NEW t, Acking(t), t.ca_state = "RECOVERY", t.cc_ops \in {"new_reno", "lstm_reno"},
         NEW acked \in Nat \ {0}
  PROVE  CcResult(t, recovery_ack(t, acked))
<1>1. t \in SendHalves /\ Ordered(t) /\ t.ssthresh >= 2 * MSS /\ t.recover <= t.snd_max
  BY DEF Acking, Floored
<1>2. CASE t.snd_una >= t.recover
  <2> DEFINE u == [t EXCEPT !.cwnd = t.ssthresh, !.ca_state = "OPEN"]
  <2>1. t.ssthresh \in Nat /\ t.ssthresh >= MSS
    BY <1>1, CcTypes
  <2>2. u = [t EXCEPT !.cwnd = t.ssthresh, !.ssthresh = t.ssthresh, !.ca_state = "OPEN"]
    BY <1>1 DEF SendHalves
  <2>3. Good(u) /\ CcOnly(t, u)
    BY <1>1, <2>1, <2>2, StateAndWindow DEF CaStates
  <2>4. recovery_ack(t, acked) = Only(u)
    BY <1>2 DEF recovery_ack
  <2> QED
    BY <2>3, <2>4, OnlyResult
<1>3. CASE ~(t.snd_una >= t.recover)
  <2> DEFINE cwnd == (IF acked >= t.cwnd THEN MSS ELSE t.cwnd - acked) + MSS
             u    == [t EXCEPT !.cwnd = cwnd, !.t_dupacks = 0]
  <2>1. cwnd \in Nat /\ cwnd >= MSS
    BY <1>1, CcTypes
  <2>2. t.snd_una < t.recover /\ t.ssthresh \in Nat /\ t.recover \in Nat
        /\ 0 \in 0 .. DUPACK_MAX /\ "RECOVERY" \in CaStates
    BY <1>1, <1>3, CcTypes, SendAssumption DEF CaStates
  <2>3. recovery_ack(t, acked) = AndRetransmit(u)
    BY <1>3 DEF recovery_ack
  <2> HIDE DEF cwnd
  <2>4. u = [t EXCEPT !.cwnd = cwnd, !.ssthresh = t.ssthresh, !.ca_state = "RECOVERY",
                      !.recover = t.recover, !.t_dupacks = 0]
    BY <1>1 DEF SendHalves
  <2>5. CcOnly(t, u)
    BY <1>1 DEF CcOnly, SendHalves
  <2> HIDE DEF u
  <2>6. Good(u)
    BY <1>1, <2>1, <2>2, <2>4, CcWrites
  <2> QED
    BY <2>3, <2>5, <2>6, OnlyResult
<1> QED
  BY <1>2, <1>3

\* The ACK event of new_reno.c keeps the send half good.
LEMMA NewRenoAck ==
  ASSUME NEW t, Acking(t), t.cc_ops \in {"new_reno", "lstm_reno"}, NEW acked \in Nat \ {0}
  PROVE  CcResult(t, new_reno_ack(t, acked))
<1>1. CASE t.ca_state = "RECOVERY"
  BY <1>1, RecoveryAck DEF new_reno_ack
<1>2. CASE t.ca_state # "RECOVERY"
  BY <1>2, AimdGood, OnlyResult DEF new_reno_ack
<1> QED
  BY <1>1, <1>2

\* The predictor's signal may lower ssthresh before the window grows, never
\* below the floor.
LEMMA LstmRenoAck ==
  ASSUME NEW t, Acking(t), t.cc_ops = "lstm_reno", NEW acked \in Nat \ {0},
         NEW fired \in BOOLEAN
  PROVE  CcResult(t, lstm_reno_ack(t, acked, fired))
<1>1. CASE t.ca_state = "RECOVERY"
  BY <1>1, RecoveryAck DEF lstm_reno_ack
<1>2. CASE t.ca_state # "RECOVERY"
  <2> DEFINE preempt  == cc_halve_ssthresh(t.snd_nxt - t.snd_una)
             ssthresh == IF fired THEN MIN(preempt, t.ssthresh) ELSE t.ssthresh
             o == [t EXCEPT !.ssthresh = ssthresh]
             u == cc_aimd(o, acked)
  <2>1. t \in SendHalves /\ Ordered(t) /\ Floored(t)
    BY DEF Acking
  <2>2. t.snd_nxt - t.snd_una \in Nat /\ t.ssthresh \in Nat /\ t.ssthresh >= 2 * MSS
    BY <2>1, CcTypes DEF Ordered, Floored
  <2>3. preempt \in Nat /\ preempt >= 2 * MSS
    BY <2>2, HalveFloor
  <2>4. lstm_reno_ack(t, acked, fired) = Only(u)
    BY <1>2 DEF lstm_reno_ack
  <2> HIDE DEF preempt
  <2>5. ssthresh \in Nat /\ ssthresh >= 2 * MSS
    BY <2>2, <2>3, CcAssumption DEF MIN
  <2> HIDE DEF ssthresh
  <2>6. o \in SendHalves /\ o.ca_state = t.ca_state
    BY <2>1, <2>5 DEF SendHalves
  <2>7. Ordered(o) /\ Floored(o)
    BY <2>1, <2>5 DEF SendHalves, Ordered, Floored
  <2>8. Acking(o) /\ o.ca_state # "RECOVERY"
    BY <1>2, <2>6, <2>7 DEF Acking
  <2> HIDE DEF u, o
  <2>9. Good(u) /\ CcOnly(o, u)
    BY <2>8, AimdGood DEF u
  <2>10. CcOnly(t, u)
    BY <2>1, <2>9 DEF CcOnly, o, SendHalves
  <2> QED
    BY <2>4, <2>9, <2>10, OnlyResult
<1> QED
  BY <1>1, <1>2

\* Whatever the algorithm, an ACK event keeps a send half good.
LEMMA AckEventGood ==
  ASSUME NEW t, Acking(t), NEW acked \in Nat \ {0}, NEW fired \in BOOLEAN
  PROVE  CcResult(t, cc_event_ack(t, acked, fired))
<1>1. t.cc_ops \in CcAlgorithms
  BY DEF Acking, SendHalves
<1>2. CASE t.cc_ops = "tahoe"
  <2>1. cc_event_ack(t, acked, fired) = tahoe_ack(t, acked)
    BY <1>2 DEF cc_event_ack
  <2> QED
    BY <1>2, <2>1, TahoeAck
<1>3. CASE t.cc_ops = "reno"
  <2>1. cc_event_ack(t, acked, fired) = reno_ack(t, acked)
    BY <1>3 DEF cc_event_ack
  <2> QED
    BY <1>3, <2>1, RenoAck
<1>4. CASE t.cc_ops = "new_reno"
  <2>1. cc_event_ack(t, acked, fired) = new_reno_ack(t, acked)
    BY <1>4 DEF cc_event_ack
  <2> QED
    BY <1>4, <2>1, NewRenoAck
<1>5. CASE t.cc_ops = "lstm_reno"
  <2>1. cc_event_ack(t, acked, fired) = lstm_reno_ack(t, acked, fired)
    BY <1>5 DEF cc_event_ack
  <2> QED
    BY <1>5, <2>1, LstmRenoAck
<1> QED
  BY <1>1, <1>2, <1>3, <1>4, <1>5 DEF CcAlgorithms

\* A good send half may also be looked at as one in the middle of an ACK.
LEMMA GoodAcking ==
  ASSUME NEW t, Good(t) PROVE Acking(t)
  BY DEF Good, Acking, Recovering

\* Fast retransmit and the inflation of the window.  What is asked for must be
\* in flight, else the recovery point would not lie ahead.
LEMMA DupAckEventGood ==
  ASSUME NEW t, Good(t), t.snd_una # t.snd_max, NEW dups \in Nat
  PROVE  CcResult(t, cc_event_dup_ack(t, dups))
<1> DEFINE ssthresh == cc_halve_ssthresh(t.snd_nxt - t.snd_una)
<1>1. t \in SendHalves /\ Ordered(t) /\ Floored(t) /\ Recovering(t) /\ Acking(t)
  BY GoodAcking DEF Good
<1>2. t.snd_nxt - t.snd_una \in Nat /\ t.snd_una < t.snd_max /\ t.snd_max <= t.snd_max
  BY <1>1, CcTypes DEF Ordered
<1>3. ssthresh \in Nat /\ ssthresh >= 2 * MSS
  BY <1>2, HalveFloor
<1>4. /\ t.cwnd \in Nat /\ t.cwnd >= MSS /\ t.ssthresh \in Nat /\ t.ssthresh >= 2 * MSS
      /\ t.ca_state \in CaStates /\ "RECOVERY" \in CaStates
      /\ t.recover \in Nat /\ t.snd_max \in Nat /\ t.t_dupacks \in 0 .. DUPACK_MAX
  BY <1>1, CcTypes DEF Floored, CaStates
<1>5. /\ MSS \in Nat /\ MSS >= MSS
      /\ ssthresh + 3 * MSS \in Nat /\ ssthresh + 3 * MSS >= MSS
      /\ t.cwnd + MSS \in Nat /\ t.cwnd + MSS >= MSS
  BY <1>3, <1>4, CcAssumption
<1>6. CcResult(t, Only(t))
  BY <1>1, OnlyResult DEF CcOnly, SendHalves
<1> DEFINE inflated == [t EXCEPT !.cwnd = t.cwnd + MSS]
<1>7. inflated = [t EXCEPT !.cwnd = t.cwnd + MSS, !.ssthresh = t.ssthresh,
                           !.ca_state = t.ca_state]
  BY <1>1 DEF SendHalves
<1>8. CcResult(t, AndOutput(inflated))
  <2> HIDE DEF inflated
  <2>1. Good(inflated) /\ CcOnly(t, inflated)
    BY <1>1, <1>4, <1>5, <1>7, StateAndWindow DEF Recovering
  <2> QED
    BY <2>1, OnlyResult
<1>9. CASE t.cc_ops = "tahoe"
  <2> DEFINE u == [t EXCEPT !.ssthresh = ssthresh, !.cwnd = MSS]
  <2>1. CcResult(t, AndRetransmit(u))
    <3>1. u = [t EXCEPT !.cwnd = MSS, !.ssthresh = ssthresh, !.ca_state = t.ca_state]
      BY <1>1 DEF SendHalves
    <3> HIDE DEF u, ssthresh
    <3>2. Good(u) /\ CcOnly(t, u)
      BY <1>1, <1>3, <1>4, <1>5, <1>9, <3>1, StateAndWindow
    <3> QED
      BY <3>2, OnlyResult
  <2>2. tahoe_dup_ack(t, dups) = IF dups = 3 THEN AndRetransmit(u) ELSE Only(t)
    BY DEF tahoe_dup_ack
  <2>3. cc_event_dup_ack(t, dups) = tahoe_dup_ack(t, dups)
    BY <1>9 DEF cc_event_dup_ack
  <2> HIDE DEF u
  <2> QED
    BY <1>6, <2>1, <2>2, <2>3
<1>10. CASE t.cc_ops = "reno"
  <2> DEFINE u == [t EXCEPT !.ssthresh = ssthresh, !.ca_state = "RECOVERY",
                            !.cwnd = ssthresh + 3 * MSS]
  <2>1. CcResult(t, AndRetransmit(u))
    <3>1. u = [t EXCEPT !.cwnd = ssthresh + 3 * MSS, !.ssthresh = ssthresh,
                        !.ca_state = "RECOVERY"]
      BY <1>1 DEF SendHalves
    <3> HIDE DEF u, ssthresh
    <3>2. Good(u) /\ CcOnly(t, u)
      BY <1>1, <1>3, <1>4, <1>5, <1>10, <3>1, StateAndWindow
    <3> QED
      BY <3>2, OnlyResult
  <2>2. reno_dup_ack(t, dups)
          = IF dups = 3 THEN AndRetransmit(u)
                        ELSE IF dups > 3 THEN AndOutput(inflated) ELSE Only(t)
    BY DEF reno_dup_ack
  <2>3. cc_event_dup_ack(t, dups) = reno_dup_ack(t, dups)
    BY <1>10 DEF cc_event_dup_ack
  <2> HIDE DEF u, inflated
  <2> QED
    BY <1>6, <1>8, <2>1, <2>2, <2>3
<1>11. CASE t.cc_ops \in {"new_reno", "lstm_reno"}
  <2> DEFINE u == [t EXCEPT !.ssthresh = ssthresh, !.recover = t.snd_max,
                            !.ca_state = "RECOVERY", !.cwnd = ssthresh + 3 * MSS]
  <2>1. CcResult(t, AndRetransmit(u))
    <3>1. u = [t EXCEPT !.cwnd = ssthresh + 3 * MSS, !.ssthresh = ssthresh,
                        !.ca_state = "RECOVERY", !.recover = t.snd_max,
                        !.t_dupacks = t.t_dupacks]
      BY <1>1 DEF SendHalves
    <3>2. CcOnly(t, u)
      BY <1>1 DEF CcOnly, SendHalves
    <3> HIDE DEF u, ssthresh
    <3>3. Good(u)
      BY <1>1, <1>2, <1>3, <1>4, <1>5, <3>1, CcWrites
    <3> QED
      BY <3>2, <3>3, OnlyResult
  <2>2. new_reno_dup_ack(t, dups)
          = IF dups = 3 /\ t.snd_una > t.recover
              THEN AndRetransmit(u)
              ELSE IF dups > 3 /\ t.ca_state = "RECOVERY"
                     THEN AndOutput(inflated) ELSE Only(t)
    BY DEF new_reno_dup_ack
  <2>3. cc_event_dup_ack(t, dups) = new_reno_dup_ack(t, dups)
    BY <1>11 DEF cc_event_dup_ack
  <2> HIDE DEF u, inflated
  <2> QED
    BY <1>6, <1>8, <2>1, <2>2, <2>3
<1>12. t.cc_ops \in CcAlgorithms
  BY <1>1 DEF SendHalves
<1> QED
  BY <1>9, <1>10, <1>11, <1>12 DEF CcAlgorithms

\* The timeout event.
LEMMA TimeoutEventGood ==
  ASSUME NEW t \in SendHalves, Ordered(t), Floored(t), NEW flight_size \in Nat
  PROVE  LET u == cc_event_timeout(t, flight_size)
         IN  /\ Good(u) /\ CcOnly(t, u)
             /\ t.ca_state \in {"RECOVERY", "LOSS"} => u.ssthresh <= t.ssthresh
<1> DEFINE half     == cc_halve_ssthresh(MIN(flight_size, t.cwnd))
           ssthresh == IF t.ca_state \in {"RECOVERY", "LOSS"} THEN MIN(half, t.ssthresh)
                                                              ELSE half
           recover  == IF t.cc_ops \in {"new_reno", "lstm_reno"} THEN t.snd_max ELSE t.recover
           u        == cc_event_timeout(t, flight_size)
<1>1. /\ t.cwnd \in Nat /\ t.ssthresh \in Nat /\ t.ssthresh >= 2 * MSS
      /\ t.recover \in Nat /\ t.snd_max \in Nat /\ t.t_dupacks \in 0 .. DUPACK_MAX
      /\ MSS \in Nat /\ MSS >= MSS /\ "LOSS" \in CaStates /\ "LOSS" # "RECOVERY"
  BY CcTypes DEF Floored, CaStates
<1>2. MIN(flight_size, t.cwnd) \in Nat
  BY <1>1 DEF MIN
<1>3. half \in Nat /\ half >= 2 * MSS
  BY <1>2, HalveFloor
<1>4. u = [t EXCEPT !.cwnd = MSS, !.ssthresh = ssthresh, !.ca_state = "LOSS",
                    !.recover = recover, !.t_dupacks = t.t_dupacks]
  <2>1. CASE t.cc_ops \in {"new_reno", "lstm_reno"}
    <3>1. u = cc_timeout([t EXCEPT !.recover = t.snd_max], flight_size)
      BY <2>1 DEF cc_event_timeout, new_reno_timeout
    <3> QED
      BY <2>1, <3>1 DEF cc_timeout, SendHalves
  <2>2. CASE t.cc_ops \notin {"new_reno", "lstm_reno"}
    <3>1. u = cc_timeout(t, flight_size)
      BY <2>2 DEF cc_event_timeout
    <3> QED
      BY <2>2, <3>1 DEF cc_timeout, SendHalves
  <2> QED
    BY <2>1, <2>2
<1> HIDE DEF half, u
<1>5. ssthresh \in Nat /\ ssthresh >= 2 * MSS /\ recover \in Nat
  BY <1>1, <1>3 DEF MIN
<1>8. t.ca_state \in {"RECOVERY", "LOSS"} => ssthresh <= t.ssthresh
  BY <1>1, <1>3 DEF MIN
<1> HIDE DEF ssthresh, recover
<1>6. Good(u)
  BY <1>1, <1>4, <1>5, CcWrites
<1>7. CcOnly(t, u)
  BY <1>4 DEF CcOnly, SendHalves
<1>9. u.ssthresh = ssthresh
  BY <1>4 DEF SendHalves
<1> QED
  BY <1>6, <1>7, <1>8, <1>9 DEF u

-----------------------------------------------------------------------------
\* What the segments carry

\* send_buf holds the stream from the first unacknowledged byte to the last
\* written one.
Filled(t) == Holds(t.send_buf, SEND_BUF_SIZE, t.send_buf_head, t.send_buf_tail)

\* A segment carries the bytes its sequence number names, all of them written,
\* and at most MSS of them.
Carries(t, g) == /\ g.data = Stream(g.seq, Len(g.data)) /\ Len(g.data) <= MSS
                 /\ 1 <= g.seq /\ g.seq + Len(g.data) <= t.send_buf_tail + 1

Truthful(t) == Filled(t) /\ \A g \in t.out : Carries(t, g)

\* A segment cut from what send_buf holds.
LEMMA SegmentTrue ==
  ASSUME NEW t, Good(t), Filled(t), NEW seq \in Nat, NEW len \in Nat,
         t.snd_una <= seq, seq + len <= t.send_buf_tail + 1, len <= MSS
  PROVE  Carries(t, Segment(t, seq, len)) /\ Len(Segment(t, seq, len).data) = len
<1> DEFINE pos == seq - iss - 1
           n == SEND_BUF_SIZE
           ring == t.send_buf
           head == t.send_buf_head
           tail == t.send_buf_tail
           data == ring_buf_read(ring, n, pos, len)
<1>1. /\ head \in Nat /\ tail \in Nat /\ n \in Nat \ {0} /\ ring \in [0 .. n - 1 -> Nat]
  BY SendAssumption DEF Good, SendHalves
<1>2. head = t.snd_una - 1 /\ 1 <= t.snd_una /\ t.snd_una \in Nat /\ tail - head <= n
  BY DEF Good, Ordered, SendHalves
<1>3. Holds(ring, n, head, tail)
  BY DEF Filled
<1>4. Segment(t, seq, len).seq = seq /\ Segment(t, seq, len).data = data
  BY DEF Segment
<1>5. seq + len <= tail + 1 /\ head + 1 <= seq /\ tail - head <= n
  BY <1>2
<1>6. pos = seq - 1
  BY DEF iss
<1> HIDE DEF pos, n, ring, head, tail
<1>7. pos \in Nat /\ len <= n /\ head <= pos /\ pos + len <= tail /\ 1 <= seq
  BY <1>1, <1>5, <1>6
<1>8. data = [k \in 1 .. len |-> pos + k] /\ Len(data) = len
  <2>1. data = [k \in 1 .. len |-> pos + k]
    <3>1. /\ n \in Nat \ {0} /\ ring \in [0 .. n - 1 -> Nat] /\ Holds(ring, n, head, tail)
          /\ head \in Nat /\ tail \in Nat /\ pos \in Nat /\ len \in Nat
          /\ len <= n /\ head <= pos /\ pos + len <= tail
      BY <1>1, <1>3, <1>7
    <3> QED
      BY <3>1, ReadHolds
  <2>2. Len(data) = len
    BY <1>1, <1>7, ReadType
  <2> QED
    BY <2>1, <2>2
<1>9. data = Stream(seq, len)
  BY <1>6, <1>7, <1>8 DEF Stream
<1> QED
  BY <1>4, <1>5, <1>7, <1>8, <1>9 DEF Carries, tail

\* u sends nothing new, and keeps the buffer and the segments of t.
SameWire(t, u) ==
  /\ u.send_buf = t.send_buf /\ u.out = t.out
  /\ u.send_buf_head = t.send_buf_head /\ u.send_buf_tail = t.send_buf_tail

LEMMA SameWireTrue ==
  ASSUME NEW t, NEW u, SameWire(t, u), Truthful(t) PROVE Truthful(u)
  BY DEF SameWire, Truthful, Filled, Carries

\* The segment sent again is the oldest one.
LEMMA RetransmitTrue ==
  ASSUME NEW t, Good(t), Truthful(t)
  PROVE  Truthful(utcp_retransmit_segment(t, t.snd_una))
<1> DEFINE len == MIN(buffered_data(t, t.snd_una), MSS)
           g   == Segment(t, t.snd_una, len)
           u   == utcp_retransmit_segment(t, t.snd_una)
<1>1. /\ t.snd_una \in Nat /\ len \in Nat /\ t.snd_una <= t.snd_una
      /\ t.snd_una + len <= t.send_buf_tail + 1 /\ len <= MSS
  <2>1. /\ t.snd_una \in Nat /\ t.send_buf_tail \in Nat /\ t.snd_max \in Nat
        /\ t.snd_nxt \in Nat /\ t \in SendHalves /\ Ordered(t)
    BY DEF Good, SendHalves
  <2>2. t.snd_una <= t.send_buf_tail + 1 /\ 1 <= t.snd_una
    BY <2>1 DEF Ordered
  <2> QED
    BY <2>1, <2>2, CcAssumption DEF buffered_data, iss, MIN, MAX
<1>2. Carries(t, g)
  BY <1>1, SegmentTrue DEF Truthful
<1>3. /\ u.out = t.out \cup {g} /\ u.send_buf = t.send_buf
      /\ u.send_buf_head = t.send_buf_head /\ u.send_buf_tail = t.send_buf_tail
  BY DEF utcp_retransmit_segment, Good, SendHalves
<1> HIDE DEF g, u
<1> QED
  BY <1>2, <1>3 DEF Truthful, Filled, Carries, u

\* The segments of a burst are cut from it one behind the other.
LEMMA OutputTrue ==
  ASSUME NEW t, Good(t), Truthful(t) PROVE Truthful(utcp_output(t))
<1> DEFINE n    == burst(t)
           segs == {Segment(t, t.snd_nxt + k * MSS, MIN(n - k * MSS, MSS)) :
                      k \in 0 .. (n + MSS - 1) \div MSS - 1}
           u    == utcp_output(t)
<1>1. n \in Nat /\ n <= t.send_buf_tail - (t.snd_nxt - 1)
  BY BurstRange
<1>2. /\ t \in SendHalves /\ t.snd_una \in Nat /\ t.snd_nxt \in Nat
      /\ t.send_buf_tail \in Nat /\ t.snd_una <= t.snd_nxt /\ MSS \in Nat \ {0}
  BY CcAssumption DEF Good, SendHalves, Ordered
<1>3. /\ u.out = t.out \cup segs /\ u.send_buf = t.send_buf
      /\ u.send_buf_head = t.send_buf_head /\ u.send_buf_tail = t.send_buf_tail
  BY <1>2 DEF utcp_output, SendHalves
<1> HIDE DEF n
<1>4. ASSUME NEW k \in 0 .. (n + MSS - 1) \div MSS - 1
      PROVE  Carries(t, Segment(t, t.snd_nxt + k * MSS, MIN(n - k * MSS, MSS)))
  <2> DEFINE km == k * MSS
             seq == t.snd_nxt + km
             len == MIN(n - km, MSS)
  <2>1. km \in Nat /\ km <= n
    BY <1>1, <1>2, SegmentStart
  <2> HIDE DEF km
  <2>2. /\ seq \in Nat /\ len \in Nat /\ t.snd_una <= seq
        /\ seq + len <= t.send_buf_tail + 1 /\ len <= MSS
    BY <1>1, <1>2, <2>1 DEF MIN
  <2> HIDE DEF seq, len
  <2>3. Carries(t, Segment(t, seq, len))
    BY <2>2, SegmentTrue DEF Truthful
  <2> QED
    BY <2>3 DEF seq, len, km
<1>5. \A g \in segs : Carries(t, g)
  BY <1>4
<1> HIDE DEF segs, u
<1> QED
  BY <1>3, <1>5 DEF Truthful, Filled, Carries, u

\* Congestion control itself touches neither buffer nor wire.
LEMMA CcOnlyWire ==
  ASSUME NEW t \in SendHalves, NEW u, CcOnly(t, u) PROVE SameWire(t, u)
  BY DEF CcOnly, SameWire, SendHalves

LEMMA ApplyTrue ==
  ASSUME NEW t \in SendHalves, NEW res, CcResult(t, res), Truthful(t)
  PROVE  Truthful(apply_cc(res))
<1>1. Good(res.t) /\ CcOnly(t, res.t) /\ res.call \in {"none", "retransmit", "output"}
  BY DEF CcResult
<1>2. Truthful(res.t)
  BY <1>1, CcOnlyWire, SameWireTrue
<1>3. CASE res.call = "none"
  BY <1>2, <1>3 DEF apply_cc
<1>4. CASE res.call = "retransmit"
  <2>1. apply_cc(res) = utcp_retransmit_segment(res.t, res.t.snd_una)
    BY <1>4 DEF apply_cc
  <2> QED
    BY <1>1, <1>2, <2>1, RetransmitTrue
<1>5. CASE res.call = "output"
  <2>1. apply_cc(res) = utcp_output(res.t)
    BY <1>5 DEF apply_cc
  <2> QED
    BY <1>1, <1>2, <2>1, OutputTrue
<1> QED
  BY <1>1, <1>3, <1>4, <1>5

-----------------------------------------------------------------------------
\* What NewReno sends again

NewRenos == {"new_reno", "lstm_reno"}

\* A step from h to u sends from snd_nxt on and moves it past what it sent; no
\* segment is empty.
Onward(h, u) ==
  /\ u.cc_ops = h.cc_ops
  /\ \A g \in u.out : \/ g \in h.out
                      \/ h.snd_nxt <= g.seq /\ g.seq < u.snd_nxt /\ g.data # <<>>

LEMMA OutputSent ==
  ASSUME NEW h, Good(h)
  PROVE  Onward(h, utcp_output(h))
<1> DEFINE n    == burst(h)
           segs == {Segment(h, h.snd_nxt + k * MSS, MIN(n - k * MSS, MSS)) :
                      k \in 0 .. (n + MSS - 1) \div MSS - 1}
           u    == utcp_output(h)
<1>1. n \in Nat /\ n <= h.send_buf_tail - (h.snd_nxt - 1)
  BY BurstRange
<1>2. h \in SendHalves /\ h.snd_nxt \in Nat /\ MSS \in Nat \ {0}
  BY CcAssumption DEF Good, SendHalves
<1>3. n <= SEND_BUF_SIZE /\ h.snd_nxt >= 1
  <2>1. /\ h.send_buf_head = h.snd_una - 1 /\ h.snd_una <= h.snd_nxt /\ h.snd_una >= 1
        /\ h.send_buf_tail - h.send_buf_head <= SEND_BUF_SIZE
        /\ h.snd_una \in Nat /\ h.send_buf_tail \in Nat /\ SEND_BUF_SIZE \in Nat
    BY SendAssumption DEF Good, Ordered, SendHalves
  <2> HIDE DEF n
  <2> QED
    BY <1>1, <1>2, <2>1
<1>4. u.out = h.out \cup segs /\ u.cc_ops = h.cc_ops /\ u.snd_nxt = h.snd_nxt + n
  BY <1>2 DEF utcp_output, SendHalves
<1> HIDE DEF n
<1>5. ASSUME NEW k \in 0 .. (n + MSS - 1) \div MSS - 1
      PROVE  /\ h.snd_nxt <= h.snd_nxt + k * MSS /\ h.snd_nxt + k * MSS < h.snd_nxt + n
             /\ Segment(h, h.snd_nxt + k * MSS, MIN(n - k * MSS, MSS)).data # <<>>
  <2>1. k * MSS \in Nat /\ k * MSS < n
    BY <1>1, <1>2, SegmentStart
  <2> DEFINE km == k * MSS
             seq == h.snd_nxt + km
             len == MIN(n - km, MSS)
  <2> HIDE DEF km
  <2>2. km \in Nat /\ km < n
    BY <2>1 DEF km
  <2>3. /\ seq \in Nat /\ seq >= 1 /\ len \in Nat /\ 0 < len /\ len <= SEND_BUF_SIZE
        /\ h.snd_nxt <= seq /\ seq < h.snd_nxt + n
    BY <1>3, <1>1, <1>2, <2>2, SendAssumption DEF MIN
  <2> HIDE DEF seq, len
  <2>4. Segment(h, seq, len).data # <<>>
    BY <2>3, SegmentFull
  <2> QED
    BY <2>3, <2>4 DEF seq, len, km
<1>6. \A g \in segs : h.snd_nxt <= g.seq /\ g.seq < h.snd_nxt + n /\ g.data # <<>>
  BY <1>5 DEF Segment
<1> HIDE DEF segs, u
<1> QED
  BY <1>4, <1>6 DEF Onward, u

\* What a step from h to u puts on the wire under NewReno: the oldest
\* outstanding segment again, or what utcp_output takes from snd_nxt on.
Sends(h, u) ==
  /\ u.cc_ops = h.cc_ops
  /\ h.cc_ops \in NewRenos =>
       \A g \in u.out : \/ g \in h.out
                        \/ g.seq = u.snd_una /\ u.snd_una < h.snd_max /\ g.data # <<>>
                        \/ h.snd_nxt <= g.seq /\ g.seq < u.snd_nxt /\ g.data # <<>>

\* NewReno asks for a retransmission only in recovery.
InRecovery(res) == res.call = "retransmit" => res.t.ca_state = "RECOVERY"

LEMMA AckInRecovery ==
  ASSUME NEW h, h.cc_ops \in NewRenos, h \in SendHalves, NEW acked, NEW fired
  PROVE  InRecovery(cc_event_ack(h, acked, fired))
<1>1. ASSUME h.ca_state = "RECOVERY" PROVE InRecovery(recovery_ack(h, acked))
  BY <1>1 DEF recovery_ack, InRecovery, Only, AndRetransmit, SendHalves
<1>2. InRecovery(new_reno_ack(h, acked)) /\ InRecovery(lstm_reno_ack(h, acked, fired))
  BY <1>1 DEF new_reno_ack, lstm_reno_ack, InRecovery, Only
<1>3. cc_event_ack(h, acked, fired) \in {new_reno_ack(h, acked), lstm_reno_ack(h, acked, fired)}
  BY DEF cc_event_ack, NewRenos
<1> QED
  BY <1>2, <1>3

LEMMA DupInRecovery ==
  ASSUME NEW h, h.cc_ops \in NewRenos, h \in SendHalves, NEW dups
  PROVE  InRecovery(cc_event_dup_ack(h, dups))
<1>1. cc_event_dup_ack(h, dups) = new_reno_dup_ack(h, dups)
  BY DEF cc_event_dup_ack, NewRenos
<1>2. InRecovery(new_reno_dup_ack(h, dups))
  BY DEF new_reno_dup_ack, InRecovery, Only, AndRetransmit, AndOutput, SendHalves
<1> QED
  BY <1>1, <1>2

\* Performing what NewReno asked for.
LEMMA ApplySends ==
  ASSUME NEW h \in SendHalves, NEW res, CcResult(h, res), h.cc_ops \in NewRenos => InRecovery(res)
  PROVE  Sends(h, apply_cc(res))
<1> DEFINE v == res.t
<1>1. Good(v) /\ CcOnly(h, v) /\ res.call \in {"none", "retransmit", "output"}
  BY DEF CcResult
<1> HIDE DEF v
<1>2. /\ v.snd_una = h.snd_una /\ v.snd_max = h.snd_max /\ v.snd_nxt = h.snd_nxt
      /\ v.out = h.out /\ v.cc_ops = h.cc_ops
  BY <1>1 DEF CcOnly, SendHalves
<1>3. CASE res.call = "none"
  BY <1>2, <1>3 DEF apply_cc, Sends, v
<1>4. CASE res.call = "retransmit"
  <2> DEFINE w == utcp_retransmit_segment(v, v.snd_una)
             seg == Segment(v, v.snd_una, MIN(buffered_data(v, v.snd_una), MSS))
  <2>1. apply_cc(res) = w
    BY <1>4 DEF apply_cc, v
  <2>2. w.out = v.out \cup {seg} /\ w.cc_ops = v.cc_ops /\ w.snd_una = v.snd_una
    BY <1>1 DEF utcp_retransmit_segment, Good, SendHalves
  <2>3. seg.seq = v.snd_una
    BY DEF Segment
  <2>4. v.snd_una < v.snd_max => seg.data # <<>>
    <3> DEFINE len == MIN(buffered_data(v, v.snd_una), MSS)
    <3>1. /\ v.snd_una \in Nat /\ v.snd_max \in Nat /\ v.send_buf_tail \in Nat
          /\ v.snd_una >= 1 /\ v.snd_max <= v.send_buf_tail + 1
          /\ v.send_buf_tail - (v.snd_una - 1) <= SEND_BUF_SIZE
      BY <1>1 DEF Good, Ordered, SendHalves
    <3>2. len \in Nat /\ len <= SEND_BUF_SIZE /\ (v.snd_una < v.snd_max => 0 < len)
      BY <3>1, CcAssumption, SendAssumption DEF buffered_data, iss, MIN, MAX
    <3> HIDE DEF len
    <3>3. v.snd_una < v.snd_max => Segment(v, v.snd_una, len).data # <<>>
      BY <1>1, <3>1, <3>2, SegmentFull
    <3> QED
      BY <3>3 DEF len
  <2> HIDE DEF seg, w
  <2>5. h.cc_ops \in NewRenos => v.snd_una < h.snd_max
    <3> SUFFICES ASSUME h.cc_ops \in NewRenos PROVE v.snd_una < v.snd_max
      BY <1>2
    <3>1. v.ca_state = "RECOVERY"
      BY <1>4 DEF InRecovery, v
    <3>2. v.snd_una < v.recover /\ v.recover <= v.snd_max
      BY <1>1, <1>2, <3>1 DEF Good, Recovering, NewRenos
    <3>3. v.snd_una \in Nat /\ v.recover \in Nat /\ v.snd_max \in Nat
      BY <1>1, CcTypes DEF Good
    <3> QED
      BY <3>2, <3>3
  <2> QED
    BY <1>2, <2>1, <2>2, <2>3, <2>4, <2>5 DEF Sends
<1>5. CASE res.call = "output"
  <2> DEFINE w == utcp_output(v)
  <2>1. apply_cc(res) = w
    BY <1>5 DEF apply_cc, v
  <2>2. Onward(v, w)
    BY <1>1, OutputSent
  <2> HIDE DEF w
  <2> QED
    BY <1>2, <2>1, <2>2 DEF Sends, Onward
<1> QED
  BY <1>1, <1>3, <1>4, <1>5
-----------------------------------------------------------------------------
\* Acknowledgements and timeouts

\* Data is in flight exactly while the timer runs.
Timed(t) == t.rexmt <=> t.snd_una < t.snd_max

\* What neither congestion control nor output changes.
Kept(t, u) ==
  /\ u.snd_una = t.snd_una /\ u.snd_wnd = t.snd_wnd /\ u.t_rxtshift = t.t_rxtshift
  /\ u.send_buf_head = t.send_buf_head /\ u.send_buf_tail = t.send_buf_tail

\* How they move through the sequence space: forward, and snd_max only with
\* snd_nxt.
Forward(t, u) ==
  t.snd_nxt <= u.snd_nxt /\ t.snd_max <= u.snd_max /\ u.snd_max \in {t.snd_max, u.snd_nxt}

LEMMA ForwardTrans ==
  ASSUME NEW t \in SendHalves, NEW u \in SendHalves, NEW w, Good(w), Forward(t, u), Forward(u, w)
  PROVE  Forward(t, w)
<1>1. /\ t.snd_nxt \in Nat /\ t.snd_max \in Nat /\ u.snd_nxt \in Nat /\ u.snd_max \in Nat
      /\ w.snd_nxt \in Nat /\ w.snd_max \in Nat /\ w.snd_nxt <= w.snd_max
  BY DEF SendHalves, Good, Ordered
<1> QED
  BY <1>1 DEF Forward

\* utcp_output changes nothing that the caller of an event relies on.
LEMMA OutputKept ==
  ASSUME NEW t, Good(t)
  PROVE  LET u == utcp_output(t)
         IN  Good(u) /\ Kept(t, u) /\ Forward(t, u) /\ (Timed(t) => Timed(u))
<1> DEFINE u == utcp_output(t)
<1>1. /\ Good(u) /\ (Timed(t) => Timed(u))
      /\ u = [t EXCEPT !.out = u.out, !.snd_nxt = u.snd_nxt, !.snd_max = u.snd_max,
                       !.rexmt = u.rexmt]
  BY OutputGood DEF Timed
<1>2. t \in SendHalves /\ t.snd_nxt \in Nat /\ t.snd_max \in Nat /\ burst(t) \in Nat
  BY BurstRange DEF Good, SendHalves
<1>3. Forward(t, u)
  <2>1. u.snd_nxt = t.snd_nxt + burst(t) /\ u.snd_max = MAX(t.snd_max, t.snd_nxt + burst(t))
    BY <1>2 DEF utcp_output, SendHalves
  <2> HIDE DEF u
  <2> QED
    BY <1>2, <2>1 DEF Forward, MAX
<1> HIDE DEF u
<1>4. Kept(t, u)
  BY <1>1, <1>2 DEF Kept, SendHalves
<1> QED
  BY <1>1, <1>3, <1>4 DEF u

\* Written data waits with nothing in flight.
Idle(t) == t.snd_una = t.snd_max /\ t.send_buf_tail > t.send_buf_head

\* After utcp_output, data waits with nothing in flight only on a closed window.
LEMMA OutputNotIdle ==
  ASSUME NEW t, Good(t)
  PROVE  Idle(utcp_output(t)) => utcp_output(t).snd_wnd = 0
<1> DEFINE n == burst(t)
           u == utcp_output(t)
<1>1. t \in SendHalves /\ Ordered(t) /\ Floored(t)
  BY DEF Good
<1>2. /\ t.snd_una \in Nat /\ t.snd_nxt \in Nat /\ t.snd_max \in Nat /\ t.cwnd \in Nat
      /\ t.send_buf_tail \in Nat /\ t.send_buf_head \in Nat /\ t.snd_wnd \in Nat
      /\ MSS \in Nat \ {0}
  BY <1>1, CcAssumption DEF SendHalves
<1>3. u.snd_max = MAX(t.snd_max, t.snd_nxt + n)
  BY <1>1 DEF utcp_output, SendHalves
<1>4. Kept(t, u)
  BY OutputKept
<1>5. n \in Nat
  BY BurstRange
<1> HIDE DEF u, n
<1> SUFFICES ASSUME Idle(u), t.snd_wnd # 0 PROVE FALSE
  BY <1>4 DEF Kept, u
<1>6. n = 0 /\ t.snd_nxt = t.snd_una /\ t.send_buf_tail > t.send_buf_head
  BY <1>1, <1>2, <1>3, <1>4, <1>5 DEF Idle, Kept, MAX, Ordered
<1>7. sendable(t) \in Nat /\ sendable(t) > 0
  <2>1. t.send_buf_tail - (t.snd_nxt - iss - 1) > 0
    BY <1>1, <1>2, <1>6 DEF Ordered, iss
  <2>2. MIN(t.snd_wnd, t.cwnd) \in Nat /\ MIN(t.snd_wnd, t.cwnd) > 0
    BY <1>1, <1>2 DEF MIN, Floored
  <2> QED
    BY <1>2, <1>6, <2>1, <2>2 DEF sendable, buffered_data, MIN, MAX, iss
<1>8. sendable(t) % MSS \in Nat /\ sendable(t) % MSS < MSS
  BY <1>2, <1>7, ModRange
<1> QED
  BY <1>2, <1>6, <1>7, <1>8 DEF burst, n

\* A quotient of a larger number by a smaller one.
LEMMA DivPositive ==
  ASSUME NEW a \in Nat, NEW b \in Nat \ {0}, a >= b PROVE a \div b \in Int /\ a \div b >= 1
  BY SMT

\* From snd_una on, with an open window and something written, utcp_output
\* sends at least a byte.
LEMMA OutputSends ==
  ASSUME NEW t, Good(t), t.snd_nxt = t.snd_una, t.snd_wnd > 0, t.send_buf_tail > t.send_buf_head
  PROVE  \E g \in utcp_output(t).out : g.seq = t.snd_una /\ g.data # <<>>
<1> DEFINE n   == burst(t)
           len == MIN(n - 0 * MSS, MSS)
           g   == Segment(t, t.snd_nxt + 0 * MSS, len)
<1>1. t \in SendHalves /\ Ordered(t) /\ Floored(t)
  BY DEF Good
<1>2. /\ t.snd_una \in Nat /\ t.snd_nxt \in Nat /\ t.cwnd \in Nat /\ t.snd_wnd \in Nat
      /\ t.send_buf_tail \in Nat /\ t.send_buf_head \in Nat /\ MSS \in Nat \ {0}
      /\ SEND_BUF_SIZE \in Nat \ {0} /\ t.send_buf \in [0 .. SEND_BUF_SIZE - 1 -> Nat]
  BY <1>1, CcAssumption, SendAssumption DEF SendHalves
<1>3. n \in Nat /\ n <= t.send_buf_tail - (t.snd_nxt - 1)
  BY BurstRange
<1>4. n > 0
  <2>1. sendable(t) \in Nat /\ sendable(t) > 0
    <3>1. t.send_buf_tail - (t.snd_nxt - iss - 1) > 0
      BY <1>1, <1>2 DEF Ordered, iss
    <3>2. MIN(t.snd_wnd, t.cwnd) \in Nat /\ MIN(t.snd_wnd, t.cwnd) > 0
      BY <1>1, <1>2 DEF MIN, Floored
    <3> QED
      BY <1>2, <3>1, <3>2 DEF sendable, buffered_data, MIN, MAX, iss
  <2>2. sendable(t) % MSS \in Nat /\ sendable(t) % MSS < MSS
    BY <1>2, <2>1, ModRange
  <2> QED
    BY <1>2, <2>1, <2>2 DEF burst
<1>5. utcp_output(t).out
        = t.out \cup {Segment(t, t.snd_nxt + k * MSS, MIN(n - k * MSS, MSS)) :
                        k \in 0 .. (n + MSS - 1) \div MSS - 1}
  BY <1>1 DEF utcp_output, SendHalves
<1> HIDE DEF n
<1>6. 0 \in 0 .. (n + MSS - 1) \div MSS - 1
  <2> DEFINE q == (n + MSS - 1) \div MSS
  <2>1. n + MSS - 1 \in Nat /\ n + MSS - 1 >= MSS
    BY <1>2, <1>3, <1>4
  <2>2. q >= 1 /\ q \in Int
    BY <1>2, <2>1, DivPositive
  <2> QED
    BY <2>2
<1>7. g \in utcp_output(t).out
  BY <1>5, <1>6
<1>8. 0 * MSS = 0
  BY <1>2
<1>9. len \in Nat /\ len > 0 /\ len <= SEND_BUF_SIZE
  <2>1. t.send_buf_tail - (t.snd_nxt - 1) <= SEND_BUF_SIZE
    BY <1>1, <1>2 DEF Ordered
  <2> QED
    BY <1>2, <1>3, <1>4, <1>8, <2>1 DEF MIN
<1> HIDE DEF len
<1>10. g.seq = t.snd_una /\ Len(g.data) = len
  <2>1. t.snd_nxt + 0 * MSS = t.snd_una
    BY <1>2, <1>8
  <2>2. t.snd_una - iss - 1 \in Nat
    BY <1>1, <1>2 DEF Ordered, iss
  <2>3. Len(ring_buf_read(t.send_buf, SEND_BUF_SIZE, t.snd_una - iss - 1, len)) = len
    <3> DEFINE pos  == t.snd_una - iss - 1
               ring == t.send_buf
    <3>1. ring \in [0 .. SEND_BUF_SIZE - 1 -> Nat] /\ SEND_BUF_SIZE \in Nat \ {0}
      BY <1>2
    <3>2. pos \in Nat
      BY <2>2
    <3> HIDE DEF pos, ring
    <3>3. Len(ring_buf_read(ring, SEND_BUF_SIZE, pos, len)) = len
      BY <1>9, <3>1, <3>2, ReadType
    <3> QED
      BY <3>3 DEF pos, ring
  <2> QED
    BY <2>1, <2>3 DEF Segment
<1>11. g.data # <<>>
  BY <1>9, <1>10
<1> QED
  BY <1>7, <1>10, <1>11

\* Performing what congestion control asked for.
LEMMA ApplyGood ==
  ASSUME NEW t \in SendHalves, NEW res, CcResult(t, res)
  PROVE  LET u == apply_cc(res)
         IN  Good(u) /\ Kept(t, u) /\ Forward(t, u) /\ (Timed(t) => Timed(u))
<1> DEFINE v == res.t
<1>1. Good(v) /\ CcOnly(t, v) /\ res.call \in {"none", "retransmit", "output"}
  BY DEF CcResult
<1> HIDE DEF v
<1>2. Kept(t, v) /\ v.rexmt = t.rexmt /\ v.snd_max = t.snd_max /\ v.snd_nxt = t.snd_nxt
  BY <1>1 DEF CcOnly, Kept, SendHalves
<1>7. Forward(t, v) /\ v \in SendHalves
  <2>1. t.snd_nxt \in Nat /\ t.snd_max \in Nat
    BY CcTypes
  <2> QED
    BY <1>1, <1>2, <2>1 DEF Forward, Good
<1>3. Timed(t) => Timed(v)
  BY <1>2 DEF Timed, Kept
<1>4. CASE res.call = "none"
  <2>1. apply_cc(res) = v
    BY <1>4 DEF apply_cc, v
  <2> QED
    BY <1>7, <1>1, <1>2, <1>3, <2>1
<1>5. CASE res.call = "retransmit"
  <2> DEFINE w == utcp_retransmit_segment(v, v.snd_una)
  <2>1. apply_cc(res) = w
    BY <1>5 DEF apply_cc, v
  <2>2. Good(w) /\ w = [v EXCEPT !.out = w.out]
    BY <1>1, RetransmitGood
  <2>3. v \in SendHalves
    BY <1>1 DEF Good
  <2> HIDE DEF w
  <2>4. Kept(v, w) /\ w.rexmt = v.rexmt /\ w.snd_max = v.snd_max /\ w.snd_nxt = v.snd_nxt
    BY <2>2, <2>3 DEF Kept, SendHalves
  <2>5. Timed(v) => Timed(w)
    BY <2>4 DEF Timed, Kept
  <2> QED
    BY <1>7, <1>2, <1>3, <2>1, <2>2, <2>4, <2>5 DEF Kept, Forward
<1>6. CASE res.call = "output"
  <2> DEFINE w == utcp_output(v)
  <2>1. apply_cc(res) = w
    BY <1>6 DEF apply_cc, v
  <2>2. Good(w) /\ Kept(v, w) /\ Forward(v, w) /\ (Timed(v) => Timed(w))
    BY <1>1, OutputKept
  <2> HIDE DEF w
  <2>3. Forward(t, w)
    BY <1>7, <2>2, ForwardTrans
  <2> QED
    BY <1>2, <1>3, <2>1, <2>2, <2>3 DEF Kept
<1> QED
  BY <1>1, <1>4, <1>5, <1>6

\* The timer after an ACK or a timeout, while the shift is inside the table.
LEMMA BackedOff ==
  ASSUME NEW shift \in Nat, NEW in \in Inputs
  PROVE  backed_off(shift, in) \in BOOLEAN /\ (shift <= TCP_MAXRXTSHIFT => backed_off(shift, in))
  BY DEF backed_off, Inputs

\* A new ACK slides the window and keeps a send half good; snd_una = ack after.
LEMMA ProcessAck ==
  ASSUME NEW t, Good(t), NEW ack \in Nat, valid_ack(t, ack), NEW win \in Nat, NEW in \in Inputs
  PROVE  LET u == process_ack(t, ack, win, in)
         IN  /\ Good(u) /\ u.t_rxtshift <= t.t_rxtshift
             /\ u.snd_una = ack /\ u.send_buf_tail = t.send_buf_tail /\ Forward(t, u)
             /\ t.t_rxtshift <= TCP_MAXRXTSHIFT => Timed(u)
             /\ (Truthful(t) => Truthful(u)) /\ Sends(t, u)
<1> DEFINE all_acked == ack = t.snd_max
           shift == IF all_acked THEN 0 ELSE t.t_rxtshift
           nxt   == MAX(t.snd_nxt, ack)
           armed == ~all_acked /\ backed_off(t.t_rxtshift, in)
           v == [t EXCEPT !.snd_una = ack, !.snd_nxt = nxt, !.t_dupacks = 0,
                          !.send_buf_head = @ + (ack - t.snd_una), !.snd_wnd = win,
                          !.rexmt = armed, !.t_rxtshift = shift]
           res == cc_event_ack(v, ack - t.snd_una, in.fired)
           u == process_ack(t, ack, win, in)
<1>1. t \in SendHalves /\ Ordered(t) /\ Floored(t) /\ Recovering(t)
  BY DEF Good
<1>2. /\ t.snd_una \in Nat /\ t.snd_nxt \in Nat /\ t.snd_max \in Nat
      /\ t.send_buf_head \in Nat /\ t.send_buf_tail \in Nat /\ t.t_rxtshift \in 0 .. TCP_MAXRXTSHIFT + 1
      /\ t.recover \in Nat
  BY <1>1 DEF SendHalves
<1>3. ack > t.snd_una /\ ack <= t.snd_max
  BY DEF valid_ack
<1>4. /\ SEND_BUF_SIZE \in Nat /\ TCP_MAXRXTSHIFT \in Nat /\ 0 \in 0 .. DUPACK_MAX
  BY SendAssumption
<1>5. /\ nxt \in Nat /\ ack <= nxt /\ nxt <= t.snd_max /\ t.snd_nxt <= nxt
      /\ shift \in 0 .. TCP_MAXRXTSHIFT + 1 /\ shift <= t.t_rxtshift
      /\ t.send_buf_head + (ack - t.snd_una) \in Nat
      /\ ack - t.snd_una \in Nat \ {0}
  BY <1>1, <1>2, <1>3, <1>4 DEF MAX, Ordered
<1>6. in.fired \in BOOLEAN
  BY DEF Inputs
<1>7. armed \in BOOLEAN /\ (t.t_rxtshift <= TCP_MAXRXTSHIFT => (armed <=> ack # t.snd_max))
  BY <1>2, <1>4, BackedOff
<1>8. u = apply_cc(res)
  BY DEF process_ack
<1> HIDE DEF nxt, shift, armed, u
<1>9. v \in SendHalves
  BY <1>1, <1>4, <1>5, <1>7 DEF SendHalves
<1>10. /\ v.snd_una = ack /\ v.snd_nxt = nxt /\ v.snd_max = t.snd_max
       /\ v.send_buf_head = t.send_buf_head + (ack - t.snd_una)
       /\ v.send_buf_tail = t.send_buf_tail /\ v.rexmt = armed /\ v.t_rxtshift = shift
       /\ v.cwnd = t.cwnd /\ v.ssthresh = t.ssthresh /\ v.ca_state = t.ca_state
       /\ v.recover = t.recover /\ v.cc_ops = t.cc_ops
       /\ v.send_buf = t.send_buf /\ v.out = t.out
  BY <1>1 DEF SendHalves
<1> HIDE DEF v
<1>11. Ordered(v)
  <2>1. v.rexmt => v.snd_una < v.snd_max
    <3>1. v.rexmt => ack # t.snd_max
      BY <1>10 DEF armed
    <3>2. ack # t.snd_max => ack < t.snd_max
      BY <1>2, <1>3
    <3> QED
      BY <1>10, <3>1, <3>2
  <2> QED
    BY <1>1, <1>2, <1>3, <1>4, <1>5, <1>10, <2>1 DEF Ordered
<1>12. Acking(v)
  BY <1>1, <1>9, <1>10, <1>11 DEF Acking, Floored, Recovering
<1>13. CcResult(v, res) /\ (v.cc_ops \in NewRenos => InRecovery(res))
  BY <1>5, <1>6, <1>9, <1>12, AckEventGood, AckInRecovery
<1> HIDE DEF res
<1>14. Good(u) /\ Kept(v, u) /\ Forward(v, u) /\ (Timed(v) => Timed(u))
  BY <1>8, <1>9, <1>13, ApplyGood
<1>15. t.t_rxtshift <= TCP_MAXRXTSHIFT => Timed(v)
  <2>1. ack # t.snd_max <=> ack < t.snd_max
    BY <1>2, <1>3
  <2> QED
    BY <1>7, <1>10, <2>1 DEF Timed
<1>16. Forward(t, u)
  <2>1. Forward(t, v)
    BY <1>2, <1>5, <1>10 DEF Forward
  <2> QED
    BY <1>1, <1>9, <1>14, <2>1, ForwardTrans
<1>17. Truthful(t) => Truthful(v)
  <2>1. \A pos \in v.send_buf_head .. t.send_buf_tail - 1 :
          pos \in t.send_buf_head .. t.send_buf_tail - 1
    BY <1>2, <1>5, <1>10
  <2> QED
    BY <1>10, <2>1 DEF Truthful, Filled, Holds, Carries
<1>18. Truthful(t) => Truthful(u)
  BY <1>8, <1>9, <1>13, <1>17, ApplyTrue
<1>19. Sends(t, u)
  <2>1. Sends(v, u)
    BY <1>8, <1>9, <1>13, ApplySends
  <2>2. \A g \in u.out : g.seq \in Nat
    BY <1>14 DEF Good, SendHalves
  <2>3. \A g \in u.out : v.snd_nxt <= g.seq => t.snd_nxt <= g.seq
    BY <1>2, <1>5, <1>10, <2>2
  <2> QED
    BY <1>10, <2>1, <2>3 DEF Sends
<1> QED
  BY <1>5, <1>10, <1>14, <1>15, <1>16, <1>18, <1>19 DEF Kept, u

\* A new window alone.
LEMMA WindowGood ==
  ASSUME NEW t, Good(t), NEW win \in Nat, NEW dups \in 0 .. DUPACK_MAX
  PROVE  /\ Good([t EXCEPT !.snd_wnd = win]) /\ Good([t EXCEPT !.snd_wnd = win, !.t_dupacks = dups])
<1>1. t \in SendHalves /\ Ordered(t) /\ Floored(t) /\ Recovering(t)
  BY DEF Good
<1>2. /\ [t EXCEPT !.snd_wnd = win] \in SendHalves
      /\ [t EXCEPT !.snd_wnd = win, !.t_dupacks = dups] \in SendHalves
  BY <1>1 DEF SendHalves
<1>3. /\ Ordered([t EXCEPT !.snd_wnd = win]) /\ Floored([t EXCEPT !.snd_wnd = win])
      /\ Recovering([t EXCEPT !.snd_wnd = win])
  BY <1>1 DEF Ordered, Floored, Recovering, SendHalves
<1>4. /\ Ordered([t EXCEPT !.snd_wnd = win, !.t_dupacks = dups])
      /\ Floored([t EXCEPT !.snd_wnd = win, !.t_dupacks = dups])
      /\ Recovering([t EXCEPT !.snd_wnd = win, !.t_dupacks = dups])
  BY <1>1 DEF Ordered, Floored, Recovering, SendHalves
<1> QED
  BY <1>2, <1>3, <1>4 DEF Good

\* What an ACK that slides nothing leaves alone.
Stayed(t, u) ==
  /\ u.snd_una = t.snd_una /\ u.t_rxtshift = t.t_rxtshift
  /\ u.send_buf_head = t.send_buf_head /\ u.send_buf_tail = t.send_buf_tail

\* A duplicate ACK while data is in flight.
LEMMA ProcessDupAck ==
  ASSUME NEW t, Good(t), t.snd_una # t.snd_max, NEW win \in Nat
  PROVE  LET u == process_dup_ack(t, win)
         IN  /\ Good(u) /\ Stayed(t, u) /\ Forward(t, u) /\ (Timed(t) => Timed(u))
             /\ (Truthful(t) => Truthful(u)) /\ Sends(t, u)
<1> DEFINE dups == MIN(t.t_dupacks + 1, DUPACK_MAX)
           v == [t EXCEPT !.snd_wnd = win, !.t_dupacks = dups]
           res == cc_event_dup_ack(v, dups)
           u == process_dup_ack(t, win)
<1>1. t \in SendHalves
  BY DEF Good
<1>2. dups \in 0 .. DUPACK_MAX /\ dups \in Nat
  BY <1>1, CcTypes, SendAssumption DEF MIN
<1>3. u = apply_cc(res)
  BY DEF process_dup_ack
<1> HIDE DEF dups, u
<1>4. Good(v)
  BY <1>2, WindowGood
<1>5. /\ Stayed(t, v) /\ v.snd_max = t.snd_max /\ v.rexmt = t.rexmt /\ v \in SendHalves
      /\ v.snd_nxt = t.snd_nxt /\ SameWire(t, v) /\ v.cc_ops = t.cc_ops
  BY <1>1, <1>2 DEF SendHalves, Stayed, SameWire
<1> HIDE DEF v
<1>6. v.snd_una # v.snd_max /\ (Timed(t) => Timed(v))
  BY <1>5 DEF Stayed, Timed
<1>7. CcResult(v, res) /\ (v.cc_ops \in NewRenos => InRecovery(res))
  BY <1>2, <1>4, <1>5, <1>6, DupAckEventGood, DupInRecovery
<1> HIDE DEF res
<1>8. Good(u) /\ Kept(v, u) /\ Forward(v, u) /\ (Timed(v) => Timed(u))
  BY <1>3, <1>5, <1>7, ApplyGood
<1>9. Truthful(t) => Truthful(u)
  BY <1>3, <1>5, <1>7, SameWireTrue, ApplyTrue
<1>10. Sends(t, u)
  <2>1. Sends(v, u)
    BY <1>3, <1>5, <1>7, ApplySends
  <2> QED
    BY <1>5, <2>1 DEF Sends, SameWire
<1> QED
  BY <1>5, <1>6, <1>8, <1>9, <1>10 DEF Kept, Stayed, Forward, u

\* The acknowledgement part of handle_received_data.  The buffer's head moves
\* only in a branch that wakes the sleepers.
LEMMA HandleAck ==
  ASSUME NEW t, Good(t), NEW ack \in Nat, NEW win \in Nat, NEW has_data \in BOOLEAN,
         NEW in \in Inputs
  PROVE  LET u == handle_ack(t, ack, win, has_data, in)
         IN  /\ Good(u) /\ u.t_rxtshift <= t.t_rxtshift
             /\ t.t_rxtshift <= TCP_MAXRXTSHIFT /\ Timed(t) => Timed(u)
             /\ ack_wakes(t, ack, win) \/ Stayed(t, u)
             /\ u.send_buf_tail = t.send_buf_tail
             /\ Forward(t, u) /\ u.snd_una = IF valid_ack(t, ack) THEN ack ELSE t.snd_una
             /\ (Truthful(t) => Truthful(u)) /\ Sends(t, u)
<1> DEFINE u == handle_ack(t, ack, win, has_data, in)
           P(x) == /\ Good(x) /\ x.t_rxtshift <= t.t_rxtshift
                   /\ t.t_rxtshift <= TCP_MAXRXTSHIFT /\ Timed(t) => Timed(x)
                   /\ ack_wakes(t, ack, win) \/ Stayed(t, x)
                   /\ x.send_buf_tail = t.send_buf_tail
                   /\ Forward(t, x) /\ x.snd_una = IF valid_ack(t, ack) THEN ack ELSE t.snd_una
                   /\ (Truthful(t) => Truthful(x)) /\ Sends(t, x)
<1>1. /\ t \in SendHalves /\ t.t_rxtshift \in Nat /\ t.t_rxtshift <= t.t_rxtshift
      /\ Forward(t, t)
  <2>1. t \in SendHalves /\ t.t_rxtshift \in Nat
    <3>1. t \in SendHalves
      BY DEF Good
    <3>2. t.t_rxtshift \in 0 .. TCP_MAXRXTSHIFT + 1
      BY <3>1 DEF SendHalves
    <3> QED
      BY <3>1, <3>2, SendAssumption
  <2>2. t.snd_nxt \in Nat /\ t.snd_max \in Nat
    BY <2>1, CcTypes
  <2> QED
    BY <2>1, <2>2 DEF Forward
<1>2. CASE valid_ack(t, ack)
  <2> DEFINE w == process_ack(t, ack, win, in)
  <2>1. P(w)
    BY <1>2, ProcessAck DEF ack_wakes
  <2>2. u = w
    <3>1. ack # t.snd_una
      BY <1>1, <1>2, CcTypes DEF valid_ack
    <3> QED
      BY <1>2, <3>1 DEF handle_ack
  <2> QED
    BY <2>1, <2>2
<1>3. CASE ack = t.snd_una /\ win > t.snd_wnd
  <2> DEFINE w == [t EXCEPT !.snd_wnd = win]
  <2>1. Good(w)
    <3>1. 0 \in 0 .. DUPACK_MAX
      BY SendAssumption
    <3> QED
      BY <3>1, WindowGood
  <2>2. /\ w.rexmt = t.rexmt /\ w.snd_max = t.snd_max /\ w.snd_nxt = t.snd_nxt /\ Stayed(t, w)
        /\ SameWire(t, w) /\ Sends(t, w)
    BY <1>1 DEF SendHalves, Stayed, SameWire, Sends
  <2>3. ~valid_ack(t, ack) /\ ~(win <= t.snd_wnd)
    <3>1. t.snd_una \in Nat /\ t.snd_wnd \in Nat
      BY <1>1 DEF SendHalves
    <3> QED
      BY <1>3, <3>1 DEF valid_ack
  <2>4. u = w
    BY <1>3, <2>3 DEF handle_ack
  <2> HIDE DEF w, u
  <2>5. Timed(t) => Timed(w)
    BY <2>2 DEF Timed, Stayed
  <2>6. Truthful(t) => Truthful(w)
    BY <2>2, SameWireTrue
  <2> QED
    BY <1>1, <2>1, <2>2, <2>3, <2>4, <2>5, <2>6 DEF Stayed, Forward, u
<1>4. CASE ack = t.snd_una /\ win <= t.snd_wnd /\ ~has_data /\ t.snd_una # t.snd_max
  <2> DEFINE w == process_dup_ack(t, win)
  <2>1. /\ Good(w) /\ Stayed(t, w) /\ Forward(t, w) /\ (Timed(t) => Timed(w))
        /\ (Truthful(t) => Truthful(w)) /\ Sends(t, w)
    BY <1>4, ProcessDupAck
  <2>2. ~valid_ack(t, ack) /\ ~(win > t.snd_wnd)
    <3>1. t.snd_una \in Nat /\ t.snd_wnd \in Nat
      BY <1>1 DEF SendHalves
    <3> QED
      BY <1>4, <3>1 DEF valid_ack
  <2>3. u = w
    BY <1>4, <2>2 DEF handle_ack
  <2> HIDE DEF w, u
  <2> QED
    BY <1>1, <2>1, <2>2, <2>3 DEF Stayed, u
<1>5. CASE /\ ~valid_ack(t, ack) /\ ~(ack = t.snd_una /\ win > t.snd_wnd)
           /\ ~(ack = t.snd_una /\ win <= t.snd_wnd /\ ~has_data /\ t.snd_una # t.snd_max)
  <2>1. u = t
    BY <1>5 DEF handle_ack
  <2> QED
    BY <1>1, <1>5, <2>1 DEF Stayed, Sends
<1> HIDE DEF u
<1> QED
  BY <1>2, <1>3, <1>4, <1>5 DEF u

\* The timeout: the timer stays armed, for what is still unacknowledged.
LEMMA RexmtTimeoutGood ==
  ASSUME NEW t, Good(t), t.rexmt, NEW in \in Inputs
  PROVE  LET u == rexmt_timeout(t, in)
         IN  /\ Good(u) /\ u.t_rxtshift <= t.t_rxtshift + 1
             /\ u.send_buf_head = t.send_buf_head /\ u.send_buf_tail = t.send_buf_tail
             /\ t.t_rxtshift < TCP_MAXRXTSHIFT /\ Timed(t) => Timed(u)
             /\ u.snd_una = t.snd_una /\ t.snd_max <= u.snd_max
             /\ Idle(u) => u.snd_wnd = 0
             /\ Truthful(t) => Truthful(u)
             /\ t.ca_state \in {"RECOVERY", "LOSS"} => u.ssthresh <= t.ssthresh
             /\ t.snd_wnd > 0 => \E g \in u.out : g.seq = t.snd_una /\ g.data # <<>>
             /\ u.cc_ops = t.cc_ops
             /\ \A g \in u.out : g \in t.out \/ (g.seq < u.snd_nxt /\ g.data # <<>>)
<1> DEFINE shift == MIN(t.t_rxtshift + 1, TCP_MAXRXTSHIFT + 1)
           armed == backed_off(shift, in)
           v == [t EXCEPT !.t_rxtshift = shift, !.rexmt = armed, !.snd_nxt = t.snd_una]
           w == cc_event_timeout(v, t.snd_nxt - t.snd_una)
           u == rexmt_timeout(t, in)
<1>1. t \in SendHalves /\ Ordered(t) /\ Floored(t)
  BY DEF Good
<1>2. /\ t.t_rxtshift \in Nat /\ t.snd_nxt - t.snd_una \in Nat /\ TCP_MAXRXTSHIFT \in Nat
  <2>1. t.t_rxtshift \in 0 .. TCP_MAXRXTSHIFT + 1 /\ TCP_MAXRXTSHIFT \in Nat
    BY <1>1, SendAssumption DEF SendHalves
  <2>2. t.snd_nxt - t.snd_una \in Nat
    BY <1>1, CcTypes DEF Ordered
  <2> QED
    BY <2>1, <2>2
<1>3. /\ shift \in 0 .. TCP_MAXRXTSHIFT + 1 /\ shift \in Nat /\ shift <= t.t_rxtshift + 1
      /\ t.t_rxtshift < TCP_MAXRXTSHIFT => shift <= TCP_MAXRXTSHIFT
  BY <1>2 DEF MIN
<1>4. armed \in BOOLEAN /\ (t.t_rxtshift < TCP_MAXRXTSHIFT => armed)
  BY <1>3, BackedOff
<1>5. u = utcp_output(w)
  BY DEF rexmt_timeout
<1> HIDE DEF shift, armed, u
<1>6. v \in SendHalves
  BY <1>1, <1>3, <1>4 DEF SendHalves
<1>7. /\ v.snd_una = t.snd_una /\ v.snd_nxt = t.snd_una /\ v.snd_max = t.snd_max
      /\ v.send_buf_head = t.send_buf_head /\ v.send_buf_tail = t.send_buf_tail
      /\ v.cwnd = t.cwnd /\ v.ssthresh = t.ssthresh /\ v.rexmt = armed
      /\ v.t_rxtshift = shift /\ v.ca_state = t.ca_state /\ v.snd_wnd = t.snd_wnd
      /\ SameWire(t, v) /\ v.cc_ops = t.cc_ops
  BY <1>1 DEF SendHalves, SameWire
<1> HIDE DEF v
<1>8. Ordered(v) /\ Floored(v)
  <2>1. t.snd_una < t.snd_max
    BY <1>1 DEF Ordered
  <2> QED
    BY <1>1, <1>7, <2>1, CcTypes DEF Ordered, Floored
<1>9. /\ Good(w) /\ CcOnly(v, w)
      /\ v.ca_state \in {"RECOVERY", "LOSS"} => w.ssthresh <= v.ssthresh
  BY <1>2, <1>6, <1>8, TimeoutEventGood
<1> HIDE DEF w
<1>10. Kept(v, w) /\ w.rexmt = v.rexmt /\ w.snd_max = v.snd_max /\ w.snd_nxt = v.snd_nxt
  BY <1>6, <1>9 DEF CcOnly, Kept, SendHalves
<1>11. /\ Good(u) /\ Kept(w, u) /\ (Timed(w) => Timed(u)) /\ (Idle(u) => u.snd_wnd = 0)
       /\ Forward(w, u)
  BY <1>5, <1>9, OutputKept, OutputNotIdle
<1>12. t.t_rxtshift < TCP_MAXRXTSHIFT /\ Timed(t) => Timed(w)
  BY <1>4, <1>7, <1>10 DEF Timed, Kept
<1>13. Truthful(t) => Truthful(u)
  BY <1>5, <1>6, <1>7, <1>9, SameWireTrue, CcOnlyWire, OutputTrue
<1>14. t.ca_state \in {"RECOVERY", "LOSS"} => u.ssthresh <= t.ssthresh
  <2>1. u = [w EXCEPT !.out = u.out, !.snd_nxt = u.snd_nxt, !.snd_max = u.snd_max,
                      !.rexmt = u.rexmt]
    BY <1>5, <1>9, OutputGood
  <2>2. u.ssthresh = w.ssthresh
    BY <1>9, <2>1 DEF Good, SendHalves
  <2> QED
    BY <1>7, <1>9, <2>2
<1>15. ASSUME t.snd_wnd > 0 PROVE \E g \in u.out : g.seq = t.snd_una /\ g.data # <<>>
  <2>1. w.snd_nxt = w.snd_una /\ w.snd_una = t.snd_una /\ w.snd_wnd > 0
    BY <1>7, <1>10, <1>15 DEF Kept
  <2>2. w.send_buf_tail > w.send_buf_head
    <3>1. /\ t.snd_una \in Nat /\ t.snd_max \in Nat /\ t.send_buf_tail \in Nat
          /\ t.snd_una < t.snd_max /\ t.snd_max <= t.send_buf_tail + 1
          /\ t.send_buf_head = t.snd_una - 1
      BY <1>1 DEF Ordered, SendHalves
    <3>2. w.send_buf_tail = t.send_buf_tail /\ w.send_buf_head = t.send_buf_head
      BY <1>7, <1>10 DEF Kept
    <3> QED
      BY <3>1, <3>2
  <2> QED
    BY <1>5, <1>9, <2>1, <2>2, OutputSends
<1>16. u.cc_ops = t.cc_ops /\ \A g \in u.out : g \in t.out \/ (g.seq < u.snd_nxt /\ g.data # <<>>)
  <2>1. u.cc_ops = w.cc_ops /\ \A g \in u.out : g \in w.out \/ (g.seq < u.snd_nxt /\ g.data # <<>>)
    BY <1>5, <1>9, OutputSent DEF Onward
  <2>2. w.cc_ops = v.cc_ops /\ w.out = v.out
    BY <1>6, <1>9 DEF CcOnly, SendHalves
  <2> QED
    BY <1>7, <2>1, <2>2 DEF SameWire
<1> QED
  BY <1>3, <1>7, <1>10, <1>11, <1>12, <1>13, <1>14, <1>15, <1>16 DEF Kept, Forward, u

\* utcp_send's copy, when there is room for it.
LEMMA AppendGood ==
  ASSUME NEW t, Good(t), NEW data \in Seq(Nat), Len(data) <= send_free_space(t)
  PROVE  LET u == append(t, data)
         IN  /\ Good(u) /\ u.send_buf_head = t.send_buf_head
             /\ u.send_buf_tail = t.send_buf_tail + Len(data)
             /\ u.t_rxtshift = t.t_rxtshift /\ (Timed(t) => Timed(u))
             /\ u.snd_una = t.snd_una /\ Forward(t, u)
             /\ Idle(u) => u.snd_wnd = 0
             /\ Truthful(t) /\ (\A k \in 1 .. Len(data) : data[k] = t.send_buf_tail + k)
                  => Truthful(u)
             /\ Onward(t, u)
<1> DEFINE ring == ring_buf_write(t.send_buf, SEND_BUF_SIZE, t.send_buf_tail, data)
           tail == t.send_buf_tail + Len(data)
           v == [t EXCEPT !.send_buf = ring, !.send_buf_tail = tail]
           u == append(t, data)
<1>1. t \in SendHalves /\ Ordered(t) /\ Floored(t) /\ Recovering(t)
  BY DEF Good
<1>2. /\ SEND_BUF_SIZE \in Nat \ {0} /\ t.send_buf \in [0 .. SEND_BUF_SIZE - 1 -> Nat]
      /\ t.send_buf_tail \in Nat /\ t.send_buf_head \in Nat /\ Len(data) \in Nat
  BY <1>1, SendAssumption DEF SendHalves
<1>3. ring \in [0 .. SEND_BUF_SIZE - 1 -> Nat]
  BY <1>2, WriteType
<1>4. u = utcp_output(v)
  BY DEF append
<1>5. /\ tail \in Nat /\ tail - t.send_buf_head <= SEND_BUF_SIZE
      /\ t.snd_max <= tail + 1
  <2>1. t.snd_max \in Nat /\ t.snd_max <= t.send_buf_tail + 1
    BY <1>1, CcTypes DEF Ordered
  <2>2. Len(data) <= SEND_BUF_SIZE - (t.send_buf_tail - t.send_buf_head)
    BY DEF send_free_space
  <2>3. Len(data) \in Nat
    OBVIOUS
  <2>4. \A n, h, l, m \in Nat : l <= SEND_BUF_SIZE - (n - h) /\ m <= n + 1
           => n + l \in Nat /\ (n + l) - h <= SEND_BUF_SIZE /\ m <= (n + l) + 1
    BY <1>2
  <2> QED
    BY <1>2, <2>1, <2>2, <2>3, <2>4
<1> HIDE DEF ring, u, tail
<1>6. v \in SendHalves
  BY <1>1, <1>3, <1>5 DEF SendHalves
<1>7. /\ v.snd_una = t.snd_una /\ v.snd_nxt = t.snd_nxt /\ v.snd_max = t.snd_max
      /\ v.send_buf_head = t.send_buf_head /\ v.send_buf_tail = tail
      /\ v.cwnd = t.cwnd /\ v.ssthresh = t.ssthresh /\ v.rexmt = t.rexmt
      /\ v.t_rxtshift = t.t_rxtshift /\ v.ca_state = t.ca_state /\ v.cc_ops = t.cc_ops
      /\ v.recover = t.recover /\ v.send_buf = ring /\ v.out = t.out
  BY <1>1 DEF SendHalves
<1> HIDE DEF v
<1>8. Ordered(v)
  BY <1>1, <1>5, <1>7 DEF Ordered
<1>9. Good(v) /\ (Timed(t) => Timed(v))
  BY <1>1, <1>6, <1>7, <1>8 DEF Good, Floored, Recovering, Timed
<1>10. /\ Good(u) /\ Kept(v, u) /\ (Timed(v) => Timed(u)) /\ (Idle(u) => u.snd_wnd = 0)
       /\ Forward(v, u)
  BY <1>4, <1>9, OutputKept, OutputNotIdle
<1>11. ASSUME Truthful(t), \A k \in 1 .. Len(data) : data[k] = t.send_buf_tail + k
       PROVE  Truthful(u)
  <2>1. Holds(ring, SEND_BUF_SIZE, t.send_buf_head, tail)
    <3> DEFINE from == t.send_buf_head
               to == t.send_buf_tail
               old == t.send_buf
    <3>1. from <= to
      <4>1. /\ t.snd_una \in Nat /\ t.snd_nxt \in Nat /\ t.snd_max \in Nat
            /\ t.send_buf_tail \in Nat /\ t.send_buf_head = t.snd_una - 1
            /\ t.snd_una <= t.snd_nxt /\ t.snd_nxt <= t.snd_max
            /\ t.snd_max <= t.send_buf_tail + 1
        BY <1>1 DEF Ordered, SendHalves
      <4> QED
        BY <4>1
    <3>2. to + Len(data) - from <= SEND_BUF_SIZE
      BY <1>2, <1>5 DEF tail
    <3>3. Holds(old, SEND_BUF_SIZE, from, to)
      BY <1>11 DEF Truthful, Filled
    <3>4. \A k \in 1 .. Len(data) : data[k] = to + k
      BY <1>11
    <3>5. /\ from \in Nat /\ to \in Nat /\ SEND_BUF_SIZE \in Nat \ {0}
          /\ old \in [0 .. SEND_BUF_SIZE - 1 -> Nat]
      BY <1>2
    <3>6. ring = ring_buf_write(old, SEND_BUF_SIZE, to, data) /\ tail = to + Len(data)
      BY DEF ring, tail
    <3> HIDE DEF from, to, old
    <3>7. Holds(ring, SEND_BUF_SIZE, from, tail)
      BY <3>1, <3>2, <3>3, <3>4, <3>5, <3>6, WriteHolds
    <3> QED
      BY <3>7 DEF from
  <2>2. \A g \in v.out : Carries(v, g)
    <3> SUFFICES ASSUME NEW g \in t.out PROVE Carries(v, g)
      BY <1>7
    <3>1. Carries(t, g) /\ g.seq \in Nat /\ Len(g.data) \in Nat
      BY <1>1, <1>11 DEF Truthful, SendHalves
    <3>2. t.send_buf_tail <= tail
      BY <1>2 DEF tail
    <3> QED
      BY <1>2, <1>5, <1>7, <3>1, <3>2 DEF Carries
  <2>3. Truthful(v)
    BY <1>7, <2>1, <2>2 DEF Truthful, Filled
  <2> QED
    BY <1>4, <1>9, <2>3, OutputTrue
<1>12. Onward(t, u)
  BY <1>4, <1>7, <1>9, OutputSent DEF Onward
<1> QED
  BY <1>7, <1>9, <1>10, <1>11, <1>12 DEF Kept, Forward, u, tail

-----------------------------------------------------------------------------
\* The inductive invariant.  The application sleeps with nothing left to write
\* only in utcp_drain; the backoff shift respects the bound of the model.

AppInv ==
  /\ app \in [todo : Nat, left : Nat, asleep : BOOLEAN, draining : BOOLEAN]
  /\ NoLostWakeup
  /\ app.asleep /\ app.left = 0 => app.draining

SendInv == Good(s) /\ AppInv /\ s.t_rxtshift <= MaxShift

\* Clearing the record of sent segments changes nothing else.
LEMMA QuietGood ==
  ASSUME Good(s)
  PROVE  /\ Good(quiet) /\ Kept(s, quiet) /\ quiet.rexmt = s.rexmt
         /\ (Timed(s) <=> Timed(quiet))
         /\ \A ack, win : ack_wakes(quiet, ack, win) <=> ack_wakes(s, ack, win)
<1>1. s \in SendHalves /\ Ordered(s) /\ Floored(s) /\ Recovering(s)
  BY DEF Good
<1>2. /\ quiet.snd_una = s.snd_una /\ quiet.snd_nxt = s.snd_nxt /\ quiet.snd_max = s.snd_max
      /\ quiet.send_buf_head = s.send_buf_head /\ quiet.send_buf_tail = s.send_buf_tail
      /\ quiet.cwnd = s.cwnd /\ quiet.ssthresh = s.ssthresh /\ quiet.rexmt = s.rexmt
      /\ quiet.t_rxtshift = s.t_rxtshift /\ quiet.ca_state = s.ca_state
      /\ quiet.cc_ops = s.cc_ops /\ quiet.recover = s.recover /\ quiet.snd_wnd = s.snd_wnd
      /\ quiet \in SendHalves
  BY <1>1 DEF quiet, SendHalves
<1> QED
  BY <1>1, <1>2 DEF Good, Ordered, Floored, Recovering, Kept, Timed, ack_wakes, valid_ack

\* The invariant holds when the connection is established.
LEMMA InitInv == Init => SendInv /\ Timed(s)
<1> SUFFICES ASSUME Init PROVE SendInv /\ Timed(s)
  OBVIOUS
<1>1. PICK cc \in CcChoices, win \in Windows :
        s = cc_event_init(
             [snd_una |-> 1, snd_nxt |-> 1, snd_max |-> 1, snd_wnd |-> win,
              cwnd |-> 0, ssthresh |-> 0, ca_state |-> "OPEN", t_dupacks |-> 0,
              recover |-> 0, cc_ops |-> cc, rexmt |-> FALSE, t_rxtshift |-> 0,
              send_buf |-> EmptyRing(SEND_BUF_SIZE),
              send_buf_head |-> 0, send_buf_tail |-> 0, out |-> {}])
  BY DEF Init
<1> DEFINE ring == EmptyRing(SEND_BUF_SIZE)
<1>2. s = [snd_una |-> 1, snd_nxt |-> 1, snd_max |-> 1, snd_wnd |-> win,
           cwnd |-> MSS * IW, ssthresh |-> SSTHRESH_INIT, ca_state |-> "OPEN", t_dupacks |-> 0,
           recover |-> 0, cc_ops |-> cc, rexmt |-> FALSE, t_rxtshift |-> 0,
           send_buf |-> ring, send_buf_head |-> 0, send_buf_tail |-> 0, out |-> {}]
  BY <1>1 DEF cc_event_init, cc_init
<1>3. ring \in [0 .. SEND_BUF_SIZE - 1 -> Nat]
  BY DEF EmptyRing
<1>4. /\ win \in Nat /\ cc \in CcAlgorithms /\ MSS * IW \in Nat /\ MSS * IW >= MSS
      /\ SSTHRESH_INIT \in Nat /\ SSTHRESH_INIT >= 2 * MSS /\ "OPEN" \in CaStates
  <2>1. MSS * IW \in Nat /\ MSS * IW >= MSS
    BY CcAssumption, SMT
  <2> QED
    BY <2>1, CcAssumption, SenderAssumption DEF CaStates
<1>5. /\ 0 \in 0 .. DUPACK_MAX /\ 0 \in 0 .. TCP_MAXRXTSHIFT + 1 /\ SEND_BUF_SIZE \in Nat
      /\ MaxShift \in Nat
  BY SendAssumption, SenderAssumption
<1> HIDE DEF ring
<1>6. s \in SendHalves
  BY <1>2, <1>3, <1>4, <1>5 DEF SendHalves
<1>7. Ordered(s) /\ Floored(s) /\ Recovering(s) /\ Timed(s) /\ s.t_rxtshift <= MaxShift
  BY <1>2, <1>4, <1>5 DEF Ordered, Floored, Recovering, Timed
<1>8. AppInv
  BY SenderAssumption DEF Init, AppInv, NoLostWakeup
<1> QED
  BY <1>6, <1>7, <1>8 DEF SendInv, Good

\* Every action keeps the invariant, and the timer right while the shift stays
\* within tcp_backoff.
LEMMA StepInv ==
  ASSUME SendInv, [Next]_vars
  PROVE  SendInv' /\ (MaxShift <= TCP_MAXRXTSHIFT /\ Timed(s) => Timed(s)')
<1>1. /\ Good(s) /\ AppInv /\ s.t_rxtshift <= MaxShift
      /\ s.t_rxtshift \in Nat /\ MaxShift \in Nat /\ TCP_MAXRXTSHIFT \in Nat
      /\ s.send_buf_head \in Nat /\ s.send_buf_tail \in Nat /\ SEND_BUF_SIZE \in Nat
      /\ s.send_buf_tail - s.send_buf_head <= SEND_BUF_SIZE
  <2>1. Good(s) /\ AppInv /\ s.t_rxtshift <= MaxShift
    BY DEF SendInv
  <2>2. s \in SendHalves /\ Ordered(s)
    BY <2>1 DEF Good
  <2>3. /\ s.t_rxtshift \in 0 .. TCP_MAXRXTSHIFT + 1
        /\ s.send_buf_head \in Nat /\ s.send_buf_tail \in Nat
    BY <2>2 DEF SendHalves
  <2>4. s.send_buf_tail - s.send_buf_head <= SEND_BUF_SIZE
    BY <2>2 DEF Ordered
  <2> QED
    BY <2>1, <2>3, <2>4, SendAssumption, SenderAssumption
<1>2. /\ Good(quiet) /\ Kept(s, quiet) /\ quiet.rexmt = s.rexmt
      /\ (Timed(s) <=> Timed(quiet))
      /\ \A ack, win : ack_wakes(quiet, ack, win) <=> ack_wakes(s, ack, win)
  BY <1>1, QuietGood
<1>3. app \in [todo : Nat, left : Nat, asleep : BOOLEAN, draining : BOOLEAN]
  BY <1>1 DEF AppInv
<1>5. CASE WriteChunk
  <2> DEFINE n == MIN(app.left, send_free_space(s))
             data == Stream(s.send_buf_tail + 1, n)
  <2>1. /\ app.left \in Nat /\ app.left > 0
        /\ app' = [app EXCEPT !.left = @ - n, !.asleep = n < app.left]
        /\ s' = IF n = 0 THEN quiet ELSE append(quiet, data)
    BY <1>3, <1>5 DEF WriteChunk
  <2>2. send_free_space(s) \in Nat /\ send_free_space(quiet) = send_free_space(s)
    BY <1>1, <1>2 DEF send_free_space, Kept
  <2>3. n \in Nat /\ n <= send_free_space(s) /\ n <= app.left
        /\ (n < app.left => n = send_free_space(s))
    BY <2>1, <2>2 DEF MIN
  <2> HIDE DEF n
  <2>4. data \in Seq(Nat) /\ Len(data) = n
    BY <1>1, <2>3 DEF Stream
  <2> HIDE DEF data
  <2>5. /\ Good(s)' /\ s'.send_buf_head = s.send_buf_head
        /\ s'.send_buf_tail = s.send_buf_tail + n
        /\ s'.t_rxtshift = s.t_rxtshift /\ (Timed(s) => Timed(s)')
    <3>1. CASE n = 0
      BY <1>1, <1>2, <2>1, <3>1 DEF Kept
    <3>2. CASE n # 0
      <4> DEFINE u == append(quiet, data)
      <4>1. s' = u
        BY <2>1, <3>2
      <4>2. /\ Good(u) /\ u.send_buf_head = quiet.send_buf_head
            /\ u.send_buf_tail = quiet.send_buf_tail + Len(data)
            /\ u.t_rxtshift = quiet.t_rxtshift /\ (Timed(quiet) => Timed(u))
        BY <1>2, <2>2, <2>3, <2>4, AppendGood
      <4> HIDE DEF u
      <4> QED
        BY <1>2, <2>4, <4>1, <4>2 DEF Kept, Timed
    <3> QED
      BY <3>1, <3>2
  <2>6. /\ app' \in [todo : Nat, left : Nat, asleep : BOOLEAN, draining : BOOLEAN]
        /\ app'.left = app.left - n /\ app'.asleep = (n < app.left)
    <3>1. app.left - n \in Nat /\ (n < app.left) \in BOOLEAN
      BY <2>1, <2>3
    <3> QED
      BY <1>3, <2>1, <3>1
  <2>7. NoLostWakeup' /\ (app'.asleep => app'.left # 0)
    <3> SUFFICES ASSUME app'.asleep
                 PROVE  app'.left > 0 /\ send_free_space(s)' = 0
      BY <2>6 DEF NoLostWakeup
    <3>1. n < app.left /\ n = send_free_space(s)
      BY <2>3, <2>6
    <3> QED
      BY <1>1, <2>1, <2>3, <2>5, <2>6, <3>1 DEF send_free_space
  <2> QED
    BY <1>1, <2>5, <2>6, <2>7 DEF SendInv, AppInv
<1>6. ASSUME NEW len \in 1 .. ChunkMax, SendCall(len)
      PROVE  SendInv' /\ (Timed(s) => Timed(s)')
  <2>1. /\ s' = quiet /\ app.left = 0 /\ ~app.draining /\ len <= app.todo
        /\ app' = [app EXCEPT !.todo = @ - len, !.left = len]
    BY <1>6 DEF SendCall
  <2>2. ~app.asleep /\ len \in Nat
    BY <1>1, <2>1, SenderAssumption DEF AppInv
  <2>3. app' \in [todo : Nat, left : Nat, asleep : BOOLEAN, draining : BOOLEAN]
        /\ ~app'.asleep
    <3>1. app.todo - len \in Nat
      BY <1>3, <2>1, <2>2
    <3> QED
      BY <1>3, <2>1, <2>2, <3>1
  <2> QED
    BY <1>1, <1>2, <2>1, <2>3 DEF SendInv, AppInv, NoLostWakeup, Kept, Timed
<1>7. CASE Drain
  <2>1. /\ s' = quiet /\ app.left = 0
        /\ app' = [app EXCEPT !.draining = TRUE,
                              !.asleep = s.send_buf_head # s.send_buf_tail]
    BY <1>7 DEF Drain
  <2>2. /\ app' \in [todo : Nat, left : Nat, asleep : BOOLEAN, draining : BOOLEAN]
        /\ app'.left = 0 /\ app'.draining
        /\ app'.asleep = (s.send_buf_head # s.send_buf_tail)
    BY <1>3, <2>1
  <2> QED
    BY <1>1, <1>2, <2>1, <2>2 DEF SendInv, AppInv, NoLostWakeup, Kept, Timed
<1>8. ASSUME NEW ack \in Acks, NEW win \in Windows, NEW in \in Inputs,
             NEW has_data \in BOOLEAN,
             \/ s' = utcp_output(handle_ack(quiet, ack, win, has_data, in))
             \/ s' = handle_ack(quiet, ack, win, has_data, in),
             app' = [app EXCEPT !.asleep = @ /\ ~wakes(ack, win)]
      PROVE  SendInv' /\ (MaxShift <= TCP_MAXRXTSHIFT /\ Timed(s) => Timed(s)')
  <2> DEFINE h == handle_ack(quiet, ack, win, has_data, in)
  <2>1. ack \in Nat /\ win \in Nat
    BY <1>1, SenderAssumption DEF Acks
  <2>2. /\ Good(h) /\ h.t_rxtshift <= quiet.t_rxtshift
        /\ quiet.t_rxtshift <= TCP_MAXRXTSHIFT /\ Timed(quiet) => Timed(h)
        /\ ack_wakes(quiet, ack, win) \/ Stayed(quiet, h)
    BY <1>2, <2>1, HandleAck
  <2>3. h.t_rxtshift \in Nat
    BY <2>2, SendAssumption DEF Good, SendHalves
  <2> HIDE DEF h
  <2>4. /\ Good(s)' /\ s'.t_rxtshift = h.t_rxtshift
        /\ s'.send_buf_head = h.send_buf_head /\ s'.send_buf_tail = h.send_buf_tail
        /\ (Timed(h) => Timed(s)')
    <3>1. CASE s' = h
      BY <2>2, <3>1 DEF Timed
    <3>2. CASE s' = utcp_output(h)
      <4>1. Good(s)' /\ Kept(h, s') /\ (Timed(h) => Timed(s)')
        BY <2>2, <3>2, OutputKept DEF Timed
      <4> QED
        BY <4>1 DEF Kept
    <3> QED
      BY <1>8, <3>1, <3>2 DEF h
  <2>5. s'.t_rxtshift <= MaxShift
    BY <1>1, <1>2, <2>2, <2>3, <2>4 DEF Kept
  <2>6. /\ app' \in [todo : Nat, left : Nat, asleep : BOOLEAN, draining : BOOLEAN]
        /\ app'.left = app.left /\ app'.draining = app.draining
        /\ app'.asleep => app.asleep /\ ~ack_wakes(s, ack, win)
    BY <1>3, <1>8 DEF wakes
  <2>7. app'.asleep => s'.send_buf_head = s.send_buf_head /\ s'.send_buf_tail = s.send_buf_tail
    BY <1>2, <2>2, <2>4, <2>6 DEF Stayed, Kept
  <2>8. AppInv'
    BY <1>1, <2>6, <2>7 DEF AppInv, NoLostWakeup, send_free_space
  <2>9. MaxShift <= TCP_MAXRXTSHIFT /\ Timed(s) => Timed(s)'
    <3>1. MaxShift <= TCP_MAXRXTSHIFT => quiet.t_rxtshift <= TCP_MAXRXTSHIFT
      BY <1>1, <1>2 DEF Kept
    <3> QED
      BY <1>2, <2>2, <2>4, <3>1
  <2> QED
    BY <2>4, <2>5, <2>8, <2>9 DEF SendInv
<1>9. ASSUME NEW in \in Inputs, Timeout(in)
      PROVE  SendInv' /\ (MaxShift <= TCP_MAXRXTSHIFT /\ Timed(s) => Timed(s)')
  <2> DEFINE u == rexmt_timeout(quiet, in)
  <2>1. s' = u /\ app' = app /\ s.rexmt /\ s.t_rxtshift < MaxShift
    BY <1>9 DEF Timeout
  <2>2. /\ Good(u) /\ u.t_rxtshift <= quiet.t_rxtshift + 1
        /\ u.send_buf_head = quiet.send_buf_head /\ u.send_buf_tail = quiet.send_buf_tail
        /\ quiet.t_rxtshift < TCP_MAXRXTSHIFT /\ Timed(quiet) => Timed(u)
    BY <1>2, <2>1, RexmtTimeoutGood
  <2>3. u.t_rxtshift \in Nat
    BY <2>2, SendAssumption DEF Good, SendHalves
  <2> HIDE DEF u
  <2>4. s'.t_rxtshift <= MaxShift
    BY <1>1, <1>2, <2>1, <2>2, <2>3 DEF Kept
  <2>5. AppInv'
    BY <1>1, <1>2, <2>1, <2>2 DEF AppInv, NoLostWakeup, send_free_space, Kept
  <2>6. MaxShift <= TCP_MAXRXTSHIFT /\ Timed(s) => Timed(s)'
    <3>1. MaxShift <= TCP_MAXRXTSHIFT => quiet.t_rxtshift < TCP_MAXRXTSHIFT
      BY <1>1, <1>2, <2>1 DEF Kept
    <3> QED
      BY <1>2, <2>1, <2>2, <3>1 DEF Timed
  <2> QED
    BY <2>1, <2>2, <2>4, <2>5, <2>6 DEF SendInv
<1>10. CASE UNCHANGED vars
  BY <1>1, <1>10 DEF vars, SendInv, Good, AppInv, NoLostWakeup, send_free_space, Timed
<1>11. ASSUME NEW ack \in Acks, NEW win \in Windows, NEW in \in Inputs,
              \/ \E has_data \in BOOLEAN : RecvAck(ack, win, has_data, in)
              \/ RecvAckDropped(ack, win, in)
       PROVE  SendInv' /\ (MaxShift <= TCP_MAXRXTSHIFT /\ Timed(s) => Timed(s)')
  BY <1>8, <1>11 DEF RecvAck, RecvAckDropped
<1> QED
  BY <1>5, <1>6, <1>7, <1>9, <1>10, <1>11 DEF Next

\* The inductive invariant holds in every reachable state.
THEOREM Invariance == Spec => []SendInv
<1>1. Init => SendInv
  BY InitInv
<1>2. SendInv /\ [Next]_vars => SendInv'
  BY StepInv
<1> QED
  BY <1>1, <1>2, PTL DEF Spec

\* Every field of the send half stays in its range, in particular the buffer
\* holds bytes, t_dupacks stops at its limit and every segment sent is built
\* from bytes of the buffer.
THEOREM SenderTypes == Spec => []TypeOK
<1>1. SendInv => TypeOK
  BY DEF SendInv, Good, AppInv, TypeOK
<1> QED
  BY <1>1, Invariance, PTL

\* snd_una, snd_nxt, snd_max and the buffer stay ordered through timeouts, late
\* ACKs, fast retransmits and blocked writes: nothing is counted acknowledged
\* that was not sent, and nothing unacknowledged leaves the buffer.
THEOREM SendSequence == Spec => []SeqSpace
<1>1. SendInv => SeqSpace
  BY DEF SendInv, Good, Ordered, SeqSpace
<1> QED
  BY <1>1, Invariance, PTL

\* No algorithm's reaction to any sequence of events takes cwnd below a segment
\* or ssthresh below two.
THEOREM WindowsKeepFloor == Spec => []WindowFloor
<1>1. SendInv => WindowFloor
  BY DEF SendInv, Good, Floored, WindowFloor
<1> QED
  BY <1>1, Invariance, PTL

\* NewReno's recovery always has its end ahead.
THEOREM RecoveryPointAhead == Spec => []RecoveryEnds
<1>1. SendInv => RecoveryEnds
  BY DEF SendInv, Good, Recovering, RecoveryEnds
<1> QED
  BY <1>1, Invariance, PTL

\* utcp_send and utcp_drain sleep only while they have to.
THEOREM WakeupsNotLost == Spec => []NoLostWakeup
<1>1. SendInv => NoLostWakeup
  BY DEF SendInv, AppInv
<1> QED
  BY <1>1, Invariance, PTL

\* As long as no timeout takes the shift past tcp_backoff, data is in flight
\* exactly when the retransmission timer runs.
THEOREM TimerCoversFlight ==
  ASSUME MaxShift <= TCP_MAXRXTSHIFT PROVE Spec => []InFlightTimed
<1>1. Init => SendInv /\ Timed(s)
  BY InitInv
<1>2. SendInv /\ Timed(s) /\ [Next]_vars => SendInv' /\ Timed(s)'
  BY StepInv
<1>3. Timed(s) => InFlightTimed
  BY DEF Timed, InFlightTimed
<1> QED
  BY <1>1, <1>2, <1>3, PTL DEF Spec

-----------------------------------------------------------------------------
\* Written data is not left behind

\* The free space of send_buf that utcp_send computes does not wrap.
LEMMA FreeSpace == ASSUME Good(s) PROVE send_free_space(s) \in Nat
<1>1. s \in SendHalves /\ s.send_buf_tail - s.send_buf_head <= SEND_BUF_SIZE
  BY DEF Good, Ordered
<1>2. s.send_buf_tail \in Nat /\ s.send_buf_head \in Nat /\ SEND_BUF_SIZE \in Nat
  BY <1>1, SendAssumption DEF SendHalves
<1> QED
  BY <1>1, <1>2 DEF send_free_space

\* Every step but a dropped reply leaves the data sent, in flight, or waiting
\* on a closed window.
LEMMA StepNotIdle ==
  ASSUME SendInv, NoIdleData, ~ReplyDropped, [Next]_vars PROVE NoIdleData'
<1>1. Good(s) /\ Good(quiet) /\ Kept(s, quiet) /\ s \in SendHalves /\ app.left \in Nat
  BY QuietGood DEF SendInv, Good, AppInv
<1>2. quiet.snd_max = s.snd_max
  BY <1>1 DEF quiet, SendHalves
<1>3. ASSUME s' = quiet \/ s' = s PROVE NoIdleData'
  BY <1>1, <1>2, <1>3 DEF NoIdleData, Kept
<1>4. ASSUME NEW t, Good(t), s' = utcp_output(t) PROVE NoIdleData'
  BY <1>4, OutputNotIdle DEF NoIdleData, Idle
<1>5. CASE WriteChunk
  <2> DEFINE n == MIN(app.left, send_free_space(s))
             data == Stream(s.send_buf_tail + 1, n)
  <2>1. CASE n = 0
    BY <1>3, <1>5, <2>1 DEF WriteChunk
  <2>2. CASE n # 0
    <3>1. s' = append(quiet, data)
      BY <1>5, <2>2 DEF WriteChunk
    <3>2. send_free_space(s) \in Nat /\ send_free_space(quiet) = send_free_space(s)
      BY <1>1, FreeSpace DEF send_free_space, Kept
    <3>3. n \in Nat /\ n <= send_free_space(quiet)
      BY <1>1, <3>2 DEF MIN
    <3> HIDE DEF n
    <3>4. data \in Seq(Nat) /\ Len(data) = n
      <4>1. s.send_buf_tail \in Nat
        BY <1>1 DEF SendHalves
      <4> QED
        BY <3>3, <4>1 DEF Stream
    <3> HIDE DEF data
    <3>5. Idle(append(quiet, data)) => append(quiet, data).snd_wnd = 0
      BY <1>1, <3>3, <3>4, AppendGood
    <3> QED
      BY <3>1, <3>5 DEF NoIdleData, Idle
  <2> QED
    BY <2>1, <2>2
<1>6. ASSUME NEW len \in 1 .. ChunkMax, SendCall(len) PROVE NoIdleData'
  BY <1>3, <1>6 DEF SendCall
<1>7. CASE Drain
  BY <1>3, <1>7 DEF Drain
<1>8. ASSUME NEW ack \in Acks, NEW win \in Windows, NEW in \in Inputs,
             NEW has_data \in BOOLEAN, RecvAck(ack, win, has_data, in)
      PROVE  NoIdleData'
  <2> DEFINE h == handle_ack(quiet, ack, win, has_data, in)
  <2>1. s.send_buf_tail \in Nat
    BY <1>1 DEF SendHalves
  <2>2. ack \in Nat /\ win \in Nat
    BY <2>1, SenderAssumption DEF Acks
  <2>3. Good(h)
    BY <1>1, <2>2, HandleAck
  <2>4. s' = utcp_output(h)
    BY <1>8 DEF RecvAck
  <2> QED
    BY <1>4, <2>3, <2>4
<1>9. ASSUME NEW in \in Inputs, Timeout(in) PROVE NoIdleData'
  <2>1. s' = rexmt_timeout(quiet, in) /\ quiet.rexmt
    BY <1>1, <1>9, QuietGood DEF Timeout
  <2>2. Idle(rexmt_timeout(quiet, in)) => rexmt_timeout(quiet, in).snd_wnd = 0
    BY <1>1, <2>1, RexmtTimeoutGood
  <2> QED
    BY <2>1, <2>2 DEF NoIdleData, Idle
<1>10. CASE UNCHANGED vars
  BY <1>3, <1>10 DEF vars
<1> QED
  BY <1>5, <1>6, <1>7, <1>8, <1>9, <1>10 DEF Next, RecvAckDropped

\* Unless a reply is dropped for lack of space, no event leaves written data
\* behind with nothing in flight and an open window.
THEOREM DataNotStranded == ASSUME ~ReplyDropped PROVE Spec => []NoIdleData
<1>1. Init => NoIdleData
  <2> SUFFICES ASSUME Init PROVE NoIdleData
    OBVIOUS
  <2>1. PICK cc \in CcChoices, win \in Windows :
          s = cc_event_init(
             [snd_una |-> 1, snd_nxt |-> 1, snd_max |-> 1, snd_wnd |-> win,
              cwnd |-> 0, ssthresh |-> 0, ca_state |-> "OPEN", t_dupacks |-> 0,
              recover |-> 0, cc_ops |-> cc, rexmt |-> FALSE, t_rxtshift |-> 0,
              send_buf |-> EmptyRing(SEND_BUF_SIZE),
              send_buf_head |-> 0, send_buf_tail |-> 0, out |-> {}])
    BY DEF Init
  <2>2. s.send_buf_head = 0 /\ s.send_buf_tail = 0
    BY <2>1 DEF cc_event_init, cc_init
  <2> QED
    BY <2>2 DEF NoIdleData
<1>2. SendInv /\ NoIdleData /\ [Next]_vars => NoIdleData'
  BY StepNotIdle
<1> QED
  BY <1>1, <1>2, Invariance, PTL DEF Spec

-----------------------------------------------------------------------------
\* Every step that sends cuts its segments from a buffer that holds the stream.
LEMMA StepTrue ==
  ASSUME SendInv, Truthful(s), [Next]_vars PROVE Truthful(s)'
<1>1. Good(s) /\ Good(quiet) /\ Kept(s, quiet) /\ s \in SendHalves /\ app.left \in Nat
  BY QuietGood DEF SendInv, Good, AppInv
<1>2. Truthful(quiet)
  <2>1. quiet.out = {} /\ quiet.send_buf = s.send_buf
    BY <1>1 DEF quiet, SendHalves
  <2> QED
    BY <1>1, <2>1 DEF Kept, Truthful, Filled
<1>3. ASSUME NEW t, Truthful(t), s' = t PROVE Truthful(s)'
  BY <1>3 DEF Truthful, Filled, Carries
<1>4. CASE WriteChunk
  <2> DEFINE n == MIN(app.left, send_free_space(s))
             data == Stream(s.send_buf_tail + 1, n)
  <2>1. CASE n = 0
    BY <1>2, <1>3, <1>4, <2>1 DEF WriteChunk
  <2>2. CASE n # 0
    <3>1. s' = append(quiet, data)
      BY <1>4, <2>2 DEF WriteChunk
    <3>2. send_free_space(s) \in Nat /\ send_free_space(quiet) = send_free_space(s)
      BY <1>1, FreeSpace DEF send_free_space, Kept
    <3>3. n \in Nat /\ n <= send_free_space(quiet)
      BY <1>1, <3>2 DEF MIN
    <3>4. s.send_buf_tail \in Nat /\ quiet.send_buf_tail = s.send_buf_tail
      BY <1>1 DEF SendHalves, Kept
    <3> HIDE DEF n
    <3>5. data \in Seq(Nat) /\ Len(data) = n
      BY <3>3, <3>4 DEF Stream
    <3>6. \A k \in 1 .. n : data[k] = quiet.send_buf_tail + k
      BY <3>3, <3>4 DEF Stream
    <3> HIDE DEF data
    <3>7. Truthful(append(quiet, data))
      BY <1>1, <1>2, <3>3, <3>5, <3>6, AppendGood
    <3> QED
      BY <1>3, <3>1, <3>7
  <2> QED
    BY <2>1, <2>2
<1>5. ASSUME NEW len \in 1 .. ChunkMax, SendCall(len) PROVE Truthful(s)'
  BY <1>2, <1>3, <1>5 DEF SendCall
<1>6. CASE Drain
  BY <1>2, <1>3, <1>6 DEF Drain
<1>7. ASSUME NEW ack \in Acks, NEW win \in Windows, NEW in \in Inputs,
             NEW has_data \in BOOLEAN,
             \/ s' = utcp_output(handle_ack(quiet, ack, win, has_data, in))
             \/ s' = handle_ack(quiet, ack, win, has_data, in)
      PROVE  Truthful(s)'
  <2> DEFINE h == handle_ack(quiet, ack, win, has_data, in)
  <2>1. s.send_buf_tail \in Nat
    BY <1>1 DEF SendHalves
  <2>2. ack \in Nat /\ win \in Nat
    BY <2>1, SenderAssumption DEF Acks
  <2>3. Good(h) /\ Truthful(h)
    BY <1>1, <1>2, <2>2, HandleAck
  <2>4. Truthful(utcp_output(h))
    BY <2>3, OutputTrue
  <2> QED
    BY <1>3, <1>7, <2>3, <2>4
<1>8. ASSUME NEW ack \in Acks, NEW win \in Windows, NEW in \in Inputs,
             \/ \E has_data \in BOOLEAN : RecvAck(ack, win, has_data, in)
             \/ RecvAckDropped(ack, win, in)
      PROVE  Truthful(s)'
  BY <1>7, <1>8 DEF RecvAck, RecvAckDropped
<1>9. ASSUME NEW in \in Inputs, Timeout(in) PROVE Truthful(s)'
  <2>1. s' = rexmt_timeout(quiet, in) /\ quiet.rexmt
    BY <1>1, <1>9, QuietGood DEF Timeout
  <2>2. Truthful(rexmt_timeout(quiet, in))
    BY <1>1, <1>2, <2>1, RexmtTimeoutGood
  <2> QED
    BY <1>3, <2>1, <2>2
<1>10. CASE UNCHANGED vars
  BY <1>3, <1>10 DEF vars
<1> QED
  BY <1>4, <1>5, <1>6, <1>8, <1>9, <1>10 DEF Next

LEMMA InitTrue == Init => Truthful(s)
<1> SUFFICES ASSUME Init PROVE Truthful(s)
  OBVIOUS
<1>1. s.send_buf_head = 0 /\ s.send_buf_tail = 0 /\ s.out = {}
  BY DEF Init, cc_event_init, cc_init
<1> QED
  BY <1>1 DEF Truthful, Filled, Holds

\* First transmissions, fast retransmits and timeouts all put on the wire the
\* bytes their sequence numbers name, for every buffer size, chunk and segment
\* length: the ring never overwrites a byte that may have to be repeated.
THEOREM SegmentsTrue == Spec => []SegmentsCarryStream
<1>1. Init => Truthful(s)
  BY InitTrue
<1>2. SendInv /\ Truthful(s) /\ [Next]_vars => Truthful(s)'
  BY StepTrue
<1>3. Truthful(s) => SegmentsCarryStream
  BY DEF Truthful, Carries, SegmentsCarryStream
<1> QED
  BY <1>1, <1>2, <1>3, Invariance, PTL DEF Spec

-----------------------------------------------------------------------------
\* Timeouts, as steps

\* Only the timer's expiry raises the backoff shift.
LEMMA ShiftRaised ==
  ASSUME SendInv, [Next]_vars, s'.t_rxtshift > s.t_rxtshift
  PROVE  \E in \in Inputs : Timeout(in)
<1>1. Good(s) /\ Good(quiet) /\ Kept(s, quiet) /\ s \in SendHalves /\ app.left \in Nat
  BY QuietGood DEF SendInv, Good, AppInv
<1>2. s.t_rxtshift \in Nat /\ s.send_buf_tail \in Nat /\ quiet.t_rxtshift = s.t_rxtshift
  BY <1>1, SendAssumption DEF SendHalves, Kept
<1>3. ASSUME NEW t, t.t_rxtshift \in Nat, t.t_rxtshift <= s.t_rxtshift, s' = t PROVE FALSE
  BY <1>2, <1>3
<1>4. s' # quiet /\ s' # s
  BY <1>2
<1>5. ~WriteChunk
  <2> SUFFICES ASSUME WriteChunk PROVE FALSE
    OBVIOUS
  <2> DEFINE n == MIN(app.left, send_free_space(s))
             data == Stream(s.send_buf_tail + 1, n)
  <2>1. s' = append(quiet, data)
    BY <1>4 DEF WriteChunk
  <2>2. send_free_space(s) \in Nat /\ send_free_space(quiet) = send_free_space(s)
    BY <1>1, FreeSpace DEF send_free_space, Kept
  <2>3. n \in Nat /\ n <= send_free_space(quiet)
    BY <1>1, <2>2 DEF MIN
  <2> HIDE DEF n
  <2>4. data \in Seq(Nat) /\ Len(data) = n
    BY <1>2, <2>3 DEF Stream
  <2> HIDE DEF data
  <2>5. append(quiet, data).t_rxtshift = quiet.t_rxtshift
    BY <1>1, <2>3, <2>4, AppendGood
  <2> QED
    BY <1>2, <2>1, <2>5
<1>6. ASSUME NEW ack \in Acks, NEW win \in Windows, NEW in \in Inputs,
             NEW has_data \in BOOLEAN,
             \/ s' = utcp_output(handle_ack(quiet, ack, win, has_data, in))
             \/ s' = handle_ack(quiet, ack, win, has_data, in)
      PROVE  FALSE
  <2> DEFINE h == handle_ack(quiet, ack, win, has_data, in)
  <2>1. ack \in Nat /\ win \in Nat
    BY <1>2, SenderAssumption DEF Acks
  <2>2. Good(h) /\ h.t_rxtshift <= quiet.t_rxtshift
    BY <1>1, <2>1, HandleAck
  <2>3. h.t_rxtshift \in Nat
    BY <2>2, SendAssumption DEF Good, SendHalves
  <2>4. Kept(h, utcp_output(h))
    BY <2>2, OutputKept
  <2>5. s'.t_rxtshift = h.t_rxtshift
    BY <1>6, <2>4 DEF Kept
  <2> HIDE DEF h
  <2> QED
    BY <1>2, <2>2, <2>3, <2>5
<1>7. \A ack \in Acks, win \in Windows, in \in Inputs :
        /\ \A has_data \in BOOLEAN : ~RecvAck(ack, win, has_data, in)
        /\ ~RecvAckDropped(ack, win, in)
  BY <1>6 DEF RecvAck, RecvAckDropped
<1>8. ~(UNCHANGED vars) /\ ~Drain /\ \A len \in 1 .. ChunkMax : ~SendCall(len)
  BY <1>4 DEF vars, Drain, SendCall
<1> QED
  BY <1>5, <1>7, <1>8 DEF Next

\* Whenever the timer expires with the window open, the oldest unacknowledged
\* byte is sent again: an armed timer always has one, and utcp_output sends it
\* because cwnd is at least a segment.
THEOREM TimeoutSendsAgain == Spec => TimeoutResends
<1>1. ASSUME SendInv, [Next]_vars
      PROVE  [s'.t_rxtshift > s.t_rxtshift /\ s.snd_wnd > 0
                => \E g \in s'.out : g.seq = s.snd_una /\ g.data # <<>>]_vars
  <2> SUFFICES ASSUME s'.t_rxtshift > s.t_rxtshift, s.snd_wnd > 0
               PROVE  \E g \in s'.out : g.seq = s.snd_una /\ g.data # <<>>
    OBVIOUS
  <2>1. PICK in \in Inputs : Timeout(in)
    BY <1>1, ShiftRaised
  <2>2. s' = rexmt_timeout(quiet, in) /\ s.rexmt
    BY <2>1 DEF Timeout
  <2>3. /\ Good(quiet) /\ quiet.rexmt = s.rexmt /\ quiet.snd_una = s.snd_una
        /\ quiet.snd_wnd = s.snd_wnd
    BY <1>1, QuietGood DEF SendInv, Kept
  <2>4. \E g \in rexmt_timeout(quiet, in).out : g.seq = quiet.snd_una /\ g.data # <<>>
    BY <2>2, <2>3, RexmtTimeoutGood
  <2> QED
    BY <2>2, <2>3, <2>4
<1> QED
  BY <1>1, Invariance, PTL DEF Spec, TimeoutResends

-----------------------------------------------------------------------------
\* The width of the fields

\* The recovery point never lies past what was sent, under any algorithm.
RecoverSent(t) == t.recover <= t.snd_max

\* What an ACK tells congestion control does not move the recovery point.
LEMMA AckRecover ==
  ASSUME NEW t \in SendHalves, NEW acked, NEW fired
  PROVE  cc_event_ack(t, acked, fired).t.recover = t.recover
<1>1. ASSUME NEW u \in SendHalves PROVE cc_aimd(u, acked).recover = u.recover
  BY <1>1 DEF cc_aimd, SendHalves
<1>2. tahoe_ack(t, acked).t.recover = t.recover
  <2> DEFINE u == [t EXCEPT !.ca_state = "OPEN"]
  <2>1. u \in SendHalves /\ u.recover = t.recover
    BY DEF SendHalves, CaStates
  <2>2. tahoe_ack(t, acked).t = cc_aimd(u, acked)
    BY DEF tahoe_ack, Only
  <2> HIDE DEF u
  <2> QED
    BY <1>1, <2>1, <2>2
<1>3. reno_ack(t, acked).t.recover = t.recover
  BY <1>1 DEF reno_ack, Only, SendHalves
<1>4. recovery_ack(t, acked).t.recover = t.recover
  BY DEF recovery_ack, Only, AndRetransmit, SendHalves
<1>5. new_reno_ack(t, acked).t.recover = t.recover
  BY <1>1, <1>4 DEF new_reno_ack, Only
<1>6. lstm_reno_ack(t, acked, fired).t.recover = t.recover
  <2> DEFINE x == IF fired THEN MIN(cc_halve_ssthresh(t.snd_nxt - t.snd_una), t.ssthresh)
                           ELSE t.ssthresh
             u == [t EXCEPT !.ssthresh = x]
  <2>1. u.recover = t.recover /\ cc_aimd(u, acked).recover = u.recover
    BY DEF SendHalves, cc_aimd
  <2>2. CASE t.ca_state # "RECOVERY"
    <3>1. lstm_reno_ack(t, acked, fired).t = cc_aimd(u, acked)
      BY <2>2 DEF lstm_reno_ack, Only
    <3> QED
      BY <2>1, <3>1
  <2>3. CASE t.ca_state = "RECOVERY"
    BY <1>4, <2>3 DEF lstm_reno_ack
  <2> QED
    BY <2>2, <2>3
<1>7. t.cc_ops \in CcAlgorithms
  BY DEF SendHalves
<1> QED
  BY <1>2, <1>3, <1>5, <1>6, <1>7 DEF cc_event_ack, CcAlgorithms

\* A duplicate ACK or a timeout moves it at most to snd_max.
LEMMA DupAckRecover ==
  ASSUME NEW t \in SendHalves, NEW dups
  PROVE  cc_event_dup_ack(t, dups).t.recover \in {t.recover, t.snd_max}
<1>1. tahoe_dup_ack(t, dups).t.recover = t.recover
  BY DEF tahoe_dup_ack, Only, AndRetransmit, SendHalves
<1>2. reno_dup_ack(t, dups).t.recover = t.recover
  BY DEF reno_dup_ack, Only, AndRetransmit, AndOutput, SendHalves
<1>3. new_reno_dup_ack(t, dups).t.recover \in {t.recover, t.snd_max}
  BY DEF new_reno_dup_ack, Only, AndRetransmit, AndOutput, SendHalves
<1>4. t.cc_ops \in CcAlgorithms
  BY DEF SendHalves
<1> QED
  BY <1>1, <1>2, <1>3, <1>4 DEF cc_event_dup_ack, CcAlgorithms

LEMMA TimeoutRecover ==
  ASSUME NEW t \in SendHalves, NEW flight_size
  PROVE  cc_event_timeout(t, flight_size).recover \in {t.recover, t.snd_max}
<1>1. cc_timeout(t, flight_size).recover = t.recover
  BY DEF cc_timeout, SendHalves
<1>2. new_reno_timeout(t, flight_size).recover = t.snd_max
  BY DEF new_reno_timeout, cc_timeout, SendHalves
<1> QED
  BY <1>1, <1>2 DEF cc_event_timeout

\* Sending does not move it, and snd_max only grows.
LEMMA OutputRecover ==
  ASSUME NEW t, Good(t), RecoverSent(t) PROVE RecoverSent(utcp_output(t))
<1> DEFINE u == utcp_output(t)
<1>1. /\ u = [t EXCEPT !.out = u.out, !.snd_nxt = u.snd_nxt, !.snd_max = u.snd_max,
                       !.rexmt = u.rexmt]
      /\ Good(u) /\ t \in SendHalves
  BY OutputGood DEF Good
<1>2. t.snd_max <= u.snd_max
  BY OutputKept DEF Forward
<1> HIDE DEF u
<1>3. u.recover = t.recover
  BY <1>1 DEF SendHalves
<1>4. t.recover \in Nat /\ t.snd_max \in Nat /\ u.snd_max \in Nat
  BY <1>1 DEF Good, SendHalves
<1>5. RecoverSent(u)
  BY <1>2, <1>3, <1>4 DEF RecoverSent
<1> QED
  BY <1>5 DEF u

LEMMA ApplyRecover ==
  ASSUME NEW t \in SendHalves, NEW res, CcResult(t, res), RecoverSent(t),
         res.t.recover \in {t.recover, t.snd_max}
  PROVE  RecoverSent(apply_cc(res))
<1> DEFINE v == res.t
<1>1. Good(v) /\ CcOnly(t, v) /\ res.call \in {"none", "retransmit", "output"}
  BY DEF CcResult
<1>2. v.snd_max = t.snd_max /\ t.snd_max \in Nat /\ t.recover \in Nat
  <2> HIDE DEF v
  <2> QED
    BY <1>1 DEF CcOnly, SendHalves
<1>3. RecoverSent(v)
  BY <1>2 DEF RecoverSent
<1>4. CASE res.call = "none"
  BY <1>3, <1>4 DEF apply_cc
<1>5. CASE res.call = "retransmit"
  <2> DEFINE w == utcp_retransmit_segment(v, v.snd_una)
  <2>1. apply_cc(res) = w
    BY <1>5 DEF apply_cc
  <2> HIDE DEF v
  <2>2. w = [v EXCEPT !.out = w.out] /\ v \in SendHalves
    BY <1>1, RetransmitGood DEF Good
  <2> HIDE DEF w
  <2>3. w.recover = v.recover /\ w.snd_max = v.snd_max
    BY <2>2 DEF SendHalves
  <2> QED
    BY <1>3, <2>1, <2>3 DEF RecoverSent
<1>6. CASE res.call = "output"
  <2>1. apply_cc(res) = utcp_output(v)
    BY <1>6 DEF apply_cc
  <2> QED
    BY <1>1, <1>3, <2>1, OutputRecover
<1> QED
  BY <1>1, <1>4, <1>5, <1>6

\* The acknowledgement part of handle_received_data.
LEMMA HandleRecover ==
  ASSUME NEW t, Good(t), RecoverSent(t), NEW ack \in Nat, NEW win \in Nat,
         NEW has_data \in BOOLEAN, NEW in \in Inputs
  PROVE  RecoverSent(handle_ack(t, ack, win, has_data, in))
<1> DEFINE u == handle_ack(t, ack, win, has_data, in)
<1>1. t \in SendHalves /\ t.snd_max \in Nat /\ t.recover \in Nat
  BY CcTypes DEF Good
<1>2. ASSUME NEW v \in SendHalves, v.recover = t.recover, v.snd_max = t.snd_max
      PROVE  RecoverSent(v)
  BY <1>2 DEF RecoverSent
<1>3. CASE valid_ack(t, ack)
  <2> DEFINE nxt   == MAX(t.snd_nxt, ack)
             armed == ~(ack = t.snd_max) /\ backed_off(t.t_rxtshift, in)
             shift == IF ack = t.snd_max THEN 0 ELSE t.t_rxtshift
             head  == t.send_buf_head + (ack - t.snd_una)
             v == [t EXCEPT !.snd_una = ack, !.snd_nxt = nxt, !.t_dupacks = 0,
                            !.send_buf_head = head, !.snd_wnd = win,
                            !.rexmt = armed, !.t_rxtshift = shift]
             res == cc_event_ack(v, ack - t.snd_una, in.fired)
  <2>1. u = process_ack(t, ack, win, in)
    <3>1. ack # t.snd_una
      BY <1>1, <1>3, CcTypes DEF valid_ack
    <3> QED
      BY <1>3, <3>1 DEF handle_ack
  <2>2. process_ack(t, ack, win, in) = apply_cc(res)
    BY DEF process_ack
  <2>3. v \in SendHalves /\ v.recover = t.recover /\ v.snd_max = t.snd_max
    <3>1. /\ nxt \in Nat /\ armed \in BOOLEAN /\ shift \in 0 .. TCP_MAXRXTSHIFT + 1
          /\ head \in Nat /\ 0 \in 0 .. DUPACK_MAX
      <4>1. t.snd_nxt \in Nat /\ t.snd_una \in Nat /\ t.send_buf_head \in Nat
        BY <1>1 DEF SendHalves
      <4>2. nxt \in Nat /\ head \in Nat
        BY <1>3, <4>1 DEF MAX, valid_ack
      <4>3. armed \in BOOLEAN
        BY DEF backed_off, Inputs
      <4>4. t.t_rxtshift \in 0 .. TCP_MAXRXTSHIFT + 1
        BY <1>1 DEF SendHalves
      <4>5. shift \in 0 .. TCP_MAXRXTSHIFT + 1 /\ 0 \in 0 .. DUPACK_MAX
        BY <4>4, SendAssumption
      <4> QED
        BY <4>2, <4>3, <4>5
    <3> HIDE DEF nxt, armed, shift, head
    <3> QED
      BY <1>1, <3>1 DEF SendHalves
  <2>4. CcResult(v, res)
    <3>1. /\ t.snd_una \in Nat /\ t.snd_nxt \in Nat /\ t.send_buf_head = t.snd_una - 1
          /\ t.snd_una <= t.snd_nxt /\ t.snd_nxt <= t.snd_max /\ 1 <= t.snd_una
          /\ t.snd_una < ack /\ ack <= t.snd_max
      BY <1>1, <1>3, CcTypes DEF Good, Ordered, valid_ack
    <3>2. ack - t.snd_una \in Nat \ {0} /\ in.fired \in BOOLEAN
      BY <3>1 DEF Inputs
    <3>3. /\ v.snd_una = ack /\ v.snd_nxt = nxt /\ v.send_buf_head = head
          /\ v.send_buf_tail = t.send_buf_tail /\ v.rexmt = armed /\ v.cwnd = t.cwnd
          /\ v.ssthresh = t.ssthresh
      BY <1>1 DEF SendHalves
    <3>4. ack <= nxt /\ nxt <= t.snd_max /\ 1 <= ack /\ head = ack - 1
      BY <3>1 DEF MAX
    <3>5. armed => ack < t.snd_max
      BY <1>1, <3>1
    <3>6. t.snd_max <= t.send_buf_tail + 1 /\ t.send_buf_tail - head <= SEND_BUF_SIZE
      <4>1. /\ t.send_buf_tail \in Nat /\ t.send_buf_tail - t.send_buf_head <= SEND_BUF_SIZE
            /\ t.snd_max <= t.send_buf_tail + 1 /\ SEND_BUF_SIZE \in Nat
        BY <1>1, SendAssumption DEF Good, Ordered, SendHalves
      <4> QED
        BY <3>1, <4>1
    <3> HIDE DEF v, nxt, head, armed
    <3>7. Ordered(v)
      BY <2>3, <3>3, <3>4, <3>5, <3>6 DEF Ordered
    <3>8. Acking(v)
      BY <1>2, <2>3, <3>3, <3>7 DEF Acking, Good, Floored, RecoverSent
    <3> QED
      BY <3>2, <3>8, AckEventGood
  <2> HIDE DEF v
  <2>5. res.t.recover = v.recover
    BY <2>3, AckRecover
  <2> HIDE DEF res
  <2> QED
    BY <1>2, <2>1, <2>2, <2>3, <2>4, <2>5, ApplyRecover
<1>4. CASE ack = t.snd_una /\ win > t.snd_wnd
  <2> DEFINE w == [t EXCEPT !.snd_wnd = win]
  <2>1. u = w
    <3>1. t.snd_una \in Nat /\ t.snd_wnd \in Nat
      BY <1>1 DEF SendHalves
    <3>2. ~valid_ack(t, ack) /\ ~(win <= t.snd_wnd)
      BY <1>4, <3>1 DEF valid_ack
    <3> QED
      BY <1>4, <3>2 DEF handle_ack
  <2>2. w \in SendHalves /\ w.recover = t.recover /\ w.snd_max = t.snd_max
    BY <1>1 DEF SendHalves
  <2> QED
    BY <1>2, <2>1, <2>2
<1>5. CASE ack = t.snd_una /\ win <= t.snd_wnd /\ ~has_data /\ t.snd_una # t.snd_max
  <2> DEFINE dups == MIN(t.t_dupacks + 1, DUPACK_MAX)
             v == [t EXCEPT !.snd_wnd = win, !.t_dupacks = dups]
             res == cc_event_dup_ack(v, dups)
  <2>1. u = apply_cc(res)
    <3>1. t.snd_una \in Nat /\ t.snd_wnd \in Nat
      BY <1>1 DEF SendHalves
    <3>2. ~valid_ack(t, ack) /\ ~(win > t.snd_wnd)
      BY <1>5, <3>1 DEF valid_ack
    <3>3. u = process_dup_ack(t, win)
      BY <1>5, <3>2 DEF handle_ack
    <3> QED
      BY <3>3 DEF process_dup_ack
  <2>2. dups \in 0 .. DUPACK_MAX /\ dups \in Nat
    BY <1>1, CcTypes, SendAssumption DEF MIN
  <2> HIDE DEF dups, u
  <2>3. Good(v)
    BY <2>2, WindowGood
  <2>4. /\ v \in SendHalves /\ v.recover = t.recover /\ v.snd_max = t.snd_max
        /\ v.snd_una = t.snd_una
    BY <1>1, <2>2 DEF SendHalves
  <2> HIDE DEF v
  <2>5. CcResult(v, res)
    BY <1>5, <2>2, <2>3, <2>4, DupAckEventGood
  <2>6. res.t.recover \in {v.recover, v.snd_max}
    BY <2>4, DupAckRecover
  <2> HIDE DEF res
  <2> QED
    BY <1>2, <2>1, <2>4, <2>5, <2>6, ApplyRecover DEF u
<1>6. CASE /\ ~valid_ack(t, ack) /\ ~(ack = t.snd_una /\ win > t.snd_wnd)
           /\ ~(ack = t.snd_una /\ win <= t.snd_wnd /\ ~has_data /\ t.snd_una # t.snd_max)
  BY <1>6 DEF handle_ack
<1> QED
  BY <1>3, <1>4, <1>5, <1>6

\* The timeout.
LEMMA RexmtRecover ==
  ASSUME NEW t, Good(t), t.rexmt, RecoverSent(t), NEW in \in Inputs
  PROVE  RecoverSent(rexmt_timeout(t, in))
<1> DEFINE shift == MIN(t.t_rxtshift + 1, TCP_MAXRXTSHIFT + 1)
           armed == backed_off(shift, in)
           v == [t EXCEPT !.t_rxtshift = shift, !.rexmt = armed, !.snd_nxt = t.snd_una]
           flight == t.snd_nxt - t.snd_una
           w == cc_event_timeout(v, flight)
<1>1. t \in SendHalves /\ Ordered(t) /\ Floored(t)
  BY DEF Good
<1>2. shift \in 0 .. TCP_MAXRXTSHIFT + 1 /\ armed \in BOOLEAN /\ flight \in Nat
  <2>1. t.t_rxtshift \in 0 .. TCP_MAXRXTSHIFT + 1 /\ TCP_MAXRXTSHIFT \in Nat
    BY <1>1, SendAssumption DEF SendHalves
  <2>2. t.snd_una \in Nat /\ t.snd_nxt \in Nat /\ t.snd_una <= t.snd_nxt
    BY <1>1 DEF Ordered, SendHalves
  <2> QED
    BY <2>1, <2>2 DEF MIN, backed_off, Inputs
<1>3. rexmt_timeout(t, in) = utcp_output(w)
  BY DEF rexmt_timeout
<1> HIDE DEF shift, armed, flight
<1>4. v \in SendHalves
  BY <1>1, <1>2 DEF SendHalves
<1>5. /\ v.snd_una = t.snd_una /\ v.snd_nxt = t.snd_una /\ v.snd_max = t.snd_max
      /\ v.send_buf_head = t.send_buf_head /\ v.send_buf_tail = t.send_buf_tail
      /\ v.cwnd = t.cwnd /\ v.ssthresh = t.ssthresh /\ v.recover = t.recover
  BY <1>1 DEF SendHalves
<1> HIDE DEF v
<1>6. Ordered(v) /\ Floored(v)
  <2>1. t.snd_una < t.snd_max
    BY <1>1 DEF Ordered
  <2> QED
    BY <1>1, <1>5, <2>1, CcTypes DEF Ordered, Floored
<1>7. Good(w) /\ CcOnly(v, w) /\ w.recover \in {v.recover, v.snd_max}
  BY <1>2, <1>4, <1>6, TimeoutEventGood, TimeoutRecover
<1> HIDE DEF w
<1>8. w.snd_max = v.snd_max
  BY <1>4, <1>7 DEF CcOnly, SendHalves
<1>9. RecoverSent(w)
  BY <1>1, <1>5, <1>7, <1>8, CcTypes DEF RecoverSent
<1> QED
  BY <1>3, <1>7, <1>9, OutputRecover

\* utcp_send's copy.
LEMMA AppendRecover ==
  ASSUME NEW t, Good(t), RecoverSent(t), NEW data \in Seq(Nat), Len(data) <= send_free_space(t)
  PROVE  RecoverSent(append(t, data))
<1> DEFINE ring == ring_buf_write(t.send_buf, SEND_BUF_SIZE, t.send_buf_tail, data)
           tail == t.send_buf_tail + Len(data)
           v == [t EXCEPT !.send_buf = ring, !.send_buf_tail = tail]
           n == burst(v)
           u == append(t, data)
<1>1. t \in SendHalves
  BY DEF Good
<1>2. u.recover = t.recover
  <2>1. u = utcp_output(v)
    BY DEF append
  <2>2. DOMAIN v = DOMAIN t /\ v.recover = t.recover
    BY <1>1 DEF SendHalves
  <2> HIDE DEF v
  <2> QED
    BY <1>1, <2>1, <2>2 DEF utcp_output, SendHalves
<1>3. Good(u) /\ Forward(t, u)
  BY AppendGood
<1> HIDE DEF u
<1>4. t.recover \in Nat /\ t.snd_max \in Nat /\ u.snd_max \in Nat
  BY <1>1, <1>3 DEF Good, SendHalves
<1>5. RecoverSent(u)
  BY <1>2, <1>3, <1>4 DEF RecoverSent, Forward
<1> QED
  BY <1>5 DEF u

\* All that is written comes out of the stream, once.
Budget == app.todo + app.left + s.send_buf_tail = StreamLen

\* Every step keeps the recovery point and the budget.
LEMMA StepWidth ==
  ASSUME SendInv, RecoverSent(s), Budget, [Next]_vars
  PROVE  RecoverSent(s)' /\ Budget'
<1>1. Good(s) /\ Good(quiet) /\ Kept(s, quiet) /\ s \in SendHalves
  BY QuietGood DEF SendInv, Good
<1>2. /\ app \in [todo : Nat, left : Nat, asleep : BOOLEAN, draining : BOOLEAN]
      /\ app.todo \in Nat /\ app.left \in Nat /\ StreamLen \in Nat /\ s.send_buf_tail \in Nat
  BY <1>1, SenderAssumption DEF SendInv, AppInv, SendHalves
<1>3. RecoverSent(quiet) /\ quiet.send_buf_tail = s.send_buf_tail
  BY <1>1 DEF quiet, SendHalves, RecoverSent
<1>4. ASSUME NEW t, RecoverSent(t), s' = t PROVE RecoverSent(s)'
  BY <1>4 DEF RecoverSent
<1>5. CASE WriteChunk
  <2> DEFINE n == MIN(app.left, send_free_space(s))
             data == Stream(s.send_buf_tail + 1, n)
  <2>1. send_free_space(s) \in Nat /\ send_free_space(quiet) = send_free_space(s)
    BY <1>1, FreeSpace DEF send_free_space, Kept
  <2>2. n \in Nat /\ n <= send_free_space(quiet) /\ n <= app.left
    BY <1>2, <2>1 DEF MIN
  <2>3. app' = [app EXCEPT !.left = @ - n, !.asleep = n < app.left]
    BY <1>5 DEF WriteChunk
  <2>4. app'.todo = app.todo /\ app'.left = app.left - n
    BY <1>2, <2>3
  <2>5. CASE n = 0
    <3>1. s' = quiet
      BY <1>5, <2>5 DEF WriteChunk
    <3>2. s'.send_buf_tail = s.send_buf_tail
      BY <1>3, <3>1
    <3> HIDE DEF n
    <3>3. Budget'
      BY <1>2, <2>4, <2>5, <3>2 DEF Budget
    <3> QED
      BY <1>3, <1>4, <3>1, <3>3
  <2>6. CASE n # 0
    <3>1. s' = append(quiet, data)
      BY <1>5, <2>6 DEF WriteChunk
    <3> HIDE DEF n
    <3>2. data \in Seq(Nat) /\ Len(data) = n
      BY <1>2, <2>2 DEF Stream
    <3> HIDE DEF data
    <3>3. RecoverSent(append(quiet, data))
      BY <1>1, <1>3, <2>2, <3>2, AppendRecover
    <3>4. s'.send_buf_tail = s.send_buf_tail + n
      BY <1>1, <1>3, <2>2, <3>1, <3>2, AppendGood
    <3>5. Budget'
      BY <1>2, <2>2, <2>4, <3>4 DEF Budget
    <3> QED
      BY <1>4, <3>1, <3>3, <3>5
  <2> QED
    BY <2>5, <2>6
<1>6. ASSUME NEW len \in 1 .. ChunkMax, SendCall(len) PROVE RecoverSent(s)' /\ Budget'
  <2>1. /\ s' = quiet /\ app.left = 0 /\ len <= app.todo /\ len \in Nat
        /\ app' = [app EXCEPT !.todo = @ - len, !.left = len]
    BY <1>6, SenderAssumption DEF SendCall
  <2>2. app'.todo = app.todo - len /\ app'.left = len /\ s'.send_buf_tail = s.send_buf_tail
    BY <1>2, <1>3, <2>1
  <2>3. Budget'
    BY <1>2, <2>1, <2>2 DEF Budget
  <2> QED
    BY <1>3, <1>4, <2>1, <2>3
<1>7. CASE Drain
  <2>1. s' = quiet /\ app'.todo = app.todo /\ app'.left = app.left
    BY <1>2, <1>7 DEF Drain
  <2> QED
    BY <1>3, <1>4, <2>1 DEF Budget
<1>8. ASSUME NEW ack \in Acks, NEW win \in Windows, NEW in \in Inputs,
             NEW has_data \in BOOLEAN,
             \/ s' = utcp_output(handle_ack(quiet, ack, win, has_data, in))
             \/ s' = handle_ack(quiet, ack, win, has_data, in),
             app' = [app EXCEPT !.asleep = @ /\ ~wakes(ack, win)]
      PROVE  RecoverSent(s)' /\ Budget'
  <2> DEFINE h == handle_ack(quiet, ack, win, has_data, in)
  <2>1. ack \in Nat /\ win \in Nat
    BY <1>2, SenderAssumption DEF Acks
  <2>2. Good(h) /\ h.send_buf_tail = quiet.send_buf_tail
    BY <1>1, <2>1, HandleAck
  <2>3. RecoverSent(h)
    BY <1>1, <1>3, <2>1, HandleRecover
  <2>4. RecoverSent(utcp_output(h)) /\ utcp_output(h).send_buf_tail = h.send_buf_tail
    <3> HIDE DEF h
    <3> QED
      BY <2>2, <2>3, OutputRecover, OutputKept DEF Kept
  <2>5. app'.todo = app.todo /\ app'.left = app.left
    BY <1>2, <1>8
  <2>6. s'.send_buf_tail = s.send_buf_tail /\ RecoverSent(s)'
    BY <1>3, <1>4, <1>8, <2>2, <2>3, <2>4
  <2> QED
    BY <2>5, <2>6 DEF Budget
<1>9. ASSUME NEW ack \in Acks, NEW win \in Windows, NEW in \in Inputs,
             \/ \E has_data \in BOOLEAN : RecvAck(ack, win, has_data, in)
             \/ RecvAckDropped(ack, win, in)
      PROVE  RecoverSent(s)' /\ Budget'
  BY <1>8, <1>9 DEF RecvAck, RecvAckDropped
<1>10. ASSUME NEW in \in Inputs, Timeout(in) PROVE RecoverSent(s)' /\ Budget'
  <2>1. s' = rexmt_timeout(quiet, in) /\ quiet.rexmt /\ app' = app
    BY <1>1, <1>10, QuietGood DEF Timeout
  <2>2. RecoverSent(rexmt_timeout(quiet, in))
    BY <1>1, <1>3, <2>1, RexmtRecover
  <2>3. s'.send_buf_tail = s.send_buf_tail
    BY <1>1, <1>3, <2>1, RexmtTimeoutGood
  <2> QED
    BY <1>4, <2>1, <2>2, <2>3 DEF Budget
<1>11. CASE UNCHANGED vars
  BY <1>4, <1>11 DEF vars, Budget
<1> QED
  BY <1>5, <1>6, <1>7, <1>9, <1>10, <1>11 DEF Next

\* What waits in send_buf behind a sequence number, from the stored fields.
LEMMA WaitingExact ==
  ASSUME NEW t \in SendHalves, 1 <= t.snd_nxt, NEW seq \in Nat, 1 <= seq,
         t.snd_nxt < HALF, seq < HALF, t.send_buf_tail < HALF
  PROVE  /\ waiting(t, data_bytes_sent(t)) = buffered_data(t, t.snd_nxt)
         /\ waiting(t, rexmt_bytes_sent(seq)) = buffered_data(t, seq)
<1> DEFINE tail == t.send_buf_tail
           nxt == t.snd_nxt
           m == 2 * HALF
<1>1. tail \in Nat /\ nxt \in Nat /\ HALF \in Nat \ {0} /\ m \in Nat \ {0} /\ HALF < m
  BY HalfAssumption DEF SendHalves
<1>2. uint32(tail) = tail /\ uint32(seq) = seq /\ uint32(0) = 0
  <2>1. tail \in Nat /\ tail < m /\ seq < m /\ 0 < m
    BY <1>1
  <2>2. uint32(tail) = tail % m /\ uint32(seq) = seq % m /\ uint32(0) = 0 % m
    BY DEF uint32
  <2> HIDE DEF m, tail
  <2> QED
    BY <1>1, <2>1, <2>2, ModTurn
<1>3. minus(nxt, 0) = nxt /\ minus(seq, 0) = seq /\ SEQ_GT(nxt, 0)
  <2> HIDE DEF nxt
  <2>1. /\ 0 \in Nat /\ 0 <= nxt /\ nxt - 0 < 2 * HALF /\ nxt - 0 = nxt /\ seq - 0 = seq
        /\ 0 <= seq /\ seq - 0 < 2 * HALF /\ nxt - 0 < HALF /\ 0 - nxt < HALF /\ nxt > 0
    BY <1>1 DEF nxt
  <2> QED
    BY <1>1, <2>1, MinusExact, SeqOrder
<1>4. data_bytes_sent(t) = nxt - 1 /\ rexmt_bytes_sent(seq) = seq - 1
  <2> HIDE DEF nxt
  <2>1. seq > 0 /\ nxt = t.snd_nxt
    BY DEF nxt
  <2> QED
    BY <1>2, <1>3, <2>1 DEF data_bytes_sent, rexmt_bytes_sent, iss
<1>5. ASSUME NEW x \in Nat, 1 <= x PROVE waiting(t, x - 1) = buffered_data(t, x)
  BY <1>1, <1>2, <1>5 DEF waiting, buffered_data, iss, MAX
<1> QED
  BY <1>1, <1>4, <1>5

\* As long as fewer than half the number space of bytes is written, no
\* computation of the send path is affected by the width of its fields.
THEOREM WidthSuffices == ASSUME StreamLen + 1 < HALF PROVE Spec => []WidthEnough
<1>1. Init => RecoverSent(s) /\ Budget
  <2> SUFFICES ASSUME Init PROVE RecoverSent(s) /\ Budget
    OBVIOUS
  <2>1. s.recover = 0 /\ s.snd_max = 1 /\ s.send_buf_tail = 0
    BY DEF Init, cc_event_init, cc_init
  <2>2. app.todo = StreamLen /\ app.left = 0 /\ StreamLen \in Nat
    BY SenderAssumption DEF Init
  <2> QED
    BY <2>1, <2>2 DEF RecoverSent, Budget
<1>2. SendInv /\ RecoverSent(s) /\ Budget /\ [Next]_vars => RecoverSent(s)' /\ Budget'
  BY StepWidth
<1>3. ASSUME SendInv, RecoverSent(s), Budget PROVE WidthEnough
  <2> DEFINE tail == s.send_buf_tail
             head == s.send_buf_head
             una == s.snd_una
             nxt == s.snd_nxt
             mx == s.snd_max
             rec == s.recover
  <2>1. s \in SendHalves /\ Ordered(s)
    BY <1>3 DEF SendInv, Good
  <2>2. /\ tail \in Nat /\ head \in Nat /\ una \in Nat /\ nxt \in Nat /\ mx \in Nat
        /\ rec \in Nat /\ HALF \in Nat \ {0} /\ StreamLen \in Nat
    BY <2>1, SenderAssumption, HalfAssumption DEF SendHalves
  <2>3. tail <= StreamLen
    <3>1. app.todo \in Nat /\ app.left \in Nat
      BY <1>3 DEF SendInv, AppInv
    <3>2. app.todo + app.left + tail = StreamLen
      BY <1>3 DEF Budget
    <3> HIDE DEF tail
    <3> QED
      BY <2>2, <3>1, <3>2
  <2>4. /\ 1 <= una /\ una <= nxt /\ nxt <= mx /\ mx <= tail + 1 /\ rec <= mx
        /\ head = una - 1
    BY <1>3, <2>1 DEF Ordered, RecoverSent
  <2>5. /\ una < HALF /\ nxt < HALF /\ mx < HALF /\ rec < HALF /\ tail < HALF /\ tail + 1 < HALF
        /\ 1 <= nxt /\ head <= tail
    <3> HIDE DEF tail, una, nxt, mx, rec, head
    <3> QED
      BY <2>2, <2>3, <2>4
  <2> DEFINE back == [s EXCEPT !.snd_nxt = s.snd_una]
  <2>6. /\ back \in SendHalves /\ back.snd_nxt = una /\ back.snd_una = una
        /\ back.send_buf_tail = tail
    BY <2>1 DEF SendHalves
  <2>7. ASSUME NEW a \in Nat, NEW b \in Nat, b <= a, a < HALF
        PROVE  minus(a, b) = a - b
    BY <2>2, <2>7, MinusExact
  <2>8. ASSUME NEW a \in Nat, NEW b \in Nat, a < HALF, b < HALF
        PROVE  /\ SEQ_GT(a, b) <=> a > b
               /\ SEQ_LEQ(a, b) <=> a <= b
               /\ SEQ_GEQ(a, b) <=> a >= b
    BY <2>2, <2>8, SeqOrder
  <2>9. /\ waiting(s, data_bytes_sent(s)) = buffered_data(s, s.snd_nxt)
        /\ waiting(s, rexmt_bytes_sent(s.snd_una)) = buffered_data(s, s.snd_una)
        /\ waiting(back, data_bytes_sent(back)) = buffered_data(back, back.snd_nxt)
    <3> HIDE DEF back
    <3> QED
      BY <2>1, <2>2, <2>4, <2>5, <2>6, WaitingExact
  <2>10. minus(nxt, una) = nxt - una /\ minus(una, una) = una - una /\ minus(tail, head) = tail - head
    <3> HIDE DEF tail, una, nxt, mx, rec, head
    <3>1. una <= una
      BY <2>2
    <3> QED
      BY <2>2, <2>4, <2>5, <2>7, <3>1
  <2>11. ASSUME NEW ack \in Acks
         PROVE  /\ new_ack(s, ack) <=> valid_ack(s, ack)
                /\ SEQ_GT(ack, s.snd_nxt) <=> ack > s.snd_nxt
                /\ SEQ_GEQ(ack, s.recover) <=> ack >= s.recover
                /\ SEQ_GT(ack, s.recover) <=> ack > s.recover
    <3>1. ack \in Nat /\ ack < HALF
      <4>1. ack \in 1 .. tail + 1
        BY DEF Acks
      <4> HIDE DEF tail
      <4> QED
        BY <2>2, <2>5, <4>1
    <3> QED
      BY <2>2, <2>5, <2>8, <3>1 DEF new_ack, valid_ack
  <2>12. \A t \in {s, back} : /\ waiting(t, data_bytes_sent(t)) = buffered_data(t, t.snd_nxt)
                              /\ minus(t.snd_nxt, t.snd_una) = t.snd_nxt - t.snd_una
    <3> HIDE DEF back
    <3> QED
      BY <2>6, <2>9, <2>10
  <2> QED
    BY <2>9, <2>10, <2>11, <2>12 DEF WidthEnough, send_free_space
<1> QED
  BY <1>1, <1>2, <1>3, Invariance, PTL DEF Spec
=============================================================================
