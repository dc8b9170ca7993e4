----------------------------- MODULE TimerProofs -----------------------------
(***************************************************************************)
(* Invariants of module RetransmitTimer, proved for every tick limit,      *)
(* back-off table, sample and algorithm.  What they need of the send half  *)
(* is taken from SenderProofs: each step here is one of Sender or leaves   *)
(* the send half alone.                                                    *)
(***************************************************************************)
EXTENDS RetransmitTimer, SenderProofs, WellFoundedInduction

\* The timing fields and their ranges; t_rtseq is only compared.
Fields(q) ==
  [t_timer : 0 .. TCPTV_REXMTMAX, t_rtt : Nat, t_rtseq : {q}, t_srtt : Nat, t_rttvar : Nat,
   t_rxtcur : TCPTV_MIN .. TCPTV_REXMTMAX, ts_enabled : BOOLEAN, sample : Nat]

Ranged(e) == e \in Fields(e.t_rtseq)

\* What every operator of the estimator preserves of timing fields e.
Sane(e) ==
  /\ Ranged(e)
  /\ e.t_srtt = 0 \/ e.t_srtt >= 8
  /\ e.t_rxtcur >= MIN(e.sample, TCPTV_REXMTMAX)

-----------------------------------------------------------------------------
\* The fixed-point arithmetic, on plain numbers: with R the sample, S and V the
\* scaled estimates, the new estimates stay in range and their sum covers R.
LEMMA FirstSample ==
  ASSUME NEW R \in Nat, R >= 1
  PROVE  (8 * R) \div 8 = R
  OBVIOUS

LEMMA NextSample ==
  ASSUME NEW R \in Nat, R >= 1, NEW S \in Nat, S >= 8, NEW V \in Nat
  PROVE  LET d  == R - (S \div 8)
             S2 == S + d
             V2 == V + (IF d < 0 THEN -d ELSE d) - (V \div 4)
         IN  S2 \in Nat /\ S2 >= 8 /\ V2 \in Nat /\ (S2 \div 8) + V2 >= R
<1>1. PICK k \in Nat, m \in 0 .. 7 : S = 8 * k + m /\ S \div 8 = k
  <2>1. S \div 8 \in Nat /\ S = 8 * (S \div 8) + (S % 8) /\ S % 8 \in 0 .. 7
    OBVIOUS
  <2> QED
    BY <2>1
<1>2. V \div 4 \in Nat /\ V \div 4 <= V
  OBVIOUS
<1> DEFINE d  == R - (S \div 8)
           S2 == S + d
           V2 == V + (IF d < 0 THEN -d ELSE d) - (V \div 4)
<1>3. CASE R >= k
  <2>1. S2 \in Nat /\ S2 >= S /\ S2 \div 8 >= k
    BY <1>1, <1>3
  <2>2. V2 \in Nat /\ V2 >= R - k
    BY <1>1, <1>2, <1>3
  <2> QED
    BY <1>1, <1>3, <2>1, <2>2
<1>4. CASE R < k
  <2>1. S2 = 7 * k + m + R /\ S2 >= 8 * R
    BY <1>1, <1>4
  <2>2. S2 \in Nat /\ S2 >= 8 /\ S2 \div 8 >= R
    BY <1>1, <2>1
  <2>3. V2 \in Nat
    BY <1>1, <1>2, <1>4
  <2> QED
    BY <2>2, <2>3
<1> QED
  BY <1>1, <1>3, <1>4

-----------------------------------------------------------------------------
\* The limits of the timer.
LEMMA TickLimits ==
  /\ TCPTV_MIN \in Nat /\ TCPTV_MIN >= 1 /\ TCPTV_REXMTMAX \in Nat
  /\ TCPTV_MIN <= TCPTV_REXMTMAX /\ TCP_MAXRXTSHIFT \in Nat /\ MaxShift \in Nat
  BY TimerAssumption, SendAssumption, SenderAssumption

\* The clamped timeout of estimates that cover r covers r up to the maximum.
LEMMA TimeoutCovers ==
  ASSUME NEW e, e.t_srtt \in Nat, e.t_rttvar \in Nat, NEW r \in Nat,
         (e.t_srtt \div 8) + e.t_rttvar >= r
  PROVE  /\ timeout_of(e) \in TCPTV_MIN .. TCPTV_REXMTMAX
         /\ timeout_of(e) >= MIN(r, TCPTV_REXMTMAX)
<1>1. (e.t_srtt \div 8) + e.t_rttvar \in Nat
  OBVIOUS
<1> QED
  BY <1>1, TickLimits DEF timeout_of, MIN, MAX

\* utcp_xmit_timer keeps the estimator sane for any sample.
LEMMA XmitTimerSane ==
  ASSUME NEW e, Sane(e), NEW age \in Nat
  PROVE  Sane(utcp_xmit_timer(e, age))
<1> DEFINE r == MAX(age, 1)
           next == IF e.t_srtt = 0 THEN [e EXCEPT !.t_srtt = 8 * r, !.t_rttvar = 2 * r]
                                   ELSE smoothed(e, r)
<1>1. r \in Nat /\ r >= 1
  BY DEF MAX
<1> HIDE DEF r
<1>2. Ranged(e) /\ e.t_srtt \in Nat /\ e.t_rttvar \in Nat
  BY DEF Sane, Ranged, Fields
<1>3. /\ Ranged(next)
      /\ next.t_srtt \in Nat /\ next.t_srtt >= 8 /\ next.t_rttvar \in Nat
      /\ (next.t_srtt \div 8) + next.t_rttvar >= r
  <2>1. CASE e.t_srtt = 0
    <3>1. next = [e EXCEPT !.t_srtt = 8 * r, !.t_rttvar = 2 * r]
      BY <2>1
    <3>2. 8 * r \in Nat /\ 2 * r \in Nat
      BY <1>1
    <3> HIDE DEF next
    <3>3. \A a, b \in Nat : Ranged([e EXCEPT !.t_srtt = a, !.t_rttvar = b])
      BY <1>2 DEF Ranged, Fields
    <3>4. Ranged(next) /\ next.t_srtt = 8 * r /\ next.t_rttvar = 2 * r
      BY <1>2, <3>1, <3>2, <3>3 DEF Ranged, Fields
    <3>5. (8 * r) \div 8 = r
      BY <1>1, FirstSample
    <3> QED
      BY <1>1, <3>4, <3>5
  <2>2. CASE e.t_srtt # 0
    <3> DEFINE d == r - (e.t_srtt \div 8)
               S2 == e.t_srtt + d
               V2 == e.t_rttvar + (IF d < 0 THEN -d ELSE d) - (e.t_rttvar \div 4)
    <3>1. e.t_srtt >= 8
      BY <2>2 DEF Sane
    <3>2. S2 \in Nat /\ S2 >= 8 /\ V2 \in Nat /\ (S2 \div 8) + V2 >= r
      BY <1>1, <1>2, <3>1, NextSample
    <3>3. next = [e EXCEPT !.t_srtt = S2, !.t_rttvar = V2]
      BY <2>2 DEF smoothed
    <3> HIDE DEF S2, V2, next
    <3>4. Ranged(next) /\ next.t_srtt = S2 /\ next.t_rttvar = V2
      BY <1>2, <3>2, <3>3 DEF Ranged, Fields
    <3> QED
      BY <3>2, <3>4
  <2> QED
    BY <2>1, <2>2
<1>4. utcp_xmit_timer(e, age) = [next EXCEPT !.t_rxtcur = timeout_of(next), !.sample = r]
  BY DEF utcp_xmit_timer, r
<1> HIDE DEF next
<1>5. /\ timeout_of(next) \in TCPTV_MIN .. TCPTV_REXMTMAX
      /\ timeout_of(next) >= MIN(r, TCPTV_REXMTMAX)
  BY <1>1, <1>3, TimeoutCovers
<1> QED
  BY <1>1, <1>3, <1>4, <1>5 DEF Sane, Ranged, Fields

\* A length taken from the back-off table is positive and within the maximum.
LEMMA BackoffTicks ==
  ASSUME NEW e, Sane(e), NEW shift \in Nat, shift <= MaxShift
  PROVE  backoff_ticks(e, shift) \in 1 .. TCPTV_REXMTMAX
<1>1. e.t_rxtcur \in Nat /\ e.t_rxtcur >= 1
  BY TickLimits DEF Sane, Ranged, Fields
<1>2. tcp_backoff[shift] \in Nat /\ tcp_backoff[shift] >= 1
  BY TickLimits, TimerAssumption
<1>3. e.t_rxtcur * tcp_backoff[shift] \in Nat /\ e.t_rxtcur * tcp_backoff[shift] >= 1
  BY <1>1, <1>2
<1> QED
  BY <1>3, TickLimits DEF backoff_ticks, MIN

\* Setting the counters keeps the estimates.
LEMMA CountersSane ==
  ASSUME NEW e, Sane(e), NEW n \in 0 .. TCPTV_REXMTMAX, NEW k \in Nat, NEW q
  PROVE  Sane([e EXCEPT !.t_timer = n, !.t_rtt = k, !.t_rtseq = q])
  BY DEF Sane, Ranged, Fields

-----------------------------------------------------------------------------
\* Steps

\* utcp_output's part.
LEMMA StartedSane ==
  ASSUME NEW e, Sane(e)
  PROVE  Sane(started(e))
<1> DEFINE n == IF e.t_timer = 0 /\ s'.snd_nxt > MAX(s.snd_nxt, s'.snd_una)
                  THEN e.t_rxtcur ELSE e.t_timer
           k == IF e.t_rtt = 0 /\ new # {} THEN 1 ELSE e.t_rtt
           q == IF e.t_rtt = 0 /\ new # {} THEN Min(new) ELSE e.t_rtseq
<1>1. n \in 0 .. TCPTV_REXMTMAX /\ k \in Nat
  BY TickLimits DEF Sane, Ranged, Fields
<1>2. started(e) = [e EXCEPT !.t_timer = n, !.t_rtt = k, !.t_rtseq = q]
  BY DEF started, Sane, Ranged, Fields
<1> HIDE DEF n, k, q
<1> QED
  BY <1>1, <1>2 DEF Sane, Ranged, Fields

\* Giving up a measurement.
LEMMA KarnSane ==
  ASSUME NEW e, Sane(e)
  PROVE  Sane([e EXCEPT !.t_rtt = 0]) /\ Sane(karn(e))
  BY DEF karn, Sane, Ranged, Fields

\* The measurement an ACK brings.
LEMMA SampledSane ==
  ASSUME Sane(t), NEW ack, NEW age \in Nat \cup {NoTsecr}
  PROVE  Sane(sampled(ack, age))
<1>1. t.t_rtt \in Nat
  BY DEF Sane, Ranged, Fields
<1>2. CASE t.ts_enabled /\ age # NoTsecr
  <2>1. Sane(utcp_xmit_timer(t, age))
    BY <1>2, XmitTimerSane
  <2> QED
    BY <1>2, <2>1, KarnSane DEF sampled
<1>3. CASE ~t.ts_enabled /\ t.t_rtt # 0 /\ ack > t.t_rtseq
  <2>1. Sane(utcp_xmit_timer(t, t.t_rtt - 1))
    BY <1>1, <1>3, XmitTimerSane
  <2> QED
    BY <1>3, <2>1, KarnSane DEF sampled
<1>4. CASE /\ ~(t.ts_enabled /\ age # NoTsecr)
           /\ ~(~t.ts_enabled /\ t.t_rtt # 0 /\ ack > t.t_rtseq)
  BY <1>4 DEF sampled
<1> QED
  BY <1>2, <1>3, <1>4

\* The timer after an ACK.
LEMMA RearmedSane ==
  ASSUME NEW e, Sane(e), NEW ack, s.t_rxtshift \in Nat, s.t_rxtshift <= MaxShift
  PROVE  Sane(rearmed(e, ack)) /\ (ack # s.snd_max => rearmed(e, ack).t_timer > 0)
<1> DEFINE n == IF ack = s.snd_max THEN 0
                ELSE IF s.t_rxtshift > 0 THEN backoff_ticks(e, s.t_rxtshift) ELSE e.t_rxtcur
<1>1. n \in 0 .. TCPTV_REXMTMAX /\ (ack # s.snd_max => n > 0)
  BY TickLimits, BackoffTicks DEF Sane, Ranged, Fields
<1>2. rearmed(e, ack) = [e EXCEPT !.t_timer = n]
  BY DEF rearmed
<1> HIDE DEF n
<1> QED
  BY <1>1, <1>2 DEF Sane, Ranged, Fields

\* A sample ends the measurement it is taken from.
LEMMA SampledTimes ==
  ASSUME Sane(t), NEW ack, NEW age \in Nat \cup {NoTsecr}
  PROVE  /\ sampled(ack, age).t_rtseq = t.t_rtseq
         /\ sampled(ack, age).t_rtt > 0 => t.t_rtt > 0
<1> DEFINE with(a) == [utcp_xmit_timer(t, a) EXCEPT !.t_rtt = 0]
<1>1. t.t_rtt \in Nat /\ ~(0 > 0)
  BY DEF Sane, Ranged, Fields
<1>2. ASSUME NEW a \in Nat PROVE with(a).t_rtseq = t.t_rtseq /\ with(a).t_rtt = 0
  <2>1. Sane(utcp_xmit_timer(t, a))
    BY XmitTimerSane
  <2>2. utcp_xmit_timer(t, a).t_rtseq = t.t_rtseq
    BY DEF utcp_xmit_timer, smoothed, Sane, Ranged, Fields
  <2> QED
    BY <2>1, <2>2 DEF Sane, Ranged, Fields
<1> HIDE DEF with
<1>3. CASE t.ts_enabled /\ age # NoTsecr
  BY <1>1, <1>2, <1>3 DEF sampled, with
<1>4. CASE ~t.ts_enabled /\ t.t_rtt # 0 /\ ack > t.t_rtseq
  <2>1. t.t_rtt - 1 \in Nat
    BY <1>1, <1>4
  <2>2. sampled(ack, age) = with(t.t_rtt - 1)
    BY <1>4 DEF sampled, with
  <2> QED
    BY <1>1, <1>2, <2>1, <2>2
<1>5. CASE /\ ~(t.ts_enabled /\ age # NoTsecr)
           /\ ~(~t.ts_enabled /\ t.t_rtt # 0 /\ ack > t.t_rtseq)
  BY <1>5 DEF sampled
<1> QED
  BY <1>3, <1>4, <1>5

TimedInv == SendInv /\ Sane(t)

LEMMA TimedInitInv == TimedInit => TimedInv
<1> SUFFICES ASSUME TimedInit PROVE TimedInv
  OBVIOUS
<1>1. SendInv
  BY InitInv DEF TimedInit
<1>2. PICK ts \in BOOLEAN :
        t = [t_timer |-> 0, t_rtt |-> 0, t_rtseq |-> 0, t_srtt |-> 0, t_rttvar |-> 0,
             t_rxtcur |-> TCPTV_SRTTDFLT, ts_enabled |-> ts, sample |-> 0]
  BY TimerAssumption DEF TimedInit
<1>3. Ranged(t) /\ t.t_srtt = 0 /\ t.sample = 0 /\ t.t_rxtcur \in Nat
  BY <1>2, TimerAssumption DEF Ranged, Fields
<1> QED
  BY <1>1, <1>3, TickLimits DEF TimedInv, Sane, MIN

\* Every step is one of Sender, or a tick that leaves the send half alone.
LEMMA TimedIsNext == TimedNext => [Next]_vars
<1>1. TimedApp => [Next]_vars
  BY DEF TimedApp, Next
<1>2. ASSUME NEW ack \in Acks, NEW win \in Windows, NEW in \in Inputs, NEW has_data \in BOOLEAN,
             NEW dropped \in BOOLEAN, NEW age \in Ages,
             TimedRecv(ack, win, has_data, dropped, age, in)
      PROVE  [Next]_vars
  BY <1>2 DEF TimedRecv, Next
<1>3. Tick => [Next]_vars
  BY DEF Tick, vars
<1>4. ASSUME NEW in \in Inputs, Expire(in) PROVE [Next]_vars
  BY <1>4 DEF Expire, Next
<1> QED
  BY <1>1, <1>2, <1>3, <1>4 DEF TimedNext

LEMMA TimedStepInv ==
  ASSUME TimedInv, [TimedNext]_timed_vars PROVE TimedInv'
<1>1. [Next]_vars
  BY TimedIsNext DEF timed_vars, vars
<1>2. SendInv'
  BY <1>1, StepInv DEF TimedInv
<1>3. Sane(t) /\ s.t_rxtshift \in Nat /\ s.t_rxtshift <= MaxShift
  <2>1. s.t_rxtshift \in 0 .. TCP_MAXRXTSHIFT + 1 /\ TCP_MAXRXTSHIFT \in Nat
    BY SendAssumption DEF TimedInv, SendInv, Good, SendHalves
  <2> QED
    BY <2>1 DEF TimedInv, SendInv
<1>4. ASSUME TimedApp PROVE Sane(t')
  BY <1>3, <1>4, StartedSane DEF TimedApp
<1>5. ASSUME NEW ack \in Acks, NEW win \in Windows, NEW in \in Inputs, NEW has_data \in BOOLEAN,
             NEW dropped \in BOOLEAN, NEW age \in Ages,
             TimedRecv(ack, win, has_data, dropped, age, in)
      PROVE  Sane(t')
  <2> DEFINE e == IF valid_ack(s, ack) THEN rearmed(sampled(ack, age), ack) ELSE t
  <2>1. age \in Nat \cup {NoTsecr}
    BY TimerAssumption
  <2>2. Sane(e)
    BY <1>3, <2>1, SampledSane, RearmedSane
  <2>3. t' = started(karn(e))
    BY <1>5 DEF TimedRecv
  <2> QED
    BY <2>2, <2>3, KarnSane, StartedSane
<1>6. ASSUME Tick PROVE Sane(t')
  <2> DEFINE n == IF t.t_timer > 0 THEN t.t_timer - 1 ELSE 0
             k == IF t.t_rtt > 0 THEN t.t_rtt + 1 ELSE 0
  <2>1. n \in 0 .. TCPTV_REXMTMAX /\ k \in Nat
    BY <1>3, TickLimits DEF Sane, Ranged, Fields
  <2>2. t' = [t EXCEPT !.t_timer = n, !.t_rtt = k, !.t_rtseq = t.t_rtseq]
    BY <1>3, <1>6 DEF Tick, counted, Sane, Ranged, Fields
  <2> HIDE DEF n, k
  <2> QED
    BY <1>3, <2>1, <2>2, CountersSane
<1>7. ASSUME NEW in \in Inputs, Expire(in) PROVE Sane(t')
  <2> DEFINE n == backoff_ticks(t, s'.t_rxtshift)
             e == [counted EXCEPT !.t_timer = n, !.t_rtt = 0]
  <2>1. s'.t_rxtshift \in Nat /\ s'.t_rxtshift <= MaxShift
    <3>1. s'.t_rxtshift \in 0 .. TCP_MAXRXTSHIFT + 1 /\ TCP_MAXRXTSHIFT \in Nat
      BY <1>2, SendAssumption DEF SendInv, Good, SendHalves
    <3> QED
      BY <1>2, <3>1 DEF SendInv
  <2>2. n \in 0 .. TCPTV_REXMTMAX
    BY <1>3, <2>1, BackoffTicks
  <2> HIDE DEF n
  <2>3. e = [t EXCEPT !.t_timer = n, !.t_rtt = 0, !.t_rtseq = t.t_rtseq]
    BY <1>3 DEF counted, Sane, Ranged, Fields
  <2>4. Sane(e)
    <3>1. 0 \in Nat
      OBVIOUS
    <3> HIDE DEF e
    <3> QED
      BY <1>3, <2>2, <2>3, <3>1 DEF Sane, Ranged, Fields
  <2>5. t' = started(e)
    BY <1>7 DEF Expire, n
  <2> QED
    BY <2>4, <2>5, StartedSane
<1>8. ASSUME UNCHANGED timed_vars PROVE Sane(t')
  BY <1>3, <1>8 DEF timed_vars
<1>9. Sane(t')
  BY <1>3, <1>4, <1>5, <1>6, <1>7, <1>8 DEF TimedNext
<1> QED
  BY <1>2, <1>9 DEF TimedInv, Sane, Ranged, Fields

\* The estimator's inductive invariant, with that of the send half beneath it:
\* ranges, the unit of t_srtt, and a timeout that covers the last sample.
THEOREM TimedInvariance == TimedSpec => []TimedInv
<1>1. TimedInit => TimedInv
  BY TimedInitInv
<1>2. TimedInv /\ [TimedNext]_timed_vars => TimedInv'
  BY TimedStepInv
<1> QED
  BY <1>1, <1>2, PTL DEF TimedSpec

\* utcp_xmit_timer keeps t_rxtcur within its limits and never lets an unsigned
\* estimate go below zero, for every sequence of samples.
THEOREM EstimatorStaysSane == TimedSpec => []EstimatorSane
<1>1. TimedInv => EstimatorSane
  BY DEF TimedInv, Sane, Ranged, Fields, EstimatorSane
<1> QED
  BY <1>1, TimedInvariance, PTL

\* The timeout computed by utcp_xmit_timer is at least the sample it was given,
\* up to TCPTV_REXMTMAX.
THEOREM TimeoutCoversSample == TimedSpec => []RtoCoversSample
<1>1. TimedInv => RtoCoversSample
  BY DEF TimedInv, Sane, RtoCoversSample
<1> QED
  BY <1>1, TimedInvariance, PTL
-----------------------------------------------------------------------------
\* The timer in ticks and the flag of Sender

Running == t.t_timer > 0 <=> s.snd_una < s.snd_max

\* utcp_output starts an idle timer exactly when it is the first to leave data
\* unacknowledged.
LEMMA StartedRuns ==
  ASSUME NEW e, Sane(e), Good(s), Good(s'), Forward(s, s'), s'.snd_una <= s.snd_max,
         e.t_timer > 0 <=> s'.snd_una < s.snd_max
  PROVE  started(e).t_timer > 0 <=> s'.snd_una < s'.snd_max
<1>1. /\ e.t_timer \in Nat /\ e.t_rxtcur \in Nat /\ e.t_rxtcur > 0
      /\ s \in SendHalves /\ s' \in SendHalves
      /\ s.snd_nxt <= s.snd_max /\ s'.snd_una <= s'.snd_nxt /\ s'.snd_nxt <= s'.snd_max
  BY TickLimits DEF Sane, Ranged, Fields, Good, Ordered
<1>2. /\ s.snd_nxt \in Nat /\ s.snd_max \in Nat
      /\ s'.snd_una \in Nat /\ s'.snd_nxt \in Nat /\ s'.snd_max \in Nat
  BY <1>1, CcTypes
<1>3. started(e).t_timer = IF e.t_timer = 0 /\ s'.snd_nxt > MAX(s.snd_nxt, s'.snd_una)
                             THEN e.t_rxtcur ELSE e.t_timer
  BY DEF started, Sane, Ranged, Fields
<1>4. started(e).t_timer > 0 <=> e.t_timer > 0 \/ s'.snd_nxt > MAX(s.snd_nxt, s'.snd_una)
  BY <1>1, <1>2, <1>3
<1> QED
  BY <1>1, <1>2, <1>4 DEF Forward, MAX

\* Clearing the record of sent segments moves nothing.
LEMMA QuietForward ==
  ASSUME Good(s)
  PROVE  /\ quiet.snd_una = s.snd_una /\ quiet.snd_nxt = s.snd_nxt /\ quiet.snd_max = s.snd_max
         /\ Good(quiet) /\ Forward(s, quiet)
<1>1. s \in SendHalves
  BY DEF Good
<1>2. quiet.snd_una = s.snd_una /\ quiet.snd_nxt = s.snd_nxt /\ quiet.snd_max = s.snd_max
  BY <1>1 DEF quiet, SendHalves
<1>3. s.snd_nxt \in Nat /\ s.snd_max \in Nat
  BY <1>1, CcTypes
<1> QED
  BY <1>2, <1>3, QuietGood DEF Forward

\* The application only adds to what is in flight.
LEMMA AppForward ==
  ASSUME SendInv, TimedApp
  PROVE  s'.snd_una = s.snd_una /\ Forward(s, s') /\ Onward(quiet, s')
<1>1. Good(s) /\ app.left \in Nat
  BY DEF SendInv, AppInv
<1>2. /\ quiet.snd_una = s.snd_una /\ quiet.snd_nxt = s.snd_nxt /\ quiet.snd_max = s.snd_max
      /\ Good(quiet) /\ Forward(s, quiet) /\ Kept(s, quiet)
  BY <1>1, QuietForward, QuietGood
<1>3. CASE s' = quiet
  BY <1>2, <1>3 DEF Onward
<1>4. CASE WriteChunk /\ s' # quiet
  <2> DEFINE n == MIN(app.left, send_free_space(s))
             data == Stream(s.send_buf_tail + 1, n)
             u == append(quiet, data)
  <2>1. s' = u
    BY <1>4 DEF WriteChunk
  <2>2. send_free_space(s) \in Nat /\ send_free_space(quiet) = send_free_space(s)
    BY <1>1, <1>2, FreeSpace DEF send_free_space, Kept
  <2>3. n \in Nat /\ n <= send_free_space(quiet)
    BY <1>1, <2>2 DEF MIN
  <2> HIDE DEF n
  <2>4. s.send_buf_tail \in Nat
    BY <1>1 DEF Good, SendHalves
  <2>5. data \in Seq(Nat) /\ Len(data) = n
    BY <2>3, <2>4 DEF Stream
  <2> HIDE DEF data
  <2>6. u.snd_una = quiet.snd_una /\ Forward(quiet, u) /\ Onward(quiet, u)
    BY <1>2, <2>3, <2>5, AppendGood
  <2> HIDE DEF u
  <2> QED
    BY <1>2, <2>1, <2>6 DEF Forward
<1> QED
  BY <1>3, <1>4 DEF TimedApp, SendCall, Drain

\* A segment of the peer moves snd_una to its ACK if that is new.
LEMMA RecvForward ==
  ASSUME SendInv, NEW ack \in Acks, NEW win \in Windows, NEW in \in Inputs,
         NEW has_data \in BOOLEAN,
         \/ s' = utcp_output(handle_ack(quiet, ack, win, has_data, in))
         \/ s' = handle_ack(quiet, ack, win, has_data, in)
  PROVE  /\ Forward(s, s')
         /\ s'.snd_una = IF valid_ack(s, ack) THEN ack ELSE s.snd_una
         /\ Sends(quiet, s')
<1> DEFINE h == handle_ack(quiet, ack, win, has_data, in)
<1>1. Good(s) /\ s \in SendHalves
  BY DEF SendInv, Good
<1>2. s.send_buf_tail \in Nat
  BY <1>1 DEF SendHalves
<1>3. ack \in Nat /\ win \in Nat
  BY <1>2, SenderAssumption DEF Acks
<1>4. /\ quiet.snd_una = s.snd_una /\ quiet.snd_nxt = s.snd_nxt /\ quiet.snd_max = s.snd_max
      /\ Good(quiet) /\ Forward(s, quiet)
  BY <1>1, QuietForward
<1>5. /\ Good(h) /\ Forward(quiet, h)
      /\ h.snd_una = IF valid_ack(quiet, ack) THEN ack ELSE quiet.snd_una
      /\ Sends(quiet, h)
  BY <1>3, <1>4, HandleAck
<1> HIDE DEF h
<1>6. Forward(s, h) /\ h.snd_una = IF valid_ack(s, ack) THEN ack ELSE s.snd_una
  BY <1>4, <1>5 DEF Forward, valid_ack
<1>7. CASE s' = h
  BY <1>5, <1>6, <1>7
<1>8. CASE s' = utcp_output(h)
  <2> DEFINE w == utcp_output(h)
  <2>1. Good(w) /\ Kept(h, w) /\ Forward(h, w) /\ Onward(h, w)
    BY <1>5, OutputKept, OutputSent
  <2> HIDE DEF w
  <2>2. Forward(s, w)
    BY <1>1, <1>5, <1>6, <2>1, ForwardTrans DEF Good
  <2>3. Sends(quiet, w)
    <3>1. /\ quiet.snd_nxt \in Nat /\ h.snd_nxt \in Nat /\ w.snd_nxt \in Nat
          /\ \A g \in w.out \cup h.out : g.seq \in Nat
      BY <1>4, <1>5, <2>1 DEF Good, SendHalves
    <3>2. quiet.snd_nxt <= h.snd_nxt /\ h.snd_nxt <= w.snd_nxt /\ w.snd_una = h.snd_una
      BY <1>5, <2>1 DEF Forward, Kept
    <3>3. \A g \in w.out \cup h.out :
            /\ h.snd_nxt <= g.seq => quiet.snd_nxt <= g.seq
            /\ g.seq < h.snd_nxt => g.seq < w.snd_nxt
      BY <3>1, <3>2
    <3> QED
      BY <1>5, <2>1, <3>2, <3>3 DEF Sends, Onward
  <2> QED
    BY <1>6, <1>8, <2>1, <2>2, <2>3 DEF Kept, w
<1> QED
  BY <1>7, <1>8 DEF h

\* Giving up a measurement, and taking one, leave the timer alone.
LEMMA KarnTimer ==
  ASSUME NEW e, Sane(e)
  PROVE  karn(e).t_timer = e.t_timer
  BY DEF karn, Sane, Ranged, Fields

\* A step keeps the timer running exactly while data is unacknowledged.
LEMMA RunningStep ==
  ASSUME TimedInv, Running, [TimedNext]_timed_vars PROVE Running'
<1>1. TimedInv'
  BY TimedStepInv
<1>2. /\ Good(s) /\ Good(s') /\ Sane(t) /\ SendInv
      /\ s.snd_una \in Nat /\ s.snd_max \in Nat /\ s.snd_una <= s.snd_max
      /\ s'.snd_una \in Nat /\ s'.snd_max \in Nat
  <2>1. Good(s) /\ Good(s') /\ Sane(t) /\ SendInv
    BY <1>1 DEF TimedInv, SendInv
  <2>2. /\ s \in SendHalves /\ s' \in SendHalves
        /\ s.snd_una <= s.snd_nxt /\ s.snd_nxt <= s.snd_max
    BY <2>1 DEF Good, Ordered
  <2>3. /\ s.snd_una \in Nat /\ s.snd_nxt \in Nat /\ s.snd_max \in Nat
        /\ s'.snd_una \in Nat /\ s'.snd_max \in Nat
    BY <2>2, CcTypes
  <2> QED
    BY <2>1, <2>2, <2>3
<1>3. s.t_rxtshift \in Nat /\ s.t_rxtshift <= MaxShift
  <2>1. s.t_rxtshift \in 0 .. TCP_MAXRXTSHIFT + 1 /\ TCP_MAXRXTSHIFT \in Nat
    BY <1>2, SendAssumption DEF Good, SendHalves
  <2> QED
    BY <1>2, <2>1 DEF SendInv
<1>4. ASSUME TimedApp PROVE Running'
  <2>1. t' = started(t)
    BY <1>4 DEF TimedApp
  <2>2. s'.snd_una = s.snd_una /\ Forward(s, s')
    BY <1>2, <1>4, AppForward
  <2> QED
    BY <1>2, <2>1, <2>2, StartedRuns DEF Running
<1>5. ASSUME NEW ack \in Acks, NEW win \in Windows, NEW in \in Inputs, NEW has_data \in BOOLEAN,
             NEW dropped \in BOOLEAN, NEW age \in Ages,
             TimedRecv(ack, win, has_data, dropped, age, in)
      PROVE  Running'
  <2> DEFINE e == IF valid_ack(s, ack) THEN rearmed(sampled(ack, age), ack) ELSE t
  <2>1. t' = started(karn(e))
    BY <1>5 DEF TimedRecv
  <2>2. /\ Forward(s, s')
        /\ s'.snd_una = IF valid_ack(s, ack) THEN ack ELSE s.snd_una
    <3>1. \/ s' = utcp_output(handle_ack(quiet, ack, win, has_data, in))
          \/ s' = handle_ack(quiet, ack, win, has_data, in)
      BY <1>5 DEF TimedRecv, RecvAck, RecvAckDropped
    <3> QED
      BY <1>2, <3>1, RecvForward
  <2>3. Sane(e) /\ s'.snd_una <= s.snd_max /\ (e.t_timer > 0 <=> s'.snd_una < s.snd_max)
    <3>1. CASE valid_ack(s, ack)
      <4> DEFINE p == sampled(ack, age)
      <4>1. Sane(p)
        BY <1>2, SampledSane, TimerAssumption
      <4> HIDE DEF p
      <4>2. Sane(rearmed(p, ack)) /\ (ack # s.snd_max => rearmed(p, ack).t_timer > 0)
        BY <1>3, <4>1, RearmedSane
      <4>3. ack = s.snd_max => rearmed(p, ack).t_timer = 0
        BY <4>1 DEF rearmed, Sane, Ranged, Fields
      <4>4. s'.snd_una = ack /\ ack <= s.snd_max
        BY <2>2, <3>1 DEF valid_ack
      <4> QED
        BY <1>2, <3>1, <4>2, <4>3, <4>4 DEF p
    <3>2. CASE ~valid_ack(s, ack)
      BY <1>2, <2>2, <3>2 DEF Running
    <3> QED
      BY <3>1, <3>2
  <2> HIDE DEF e
  <2>4. Sane(karn(e)) /\ karn(e).t_timer = e.t_timer
    BY <2>3, KarnSane, KarnTimer
  <2>5. started(karn(e)).t_timer > 0 <=> s'.snd_una < s'.snd_max
    BY <1>2, <2>2, <2>3, <2>4, StartedRuns
  <2> QED
    BY <2>1, <2>5 DEF Running
<1>6. ASSUME Tick PROVE Running'
  <2>1. /\ t.t_timer # 1 /\ t.t_timer \in Nat /\ s' = s
        /\ t'.t_timer = IF t.t_timer > 0 THEN t.t_timer - 1 ELSE 0
    BY <1>2, <1>6, TickLimits DEF Tick, counted, Sane, Ranged, Fields
  <2> QED
    BY <2>1 DEF Running
<1>7. ASSUME NEW in \in Inputs, Expire(in) PROVE Running'
  <2> DEFINE n == backoff_ticks(t, s'.t_rxtshift)
             e == [counted EXCEPT !.t_timer = n, !.t_rtt = 0]
             u == rexmt_timeout(quiet, in)
  <2>1. t.t_timer = 1 /\ s' = u /\ t' = started(e)
    BY <1>7 DEF Expire, Timeout
  <2>2. s.snd_una < s.snd_max
    BY <2>1 DEF Running
  <2>3. /\ quiet.snd_una = s.snd_una /\ quiet.snd_max = s.snd_max /\ Good(quiet)
    BY <1>2, QuietForward
  <2>4. u.snd_una = quiet.snd_una /\ quiet.snd_max <= u.snd_max
    <3>1. quiet.rexmt
      BY <1>2, <1>7, QuietGood DEF Expire, Timeout, quiet, Good, SendHalves
    <3> QED
      BY <2>3, <3>1, RexmtTimeoutGood
  <2> HIDE DEF u
  <2>5. s'.snd_una < s'.snd_max
    BY <1>2, <2>1, <2>2, <2>3, <2>4
  <2>6. s'.t_rxtshift \in Nat /\ s'.t_rxtshift <= MaxShift
    <3>1. s'.t_rxtshift \in 0 .. TCP_MAXRXTSHIFT + 1 /\ TCP_MAXRXTSHIFT \in Nat
      BY <1>2, SendAssumption DEF Good, SendHalves
    <3> QED
      BY <1>1, <3>1 DEF TimedInv, SendInv
  <2>7. n \in 1 .. TCPTV_REXMTMAX
    BY <1>2, <2>6, BackoffTicks
  <2> HIDE DEF n
  <2>8. started(e).t_timer = n
    BY <1>2, <2>7, TickLimits DEF started, counted, Sane, Ranged, Fields
  <2> QED
    BY <2>1, <2>5, <2>7, <2>8, TickLimits DEF Running
<1>8. ASSUME UNCHANGED timed_vars PROVE Running'
  BY <1>8 DEF timed_vars, Running
<1> QED
  BY <1>4, <1>5, <1>6, <1>7, <1>8 DEF TimedNext

\* The timer counted in ticks runs exactly when Sender's flag says that it
\* does: through every output, ACK, timeout and turn of the ticker thread.
THEOREM TimerMatchesFlag == TimedSpec => []TimerAgrees
<1>1. TimedInit => TimedInv /\ Timed(s) /\ Running
  <2> SUFFICES ASSUME TimedInit PROVE TimedInv /\ Timed(s) /\ Running
    OBVIOUS
  <2>1. TimedInv /\ Timed(s)
    BY TimedInitInv, InitInv DEF TimedInit
  <2>2. t.t_timer = 0 /\ ~s.rexmt
    BY DEF TimedInit, Init, cc_event_init, cc_init
  <2> QED
    BY <2>1, <2>2 DEF Timed, Running
<1>2. TimedInv /\ Timed(s) /\ Running /\ [TimedNext]_timed_vars
        => TimedInv' /\ Timed(s)' /\ Running'
  <2> SUFFICES ASSUME TimedInv, Timed(s), Running, [TimedNext]_timed_vars
               PROVE  TimedInv' /\ Timed(s)' /\ Running'
    OBVIOUS
  <2>1. [Next]_vars
    BY TimedIsNext DEF timed_vars, vars
  <2>2. Timed(s)'
    BY <2>1, StepInv, TimerAssumption DEF TimedInv
  <2> QED
    BY <2>2, TimedStepInv, RunningStep
<1>3. Timed(s) /\ Running => TimerAgrees
  BY DEF Timed, Running, TimerAgrees
<1> QED
  BY <1>1, <1>2, <1>3, PTL DEF TimedSpec
-----------------------------------------------------------------------------
\* Karn's rule

LEMMA MinOfNats ==
  ASSUME NEW S \in SUBSET Nat, S # {}
  PROVE  Min(S) \in S
<1>1. \E x \in S : \A y \in S : ~ (<<y, x>> \in OpToRel(<, Nat))
  BY NatLessThanWellFounded, WFMin
<1>2. PICK x \in S : \A y \in S : ~ (y < x)
  BY <1>1 DEF OpToRel
<1>3. \E z \in S : \A y \in S : z <= y
  BY <1>2
<1> QED
  BY <1>3 DEF Min

\* Under NewReno the timed byte, if there is one, was not sent again, and lies
\* behind snd_nxt: utcp_output does not send it again.
TimedBehind == t.t_rtt > 0 => t.t_rtseq \in Nat /\ t.t_rtseq < s.snd_nxt

\* What was ever on the wire reaches less than a segment past snd_max.
Reached == \A n \in wired : n \in Nat /\ n < s.snd_max + MSS - 1

Once == s.cc_ops \in NewRenos => ~again /\ TimedBehind /\ Reached

\* A measurement that survives a step is of a byte the step did not send; one
\* that starts is of a byte behind snd_nxt.
LEMMA OnceStarted ==
  ASSUME Good(s), Good(s'), NEW e, Sane(e), e.t_rtseq = t.t_rtseq, ~again, TimedBehind,
         e.t_rtt > 0 => t.t_rtt > 0 /\ t.t_rtseq \notin carried /\ s.snd_nxt <= s'.snd_nxt,
         \A n \in new : n < s'.snd_nxt,
         t' = started(e), Recorded
  PROVE  ~again' /\ TimedBehind'
<1>1. /\ s.snd_nxt \in Nat /\ s.snd_max \in Nat /\ s.snd_nxt <= s.snd_max /\ s'.snd_nxt \in Nat
      /\ e.t_rtt \in Nat
  BY DEF Good, SendHalves, Ordered, Sane, Ranged, Fields
<1>2. /\ t'.t_rtt = IF e.t_rtt = 0 /\ new # {} THEN 1 ELSE e.t_rtt
      /\ t'.t_rtseq = IF e.t_rtt = 0 /\ new # {} THEN Min(new) ELSE e.t_rtseq
  BY DEF started, Sane, Ranged, Fields
<1>3. CASE e.t_rtt > 0
  <2>1. t'.t_rtt = e.t_rtt /\ t'.t_rtseq = t.t_rtseq
    BY <1>1, <1>2, <1>3
  <2>2. ~again'
    BY <1>3, <2>1 DEF Recorded
  <2> QED
    BY <1>1, <1>3, <2>1, <2>2 DEF TimedBehind
<1>4. CASE e.t_rtt = 0 /\ new # {}
  <2> DEFINE q == Min(new)
  <2>1. new \subseteq Nat
    <3>1. \A g \in s'.out : g.seq \in Nat
      BY DEF Good, SendHalves
    <3> QED
      BY <3>1 DEF new, sent
  <2>2. q \in new
    BY <1>4, <2>1, MinOfNats
  <2>3. t'.t_rtt = 1 /\ t'.t_rtseq = q
    BY <1>2, <1>4
  <2> HIDE DEF q
  <2>4. q \in Nat /\ q >= s.snd_max /\ q < s'.snd_nxt
    BY <2>1, <2>2 DEF new
  <2>5. t.t_rtt > 0 => t.t_rtseq # q
    BY <1>1, <2>4 DEF TimedBehind
  <2>6. ~again'
    BY <2>3, <2>5 DEF Recorded
  <2> QED
    BY <2>3, <2>4, <2>6 DEF TimedBehind
<1>5. CASE e.t_rtt = 0 /\ new = {}
  <2>1. t'.t_rtt = 0 /\ ~(0 > 0)
    BY <1>2, <1>5
  <2> QED
    BY <2>1 DEF Recorded, TimedBehind
<1> QED
  BY <1>1, <1>3, <1>4, <1>5

\* What a step that is not a timeout sends, by sequence number.
LEMMA SentSince ==
  ASSUME Good(s), Good(s'), Sends(quiet, s'), s.cc_ops \in NewRenos
  PROVE  /\ s'.cc_ops = s.cc_ops
         /\ \A n \in sent : \/ n = s'.snd_una /\ s'.snd_una < s.snd_max
                            \/ s.snd_nxt <= n /\ n < s'.snd_nxt
         /\ \A n \in new : n < s'.snd_nxt
<1>1. /\ quiet.out = {} /\ quiet.cc_ops = s.cc_ops
      /\ quiet.snd_nxt = s.snd_nxt /\ quiet.snd_max = s.snd_max
  BY DEF quiet, Good, SendHalves
<1>2. \A g \in s'.out : \/ g.seq = s'.snd_una /\ s'.snd_una < s.snd_max
                        \/ s.snd_nxt <= g.seq /\ g.seq < s'.snd_nxt
  BY <1>1 DEF Sends
<1>3. \A n \in sent : \/ n = s'.snd_una /\ s'.snd_una < s.snd_max
                      \/ s.snd_nxt <= n /\ n < s'.snd_nxt
  BY <1>2 DEF sent
<1>4. s.snd_max \in Nat /\ s'.snd_una \in Nat
  BY DEF Good, SendHalves
<1>5. \A n \in new : n < s'.snd_nxt
  BY <1>3, <1>4 DEF new
<1> QED
  BY <1>1, <1>3, <1>5 DEF Sends

\* Segments that begin behind a byte do not carry it.
LEMMA NotCarried ==
  ASSUME Good(s'), NEW q \in Nat, \A n \in sent : q < n PROVE q \notin carried
<1> SUFFICES ASSUME NEW g \in s'.out, q \in g.seq .. g.seq + Len(g.data) - 1
             PROVE  FALSE
  BY DEF carried
<1>1. g.seq \in Nat /\ q < g.seq
  BY DEF Good, SendHalves, sent
<1> QED
  BY <1>1

\* Segments that begin before snd_max end less than a segment past it.
LEMMA ReachedStep ==
  ASSUME Good(s), Good(s'), Reached, \A g \in s'.out : Carries(s', g),
         \A n \in sent : n < s'.snd_max, s.snd_max <= s'.snd_max, Recorded
  PROVE  Reached'
<1>1. s.snd_max \in Nat /\ s'.snd_max \in Nat /\ MSS \in Nat
  BY CcAssumption DEF Good, SendHalves
<1>2. ASSUME NEW n \in wired PROVE n \in Nat /\ n < s'.snd_max + MSS - 1
  BY <1>1, <1>2 DEF Reached
<1>3. ASSUME NEW g \in s'.out, NEW n \in g.seq .. g.seq + Len(g.data) - 1
      PROVE  n \in Nat /\ n < s'.snd_max + MSS - 1
  <2>1. g.seq \in Nat /\ Len(g.data) \in Nat
    <3>1. g \in [seq : Nat, data : Seq(Nat)]
      BY DEF Good, SendHalves
    <3> QED
      BY <3>1
  <2>2. g.seq < s'.snd_max /\ Len(g.data) <= MSS
    BY DEF sent, Carries
  <2> QED
    BY <1>1, <2>1, <2>2
<1>4. \A n \in wired' : n \in Nat /\ n < s'.snd_max + MSS - 1
  BY <1>2, <1>3 DEF Recorded, carried
<1> QED
  BY <1>4 DEF Reached

\* A step keeps Karn's rule.
LEMMA OnceStep ==
  ASSUME TimedInv, Truthful(s), Once, [TimedNext]_timed_vars
  PROVE  Once' /\ Truthful(s)'
<1>1. TimedInv' /\ Truthful(s)'
  <2>1. [Next]_vars
    BY TimedIsNext DEF timed_vars, vars
  <2> QED
    BY <2>1, TimedStepInv, StepTrue DEF TimedInv
<1>2. Good(s) /\ Good(s') /\ Sane(t) /\ SendInv
  BY <1>1 DEF TimedInv, SendInv
<1>9. /\ \A g \in s'.out : Carries(s', g)
      /\ s'.snd_nxt \in Nat /\ s'.snd_max \in Nat /\ s'.snd_nxt <= s'.snd_max
      /\ s.snd_max \in Nat /\ \A n \in sent : n \in Nat
  <2>1. \A n \in sent : n \in Nat
    BY <1>2 DEF Good, SendHalves, sent
  <2>2. /\ s'.snd_nxt \in Nat /\ s'.snd_max \in Nat /\ s'.snd_nxt <= s'.snd_max
        /\ s.snd_max \in Nat
    BY <1>2 DEF Good, SendHalves, Ordered
  <2> QED
    BY <1>1, <2>1, <2>2 DEF Truthful
<1>3. t.t_rtt \in Nat /\ ~(0 > 0)
  BY <1>2 DEF Sane, Ranged, Fields
<1>4. ASSUME TimedApp PROVE Once'
  <2>1. Forward(s, s') /\ Onward(quiet, s')
    BY <1>2, <1>4, AppForward
  <2>2. quiet.cc_ops = s.cc_ops /\ quiet.snd_nxt = s.snd_nxt /\ quiet.out = {}
    BY <1>2 DEF quiet, Good, SendHalves
  <2> SUFFICES ASSUME s.cc_ops \in NewRenos PROVE ~again' /\ TimedBehind' /\ Reached'
    BY <2>1, <2>2 DEF Once, Onward
  <2>3. \A n \in sent : s.snd_nxt <= n /\ n < s'.snd_nxt
    BY <2>1, <2>2 DEF Onward, sent
  <2>4. s.snd_nxt \in Nat /\ s.snd_nxt <= s'.snd_nxt
    BY <1>2, <2>1 DEF Good, SendHalves, Forward
  <2>5. TimedBehind /\ ~again /\ Reached
    BY DEF Once
  <2>6. t.t_rtt > 0 => t.t_rtseq \notin carried
    <3>1. t.t_rtt > 0 => t.t_rtseq \in Nat /\ \A n \in sent : t.t_rtseq < n
      BY <1>9, <2>3, <2>4, <2>5 DEF TimedBehind
    <3> QED
      BY <1>2, <3>1, NotCarried
  <2>7. \A n \in new : n < s'.snd_nxt
    BY <2>3 DEF new
  <2>8. t' = started(t) /\ Recorded
    BY <1>4 DEF TimedApp
  <2>9. ~again' /\ TimedBehind'
    BY <1>2, <2>4, <2>5, <2>6, <2>7, <2>8, OnceStarted
  <2>10. s.snd_max <= s'.snd_max /\ \A n \in sent : n < s'.snd_max
    BY <1>9, <2>1, <2>3 DEF Forward
  <2> QED
    BY <1>2, <1>9, <2>5, <2>8, <2>9, <2>10, ReachedStep
<1>5. ASSUME NEW ack \in Acks, NEW win \in Windows, NEW in \in Inputs, NEW has_data \in BOOLEAN,
             NEW dropped \in BOOLEAN, NEW age \in Ages,
             TimedRecv(ack, win, has_data, dropped, age, in)
      PROVE  Once'
  <2> DEFINE p == IF valid_ack(s, ack) THEN rearmed(sampled(ack, age), ack) ELSE t
             e == karn(p)
  <2>1. Forward(s, s') /\ Sends(quiet, s')
    <3>1. \/ s' = utcp_output(handle_ack(quiet, ack, win, has_data, in))
          \/ s' = handle_ack(quiet, ack, win, has_data, in)
      BY <1>5 DEF TimedRecv, RecvAck, RecvAckDropped
    <3> QED
      BY <1>2, <3>1, RecvForward
  <2>2. quiet.cc_ops = s.cc_ops
    BY <1>2 DEF quiet, Good, SendHalves
  <2> SUFFICES ASSUME s.cc_ops \in NewRenos PROVE ~again' /\ TimedBehind' /\ Reached'
    BY <2>1, <2>2 DEF Once, Sends
  <2>3. /\ \A n \in sent : \/ n = s'.snd_una /\ s'.snd_una < s.snd_max
                           \/ s.snd_nxt <= n /\ n < s'.snd_nxt
        /\ \A n \in new : n < s'.snd_nxt
    BY <1>2, <2>1, SentSince
  <2>4. s.snd_nxt \in Nat /\ s.snd_nxt <= s'.snd_nxt
    BY <1>2, <2>1 DEF Good, SendHalves, Forward
  <2>5. TimedBehind /\ ~again /\ Reached
    BY DEF Once
  <2>6. Sane(p) /\ p.t_rtseq = t.t_rtseq /\ (p.t_rtt > 0 => t.t_rtt > 0)
    <3>1. Sane(sampled(ack, age))
      BY <1>2, SampledSane, TimerAssumption
    <3>2. /\ sampled(ack, age).t_rtseq = t.t_rtseq
          /\ sampled(ack, age).t_rtt > 0 => t.t_rtt > 0
      BY <1>2, SampledTimes, TimerAssumption
    <3>3. Sane(p)
      <4>1. s.t_rxtshift \in Nat /\ s.t_rxtshift <= MaxShift
        <5>1. s.t_rxtshift \in 0 .. TCP_MAXRXTSHIFT + 1 /\ TCP_MAXRXTSHIFT \in Nat
          BY <1>2, SendAssumption DEF Good, SendHalves
        <5> QED
          BY <1>2, <5>1 DEF SendInv
      <4> QED
        BY <1>2, <3>1, <4>1, RearmedSane
    <3> DEFINE q == sampled(ack, age)
    <3> HIDE DEF q
    <3>4. rearmed(q, ack).t_rtseq = q.t_rtseq /\ rearmed(q, ack).t_rtt = q.t_rtt
      BY <3>1 DEF rearmed, Sane, Ranged, Fields, q
    <3> QED
      BY <3>2, <3>3, <3>4 DEF q
  <2> HIDE DEF p
  <2>7. /\ Sane(e) /\ e.t_rtseq = t.t_rtseq
        /\ e.t_rtt > 0 => t.t_rtt > 0 /\ ~(s'.snd_una \in sent /\ s'.snd_una < s.snd_max)
    BY <1>3, <2>6, KarnSane DEF karn, NewRenos, Sane, Ranged, Fields
  <2> HIDE DEF e
  <2>8. e.t_rtt > 0 => t.t_rtseq \notin carried
    <3> SUFFICES ASSUME e.t_rtt > 0 PROVE t.t_rtseq \notin carried
      OBVIOUS
    <3>1. t.t_rtseq < s.snd_nxt /\ t.t_rtseq \in Nat
      BY <2>5, <2>7 DEF TimedBehind
    <3>2. \A n \in sent : s.snd_nxt <= n
      BY <2>3, <2>7
    <3>3. \A n \in sent : t.t_rtseq < n
      BY <1>9, <2>4, <3>1, <3>2
    <3> QED
      BY <1>2, <3>1, <3>3, NotCarried
  <2>9. t' = started(e) /\ Recorded
    BY <1>5 DEF TimedRecv, p, e
  <2>10. ~again' /\ TimedBehind'
    BY <1>2, <2>3, <2>4, <2>5, <2>7, <2>8, <2>9, OnceStarted
  <2>11. s.snd_max <= s'.snd_max /\ \A n \in sent : n < s'.snd_max
    <3>1. s'.snd_una < s.snd_max => s'.snd_una < s'.snd_max
      <4>1. s'.snd_una \in Nat
        BY <1>2 DEF Good, SendHalves
      <4> QED
        BY <1>9, <2>1, <4>1 DEF Forward
    <3> QED
      BY <1>9, <2>1, <2>3, <3>1 DEF Forward
  <2> QED
    BY <1>2, <1>9, <2>5, <2>9, <2>10, <2>11, ReachedStep
<1>6. ASSUME Tick PROVE Once'
  <2>1. s' = s /\ again' = again /\ wired' = wired /\ t' = [counted EXCEPT !.t_timer = IF @ > 0 THEN @ - 1 ELSE 0]
    BY <1>6 DEF Tick
  <2>2. t'.t_rtseq = t.t_rtseq /\ t'.t_rtt = IF t.t_rtt > 0 THEN t.t_rtt + 1 ELSE 0
    BY <1>2, <2>1 DEF counted, Sane, Ranged, Fields
  <2>3. t'.t_rtt > 0 => t.t_rtt > 0
    BY <1>3, <2>2
  <2> QED
    BY <2>1, <2>2, <2>3 DEF Once, TimedBehind, Reached
<1>7. ASSUME NEW in \in Inputs, Expire(in) PROVE Once'
  <2> DEFINE n == backoff_ticks(t, s'.t_rxtshift)
             e == [counted EXCEPT !.t_timer = n, !.t_rtt = 0]
  <2>1. s' = rexmt_timeout(quiet, in) /\ quiet.rexmt /\ Good(quiet)
    BY <1>2, <1>7, QuietGood DEF Expire, Timeout
  <2>2. /\ s'.cc_ops = quiet.cc_ops /\ quiet.snd_max <= s'.snd_max
        /\ \A g \in s'.out : g \in quiet.out \/ g.seq < s'.snd_nxt
    BY <2>1, RexmtTimeoutGood
  <2>3. quiet.out = {} /\ quiet.cc_ops = s.cc_ops /\ quiet.snd_max = s.snd_max
    BY <1>2 DEF quiet, Good, SendHalves
  <2> SUFFICES ASSUME s.cc_ops \in NewRenos PROVE ~again' /\ TimedBehind' /\ Reached'
    BY <2>2, <2>3 DEF Once
  <2>4. TimedBehind /\ ~again /\ Reached
    BY DEF Once
  <2>5. \A m \in new : m < s'.snd_nxt
    BY <2>2, <2>3 DEF new, sent
  <2>6. n \in 0 .. TCPTV_REXMTMAX
    <3>1. s'.t_rxtshift \in Nat /\ s'.t_rxtshift <= MaxShift
      <4>1. s'.t_rxtshift \in 0 .. TCP_MAXRXTSHIFT + 1 /\ TCP_MAXRXTSHIFT \in Nat
        BY <1>2, SendAssumption DEF Good, SendHalves
      <4> QED
        BY <1>1, <4>1 DEF TimedInv, SendInv
    <3> QED
      BY <1>2, <3>1, BackoffTicks
  <2> HIDE DEF n
  <2>7. e = [t EXCEPT !.t_timer = n, !.t_rtt = 0, !.t_rtseq = t.t_rtseq]
    BY <1>2 DEF counted, Sane, Ranged, Fields
  <2> HIDE DEF e
  <2>8. Sane(e) /\ e.t_rtt = 0 /\ e.t_rtseq = t.t_rtseq
    <3>1. 0 \in Nat
      OBVIOUS
    <3> QED
      BY <1>2, <2>6, <2>7, <3>1 DEF Sane, Ranged, Fields
  <2>9. t' = started(e) /\ Recorded
    BY <1>7 DEF Expire, n, e
  <2>10. ~again' /\ TimedBehind'
    BY <1>2, <1>3, <2>4, <2>5, <2>8, <2>9, OnceStarted
  <2>11. s.snd_max <= s'.snd_max /\ \A m \in sent : m < s'.snd_max
    <3>1. \A m \in sent : m < s'.snd_nxt
      BY <2>2, <2>3 DEF sent
    <3> QED
      BY <1>9, <2>2, <2>3, <3>1
  <2> QED
    BY <1>2, <1>9, <2>4, <2>9, <2>10, <2>11, ReachedStep
<1>8. ASSUME UNCHANGED timed_vars PROVE Once'
  BY <1>8 DEF timed_vars, Once, TimedBehind, Reached
<1> QED
  BY <1>1, <1>4, <1>5, <1>6, <1>7, <1>8 DEF TimedNext

\* Karn's rule, for every sequence of timeouts, duplicates, partial ACKs and
\* writes: under NewReno and its LSTM variant no segment repeats the byte being
\* timed, from whatever byte it starts, and what was sent before it was counted
\* as sent is less than one segment behind snd_max.
THEOREM KarnRespected == TimedSpec => []TimedOnce
<1>1. TimedInit => TimedInv /\ Truthful(s) /\ Once
  <2> SUFFICES ASSUME TimedInit PROVE TimedInv /\ Truthful(s) /\ Once
    OBVIOUS
  <2>1. t.t_rtt = 0 /\ ~(0 > 0) /\ ~again /\ wired = {}
    BY DEF TimedInit
  <2>2. Truthful(s)
    BY InitTrue DEF TimedInit
  <2> QED
    BY <2>1, <2>2, TimedInitInv DEF Once, TimedBehind, Reached
<1>2. TimedInv /\ Truthful(s) /\ Once /\ [TimedNext]_timed_vars
        => TimedInv' /\ Truthful(s)' /\ Once'
  BY TimedStepInv, OnceStep
<1>3. Once => TimedOnce
  BY DEF Once, TimedOnce, Reached, NewRenos
<1> QED
  BY <1>1, <1>2, <1>3, PTL DEF TimedSpec
=============================================================================
