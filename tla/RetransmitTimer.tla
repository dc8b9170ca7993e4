--------------------------- MODULE RetransmitTimer ---------------------------
(***************************************************************************)
(* The retransmission timer in ticks, beneath module Sender: the round     *)
(* trip estimator utcp_xmit_timer, the counters the ticker thread moves,   *)
(* and how output, acknowledgements and timeouts set them.  Sender says    *)
(* only that an armed timer may run out; here it does so when t_timer has  *)
(* been counted down; every other step is one of Sender with its effect on *)
(* the timing fields added.                                                *)
(*                                                                         *)
(* With a peer that sends timestamps (every UTCP does) a sample is the age *)
(* of the timestamp an ACK echoes, which may be that of any earlier        *)
(* segment; with any other peer it is the count t_rtt of the one segment   *)
(* being timed.  Time is in ticks: an age below one tick is sample 0.      *)
(***************************************************************************)
EXTENDS Sender, FiniteSetsExt

CONSTANTS
  TCPTV_MIN, TCPTV_REXMTMAX, TCPTV_SRTTDFLT,  \* in ticks
  tcp_backoff,  \* the factor for each t_rxtshift
  Timestamps,   \* possible values of ts_enabled
  Ages,         \* ages of an echoed timestamp, in ticks, or NoTsecr
  MaxRtt        \* bound: t_rtt from which idle ticks are no longer explored

VARIABLES
  t,     \* the timing fields of the TCB (and sample, the last one: history)
  again, \* history: the byte being timed was sent again since
  wired  \* history: the bytes ever put on the wire

timed_vars == <<s, app, t, again, wired>>

\* The segment echoes no timestamp, or the value 0.
NoTsecr == -1

ASSUME TimerAssumption ==
  /\ TCPTV_MIN \in Nat \ {0} /\ TCPTV_REXMTMAX \in Nat /\ TCPTV_SRTTDFLT \in Nat
  /\ TCPTV_MIN <= TCPTV_SRTTDFLT /\ TCPTV_SRTTDFLT <= TCPTV_REXMTMAX
  /\ tcp_backoff \in [0 .. TCP_MAXRXTSHIFT -> Nat \ {0}]
  /\ MaxShift <= TCP_MAXRXTSHIFT
  /\ Timestamps \subseteq BOOLEAN /\ Timestamps # {}
  /\ NoTsecr \in Ages /\ Ages \ {NoTsecr} \subseteq Nat /\ MaxRtt \in Nat

-----------------------------------------------------------------------------
\* The estimator.  t_srtt is eight times, t_rttvar four times the estimate.

\* Fault: the variance is left to decay when the sample is below the mean.
smoothed_signed(e, r) ==
  LET delta == r - (e.t_srtt \div 8)
  IN  [e EXCEPT !.t_srtt = @ + delta, !.t_rttvar = @ + delta - (@ \div 4)]

\* A further sample r: the mean moves by 1/8, the deviation by 1/4 of the error.
smoothed(e, r) ==
  LET delta == r - (e.t_srtt \div 8)
  IN  [e EXCEPT !.t_srtt   = @ + delta,
                !.t_rttvar = @ + (IF delta < 0 THEN -delta ELSE delta) - (@ \div 4)]

\* Fault: the deviation enters the timeout once instead of four times.
timeout_of_mean(e) ==
  MIN(MAX((e.t_srtt \div 8) + (e.t_rttvar \div 4), TCPTV_MIN), TCPTV_REXMTMAX)

\* The timeout that follows from the estimates.
timeout_of(e) == MIN(MAX((e.t_srtt \div 8) + e.t_rttvar, TCPTV_MIN), TCPTV_REXMTMAX)

\* A sample is at least one tick; the first one sets both estimates.
utcp_xmit_timer(e, age) ==
  LET r    == MAX(age, 1)
      next == IF e.t_srtt = 0 THEN [e EXCEPT !.t_srtt = 8 * r, !.t_rttvar = 2 * r]
                              ELSE smoothed(e, r)
  IN  [next EXCEPT !.t_rxtcur = timeout_of(next), !.sample = r]

\* The timer's length after shift timeouts in a row.
backoff_ticks(e, shift) == MIN(e.t_rxtcur * tcp_backoff[shift], TCPTV_REXMTMAX)

-----------------------------------------------------------------------------
TimedInit ==
  /\ Init
  /\ \E ts \in Timestamps :
       t = [t_timer |-> 0, t_rtt |-> 0, t_rtseq |-> 0, t_srtt |-> 0, t_rttvar |-> 0,
            t_rxtcur |-> TCPTV_SRTTDFLT, ts_enabled |-> ts, sample |-> 0]
  /\ again = FALSE /\ wired = {}

\* What a step sent: the sequence numbers of its segments, and their bytes.
sent    == {g.seq : g \in s'.out}
carried == UNION {g.seq .. g.seq + Len(g.data) - 1 : g \in s'.out}

\* New data among it, by utcp_output.
new == {n \in sent : n >= s.snd_max}

\* utcp_output's part, after the rest of the step left e: the first new segment
\* is timed unless another is, and an idle timer is started with the data.
started(e) ==
  [e EXCEPT !.t_rtt   = IF @ = 0 /\ new # {} THEN 1 ELSE @,
            !.t_rtseq = IF e.t_rtt = 0 /\ new # {} THEN Min(new) ELSE @,
            !.t_timer = IF @ = 0 /\ s'.snd_nxt > MAX(s.snd_nxt, s'.snd_una)
                          THEN e.t_rxtcur ELSE @]

\* Fault: a fast retransmission leaves the running measurement alone.
karn_never(e) == e

\* NewReno's fast retransmission, on a third duplicate or a partial ACK, gives
\* up the measurement; Tahoe's and Reno's do not.
karn(e) ==
  IF s.cc_ops \in {"new_reno", "lstm_reno"} /\ s'.snd_una \in sent /\ s'.snd_una < s.snd_max
    THEN [e EXCEPT !.t_rtt = 0] ELSE e

\* The sample an ACK brings: with timestamps, from the one it echoes (of age
\* age); else from the timed segment if it covers that.
sampled(ack, age) ==
  LET with_sample(a) == [utcp_xmit_timer(t, a) EXCEPT !.t_rtt = 0]
  IN  CASE t.ts_enabled /\ age # NoTsecr -> with_sample(age)
        [] ~t.ts_enabled /\ t.t_rtt # 0 /\ ack > t.t_rtseq -> with_sample(t.t_rtt - 1)
        [] OTHER -> t

\* Fault: an ACK of everything leaves the timer running.
rearmed_always(e, ack) == [e EXCEPT !.t_timer = backoff_ticks(e, s.t_rxtshift)]

\* The timer after a new ACK: off, or a whole period from now.
rearmed(e, ack) ==
  [e EXCEPT !.t_timer = IF ack = s.snd_max THEN 0
                        ELSE IF s.t_rxtshift > 0 THEN backoff_ticks(e, s.t_rxtshift)
                             ELSE e.t_rxtcur]

\* The history after a step that leaves t': a measurement that goes on is
\* spoilt by any segment that carries its byte; one that starts is not yet.
Recorded ==
  /\ again' = /\ t'.t_rtt > 0 /\ t.t_rtt > 0 /\ t'.t_rtseq = t.t_rtseq
              /\ again \/ t.t_rtseq \in carried
  /\ wired' = wired \cup carried

-----------------------------------------------------------------------------
\* The application: utcp_send and utcp_drain.
TimedApp ==
  /\ WriteChunk \/ Drain \/ \E len \in 1 .. ChunkMax : SendCall(len)
  /\ t' = started(t)
  /\ Recorded

\* A segment of the peer; age is that of the timestamp it echoes, if it does.
TimedRecv(ack, win, has_data, dropped, age, in) ==
  /\ ~t.ts_enabled => age = NoTsecr
  /\ IF dropped THEN has_data /\ RecvAckDropped(ack, win, in)
                ELSE RecvAck(ack, win, has_data, in)
  /\ t' = started(karn(IF valid_ack(s, ack) THEN rearmed(sampled(ack, age), ack)
                                                   ELSE t))
  /\ Recorded

counted == [t EXCEPT !.t_rtt = IF @ > 0 THEN @ + 1 ELSE 0]

\* A turn of the ticker thread in which TCPT_REXMT does not run out.
Tick ==
  /\ t.t_timer # 1 /\ (t.t_timer = 0 => t.t_rtt < MaxRtt)
  /\ t' = [counted EXCEPT !.t_timer = IF @ > 0 THEN @ - 1 ELSE 0]
  /\ UNCHANGED <<s, app, again, wired>>

\* One in which it does: utcp_timers.
Expire(in) ==
  /\ t.t_timer = 1
  /\ Timeout(in)
  /\ t' = started([counted EXCEPT !.t_timer = backoff_ticks(t, s'.t_rxtshift), !.t_rtt = 0])
  /\ Recorded

TimedNext ==
  \/ TimedApp
  \/ \E ack \in Acks, win \in Windows, in \in Inputs :
       \E has_data, dropped \in BOOLEAN, age \in Ages : TimedRecv(ack, win, has_data, dropped, age, in)
  \/ Tick
  \/ \E in \in Inputs : Expire(in)

TimedSpec == TimedInit /\ [][TimedNext]_timed_vars

-----------------------------------------------------------------------------
\* The timing fields of struct tcb; t_rxtcur stays within its limits and fits
\* the short t_timer, and t_srtt, once set, keeps the unit of one tick, so no
\* unsigned subtraction in utcp_xmit_timer goes below zero.
EstimatorSane ==
  /\ t.t_rxtcur \in TCPTV_MIN .. TCPTV_REXMTMAX
  /\ t.t_timer \in 0 .. TCPTV_REXMTMAX
  /\ t.t_rtt \in Nat /\ t.t_rttvar \in Nat
  /\ t.t_srtt \in Nat /\ (t.t_srtt = 0 \/ t.t_srtt >= 8)

\* The timeout is never shorter than the round trip just measured, however the
\* samples jump (RFC 6298 as utcp_xmit_timer's fixed point computes it).
RtoCoversSample == t.t_rxtcur >= MIN(t.sample, TCPTV_REXMTMAX)

\* Sender's abstraction of the timer is right: in ticks it is non-zero exactly
\* when Sender says that it runs.
TimerAgrees == s.rexmt <=> t.t_timer > 0

\* Karn's rule, as utcp_output and utcp_timers state it: under NewReno no
\* segment repeats the byte being timed, neither a fast retransmission that
\* begins before it nor go-back-N after a timeout.  Before it was timed it may
\* have been sent: utcp_retransmit_segment does not stop at snd_max, so what
\* utcp_output calls never-before-sent may be the end of a repetition.  That
\* reaches less than one segment past snd_max; all further data is new.
TimedOnce ==
  s.cc_ops \in {"new_reno", "lstm_reno"} =>
    /\ ~again
    /\ \A n \in wired : n < s.snd_max + MSS - 1
=============================================================================
