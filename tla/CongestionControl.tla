-------------------------- MODULE CongestionControl --------------------------
(***************************************************************************)
(* The congestion control functions of src/utcp/cc as pure operators.  A   *)
(* cong_control function takes the TCB t and an event and answers with     *)
(* [t, call]: the TCB after its assignments, and what it asks of the       *)
(* output side: nothing, utcp_retransmit_segment(snd_una), or utcp_output. *)
(* Of the TCB it reads snd_una, snd_nxt, snd_max and writes cwnd,          *)
(* ssthresh, ca_state, recover and t_dupacks.                              *)
(*                                                                         *)
(* No function reads cwnd, ssthresh or ca_state between a retransmission   *)
(* it asks for and its own return, so the call may be performed after its  *)
(* assignments.                                                            *)
(***************************************************************************)
EXTENDS Integers

CONSTANTS
  MSS,            \* largest payload of a segment
  IW,             \* initial window, in segments
  SSTHRESH_INIT   \* 0xFFFFFFFF: above every window

ASSUME CcAssumption == /\ MSS \in Nat \ {0}
                       /\ IW \in Nat \ {0}
                       /\ SSTHRESH_INIT \in Nat /\ SSTHRESH_INIT >= 2 * MSS

MIN(a, b) == IF a < b THEN a ELSE b
MAX(a, b) == IF a > b THEN a ELSE b

CaStates == {"OPEN", "DISORDER", "CWR", "RECOVERY", "LOSS"}

\* What a cong_control function returns.
Only(t)           == [t |-> t, call |-> "none"]
AndRetransmit(t)  == [t |-> t, call |-> "retransmit"]
AndOutput(t)      == [t |-> t, call |-> "output"]

-----------------------------------------------------------------------------
\* core.c

cc_init(t) ==
  [t EXCEPT !.cwnd = MSS * IW, !.ssthresh = SSTHRESH_INIT, !.ca_state = "OPEN"]

\* Slow start below ssthresh, else about one MSS per window, at least a byte.
cc_aimd(t, acked) ==
  [t EXCEPT !.ca_state = IF @ = "LOSS" THEN "OPEN" ELSE @,
            !.cwnd = @ + IF @ < t.ssthresh
                           THEN MIN(acked, MSS)
                           ELSE MAX((MIN(acked, @) * MSS) \div @, 1)]

\* Fault: the floor of two segments is forgotten.
cc_halve_ssthresh_floorless(flight_size) == flight_size \div 2

cc_halve_ssthresh(flight_size) == MAX(flight_size \div 2, 2 * MSS)

\* One segment from here on; a further loss does not raise ssthresh.
cc_timeout(t, flight_size) ==
  LET new_ssthresh == cc_halve_ssthresh(MIN(flight_size, t.cwnd))
  IN  [t EXCEPT !.ssthresh = IF t.ca_state \in {"RECOVERY", "LOSS"}
                               THEN MIN(new_ssthresh, @) ELSE new_ssthresh,
                !.cwnd = MSS,
                !.ca_state = "LOSS"]

-----------------------------------------------------------------------------
\* tahoe.c

tahoe_ack(t, acked) == Only(cc_aimd([t EXCEPT !.ca_state = "OPEN"], acked))

tahoe_dup_ack(t, total_dups) ==
  IF total_dups = 3
    THEN AndRetransmit([t EXCEPT !.ssthresh = cc_halve_ssthresh(t.snd_nxt - t.snd_una),
                                 !.cwnd = MSS])
    ELSE Only(t)

-----------------------------------------------------------------------------
\* reno.c

reno_ack(t, acked) ==
  Only(IF t.ca_state = "RECOVERY"
         THEN [t EXCEPT !.cwnd = t.ssthresh, !.ca_state = "OPEN"]
         ELSE cc_aimd(t, acked))

reno_dup_ack(t, total_dups) ==
  LET ssthresh == cc_halve_ssthresh(t.snd_nxt - t.snd_una)
  IN  IF total_dups = 3
        THEN AndRetransmit([t EXCEPT !.ssthresh = ssthresh,
                                     !.ca_state = "RECOVERY",
                                     !.cwnd = ssthresh + 3 * MSS])
        ELSE IF total_dups > 3 THEN AndOutput([t EXCEPT !.cwnd = @ + MSS])
                               ELSE Only(t)

-----------------------------------------------------------------------------
\* new_reno.c

\* In recovery an ACK is full (recover reached) or partial: resend the next
\* hole, take the acknowledged bytes out of the inflated window.
recovery_ack(t, acked) ==
  IF t.snd_una >= t.recover
    THEN Only([t EXCEPT !.cwnd = t.ssthresh, !.ca_state = "OPEN"])
    ELSE AndRetransmit([t EXCEPT !.cwnd = (IF acked >= @ THEN MSS ELSE @ - acked) + MSS,
                                 !.t_dupacks = 0])

new_reno_ack(t, acked) ==
  IF t.ca_state = "RECOVERY" THEN recovery_ack(t, acked) ELSE Only(cc_aimd(t, acked))

\* Fault: recover is not moved when recovery is entered.
new_reno_dup_ack_stale(t, total_dups) ==
  LET ssthresh == cc_halve_ssthresh(t.snd_nxt - t.snd_una)
  IN  IF total_dups = 3 /\ t.snd_una > t.recover
        THEN AndRetransmit([t EXCEPT !.ssthresh = ssthresh,
                                     !.ca_state = "RECOVERY",
                                     !.cwnd = ssthresh + 3 * MSS])
        ELSE IF total_dups > 3 /\ t.ca_state = "RECOVERY"
               THEN AndOutput([t EXCEPT !.cwnd = @ + MSS])
               ELSE Only(t)

\* The third duplicate enters recovery once per window of data; each further
\* one, in recovery, stands for a segment that has left the network.
new_reno_dup_ack(t, total_dups) ==
  LET ssthresh == cc_halve_ssthresh(t.snd_nxt - t.snd_una)
  IN  IF total_dups = 3 /\ t.snd_una > t.recover
        THEN AndRetransmit([t EXCEPT !.ssthresh = ssthresh,
                                     !.recover  = t.snd_max,
                                     !.ca_state = "RECOVERY",
                                     !.cwnd = ssthresh + 3 * MSS])
        ELSE IF total_dups > 3 /\ t.ca_state = "RECOVERY"
               THEN AndOutput([t EXCEPT !.cwnd = @ + MSS])
               ELSE Only(t)


\* t.snd_nxt was rolled back before; flight_size is what was in flight.
new_reno_timeout(t, flight_size) == cc_timeout([t EXCEPT !.recover = t.snd_max], flight_size)

-----------------------------------------------------------------------------
\* lstm_reno.c: NewReno, with the predictor's signal acted on outside recovery

lstm_reno_ack(t, acked, fired) ==
  LET preempt == cc_halve_ssthresh(t.snd_nxt - t.snd_una)
  IN  IF t.ca_state = "RECOVERY"
        THEN recovery_ack(t, acked)
        ELSE Only(cc_aimd([t EXCEPT !.ssthresh = IF fired THEN MIN(preempt, @) ELSE @], acked))

-----------------------------------------------------------------------------
\* tcb->cc_ops->cong_control, by event.  recover is set up by NewReno only.

CcAlgorithms == {"tahoe", "reno", "new_reno", "lstm_reno"}

cc_event_init(t) ==
  IF t.cc_ops \in {"new_reno", "lstm_reno"} THEN [cc_init(t) EXCEPT !.recover = 0]
                                           ELSE cc_init(t)

cc_event_ack(t, acked, fired) ==
  CASE t.cc_ops = "tahoe"     -> tahoe_ack(t, acked)
    [] t.cc_ops = "reno"      -> reno_ack(t, acked)
    [] t.cc_ops = "new_reno"  -> new_reno_ack(t, acked)
    [] t.cc_ops = "lstm_reno" -> lstm_reno_ack(t, acked, fired)

cc_event_dup_ack(t, total_dups) ==
  CASE t.cc_ops = "tahoe" -> tahoe_dup_ack(t, total_dups)
    [] t.cc_ops = "reno"  -> reno_dup_ack(t, total_dups)
    [] t.cc_ops \in {"new_reno", "lstm_reno"} -> new_reno_dup_ack(t, total_dups)

cc_event_timeout(t, flight_size) ==
  IF t.cc_ops \in {"new_reno", "lstm_reno"} THEN new_reno_timeout(t, flight_size)
                                           ELSE cc_timeout(t, flight_size)
=============================================================================
