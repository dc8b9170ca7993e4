---------------------------- MODULE LossEpisodes ----------------------------
(***************************************************************************)
(* The send half with a history of its losses.  NewReno takes a timeout,   *)
(* or a third duplicate ACK that enters recovery, for the loss of a window *)
(* of data; until snd_una has passed what was sent by then, whatever       *)
(* happens to that data belongs to the same loss.                          *)
(***************************************************************************)
EXTENDS Sender

VARIABLE lost   \* history: snd_max at NewReno's last loss event, 0 once passed

loss_vars == <<s, app, lost>>

TimedOut        == s'.t_rxtshift > s.t_rxtshift
EntersRecovery  == s'.ca_state = "RECOVERY" /\ s.ca_state # "RECOVERY"

\* A loss event of NewReno, or of lstm_reno, which reacts to losses alike.
LossEvent == s.cc_ops \in {"new_reno", "lstm_reno"} /\ (TimedOut \/ EntersRecovery)

LossSpec ==
  /\ Init /\ lost = 0
  /\ [][/\ Next
        /\ lost' = IF LossEvent             THEN s.snd_max
                   ELSE IF s'.snd_una <= lost THEN lost ELSE 0]_loss_vars

-----------------------------------------------------------------------------
\* lstm_reno_cong_control lowers ssthresh ahead of a loss, on a new ACK.
Preempts ==
  s.cc_ops = "lstm_reno" /\ s'.snd_una > s.snd_una /\ s'.ssthresh < s.ssthresh

=============================================================================
