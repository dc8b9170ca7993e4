------------------------------ MODULE SendWidth ------------------------------
(***************************************************************************)
(* The send half computed with the fields as they are stored.  Sender and  *)
(* SendPath use the true numbers; here are the expressions of the code     *)
(* that involve sequence numbers and stream positions in 32 bits, to be    *)
(* compared with them in every state.                                      *)
(***************************************************************************)
EXTENDS Sender, SequenceNumbers

\* Fault: the sequence number of the SYN is counted as a byte.
data_bytes_sent_syn(t) == IF SEQ_GT(t.snd_nxt, iss) THEN minus(t.snd_nxt, iss) ELSE 0

\* utcp_output: the bytes before snd_nxt.
data_bytes_sent(t) == IF SEQ_GT(t.snd_nxt, iss) THEN minus(t.snd_nxt, iss) - 1 ELSE 0

\* utcp_retransmit_segment: the bytes before seq.
rexmt_bytes_sent(seq) == IF uint32(seq) > uint32(iss) THEN minus(seq, iss) - 1 ELSE 0

\* Both: what send_buf holds after the first n bytes of the stream.
waiting(t, n) == IF uint32(t.send_buf_tail) > n THEN uint32(t.send_buf_tail) - n ELSE 0

\* handle_received_data: the acknowledgement is new.
new_ack(t, ack) == SEQ_GT(ack, t.snd_una) /\ SEQ_LEQ(ack, t.snd_max)

-----------------------------------------------------------------------------
\* Every computation that a handler may make next comes out as with the true
\* numbers: what waits to be sent or repeated, what is in flight, the free
\* space, which ACKs are new, and whether they reach snd_nxt and recover.  It
\* is so as long as the stream is shorter than half the number space.
WidthEnough ==
  /\ \A t \in {s, [s EXCEPT !.snd_nxt = s.snd_una]} :
       /\ waiting(t, data_bytes_sent(t)) = buffered_data(t, t.snd_nxt)
       /\ minus(t.snd_nxt, t.snd_una) = t.snd_nxt - t.snd_una
  /\ waiting(s, rexmt_bytes_sent(s.snd_una)) = buffered_data(s, s.snd_una)
  /\ SEND_BUF_SIZE - minus(s.send_buf_tail, s.send_buf_head) = send_free_space(s)
  /\ \A ack \in Acks :
       /\ new_ack(s, ack) <=> valid_ack(s, ack)
       /\ SEQ_GT(ack, s.snd_nxt) <=> ack > s.snd_nxt
       /\ SEQ_GEQ(ack, s.recover) <=> ack >= s.recover
       /\ SEQ_GT(ack, s.recover) <=> ack > s.recover
=============================================================================
