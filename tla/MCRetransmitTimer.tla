-------------------------- MODULE MCRetransmitTimer --------------------------
EXTENDS RetransmitTimer

\* The first entries of tcp_backoff.
Backoff == [i \in 0 .. TCP_MAXRXTSHIFT |-> <<1, 2, 4>>[i + 1]]

\* No timestamp, one younger than a tick, or one older than TCPTV_REXMTMAX.
EchoAges == {NoTsecr, 0, 9}
=============================================================================
