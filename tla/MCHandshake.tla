----------------------------- MODULE MCHandshake -----------------------------
EXTENDS Handshake

\* The client sends a byte, the server none (client.c, server.c).
ClientData == [client |-> 1, server |-> 0]

\* Both send a byte.
BothData == [client |-> 1, server |-> 1]
=============================================================================
