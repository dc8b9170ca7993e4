---------------------------- MODULE MCSocketTable ----------------------------
EXTENDS SocketTable
=============================================================================
