----------------------------- MODULE MCReceiver -----------------------------
EXTENDS ReassemblyLoops
=============================================================================
