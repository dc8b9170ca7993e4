------------------------------ MODULE MCSender ------------------------------
EXTENDS SendWidth
=============================================================================
