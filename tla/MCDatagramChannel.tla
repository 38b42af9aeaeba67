------------------------- MODULE MCDatagramChannel -------------------------
EXTENDS DatagramChannel
=============================================================================
