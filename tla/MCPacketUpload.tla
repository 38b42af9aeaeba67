--------------------------- MODULE MCPacketUpload ---------------------------
EXTENDS PacketUpload
=============================================================================
