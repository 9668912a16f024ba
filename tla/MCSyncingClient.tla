--------------------------- MODULE MCSyncingClient ---------------------------
EXTENDS SyncingClient
MCGenesisHash == 0 - 1
=============================================================================
