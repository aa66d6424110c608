---------------------------- MODULE MCLogClients ----------------------------
EXTENDS LogClients, TLC

MCEntry == 1 .. MaxEntries
=============================================================================
