----------------------------- MODULE MCSyncClient -----------------------------
EXTENDS SyncClient
=============================================================================
