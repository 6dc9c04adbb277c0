-------------------------- MODULE MCSynccomTxPoll --------------------------
(* SynccomTxPoll for TLC: names for the processes.                         *)
EXTENDS SynccomTxPoll

CONSTANTS w1, w2, q1
=============================================================================
