---------------------------- MODULE MCSynccomTx ----------------------------
(* SynccomTx for TLC: names for the processes the .cfg files choose from.  *)
EXTENDS SynccomTx, TLC

CONSTANTS w1, w2, p1

Symmetry == Permutations(Writers)
=============================================================================
