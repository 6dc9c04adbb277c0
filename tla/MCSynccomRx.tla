---------------------------- MODULE MCSynccomRx ----------------------------
(* SynccomRx for TLC.  The .cfg files give the constants their values.     *)
EXTENDS SynccomRx, TLC

CONSTANTS r1, r2, p1, q1

Symmetry == Permutations(Readers)
=============================================================================
