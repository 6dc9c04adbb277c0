------------------------- MODULE MCSynccomLifecycle -------------------------
(* SynccomLifecycle for TLC.  The .cfg files give the constants their       *)
(* values.                                                                  *)
EXTENDS SynccomLifecycle, TLC

CONSTANTS f1, f2, f3
=============================================================================
