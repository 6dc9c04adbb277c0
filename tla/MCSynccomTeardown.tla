------------------------- MODULE MCSynccomTeardown -------------------------
(* SynccomTeardown for TLC.  The .cfg file gives the constants their values. *)
EXTENDS SynccomTeardown, TLC

CONSTANTS f1, f2, f3
=============================================================================
