--------------------------- MODULE MCTaskTracker ---------------------------
(* One task, submitted and watched a second time, for TLC.                *)
EXTENDS TaskTracker

CONSTANTS t1, w1, w2
=============================================================================
