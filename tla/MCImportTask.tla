---------------------------- MODULE MCImportTask ----------------------------
(* Small sets of requests and pool processes for TLC.                      *)
EXTENDS ImportTask

CONSTANTS r1, r2, r3, w1, w2
=============================================================================
