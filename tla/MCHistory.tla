------------------------------ MODULE MCHistory ------------------------------
(* BundleHistory with more inputs than slots, so that entries are replaced *)
(* and the queue wraps around the end of its lists.                        *)
EXTENDS BundleHistory

ASSUME HistoryWraps == MaxInputs > Size + 1
=============================================================================
