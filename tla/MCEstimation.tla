---------------------------- MODULE MCEstimation ----------------------------
(* EstimationFromStereo with enough inputs to wrap its history twice. *)
EXTENDS EstimationFromStereo

ASSUME HistoryWraps == MaxInputs >= 2 * (numberOfAdjustedStereoPairs + 1)
=============================================================================
