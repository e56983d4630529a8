---------------------------- MODULE MCAdjustment ----------------------------
(* AdjustmentFromStereo with enough inputs to wrap its history twice. *)
EXTENDS AdjustmentFromStereo

ASSUME HistoryWraps == MaxInputs >= 2 * (numberOfAdjustedStereoPairs + 1)
=============================================================================
