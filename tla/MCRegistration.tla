--------------------------- MODULE MCRegistration ---------------------------
(* The registration chains under all the options with which they keep      *)
(* track of the camera, the dense one with its defaults, and one with a    *)
(* registrator.                                                            *)
EXTENDS StereoRegistration

MCConfigurations == {p \in AllConfigurations : TracksCamera(p)}

\* A cloudUpdateTime of 50 by default; any above the inputs does the same.
MCDenseDefault ==
    {[chain |-> "dense", matchToReconstructedCloud |-> FALSE, useAssemblerDfn |-> FALSE,
      useRegistratorDfn |-> FALSE, cloudUpdateType |-> "TimePassed",
      cloudUpdateTime |-> MaxInputs]}

\* The options of DfpcRegistrationFromStereo_DlrHcru_Assembly_Filter.yaml in
\* Tests/ConfigurationFiles; the update type and time are not of this chain.
MCRefined ==
    {[chain |-> "registration", matchToReconstructedCloud |-> TRUE, useAssemblerDfn |-> TRUE,
      useRegistratorDfn |-> TRUE, cloudUpdateType |-> "TimePassed", cloudUpdateTime |-> 1]}

ASSUME HistoryWraps == MaxInputs > 4
=============================================================================
