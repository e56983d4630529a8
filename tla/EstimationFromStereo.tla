------------------------- MODULE EstimationFromStereo -------------------------
(***************************************************************************)
(* DFPCs/Reconstruction3D/EstimationFromStereo: like AdjustmentFromStereo, *)
(* but the correspondences are 3d points shared by two stereo pairs, and   *)
(* a transform estimator computes one transform for each of their maps.    *)
(*                                                                         *)
(* An input is named by its number; a correspondence map, and the          *)
(* transform estimated from it, by the two inputs it is between.  Whether  *)
(* the estimator succeeds is not determined.                               *)
(***************************************************************************)
EXTENDS CorrespondenceSequences

CONSTANTS numberOfAdjustedStereoPairs,
          MaxInputs     \* bound on the calls of run()

\* Six pairs and more make the recorder read behind the end of its history.
ASSUME PairsAssumption == numberOfAdjustedStereoPairs \in 1..5
ASSUME InputsAssumption == MaxInputs \in Nat

LEFT == "orb_left"
RIGHT == "orb_right"
STEREO_CLOUD == "stereo_cloud"
TRIANGULATION_CLOUD == "triangulation_cloud"
MATCHES == "matches"

VARIABLES mostRecentEntryIndex, oldestEntryIndex, lists, removing, alive, inputs, heap
historyVars == <<mostRecentEntryIndex, oldestEntryIndex, lists, removing, alive, inputs, heap>>

VARIABLES latestSequence, working, sequences, numberOfOldPoses, addingNewSequence,
          oneCorrespondenceWasAddedSinceLastDiscard,
          numberOfMapsAddedSinceLastInitialization, aborted
recorderVars == <<latestSequence, working, sequences, numberOfOldPoses, addingNewSequence,
                  oneCorrespondenceWasAddedSinceLastDiscard,
                  numberOfMapsAddedSinceLastInitialization, aborted>>

VARIABLES currentInputNumber,
          firstTimeBundle,
          pc,           \* where run() is, "idle" between two calls
          pending,      \* what is still to be stored or added in this phase
          pointCloudMap \* the clouds in the map, in the order they were added
runVars == <<currentInputNumber, firstTimeBundle, pc, pending, pointCloudMap>>
vars == <<historyVars, recorderVars, runVars>>

\* The data of one input, in the order run() stores it.
DataOfInput == <<STEREO_CLOUD, LEFT, RIGHT, MATCHES, TRIANGULATION_CLOUD>>

bundleHistory == INSTANCE BundleHistory WITH
    Size <- numberOfAdjustedStereoPairs + 1,
    Categories <- {LEFT, RIGHT, STEREO_CLOUD, TRIANGULATION_CLOUD, MATCHES}

recorder == INSTANCE MultipleCorrespondences3DRecorder WITH
    MAXIMUM_NUMBER_OF_POSES <- numberOfAdjustedStereoPairs

NULL == bundleHistory!NULL
GetData(category, backwardSteps) == bundleHistory!GetData(category, backwardSteps)

\* The state after the constructor and setup().
Init ==
    /\ bundleHistory!Init
    /\ recorder!Init
    /\ currentInputNumber = 0
    /\ firstTimeBundle = TRUE
    /\ pc = "idle"
    /\ pending = <<>>
    /\ pointCloudMap = <<>>

-----------------------------------------------------------------------------
(* The steps of run(). *)

AddImages ==
    /\ pc = "idle"
    /\ ~aborted
    /\ bundleHistory!AddImages
    /\ pc' = "store"
    /\ pending' = DataOfInput
    /\ UNCHANGED <<recorderVars, currentInputNumber, firstTimeBundle, pointCloudMap>>

\* ComputeStereoPointCloud and ComputeVisualPointFeatures.
StoreData ==
    /\ pc = "store"
    /\ pending # <<>>
    /\ bundleHistory!AddData(Head(pending))
    /\ pending' = Tail(pending)
    /\ UNCHANGED <<recorderVars, currentInputNumber, firstTimeBundle, pc, pointCloudMap>>

\* What a map needs from one stereo pair.
PairIsComplete(backwardSteps) ==
    \A category \in {LEFT, RIGHT, MATCHES, TRIANGULATION_CLOUD} :
        GetData(category, backwardSteps) # NULL

\* Fault: the loop over the past pairs runs once too often.
PastPairs_OneMore ==
    {b \in 1..numberOfAdjustedStereoPairs : \A step \in 1..b : PairIsComplete(step)}

\* The past pairs up to the first incomplete one.
PastPairs ==
    {b \in 1..(numberOfAdjustedStereoPairs - 1) : \A step \in 1..b : PairIsComplete(step)}

\* What CreateWorkingCorrespondences adds: one map to each past pair.
WorkingCorrespondences ==
    [b \in 1..Cardinality(PastPairs) |-> <<GetData(MATCHES, 0), GetData(MATCHES, b)>>]

InitializeNewSequence ==
    /\ pc = "store"
    /\ pending = <<>>
    /\ recorder!InitializeNewSequence
    /\ pc' = IF aborted' THEN "exited" ELSE "correspond"
    /\ pending' = WorkingCorrespondences
    /\ UNCHANGED <<historyVars, currentInputNumber, firstTimeBundle, pointCloudMap>>

AddCorrespondencesFromTwoImagePairs ==
    /\ pc = "correspond"
    /\ pending # <<>>
    /\ recorder!AddCorrespondencesFromTwoImagePairs(Head(pending))
    /\ pc' = IF aborted' THEN "exited" ELSE pc
    /\ pending' = Tail(pending)
    /\ UNCHANGED <<historyVars, currentInputNumber, firstTimeBundle, pointCloudMap>>

CompleteNewSequence ==
    /\ pc = "correspond"
    /\ pending = <<>>
    /\ recorder!CompleteNewSequence
    /\ pc' = IF aborted' THEN "exited" ELSE "estimate"
    /\ UNCHANGED <<historyVars, currentInputNumber, firstTimeBundle, pending, pointCloudMap>>

\* Fault: the bundle is computed one input too early.
TooFewInputs_OneLess == currentInputNumber + 2 < numberOfAdjustedStereoPairs

TooFewInputs == currentInputNumber + 1 < numberOfAdjustedStereoPairs

\* The inputs the k-th transform is between, counted from 0: the estimator
\* returns one for each map it was given, in their order.
GetPose(k) ==
    LET maps == recorder!GetLatestCorrespondences
    IN  IF k + 1 \in DOMAIN maps THEN maps[k + 1] ELSE UNKNOWN_MAP

MappedCloud(backwardSteps, transform) ==
    [cloud |-> GetData(STEREO_CLOUD, backwardSteps), transform |-> transform]

\* Fault: the latest cloud is added first and the oldest one last.
AddAllPointCloudsToMap_LatestFirst ==
    LET input == GetData(STEREO_CLOUD, 0)
        PoseOf(backwardSteps) ==
            IF backwardSteps = 0 THEN <<input, input>> ELSE GetPose(backwardSteps)
    IN  /\ firstTimeBundle
        /\ pointCloudMap' = pointCloudMap \o
              [k \in 1..numberOfAdjustedStereoPairs |-> MappedCloud(k - 1, PoseOf(k - 1))]

\* The first bundle estimated fills the map from its oldest cloud to its
\* latest one, which gets the zero pose.
AddAllPointCloudsToMap ==
    LET input == GetData(STEREO_CLOUD, 0)
        PoseOf(backwardSteps) ==
            IF backwardSteps = 0 THEN <<input, input>> ELSE GetPose(backwardSteps)
    IN  /\ firstTimeBundle
        /\ pointCloudMap' = pointCloudMap \o
              [k \in 1..numberOfAdjustedStereoPairs |->
                  MappedCloud(numberOfAdjustedStereoPairs - k,
                              PoseOf(numberOfAdjustedStereoPairs - k))]

\* Later ones attach their cloud to the one added last.
AddLastPointCloudToMap ==
    /\ ~firstTimeBundle
    /\ pointCloudMap' = Append(pointCloudMap, MappedCloud(0, GetPose(0)))

EstimationSucceeds ==
    /\ pc = "estimate"
    /\ ~TooFewInputs
    /\ AddAllPointCloudsToMap \/ AddLastPointCloudToMap
    /\ firstTimeBundle' = FALSE
    /\ currentInputNumber' = currentInputNumber + 1
    /\ pc' = "idle"
    /\ UNCHANGED <<historyVars, recorderVars, pending>>

\* Until a bundle could be estimated its inputs stay.
FirstBundleFails ==
    /\ pc = "estimate"
    /\ firstTimeBundle
    /\ currentInputNumber' = currentInputNumber + 1
    /\ pc' = "idle"
    /\ UNCHANGED <<historyVars, recorderVars, firstTimeBundle, pending, pointCloudMap>>

\* Fault: an input is removed even before a bundle was computed.
LaterBundleFails_AlsoFirst ==
    /\ pc = "estimate"
    /\ bundleHistory!RemoveEntry(0)
    /\ pc' = "remove"
    /\ UNCHANGED <<recorderVars, currentInputNumber, firstTimeBundle, pending, pointCloudMap>>

\* Fault: the input before the failed one is removed.
LaterBundleFails_RemovesPrevious ==
    /\ pc = "estimate"
    /\ ~firstTimeBundle
    /\ bundleHistory!RemoveEntry(1)
    /\ pc' = "remove"
    /\ UNCHANGED <<recorderVars, currentInputNumber, firstTimeBundle, pending, pointCloudMap>>

LaterBundleFails ==
    /\ pc = "estimate"
    /\ ~firstTimeBundle
    /\ bundleHistory!RemoveEntry(0)
    /\ pc' = "remove"
    /\ UNCHANGED <<recorderVars, currentInputNumber, firstTimeBundle, pending, pointCloudMap>>

RemoveEntryLoop ==
    /\ pc = "remove"
    /\ bundleHistory!RemovalLoop
    /\ pc' = IF removing' = bundleHistory!NO_RECENT_ENTRY THEN "discard" ELSE pc
    /\ UNCHANGED <<recorderVars, currentInputNumber, firstTimeBundle, pending, pointCloudMap>>

DiscardLatestCorrespondences ==
    /\ pc = "discard"
    /\ recorder!DiscardLatestCorrespondences
    /\ pc' = IF aborted' THEN "exited" ELSE "idle"
    /\ UNCHANGED <<historyVars, currentInputNumber, firstTimeBundle, pending, pointCloudMap>>

InsideRun ==
    \/ StoreData
    \/ InitializeNewSequence
    \/ AddCorrespondencesFromTwoImagePairs
    \/ CompleteNewSequence
    \/ EstimationSucceeds
    \/ FirstBundleFails
    \/ LaterBundleFails
    \/ RemoveEntryLoop
    \/ DiscardLatestCorrespondences

Next == AddImages \/ InsideRun

\* run() is one thread of control and every call it makes returns.
Spec == Init /\ [][Next]_vars /\ WF_vars(InsideRun)

-----------------------------------------------------------------------------
(* Properties. *)

TypeOK ==
    /\ bundleHistory!TypeOK
    /\ currentInputNumber \in 0..MaxInputs
    /\ firstTimeBundle \in BOOLEAN
    /\ pc \in {"idle", "store", "correspond", "estimate", "remove", "discard", "exited"}
    /\ Len(pending) <= Len(DataOfInput) + numberOfAdjustedStereoPairs
    /\ \A k \in DOMAIN pointCloudMap : pointCloudMap[k].cloud \in 0..MaxInputs

\* The pairs in the history the recorder is about, latest first.
KeptPairs ==
    LET kept == Cardinality({b \in 0..(numberOfAdjustedStereoPairs - 1) :
                                GetData(bundleHistory!Image, b) # NULL})
    IN  [i \in 1..kept |-> GetData(bundleHistory!Image, i - 1)]

\* No ASSERT of the recorder fails, whatever inputs the estimator rejects.
NoAssertFails == ~aborted

\* The estimator expects the maps "in the following order, map(O1-O2),
\* map(O1-O3), ..., map(On-1, On)": when it is called, and between two runs,
\* the correspondences are those between the pairs the history holds.
RecorderAgreesWithHistory ==
    pc \in {"estimate", "idle"} =>
        recorder!GetLatestCorrespondences = AllMaps(KeptPairs)

\* The clouds AddAllPointCloudsToMap and AddLastPointCloudToMap dereference
\* are not NULL.
DereferencedDataExists ==
    pc = "estimate" /\ ~TooFewInputs =>
        \A b \in 0..(numberOfAdjustedStereoPairs - 1) : GetData(STEREO_CLOUD, b) # NULL

\* Between two runs the map holds each input of the current bundle exactly
\* once and no input is in it twice: none is lost when a failed one is taken
\* back, and no failed one is mapped.
MapHoldsTheBundleOnce ==
    pc = "idle" /\ ~firstTimeBundle =>
        /\ \A j, k \in DOMAIN pointCloudMap :
              pointCloudMap[j].cloud = pointCloudMap[k].cloud => j = k
        /\ \A b \in 0..(numberOfAdjustedStereoPairs - 1) :
              \E k \in DOMAIN pointCloudMap :
                  pointCloudMap[k].cloud = GetData(bundleHistory!Image, b)

\* Every run() returns, also one that removes its input again.
RunReturns == (pc # "idle") ~> (pc = "idle")

\* AttachPointCloud takes a position relative to the cloud added last: the
\* transform used is the one between the input and that cloud, also when
\* inputs in between have failed.
AttachedToLatestCloud ==
    [][pc = "estimate" /\ AddLastPointCloudToMap =>
          GetPose(0) = <<GetData(STEREO_CLOUD, 0), pointCloudMap[Len(pointCloudMap)].cloud>>]_vars
=============================================================================
