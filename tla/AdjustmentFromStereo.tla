------------------------- MODULE AdjustmentFromStereo -------------------------
(***************************************************************************)
(* DFPCs/Reconstruction3D/AdjustmentFromStereo: each call of run() stores  *)
(* an input and what is computed from it in the bundle history, adds its   *)
(* correspondences to those of the latest inputs, and lets the bundle      *)
(* adjuster compute the camera poses.  If that fails, the input is taken   *)
(* back from the history and the recorder; if not, its cloud is added to   *)
(* the point cloud map.                                                    *)
(*                                                                         *)
(* An input is named by its number.  The images, features and clouds of an *)
(* input are known by it; a correspondence map by the two images it        *)
(* matches; a pose by the images it is computed for.  Whether the bundle   *)
(* adjuster succeeds is not determined.                                    *)
(***************************************************************************)
EXTENDS CorrespondenceSequences

CONSTANTS numberOfAdjustedStereoPairs,
          useBundleInitialEstimation,
          MaxInputs                     \* bound on the calls of run()

\* The recorder has no room for the maps between six pairs.
ASSUME PairsAssumption == numberOfAdjustedStereoPairs \in 1..5
ASSUME EstimationAssumption == useBundleInitialEstimation \in BOOLEAN
ASSUME InputsAssumption == MaxInputs \in Nat

LEFT == "orb_left"
RIGHT == "orb_right"
STEREO_CLOUD == "stereo_cloud"
TRIANGULATION_CLOUD == "triangulation_cloud"
MATCHES == "matches"

VARIABLES mostRecentEntryIndex, oldestEntryIndex, lists, removing, alive, inputs, heap
historyVars == <<mostRecentEntryIndex, oldestEntryIndex, lists, removing, alive, inputs, heap>>

VARIABLES latestSequence, working, sequences, numberOfOldPoses, addingNewSequence,
          oneCorrespondenceWasAddedSinceLastDiscard, expectedMapsToAdd, aborted
recorderVars == <<latestSequence, working, sequences, numberOfOldPoses, addingNewSequence,
                  oneCorrespondenceWasAddedSinceLastDiscard, expectedMapsToAdd, aborted>>

VARIABLES currentInputNumber,
          firstTimeBundle,
          pc,           \* where run() is, "idle" between two calls
          pending,      \* what is still to be stored or added in this phase
          pointCloudMap \* the clouds in the map, in the order they were added
runVars == <<currentInputNumber, firstTimeBundle, pc, pending, pointCloudMap>>
vars == <<historyVars, recorderVars, runVars>>

\* The data of one input, in the order run() stores it.
DataOfInput ==
    IF useBundleInitialEstimation
    THEN <<STEREO_CLOUD, LEFT, RIGHT, TRIANGULATION_CLOUD, MATCHES>>
    ELSE <<STEREO_CLOUD, LEFT, RIGHT, MATCHES>>

bundleHistory == INSTANCE BundleHistory WITH
    Size <- numberOfAdjustedStereoPairs + 1,
    Categories <- {LEFT, RIGHT, STEREO_CLOUD, TRIANGULATION_CLOUD, MATCHES}

recorder == INSTANCE MultipleCorrespondences2DRecorder WITH
    MAXIMUM_NUMBER_OF_POSES <- numberOfAdjustedStereoPairs

NULL == bundleHistory!NULL
GetData(category, backwardSteps) == bundleHistory!GetData(category, backwardSteps)

\* The images the features in the history were extracted from.
LeftImage(backwardSteps) == <<GetData(LEFT, backwardSteps), "left">>
RightImage(backwardSteps) == <<GetData(RIGHT, backwardSteps), "right">>

\* The state after the constructor and setup().
Init ==
    /\ bundleHistory!Init
    /\ recorder!Init
    /\ currentInputNumber = 0
    /\ firstTimeBundle = TRUE
    /\ pc = "idle"
    /\ pending = <<>>
    /\ pointCloudMap = <<>>

-----------------------------------------------------------------------------
(* The steps of run(). *)

AddImages ==
    /\ pc = "idle"
    /\ ~aborted
    /\ bundleHistory!AddImages
    /\ pc' = "store"
    /\ pending' = DataOfInput
    /\ UNCHANGED <<recorderVars, currentInputNumber, firstTimeBundle, pointCloudMap>>

\* ComputeStereoPointCloud and ComputeVisualPointFeatures.
StoreData ==
    /\ pc = "store"
    /\ pending # <<>>
    /\ bundleHistory!AddData(Head(pending))
    /\ pending' = Tail(pending)
    /\ UNCHANGED <<recorderVars, currentInputNumber, firstTimeBundle, pc, pointCloudMap>>

\* Fault: the loop over the past pairs runs once too often.
PastPairs_OneMore ==
    {b \in 1..numberOfAdjustedStereoPairs :
        \A step \in 1..b : GetData(LEFT, step) # NULL /\ GetData(RIGHT, step) # NULL}

\* The past pairs whose features are there, up to the first that are not.
PastPairs ==
    {b \in 1..(numberOfAdjustedStereoPairs - 1) :
        \A step \in 1..b : GetData(LEFT, step) # NULL /\ GetData(RIGHT, step) # NULL}

MapsToPastPairs(image) ==
    [k \in 1..(2 * Cardinality(PastPairs)) |->
        <<image, IF k % 2 = 1 THEN LeftImage((k + 1) \div 2) ELSE RightImage(k \div 2)>>]

\* What CreateWorkingCorrespondences adds: the matches of the input, then
\* the maps from its left and from its right features.
WorkingCorrespondences ==
    LET matched == GetData(MATCHES, 0)
    IN  <<<<<<matched, "left">>, <<matched, "right">>>>>>
            \o MapsToPastPairs(LeftImage(0)) \o MapsToPastPairs(RightImage(0))

InitializeNewSequence ==
    /\ pc = "store"
    /\ pending = <<>>
    /\ recorder!InitializeNewSequence
    /\ pc' = IF aborted' THEN "exited" ELSE "correspond"
    /\ pending' = WorkingCorrespondences
    /\ UNCHANGED <<historyVars, currentInputNumber, firstTimeBundle, pointCloudMap>>

AddCorrespondences ==
    /\ pc = "correspond"
    /\ pending # <<>>
    /\ recorder!AddCorrespondences(Head(pending))
    /\ pc' = IF aborted' THEN "exited" ELSE pc
    /\ pending' = Tail(pending)
    /\ UNCHANGED <<historyVars, currentInputNumber, firstTimeBundle, pointCloudMap>>

CompleteNewSequence ==
    /\ pc = "correspond"
    /\ pending = <<>>
    /\ recorder!CompleteNewSequence
    /\ pc' = IF aborted' THEN "exited" ELSE "adjust"
    /\ UNCHANGED <<historyVars, currentInputNumber, firstTimeBundle, pending, pointCloudMap>>

\* Fault: the bundle is computed one input too early.
TooFewInputs_OneLess == currentInputNumber + 2 < numberOfAdjustedStereoPairs

TooFewInputs == currentInputNumber + 1 < numberOfAdjustedStereoPairs

\* The camera of the k-th pose, counted from 0: there is one pose for each
\* image of the pairs the correspondences are between, left before right.
CameraOfPose(k) ==
    IF k % 2 = 0 THEN LeftImage(k \div 2) ELSE RightImage(k \div 2)

MappedCloud(backwardSteps, camera) ==
    [cloud |-> GetData(STEREO_CLOUD, backwardSteps), camera |-> camera]

\* The first bundle that is adjusted fills the map, every cloud at its pose.
AddAllPointCloudsToMap ==
    /\ firstTimeBundle
    /\ pointCloudMap' = pointCloudMap \o
          [k \in 1..numberOfAdjustedStereoPairs |-> MappedCloud(k - 1, CameraOfPose(2 * (k - 1)))]

\* Later ones attach their cloud to the one added last, displaced by the
\* pose between the input and the one before it.
AddLastPointCloudToMap ==
    /\ ~firstTimeBundle
    /\ pointCloudMap' = Append(pointCloudMap, MappedCloud(0, CameraOfPose(2)))

AdjustmentSucceeds ==
    /\ pc = "adjust"
    /\ ~TooFewInputs
    /\ AddAllPointCloudsToMap \/ AddLastPointCloudToMap
    /\ firstTimeBundle' = FALSE
    /\ currentInputNumber' = currentInputNumber + 1
    /\ pc' = "idle"
    /\ UNCHANGED <<historyVars, recorderVars, pending>>

\* Until a bundle could be adjusted its inputs stay.
FirstBundleFails ==
    /\ pc = "adjust"
    /\ firstTimeBundle
    /\ currentInputNumber' = currentInputNumber + 1
    /\ pc' = "idle"
    /\ UNCHANGED <<historyVars, recorderVars, firstTimeBundle, pending, pointCloudMap>>

\* Fault: an input is removed even before a bundle was computed.
LaterBundleFails_AlsoFirst ==
    /\ pc = "adjust"
    /\ bundleHistory!RemoveEntry(0)
    /\ pc' = "remove"
    /\ UNCHANGED <<recorderVars, currentInputNumber, firstTimeBundle, pending, pointCloudMap>>

\* Fault: the input before the failed one is removed.
LaterBundleFails_RemovesPrevious ==
    /\ pc = "adjust"
    /\ ~firstTimeBundle
    /\ bundleHistory!RemoveEntry(1)
    /\ pc' = "remove"
    /\ UNCHANGED <<recorderVars, currentInputNumber, firstTimeBundle, pending, pointCloudMap>>

LaterBundleFails ==
    /\ pc = "adjust"
    /\ ~firstTimeBundle
    /\ bundleHistory!RemoveEntry(0)
    /\ pc' = "remove"
    /\ UNCHANGED <<recorderVars, currentInputNumber, firstTimeBundle, pending, pointCloudMap>>

RemoveEntryLoop ==
    /\ pc = "remove"
    /\ bundleHistory!RemovalLoop
    /\ pc' = IF removing' = bundleHistory!NO_RECENT_ENTRY THEN "discard" ELSE pc
    /\ UNCHANGED <<recorderVars, currentInputNumber, firstTimeBundle, pending, pointCloudMap>>

DiscardLatestCorrespondences ==
    /\ pc = "discard"
    /\ recorder!DiscardLatestCorrespondences
    /\ pc' = IF aborted' THEN "exited" ELSE "idle"
    /\ UNCHANGED <<historyVars, currentInputNumber, firstTimeBundle, pending, pointCloudMap>>

InsideRun ==
    \/ StoreData
    \/ InitializeNewSequence
    \/ AddCorrespondences
    \/ CompleteNewSequence
    \/ AdjustmentSucceeds
    \/ FirstBundleFails
    \/ LaterBundleFails
    \/ RemoveEntryLoop
    \/ DiscardLatestCorrespondences

Next == AddImages \/ InsideRun

\* run() is one thread of control and every call it makes returns.
Spec == Init /\ [][Next]_vars /\ WF_vars(InsideRun)

-----------------------------------------------------------------------------
(* Properties. *)

TypeOK ==
    /\ bundleHistory!TypeOK
    /\ currentInputNumber \in 0..MaxInputs
    /\ firstTimeBundle \in BOOLEAN
    /\ pc \in {"idle", "store", "correspond", "adjust", "remove", "discard", "exited"}
    /\ Len(pending) <= 4 * numberOfAdjustedStereoPairs + 1
    /\ \A k \in DOMAIN pointCloudMap : pointCloudMap[k].cloud \in 0..MaxInputs

\* The images of the pairs in the history the recorder is about, latest first.
KeptImages ==
    LET kept == Cardinality({b \in 0..(numberOfAdjustedStereoPairs - 1) :
                                GetData(bundleHistory!Image, b) # NULL})
    IN  ImagesOfPairs([i \in 1..kept |-> GetData(bundleHistory!Image, i - 1)])

\* No ASSERT of the recorder fails, whatever inputs the adjuster rejects:
\* run() ends the program only if its two memories disagree, and no sequence
\* of maps outgrows its storage.
NoAssertFails == ~aborted

\* History and recorder forget the same inputs: when the adjuster gets the
\* correspondences, and between two runs, they are those between the images
\* the history holds, in the order of the recorder's header.
RecorderAgreesWithHistory ==
    pc \in {"adjust", "idle"} =>
        recorder!GetLatestCorrespondences = AllMaps(KeptImages)

\* The adjuster is never called on fewer maps than Filter reads.
FilterReadsStoredMaps ==
    pc = "adjust" /\ ~TooFewInputs =>
        recorder!MapsReadByFilter <= Len(recorder!GetLatestCorrespondences)

\* The pointers ComputeCameraPoses, AddAllPointCloudsToMap and
\* AddLastPointCloudToMap dereference are not NULL.
DereferencedDataExists ==
    pc = "adjust" /\ ~TooFewInputs =>
        /\ \A b \in 0..(numberOfAdjustedStereoPairs - 1) : GetData(STEREO_CLOUD, b) # NULL
        /\ useBundleInitialEstimation =>
              /\ GetData(TRIANGULATION_CLOUD, 0) # NULL
              /\ \A b \in 1..(numberOfAdjustedStereoPairs - 1) :
                    GetData(LEFT, b) # NULL =>
                        /\ GetData(MATCHES, b) # NULL
                        /\ GetData(TRIANGULATION_CLOUD, b) # NULL

\* Between two runs the map holds each input of the current bundle exactly
\* once and no input is in it twice: none is lost when a failed one is taken
\* back, and no failed one is mapped.
MapHoldsTheBundleOnce ==
    pc = "idle" /\ ~firstTimeBundle =>
        /\ \A j, k \in DOMAIN pointCloudMap :
              pointCloudMap[j].cloud = pointCloudMap[k].cloud => j = k
        /\ \A b \in 0..(numberOfAdjustedStereoPairs - 1) :
              \E k \in DOMAIN pointCloudMap :
                  pointCloudMap[k].cloud = GetData(bundleHistory!Image, b)

\* Every run() returns, also one that removes its input again.
RunReturns == (pc # "idle") ~> (pc = "idle")

\* AttachPointCloud takes "a given position relative to the reference system
\* of the last added or attached point cloud": the displacement must be
\* relative to the camera of that cloud.
AttachedToLatestCloud ==
    [][pc = "adjust" /\ AddLastPointCloudToMap =>
          CameraOfPose(2)[1] = pointCloudMap[Len(pointCloudMap)].cloud]_vars
=============================================================================
