------------------------- MODULE StereoRegistration -------------------------
(***************************************************************************)
(* DFPCs/Reconstruction3D: RegistrationFromStereo and its variants         *)
(* SparseRegistrationFromStereo and DenseRegistrationFromStereo.  Each     *)
(* computes a cloud from a stereo pair, registers it to what the history   *)
(* of two entries holds for the input before, moves the camera pose by the *)
(* result, and extends the map.  The three differ in what they register    *)
(* and in when they store it; parameters says which one runs, and with     *)
(* which options.                                                          *)
(*                                                                         *)
(* A coordinate system is named by the input whose camera it belongs to;   *)
(* the map's is that of the first input, which gets the zero pose.  A pose *)
(* is the pair of systems it leads from and to, so that poses can only be  *)
(* summed when they meet.  A cloud, or the features taken from one, is     *)
(* known by what it shows and by the system its points are in.  Whether a  *)
(* registration succeeds is not determined.                                *)
(***************************************************************************)
EXTENDS Integers, Sequences, SequencesExt

CONSTANTS Configurations,   \* the parameter files a run may be given
          MaxInputs         \* bound on the calls of run()

CLOUD == "point_cloud"

NoContent == [shows |-> "nothing", in |-> 0]
FrameCloud(input) == [shows |-> "frame", in |-> input]
Reconstruction(system) == [shows |-> "reconstruction", in |-> system]

\* Pairs of systems; UNKNOWN_POSE leads nowhere.
Systems == 0..MaxInputs
UNKNOWN_POSE == <<0, 0>>
ORIGIN == 1

Chains == {"registration", "sparse", "dense"}
UpdateTypes == {"TimePassed", "DistanceCovered", "MaximumOverlapping"}
AllConfigurations ==
    [chain : Chains, matchToReconstructedCloud : BOOLEAN, useAssemblerDfn : BOOLEAN,
     useRegistratorDfn : BOOLEAN, cloudUpdateType : UpdateTypes, cloudUpdateTime : 1..MaxInputs]

\* The options with which a chain keeps track of the camera: what it stores
\* is what the next input has to be registered to, and no registrator refines
\* the pose, whose two estimates are summed in the wrong order.
TracksCamera(p) ==
    /\ ~p.useRegistratorDfn
    /\ p.chain = "sparse" => ~p.matchToReconstructedCloud
    /\ p.chain = "dense" =>
          IF p.matchToReconstructedCloud THEN p.useAssemblerDfn
          ELSE p.cloudUpdateType = "TimePassed" /\ p.cloudUpdateTime = 1

ASSUME ConfigurationsAssumption == Configurations \subseteq AllConfigurations
ASSUME InputsAssumption == MaxInputs \in Nat \ {0}

VARIABLES mostRecentEntryIndex, oldestEntryIndex, lists, removing, alive, inputs, heap
historyVars == <<mostRecentEntryIndex, oldestEntryIndex, lists, removing, alive, inputs, heap>>

VARIABLES parameters,
          pc,             \* where run() is, "idle" between two calls
          firstInput,
          outSuccess,
          outPose,
          outPointCloud,
          featureCloud,   \* member of the sparse variant
          mergeCounter,   \* static of the dense variant; nothing else ran before
          stored,         \* stored[list][n]: what run n put into the history
          pointCloudMap   \* the clouds in the map or the assembler, in order
cloudVars == <<outPointCloud, featureCloud, mergeCounter, stored>>
runVars == <<parameters, pc, firstInput, outSuccess, outPose, cloudVars, pointCloudMap>>
vars == <<historyVars, runVars>>

bundleHistory == INSTANCE BundleHistory WITH Size <- 2, Categories <- {CLOUD}

NULL == bundleHistory!NULL
Features3d == bundleHistory!Features3d
GetData(category, backwardSteps) == bundleHistory!GetData(category, backwardSteps)

Matching == parameters.matchToReconstructedCloud
Assembling == parameters.useAssemblerDfn
Refining == parameters.useRegistratorDfn

\* The state after the constructor and setup().
Init ==
    /\ bundleHistory!Init
    /\ parameters \in Configurations
    /\ pc = "idle"
    /\ firstInput = TRUE
    /\ outSuccess = FALSE
    /\ outPose = UNKNOWN_POSE
    /\ outPointCloud = NoContent
    /\ featureCloud = NoContent
    /\ mergeCounter = 0
    /\ stored = [list \in {CLOUD, Features3d} |-> [n \in 1..MaxInputs |-> NoContent]]
    /\ pointCloudMap = <<>>

-----------------------------------------------------------------------------
(* What run() stores and reads. *)

Store(list, content) ==
    /\ bundleHistory!AddData(list)
    /\ stored' = [stored EXCEPT ![list][inputs] = content]

StoredFor(list, backwardSteps) ==
    LET input == GetData(list, backwardSteps)
    IN  IF input = NULL THEN NoContent ELSE stored[list][input]

\* What an input is registered to is kept here.
TargetList == IF parameters.chain = "registration" THEN Features3d ELSE CLOUD

\* Fault: the data of the input itself is taken for that of the one before.
Target_OwnEntry == StoredFor(TargetList, 0)

Target == StoredFor(TargetList, 1)

\* What is registered: the sparse variant takes its member, whoever set it.
Source == IF parameters.chain = "sparse" THEN featureCloud ELSE FrameCloud(inputs)

-----------------------------------------------------------------------------
(* Poses. *)

Register(source, target) == <<source.in, target.in>>

Sum(outer, inner) == IF inner[2] = outer[1] THEN <<inner[1], outer[2]>> ELSE UNKNOWN_POSE

\* The registrator corrects a cloud already moved by the first estimate: its
\* result is the outer of the two poses, but is given to Sum as the inner one.
Refine(close) == Sum(close, Register([in |-> close[2]], StoredFor(CLOUD, 1)))

PoseToPreviousPose ==
    LET close == Register(Source, Target)
    IN  IF Refining THEN Refine(close) ELSE close

GetLatestPose == Last(pointCloudMap).pose

AddPointCloud(map, pose) == Append(map, [cloud |-> inputs, pose |-> pose])

-----------------------------------------------------------------------------
(* The steps of run(). *)

AddImages ==
    /\ pc = "idle"
    /\ bundleHistory!AddImages
    /\ pc' = IF Matching THEN "match" ELSE "store"
    /\ UNCHANGED <<parameters, firstInput, outSuccess, outPose, cloudVars, pointCloudMap>>

\* To be matched to the next frame, an input is stored before its own match.
StoreFrame ==
    /\ pc = "store"
    /\ Store(TargetList, FrameCloud(inputs))
    /\ featureCloud' = IF parameters.chain = "sparse" THEN FrameCloud(inputs) ELSE featureCloud
    /\ pc' = "match"
    /\ UNCHANGED <<parameters, firstInput, outSuccess, outPose, outPointCloud, mergeCounter,
                   pointCloudMap>>

\* Fault: success is not reported, and run() removes the only entry.
PlaceFirstInput_NotReported ==
    /\ pc = "match"
    /\ firstInput
    /\ firstInput' = FALSE
    /\ outPose' = <<inputs, ORIGIN>>
    /\ pointCloudMap' = IF Assembling THEN pointCloudMap ELSE AddPointCloud(pointCloudMap, outPose')
    /\ bundleHistory!RemoveEntry(0)
    /\ pc' = "remove"
    /\ UNCHANGED <<parameters, outSuccess, cloudVars>>

\* The first input is the origin of the map.
PlaceFirstInput ==
    /\ pc = "match"
    /\ firstInput
    /\ firstInput' = FALSE
    /\ outSuccess' = TRUE
    /\ outPose' = <<inputs, ORIGIN>>
    /\ pointCloudMap' = IF Assembling THEN pointCloudMap ELSE AddPointCloud(pointCloudMap, outPose')
    /\ pc' = "update"
    /\ UNCHANGED <<historyVars, parameters, cloudVars>>

\* Fault: the pose of a match to the previous frame is not added up.
RegistrationSucceeds_NoSum ==
    /\ pc = "match"
    /\ ~firstInput
    /\ Target # NoContent
    /\ outSuccess' = TRUE
    /\ outPose' = PoseToPreviousPose
    /\ pointCloudMap' = IF Assembling THEN pointCloudMap
                                      ELSE AddPointCloud(pointCloudMap, outPose')
    /\ pc' = "update"
    /\ UNCHANGED <<historyVars, parameters, firstInput, cloudVars>>

\* A match to the reconstruction gives the pose in the map, one to the
\* previous frame is added to the pose of that frame.
RegistrationSucceeds ==
    /\ pc = "match"
    /\ ~firstInput
    /\ Target # NoContent
    /\ outSuccess' = TRUE
    /\ outPose' = IF Matching THEN PoseToPreviousPose
                  ELSE Sum(IF Assembling THEN outPose ELSE GetLatestPose, PoseToPreviousPose)
    /\ pointCloudMap' = IF Assembling THEN pointCloudMap
                                      ELSE AddPointCloud(pointCloudMap, outPose')
    /\ pc' = "update"
    /\ UNCHANGED <<historyVars, parameters, firstInput, cloudVars>>

\* Fault: the entry before the failed input is removed.
RegistrationFails_RemovesPrevious ==
    /\ pc = "match"
    /\ ~firstInput
    /\ Target # NoContent
    /\ outSuccess' = FALSE
    /\ bundleHistory!RemoveEntry(1)
    /\ pc' = "remove"
    /\ UNCHANGED <<parameters, firstInput, outPose, cloudVars, pointCloudMap>>

RegistrationFails ==
    /\ pc = "match"
    /\ ~firstInput
    /\ Target # NoContent
    /\ outSuccess' = FALSE
    /\ bundleHistory!RemoveEntry(0)
    /\ pc' = "remove"
    /\ UNCHANGED <<parameters, firstInput, outPose, cloudVars, pointCloudMap>>

\* Every run of the dense variant is counted, also a failed one.
CountsTime == parameters.chain = "dense" /\ parameters.cloudUpdateType = "TimePassed"

\* Fault: the counter does not start again.
NextMergeCounter_NoReset == IF CountsTime THEN mergeCounter + 1 ELSE mergeCounter

NextMergeCounter == IF CountsTime THEN (mergeCounter + 1) % parameters.cloudUpdateTime
                                  ELSE mergeCounter

\* RemoveEntry(0) drops the newest entry: its loop ends at once.
RemoveEntryLoop ==
    /\ pc = "remove"
    /\ bundleHistory!RemovalLoop
    /\ IF removing' = bundleHistory!NO_RECENT_ENTRY
       THEN pc' = "idle" /\ mergeCounter' = NextMergeCounter
       ELSE UNCHANGED <<pc, mergeCounter>>
    /\ UNCHANGED <<parameters, firstInput, outSuccess, outPose, outPointCloud, featureCloud,
                   stored, pointCloudMap>>

\* The scene comes from the map in the system of the camera, from the
\* assembler in that into which the cloud was moved.
Output == Reconstruction(IF Assembling THEN outPose[2] ELSE outPose[1])

\* Fault: a cloud already in the map is added once more.
ExtendMap_AddsAgain == pointCloudMap' = AddPointCloud(pointCloudMap, outPose)

\* The assembler gets the cloud with the output, the map has it already.
ExtendMap ==
    pointCloudMap' = IF Assembling THEN AddPointCloud(pointCloudMap, outPose) ELSE pointCloudMap

\* RegistrationFromStereo::UpdatePointCloud up to its output: the features
\* of the whole scene, in the system of the map, are what comes next.
StoreSceneFeatures ==
    /\ pc = "update"
    /\ parameters.chain = "registration"
    /\ Matching
    /\ Store(Features3d, Reconstruction(ORIGIN))
    /\ pc' = "output"
    /\ UNCHANGED <<parameters, firstInput, outSuccess, outPose, outPointCloud, featureCloud,
                   mergeCounter, pointCloudMap>>

RegistrationOutput ==
    /\ parameters.chain = "registration"
    /\ pc = (IF Matching THEN "output" ELSE "update")
    /\ ExtendMap
    /\ outPointCloud' = Output
    /\ IF Matching THEN Store(CLOUD, outPointCloud') ELSE UNCHANGED <<historyVars, stored>>
    /\ pc' = "idle"
    /\ UNCHANGED <<parameters, firstInput, outSuccess, outPose, featureCloud, mergeCounter>>

\* With an assembler the features are those of the input, not of the scene.
SparseOutput ==
    /\ parameters.chain = "sparse"
    /\ pc = "update"
    /\ ExtendMap
    /\ featureCloud' = IF ~Matching THEN featureCloud
                       ELSE IF Assembling THEN FrameCloud(inputs) ELSE Reconstruction(ORIGIN)
    /\ IF Matching THEN Store(CLOUD, featureCloud') ELSE UNCHANGED <<historyVars, stored>>
    /\ outPointCloud' = Output
    /\ pc' = "idle"
    /\ UNCHANGED <<parameters, firstInput, outSuccess, outPose, mergeCounter>>

\* The distance and the overlap are not determined, but nothing was merged
\* before the first input.
MergeIsDue == IF CountsTime THEN mergeCounter = 0 ELSE TRUE
MergeCanWait == IF CountsTime THEN mergeCounter # 0 ELSE outPointCloud # NoContent

\* Fault: a merged cloud is not stored for the next match.
DenseMerges_NotStored ==
    /\ parameters.chain = "dense"
    /\ pc = "update"
    /\ MergeIsDue
    /\ ExtendMap
    /\ outPointCloud' = Output
    /\ mergeCounter' = NextMergeCounter
    /\ pc' = "idle"
    /\ UNCHANGED <<historyVars, parameters, firstInput, outSuccess, outPose, featureCloud, stored>>

DenseMerges ==
    /\ parameters.chain = "dense"
    /\ pc = "update"
    /\ MergeIsDue
    /\ ExtendMap
    /\ outPointCloud' = Output
    /\ IF Matching THEN Store(CLOUD, outPointCloud') ELSE UNCHANGED <<historyVars, stored>>
    /\ mergeCounter' = NextMergeCounter
    /\ pc' = "idle"
    /\ UNCHANGED <<parameters, firstInput, outSuccess, outPose, featureCloud>>

\* Without a merge the last output stands for the input, matching or not.
DenseKeepsOutput ==
    /\ parameters.chain = "dense"
    /\ pc = "update"
    /\ MergeCanWait
    /\ Store(CLOUD, outPointCloud)
    /\ mergeCounter' = NextMergeCounter
    /\ pc' = "idle"
    /\ UNCHANGED <<parameters, firstInput, outSuccess, outPose, outPointCloud, featureCloud,
                   pointCloudMap>>

InsideRun ==
    \/ StoreFrame
    \/ PlaceFirstInput
    \/ RegistrationSucceeds
    \/ RegistrationFails
    \/ RemoveEntryLoop
    \/ StoreSceneFeatures
    \/ RegistrationOutput
    \/ SparseOutput
    \/ DenseMerges
    \/ DenseKeepsOutput

Next == AddImages \/ InsideRun

\* run() is one thread of control and every call it makes returns.
Spec == Init /\ [][Next]_vars /\ WF_vars(InsideRun)
-----------------------------------------------------------------------------
(* Properties. *)

TypeOK ==
    /\ bundleHistory!TypeOK
    /\ parameters \in Configurations
    /\ pc \in {"idle", "store", "match", "remove", "update", "output"}
    /\ firstInput \in BOOLEAN
    /\ outSuccess \in BOOLEAN
    /\ outPose \in Systems \X Systems
    /\ {outPointCloud, featureCloud} \subseteq
          [shows : {"nothing", "frame", "reconstruction"}, in : Systems]
    /\ mergeCounter \in 0..(parameters.cloudUpdateTime - 1)
    /\ Len(pointCloudMap) <= inputs

\* The input a pose belongs to: the first component leads from its camera.
PosedInput == outPose[1]

\* "whether the cloud is matched to the previous reconstruction or is
\* matched to the previous frame": what is registered is the current input,
\* and what it is registered to exists and is the reconstruction, or the
\* frame whose pose is known, however many inputs failed in between.
MatchedAsConfigured ==
    pc = "match" /\ ~firstInput =>
        /\ Source = FrameCloud(inputs)
        /\ IF Matching THEN Target.shows = "reconstruction" ELSE Target = FrameCloud(PosedInput)

\* Between two runs the pose is that of the newest entry of the history, in
\* the map: each registration is added to the pose it is relative to.
PoseIsThatOfTheNewestEntry ==
    pc = "idle" /\ inputs > 0 => outPose = <<GetData(bundleHistory!Image, 0), ORIGIN>>

\* Between two runs the newest entry has what the next input is registered
\* to, and what is stored was stored by its own run: RemoveEntry, which
\* leaves the 3d features alone, hands none of a failed input on.
NewestEntryHasItsTarget ==
    pc = "idle" /\ inputs > 0 =>
        /\ GetData(TargetList, 0) = GetData(bundleHistory!Image, 0)
        /\ StoredFor(TargetList, 0) # NoContent

\* Every cloud is in the map once, at the pose of its own input.
MapHoldsPosedInputsOnce ==
    \A j, k \in DOMAIN pointCloudMap :
        /\ pointCloudMap[j].pose = <<pointCloudMap[j].cloud, ORIGIN>>
        /\ pointCloudMap[j].cloud = pointCloudMap[k].cloud => j = k

\* Every run() returns, also one that removes its input again.
RunReturns == (pc # "idle") ~> (pc = "idle")
=============================================================================
