---------------------- MODULE StereoRegistration_proofs ----------------------
(***************************************************************************)
(* What the registration DFPCs keep about the camera, for every number of  *)
(* inputs and every set of options with which they can keep track of it.   *)
(***************************************************************************)
EXTENDS StereoRegistration, SequenceTheorems, TLAPS

Image == bundleHistory!Image
Lists == {CLOUD, Image, Features3d}

-----------------------------------------------------------------------------
(* The history of two entries.                                             *)

\* The entry in the other slot is the one before the newest.
Newest == mostRecentEntryIndex
OtherSlot == 1 - mostRecentEntryIndex

HistoryType ==
    /\ mostRecentEntryIndex \in {-1, 0, 1}
    /\ oldestEntryIndex \in {0, 1}
    /\ lists \in [Lists -> [0..1 -> 0..MaxInputs]]
    /\ inputs \in 0..MaxInputs

LEMMA HistoryConstants ==
    /\ bundleHistory!Slots = 0..1
    /\ bundleHistory!Payloads = 0..MaxInputs
    /\ bundleHistory!AllLists = Lists
    /\ bundleHistory!Deleted = {CLOUD, Image}
    /\ NULL = 0 /\ bundleHistory!NULL = 0 /\ bundleHistory!NO_RECENT_ENTRY = -1
    /\ CLOUD # Image /\ CLOUD # Features3d /\ Image # Features3d
  BY DEF bundleHistory!Slots, bundleHistory!Payloads, bundleHistory!AllLists,
         bundleHistory!Deleted, bundleHistory!Image, bundleHistory!Features3d,
         bundleHistory!NO_RECENT_ENTRY, bundleHistory!NULL, NULL, Image,
         Features3d, Lists, CLOUD

LEMMA SlotArithmetic ==
    /\ (0 + 1) % 2 = 1 /\ (1 + 1) % 2 = 0 /\ (-1 + 1) % 2 = 0
    /\ (0 + 2 - 0) % 2 = 0 /\ (1 + 2 - 0) % 2 = 1
    /\ (0 + 2 - 1) % 2 = 1 /\ (1 + 2 - 1) % 2 = 0
  OBVIOUS

\* The getters of the newest entry and of the one before it.
LEMMA ReadNewest ==
    ASSUME HistoryType, mostRecentEntryIndex # -1, NEW c \in Lists
    PROVE  /\ bundleHistory!BackwardStepsToIndex(0) = mostRecentEntryIndex
           /\ GetData(c, 0) = lists[c][mostRecentEntryIndex]
  BY HistoryConstants, SlotArithmetic
     DEF HistoryType, GetData, bundleHistory!GetData,
         bundleHistory!BackwardStepsToIndex

LEMMA ReadPrevious ==
    ASSUME HistoryType, mostRecentEntryIndex # -1,
           oldestEntryIndex = OtherSlot, NEW c \in Lists
    PROVE  GetData(c, 1) = lists[c][OtherSlot]
  BY HistoryConstants, SlotArithmetic
     DEF HistoryType, GetData, bundleHistory!GetData, OtherSlot,
         bundleHistory!BackwardStepsToIndex

\* AddImages moves to the other slot and leaves the newest entry alone.
LEMMA AddImagesMoves ==
    ASSUME HistoryType, bundleHistory!AddImages,
           mostRecentEntryIndex = -1 => oldestEntryIndex = 0
    PROVE  /\ HistoryType' /\ inputs' = inputs + 1
           /\ removing = -1 /\ removing' = -1
           /\ mostRecentEntryIndex' = IF mostRecentEntryIndex = -1 THEN 0 ELSE OtherSlot
           /\ oldestEntryIndex' = IF mostRecentEntryIndex = -1 THEN 0
                                                              ELSE mostRecentEntryIndex
           /\ lists'[Image][mostRecentEntryIndex'] = inputs'
           /\ mostRecentEntryIndex # -1 =>
                \A c \in Lists :
                    lists'[c][mostRecentEntryIndex] = lists[c][mostRecentEntryIndex]
  <1> USE HistoryConstants, SlotArithmetic DEF HistoryType, OtherSlot
  <1>1. /\ inputs' = inputs + 1 /\ inputs' \in 0..MaxInputs
        /\ removing = -1 /\ removing' = -1
    BY InputsAssumption DEF bundleHistory!AddImages, bundleHistory!Ready
  <1>2. CASE bundleHistory!ReplaceOldestImages
    <2>1. /\ mostRecentEntryIndex # -1 /\ oldestEntryIndex = OtherSlot
          /\ mostRecentEntryIndex' = OtherSlot
          /\ oldestEntryIndex' = mostRecentEntryIndex
      BY <1>2 DEF bundleHistory!ReplaceOldestImages, bundleHistory!IsFull
    <2>2. lists' = [bundleHistory!ListsWithoutDataAt(oldestEntryIndex)
                       EXCEPT ![Image][oldestEntryIndex] = inputs']
      BY <1>2 DEF bundleHistory!ReplaceOldestImages, Image
    <2>3. /\ lists' \in [Lists -> [0..1 -> 0..MaxInputs]]
          /\ lists'[Image][oldestEntryIndex] = inputs'
          /\ \A c \in Lists :
                lists'[c][mostRecentEntryIndex] = lists[c][mostRecentEntryIndex]
      BY <1>1, <2>1, <2>2 DEF bundleHistory!ListsWithoutDataAt, Lists
    <2> QED
      BY <1>1, <2>1, <2>3
  <1>3. CASE bundleHistory!AppendImages
    <2>1. /\ mostRecentEntryIndex' = IF mostRecentEntryIndex = -1 THEN 0 ELSE OtherSlot
          /\ oldestEntryIndex' = oldestEntryIndex
          /\ mostRecentEntryIndex # -1 => oldestEntryIndex = mostRecentEntryIndex
      BY <1>3 DEF bundleHistory!AppendImages, bundleHistory!IsFull
    <2>2. lists' = [lists EXCEPT ![Image][mostRecentEntryIndex'] = inputs']
      BY <1>3 DEF bundleHistory!AppendImages, Image
    <2>3. /\ lists' \in [Lists -> [0..1 -> 0..MaxInputs]]
          /\ lists'[Image][mostRecentEntryIndex'] = inputs'
          /\ mostRecentEntryIndex # -1 =>
                \A c \in Lists :
                    lists'[c][mostRecentEntryIndex] = lists[c][mostRecentEntryIndex]
      BY <1>1, <2>1, <2>2 DEF Lists
    <2> QED
      BY <1>1, <2>1, <2>3
  <1> QED
    BY <1>2, <1>3 DEF bundleHistory!AddImages

\* The getters' lists change at the newest entry only when data is added.
LEMMA AddDataStores ==
    ASSUME HistoryType, NEW list \in Lists, bundleHistory!AddData(list)
    PROVE  /\ HistoryType'
           /\ removing = -1
           /\ mostRecentEntryIndex # -1
           /\ lists[Image][mostRecentEntryIndex] = inputs
           /\ lists' = [lists EXCEPT ![list][mostRecentEntryIndex] = inputs]
           /\ UNCHANGED <<mostRecentEntryIndex, oldestEntryIndex, removing, alive, inputs>>
  BY HistoryConstants
     DEF HistoryType, bundleHistory!AddData, bundleHistory!Ready, Lists, Image

\* Clearing one slot leaves the other alone.
LEMMA ClearedSlot ==
    ASSUME HistoryType, NEW slot \in {0, 1}
    PROVE  /\ bundleHistory!ListsWithoutDataAt(slot) \in [Lists -> [0..1 -> 0..MaxInputs]]
           /\ \A c \in Lists :
                bundleHistory!ListsWithoutDataAt(slot)[c][1 - slot] = lists[c][1 - slot]
  BY HistoryConstants, InputsAssumption
     DEF HistoryType, Lists, bundleHistory!ListsWithoutDataAt

\* RemoveEntry(0) and its loop drop the newest entry and nothing else.
LEMMA RemoveEntryDrops ==
    ASSUME HistoryType, mostRecentEntryIndex # -1, oldestEntryIndex = OtherSlot,
           bundleHistory!RemoveEntry(0)
    PROVE  /\ HistoryType'
           /\ removing' = mostRecentEntryIndex
           /\ UNCHANGED <<mostRecentEntryIndex, oldestEntryIndex, inputs>>
           /\ \A c \in Lists : lists'[c][OtherSlot] = lists[c][OtherSlot]
  <1> USE HistoryConstants DEF HistoryType, OtherSlot
  <1>1. bundleHistory!BackwardStepsToIndex(0) = mostRecentEntryIndex
    BY ReadNewest DEF Lists
  <1>2. /\ lists' = bundleHistory!ListsWithoutDataAt(mostRecentEntryIndex)
        /\ removing' = mostRecentEntryIndex
        /\ UNCHANGED <<mostRecentEntryIndex, oldestEntryIndex, inputs>>
    BY <1>1 DEF bundleHistory!RemoveEntry, bundleHistory!queueVars
  <1> QED
    BY <1>2, ClearedSlot

LEMMA RemovalLoopEnds ==
    ASSUME HistoryType, mostRecentEntryIndex # -1, oldestEntryIndex = OtherSlot,
           removing = mostRecentEntryIndex, bundleHistory!RemovalLoop
    PROVE  /\ HistoryType'
           /\ removing' = -1
           /\ mostRecentEntryIndex' = OtherSlot
           /\ UNCHANGED <<oldestEntryIndex, inputs>>
           /\ \A c \in Lists : lists'[c][OtherSlot] = lists[c][OtherSlot]
  <1> USE HistoryConstants, SlotArithmetic DEF HistoryType, OtherSlot
  <1>1. bundleHistory!FinishRemoval
    BY DEF bundleHistory!RemovalLoop, bundleHistory!ShiftEntry
  <1>2. /\ lists' = bundleHistory!ListsWithoutDataAt(mostRecentEntryIndex)
        /\ removing' = -1
        /\ mostRecentEntryIndex' = OtherSlot
        /\ UNCHANGED <<oldestEntryIndex, inputs>>
    BY <1>1 DEF bundleHistory!FinishRemoval
  <1> QED
    BY <1>2, ClearedSlot

-----------------------------------------------------------------------------
(* Why the chains keep track of the camera.                                *)

Contents == [shows : {"nothing", "frame", "reconstruction"}, in : Systems]

Types ==
    /\ HistoryType
    /\ parameters \in Configurations
    /\ pc \in {"idle", "store", "match", "remove", "update", "output"}
    /\ firstInput \in BOOLEAN
    /\ stored \in [{CLOUD, Features3d} -> [1..MaxInputs -> Contents]]
    /\ pointCloudMap \in Seq([cloud : 1..MaxInputs, pose : Systems \X Systems])

\* Only the run of the first input has a single entry; a removal is under
\* way just where run() waits for it, and of the newest entry.
EntriesFollowTheRun ==
    /\ mostRecentEntryIndex = -1 <=> inputs = 0
    /\ mostRecentEntryIndex = -1 => oldestEntryIndex = 0 /\ pc = "idle"
    /\ firstInput <=> inputs = 0 \/ (inputs = 1 /\ pc \in {"store", "match"})
    /\ ~firstInput /\ pc \in {"store", "match", "remove"} => oldestEntryIndex = OtherSlot
    /\ pc = "remove" => removing = mostRecentEntryIndex
    /\ pc \notin {"idle", "remove"} => lists[Image][Newest] = inputs

StepsOfTheChain ==
    /\ pc = "store" => ~Matching
    /\ pc = "output" => parameters.chain = "registration" /\ Matching
    /\ parameters.chain = "sparse" /\ pc = "match" => featureCloud = FrameCloud(inputs)

\* The entry whose pose is known: the one before the newest until the newest
\* is registered.
Unposed == pc \in {"store", "match", "remove"}
PosedSlot == IF Unposed THEN OtherSlot ELSE Newest

PoseOfThePosedEntry ==
    ~firstInput =>
        /\ PosedInput \in 1..inputs
        /\ Unposed => PosedInput # inputs
        /\ lists[Image][PosedSlot] = PosedInput
        /\ outPose = <<PosedInput, ORIGIN>>
        /\ ~Assembling => pointCloudMap # <<>> /\ GetLatestPose = outPose

\* It has what the next input is registered to.
Holds(list, slot, input, content) ==
    lists[list][slot] = input /\ stored[list][input] = content

TargetContent(input) == IF Matching THEN Reconstruction(ORIGIN) ELSE FrameCloud(input)

TargetOfThePosedEntry ==
    ~firstInput /\ pc \notin {"update", "output"} =>
        Holds(TargetList, PosedSlot, PosedInput, TargetContent(PosedInput))

\* What will be the target is stored on the way.
StoredOnTheWay ==
    /\ ~Matching /\ pc \in {"match", "update"} =>
          Holds(TargetList, Newest, inputs, FrameCloud(inputs))
    /\ pc = "output" => Holds(Features3d, Newest, inputs, Reconstruction(ORIGIN))

\* The dense variant matches to what it merged last, and to frames only when
\* every run merges.
MergedCloud ==
    parameters.chain = "dense" =>
        IF Matching
        THEN \/ outPointCloud = Reconstruction(ORIGIN)
             \/ outPointCloud = NoContent /\ mergeCounter = 0 /\ (firstInput \/ pc = "update")
        ELSE mergeCounter = 0

\* The current input is not in the map before it is placed there.
NotYetInMap == pc \in {"store", "match"} \/ (pc \in {"update", "output"} /\ Assembling)

MapOfPosedInputs ==
    \A j \in DOMAIN pointCloudMap :
        /\ pointCloudMap[j].pose = <<pointCloudMap[j].cloud, ORIGIN>>
        /\ pointCloudMap[j].cloud <= inputs
        /\ NotYetInMap => pointCloudMap[j].cloud # inputs
        /\ \A k \in DOMAIN pointCloudMap :
              pointCloudMap[j].cloud = pointCloudMap[k].cloud => j = k

Tracking ==
    /\ Types
    /\ EntriesFollowTheRun
    /\ StepsOfTheChain
    /\ PoseOfThePosedEntry
    /\ TargetOfThePosedEntry
    /\ StoredOnTheWay
    /\ MergedCloud
    /\ MapOfPosedInputs

-----------------------------------------------------------------------------
(* What the steps do.                                                      *)

LEMMA ParameterFacts ==
    ASSUME parameters \in Configurations, TracksCamera(parameters)
    PROVE  /\ Matching \in BOOLEAN /\ Assembling \in BOOLEAN /\ ~Refining
           /\ TargetList \in {CLOUD, Features3d}
           /\ parameters.chain # "registration" => TargetList = CLOUD
           /\ parameters.chain = "registration" => TargetList = Features3d
           /\ parameters.chain = "sparse" => ~Matching
           /\ parameters.chain = "dense" /\ Matching => Assembling
           /\ parameters.chain = "dense" /\ ~Matching =>
                CountsTime /\ parameters.cloudUpdateTime = 1
           /\ parameters.chain \in Chains /\ parameters.cloudUpdateTime \in Nat \ {0}
  BY ConfigurationsAssumption, InputsAssumption
     DEF AllConfigurations, TracksCamera, Matching, Assembling, Refining,
         TargetList, CountsTime, Chains

LEMMA ContentFacts ==
    /\ NoContent \in Contents
    /\ \A n \in Systems : FrameCloud(n) \in Contents /\ Reconstruction(n) \in Contents
    /\ \A n : FrameCloud(n) # NoContent /\ Reconstruction(n) # NoContent
    /\ \A n : FrameCloud(n).in = n /\ Reconstruction(n).in = n
    /\ \A n : Reconstruction(n).shows = "reconstruction"
    /\ 1..MaxInputs \subseteq Systems /\ ORIGIN = 1 /\ 1 \in Systems /\ 0 \in Systems
  BY InputsAssumption
     DEF Contents, NoContent, FrameCloud, Reconstruction, Systems, ORIGIN

\* What a run stores is found in the newest entry, the rest stays.
LEMMA StoreEffect ==
    ASSUME Types, EntriesFollowTheRun, NEW list \in {CLOUD, Features3d}, NEW content \in Contents,
           Store(list, content)
    PROVE  /\ HistoryType'
           /\ stored' \in [{CLOUD, Features3d} -> [1..MaxInputs -> Contents]]
           /\ removing = -1 /\ mostRecentEntryIndex # -1
           /\ UNCHANGED <<mostRecentEntryIndex, oldestEntryIndex, removing, inputs>>
           /\ lists'[list][Newest] = inputs /\ stored'[list][inputs] = content
           /\ \A l \in Lists : lists'[l][OtherSlot] = lists[l][OtherSlot]
           /\ \A l \in Lists \ {list} : lists'[l] = lists[l]
           /\ \A l \in {CLOUD, Features3d}, n \in (1..MaxInputs) \ {inputs} :
                 stored'[l][n] = stored[l][n]
           /\ \A l \in {CLOUD, Features3d} \ {list} : stored'[l] = stored[l]
  <1>1. list \in Lists
    BY DEF Lists
  <1>2. /\ HistoryType' /\ removing = -1 /\ mostRecentEntryIndex # -1
        /\ lists[Image][mostRecentEntryIndex] = inputs
        /\ lists' = [lists EXCEPT ![list][mostRecentEntryIndex] = inputs]
        /\ UNCHANGED <<mostRecentEntryIndex, oldestEntryIndex, removing, inputs>>
    BY <1>1, AddDataStores DEF Types, Store
  <1>3. inputs \in 1..MaxInputs
    BY <1>2 DEF Types, HistoryType, EntriesFollowTheRun
  <1>4. stored' = [stored EXCEPT ![list][inputs] = content]
    BY DEF Store
  <1>5. /\ lists'[list][Newest] = inputs
        /\ \A l \in Lists : lists'[l][OtherSlot] = lists[l][OtherSlot]
        /\ \A l \in Lists \ {list} : lists'[l] = lists[l]
    BY <1>1, <1>2 DEF Types, HistoryType, Newest, OtherSlot
  <1>6. /\ stored' \in [{CLOUD, Features3d} -> [1..MaxInputs -> Contents]]
        /\ stored'[list][inputs] = content
        /\ \A l \in {CLOUD, Features3d}, n \in (1..MaxInputs) \ {inputs} :
              stored'[l][n] = stored[l][n]
        /\ \A l \in {CLOUD, Features3d} \ {list} : stored'[l] = stored[l]
    BY <1>2, <1>3, <1>4 DEF Types
  <1> QED
    BY <1>2, <1>5, <1>6

\* The sequence after an element was added to it.
LEMMA AppendFacts ==
    ASSUME NEW S, NEW s \in Seq(S), NEW e \in S, NEW t, t = Append(s, e)
    PROVE  /\ t \in Seq(S) /\ t # <<>> /\ t[Len(t)] = e
           /\ DOMAIN t = DOMAIN s \cup {Len(s) + 1}
           /\ Len(s) + 1 \notin DOMAIN s
           /\ t[Len(s) + 1] = e
           /\ \A j \in DOMAIN s : t[j] = s[j]
  <1>1. /\ Len(s) \in Nat /\ DOMAIN s = 1..Len(s)
    BY LenProperties
  <1>2. /\ t \in Seq(S) /\ t # <<>> /\ Len(t) = Len(s) + 1
    BY AppendProperties
  <1>3. t[Len(s) + 1] = e
    BY <1>2, AppendProperties
  <1>4. \A j \in 1..Len(s) : t[j] = s[j]
    BY <1>2, AppendProperties
  <1>5. DOMAIN t = 1..(Len(s) + 1)
    BY <1>2, LenProperties
  <1> QED
    BY <1>1, <1>2, <1>3, <1>4, <1>5

\* A cloud added with the pose of its input.
LEMMA MapExtended ==
    ASSUME Types, MapOfPosedInputs, NotYetInMap, inputs \in 1..MaxInputs,
           pointCloudMap' = AddPointCloud(pointCloudMap, <<inputs, ORIGIN>>),
           inputs' = inputs, ~NotYetInMap'
    PROVE  /\ pointCloudMap' \in Seq([cloud : 1..MaxInputs, pose : Systems \X Systems])
           /\ MapOfPosedInputs'
           /\ pointCloudMap' # <<>> /\ GetLatestPose' = <<inputs, ORIGIN>>
  <1> DEFINE Posed == [cloud : 1..MaxInputs, pose : Systems \X Systems]
             new == [cloud |-> inputs, pose |-> <<inputs, ORIGIN>>]
  <1>1. pointCloudMap \in Seq(Posed) /\ new \in Posed
    BY ContentFacts DEF Types
  <1> HIDE DEF Posed, new
  <1> DEFINE last == Len(pointCloudMap) + 1
  <1>2. pointCloudMap' \in Seq(Posed)
    BY <1>1, AppendFacts DEF AddPointCloud, new
  <1>3. pointCloudMap' # <<>>
    BY <1>1, AppendFacts DEF AddPointCloud, new
  <1>4. DOMAIN pointCloudMap' = DOMAIN pointCloudMap \cup {last} /\ last \notin DOMAIN pointCloudMap
    BY <1>1, AppendFacts DEF AddPointCloud, new
  <1>5. pointCloudMap'[last] = new
    BY <1>1, AppendFacts DEF AddPointCloud, new
  <1>6. \A j \in DOMAIN pointCloudMap : pointCloudMap'[j] = pointCloudMap[j]
    BY <1>1, AppendFacts DEF AddPointCloud, new
  <1>7. GetLatestPose' = <<inputs, ORIGIN>>
    <2>1. pointCloudMap'[Len(pointCloudMap')] = new
      BY <1>1, AppendFacts DEF AddPointCloud, new
    <2> QED
      BY <2>1 DEF GetLatestPose, Last, new
  <1> HIDE DEF last
  <1>8. MapOfPosedInputs'
    <2>1. new.cloud = inputs /\ new.pose = <<inputs, ORIGIN>>
      BY DEF new
    <2>2. \A j \in DOMAIN pointCloudMap : pointCloudMap[j].cloud # inputs
      BY DEF MapOfPosedInputs
    <2>3. ASSUME NEW j \in DOMAIN pointCloudMap'
          PROVE  /\ pointCloudMap'[j].pose = <<pointCloudMap'[j].cloud, ORIGIN>>
                 /\ pointCloudMap'[j].cloud <= inputs'
      BY <1>4, <1>5, <1>6, <2>1 DEF MapOfPosedInputs
    <2>4. ASSUME NEW j \in DOMAIN pointCloudMap', NEW k \in DOMAIN pointCloudMap',
                 pointCloudMap'[j].cloud = pointCloudMap'[k].cloud
          PROVE  j = k
      BY <1>4, <1>5, <1>6, <2>1, <2>2, <2>4 DEF MapOfPosedInputs
    <2> QED
      BY <2>3, <2>4 DEF MapOfPosedInputs
  <1> QED
    BY <1>2, <1>3, <1>7, <1>8 DEF Posed

LEMMA CloudsAreInputs ==
    ASSUME Types, NEW j \in DOMAIN pointCloudMap
    PROVE  pointCloudMap[j].cloud \in 1..MaxInputs
  <1> DEFINE Posed == [cloud : 1..MaxInputs, pose : Systems \X Systems]
  <1>1. pointCloudMap \in Seq(Posed)
    BY DEF Types
  <1> HIDE DEF Posed
  <1>2. pointCloudMap[j] \in Posed
    BY <1>1, LenProperties
  <1> QED
    BY <1>2 DEF Posed

\* What is registered is the current input, to what its predecessor left.
LEMMA RegistersToThePosedEntry ==
    ASSUME Tracking, TracksCamera(parameters), pc = "match", ~firstInput
    PROVE  /\ Source = FrameCloud(inputs)
           /\ Target = TargetContent(PosedInput)
           /\ PoseToPreviousPose = IF Matching THEN <<inputs, ORIGIN>> ELSE <<inputs, PosedInput>>
  <1> USE DEF Tracking
  <1>1. Source = FrameCloud(inputs)
    BY DEF Source, StepsOfTheChain
  <1>2. /\ mostRecentEntryIndex # -1 /\ oldestEntryIndex = OtherSlot
        /\ PosedSlot = OtherSlot
        /\ PosedInput \in 1..inputs /\ PosedInput # NULL
    BY HistoryConstants
       DEF EntriesFollowTheRun, PoseOfThePosedEntry, PosedSlot, Unposed
  <1>3. \A list \in Lists : GetData(list, 1) = lists[list][PosedSlot]
    BY <1>2, ReadPrevious DEF Types
  <1>4. Target = TargetContent(PosedInput)
    BY <1>2, <1>3, ParameterFacts
       DEF Types, Lists, TargetOfThePosedEntry, Holds, Target, StoredFor
  <1>5. Register(Source, Target) = IF Matching THEN <<inputs, ORIGIN>> ELSE <<inputs, PosedInput>>
    BY <1>1, <1>4, ContentFacts DEF Register, TargetContent
  <1> QED
    BY <1>1, <1>4, <1>5, ParameterFacts DEF PoseToPreviousPose, Types

-----------------------------------------------------------------------------
(* Every step keeps track.                                                 *)

LEMMA TrackingInit ==
    ASSUME Init, TracksCamera(parameters)
    PROVE  Tracking
  <1> USE HistoryConstants, InputsAssumption, ContentFacts DEF Init, bundleHistory!Init
  <1>1. Types
    <2>1. HistoryType
      BY DEF HistoryType
    <2>2. stored \in [{CLOUD, Features3d} -> [1..MaxInputs -> Contents]]
      OBVIOUS
    <2>3. pointCloudMap \in Seq([cloud : 1..MaxInputs, pose : Systems \X Systems])
      OBVIOUS
    <2> QED
      BY <2>1, <2>2, <2>3 DEF Types
  <1>2. EntriesFollowTheRun
    BY DEF EntriesFollowTheRun
  <1>3. StepsOfTheChain /\ StoredOnTheWay /\ MergedCloud
    BY DEF StepsOfTheChain, StoredOnTheWay, MergedCloud
  <1>4. PoseOfThePosedEntry /\ TargetOfThePosedEntry
    BY DEF PoseOfThePosedEntry, TargetOfThePosedEntry
  <1>5. MapOfPosedInputs
    BY DEF MapOfPosedInputs
  <1> QED
    BY <1>1, <1>2, <1>3, <1>4, <1>5 DEF Tracking

LEMMA AddImagesTracks ==
    ASSUME Tracking, TracksCamera(parameters), AddImages
    PROVE  Tracking'
  <1> USE DEF Tracking
  <1>1. /\ pc = "idle" /\ pc' = IF Matching THEN "match" ELSE "store"
        /\ UNCHANGED <<parameters, firstInput, outPose, outPointCloud, featureCloud,
                       mergeCounter, stored, pointCloudMap>>
    BY DEF AddImages, cloudVars
  <1>2. /\ HistoryType' /\ inputs' = inputs + 1
        /\ mostRecentEntryIndex' = IF mostRecentEntryIndex = -1 THEN 0 ELSE OtherSlot
        /\ oldestEntryIndex' = IF mostRecentEntryIndex = -1 THEN 0 ELSE mostRecentEntryIndex
        /\ lists'[Image][mostRecentEntryIndex'] = inputs'
        /\ mostRecentEntryIndex # -1 =>
             \A c \in Lists : lists'[c][mostRecentEntryIndex] = lists[c][mostRecentEntryIndex]
    BY AddImagesMoves DEF AddImages, Types, EntriesFollowTheRun
  <1>3. ~firstInput => /\ mostRecentEntryIndex # -1
                       /\ PosedSlot = mostRecentEntryIndex
                       /\ PosedSlot' = mostRecentEntryIndex
    BY <1>1, <1>2
       DEF Types, HistoryType, EntriesFollowTheRun, PosedSlot, Unposed, OtherSlot, Newest
  <1>4. Types'
    BY <1>1, <1>2 DEF Types
  <1>5. EntriesFollowTheRun'
    BY <1>1, <1>2 DEF Types, HistoryType, EntriesFollowTheRun, OtherSlot, Newest
  <1>6. StepsOfTheChain' /\ StoredOnTheWay'
    BY <1>1, ParameterFacts DEF Types, StepsOfTheChain, StoredOnTheWay, Matching
  <1>7. PoseOfThePosedEntry'
    <2> SUFFICES ASSUME ~firstInput'
                 PROVE  /\ PosedInput' \in 1..inputs'
                        /\ PosedInput' # inputs'
                        /\ lists'[Image][PosedSlot'] = PosedInput'
                        /\ outPose' = <<PosedInput', ORIGIN>>
                        /\ (~Assembling => pointCloudMap # <<>> /\ GetLatestPose = outPose)'
      BY DEF PoseOfThePosedEntry
    <2>1. /\ PosedInput' = PosedInput /\ PosedInput \in 1..inputs
          /\ lists[Image][PosedSlot] = PosedInput
          /\ outPose = <<PosedInput, ORIGIN>>
          /\ ~Assembling => pointCloudMap # <<>> /\ GetLatestPose = outPose
      BY <1>1 DEF PoseOfThePosedEntry, PosedInput
    <2>2. PosedInput' \in 1..inputs' /\ PosedInput' # inputs'
      BY <1>2, <2>1, InputsAssumption DEF Types, HistoryType
    <2>3. lists'[Image][PosedSlot'] = PosedInput'
      BY <1>1, <1>2, <1>3, <2>1 DEF Lists
    <2> QED
      BY <1>1, <2>1, <2>2, <2>3 DEF Assembling, GetLatestPose
  <1>8. TargetOfThePosedEntry'
    BY <1>1, <1>2, <1>3, ParameterFacts
       DEF Types, TargetOfThePosedEntry, PosedInput, Holds, Matching, TargetList,
           TargetContent, Lists
  <1>9. MergedCloud'
    BY <1>1 DEF MergedCloud, Matching
  <1>10. MapOfPosedInputs'
    BY <1>1, <1>2, CloudsAreInputs
       DEF Types, HistoryType, MapOfPosedInputs, NotYetInMap
  <1> QED
    BY <1>4, <1>5, <1>6, <1>7, <1>8, <1>9, <1>10

LEMMA StoreFrameTracks ==
    ASSUME Tracking, TracksCamera(parameters), StoreFrame
    PROVE  Tracking'
  <1> USE DEF Tracking
  <1>1. /\ pc = "store" /\ pc' = "match" /\ ~Matching
        /\ Store(TargetList, FrameCloud(inputs))
        /\ featureCloud' = IF parameters.chain = "sparse" THEN FrameCloud(inputs) ELSE featureCloud
        /\ UNCHANGED <<parameters, firstInput, outPose, outPointCloud, mergeCounter,
                       pointCloudMap>>
    BY DEF StoreFrame, StepsOfTheChain
  <1>2. TargetList \in {CLOUD, Features3d} /\ FrameCloud(inputs) \in Contents
    BY <1>1, ParameterFacts, ContentFacts DEF Types, HistoryType, Systems
  <1>3. /\ HistoryType'
        /\ stored' \in [{CLOUD, Features3d} -> [1..MaxInputs -> Contents]]
        /\ UNCHANGED <<mostRecentEntryIndex, oldestEntryIndex, removing, inputs>>
        /\ lists'[TargetList][Newest] = inputs
        /\ stored'[TargetList][inputs] = FrameCloud(inputs)
        /\ \A l \in Lists : lists'[l][OtherSlot] = lists[l][OtherSlot]
        /\ \A l \in Lists \ {TargetList} : lists'[l] = lists[l]
        /\ \A l \in {CLOUD, Features3d}, n \in (1..MaxInputs) \ {inputs} :
              stored'[l][n] = stored[l][n]
    BY <1>1, <1>2, StoreEffect
  <1>4. lists'[Image] = lists[Image]
    BY <1>2, <1>3, HistoryConstants DEF Lists
  <1>5. /\ PosedSlot = OtherSlot /\ PosedSlot' = OtherSlot
        /\ ~firstInput => PosedInput \in (1..MaxInputs) \ {inputs}
    BY <1>1, <1>3, InputsAssumption
       DEF Types, HistoryType, PosedSlot, Unposed, OtherSlot, PoseOfThePosedEntry
  <1>6. Types'
    BY <1>1, <1>3 DEF Types
  <1>7. EntriesFollowTheRun'
    BY <1>1, <1>3, <1>4 DEF EntriesFollowTheRun, OtherSlot, Newest
  <1>8. StepsOfTheChain'
    BY <1>1, <1>3 DEF StepsOfTheChain, Matching
  <1>9. StoredOnTheWay'
    BY <1>1, <1>3 DEF StoredOnTheWay, Matching, TargetList, Holds, Newest
  <1>10. PoseOfThePosedEntry'
    BY <1>1, <1>3, <1>4, <1>5
       DEF PoseOfThePosedEntry, PosedInput, Assembling, GetLatestPose, Unposed
  <1>11. TargetOfThePosedEntry'
    BY <1>1, <1>2, <1>3, <1>5
       DEF TargetOfThePosedEntry, PosedInput, Holds, Matching, TargetList,
           TargetContent, Lists
  <1>12. MergedCloud'
    BY <1>1 DEF MergedCloud, Matching
  <1>13. MapOfPosedInputs'
    BY <1>1, <1>3 DEF MapOfPosedInputs, NotYetInMap
  <1> QED
    BY <1>6, <1>7, <1>8, <1>9, <1>10, <1>11, <1>12, <1>13

\* An input gets its pose in the map: the first one, and each one registered.
LEMMA PlacementTracks ==
    ASSUME Tracking, TracksCamera(parameters), pc = "match", pc' = "update", ~firstInput',
           firstInput' \in BOOLEAN, outPose' = <<inputs, ORIGIN>>,
           pointCloudMap' = IF Assembling THEN pointCloudMap
                                          ELSE AddPointCloud(pointCloudMap, outPose'),
           UNCHANGED <<historyVars, parameters, cloudVars>>
    PROVE  Tracking'
  <1> USE DEF Tracking
  <1>1. /\ UNCHANGED <<mostRecentEntryIndex, oldestEntryIndex, lists, removing, inputs>>
        /\ UNCHANGED <<outPointCloud, featureCloud, mergeCounter, stored>>
    BY DEF historyVars, cloudVars
  <1>2. /\ mostRecentEntryIndex # -1 /\ inputs \in 1..MaxInputs
        /\ lists[Image][Newest] = inputs
    BY DEF Types, HistoryType, EntriesFollowTheRun
  <1>3. HistoryType'
    BY <1>1 DEF Types, HistoryType
  <1>4. /\ Types' /\ MapOfPosedInputs'
        /\ ~Assembling => pointCloudMap' # <<>> /\ GetLatestPose' = <<inputs, ORIGIN>>
    <2>1. CASE Assembling
      <3>1. pointCloudMap' = pointCloudMap
        BY <2>1
      <3>2. MapOfPosedInputs'
        BY <1>1, <3>1 DEF MapOfPosedInputs, NotYetInMap
      <3> QED
        BY <1>1, <1>3, <2>1, <3>1, <3>2 DEF Types
    <2>2. CASE ~Assembling
      <3>1. NotYetInMap /\ ~NotYetInMap'
        BY <2>2 DEF NotYetInMap, Assembling
      <3>2. pointCloudMap' = AddPointCloud(pointCloudMap, <<inputs, ORIGIN>>)
        BY <2>2
      <3>3. /\ pointCloudMap' \in Seq([cloud : 1..MaxInputs, pose : Systems \X Systems])
            /\ MapOfPosedInputs'
            /\ pointCloudMap' # <<>> /\ GetLatestPose' = <<inputs, ORIGIN>>
        BY <1>1, <1>2, <3>1, <3>2, MapExtended
      <3> QED
        BY <1>1, <1>3, <3>3 DEF Types
    <2> QED
      BY <2>1, <2>2, ParameterFacts DEF Types
  <1>5. EntriesFollowTheRun'
    BY <1>1, <1>2 DEF EntriesFollowTheRun, OtherSlot, Newest
  <1>6. StepsOfTheChain' /\ StoredOnTheWay' /\ TargetOfThePosedEntry'
    BY <1>1 DEF StepsOfTheChain, StoredOnTheWay, TargetOfThePosedEntry, Holds, Newest,
                Matching, TargetList
  <1>7. PoseOfThePosedEntry'
    <2>1. PosedInput' = inputs /\ PosedSlot' = Newest /\ ~Unposed'
      BY <1>1 DEF PosedInput, PosedSlot, Unposed, Newest
    <2> QED
      BY <1>1, <1>2, <1>4, <2>1 DEF PoseOfThePosedEntry, Assembling
  <1>8. MergedCloud'
    BY <1>1 DEF MergedCloud, Matching
  <1> QED
    BY <1>4, <1>5, <1>6, <1>7, <1>8

LEMMA PlaceFirstInputTracks ==
    ASSUME Tracking, TracksCamera(parameters), PlaceFirstInput
    PROVE  Tracking'
  BY PlacementTracks DEF PlaceFirstInput

LEMMA RegistrationSucceedsTracks ==
    ASSUME Tracking, TracksCamera(parameters), RegistrationSucceeds
    PROVE  Tracking'
  <1>1. /\ pc = "match" /\ ~firstInput
        /\ outPose' = IF Matching THEN PoseToPreviousPose
                      ELSE Sum(IF Assembling THEN outPose ELSE GetLatestPose, PoseToPreviousPose)
    BY DEF RegistrationSucceeds
  <1>2. PoseToPreviousPose = IF Matching THEN <<inputs, ORIGIN>> ELSE <<inputs, PosedInput>>
    BY <1>1, RegistersToThePosedEntry
  <1>3. /\ outPose = <<PosedInput, ORIGIN>>
        /\ ~Assembling => GetLatestPose = <<PosedInput, ORIGIN>>
    BY <1>1 DEF Tracking, PoseOfThePosedEntry
  <1>4. Sum(<<PosedInput, ORIGIN>>, <<inputs, PosedInput>>) = <<inputs, ORIGIN>>
    BY DEF Sum
  <1>5. outPose' = <<inputs, ORIGIN>>
    BY <1>1, <1>2, <1>3, <1>4
  <1> QED
    BY <1>1, <1>5, PlacementTracks DEF RegistrationSucceeds, Tracking, Types

LEMMA RegistrationFailsTracks ==
    ASSUME Tracking, TracksCamera(parameters), RegistrationFails
    PROVE  Tracking'
  <1> USE DEF Tracking
  <1>1. /\ pc = "match" /\ pc' = "remove" /\ ~firstInput /\ bundleHistory!RemoveEntry(0)
        /\ UNCHANGED <<parameters, firstInput, outPose, outPointCloud, featureCloud,
                       mergeCounter, stored, pointCloudMap>>
    BY DEF RegistrationFails, cloudVars
  <1>2. mostRecentEntryIndex # -1 /\ oldestEntryIndex = OtherSlot
    BY <1>1 DEF EntriesFollowTheRun
  <1>3. /\ HistoryType' /\ removing' = mostRecentEntryIndex
        /\ UNCHANGED <<mostRecentEntryIndex, oldestEntryIndex, inputs>>
        /\ \A c \in Lists : lists'[c][OtherSlot] = lists[c][OtherSlot]
    BY <1>1, <1>2, RemoveEntryDrops DEF Types
  <1>4. Types'
    BY <1>1, <1>3 DEF Types
  <1>5. EntriesFollowTheRun'
    BY <1>1, <1>2, <1>3 DEF EntriesFollowTheRun, OtherSlot
  <1>6. StepsOfTheChain' /\ StoredOnTheWay'
    BY <1>1 DEF StepsOfTheChain, StoredOnTheWay
  <1>7. /\ PosedSlot = OtherSlot /\ PosedSlot' = OtherSlot /\ Unposed
        /\ PosedInput' = PosedInput
    BY <1>1, <1>3 DEF PosedSlot, Unposed, OtherSlot, PosedInput
  <1>8. PoseOfThePosedEntry'
    BY <1>1, <1>3, <1>7 DEF PoseOfThePosedEntry, Assembling, GetLatestPose, Lists
  <1>9. TargetOfThePosedEntry'
    BY <1>1, <1>3, <1>7, ParameterFacts
       DEF Types, TargetOfThePosedEntry, Holds, Matching, TargetList, TargetContent,
           Lists
  <1>10. MergedCloud'
    BY <1>1 DEF MergedCloud, Matching
  <1>11. MapOfPosedInputs'
    BY <1>1, <1>3 DEF MapOfPosedInputs, NotYetInMap
  <1> QED
    BY <1>4, <1>5, <1>6, <1>8, <1>9, <1>10, <1>11

LEMMA RemoveEntryLoopTracks ==
    ASSUME Tracking, TracksCamera(parameters), RemoveEntryLoop
    PROVE  Tracking'
  <1> USE DEF Tracking
  <1>1. /\ pc = "remove" /\ bundleHistory!RemovalLoop
        /\ UNCHANGED <<parameters, firstInput, outPose, outPointCloud, featureCloud,
                       stored, pointCloudMap>>
    BY DEF RemoveEntryLoop
  <1>2. /\ mostRecentEntryIndex # -1 /\ oldestEntryIndex = OtherSlot
        /\ removing = mostRecentEntryIndex /\ ~firstInput
    BY <1>1 DEF EntriesFollowTheRun
  <1>3. /\ HistoryType' /\ removing' = -1 /\ mostRecentEntryIndex' = OtherSlot
        /\ UNCHANGED <<oldestEntryIndex, inputs>>
        /\ \A c \in Lists : lists'[c][OtherSlot] = lists[c][OtherSlot]
    BY <1>1, <1>2, RemovalLoopEnds DEF Types
  <1>4. pc' = "idle" /\ mergeCounter' = NextMergeCounter
    BY <1>3, HistoryConstants DEF RemoveEntryLoop
  <1>5. Types'
    BY <1>1, <1>3, <1>4 DEF Types
  <1>6. EntriesFollowTheRun'
    BY <1>1, <1>2, <1>3, <1>4 DEF Types, HistoryType, EntriesFollowTheRun, OtherSlot
  <1>7. StepsOfTheChain' /\ StoredOnTheWay'
    BY <1>4 DEF StepsOfTheChain, StoredOnTheWay
  <1>8. PosedSlot = OtherSlot /\ PosedSlot' = OtherSlot /\ PosedInput' = PosedInput /\ ~Unposed'
    BY <1>1, <1>3, <1>4 DEF PosedSlot, Unposed, OtherSlot, PosedInput, Newest
  <1>9. PoseOfThePosedEntry'
    BY <1>1, <1>3, <1>8 DEF PoseOfThePosedEntry, Assembling, GetLatestPose, Lists
  <1>10. TargetOfThePosedEntry'
    BY <1>1, <1>3, <1>8, ParameterFacts
       DEF Types, TargetOfThePosedEntry, Holds, Matching, TargetList, TargetContent,
           Lists
  <1>11. MergedCloud'
    <2>1. CASE Matching
      BY <1>1, <1>2, <2>1 DEF MergedCloud, Matching
    <2>2. CASE parameters.chain = "dense" /\ ~Matching
      BY <1>1, <1>4, <2>2, ParameterFacts DEF Types, MergedCloud, Matching, NextMergeCounter
    <2> QED
      BY <1>1, <2>1, <2>2 DEF MergedCloud, Matching
  <1>12. MapOfPosedInputs'
    BY <1>1, <1>3, <1>4 DEF MapOfPosedInputs, NotYetInMap
  <1> QED
    BY <1>5, <1>6, <1>7, <1>9, <1>10, <1>11, <1>12

\* In the second half of run() the current input has its pose.
LEMMA PosedInSecondHalf ==
    ASSUME Tracking, pc \in {"update", "output"}
    PROVE  /\ ~firstInput /\ mostRecentEntryIndex # -1 /\ inputs \in 1..MaxInputs
           /\ lists[Image][Newest] = inputs
           /\ PosedInput = inputs /\ outPose = <<inputs, ORIGIN>>
           /\ Output = Reconstruction(IF Assembling THEN ORIGIN ELSE inputs)
           /\ Output \in Contents
  <1> USE DEF Tracking
  <1>1. /\ ~firstInput /\ mostRecentEntryIndex # -1 /\ inputs \in 1..MaxInputs
        /\ lists[Image][Newest] = inputs
    BY DEF Types, HistoryType, EntriesFollowTheRun
  <1>2. PosedInput = inputs /\ outPose = <<inputs, ORIGIN>>
    BY <1>1 DEF PoseOfThePosedEntry, PosedSlot, Unposed
  <1>3. Output = Reconstruction(IF Assembling THEN ORIGIN ELSE inputs)
    BY <1>2 DEF Output
  <1>4. Output \in Contents
    BY <1>1, <1>3, ContentFacts
  <1> QED
    BY <1>1, <1>2, <1>3, <1>4

LEMMA StoreSceneFeaturesTracks ==
    ASSUME Tracking, TracksCamera(parameters), StoreSceneFeatures
    PROVE  Tracking'
  <1> USE DEF Tracking
  <1>1. /\ pc = "update" /\ pc' = "output" /\ parameters.chain = "registration" /\ Matching
        /\ Store(Features3d, Reconstruction(ORIGIN))
        /\ UNCHANGED <<parameters, firstInput, outPose, outPointCloud, featureCloud,
                       mergeCounter, pointCloudMap>>
    BY DEF StoreSceneFeatures
  <1>2. /\ HistoryType'
        /\ stored' \in [{CLOUD, Features3d} -> [1..MaxInputs -> Contents]]
        /\ UNCHANGED <<mostRecentEntryIndex, oldestEntryIndex, removing, inputs>>
        /\ lists'[Features3d][Newest] = inputs
        /\ stored'[Features3d][inputs] = Reconstruction(ORIGIN)
        /\ \A l \in Lists \ {Features3d} : lists'[l] = lists[l]
    BY <1>1, StoreEffect, ContentFacts
  <1>3. lists'[Image] = lists[Image]
    BY <1>2, HistoryConstants DEF Lists
  <1>4. Types'
    BY <1>1, <1>2 DEF Types
  <1>5. EntriesFollowTheRun'
    BY <1>1, <1>2, <1>3 DEF EntriesFollowTheRun, Newest
  <1>6. StepsOfTheChain' /\ TargetOfThePosedEntry'
    BY <1>1 DEF StepsOfTheChain, TargetOfThePosedEntry, Matching
  <1>7. StoredOnTheWay'
    BY <1>1, <1>2 DEF StoredOnTheWay, Holds, Newest, Matching
  <1>8. PoseOfThePosedEntry'
    BY <1>1, <1>2, <1>3
       DEF PoseOfThePosedEntry, PosedInput, PosedSlot, Unposed, Newest, Assembling, GetLatestPose
  <1>9. MergedCloud'
    BY <1>1 DEF MergedCloud, Matching
  <1>10. MapOfPosedInputs'
    BY <1>1, <1>2 DEF MapOfPosedInputs, NotYetInMap, Assembling
  <1> QED
    BY <1>4, <1>5, <1>6, <1>7, <1>8, <1>9, <1>10

\* A run ends with its input placed and with what the next one needs stored.
LEMMA RunEnds ==
    ASSUME Tracking, TracksCamera(parameters), pc \in {"update", "output"}, pc' = "idle",
           UNCHANGED <<parameters, firstInput, outPose>>,
           UNCHANGED <<mostRecentEntryIndex, oldestEntryIndex, inputs>>,
           HistoryType', stored' \in [{CLOUD, Features3d} -> [1..MaxInputs -> Contents]],
           lists'[Image] = lists[Image],
           \/ pointCloudMap' = pointCloudMap
           \/ ExtendMap,
           lists'[TargetList][Newest] = inputs,
           stored'[TargetList][inputs] = TargetContent(inputs),
           MergedCloud'
    PROVE  Tracking'
  <1> USE DEF Tracking
  <1>1. /\ ~firstInput /\ inputs \in 1..MaxInputs /\ lists[Image][Newest] = inputs
        /\ PosedInput = inputs /\ outPose = <<inputs, ORIGIN>>
    BY PosedInSecondHalf
  <1>2. /\ pointCloudMap' \in Seq([cloud : 1..MaxInputs, pose : Systems \X Systems])
        /\ MapOfPosedInputs'
        /\ ~Assembling => pointCloudMap' = pointCloudMap
    <2>1. CASE pointCloudMap' = pointCloudMap
      <3>1. MapOfPosedInputs'
        BY <2>1 DEF MapOfPosedInputs, NotYetInMap
      <3> QED
        BY <2>1, <3>1 DEF Types
    <2>2. CASE Assembling /\ pointCloudMap' = AddPointCloud(pointCloudMap, outPose)
      <3>1. NotYetInMap /\ ~NotYetInMap'
        BY <2>2 DEF NotYetInMap
      <3>2. pointCloudMap' = AddPointCloud(pointCloudMap, <<inputs, ORIGIN>>)
        BY <1>1, <2>2
      <3> QED
        BY <1>1, <2>2, <3>1, <3>2, MapExtended
    <2> QED
      BY <2>1, <2>2 DEF ExtendMap
  <1>3. Types'
    BY <1>2 DEF Types
  <1>4. EntriesFollowTheRun'
    BY <1>1 DEF EntriesFollowTheRun, Newest
  <1>5. StepsOfTheChain' /\ StoredOnTheWay'
    BY DEF StepsOfTheChain, StoredOnTheWay
  <1>6. PosedSlot' = Newest /\ PosedInput' = inputs /\ ~Unposed'
    BY <1>1 DEF PosedSlot, Unposed, Newest, PosedInput
  <1>7. PoseOfThePosedEntry'
    BY <1>1, <1>2, <1>6 DEF PoseOfThePosedEntry, Assembling, GetLatestPose
  <1>8. TargetOfThePosedEntry'
    BY <1>6 DEF TargetOfThePosedEntry, Holds, TargetList, TargetContent, Matching
  <1> QED
    BY <1>2, <1>3, <1>4, <1>5, <1>7, <1>8

\* Storing the cloud of the run leaves the list of the features alone.
LEMMA StoreCloud ==
    ASSUME Tracking, pc \in {"update", "output"}, NEW content \in Contents,
           Store(CLOUD, content)
    PROVE  /\ HistoryType'
           /\ stored' \in [{CLOUD, Features3d} -> [1..MaxInputs -> Contents]]
           /\ UNCHANGED <<mostRecentEntryIndex, oldestEntryIndex, inputs>>
           /\ lists'[Image] = lists[Image]
           /\ lists'[CLOUD][Newest] = inputs /\ stored'[CLOUD][inputs] = content
           /\ lists'[Features3d] = lists[Features3d] /\ stored'[Features3d] = stored[Features3d]
  BY StoreEffect, HistoryConstants DEF Tracking, Lists

LEMMA NothingStored ==
    ASSUME Tracking, UNCHANGED <<historyVars, stored>>
    PROVE  /\ HistoryType'
           /\ stored' \in [{CLOUD, Features3d} -> [1..MaxInputs -> Contents]]
           /\ UNCHANGED <<mostRecentEntryIndex, oldestEntryIndex, inputs, lists>>
  BY DEF Tracking, Types, HistoryType, historyVars

LEMMA RegistrationOutputTracks ==
    ASSUME Tracking, TracksCamera(parameters), RegistrationOutput
    PROVE  Tracking'
  <1>1. /\ parameters.chain = "registration" /\ pc = (IF Matching THEN "output" ELSE "update")
        /\ pc' = "idle" /\ outPointCloud' = Output /\ ExtendMap
        /\ IF Matching THEN Store(CLOUD, Output) ELSE UNCHANGED <<historyVars, stored>>
        /\ UNCHANGED <<parameters, firstInput, outPose>>
    BY DEF RegistrationOutput
  <1>2. /\ TargetList = Features3d /\ pc \in {"update", "output"}
        /\ Output \in Contents
    BY <1>1, PosedInSecondHalf, ParameterFacts DEF Tracking, Types
  <1>3. MergedCloud'
    BY <1>1 DEF MergedCloud
  <1>4. CASE Matching
    <2>1. lists[Features3d][Newest] = inputs /\ stored[Features3d][inputs] = TargetContent(inputs)
      BY <1>1, <1>4 DEF Tracking, StoredOnTheWay, Holds, TargetContent
    <2> QED
      BY <1>1, <1>2, <1>3, <1>4, <2>1, StoreCloud, RunEnds
  <1>5. CASE ~Matching
    <2>1. lists[Features3d][Newest] = inputs /\ stored[Features3d][inputs] = TargetContent(inputs)
      BY <1>1, <1>2, <1>5 DEF Tracking, StoredOnTheWay, Holds, TargetContent
    <2> QED
      BY <1>1, <1>2, <1>3, <1>5, <2>1, NothingStored, RunEnds
  <1> QED
    BY <1>4, <1>5

LEMMA SparseOutputTracks ==
    ASSUME Tracking, TracksCamera(parameters), SparseOutput
    PROVE  Tracking'
  <1>1. /\ ~Matching /\ TargetList = CLOUD /\ parameters.chain = "sparse"
        /\ pc = "update" /\ pc' = "idle" /\ ExtendMap
        /\ UNCHANGED <<historyVars, stored>>
        /\ UNCHANGED <<parameters, firstInput, outPose>>
    BY ParameterFacts DEF SparseOutput, Tracking, Types
  <1>2. lists[CLOUD][Newest] = inputs /\ stored[CLOUD][inputs] = TargetContent(inputs)
    BY <1>1 DEF Tracking, StoredOnTheWay, Holds, TargetContent
  <1>3. MergedCloud'
    BY <1>1 DEF MergedCloud
  <1> QED
    BY <1>1, <1>2, <1>3, NothingStored, RunEnds

LEMMA DenseMergesTracks ==
    ASSUME Tracking, TracksCamera(parameters), DenseMerges
    PROVE  Tracking'
  <1>1. /\ TargetList = CLOUD /\ parameters.chain = "dense"
        /\ Matching => Assembling
        /\ pc = "update" /\ pc' = "idle" /\ ExtendMap
        /\ outPointCloud' = Output /\ mergeCounter' = NextMergeCounter
        /\ IF Matching THEN Store(CLOUD, Output) ELSE UNCHANGED <<historyVars, stored>>
        /\ UNCHANGED <<parameters, firstInput, outPose>>
    BY ParameterFacts DEF DenseMerges, Tracking, Types
  <1>2. CASE Matching
    <2>1. Output = Reconstruction(ORIGIN) /\ Output \in Contents
      BY <1>1, <1>2, PosedInSecondHalf
    <2>2. MergedCloud'
      BY <1>1, <1>2, <2>1 DEF MergedCloud, Matching
    <2> QED
      BY <1>1, <1>2, <2>1, <2>2, StoreCloud, RunEnds DEF TargetContent
  <1>3. CASE ~Matching
    <2>1. lists[CLOUD][Newest] = inputs /\ stored[CLOUD][inputs] = TargetContent(inputs)
      BY <1>1, <1>3 DEF Tracking, StoredOnTheWay, Holds, TargetContent
    <2>2. MergedCloud'
      BY <1>1, <1>3, ParameterFacts
         DEF Tracking, Types, MergedCloud, Matching, NextMergeCounter
    <2> QED
      BY <1>1, <1>3, <2>1, <2>2, NothingStored, RunEnds
  <1> QED
    BY <1>2, <1>3

\* Only matching to the scene lets a run pass without a merge, and then the
\* last output is a reconstruction.
LEMMA DenseKeepsOutputTracks ==
    ASSUME Tracking, TracksCamera(parameters), DenseKeepsOutput
    PROVE  Tracking'
  <1>1. /\ TargetList = CLOUD /\ parameters.chain = "dense"
        /\ pc = "update" /\ pc' = "idle" /\ MergeCanWait
        /\ Store(CLOUD, outPointCloud)
        /\ UNCHANGED <<parameters, firstInput, outPose, outPointCloud, pointCloudMap>>
    BY ParameterFacts DEF DenseKeepsOutput, Tracking, Types
  <1>2. Matching
    BY <1>1, ParameterFacts DEF Tracking, Types, MergedCloud, MergeCanWait
  <1>3. outPointCloud = Reconstruction(ORIGIN) /\ outPointCloud \in Contents
    BY <1>1, <1>2, ContentFacts DEF Tracking, MergedCloud, MergeCanWait
  <1>4. MergedCloud'
    BY <1>1, <1>2, <1>3 DEF MergedCloud, Matching
  <1> QED
    BY <1>1, <1>2, <1>3, <1>4, StoreCloud, RunEnds DEF TargetContent

LEMMA TrackingStep ==
    ASSUME Tracking, TracksCamera(parameters), [Next]_vars
    PROVE  Tracking'
  <1>1. CASE AddImages
    BY <1>1, AddImagesTracks
  <1>2. CASE StoreFrame
    BY <1>2, StoreFrameTracks
  <1>3. CASE PlaceFirstInput
    BY <1>3, PlaceFirstInputTracks
  <1>4. CASE RegistrationSucceeds
    BY <1>4, RegistrationSucceedsTracks
  <1>5. CASE RegistrationFails
    BY <1>5, RegistrationFailsTracks
  <1>6. CASE RemoveEntryLoop
    BY <1>6, RemoveEntryLoopTracks
  <1>7. CASE StoreSceneFeatures
    BY <1>7, StoreSceneFeaturesTracks
  <1>8. CASE RegistrationOutput
    BY <1>8, RegistrationOutputTracks
  <1>9. CASE SparseOutput
    BY <1>9, SparseOutputTracks
  <1>10. CASE DenseMerges
    BY <1>10, DenseMergesTracks
  <1>11. CASE DenseKeepsOutput
    BY <1>11, DenseKeepsOutputTracks
  <1>12. CASE UNCHANGED vars
    <2>1. /\ UNCHANGED <<mostRecentEntryIndex, oldestEntryIndex, lists, removing, inputs>>
          /\ UNCHANGED <<parameters, pc, firstInput, outPose, outPointCloud, featureCloud,
                         mergeCounter, stored, pointCloudMap>>
      BY <1>12 DEF vars, historyVars, runVars, cloudVars
    <2>2. Types' /\ EntriesFollowTheRun'
      BY <2>1 DEF Tracking, Types, HistoryType, EntriesFollowTheRun, OtherSlot, Newest
    <2>3. PoseOfThePosedEntry'
      BY <2>1 DEF Tracking, PoseOfThePosedEntry, PosedInput, PosedSlot, Unposed, OtherSlot,
                  Newest, Assembling, GetLatestPose
    <2>4. TargetOfThePosedEntry' /\ StoredOnTheWay'
      BY <2>1 DEF Tracking, TargetOfThePosedEntry, StoredOnTheWay, PosedInput, PosedSlot,
                  Unposed, OtherSlot, Newest, Holds, TargetList, TargetContent, Matching
    <2>5. StepsOfTheChain' /\ MergedCloud' /\ MapOfPosedInputs'
      BY <2>1 DEF Tracking, StepsOfTheChain, MergedCloud, MapOfPosedInputs, NotYetInMap,
                  Matching, Assembling
    <2> QED
      BY <2>2, <2>3, <2>4, <2>5 DEF Tracking
  <1> QED
    BY <1>1, <1>2, <1>3, <1>4, <1>5, <1>6, <1>7, <1>8, <1>9, <1>10, <1>11, <1>12
       DEF Next, InsideRun

-----------------------------------------------------------------------------
(* The properties, for every set of options that tracks the camera.        *)

AllTrack == \A p \in Configurations : TracksCamera(p)

\* However many inputs come and fail, the invariant above holds.
THEOREM CameraIsTracked == AllTrack => (Spec => []Tracking)
  <1> SUFFICES ASSUME AllTrack
               PROVE  Spec => []Tracking
    OBVIOUS
  <1>1. Init => Tracking
    BY TrackingInit DEF AllTrack, Init
  <1>2. Tracking /\ [Next]_vars => Tracking'
    BY TrackingStep DEF AllTrack, Tracking, Types
  <1> QED
    BY <1>1, <1>2, PTL DEF Spec

\* Each input is matched to what the options say, and that exists.
THEOREM MatchesWhatIsConfigured == AllTrack => (Spec => []MatchedAsConfigured)
  <1> SUFFICES ASSUME AllTrack
               PROVE  Spec => []MatchedAsConfigured
    OBVIOUS
  <1>1. Tracking => MatchedAsConfigured
    <2> SUFFICES ASSUME Tracking, pc = "match", ~firstInput
                 PROVE  /\ Source = FrameCloud(inputs)
                        /\ IF Matching THEN Target.shows = "reconstruction"
                                       ELSE Target = FrameCloud(PosedInput)
      BY DEF MatchedAsConfigured
    <2>1. TracksCamera(parameters)
      BY DEF AllTrack, Tracking, Types
    <2> QED
      BY <2>1, RegistersToThePosedEntry, ContentFacts DEF TargetContent
  <1> QED
    BY <1>1, CameraIsTracked, PTL

\* Between two runs the pose is that of the newest entry, in the map.
THEOREM PoseFollowsTheNewestEntry == AllTrack => (Spec => []PoseIsThatOfTheNewestEntry)
  <1> SUFFICES ASSUME AllTrack
               PROVE  Spec => []PoseIsThatOfTheNewestEntry
    OBVIOUS
  <1>1. Tracking => PoseIsThatOfTheNewestEntry
    <2> SUFFICES ASSUME Tracking, pc = "idle", inputs > 0
                 PROVE  outPose = <<GetData(Image, 0), ORIGIN>>
      BY DEF PoseIsThatOfTheNewestEntry, Image
    <2>1. ~firstInput /\ mostRecentEntryIndex # -1 /\ HistoryType
      BY DEF Tracking, Types, HistoryType, EntriesFollowTheRun
    <2>2. GetData(Image, 0) = lists[Image][Newest]
      BY <2>1, ReadNewest DEF Lists, Newest
    <2> QED
      BY <2>1, <2>2 DEF Tracking, PoseOfThePosedEntry, PosedSlot, Unposed
  <1> QED
    BY <1>1, CameraIsTracked, PTL

\* Between two runs the newest entry has what the next input needs.
THEOREM TargetIsInTheNewestEntry == AllTrack => (Spec => []NewestEntryHasItsTarget)
  <1> SUFFICES ASSUME AllTrack
               PROVE  Spec => []NewestEntryHasItsTarget
    OBVIOUS
  <1>1. Tracking => NewestEntryHasItsTarget
    <2> SUFFICES ASSUME Tracking, pc = "idle", inputs > 0
                 PROVE  /\ GetData(TargetList, 0) = GetData(Image, 0)
                        /\ StoredFor(TargetList, 0) # NoContent
      BY DEF NewestEntryHasItsTarget, Image
    <2>1. ~firstInput /\ mostRecentEntryIndex # -1 /\ HistoryType
      BY DEF Tracking, Types, HistoryType, EntriesFollowTheRun
    <2>2. TargetList \in Lists
      BY DEF TargetList, Lists
    <2>3. /\ GetData(TargetList, 0) = lists[TargetList][Newest]
          /\ GetData(Image, 0) = lists[Image][Newest]
      BY <2>1, <2>2, ReadNewest DEF Lists, Newest
    <2>4. /\ lists[Image][Newest] = PosedInput /\ PosedInput \in 1..inputs
          /\ lists[TargetList][Newest] = PosedInput
          /\ stored[TargetList][PosedInput] = TargetContent(PosedInput)
      BY <2>1 DEF Tracking, PoseOfThePosedEntry, TargetOfThePosedEntry, Holds, PosedSlot, Unposed
    <2>5. StoredFor(TargetList, 0) = TargetContent(PosedInput)
      BY <2>3, <2>4, HistoryConstants DEF StoredFor
    <2> QED
      BY <2>3, <2>4, <2>5, ContentFacts DEF TargetContent
  <1> QED
    BY <1>1, CameraIsTracked, PTL

\* Every cloud is in the map once, at the pose of its own input.
THEOREM MapHoldsEachPosedInput == AllTrack => (Spec => []MapHoldsPosedInputsOnce)
  <1> SUFFICES ASSUME AllTrack
               PROVE  Spec => []MapHoldsPosedInputsOnce
    OBVIOUS
  <1>1. Tracking => MapHoldsPosedInputsOnce
    BY DEF Tracking, MapOfPosedInputs, MapHoldsPosedInputsOnce
  <1> QED
    BY <1>1, CameraIsTracked, PTL

-----------------------------------------------------------------------------
(* The types, with whatever options the chains run.                        *)

HP == INSTANCE BundleHistory_proofs WITH Size <- 2, Categories <- {CLOUD}

LEMMA HistoryAssumptions == HP!SizeAssumption /\ HP!CategoriesAssumption /\ HP!MaxInputsAssumption
  BY InputsAssumption
     DEF HP!SizeAssumption, HP!CategoriesAssumption, HP!MaxInputsAssumption, HP!Image,
         HP!Features3d, CLOUD

LEMMA HistoryTypeOK == HP!TypeOK <=> bundleHistory!TypeOK
  BY DEF HP!TypeOK, HP!Slots, HP!Payloads, HP!AllLists, HP!Deleted, HP!Image, HP!Features3d,
         HP!NO_RECENT_ENTRY, bundleHistory!TypeOK, bundleHistory!Slots, bundleHistory!Payloads,
         bundleHistory!AllLists, bundleHistory!Deleted, bundleHistory!Image,
         bundleHistory!Features3d, bundleHistory!NO_RECENT_ENTRY

LEMMA HistoryTypeOKNext == (HP!TypeOK <=> bundleHistory!TypeOK)'
  BY HistoryTypeOK, PTL

LEMMA HistoryCallsAreCalls ==
    ASSUME \/ bundleHistory!AddImages
           \/ \E list \in {CLOUD, Features3d} : bundleHistory!AddData(list)
           \/ bundleHistory!RemoveEntry(0)
           \/ bundleHistory!RemovalLoop
           \/ UNCHANGED historyVars
    PROVE  [HP!Next]_(HP!vars)
  <1>1. bundleHistory!AddImages => HP!AddImages
    BY DEF HP!AddImages, bundleHistory!AddImages, HP!Ready, bundleHistory!Ready,
           HP!ReplaceOldestImages, bundleHistory!ReplaceOldestImages,
           HP!AppendImages, bundleHistory!AppendImages, HP!IsFull, bundleHistory!IsFull,
           HP!ListsWithoutDataAt, bundleHistory!ListsWithoutDataAt,
           HP!HeapWithoutDataAt, bundleHistory!HeapWithoutDataAt,
           HP!AllLists, bundleHistory!AllLists, HP!Deleted, bundleHistory!Deleted,
           HP!Image, bundleHistory!Image, HP!Features3d, bundleHistory!Features3d,
           HP!NULL, bundleHistory!NULL, HP!NO_RECENT_ENTRY, bundleHistory!NO_RECENT_ENTRY
  <1>2. ASSUME NEW list \in {CLOUD, Features3d}, bundleHistory!AddData(list)
        PROVE  list \in HP!AllLists \ {HP!Image} /\ HP!AddData(list)
    <2>1. list \in HP!AllLists \ {HP!Image}
      BY DEF HP!AllLists, HP!Deleted, HP!Image, HP!Features3d, Features3d, CLOUD,
             bundleHistory!Features3d
    <2>2. HP!AddData(list)
      BY <1>2 DEF HP!AddData, bundleHistory!AddData, HP!Ready, bundleHistory!Ready,
             HP!Image, bundleHistory!Image, HP!NO_RECENT_ENTRY, bundleHistory!NO_RECENT_ENTRY
    <2> QED BY <2>1, <2>2
  <1>3. bundleHistory!RemoveEntry(0) => 0 \in HP!Slots /\ HP!RemoveEntry(0)
    BY DEF HP!RemoveEntry, bundleHistory!RemoveEntry, HP!Ready, bundleHistory!Ready, HP!Slots,
           HP!BackwardStepsToIndex, bundleHistory!BackwardStepsToIndex,
           HP!DropOldestIndex, bundleHistory!DropOldestIndex, HP!queueVars, bundleHistory!queueVars,
           HP!ListsWithoutDataAt, bundleHistory!ListsWithoutDataAt,
           HP!HeapWithoutDataAt, bundleHistory!HeapWithoutDataAt,
           HP!AllLists, bundleHistory!AllLists, HP!Deleted, bundleHistory!Deleted,
           HP!Image, bundleHistory!Image, HP!Features3d, bundleHistory!Features3d,
           HP!NULL, bundleHistory!NULL, HP!NO_RECENT_ENTRY, bundleHistory!NO_RECENT_ENTRY
  <1>4. bundleHistory!RemovalLoop => HP!RemovalLoop
    BY DEF HP!RemovalLoop, bundleHistory!RemovalLoop, HP!ShiftEntry, bundleHistory!ShiftEntry,
           HP!FinishRemoval, bundleHistory!FinishRemoval,
           HP!ListsWithoutDataAt, bundleHistory!ListsWithoutDataAt,
           HP!AllLists, bundleHistory!AllLists, HP!Deleted, bundleHistory!Deleted,
           HP!Image, bundleHistory!Image, HP!Features3d, bundleHistory!Features3d,
           HP!NULL, bundleHistory!NULL, HP!NO_RECENT_ENTRY, bundleHistory!NO_RECENT_ENTRY
  <1> QED BY <1>1, <1>2, <1>3, <1>4 DEF HP!Next, HP!Filling, HP!vars, historyVars

\* What the steps need to know beside the types: every cloud in the map is of
\* an input of its own, and the first input has put one there.
Typed ==
    /\ TypeOK
    /\ stored \in [{CLOUD, Features3d} -> [1..MaxInputs -> Contents]]
    /\ pointCloudMap \in Seq([cloud : Systems, pose : Systems \X Systems])
    /\ NotYetInMap => Len(pointCloudMap) + 1 <= inputs
    /\ ~firstInput /\ ~Assembling => pointCloudMap # <<>>

LEMMA TypedFacts ==
    ASSUME Typed
    PROVE  /\ HistoryType /\ inputs \in Systems
           /\ outPose \in Systems \X Systems
           /\ outPose[1] \in Systems /\ outPose[2] \in Systems
           /\ outPointCloud \in Contents /\ featureCloud \in Contents
           /\ parameters.cloudUpdateTime \in Nat \ {0}
           /\ NextMergeCounter \in 0..(parameters.cloudUpdateTime - 1)
           /\ Len(pointCloudMap) \in Nat
  <1>1. HistoryType /\ inputs \in Systems
    BY HistoryConstants DEF Typed, TypeOK, HistoryType, bundleHistory!TypeOK, Systems
  <1>2. parameters.cloudUpdateTime \in Nat \ {0}
    BY ConfigurationsAssumption, InputsAssumption DEF Typed, TypeOK, AllConfigurations
  <1>3. NextMergeCounter \in 0..(parameters.cloudUpdateTime - 1)
    <2>1. mergeCounter \in 0..(parameters.cloudUpdateTime - 1)
      BY DEF Typed, TypeOK
    <2> DEFINE t == parameters.cloudUpdateTime
    <2> HIDE DEF t
    <2>2. ASSUME NEW a \in 0..(t - 1), t \in Nat \ {0} PROVE (a + 1) % t \in 0..(t - 1)
      BY <2>2
    <2> QED BY <1>2, <2>1, <2>2 DEF NextMergeCounter, t
  <1>4. /\ outPose \in Systems \X Systems
        /\ outPointCloud \in Contents /\ featureCloud \in Contents
    BY DEF Typed, TypeOK, Contents
  <1>5. Len(pointCloudMap) \in Nat
    BY LenProperties DEF Typed
  <1> QED BY <1>1, <1>2, <1>3, <1>4, <1>5

LEMMA StoredContents ==
    ASSUME Typed, NEW list \in {CLOUD, Features3d}
    PROVE  StoredFor(list, 1) \in Contents
  <1>1. GetData(list, 1) \in 0..MaxInputs
    <2>1. bundleHistory!BackwardStepsToIndex(1) \in {-1, 0, 1}
      BY TypedFacts, SlotArithmetic, HistoryConstants
         DEF HistoryType, bundleHistory!BackwardStepsToIndex
    <2> QED BY <2>1, TypedFacts, HistoryConstants, InputsAssumption
            DEF HistoryType, GetData, bundleHistory!GetData, Lists
  <1> QED BY <1>1, ContentFacts, HistoryConstants, InputsAssumption DEF StoredFor, Typed

LEMMA PosesAreTyped ==
    ASSUME Typed, ~firstInput
    PROVE  /\ PoseToPreviousPose \in Systems \X Systems
           /\ ~Assembling => GetLatestPose \in Systems \X Systems
           /\ \A outer, inner \in Systems \X Systems : Sum(outer, inner) \in Systems \X Systems
  <1>1. \A outer, inner \in Systems \X Systems : Sum(outer, inner) \in Systems \X Systems
    BY ContentFacts DEF Sum, UNKNOWN_POSE
  <1>2. Target \in Contents /\ StoredFor(CLOUD, 1) \in Contents
    BY StoredContents DEF Target, TargetList
  <1>3. Source \in Contents
    BY TypedFacts, ContentFacts DEF Source
  <1>4. Register(Source, Target) \in Systems \X Systems
    BY <1>2, <1>3 DEF Register, Contents
  <1>5. \A close \in Systems \X Systems : Refine(close) \in Systems \X Systems
    <2> TAKE close \in Systems \X Systems
    <2>1. Register([in |-> close[2]], StoredFor(CLOUD, 1)) \in Systems \X Systems
      BY <1>2 DEF Register, Contents
    <2> QED BY <1>1, <2>1 DEF Refine
  <1>6. ~Assembling => GetLatestPose \in Systems \X Systems
    <2> DEFINE Posed == [cloud : Systems, pose : Systems \X Systems]
    <2>1. ASSUME ~Assembling PROVE GetLatestPose \in Systems \X Systems
      <3>1. pointCloudMap \in Seq(Posed) /\ pointCloudMap # <<>>
        BY <2>1 DEF Typed
      <3> HIDE DEF Posed
      <3>2. pointCloudMap[Len(pointCloudMap)] \in Posed
        BY <3>1, LenProperties, EmptySeq
      <3> QED BY <3>2 DEF GetLatestPose, Last, Posed
    <2> QED BY <2>1
  <1> QED BY <1>1, <1>4, <1>5, <1>6 DEF PoseToPreviousPose

\* The map with the cloud of the current input.
LEMMA MapIsTyped ==
    ASSUME Typed, NEW pose \in Systems \X Systems
    PROVE  /\ AddPointCloud(pointCloudMap, pose) \in Seq([cloud : Systems, pose : Systems \X Systems])
           /\ AddPointCloud(pointCloudMap, pose) # <<>>
           /\ Len(AddPointCloud(pointCloudMap, pose)) = Len(pointCloudMap) + 1
  <1> DEFINE Posed == [cloud : Systems, pose : Systems \X Systems]
             new == [cloud |-> inputs, pose |-> pose]
  <1>1. pointCloudMap \in Seq(Posed) /\ new \in Posed
    BY TypedFacts DEF Typed
  <1> HIDE DEF Posed, new
  <1>2. /\ Append(pointCloudMap, new) \in Seq(Posed) /\ Append(pointCloudMap, new) # <<>>
        /\ Len(Append(pointCloudMap, new)) = Len(pointCloudMap) + 1
    BY <1>1, AppendProperties
  <1> QED BY <1>2 DEF AddPointCloud, Posed, new

LEMMA StoreIsTyped ==
    ASSUME Typed, NEW list \in {CLOUD, Features3d}, NEW content \in Contents, Store(list, content)
    PROVE  /\ stored' \in [{CLOUD, Features3d} -> [1..MaxInputs -> Contents]]
           /\ inputs' = inputs
           /\ [HP!Next]_(HP!vars)
  <1>1. stored' = [stored EXCEPT ![list][inputs] = content] /\ inputs' = inputs
    BY DEF Store, bundleHistory!AddData
  <1>2. stored' \in [{CLOUD, Features3d} -> [1..MaxInputs -> Contents]]
    BY <1>1 DEF Typed
  <1>3. \E l \in {CLOUD, Features3d} : bundleHistory!AddData(l)
    BY DEF Store
  <1>4. [HP!Next]_(HP!vars)
    BY <1>3, HistoryCallsAreCalls
  <1> QED BY <1>1, <1>2, <1>4

\* The map is extended when a run ends with an output.
LEMMA ExtensionIsTyped ==
    ASSUME Typed, ExtendMap, pc \in {"update", "output"}, inputs' = inputs
    PROVE  /\ pointCloudMap' \in Seq([cloud : Systems, pose : Systems \X Systems])
           /\ pointCloudMap # <<>> => pointCloudMap' # <<>>
           /\ Len(pointCloudMap') <= inputs'
  <1>1. CASE Assembling
    <2>1. Len(pointCloudMap) + 1 <= inputs
      BY <1>1 DEF Typed, NotYetInMap
    <2> QED BY <1>1, <2>1, MapIsTyped, TypedFacts DEF ExtendMap
  <1>2. CASE ~Assembling
    BY <1>2 DEF ExtendMap, Typed, TypeOK
  <1> QED BY <1>1, <1>2

\* Placing an input with a pose of the right type.
LEMMA PlacementIsTyped ==
    ASSUME Typed, pc = "match", outPose' \in Systems \X Systems,
           pointCloudMap' = IF Assembling THEN pointCloudMap
                            ELSE AddPointCloud(pointCloudMap, outPose')
    PROVE  /\ pointCloudMap' \in Seq([cloud : Systems, pose : Systems \X Systems])
           /\ Len(pointCloudMap') <= inputs
           /\ Assembling => Len(pointCloudMap') + 1 <= inputs
           /\ ~Assembling => pointCloudMap' # <<>>
  <1>1. Len(pointCloudMap) + 1 <= inputs
    BY DEF Typed, NotYetInMap
  <1>2. Len(pointCloudMap) \in Nat /\ inputs \in Nat
    BY TypedFacts DEF HistoryType
  <1>3. CASE Assembling
    BY <1>1, <1>2, <1>3 DEF Typed
  <1>4. CASE ~Assembling
    BY <1>1, <1>2, <1>4, MapIsTyped
  <1> QED BY <1>3, <1>4

LEMMA OutputIsTyped == ASSUME Typed PROVE Output \in Contents
  BY TypedFacts, ContentFacts DEF Output

LEMMA TypedInit == Init => Typed
  <1> SUFFICES ASSUME Init PROVE Typed
    OBVIOUS
  <1>1. bundleHistory!TypeOK
    <2>1. HP!Init
      BY DEF Init, bundleHistory!Init, HP!Init, HP!AllLists, HP!Deleted, HP!Image, HP!Features3d,
             HP!NULL, HP!NO_RECENT_ENTRY, HP!Slots, bundleHistory!AllLists, bundleHistory!Deleted,
             bundleHistory!Image, bundleHistory!Features3d, bundleHistory!NULL,
             bundleHistory!NO_RECENT_ENTRY, bundleHistory!Slots
    <2> QED BY <2>1, HistoryAssumptions, HP!TypeInit, HistoryTypeOK
  <1>2. parameters.cloudUpdateTime \in Nat \ {0}
    BY ConfigurationsAssumption, InputsAssumption DEF Init, AllConfigurations
  <1>3. outPose \in Systems \X Systems /\ outPointCloud \in Contents /\ featureCloud \in Contents
    BY ContentFacts DEF Init, UNKNOWN_POSE
  <1>4. inputs = 0
    BY DEF Init, bundleHistory!Init
  <1>5. pointCloudMap = <<>> /\ Len(pointCloudMap) = 0
    BY EmptySeq DEF Init
  <1>6. TypeOK
    <2>1. mergeCounter \in 0..(parameters.cloudUpdateTime - 1)
      BY <1>2 DEF Init
    <2>2. /\ parameters \in Configurations /\ firstInput \in BOOLEAN /\ outSuccess \in BOOLEAN
          /\ pc \in {"idle", "store", "match", "remove", "update", "output"}
      BY DEF Init
    <2>3. {outPointCloud, featureCloud} \subseteq
             [shows : {"nothing", "frame", "reconstruction"}, in : Systems]
      BY <1>3 DEF Contents
    <2>4. Len(pointCloudMap) <= inputs
      BY <1>4, <1>5
    <2> QED BY <1>1, <1>3, <2>1, <2>2, <2>3, <2>4 DEF TypeOK
  <1>7. /\ stored \in [{CLOUD, Features3d} -> [1..MaxInputs -> Contents]]
        /\ pointCloudMap \in Seq([cloud : Systems, pose : Systems \X Systems])
    BY <1>5, ContentFacts, EmptySeq DEF Init
  <1> QED BY <1>6, <1>7 DEF Init, Typed, NotYetInMap

\* Every step of run() is one of the history's operations or none.
LEMMA HistoryIsUsedAsClass == [Next]_vars => [HP!Next]_(HP!vars)
  <1> SUFFICES ASSUME [Next]_vars PROVE [HP!Next]_(HP!vars)
    OBVIOUS
  <1>1. ASSUME NEW list \in {CLOUD, Features3d}, NEW content, Store(list, content)
        PROVE  [HP!Next]_(HP!vars)
    <2>1. \E l \in {CLOUD, Features3d} : bundleHistory!AddData(l)
      BY <1>1 DEF Store
    <2> QED BY <2>1, HistoryCallsAreCalls
  <1>2. CASE AddImages
    BY <1>2, HistoryCallsAreCalls DEF AddImages
  <1>3. CASE StoreFrame
    BY <1>1, <1>3 DEF StoreFrame, TargetList
  <1>4. CASE PlaceFirstInput \/ RegistrationSucceeds \/ UNCHANGED vars
    BY <1>4, HistoryCallsAreCalls DEF PlaceFirstInput, RegistrationSucceeds, vars
  <1>5. CASE RegistrationFails
    BY <1>5, HistoryCallsAreCalls DEF RegistrationFails
  <1>6. CASE RemoveEntryLoop
    BY <1>6, HistoryCallsAreCalls DEF RemoveEntryLoop
  <1>7. CASE StoreSceneFeatures
    BY <1>1, <1>7 DEF StoreSceneFeatures
  <1>8. CASE RegistrationOutput
    BY <1>1, <1>8, HistoryCallsAreCalls DEF RegistrationOutput
  <1>9. CASE SparseOutput
    BY <1>1, <1>9, HistoryCallsAreCalls DEF SparseOutput
  <1>10. CASE DenseMerges
    BY <1>1, <1>10, HistoryCallsAreCalls DEF DenseMerges
  <1>11. CASE DenseKeepsOutput
    BY <1>1, <1>11 DEF DenseKeepsOutput
  <1> QED BY <1>2, <1>3, <1>4, <1>5, <1>6, <1>7, <1>8, <1>9, <1>10, <1>11 DEF Next, InsideRun

\* The end of a run with an output: what it stores, and the map.
LEMMA OutputKeepsTypes ==
    ASSUME Typed, bundleHistory!TypeOK', pc \in {"update", "output"}, ExtendMap,
           UNCHANGED <<parameters, firstInput, outSuccess, outPose>>,
           outPointCloud' \in Contents, featureCloud' \in Contents,
           mergeCounter' \in {mergeCounter, NextMergeCounter}, pc' = "idle",
           \/ \E content \in Contents : Store(CLOUD, content)
           \/ UNCHANGED <<historyVars, stored>>
    PROVE  Typed'
  <1>1. stored' \in [{CLOUD, Features3d} -> [1..MaxInputs -> Contents]] /\ inputs' = inputs
    BY StoreIsTyped DEF Typed, historyVars
  <1>2. /\ pointCloudMap' \in Seq([cloud : Systems, pose : Systems \X Systems])
        /\ pointCloudMap # <<>> => pointCloudMap' # <<>>
        /\ Len(pointCloudMap') <= inputs'
    BY <1>1, ExtensionIsTyped
  <1>3. mergeCounter' \in 0..(parameters'.cloudUpdateTime - 1)
    BY TypedFacts DEF Typed, TypeOK
  <1>4. TypeOK'
    BY <1>2, <1>3 DEF Typed, TypeOK, Contents
  <1>5. ~NotYetInMap' /\ (~firstInput' /\ ~Assembling' => pointCloudMap' # <<>>)
    BY <1>2 DEF Typed, NotYetInMap, Assembling
  <1> QED BY <1>1, <1>2, <1>4, <1>5 DEF Typed

LEMMA TypedStep == Typed /\ [Next]_vars => Typed'
  <1> SUFFICES ASSUME Typed, [Next]_vars PROVE Typed'
    OBVIOUS
  <1>1. bundleHistory!TypeOK'
    <2>1. HP!TypeOK /\ [HP!Next]_(HP!vars)
      BY HistoryTypeOK, HistoryIsUsedAsClass DEF Typed, TypeOK
    <2> QED BY <2>1, HistoryAssumptions, HP!TypeStep, HistoryTypeOKNext
  <1>2. CASE AddImages
    <2>1. /\ inputs' = inputs + 1 /\ inputs \in Nat
          /\ UNCHANGED <<parameters, firstInput, outSuccess, outPose, cloudVars, pointCloudMap>>
          /\ pc' \in {"match", "store"}
      BY <1>2, TypedFacts DEF AddImages, bundleHistory!AddImages, HistoryType
    <2>2. Len(pointCloudMap) <= inputs /\ Len(pointCloudMap) \in Nat
      BY TypedFacts DEF Typed, TypeOK
    <2>3. Len(pointCloudMap') <= inputs' /\ Len(pointCloudMap') + 1 <= inputs'
      BY <2>1, <2>2
    <2> QED BY <1>1, <2>1, <2>3 DEF Typed, TypeOK, cloudVars, Assembling
  <1>3. CASE StoreFrame
    <2>1. FrameCloud(inputs) \in Contents /\ TargetList \in {CLOUD, Features3d}
      BY TypedFacts, ContentFacts DEF TargetList
    <2>2. stored' \in [{CLOUD, Features3d} -> [1..MaxInputs -> Contents]] /\ inputs' = inputs
      BY <1>3, <2>1, StoreIsTyped DEF StoreFrame
    <2>3. featureCloud' \in Contents
      BY <1>3, <2>1, TypedFacts DEF StoreFrame
    <2> QED BY <1>1, <1>3, <2>2, <2>3 DEF StoreFrame, Typed, TypeOK, NotYetInMap, Assembling, Contents
  <1>4. CASE PlaceFirstInput \/ RegistrationSucceeds
    <2>1. outPose' \in Systems \X Systems
      <3>1. CASE PlaceFirstInput
        BY <3>1, TypedFacts, ContentFacts DEF PlaceFirstInput
      <3>2. CASE RegistrationSucceeds
        BY <3>2, PosesAreTyped, TypedFacts DEF RegistrationSucceeds
      <3> QED BY <1>4, <3>1, <3>2
    <2>2. /\ pc = "match" /\ pc' = "update" /\ firstInput' = FALSE /\ outSuccess' = TRUE
          /\ UNCHANGED <<historyVars, parameters, cloudVars>>
          /\ pointCloudMap' = IF Assembling THEN pointCloudMap
                              ELSE AddPointCloud(pointCloudMap, outPose')
      BY <1>4 DEF PlaceFirstInput, RegistrationSucceeds
    <2>3. /\ pointCloudMap' \in Seq([cloud : Systems, pose : Systems \X Systems])
          /\ Len(pointCloudMap') <= inputs
          /\ Assembling => Len(pointCloudMap') + 1 <= inputs
          /\ ~Assembling => pointCloudMap' # <<>>
      BY <2>1, <2>2, PlacementIsTyped
    <2>4. TypeOK'
      BY <1>1, <2>1, <2>2, <2>3 DEF Typed, TypeOK, historyVars, cloudVars
    <2> QED BY <2>2, <2>3, <2>4 DEF Typed, NotYetInMap, Assembling, historyVars, cloudVars
  <1>5. CASE RegistrationFails
    <2>1. inputs' = inputs
      BY <1>5 DEF RegistrationFails, bundleHistory!RemoveEntry
    <2> QED BY <1>1, <1>5, <2>1
            DEF RegistrationFails, Typed, TypeOK, NotYetInMap, Assembling, cloudVars
  <1>6. CASE RemoveEntryLoop
    <2>1. inputs' = inputs
      BY <1>6 DEF RemoveEntryLoop, bundleHistory!RemovalLoop, bundleHistory!ShiftEntry,
                  bundleHistory!FinishRemoval
    <2>2. mergeCounter' \in 0..(parameters'.cloudUpdateTime - 1)
      BY <1>6, TypedFacts DEF RemoveEntryLoop, Typed, TypeOK
    <2> QED BY <1>1, <1>6, <2>1, <2>2
            DEF RemoveEntryLoop, Typed, TypeOK, NotYetInMap, Assembling
  <1>7. CASE StoreSceneFeatures
    <2>1. stored' \in [{CLOUD, Features3d} -> [1..MaxInputs -> Contents]] /\ inputs' = inputs
      BY <1>7, ContentFacts, StoreIsTyped DEF StoreSceneFeatures
    <2> QED BY <1>1, <1>7, <2>1 DEF StoreSceneFeatures, Typed, TypeOK, NotYetInMap, Assembling
  <1>8. CASE RegistrationOutput
    <2>1. outPointCloud' \in Contents
      BY <1>8, OutputIsTyped DEF RegistrationOutput
    <2> QED BY <1>1, <1>8, <2>1, TypedFacts, OutputKeepsTypes DEF RegistrationOutput
  <1>9. CASE SparseOutput
    <2>1. outPointCloud' \in Contents /\ featureCloud' \in Contents
      BY <1>9, OutputIsTyped, TypedFacts, ContentFacts DEF SparseOutput
    <2> QED BY <1>1, <1>9, <2>1, OutputKeepsTypes DEF SparseOutput
  <1>10. CASE DenseMerges
    <2>1. outPointCloud' \in Contents
      BY <1>10, OutputIsTyped DEF DenseMerges
    <2> QED BY <1>1, <1>10, <2>1, TypedFacts, OutputKeepsTypes DEF DenseMerges
  <1>11. CASE DenseKeepsOutput
    <2>1. stored' \in [{CLOUD, Features3d} -> [1..MaxInputs -> Contents]] /\ inputs' = inputs
      BY <1>11, TypedFacts, StoreIsTyped DEF DenseKeepsOutput
    <2>2. mergeCounter' \in 0..(parameters'.cloudUpdateTime - 1)
      BY <1>11, TypedFacts DEF DenseKeepsOutput
    <2> QED BY <1>1, <1>11, <2>1, <2>2 DEF DenseKeepsOutput, Typed, TypeOK, NotYetInMap, Assembling
  <1>12. CASE UNCHANGED vars
    BY <1>1, <1>12 DEF vars, historyVars, runVars, cloudVars, Typed, TypeOK, NotYetInMap, Assembling
  <1> QED BY <1>2, <1>3, <1>4, <1>5, <1>6, <1>7, <1>8, <1>9, <1>10, <1>11, <1>12 DEF Next, InsideRun

\* With any set of options, also those with which a chain loses the camera,
\* poses lead between known systems and the map has at most one cloud of
\* each input.
THEOREM RegistrationTypes == Spec => []TypeOK
  <1>1. Typed => TypeOK
    BY DEF Typed
  <1> QED BY <1>1, TypedInit, TypedStep, PTL DEF Spec
=============================================================================
