--------------------- MODULE AdjustmentFromStereo_proofs ---------------------
(***************************************************************************)
(* Why history, recorder and map of AdjustmentFromStereo agree, for one to *)
(* five adjusted pairs, whose maps find room in the recorder, and every    *)
(* number of inputs.  The history is used through what                     *)
(* BundleHistory_refinement says of a queue, the recorder through what     *)
(* Recorder2DClient_proofs says of a client that follows its protocol:     *)
(* run() is one.                                                           *)
(***************************************************************************)
EXTENDS AdjustmentFromStereo, CorrespondenceSequences_proofs, FiniteSetTheorems

M == numberOfAdjustedStereoPairs
Kinds == {LEFT, RIGHT, STEREO_CLOUD, TRIANGULATION_CLOUD, MATCHES}

HR == INSTANCE BundleHistory_refinement WITH
    Size <- numberOfAdjustedStereoPairs + 1,
    Categories <- {LEFT, RIGHT, STEREO_CLOUD, TRIANGULATION_CLOUD, MATCHES}

\* The inputs in the history, latest first.
Ids == HR!Ids

\* The pairs the recorder knows of: not yet the one whose data are being
\* stored, and still the one that was just removed from the history.
Frames == IF pc = "store" THEN Tail(Ids)
          ELSE IF pc \in {"remove", "discard"} THEN <<inputs>> \o Ids
          ELSE Ids

ToAdd == IF pc = "correspond" THEN pending ELSE <<>>
CanDiscard == pc \in {"adjust", "remove", "discard"}

RP == INSTANCE Recorder2DClient_proofs WITH
    MAXIMUM_NUMBER_OF_POSES <- numberOfAdjustedStereoPairs,
    MaxFrames <- MaxInputs,
    frames <- Frames,
    frameCount <- inputs,
    toAdd <- ToAdd,
    canDiscard <- CanDiscard

LEMMA HistoryAssumptions == HR!SizeAssumption /\ HR!CategoriesAssumption /\ HR!MaxInputsAssumption
  BY PairsAssumption, InputsAssumption
     DEF HR!SizeAssumption, HR!CategoriesAssumption, HR!MaxInputsAssumption, HR!Image,
         HR!Features3d, LEFT, RIGHT, STEREO_CLOUD, TRIANGULATION_CLOUD, MATCHES

LEMMA RecorderAssumptions == RP!PosesAssumption /\ RP!MaxFramesAssumption
  BY PairsAssumption, InputsAssumption DEF RP!PosesAssumption, RP!MaxFramesAssumption

LEMMA Constants ==
    /\ M \in Nat /\ M >= 1 /\ MaxInputs \in Nat
    /\ HR!Slots = 0..M /\ HR!Payloads = 0..MaxInputs /\ RP!M = M
    /\ HR!NULL = 0 /\ NULL = 0
  BY PairsAssumption, InputsAssumption
     DEF M, HR!Slots, HR!Payloads, RP!M, HR!NULL, NULL, bundleHistory!NULL

-----------------------------------------------------------------------------
(* The history and the recorder of the model are the ones the lemmas are   *)
(* about.                                                                  *)

LEMMA HistoryCalls ==
    /\ bundleHistory!Init => HR!Init
    /\ bundleHistory!AddImages => HR!AddImages
    /\ \A d \in Kinds : bundleHistory!AddData(d) => HR!AddData(d)
    /\ bundleHistory!RemoveEntry(0) => HR!RemoveEntry(0)
    /\ bundleHistory!RemovalLoop => HR!RemovalLoop
    /\ UNCHANGED historyVars => UNCHANGED HR!vars
  <1>1. bundleHistory!Init => HR!Init
    BY DEF HR!Init, bundleHistory!Init, HR!Slots, bundleHistory!Slots,
           HR!AllLists, bundleHistory!AllLists, HR!Deleted, bundleHistory!Deleted,
           HR!Image, bundleHistory!Image, HR!Features3d, bundleHistory!Features3d,
           HR!NULL, bundleHistory!NULL, HR!NO_RECENT_ENTRY, bundleHistory!NO_RECENT_ENTRY
  <1>2. bundleHistory!AddImages => HR!AddImages
    BY DEF HR!AddImages, bundleHistory!AddImages, HR!Ready, bundleHistory!Ready,
           HR!ReplaceOldestImages, bundleHistory!ReplaceOldestImages,
           HR!AppendImages, bundleHistory!AppendImages, HR!IsFull, bundleHistory!IsFull,
           HR!ListsWithoutDataAt, bundleHistory!ListsWithoutDataAt,
           HR!HeapWithoutDataAt, bundleHistory!HeapWithoutDataAt,
           HR!AllLists, bundleHistory!AllLists, HR!Deleted, bundleHistory!Deleted,
           HR!Image, bundleHistory!Image, HR!Features3d, bundleHistory!Features3d,
           HR!NULL, bundleHistory!NULL, HR!NO_RECENT_ENTRY, bundleHistory!NO_RECENT_ENTRY
  <1>3. ASSUME NEW d \in Kinds PROVE bundleHistory!AddData(d) => HR!AddData(d)
    BY DEF HR!AddData, bundleHistory!AddData, HR!Ready, bundleHistory!Ready,
           HR!Image, bundleHistory!Image, HR!NO_RECENT_ENTRY, bundleHistory!NO_RECENT_ENTRY
  <1>4. bundleHistory!RemoveEntry(0) => HR!RemoveEntry(0)
    BY DEF HR!RemoveEntry, bundleHistory!RemoveEntry, HR!Ready, bundleHistory!Ready,
           HR!BackwardStepsToIndex, bundleHistory!BackwardStepsToIndex,
           HR!DropOldestIndex, bundleHistory!DropOldestIndex, HR!queueVars, bundleHistory!queueVars,
           HR!ListsWithoutDataAt, bundleHistory!ListsWithoutDataAt,
           HR!HeapWithoutDataAt, bundleHistory!HeapWithoutDataAt,
           HR!AllLists, bundleHistory!AllLists, HR!Deleted, bundleHistory!Deleted,
           HR!Image, bundleHistory!Image, HR!Features3d, bundleHistory!Features3d,
           HR!NULL, bundleHistory!NULL, HR!NO_RECENT_ENTRY, bundleHistory!NO_RECENT_ENTRY
  <1>5. bundleHistory!RemovalLoop => HR!RemovalLoop
    BY DEF HR!RemovalLoop, bundleHistory!RemovalLoop, HR!ShiftEntry, bundleHistory!ShiftEntry,
           HR!FinishRemoval, bundleHistory!FinishRemoval,
           HR!ListsWithoutDataAt, bundleHistory!ListsWithoutDataAt,
           HR!AllLists, bundleHistory!AllLists, HR!Deleted, bundleHistory!Deleted,
           HR!Image, bundleHistory!Image, HR!Features3d, bundleHistory!Features3d,
           HR!NULL, bundleHistory!NULL, HR!NO_RECENT_ENTRY, bundleHistory!NO_RECENT_ENTRY
  <1>6. UNCHANGED historyVars => UNCHANGED HR!vars
    BY DEF historyVars, HR!vars
  <1> QED BY <1>1, <1>2, <1>3, <1>4, <1>5, <1>6

LEMMA HistoryReads ==
    /\ \A c, b : GetData(c, b) = HR!GetData(c, b)
    /\ bundleHistory!Image = HR!Image
    /\ HR!TypeOK => bundleHistory!TypeOK
  <1>1. \A c, b : GetData(c, b) = HR!GetData(c, b)
    BY DEF GetData, HR!GetData, bundleHistory!GetData, HR!BackwardStepsToIndex,
           bundleHistory!BackwardStepsToIndex, HR!NULL, bundleHistory!NULL,
           HR!NO_RECENT_ENTRY, bundleHistory!NO_RECENT_ENTRY
  <1>2. bundleHistory!Image = HR!Image
    BY DEF HR!Image, bundleHistory!Image
  <1>3. HR!TypeOK => bundleHistory!TypeOK
    BY DEF HR!TypeOK, HR!Slots, HR!Payloads, HR!AllLists, HR!Deleted, HR!Image, HR!Features3d,
           HR!NO_RECENT_ENTRY, bundleHistory!TypeOK, bundleHistory!Slots, bundleHistory!Payloads,
           bundleHistory!AllLists, bundleHistory!Deleted, bundleHistory!Image,
           bundleHistory!Features3d, bundleHistory!NO_RECENT_ENTRY
  <1> QED BY <1>1, <1>2, <1>3

LEMMA RecorderCalls ==
    /\ recorder!Init => RP!Init
    /\ recorder!InitializeNewSequence => RP!InitializeNewSequence
    /\ \A map : recorder!AddCorrespondences(map) => RP!AddCorrespondences(map)
    /\ recorder!CompleteNewSequence => RP!CompleteNewSequence
    /\ recorder!DiscardLatestCorrespondences => RP!DiscardLatestCorrespondences
    /\ recorder!GetLatestCorrespondences = RP!GetLatestCorrespondences
    /\ UNCHANGED recorderVars => UNCHANGED RP!recorderVars
  <1> USE DEF RP!Other, recorder!Other, RP!FIRST_SEQUENCE, recorder!FIRST_SEQUENCE,
              RP!SECOND_SEQUENCE, recorder!SECOND_SEQUENCE, RP!history, recorder!history,
              RP!SmallerOf, recorder!SmallerOf, RP!flagVars, recorder!flagVars,
              RP!Abort, recorder!Abort
  <1>1. recorder!Init => RP!Init
    BY DEF RP!Init, recorder!Init
  <1>2. recorder!InitializeNewSequence => RP!InitializeNewSequence
    BY DEF RP!InitializeNewSequence, recorder!InitializeNewSequence
  <1>3. \A map : recorder!AddCorrespondences(map) => RP!AddCorrespondences(map)
    BY DEF RP!AddCorrespondences, recorder!AddCorrespondences, RP!MapIsAccepted,
           recorder!MapIsAccepted, RP!MAX_CORRESPONDENCE_MAPS_SEQUENCE_LENGTH,
           recorder!MAX_CORRESPONDENCE_MAPS_SEQUENCE_LENGTH
  <1>4. recorder!CompleteNewSequence => RP!CompleteNewSequence
    <2>1. recorder!MapsToKeep = RP!MapsToKeep
      BY DEF RP!MapsToKeep, recorder!MapsToKeep, RP!MapsAt, recorder!MapsAt, RP!Start, recorder!Start, RP!UNKNOWN_MAP, recorder!UNKNOWN_MAP, RP!FlattenSeq, recorder!FlattenSeq,
             RP!ReadPositions, recorder!ReadPositions
    <2> QED BY <2>1 DEF RP!CompleteNewSequence, recorder!CompleteNewSequence,
                        RP!SequenceIsComplete, recorder!SequenceIsComplete,
                        RP!MapsAreStored, recorder!MapsAreStored,
                        RP!MAX_CORRESPONDENCE_MAPS_SEQUENCE_LENGTH,
                        recorder!MAX_CORRESPONDENCE_MAPS_SEQUENCE_LENGTH
  <1>5. recorder!DiscardLatestCorrespondences => RP!DiscardLatestCorrespondences
    BY DEF RP!DiscardLatestCorrespondences, recorder!DiscardLatestCorrespondences
  <1>6. recorder!GetLatestCorrespondences = RP!GetLatestCorrespondences
    BY DEF RP!GetLatestCorrespondences, recorder!GetLatestCorrespondences
  <1>7. UNCHANGED recorderVars => UNCHANGED RP!recorderVars
    BY DEF RP!recorderVars, recorderVars
  <1> QED BY <1>1, <1>2, <1>3, <1>4, <1>5, <1>6, <1>7

-----------------------------------------------------------------------------
(* The inputs held. *)

LEMMA NewIds ==
    ASSUME NEW ids \in Seq(0..MaxInputs), Len(ids) \in 0..(M + 1), NEW id \in 0..MaxInputs
    PROVE  LET new == HR!IdsWithNew(ids, id)
               kept == IF Len(ids) = M + 1 THEN M ELSE Len(ids)
           IN  /\ new \in Seq(0..MaxInputs) /\ new # <<>>
               /\ Len(new) = kept + 1
               /\ new[1] = id
               /\ \A k \in 1..kept : new[k + 1] = ids[k]
               /\ Tail(new) = SubSeq(ids, 1, kept)
               /\ Len(ids) # M + 1 => Tail(new) = ids
  <1> DEFINE S == 0..MaxInputs
             n == Len(ids)
             kept == IF n = M + 1 THEN M ELSE n
             rest == IF n = M + 1 THEN SubSeq(ids, 1, M) ELSE ids
             new == HR!IdsWithNew(ids, id)
  <1>1. M \in Nat /\ n \in 0..(M + 1) /\ kept \in 0..n /\ n \in Nat
    BY Constants
  <1>2. new = <<id>> \o rest
    <2>1. (M + 1) - 1 = M
      BY <1>1
    <2> QED BY <2>1 DEF HR!IdsWithNew, M
  <1>3. /\ SubSeq(ids, 1, kept) \in Seq(S) /\ Len(SubSeq(ids, 1, kept)) = kept
        /\ \A k \in 1..kept : SubSeq(ids, 1, kept)[k] = ids[k]
    <2> HIDE DEF S, kept
    <2> QED BY <1>1, FirstFacts DEF S
  <1>4. rest = SubSeq(ids, 1, kept)
    <2>1. CASE n = M + 1
      BY <2>1
    <2>2. CASE n # M + 1
      <3>1. kept = n /\ rest = ids
        BY <2>2
      <3> HIDE DEF kept, rest
      <3>2. SubSeq(ids, 1, kept) = ids
        BY <1>1, <1>3, <3>1, SeqEqual DEF S
      <3> QED BY <3>1, <3>2
    <2> QED BY <2>1, <2>2
  <1>5. n # M + 1 => rest = ids
    OBVIOUS
  <1> HIDE DEF rest, new, kept, n
  <1>6. rest \in Seq(S) /\ Len(rest) = kept /\ \A k \in 1..kept : rest[k] = ids[k]
    BY <1>3, <1>4
  <1> HIDE DEF S
  <1>7. id \in S
    BY DEF S
  <1>8. /\ <<id>> \o rest \in Seq(S) /\ <<id>> \o rest # <<>>
        /\ Len(<<id>> \o rest) = Len(rest) + 1
        /\ (<<id>> \o rest)[1] = id
        /\ \A k \in 1..Len(rest) : (<<id>> \o rest)[k + 1] = rest[k]
        /\ Tail(<<id>> \o rest) = rest
    BY <1>6, <1>7, ConsFacts
  <1>9. /\ new \in Seq(S) /\ new # <<>> /\ Len(new) = kept + 1 /\ new[1] = id
        /\ \A k \in 1..kept : new[k + 1] = ids[k]
        /\ Tail(new) = SubSeq(ids, 1, kept)
        /\ n # M + 1 => Tail(new) = ids
    BY <1>2, <1>4, <1>5, <1>6, <1>8
  <1> QED BY <1>9 DEF S, new, kept, n

\* What an entry still has to be given.
ToStore == {pending[i] : i \in 1..Len(pending)}
Data == {STEREO_CLOUD, LEFT, RIGHT, MATCHES}
            \cup (IF useBundleInitialEstimation THEN {TRIANGULATION_CLOUD} ELSE {})

HistoryPart ==
    /\ HR!InUse
    /\ HR!NotInLoop <=> pc # "remove"
    /\ HR!Filled(HR!AbstractQueue, IF pc = "store" THEN 1 ELSE 0, Data)
    /\ pc = "store" => /\ pending \in Seq(Data)
                       /\ Len(pending) <= 5
                       /\ HR!Filled(HR!AbstractQueue, 0, Data \ ToStore)

Running == pc \in {"store", "correspond", "adjust"}
Finished == IF pc = "idle" THEN inputs ELSE inputs - 1

\* How many inputs are held, and how many run() has counted.
BundlePart ==
    /\ firstTimeBundle \in BOOLEAN
    /\ currentInputNumber \in 0..Finished
    /\ firstTimeBundle =>
          /\ currentInputNumber = Finished
          /\ pc \notin {"remove", "discard"}
          /\ Len(Ids) = IF inputs < M + 1 THEN inputs ELSE M + 1
    /\ ~firstTimeBundle => IF Running THEN Len(Ids) = M + 1 ELSE Len(Ids) >= M
    /\ Running => Ids # <<>> /\ Ids[1] = inputs

\* The latest inputs that can be in the map are in it, once.
Clouds == [cloud : 0..MaxInputs, camera : (0..MaxInputs) \X Sides]
CloudsOf(map, n) ==
    /\ map \in Seq(Clouds)
    /\ \A k \in 1..Len(map) : map[k].cloud \in 1..n
    /\ \A j, k \in 1..Len(map) : map[j].cloud = map[k].cloud => j = k
Mapped(map, ids, skipped) ==
    \A k \in 1..M : \E j \in 1..Len(map) : map[j].cloud = ids[skipped + k]

MapPart ==
    /\ CloudsOf(pointCloudMap, Finished)
    /\ firstTimeBundle => pointCloudMap = <<>>
    /\ ~firstTimeBundle => Mapped(pointCloudMap, Ids, IF Running THEN 1 ELSE 0)

RecorderPart ==
    /\ RP!RecorderInv
    /\ addingNewSequence = (pc = "correspond")
    /\ pc \notin {"store", "correspond"} => pending = <<>>

RunInv ==
    /\ pc \in {"idle", "store", "correspond", "adjust", "remove", "discard"}
    /\ HistoryPart
    /\ BundlePart
    /\ MapPart
    /\ RecorderPart

-----------------------------------------------------------------------------
(* What the parts of the invariant say of a state. *)

LEMMA FilledWithLess ==
    ASSUME NEW q, NEW first, NEW A, NEW B, HR!Filled(q, first, A), B \subseteq A
    PROVE  HR!Filled(q, first, B)
  BY DEF HR!Filled

LEMMA HeldFacts ==
    ASSUME HR!InUse
    PROVE  /\ Ids \in Seq(0..MaxInputs) /\ Len(Ids) \in 0..(M + 1)
           /\ inputs \in 0..MaxInputs
           /\ Ids \in Seq(Nat)
  <1>1. HR!AbstractQueue \in Seq(HR!QueueEntries) /\ Len(HR!AbstractQueue) \in 0..(M + 1)
    BY HistoryAssumptions, HR!QueueInUse DEF M
  <1>2. Ids = HR!IdsOf(HR!AbstractQueue)
    BY DEF Ids, HR!Ids
  <1>3. Ids \in Seq(HR!Payloads) /\ Len(Ids) \in 0..(M + 1)
    BY <1>1, <1>2, HistoryAssumptions, HR!IdsFacts
  <1>4. inputs \in 0..MaxInputs
    BY Constants DEF HR!InUse, HR!IInv, HR!TypeOK
  <1>5. Ids \in Seq(0..MaxInputs)
    BY <1>3, Constants
  <1>6. Ids \in Seq(Nat)
    <2> DEFINE S == 0..MaxInputs
               ids == Ids
    <2>1. \A k \in 1..Len(ids) : ids[k] \in Nat
      <3> HIDE DEF S, ids
      <3>1. ASSUME NEW k \in 1..Len(ids) PROVE ids[k] \in S
        BY <1>5, ElementOfSeq DEF S, ids
      <3> QED BY <3>1, Constants DEF S
    <2>2. Len(ids) \in Nat /\ ids \in [1..Len(ids) -> Nat]
      <3> HIDE DEF ids
      <3>1. Len(ids) \in Nat /\ DOMAIN ids = 1..Len(ids) /\ ids = [k \in DOMAIN ids |-> ids[k]]
        BY <1>5, LenProperties DEF S, ids
      <3> QED BY <2>1, <3>1
    <2> HIDE DEF ids
    <2>3. ids \in Seq(Nat)
      BY <2>2, FunctionIsSequence
    <2> QED BY <2>3 DEF ids
  <1> QED BY <1>3, <1>4, <1>5, <1>6

LEMMA DataFacts ==
    /\ DataOfInput \in Seq(Data) /\ Len(DataOfInput) <= 5
    /\ {DataOfInput[i] : i \in 1..Len(DataOfInput)} = Data
    /\ Data \subseteq Kinds
  <1>1. CASE useBundleInitialEstimation
    <2>1. DataOfInput = <<STEREO_CLOUD, LEFT, RIGHT, TRIANGULATION_CLOUD, MATCHES>>
      BY <1>1 DEF DataOfInput
    <2> QED BY <1>1, <2>1 DEF Data, Kinds
  <1>2. CASE ~useBundleInitialEstimation
    <2>1. DataOfInput = <<STEREO_CLOUD, LEFT, RIGHT, MATCHES>>
      BY <1>2 DEF DataOfInput
    <2> QED BY <1>2, <2>1 DEF Data, Kinds
  <1> QED BY <1>1, <1>2

LEMMA RecorderFacts ==
    ASSUME RunInv
    PROVE  /\ RP!RecorderInv /\ aborted = FALSE
           /\ addingNewSequence = (pc = "correspond")
           /\ pc \notin {"store", "correspond"} => pending = <<>>
  BY DEF RunInv, RecorderPart, RP!RecorderInv, RP!RecorderTypes

LEMMA RecorderIdle ==
    ASSUME RunInv, UNCHANGED recorderVars, Frames' = Frames, ToAdd' = ToAdd,
           CanDiscard' => CanDiscard
    PROVE  RP!RecorderInv'
  <1>1. CanDiscard' \in BOOLEAN
    BY DEF CanDiscard
  <1>2. UNCHANGED RP!recorderVars
    BY RecorderCalls
  <1> QED BY <1>1, <1>2, RecorderFacts, RecorderAssumptions, RP!IdleKeepsInv

-----------------------------------------------------------------------------
(* The steps of run(). *)

LEMMA InitKeeps == Init => RunInv
  <1> SUFFICES ASSUME Init PROVE RunInv
    OBVIOUS
  <1>1. /\ HR!Init /\ RP!Init /\ currentInputNumber = 0 /\ firstTimeBundle = TRUE
        /\ pc = "idle" /\ pending = <<>> /\ pointCloudMap = <<>>
    BY HistoryCalls, RecorderCalls DEF Init
  <1>2. /\ HR!InUse /\ HR!NotInLoop /\ inputs = 0 /\ Ids = <<>>
        /\ HR!Filled(HR!AbstractQueue, 0, Data)
    BY <1>1, HistoryAssumptions, HR!InitIsUsed DEF Ids
  <1>3. HistoryPart
    BY <1>1, <1>2 DEF HistoryPart
  <1>4. BundlePart
    <2>1. Len(Ids) = 0
      BY <1>2, EmptySeq
    <2> QED BY <1>1, <1>2, <2>1, Constants DEF BundlePart, Running, Finished
  <1>5. MapPart
    <2>1. <<>> \in Seq(Clouds) /\ Len(<<>>) = 0
      BY EmptySeq
    <2> QED BY <1>1, <2>1 DEF MapPart, CloudsOf
  <1>6. RecorderPart
    <2>1. Frames = <<>> /\ ToAdd = <<>> /\ CanDiscard = FALSE
      BY <1>1, <1>2 DEF Frames, ToAdd, CanDiscard
    <2>2. RP!RecorderInv
      BY <1>1, <2>1, RecorderAssumptions, RP!NothingRecordedYet
    <2>3. addingNewSequence = FALSE
      BY <1>1 DEF RP!Init
    <2> QED BY <1>1, <2>2, <2>3 DEF RecorderPart
  <1> QED BY <1>1, <1>3, <1>4, <1>5, <1>6 DEF RunInv

LEMMA AddImagesKeeps == ASSUME RunInv, AddImages PROVE RunInv'
  <1> USE Constants
  <1>1. /\ pc = "idle" /\ pc' = "store" /\ pending' = DataOfInput
        /\ UNCHANGED <<recorderVars, currentInputNumber, firstTimeBundle, pointCloudMap>>
        /\ HR!AddImages
    BY HistoryCalls DEF AddImages
  <1>2. HistoryPart /\ BundlePart /\ MapPart /\ HR!InUse
    BY DEF RunInv, HistoryPart
  <1>3. HR!Filled(HR!AbstractQueue, 0, Data)
    BY <1>1, <1>2 DEF HistoryPart
  <1>4. /\ HR!InUse' /\ HR!NotInLoop' /\ inputs' = inputs + 1 /\ inputs' \in 1..MaxInputs
        /\ Ids' = HR!IdsWithNew(Ids, inputs')
        /\ HR!Filled(HR!AbstractQueue', 1, Data)
    BY <1>1, <1>2, <1>3, HistoryAssumptions, HR!CallAddImages DEF Ids
  <1>5. /\ Ids \in Seq(0..MaxInputs) /\ Len(Ids) \in 0..(M + 1) /\ inputs \in 0..MaxInputs
        /\ Ids \in Seq(Nat)
    BY <1>2, HeldFacts
  <1> DEFINE kept == IF Len(Ids) = M + 1 THEN M ELSE Len(Ids)
  <1>6. /\ Ids' # <<>> /\ Len(Ids') = kept + 1 /\ Ids'[1] = inputs'
        /\ \A k \in 1..kept : Ids'[k + 1] = Ids[k]
        /\ Tail(Ids') = SubSeq(Ids, 1, kept)
        /\ Len(Ids) # M + 1 => Tail(Ids') = Ids
    <2> DEFINE ids == Ids
               latest == inputs'
    <2>1. ids \in Seq(0..MaxInputs) /\ Len(ids) \in 0..(M + 1) /\ latest \in 0..MaxInputs
      BY <1>4, <1>5
    <2> HIDE DEF ids, latest
    <2>2. /\ HR!IdsWithNew(ids, latest) # <<>>
          /\ Len(HR!IdsWithNew(ids, latest)) = (IF Len(ids) = M + 1 THEN M ELSE Len(ids)) + 1
          /\ HR!IdsWithNew(ids, latest)[1] = latest
          /\ \A k \in 1..(IF Len(ids) = M + 1 THEN M ELSE Len(ids)) :
                HR!IdsWithNew(ids, latest)[k + 1] = ids[k]
          /\ Tail(HR!IdsWithNew(ids, latest))
                = SubSeq(ids, 1, IF Len(ids) = M + 1 THEN M ELSE Len(ids))
          /\ Len(ids) # M + 1 => Tail(HR!IdsWithNew(ids, latest)) = ids
      BY <2>1, NewIds
    <2> QED BY <1>4, <2>2 DEF ids, latest
  <1>7. HistoryPart'
    <2>1. ToStore' = Data /\ Data' = Data
      BY <1>1, DataFacts DEF ToStore, Data
    <2>2. HR!Filled(HR!AbstractQueue', 0, Data \ ToStore')
      BY <2>1 DEF HR!Filled
    <2>3. pending' \in Seq(Data) /\ Len(pending') <= 5
      <3>1. DataOfInput \in Seq(Data) /\ Len(DataOfInput) <= 5
        BY DataFacts
      <3> QED BY <1>1, <3>1
    <2> QED BY <1>1, <1>4, <2>1, <2>2, <2>3 DEF HistoryPart
  <1>8. BundlePart'
    <2>1. /\ currentInputNumber \in 0..inputs
          /\ firstTimeBundle => currentInputNumber = inputs
                                /\ Len(Ids) = IF inputs < M + 1 THEN inputs ELSE M + 1
          /\ ~firstTimeBundle => Len(Ids) >= M
          /\ firstTimeBundle \in BOOLEAN
      BY <1>1, <1>2 DEF BundlePart, Finished, Running
    <2>2. Finished' = inputs /\ Running'
      BY <1>1, <1>4, <1>5 DEF Finished, Running
    <2>3. firstTimeBundle => Len(Ids') = IF inputs' < M + 1 THEN inputs' ELSE M + 1
      BY <1>4, <1>5, <1>6, <2>1
    <2>4. ~firstTimeBundle => Len(Ids') = M + 1
      BY <1>5, <1>6, <2>1
    <2>5. pc' \notin {"remove", "discard"} /\ firstTimeBundle' = firstTimeBundle
          /\ currentInputNumber' = currentInputNumber
      BY <1>1
    <2>6. M' = M
      BY DEF M
    <2> HIDE DEF kept
    <2> QED BY <1>6, <2>1, <2>2, <2>3, <2>4, <2>5, <2>6 DEF BundlePart
  <1>9. MapPart'
    <2>1. Finished' = inputs /\ Running' /\ Finished = inputs /\ ~Running
      BY <1>1, <1>4, <1>5 DEF Finished, Running
    <2>2. /\ CloudsOf(pointCloudMap, inputs)
          /\ firstTimeBundle => pointCloudMap = <<>>
          /\ ~firstTimeBundle => Mapped(pointCloudMap, Ids, 0) /\ Len(Ids) >= M
      BY <1>2, <2>1 DEF MapPart, BundlePart
    <2>3. ASSUME ~firstTimeBundle PROVE Mapped(pointCloudMap, Ids', 1)
      <3>1. kept = M
        BY <1>5, <2>2, <2>3
      <3>2. \A k \in 1..M : Ids'[1 + k] = Ids[0 + k]
        BY <1>5, <1>6, <3>1
      <3> QED BY <2>2, <2>3, <3>2 DEF Mapped
    <2>4. pointCloudMap' = pointCloudMap /\ firstTimeBundle' = firstTimeBundle
      BY <1>1
    <2>5. CloudsOf(pointCloudMap, inputs)' <=> CloudsOf(pointCloudMap', inputs')
      OBVIOUS
    <2> QED BY <2>1, <2>2, <2>3, <2>4 DEF MapPart, CloudsOf, Mapped
  <1>10. RecorderPart'
    <2>1. ToAdd = <<>> /\ ToAdd' = <<>> /\ CanDiscard = FALSE /\ CanDiscard' = FALSE
          /\ Frames = Ids /\ Frames' = Tail(Ids')
      BY <1>1 DEF ToAdd, CanDiscard, Frames
    <2>2. RP!RecorderInv'
      <3>1. CASE Len(Ids) = M + 1
        <4>1. M \in RP!M..Len(Frames) /\ Frames' = SubSeq(Frames, 1, M)
          BY <1>5, <1>6, <2>1, <3>1
        <4>2. UNCHANGED RP!recorderVars
          BY <1>1, RecorderCalls
        <4>3. ~addingNewSequence /\ RP!RecorderInv
          BY <1>1, RecorderFacts
        <4>4. ToAdd' = ToAdd
          BY <2>1
        <4> QED BY <2>1, <4>1, <4>2, <4>3, <4>4, RecorderAssumptions, RP!DropKeepsInv
      <3>2. CASE Len(Ids) # M + 1
        <4>1. Frames' = Frames /\ ToAdd' = ToAdd /\ (CanDiscard' => CanDiscard)
          BY <1>6, <2>1, <3>2
        <4>2. UNCHANGED recorderVars
          BY <1>1
        <4> QED BY <4>1, <4>2, RecorderIdle
      <3> QED BY <3>1, <3>2
    <2>3. addingNewSequence' = FALSE
      BY <1>1, RecorderFacts DEF recorderVars
    <2> QED BY <1>1, <2>2, <2>3 DEF RecorderPart
  <1> QED BY <1>1, <1>7, <1>8, <1>9, <1>10 DEF RunInv

LEMMA StoreDataKeeps == ASSUME RunInv, StoreData PROVE RunInv'
  <1> USE Constants
  <1> DEFINE d == Head(pending)
             before == Data \ ToStore
             after == Data \ ToStore'
  <1>1. /\ pc = "store" /\ pc' = "store" /\ pending # <<>> /\ pending' = Tail(pending)
        /\ UNCHANGED <<recorderVars, currentInputNumber, firstTimeBundle, pointCloudMap>>
        /\ bundleHistory!AddData(d)
    BY DEF StoreData
  <1>2. /\ HR!InUse /\ HR!NotInLoop /\ HR!Filled(HR!AbstractQueue, 1, Data)
        /\ HR!Filled(HR!AbstractQueue, 0, before)
        /\ pending \in Seq(Data) /\ Len(pending) <= 5
        /\ BundlePart /\ MapPart
    BY <1>1 DEF RunInv, HistoryPart
  <1>3. /\ d \in Data /\ Tail(pending) \in Seq(Data) /\ Len(Tail(pending)) = Len(pending) - 1
        /\ Len(pending) \in Nat /\ Len(pending) >= 1
        /\ \A i \in 1..(Len(pending) - 1) : Tail(pending)[i] = pending[i + 1]
        /\ d = pending[1]
    <2> DEFINE p == pending
    <2>1. p \in Seq(Data) /\ p # <<>>
      BY <1>1, <1>2
    <2> HIDE DEF p
    <2>2. /\ Head(p) \in Data /\ Tail(p) \in Seq(Data) /\ Len(Tail(p)) = Len(p) - 1
          /\ Len(p) \in Nat /\ Len(p) >= 1 /\ Head(p) = p[1]
          /\ \A i \in 1..(Len(p) - 1) : Tail(p)[i] = p[i + 1]
      BY ONLY <2>1, HeadTailProperties, EmptySeq, LenProperties
    <2> QED BY <2>2 DEF p
  <1>4. after \subseteq before \cup {d}
    <2> DEFINE p == pending
               n == Len(pending)
    <2>1. n \in Nat /\ n >= 1 /\ \A i \in 1..(n - 1) : Tail(p)[i] = p[i + 1]
      BY <1>3
    <2>2. ToStore = {p[i] : i \in 1..n} /\ ToStore' = {Tail(p)[i] : i \in 1..(n - 1)}
      BY <1>1, <1>3 DEF ToStore
    <2>3. d = p[1]
      BY <1>3
    <2> HIDE DEF p, n, d
    <2>4. ASSUME NEW i \in 1..n PROVE p[i] \in ToStore' \cup {d}
      <3>1. CASE i = 1
        BY <2>3, <3>1
      <3>2. CASE i # 1
        <4> DEFINE j == i - 1
        <4>1. j \in 1..(n - 1) /\ i = j + 1
          BY ONLY <2>1, <2>4, <3>2
        <4>2. p[i] = Tail(p)[j]
          BY <2>1, <4>1
        <4> QED BY <2>2, <4>1, <4>2
      <3> QED BY <3>1, <3>2
    <2> QED BY <2>2, <2>4
  <1>5. /\ HR!InUse' /\ HR!NotInLoop' /\ inputs' = inputs /\ Ids' = Ids
        /\ HR!Filled(HR!AbstractQueue', 1, Data)
        /\ HR!Filled(HR!AbstractQueue', 0, before \cup {d})
    <2>1. d \in Kinds /\ before \subseteq Kinds /\ Data \subseteq Kinds
      BY <1>3, DataFacts
    <2>2. HR!AddData(d)
      BY <1>1, <2>1, HistoryCalls
    <2> DEFINE all == Data
    <2>3. d \in Kinds /\ d \in all /\ HR!InUse /\ HR!AddData(d)
          /\ HR!Filled(HR!AbstractQueue, 1, all) /\ HR!Filled(HR!AbstractQueue, 0, before)
      BY <1>2, <1>3, <2>1, <2>2
    <2> HIDE DEF d, before, all
    <2>4. /\ HR!InUse' /\ HR!NotInLoop' /\ inputs' = inputs /\ HR!Ids' = HR!Ids
          /\ HR!Filled(HR!AbstractQueue', 1, all)
          /\ HR!Filled(HR!AbstractQueue', 0, before \cup {d})
      BY ONLY <2>3, HistoryAssumptions, HR!CallAddData DEF Kinds
    <2> QED BY <2>4 DEF Ids, all
  <1>6. HR!Filled(HR!AbstractQueue', 0, after)
    <2> HIDE DEF after, before, d
    <2> QED BY <1>4, <1>5, FilledWithLess
  <1>7. HistoryPart'
    <2>1. Data' = Data
      BY DEF Data
    <2>2. pending' \in Seq(Data) /\ Len(pending') <= 5
      BY <1>1, <1>2, <1>3
    <2>3. HR!Filled(HR!AbstractQueue', 0, Data' \ ToStore')
      BY <1>6, <2>1
    <2> QED BY <1>1, <1>5, <2>1, <2>2, <2>3 DEF HistoryPart
  <1>8. BundlePart' /\ MapPart'
    <2>1. Finished' = Finished /\ (Running' <=> Running) /\ M' = M
      BY <1>1, <1>5 DEF Finished, Running, M
    <2> QED BY <1>1, <1>2, <1>5, <2>1 DEF BundlePart, MapPart, CloudsOf, Mapped, Clouds
  <1>9. RecorderPart'
    <2>1. Frames' = Frames /\ ToAdd' = ToAdd /\ (CanDiscard' => CanDiscard)
          /\ UNCHANGED recorderVars
      BY <1>1, <1>5 DEF Frames, ToAdd, CanDiscard
    <2>2. RP!RecorderInv'
      BY <2>1, RecorderIdle
    <2>3. addingNewSequence' = FALSE
      BY <1>1, RecorderFacts DEF recorderVars
    <2> QED BY <1>1, <2>2, <2>3 DEF RecorderPart
  <1> QED BY <1>1, <1>7, <1>8, <1>9 DEF RunInv

-----------------------------------------------------------------------------
(* What CreateWorkingCorrespondences reads and adds.                       *)

LEMMA SameMaps ==
    /\ \A pairs : RP!ImagesOfPairs(pairs) = ImagesOfPairs(pairs)
    /\ \A images, source : RP!MapsFrom(images, source) = MapsFrom(images, source)
    /\ \A images : RP!AllMaps(images) = AllMaps(images)
    /\ RP!Sides = Sides
  <1>1. \A pairs : RP!ImagesOfPairs(pairs) = ImagesOfPairs(pairs)
    BY DEF RP!ImagesOfPairs, ImagesOfPairs
  <1>2. \A images, source : RP!MapsFrom(images, source) = MapsFrom(images, source)
    BY DEF RP!MapsFrom, MapsFrom
  <1>3. \A images : RP!AllMaps(images) = AllMaps(images)
    BY DEF RP!AllMaps, AllMaps, RP!MapsFrom, MapsFrom, RP!FlattenSeq, FlattenSeq
  <1>4. RP!Sides = Sides
    BY DEF RP!Sides, Sides
  <1> QED BY <1>1, <1>2, <1>3, <1>4

\* The images of the latest inputs: k of them, two images each.
ImagesOf(ids) == RP!Images(ids)
CountOf(ids) == IF Len(ids) < M THEN Len(ids) ELSE M

HeldImages(ids, images, k) ==
    /\ k \in 0..M /\ k \in 0..Len(ids)
    /\ images \in Seq(Nat \X Sides) /\ Len(images) = 2 * k
    /\ \A b \in 0..(k - 1) : /\ images[2 * b + 1] = <<ids[b + 1], "left">>
                             /\ images[2 * b + 2] = <<ids[b + 1], "right">>

LEMMA ImagesAreHeld ==
    ASSUME NEW ids \in Seq(Nat)
    PROVE  HeldImages(ids, ImagesOf(ids), CountOf(ids))
  <1> USE Constants
  <1> DEFINE k == CountOf(ids)
             kept == RP!KeptOf(ids)
             images == ImagesOf(ids)
  <1>1. k = RP!KeptCount(ids)
    BY DEF RP!KeptCount, CountOf, RP!SmallerOf, RP!M
  <1>2. /\ Len(ids) \in Nat
        /\ k \in 0..Len(ids) /\ k \in 0..M
        /\ kept \in Seq(Nat) /\ Len(kept) = k
        /\ \A i \in 1..k : kept[i] = ids[i]
        /\ images = RP!ImagesOfPairs(kept)
    BY <1>1, RecorderAssumptions, RP!KeptFacts DEF ImagesOf
  <1>3. images = ImagesOfPairs(kept)
    BY <1>2, SameMaps
  <1> HIDE DEF k, kept, images
  <1>4. /\ ImagesOfPairs(kept) \in Seq(Nat \X Sides)
        /\ Len(ImagesOfPairs(kept)) = 2 * Len(kept)
        /\ \A i \in 1..(2 * Len(kept)) :
              ImagesOfPairs(kept)[i] = <<kept[(i + 1) \div 2],
                                         IF i % 2 = 1 THEN "left" ELSE "right">>
    BY <1>2, ImagesFacts
  <1>5. ASSUME NEW b \in 0..(k - 1)
        PROVE  /\ images[2 * b + 1] = <<ids[b + 1], "left">>
               /\ images[2 * b + 2] = <<ids[b + 1], "right">>
    <2> DEFINE i == 2 * b + 1
               j == 2 * b + 2
    <2>1. /\ k \in Nat /\ b \in Nat /\ b + 1 \in 1..k
          /\ i \in 1..(2 * k) /\ j \in 1..(2 * k)
          /\ (i + 1) \div 2 = b + 1 /\ (j + 1) \div 2 = b + 1
          /\ i % 2 = 1 /\ j % 2 # 1
      BY <1>2, <1>5
    <2> HIDE DEF i, j
    <2>2. images[i] = <<kept[b + 1], "left">> /\ images[j] = <<kept[b + 1], "right">>
      BY <1>2, <1>3, <1>4, <2>1
    <2>3. kept[b + 1] = ids[b + 1]
      BY <1>2, <2>1
    <2> QED BY <2>2, <2>3 DEF i, j
  <1>6. HeldImages(ids, images, k)
    <2>1. images \in Seq(Nat \X Sides) /\ Len(images) = 2 * k
      BY <1>2, <1>3, <1>4
    <2> QED BY <1>2, <1>5, <2>1 DEF HeldImages
  <1> QED BY <1>6 DEF k, images

\* The history answers with the inputs held.
Readable == HR!InUse /\ HR!NotInLoop /\ HR!Filled(HR!AbstractQueue, 0, Data)

LEMMA ReadsHeld ==
    ASSUME Readable
    PROVE  /\ \A k \in 1..Len(Ids) : Ids[k] \in 1..inputs
           /\ \A j, k \in 1..Len(Ids) : Ids[j] = Ids[k] => j = k
           /\ \A c \in Data \cup {bundleHistory!Image} : \A b \in 0..M :
                 GetData(c, b) = IF b < Len(Ids) THEN Ids[b + 1] ELSE 0
  <1>1. HR!InUse /\ HR!NotInLoop /\ HR!Filled(HR!AbstractQueue, 0, Data)
    BY DEF Readable
  <1>2. /\ \A k \in 1..Len(Ids) : Ids[k] \in 1..inputs
        /\ \A j, k \in 1..Len(Ids) : Ids[j] = Ids[k] => j = k
    BY <1>1, HistoryAssumptions, HR!IdsAreDistinct DEF Ids
  <1>3. \A c \in Data \cup {HR!Image} : \A b \in 0..M :
           HR!GetData(c, b) = IF b < Len(Ids) THEN Ids[b + 1] ELSE 0
    <2> DEFINE data == Data
    <2>1. data \in SUBSET Kinds
      BY DataFacts
    <2> HIDE DEF data
    <2>2. \A c \in data \cup {HR!Image}, b \in HR!Slots :
              HR!GetData(c, b) = IF b < Len(HR!Ids) THEN HR!Ids[b + 1] ELSE HR!NULL
      BY <1>1, <2>1, HistoryAssumptions, HR!GettersReadIds DEF Kinds, data
    <2> QED BY <2>2, Constants DEF data, Ids
  <1> QED BY <1>2, <1>3, HistoryReads

\* Both features of the inputs held, and of none before them, are there.
LEMMA ImagesAreRead ==
    ASSUME Readable, NEW k, NEW images, HeldImages(Ids, images, k)
    PROVE  \A b \in 0..(k - 1) : /\ LeftImage(b) = images[2 * b + 1]
                                 /\ RightImage(b) = images[2 * b + 2]
  <1> USE Constants
  <1>1. Len(Ids) \in Nat /\ k \in 0..M /\ k \in 0..Len(Ids)
    BY HeldFacts DEF HeldImages, Readable
  <1> SUFFICES ASSUME NEW b \in 0..(k - 1)
               PROVE  /\ LeftImage(b) = images[2 * b + 1]
                      /\ RightImage(b) = images[2 * b + 2]
    OBVIOUS
  <1>2. b \in 0..M /\ b < Len(Ids)
    BY <1>1
  <1>3. GetData(LEFT, b) = Ids[b + 1] /\ GetData(RIGHT, b) = Ids[b + 1]
    <2>1. LEFT \in Data \cup {bundleHistory!Image} /\ RIGHT \in Data \cup {bundleHistory!Image}
      BY DEF Data
    <2> QED BY <1>2, <2>1, ReadsHeld
  <1>4. /\ images[2 * b + 1] = <<Ids[b + 1], "left">>
        /\ images[2 * b + 2] = <<Ids[b + 1], "right">>
    BY DEF HeldImages
  <1> QED BY <1>3, <1>4 DEF LeftImage, RightImage

LEMMA PastPairsAreHeld ==
    ASSUME Readable, Ids # <<>>, NEW k, k = CountOf(Ids)
    PROVE  k \in 1..M /\ PastPairs = 1..(k - 1) /\ Cardinality(PastPairs) = k - 1
  <1> USE Constants
  <1> DEFINE n == Len(Ids)
  <1>1. n \in Nat /\ n >= 1 /\ k = IF n < M THEN n ELSE M
    BY HeldFacts, EmptySeq DEF Readable, CountOf
  <1>2. k \in 1..M /\ k \in 1..n
    BY <1>1
  <1>3. \A b \in 0..M : /\ GetData(LEFT, b) # 0 <=> b < n
                        /\ GetData(RIGHT, b) # 0 <=> b < n
    <2> SUFFICES ASSUME NEW b \in 0..M
                 PROVE  /\ GetData(LEFT, b) # 0 <=> b < n
                        /\ GetData(RIGHT, b) # 0 <=> b < n
      OBVIOUS
    <2>1. LEFT \in Data \cup {bundleHistory!Image} /\ RIGHT \in Data \cup {bundleHistory!Image}
      BY DEF Data
    <2>2. /\ GetData(LEFT, b) = IF b < n THEN Ids[b + 1] ELSE 0
          /\ GetData(RIGHT, b) = IF b < n THEN Ids[b + 1] ELSE 0
      BY <2>1, ReadsHeld
    <2>3. b < n => Ids[b + 1] # 0
      <3>1. SUFFICES ASSUME b < n PROVE Ids[b + 1] # 0
        OBVIOUS
      <3>2. b + 1 \in 1..Len(Ids)
        BY <1>1, <3>1
      <3>3. Ids[b + 1] \in 1..inputs /\ inputs \in Nat
        BY <3>2, ReadsHeld, HeldFacts DEF Readable
      <3> QED BY <3>3
    <2> QED BY <2>2, <2>3
  <1>4. PastPairs = 1..(k - 1)
    <2>0. PastPairs = {b \in 1..(M - 1) : \A step \in 1..b :
                          GetData(LEFT, step) # 0 /\ GetData(RIGHT, step) # 0}
      BY DEF PastPairs, M
    <2>1. ASSUME NEW b \in PastPairs PROVE b \in 1..(k - 1)
      <3>1. b \in 1..(M - 1) /\ b \in 1..b /\ b \in 0..M
        BY <2>0, <2>1
      <3>2. GetData(LEFT, b) # 0
        BY <2>0, <2>1, <3>1
      <3>3. b < n
        BY <1>3, <3>1, <3>2
      <3> HIDE DEF n
      <3> QED BY <1>1, <3>1, <3>3
    <2>2. ASSUME NEW b \in 1..(k - 1) PROVE b \in PastPairs
      <3>1. b \in 1..(M - 1)
        BY <1>2, <2>2
      <3>2. ASSUME NEW step \in 1..b PROVE GetData(LEFT, step) # 0 /\ GetData(RIGHT, step) # 0
        <4>1. step \in 0..M /\ step < n
          BY <1>1, <1>2, <2>2, <3>1, <3>2
        <4> QED BY <1>3, <4>1
      <3> QED BY <2>0, <3>1, <3>2
    <2> QED BY <2>1, <2>2
  <1>5. Cardinality(1..(k - 1)) = k - 1
    <2>1. 1 \in Int /\ k - 1 \in Int
      BY <1>2
    <2>2. Cardinality(1..(k - 1)) = IF 1 > k - 1 THEN 0 ELSE (k - 1) - 1 + 1
      BY <2>1, FS_Interval
    <2> HIDE DEF n
    <2> QED BY <1>2, <2>2
  <1> QED BY <1>2, <1>4, <1>5

\* The maps to the past pairs are those to the images from the third on.
LEMMA MapsToPastPairsHeld ==
    ASSUME Readable, Ids # <<>>, NEW k, NEW images, k = CountOf(Ids),
           HeldImages(Ids, images, k), NEW image
    PROVE  MapsToPastPairs(image) = [j \in 1..(2 * k - 2) |-> <<image, images[j + 2]>>]
  <1> USE Constants
  <1>1. k \in 1..M /\ Cardinality(PastPairs) = k - 1
    BY PastPairsAreHeld
  <1>2. \A b \in 0..(k - 1) : /\ LeftImage(b) = images[2 * b + 1]
                              /\ RightImage(b) = images[2 * b + 2]
    BY ImagesAreRead
  <1>3. 2 * Cardinality(PastPairs) = 2 * k - 2
    BY <1>1
  <1>4. ASSUME NEW j \in 1..(2 * k - 2)
        PROVE  (IF j % 2 = 1 THEN LeftImage((j + 1) \div 2) ELSE RightImage(j \div 2))
                   = images[j + 2]
    <2>1. CASE j % 2 = 1
      <3> DEFINE b == (j + 1) \div 2
      <3>1. b \in 0..(k - 1) /\ 2 * b = j + 1
        BY <1>1, <1>4, <2>1
      <3> HIDE DEF b
      <3>2. 2 * b + 1 = j + 2
        BY <1>1, <1>4, <3>1
      <3>3. LeftImage(b) = images[j + 2]
        BY <1>2, <3>1, <3>2
      <3> QED BY <2>1, <3>3 DEF b
    <2>2. CASE j % 2 # 1
      <3> DEFINE b == j \div 2
      <3>1. b \in 0..(k - 1) /\ 2 * b = j
        BY <1>1, <1>4, <2>2
      <3> HIDE DEF b
      <3>2. 2 * b + 2 = j + 2
        BY <1>1, <1>4, <3>1
      <3>3. RightImage(b) = images[j + 2]
        BY <1>2, <3>1, <3>2
      <3> QED BY <2>2, <3>3 DEF b
    <2> QED BY <2>1, <2>2
  <1> QED BY <1>3, <1>4 DEF MapsToPastPairs

\* The maps added for an input are those the protocol asks for.
LEMMA WorkingMapsAreTheProtocols ==
    ASSUME Readable, Ids # <<>>
    PROVE  WorkingCorrespondences = RP!MapsOfNewPair(Ids)
  <1> USE Constants
  <1> DEFINE k == CountOf(Ids)
             images == ImagesOf(Ids)
             first == MapsFrom(images, 1)
             second == MapsFrom(images, 2)
             rest == [j \in 1..(2 * k - 2) |-> <<images[1], images[j + 2]>>]
             match == <<images[1], images[2]>>
             I == Nat \X Sides
  <1>1. HeldImages(Ids, images, k) /\ k \in 1..M
    BY HeldFacts, ImagesAreHeld, PastPairsAreHeld DEF Readable
  <1>2. /\ images \in Seq(I) /\ Len(images) = 2 * k /\ k \in Nat /\ k >= 1
    BY <1>1 DEF HeldImages
  <1>3. /\ LeftImage(0) = images[1] /\ RightImage(0) = images[2]
    <2>1. 0 \in 0..(k - 1) /\ 2 * 0 + 1 = 1 /\ 2 * 0 + 2 = 2
      BY <1>2
    <2>2. LeftImage(0) = images[2 * 0 + 1] /\ RightImage(0) = images[2 * 0 + 2]
      <3> HIDE DEF k, images
      <3> QED BY <1>1, <2>1, ImagesAreRead
    <2> QED BY <2>1, <2>2
  <1>4. <<<<GetData(MATCHES, 0), "left">>, <<GetData(MATCHES, 0), "right">>>> = match
    <2>1. {MATCHES, LEFT, RIGHT} \subseteq Data \cup {bundleHistory!Image} /\ 0 \in 0..M
      BY DEF Data
    <2>2. GetData(MATCHES, 0) = GetData(LEFT, 0) /\ GetData(MATCHES, 0) = GetData(RIGHT, 0)
      BY <2>1, ReadsHeld
    <2> QED BY <1>3, <2>2 DEF LeftImage, RightImage
  <1>5. /\ MapsToPastPairs(LeftImage(0)) = rest
        /\ MapsToPastPairs(RightImage(0)) = [j \in 1..(2 * k - 2) |-> <<images[2], images[j + 2]>>]
    <2> DEFINE left == LeftImage(0)
               right == RightImage(0)
    <2>1. left = images[1] /\ right = images[2]
      BY <1>3
    <2> HIDE DEF k, images, left, right
    <2>2. /\ MapsToPastPairs(left) = [j \in 1..(2 * k - 2) |-> <<left, images[j + 2]>>]
          /\ MapsToPastPairs(right) = [j \in 1..(2 * k - 2) |-> <<right, images[j + 2]>>]
      BY <1>1, MapsToPastPairsHeld DEF k
    <2> QED BY <2>1, <2>2 DEF left, right
  <1>6. /\ second = [j \in 1..(2 * k - 2) |-> <<images[2], images[j + 2]>>]
        /\ first = [j \in 1..(2 * k - 1) |-> <<images[1], images[j + 1]>>]
    <2> HIDE DEF images, k
    <2>1. Len(images) - 2 = 2 * k - 2 /\ Len(images) - 1 = 2 * k - 1
      BY <1>2
    <2>2. \A j \in 1..(2 * k - 2) : 2 + j = j + 2
      BY <1>2
    <2>3. \A j \in 1..(2 * k - 1) : 1 + j = j + 1
      BY <1>2
    <2> QED BY <2>1, <2>2, <2>3 DEF MapsFrom
  <1>7. <<match>> \o rest = first
    <2> HIDE DEF images, k
    <2>1. /\ rest \in Seq(I \X I) /\ Len(rest) = 2 * k - 2
          /\ \A j \in 1..(2 * k - 2) : rest[j] = <<images[1], images[j + 2]>>
      <3>1. \A j \in 1..(2 * k) : images[j] \in I
        BY <1>2, ElementOfSeq
      <3>2. 1 \in 1..(2 * k) /\ \A j \in 1..(2 * k - 2) : j + 2 \in 1..(2 * k)
        BY <1>2
      <3>3. rest \in [1..(2 * k - 2) -> I \X I] /\ 2 * k - 2 \in Nat
        BY <1>2, <3>1, <3>2
      <3> HIDE DEF rest, I
      <3>4. rest \in Seq(I \X I) /\ Len(rest) = 2 * k - 2
        BY <3>3, FunctionIsSequence
      <3> QED BY <3>4 DEF rest
    <2>2. match \in I \X I
      <3>1. 1 \in 1..Len(images) /\ 2 \in 1..Len(images)
        BY <1>2
      <3> HIDE DEF I
      <3> QED BY <1>2, <3>1, ElementOfSeq
    <2> HIDE DEF rest, match, I
    <2>3. /\ <<match>> \o rest \in Seq(I \X I)
          /\ Len(<<match>> \o rest) = Len(rest) + 1
          /\ (<<match>> \o rest)[1] = match
          /\ \A j \in 1..Len(rest) : (<<match>> \o rest)[j + 1] = rest[j]
      BY <2>1, <2>2, ConsFacts
    <2> DEFINE joined == <<match>> \o rest
    <2>4. /\ joined \in Seq(I \X I) /\ Len(joined) = 2 * k - 1 /\ joined[1] = match
          /\ \A j \in 1..(2 * k - 2) : joined[j + 1] = rest[j]
      BY <1>2, <2>1, <2>3
    <2> HIDE DEF joined
    <2>5. ASSUME NEW j \in 1..(2 * k - 1) PROVE joined[j] = <<images[1], images[j + 1]>>
      <3>1. CASE j = 1
        BY <2>4, <3>1 DEF match
      <3>2. CASE j # 1
        <4> DEFINE i == j - 1
        <4>1. i \in 1..(2 * k - 2) /\ j = i + 1 /\ j + 1 = i + 2
          BY <1>2, <2>5, <3>2
        <4> HIDE DEF i
        <4> QED BY <2>1, <2>4, <4>1
      <3> QED BY <3>1, <3>2
    <2>6. joined = [j \in 1..(2 * k - 1) |-> <<images[1], images[j + 1]>>]
      <3>1. joined = [j \in 1..Len(joined) |-> joined[j]]
        BY <2>4, LenProperties
      <3> QED BY <2>4, <2>5, <3>1
    <2> QED BY <1>6, <2>6 DEF joined
  <1>8. WorkingCorrespondences = first \o second
    <2> HIDE DEF first, second, rest, match
    <2>1. <<match>> \o MapsToPastPairs(LeftImage(0)) = first
      BY <1>5, <1>7
    <2>2. MapsToPastPairs(RightImage(0)) = second
      BY <1>5, <1>6
    <2> QED BY <1>4, <2>1, <2>2 DEF WorkingCorrespondences
  <1>9. RP!MapsOfNewPair(Ids) = first \o second
    <2>1. RP!MapsOfNewPair(Ids) = RP!MapsFrom(images, 1) \o RP!MapsFrom(images, 2)
      BY DEF RP!MapsOfNewPair, ImagesOf
    <2> QED BY <2>1, SameMaps
  <1> QED BY <1>8, <1>9

-----------------------------------------------------------------------------
(* The steps that tell the recorder of an input.                           *)

LEMMA HistoryStays ==
    ASSUME RunInv, UNCHANGED historyVars
    PROVE  /\ HR!InUse' /\ HR!NotInLoop' = HR!NotInLoop /\ inputs' = inputs
           /\ HR!AbstractQueue' = HR!AbstractQueue /\ Ids' = Ids
  <1>1. UNCHANGED HR!vars
    BY HistoryCalls
  <1>2. HR!InUse
    BY DEF RunInv, HistoryPart
  <1> QED BY <1>1, <1>2, HistoryAssumptions, HR!NoCall DEF Ids

\* Every datum of the latest entry is stored once nothing is left to store.
LEMMA AllStored ==
    ASSUME RunInv, pc \in {"correspond", "adjust", "idle", "discard"} \/ pending = <<>>,
           pc # "remove"
    PROVE  Readable
  <1>1. CASE pc # "store"
    BY <1>1 DEF RunInv, HistoryPart, Readable
  <1>2. CASE pc = "store"
    <2>1. pending = <<>> /\ HR!Filled(HR!AbstractQueue, 0, Data \ ToStore)
      BY <1>2 DEF RunInv, HistoryPart
    <2>2. Len(pending) = 0
      BY <2>1, EmptySeq
    <2>3. ToStore = {}
      BY <2>2 DEF ToStore
    <2>4. Data \ ToStore = Data
      BY <2>3
    <2> QED BY <1>2, <2>1, <2>4 DEF RunInv, HistoryPart, Readable
  <1> QED BY <1>1, <1>2

\* A call of the recorder changes neither the history nor the map.
LEMMA HistoryIdle ==
    ASSUME RunInv, UNCHANGED historyVars, Readable,
           UNCHANGED <<currentInputNumber, firstTimeBundle, pointCloudMap>>,
           Running, Running', pc' # "store"
    PROVE  HistoryPart' /\ BundlePart' /\ MapPart'
  <1> USE Constants
  <1>1. /\ HR!InUse' /\ HR!NotInLoop' = HR!NotInLoop /\ inputs' = inputs
        /\ HR!AbstractQueue' = HR!AbstractQueue /\ Ids' = Ids
    BY HistoryStays
  <1>2. HistoryPart'
    <2>1. Data' = Data /\ pc' # "remove"
      BY DEF Data, Running
    <2>2. HR!Filled(HR!AbstractQueue', 0, Data')
      BY <1>1, <2>1 DEF Readable
    <2> QED BY <1>1, <2>1, <2>2 DEF HistoryPart, Readable
  <1>3. BundlePart' /\ MapPart'
    <2>1. Finished' = Finished /\ M' = M /\ pc' \notin {"remove", "discard"}
      BY <1>1 DEF Finished, Running, M
    <2>2. BundlePart /\ MapPart
      BY DEF RunInv
    <2> QED BY <1>1, <2>1, <2>2 DEF BundlePart, MapPart, CloudsOf, Mapped, Clouds
  <1> QED BY <1>2, <1>3

LEMMA InitializeNewSequenceKeeps == ASSUME RunInv, InitializeNewSequence PROVE RunInv'
  <1> USE Constants
  <1>1. /\ pc = "store" /\ pending = <<>>
        /\ RP!InitializeNewSequence
        /\ pc' = IF aborted' THEN "exited" ELSE "correspond"
        /\ pending' = WorkingCorrespondences
        /\ UNCHANGED <<historyVars, currentInputNumber, firstTimeBundle, pointCloudMap>>
    BY RecorderCalls DEF InitializeNewSequence
  <1>2. aborted = FALSE /\ addingNewSequence = FALSE /\ RP!RecorderInv
    BY <1>1, RecorderFacts
  <1>3. aborted' = FALSE /\ addingNewSequence' = TRUE
    BY <1>1, <1>2 DEF RP!InitializeNewSequence
  <1>4. pc' = "correspond"
    BY <1>1, <1>3
  <1>5. Ids' = Ids /\ Readable /\ HistoryPart' /\ BundlePart' /\ MapPart'
    <2>1. Readable
      BY <1>1, AllStored
    <2> QED BY <1>1, <1>4, <2>1, HistoryIdle, HistoryStays DEF Running
  <1>6. Ids # <<>> /\ Ids \in Seq(Nat)
    BY <1>1, HeldFacts DEF RunInv, BundlePart, Running, HistoryPart
  <1>7. WorkingCorrespondences = RP!MapsOfNewPair(Ids)
    BY <1>5, <1>6, WorkingMapsAreTheProtocols
  <1>8. RecorderPart'
    <2>1. /\ Frames = Tail(Ids) /\ Frames' = Ids
          /\ ToAdd' = RP!MapsOfNewPair(Ids) /\ CanDiscard' \in BOOLEAN
      BY <1>1, <1>4, <1>5, <1>7 DEF Frames, ToAdd, CanDiscard
    <2>2. RP!RecorderInv'
      <3>1. /\ Frames' \in Seq(Nat) /\ Frames' # <<>> /\ Tail(Frames') = Frames
            /\ ToAdd' = RP!MapsOfNewPair(Frames')
        BY <1>6, <2>1
      <3> QED BY <1>1, <1>2, <2>1, <3>1, RecorderAssumptions, RP!BeginKeepsInv
    <2> QED BY <1>3, <1>4, <2>2 DEF RecorderPart
  <1> QED BY <1>4, <1>5, <1>8 DEF RunInv

LEMMA AddCorrespondencesKeeps == ASSUME RunInv, AddCorrespondences PROVE RunInv'
  <1> USE Constants
  <1>1. /\ pc = "correspond" /\ pending # <<>>
        /\ RP!AddCorrespondences(Head(pending))
        /\ pc' = IF aborted' THEN "exited" ELSE pc
        /\ pending' = Tail(pending)
        /\ UNCHANGED <<historyVars, currentInputNumber, firstTimeBundle, pointCloudMap>>
    BY RecorderCalls DEF AddCorrespondences
  <1>2. aborted = FALSE /\ addingNewSequence = TRUE /\ RP!RecorderInv
    BY <1>1, RecorderFacts
  <1>3. ToAdd = pending /\ Frames = Ids
    BY <1>1 DEF ToAdd, Frames
  <1>4. aborted' = FALSE /\ addingNewSequence' = TRUE /\ pc' = "correspond"
    <2>1. RP!MapIsAccepted
      BY <1>1, <1>2, <1>3, RecorderAssumptions, RP!RoomForNextMap
    <2> QED BY <1>1, <1>2, <2>1 DEF RP!AddCorrespondences, RP!flagVars
  <1>5. Ids' = Ids /\ HistoryPart' /\ BundlePart' /\ MapPart'
    <2>1. Readable
      BY <1>1, AllStored
    <2> QED BY <1>1, <1>4, <2>1, HistoryIdle, HistoryStays DEF Running
  <1>6. RecorderPart'
    <2>1. /\ Frames' = Frames /\ ToAdd' = Tail(ToAdd) /\ CanDiscard' \in BOOLEAN
          /\ RP!AddCorrespondences(Head(ToAdd)) /\ ToAdd # <<>>
      BY <1>1, <1>3, <1>4, <1>5 DEF Frames, ToAdd, CanDiscard
    <2>2. RP!RecorderInv'
      BY <1>2, <2>1, RecorderAssumptions, RP!AddKeepsInv
    <2> QED BY <1>4, <2>2 DEF RecorderPart
  <1> QED BY <1>4, <1>5, <1>6 DEF RunInv

LEMMA CompleteNewSequenceKeeps == ASSUME RunInv, CompleteNewSequence PROVE RunInv'
  <1> USE Constants
  <1>1. /\ pc = "correspond" /\ pending = <<>>
        /\ RP!CompleteNewSequence
        /\ pc' = IF aborted' THEN "exited" ELSE "adjust"
        /\ UNCHANGED <<historyVars, currentInputNumber, firstTimeBundle, pending, pointCloudMap>>
    BY RecorderCalls DEF CompleteNewSequence
  <1>2. aborted = FALSE /\ addingNewSequence = TRUE /\ RP!RecorderInv
    BY <1>1, RecorderFacts
  <1>3. Ids' = Ids
    BY <1>1, HistoryStays
  <1>4. RP!RecorderInv'
    <2>1. /\ ToAdd = <<>> /\ ToAdd' = ToAdd /\ Frames' = Frames /\ CanDiscard' \in BOOLEAN
      BY <1>1, <1>3 DEF ToAdd, Frames, CanDiscard
    <2> QED BY <1>1, <1>2, <2>1, RecorderAssumptions, RP!EndKeepsInv
  <1>5. aborted' = FALSE /\ pc' = "adjust"
    BY <1>1, <1>4 DEF RP!RecorderInv, RP!RecorderTypes
  <1>6. addingNewSequence' = FALSE
    BY <1>5 , <1>1 DEF RP!CompleteNewSequence, RP!Abort
  <1>7. HistoryPart' /\ BundlePart' /\ MapPart'
    <2>1. Readable
      BY <1>1, AllStored
    <2> QED BY <1>1, <1>5, <2>1, HistoryIdle DEF Running
  <1>8. RecorderPart'
    BY <1>1, <1>4, <1>5, <1>6 DEF RecorderPart
  <1> QED BY <1>5, <1>7, <1>8 DEF RunInv

-----------------------------------------------------------------------------
(* The ends of run().                                                      *)

\* The inputs counted as seen grow by one when run() returns.
LEMMA BundleFacts ==
    ASSUME RunInv, pc \in {"adjust", "remove", "discard"}
    PROVE  /\ inputs \in 1..MaxInputs /\ inputs \in Nat /\ Len(Ids) \in 0..(M + 1)
           /\ Ids \in Seq(Nat) /\ Ids \in Seq(0..MaxInputs)
           /\ Finished = inputs - 1 /\ currentInputNumber \in 0..(inputs - 1)
           /\ firstTimeBundle \in BOOLEAN
           /\ CloudsOf(pointCloudMap, inputs - 1)
           /\ firstTimeBundle => currentInputNumber = inputs - 1
  <1> USE Constants
  <1>1. BundlePart /\ MapPart /\ HR!InUse
    BY DEF RunInv, HistoryPart
  <1>2. /\ inputs \in 0..MaxInputs /\ Len(Ids) \in 0..(M + 1)
        /\ Ids \in Seq(Nat) /\ Ids \in Seq(0..MaxInputs)
    BY <1>1, HeldFacts
  <1>3. Finished = inputs - 1
    BY DEF Finished
  <1>4. /\ currentInputNumber \in 0..(inputs - 1) /\ firstTimeBundle \in BOOLEAN
        /\ firstTimeBundle => currentInputNumber = inputs - 1
    BY <1>1, <1>3 DEF BundlePart
  <1>5. CloudsOf(pointCloudMap, inputs - 1)
    BY <1>1, <1>3 DEF MapPart
  <1> QED BY <1>2, <1>3, <1>4, <1>5

LEMMA MoreClouds ==
    ASSUME NEW map, NEW n \in Nat, CloudsOf(map, n - 1)
    PROVE  CloudsOf(map, n)
  BY DEF CloudsOf

\* run() returns with the history and the recorder as they are.
LEMMA ReturnKeeps ==
    ASSUME RunInv, pc = "adjust", pc' = "idle",
           UNCHANGED <<historyVars, recorderVars, pending>>
    PROVE  /\ HistoryPart' /\ RecorderPart' /\ Ids' = Ids /\ inputs' = inputs
           /\ Finished' = inputs /\ ~Running'
  <1>1. /\ HR!InUse' /\ HR!NotInLoop' = HR!NotInLoop /\ inputs' = inputs
        /\ HR!AbstractQueue' = HR!AbstractQueue /\ Ids' = Ids
    BY HistoryStays
  <1>2. HistoryPart'
    <2>1. Data' = Data
      BY DEF Data
    <2>2. Readable
      BY AllStored
    <2> QED BY <1>1, <2>1, <2>2 DEF HistoryPart, Readable
  <1>3. RecorderPart'
    <2>1. Frames' = Frames /\ ToAdd' = ToAdd /\ (CanDiscard' => CanDiscard)
          /\ UNCHANGED recorderVars
      BY <1>1 DEF Frames, ToAdd, CanDiscard
    <2>2. RP!RecorderInv'
      BY <2>1, RecorderIdle
    <2>3. addingNewSequence' = FALSE /\ pending' = <<>>
      BY RecorderFacts DEF recorderVars
    <2> QED BY <2>2, <2>3 DEF RecorderPart
  <1> QED BY <1>1, <1>2, <1>3 DEF Finished, Running

LEMMA FirstBundleFailsKeeps == ASSUME RunInv, FirstBundleFails PROVE RunInv'
  <1> USE Constants
  <1>1. /\ pc = "adjust" /\ pc' = "idle" /\ firstTimeBundle
        /\ currentInputNumber' = currentInputNumber + 1
        /\ UNCHANGED <<historyVars, recorderVars, firstTimeBundle, pending, pointCloudMap>>
    BY DEF FirstBundleFails
  <1>2. /\ HistoryPart' /\ RecorderPart' /\ Ids' = Ids /\ inputs' = inputs
        /\ Finished' = inputs /\ ~Running' /\ M' = M
    BY <1>1, ReturnKeeps DEF M
  <1>3. /\ inputs \in Nat /\ currentInputNumber = inputs - 1 /\ firstTimeBundle \in BOOLEAN
        /\ CloudsOf(pointCloudMap, inputs)
    BY <1>1, BundleFacts, MoreClouds
  <1>4. /\ pointCloudMap = <<>>
        /\ Len(Ids) = IF inputs < M + 1 THEN inputs ELSE M + 1
    BY <1>1 DEF RunInv, MapPart, BundlePart
  <1>5. BundlePart'
    BY <1>1, <1>2, <1>3, <1>4 DEF BundlePart
  <1>6. MapPart'
    BY <1>1, <1>2, <1>3, <1>4 DEF MapPart, CloudsOf, Clouds
  <1> QED BY <1>1, <1>2, <1>5, <1>6 DEF RunInv

\* What the adjusted bundle consists of.
LEMMA BundleIsHeld ==
    ASSUME RunInv, pc = "adjust", ~TooFewInputs
    PROVE  /\ M <= Len(Ids) /\ (~firstTimeBundle => Len(Ids) = M + 1)
           /\ Ids # <<>> /\ Ids[1] = inputs
           /\ \A b \in 0..M : \A c \in Data \cup {bundleHistory!Image} :
                 GetData(c, b) = IF b < Len(Ids) THEN Ids[b + 1] ELSE 0
           /\ \A k \in 1..Len(Ids) : Ids[k] \in 1..inputs
           /\ \A j, k \in 1..Len(Ids) : Ids[j] = Ids[k] => j = k
  <1> USE Constants
  <1>1. /\ \A k \in 1..Len(Ids) : Ids[k] \in 1..inputs
        /\ \A j, k \in 1..Len(Ids) : Ids[j] = Ids[k] => j = k
        /\ \A c \in Data \cup {bundleHistory!Image} : \A b \in 0..M :
              GetData(c, b) = IF b < Len(Ids) THEN Ids[b + 1] ELSE 0
    BY AllStored, ReadsHeld
  <1>2. /\ Ids # <<>> /\ Ids[1] = inputs
        /\ ~firstTimeBundle => Len(Ids) = M + 1
        /\ firstTimeBundle => Len(Ids) = IF inputs < M + 1 THEN inputs ELSE M + 1
    BY DEF RunInv, BundlePart, Running
  <1>3. M <= Len(Ids)
    <2>1. /\ inputs \in Nat /\ currentInputNumber \in 0..(inputs - 1)
          /\ Len(Ids) \in 0..(M + 1)
      BY BundleFacts
    <2>2. currentInputNumber + 1 >= M
      BY <2>1 DEF TooFewInputs, M
    <2> QED BY <1>2, <2>1, <2>2
  <1> QED BY <1>1, <1>2, <1>3

\* The clouds of the first bundle, one for each of the M latest inputs.
LEMMA AllCloudsAreMapped ==
    ASSUME RunInv, pc = "adjust", ~TooFewInputs, NEW map,
           map = [k \in 1..M |-> MappedCloud(k - 1, CameraOfPose(2 * (k - 1)))]
    PROVE  CloudsOf(map, inputs) /\ Mapped(map, Ids, 0)
  <1> USE Constants
  <1>1. /\ M <= Len(Ids) /\ Len(Ids) \in Nat
        /\ \A b \in 0..M : \A c \in Data \cup {bundleHistory!Image} :
              GetData(c, b) = IF b < Len(Ids) THEN Ids[b + 1] ELSE 0
        /\ \A k \in 1..Len(Ids) : Ids[k] \in 1..inputs
        /\ \A j, k \in 1..Len(Ids) : Ids[j] = Ids[k] => j = k
    BY BundleIsHeld, BundleFacts
  <1>2. inputs \in Nat /\ inputs \in 1..MaxInputs
    BY BundleFacts
  <1>3. ASSUME NEW k \in 1..M
        PROVE  /\ map[k].cloud = Ids[k] /\ k \in 1..Len(Ids)
               /\ map[k] \in Clouds
    <2> DEFINE b == k - 1
    <2>1. b \in 0..M /\ b < Len(Ids) /\ b + 1 = k /\ k \in 1..Len(Ids)
          /\ (2 * b) % 2 = 0 /\ (2 * b) \div 2 = b
      BY <1>1
    <2>2. {STEREO_CLOUD, LEFT} \subseteq Data \cup {bundleHistory!Image}
      BY DEF Data
    <2> HIDE DEF b
    <2>3. GetData(STEREO_CLOUD, b) = Ids[k] /\ GetData(LEFT, b) = Ids[k]
      BY <1>1, <2>1, <2>2
    <2>4. CameraOfPose(2 * b) = <<Ids[k], "left">>
      BY <2>1, <2>3 DEF CameraOfPose, LeftImage
    <2>5. map[k] = [cloud |-> Ids[k], camera |-> <<Ids[k], "left">>]
      BY <2>3, <2>4 DEF MappedCloud, b
    <2>6. Ids[k] \in 0..MaxInputs
      BY <1>1, <1>2, <2>1
    <2>7. [cloud |-> Ids[k], camera |-> <<Ids[k], "left">>] \in Clouds
      BY <2>6 DEF Clouds, Sides
    <2> QED BY <2>1, <2>5, <2>7
  <1>4. map \in Seq(Clouds) /\ Len(map) = M
    <2>1. map \in [1..M -> Clouds]
      BY <1>3
    <2> QED BY <2>1, FunctionIsSequence
  <1>5. CloudsOf(map, inputs)
    <2>1. \A k \in 1..M : map[k].cloud \in 1..inputs
      BY <1>1, <1>3
    <2>2. \A j, k \in 1..M : map[j].cloud = map[k].cloud => j = k
      BY <1>1, <1>3
    <2> QED BY <1>4, <2>1, <2>2 DEF CloudsOf
  <1>6. Mapped(map, Ids, 0)
    <2>1. \A k \in 1..M : k \in 1..Len(map) /\ map[k].cloud = Ids[0 + k]
      BY <1>3, <1>4
    <2> QED BY <2>1 DEF Mapped
  <1> QED BY <1>5, <1>6

\* A later bundle adds the cloud of the latest input.
LEMMA LastCloudIsMapped ==
    ASSUME RunInv, pc = "adjust", ~TooFewInputs, ~firstTimeBundle, NEW map,
           map = Append(pointCloudMap, MappedCloud(0, CameraOfPose(2)))
    PROVE  CloudsOf(map, inputs) /\ Mapped(map, Ids, 0)
  <1> USE Constants
  <1> DEFINE new == MappedCloud(0, CameraOfPose(2))
             old == pointCloudMap
             n == Len(pointCloudMap)
  <1>1. /\ Len(Ids) = M + 1 /\ Ids[1] = inputs
        /\ \A b \in 0..M : \A c \in Data \cup {bundleHistory!Image} :
              GetData(c, b) = IF b < Len(Ids) THEN Ids[b + 1] ELSE 0
        /\ \A k \in 1..Len(Ids) : Ids[k] \in 1..inputs
        /\ inputs \in Nat /\ inputs \in 1..MaxInputs
    BY BundleIsHeld, BundleFacts
  <1>2. new.cloud = inputs /\ new \in Clouds
    <2>1. {STEREO_CLOUD, LEFT} \subseteq Data \cup {bundleHistory!Image}
      BY DEF Data
    <2>2. 0 \in 0..M /\ 1 \in 0..M /\ 0 < Len(Ids) /\ 1 < Len(Ids)
          /\ 1 \in 1..Len(Ids) /\ 2 \in 1..Len(Ids) /\ 0 + 1 = 1 /\ 1 + 1 = 2
          /\ 2 % 2 = 0 /\ 2 \div 2 = 1
      BY <1>1
    <2>3. GetData(STEREO_CLOUD, 0) = Ids[1] /\ GetData(LEFT, 1) = Ids[2]
      BY <1>1, <2>1, <2>2
    <2>4. CameraOfPose(2) = <<Ids[2], "left">>
      BY <2>2, <2>3 DEF CameraOfPose, LeftImage
    <2>5. new = [cloud |-> inputs, camera |-> <<Ids[2], "left">>]
      BY <1>1, <2>3, <2>4 DEF MappedCloud
    <2>6. Ids[2] \in 0..MaxInputs /\ inputs \in 0..MaxInputs
      BY <1>1, <2>2
    <2> HIDE DEF new
    <2> QED BY <2>5, <2>6 DEF Clouds, Sides
  <1>3. /\ old \in Seq(Clouds) /\ n \in Nat
        /\ \A k \in 1..n : old[k].cloud \in 1..(inputs - 1)
        /\ \A j, k \in 1..n : old[j].cloud = old[k].cloud => j = k
    <2>1. CloudsOf(old, inputs - 1)
      BY BundleFacts
    <2> QED BY <2>1, LenProperties DEF CloudsOf
  <1>4. Mapped(old, Ids, 1)
    BY DEF RunInv, MapPart, Running
  <1>5. /\ map \in Seq(Clouds) /\ Len(map) = n + 1
        /\ \A k \in 1..n : map[k] = old[k]
        /\ map[n + 1] = new
    <2>1. map = Append(old, new)
      OBVIOUS
    <2> HIDE DEF new, old
    <2>2. /\ Append(old, new) \in Seq(Clouds) /\ Len(Append(old, new)) = Len(old) + 1
          /\ \A k \in 1..Len(old) : Append(old, new)[k] = old[k]
          /\ Append(old, new)[Len(old) + 1] = new
      BY <1>2, <1>3, AppendProperties
    <2> QED BY <2>1, <2>2 DEF old
  <1> HIDE DEF new, old, n
  <1>6. \A k \in 1..(n + 1) : /\ k \in 1..n => map[k].cloud = old[k].cloud
                              /\ k \notin 1..n => k = n + 1 /\ map[k].cloud = inputs
    BY <1>2, <1>3, <1>5
  <1>7. CloudsOf(map, inputs)
    <2>0. inputs \in 1..inputs /\ \A i \in 1..(inputs - 1) : i \in 1..inputs /\ i # inputs
      BY <1>1
    <2>1. ASSUME NEW k \in 1..(n + 1) PROVE map[k].cloud \in 1..inputs
      <3>1. CASE k \in 1..n
        BY <1>3, <1>6, <2>0, <3>1
      <3>2. CASE k \notin 1..n
        BY <1>6, <2>0, <3>2
      <3> QED BY <3>1, <3>2
    <2>2. ASSUME NEW j \in 1..(n + 1), NEW k \in 1..(n + 1), map[j].cloud = map[k].cloud
          PROVE  j = k
      <3>1. \A i \in 1..n : old[i].cloud # inputs
        BY <1>3, <2>0
      <3>2. CASE j \in 1..n /\ k \in 1..n
        <4>1. old[j].cloud = old[k].cloud
          BY <1>6, <2>2, <3>2
        <4> QED BY <1>3, <3>2, <4>1
      <3>3. CASE j \in 1..n /\ k \notin 1..n
        BY <1>6, <2>2, <3>1, <3>3
      <3>4. CASE j \notin 1..n /\ k \in 1..n
        BY <1>6, <2>2, <3>1, <3>4
      <3>5. CASE j \notin 1..n /\ k \notin 1..n
        BY <1>6, <3>5
      <3> QED BY <3>2, <3>3, <3>4, <3>5
    <2> QED BY <1>5, <2>1, <2>2 DEF CloudsOf
  <1>8. Mapped(map, Ids, 0)
    <2>1. ASSUME NEW k \in 1..M PROVE \E j \in 1..(n + 1) : map[j].cloud = Ids[0 + k]
      <3>1. CASE k = 1
        <4>1. n + 1 \in 1..(n + 1) /\ n + 1 \notin 1..n /\ 0 + k = 1
          BY <1>3, <3>1
        <4> QED BY <1>1, <1>6, <4>1
      <3>2. CASE k # 1
        <4> DEFINE i == k - 1
        <4>1. i \in 1..M /\ 1 + i = 0 + k
          BY <2>1, <3>2
        <4> HIDE DEF i
        <4>2. PICK j \in 1..n : old[j].cloud = Ids[1 + i]
          BY <1>4, <4>1 DEF Mapped, n, old
        <4>3. j \in 1..(n + 1)
          BY <1>3
        <4> QED BY <1>6, <4>1, <4>2, <4>3
      <3> QED BY <3>1, <3>2
    <2> QED BY <1>5, <2>1 DEF Mapped
  <1> QED BY <1>7, <1>8

LEMMA AdjustmentSucceedsKeeps == ASSUME RunInv, AdjustmentSucceeds PROVE RunInv'
  <1> USE Constants
  <1>1. /\ pc = "adjust" /\ pc' = "idle" /\ ~TooFewInputs
        /\ firstTimeBundle' = FALSE
        /\ currentInputNumber' = currentInputNumber + 1
        /\ UNCHANGED <<historyVars, recorderVars, pending>>
        /\ AddAllPointCloudsToMap \/ AddLastPointCloudToMap
    BY DEF AdjustmentSucceeds
  <1>2. /\ HistoryPart' /\ RecorderPart' /\ Ids' = Ids /\ inputs' = inputs
        /\ Finished' = inputs /\ ~Running' /\ M' = M
    BY <1>1, ReturnKeeps DEF M
  <1>3. CloudsOf(pointCloudMap', inputs) /\ Mapped(pointCloudMap', Ids, 0)
    <2>1. CASE AddAllPointCloudsToMap
      <3> DEFINE all == [k \in 1..M |-> MappedCloud(k - 1, CameraOfPose(2 * (k - 1)))]
      <3>1. pointCloudMap = <<>> /\ pointCloudMap' = pointCloudMap \o all
        BY <2>1 DEF AddAllPointCloudsToMap, RunInv, MapPart, M
      <3>2. CloudsOf(all, inputs) /\ Mapped(all, Ids, 0)
        <4> DEFINE map == all
        <4>1. map = [k \in 1..M |-> MappedCloud(k - 1, CameraOfPose(2 * (k - 1)))]
          OBVIOUS
        <4> HIDE DEF map
        <4>2. CloudsOf(map, inputs) /\ Mapped(map, Ids, 0)
          BY <1>1, <4>1, AllCloudsAreMapped
        <4> QED BY <4>2 DEF map
      <3> HIDE DEF all
      <3>3. pointCloudMap' = all
        <4>1. all \in Seq(Clouds)
          BY <3>2 DEF CloudsOf
        <4> QED BY <3>1, <4>1, ConcatEmptySeq
      <3> QED BY <3>2, <3>3
    <2>2. CASE AddLastPointCloudToMap
      <3> DEFINE map == Append(pointCloudMap, MappedCloud(0, CameraOfPose(2)))
      <3>1. ~firstTimeBundle /\ pointCloudMap' = map
        BY <2>2 DEF AddLastPointCloudToMap
      <3>2. map = Append(pointCloudMap, MappedCloud(0, CameraOfPose(2)))
        OBVIOUS
      <3> HIDE DEF map
      <3>3. CloudsOf(map, inputs) /\ Mapped(map, Ids, 0)
        BY <1>1, <3>1, <3>2, LastCloudIsMapped
      <3> QED BY <3>1, <3>3
    <2> QED BY <1>1, <2>1, <2>2
  <1>4. /\ inputs \in Nat /\ currentInputNumber \in 0..(inputs - 1)
        /\ M <= Len(Ids) /\ Len(Ids) \in Nat
    BY <1>1, BundleFacts, BundleIsHeld
  <1>5. BundlePart'
    <2>1. currentInputNumber' \in 0..inputs
      BY <1>1, <1>4
    <2>2. Len(Ids) >= M
      BY <1>4
    <2> QED BY <1>1, <1>2, <2>1, <2>2 DEF BundlePart
  <1>6. MapPart'
    BY <1>1, <1>2, <1>3 DEF MapPart, CloudsOf, Clouds, Mapped
  <1> QED BY <1>1, <1>2, <1>5, <1>6 DEF RunInv

LEMMA LaterBundleFailsKeeps == ASSUME RunInv, LaterBundleFails PROVE RunInv'
  <1> USE Constants
  <1>1. /\ pc = "adjust" /\ pc' = "remove" /\ ~firstTimeBundle
        /\ HR!RemoveEntry(0)
        /\ UNCHANGED <<recorderVars, currentInputNumber, firstTimeBundle, pending, pointCloudMap>>
    BY HistoryCalls DEF LaterBundleFails
  <1>2. /\ HR!InUse /\ HR!Filled(HR!AbstractQueue, 0, Data) /\ Len(Ids) = M + 1
        /\ Ids # <<>> /\ Ids[1] = inputs
        /\ Mapped(pointCloudMap, Ids, 1)
    BY <1>1 DEF RunInv, HistoryPart, BundlePart, MapPart, Running
  <1>3. /\ HR!InUse' /\ ~HR!NotInLoop' /\ inputs' = inputs /\ Ids' = Tail(Ids)
        /\ HR!Filled(HR!AbstractQueue', 0, Data)
    <2>1. Len(HR!Ids) >= 2
      BY <1>2 DEF Ids
    <2> DEFINE data == Data
    <2>2. HR!Filled(HR!AbstractQueue, 0, data)
      BY <1>2
    <2> HIDE DEF data
    <2>3. /\ HR!InUse' /\ ~HR!NotInLoop' /\ inputs' = inputs /\ HR!Ids' = Tail(HR!Ids)
          /\ HR!Filled(HR!AbstractQueue', 0, data)
      BY <1>1, <1>2, <2>1, <2>2, HistoryAssumptions, HR!CallRemoveLatest
    <2> QED BY <2>3 DEF Ids, data
  <1>4. /\ inputs \in 1..MaxInputs /\ inputs \in Nat /\ Ids \in Seq(Nat)
        /\ currentInputNumber \in 0..(inputs - 1) /\ firstTimeBundle \in BOOLEAN
        /\ CloudsOf(pointCloudMap, inputs - 1)
    BY <1>1, BundleFacts
  <1>5. Len(Ids') = M /\ \A k \in 1..M : Ids'[k] = Ids[1 + k]
    <2> DEFINE s == Ids
    <2>1. s \in Seq(Nat) /\ s # <<>> /\ Len(s) = M + 1
      BY <1>2, <1>4
    <2> HIDE DEF s
    <2>2. /\ Len(Tail(s)) = Len(s) - 1
          /\ \A k \in 1..(Len(s) - 1) : Tail(s)[k] = s[k + 1]
      BY <2>1, HeadTailProperties
    <2>3. Len(Tail(s)) = M /\ \A k \in 1..M : Tail(s)[k] = s[1 + k]
      BY <2>1, <2>2
    <2> QED BY <1>3, <2>3 DEF s
  <1>6. HistoryPart'
    <2>1. Data' = Data
      BY DEF Data
    <2> QED BY <1>1, <1>3, <2>1 DEF HistoryPart
  <1>7. Finished' = inputs - 1 /\ ~Running' /\ M' = M
    BY <1>1, <1>3 DEF Finished, Running, M
  <1>8. BundlePart'
    <2>1. Len(Ids') >= M
      BY <1>5
    <2> QED BY <1>1, <1>4, <1>7, <2>1 DEF BundlePart
  <1>9. MapPart'
    <2>1. Mapped(pointCloudMap, Ids', 0)
      <3>1. \A k \in 1..M : Ids'[0 + k] = Ids[1 + k]
        BY <1>5
      <3> QED BY <1>2, <3>1 DEF Mapped
    <2> QED BY <1>1, <1>4, <1>7, <2>1 DEF MapPart, CloudsOf, Clouds, Mapped
  <1>10. RecorderPart'
    <2>1. <<inputs>> \o Tail(Ids) = Ids
      <3> DEFINE s == Ids
      <3>1. s \in Seq(Nat) /\ s # <<>> /\ s[1] = inputs
        BY <1>2, <1>4
      <3> HIDE DEF s
      <3>2. <<s[1]>> \o Tail(s) = s
        BY <3>1, ConsOfHeadAndTail
      <3> QED BY <3>1, <3>2 DEF s
    <2>2. Frames = Ids /\ Frames' = Ids
      BY <1>1, <1>3, <2>1 DEF Frames
    <2>3. Frames' = Frames /\ ToAdd' = ToAdd /\ (CanDiscard' => CanDiscard)
          /\ UNCHANGED recorderVars
      BY <1>1, <2>2 DEF ToAdd, CanDiscard
    <2>4. RP!RecorderInv'
      BY <2>3, RecorderIdle
    <2>5. addingNewSequence' = FALSE /\ pending' = <<>>
      BY <1>1, RecorderFacts DEF recorderVars
    <2> QED BY <1>1, <2>4, <2>5 DEF RecorderPart
  <1> QED BY <1>1, <1>6, <1>8, <1>9, <1>10 DEF RunInv

LEMMA RemoveEntryLoopKeeps == ASSUME RunInv, RemoveEntryLoop PROVE RunInv'
  <1> USE Constants
  <1>1. /\ pc = "remove" /\ HR!RemovalLoop
        /\ pc' = IF removing' = bundleHistory!NO_RECENT_ENTRY THEN "discard" ELSE pc
        /\ UNCHANGED <<recorderVars, currentInputNumber, firstTimeBundle, pending, pointCloudMap>>
    BY HistoryCalls DEF RemoveEntryLoop
  <1>2. HR!InUse /\ HR!Filled(HR!AbstractQueue, 0, Data) /\ BundlePart /\ MapPart
    BY <1>1 DEF RunInv, HistoryPart
  <1>3. /\ HR!InUse' /\ inputs' = inputs /\ HR!AbstractQueue' = HR!AbstractQueue /\ Ids' = Ids
    BY <1>1, <1>2, HistoryAssumptions, HR!CallRemovalLoop DEF Ids
  <1>4. /\ pc' \in {"remove", "discard"}
        /\ HR!NotInLoop' <=> pc' # "remove"
    BY <1>1 DEF HR!NotInLoop, HR!NO_RECENT_ENTRY, bundleHistory!NO_RECENT_ENTRY
  <1>5. HistoryPart'
    <2>1. Data' = Data
      BY DEF Data
    <2> QED BY <1>2, <1>3, <1>4, <2>1 DEF HistoryPart
  <1>6. BundlePart' /\ MapPart'
    <2>1. Finished' = Finished /\ M' = M /\ ~Running /\ ~Running'
      BY <1>1, <1>3, <1>4 DEF Finished, Running, M
    <2> QED BY <1>1, <1>2, <1>3, <1>4, <2>1 DEF BundlePart, MapPart, CloudsOf, Mapped, Clouds
  <1>7. RecorderPart'
    <2>1. Frames' = Frames /\ ToAdd' = ToAdd /\ (CanDiscard' => CanDiscard)
          /\ UNCHANGED recorderVars
      BY <1>1, <1>3, <1>4 DEF Frames, ToAdd, CanDiscard
    <2>2. RP!RecorderInv'
      BY <2>1, RecorderIdle
    <2>3. addingNewSequence' = FALSE /\ pending' = <<>>
      BY <1>1, RecorderFacts DEF recorderVars
    <2> QED BY <1>4, <2>2, <2>3 DEF RecorderPart
  <1> QED BY <1>4, <1>5, <1>6, <1>7 DEF RunInv

LEMMA DiscardLatestCorrespondencesKeeps ==
    ASSUME RunInv, DiscardLatestCorrespondences PROVE RunInv'
  <1> USE Constants
  <1>1. /\ pc = "discard"
        /\ RP!DiscardLatestCorrespondences
        /\ pc' = IF aborted' THEN "exited" ELSE "idle"
        /\ UNCHANGED <<historyVars, currentInputNumber, firstTimeBundle, pending, pointCloudMap>>
    BY RecorderCalls DEF DiscardLatestCorrespondences
  <1>2. RP!RecorderInv /\ addingNewSequence = FALSE /\ pending = <<>>
    BY <1>1, RecorderFacts
  <1>3. /\ HR!InUse' /\ HR!NotInLoop' = HR!NotInLoop /\ inputs' = inputs
        /\ HR!AbstractQueue' = HR!AbstractQueue /\ Ids' = Ids
    BY <1>1, HistoryStays
  <1>4. /\ inputs \in 1..MaxInputs /\ inputs \in Nat /\ Ids \in Seq(Nat)
        /\ currentInputNumber \in 0..(inputs - 1) /\ firstTimeBundle \in BOOLEAN
        /\ CloudsOf(pointCloudMap, inputs)
    BY <1>1, BundleFacts, MoreClouds
  <1>5. RP!RecorderInv'
    <2>1. Tail(<<inputs>> \o Ids) = Ids
      <3> DEFINE s == Ids
      <3>1. s \in Seq(Nat) /\ inputs \in Nat
        BY <1>4
      <3> HIDE DEF s
      <3>2. Tail(<<inputs>> \o s) = s
        BY <3>1, ConsFacts
      <3> QED BY <3>2 DEF s
    <2>2. Frames = <<inputs>> \o Ids /\ Frames' = Ids
      BY <1>1, <1>3 DEF Frames
    <2>3. /\ Frames' = Tail(Frames) /\ ToAdd' = ToAdd /\ CanDiscard /\ CanDiscard' = FALSE
      BY <1>1, <2>1, <2>2 DEF ToAdd, CanDiscard
    <2> QED BY <1>1, <1>2, <2>3, RecorderAssumptions, RP!DiscardKeepsInv
  <1>6. aborted' = FALSE /\ pc' = "idle"
    BY <1>1, <1>5 DEF RP!RecorderInv, RP!RecorderTypes
  <1>7. HistoryPart'
    <2>1. Data' = Data
      BY DEF Data
    <2>2. Readable
      BY <1>1, AllStored
    <2> QED BY <1>3, <1>6, <2>1, <2>2 DEF HistoryPart, Readable
  <1>8. Finished' = inputs /\ ~Running' /\ ~Running /\ M' = M
    BY <1>1, <1>3, <1>6 DEF Finished, Running, M
  <1>9. ~firstTimeBundle /\ Len(Ids) >= M /\ Mapped(pointCloudMap, Ids, 0)
    BY <1>1, <1>8 DEF RunInv, BundlePart, MapPart
  <1>10. BundlePart'
    <2>1. currentInputNumber' \in 0..inputs
      BY <1>1, <1>4
    <2> QED BY <1>1, <1>3, <1>4, <1>8, <1>9, <2>1 DEF BundlePart
  <1>11. MapPart'
    BY <1>1, <1>3, <1>4, <1>8, <1>9 DEF MapPart, CloudsOf, Clouds, Mapped
  <1>12. RecorderPart'
    <2>1. addingNewSequence' = FALSE
      BY <1>1, <1>2 DEF RP!DiscardLatestCorrespondences, RP!Abort, RP!flagVars
    <2> QED BY <1>1, <1>2, <1>5, <1>6, <2>1 DEF RecorderPart
  <1> QED BY <1>6, <1>7, <1>10, <1>11, <1>12 DEF RunInv

LEMMA StutterKeeps == ASSUME RunInv, UNCHANGED vars PROVE RunInv'
  <1> USE Constants
  <1>1. UNCHANGED historyVars /\ UNCHANGED recorderVars
        /\ UNCHANGED <<currentInputNumber, firstTimeBundle, pc, pending, pointCloudMap>>
    BY DEF vars, runVars
  <1>2. /\ HR!InUse' /\ HR!NotInLoop' = HR!NotInLoop /\ inputs' = inputs
        /\ HR!AbstractQueue' = HR!AbstractQueue /\ Ids' = Ids
    BY <1>1, HistoryStays
  <1>3. HistoryPart'
    BY <1>1, <1>2 DEF RunInv, HistoryPart, Data, ToStore
  <1>4. BundlePart' /\ MapPart'
    <2>1. Finished' = Finished /\ M' = M /\ Running' = Running
      BY <1>1, <1>2 DEF Finished, Running, M
    <2> QED BY <1>1, <1>2, <2>1 DEF RunInv, BundlePart, MapPart, CloudsOf, Mapped, Clouds
  <1>5. RecorderPart'
    <2>1. Frames' = Frames /\ ToAdd' = ToAdd /\ (CanDiscard' => CanDiscard)
      BY <1>1, <1>2 DEF Frames, ToAdd, CanDiscard
    <2>2. RP!RecorderInv'
      BY <1>1, <2>1, RecorderIdle
    <2>3. addingNewSequence' = addingNewSequence
      BY <1>1 DEF recorderVars
    <2> QED BY <1>1, <2>2, <2>3 DEF RunInv, RecorderPart
  <1> QED BY <1>1, <1>3, <1>4, <1>5 DEF RunInv

LEMMA StepKeeps == RunInv /\ [Next]_vars => RunInv'
  <1> SUFFICES ASSUME RunInv, [Next]_vars PROVE RunInv'
    OBVIOUS
  <1>1. CASE AddImages
    BY <1>1, AddImagesKeeps
  <1>2. CASE StoreData
    BY <1>2, StoreDataKeeps
  <1>3. CASE InitializeNewSequence
    BY <1>3, InitializeNewSequenceKeeps
  <1>4. CASE AddCorrespondences
    BY <1>4, AddCorrespondencesKeeps
  <1>5. CASE CompleteNewSequence
    BY <1>5, CompleteNewSequenceKeeps
  <1>6. CASE AdjustmentSucceeds
    BY <1>6, AdjustmentSucceedsKeeps
  <1>7. CASE FirstBundleFails
    BY <1>7, FirstBundleFailsKeeps
  <1>8. CASE LaterBundleFails
    BY <1>8, LaterBundleFailsKeeps
  <1>9. CASE RemoveEntryLoop
    BY <1>9, RemoveEntryLoopKeeps
  <1>10. CASE DiscardLatestCorrespondences
    BY <1>10, DiscardLatestCorrespondencesKeeps
  <1>11. CASE UNCHANGED vars
    BY <1>11, StutterKeeps
  <1> QED
    BY <1>1, <1>2, <1>3, <1>4, <1>5, <1>6, <1>7, <1>8, <1>9, <1>10, <1>11 DEF Next, InsideRun

\* History, recorder, map and the count of inputs agree in every state that
\* run() goes through.
THEOREM RunInvariant == Spec => []RunInv
  BY InitKeeps, StepKeeps, PTL DEF Spec

-----------------------------------------------------------------------------
(* What follows.                                                           *)

LEMMA MapsStillToAdd ==
    ASSUME RP!RecorderInv, addingNewSequence, ToAdd = pending
    PROVE  Len(pending) <= 4 * M - 3 /\ Len(pending) \in Nat
  <1> USE Constants
  <1> DEFINE before == sequences[working]
             maps == RP!MapsOfNewPair(Frames)
  <1>1. /\ before \in Seq(RP!Maps) /\ pending \in Seq(RP!Maps)
        /\ before \o pending = maps
        /\ expectedMapsToAdd = Len(maps) /\ expectedMapsToAdd \in 0..(4 * M - 3)
    BY DEF RP!RecorderInv, RP!RecorderTypes, RP!InsideSequence
  <1>2. Len(before) \in Nat /\ Len(pending) \in Nat
    BY <1>1, LenProperties
  <1> HIDE DEF before, maps
  <1>3. Len(before \o pending) = Len(before) + Len(pending)
    BY <1>1, ConcatProperties
  <1> QED BY <1>1, <1>2, <1>3

\* The indices of the history stay in their ranges, at most the maps of one
\* input are still to be added, and the map holds clouds of inputs.
THEOREM TypesHold == Spec => []TypeOK
  <1>1. ASSUME RunInv PROVE TypeOK
    <2> USE Constants
    <2>1. HistoryPart /\ BundlePart /\ MapPart /\ HR!InUse
      BY <1>1 DEF RunInv, HistoryPart
    <2>2. bundleHistory!TypeOK
      BY <2>1, HistoryReads DEF HR!InUse, HR!IInv
    <2>3. inputs \in 0..MaxInputs /\ Finished \in Int /\ Finished <= MaxInputs
      BY <2>1, HeldFacts DEF Finished
    <2>4. currentInputNumber \in 0..MaxInputs /\ firstTimeBundle \in BOOLEAN
      BY <2>1, <2>3 DEF BundlePart
    <2>5. Len(pending) <= 4 * M + 1
      <3>1. CASE pc = "store"
        <4>1. pending \in Seq(Data) /\ Len(pending) <= 5
          BY <2>1, <3>1 DEF HistoryPart
        <4>2. Len(pending) \in Nat
          BY <4>1, LenProperties
        <4> QED BY <4>1, <4>2
      <3>2. CASE pc = "correspond"
        <4>1. ToAdd = pending
          BY <3>2 DEF ToAdd
        <4>2. Len(pending) <= 4 * M - 3 /\ Len(pending) \in Nat
          BY <1>1, <3>2, <4>1, RecorderFacts, MapsStillToAdd
        <4> QED BY <4>2
      <3>3. CASE pc \notin {"store", "correspond"}
        <4>1. Len(pending) = 0
          BY <1>1, <3>3, RecorderFacts, EmptySeq
        <4> QED BY <4>1
      <3> QED BY <3>1, <3>2, <3>3
    <2>6. \A k \in DOMAIN pointCloudMap : pointCloudMap[k].cloud \in 0..MaxInputs
      <3>1. /\ pointCloudMap \in Seq(Clouds)
            /\ \A k \in 1..Len(pointCloudMap) : pointCloudMap[k].cloud \in 1..Finished
        BY <2>1 DEF MapPart, CloudsOf
      <3>2. DOMAIN pointCloudMap = 1..Len(pointCloudMap)
        BY <3>1, LenProperties
      <3>3. 1..Finished \subseteq 0..MaxInputs
        BY <2>3
      <3> QED BY <3>1, <3>2, <3>3
    <2>7. pc \in {"idle", "store", "correspond", "adjust", "remove", "discard", "exited"}
      BY <1>1 DEF RunInv
    <2> QED BY <2>2, <2>4, <2>5, <2>6, <2>7 DEF TypeOK, M
  <1> QED BY <1>1, RunInvariant, PTL

\* For one to five pairs no ASSERT of the recorder fails and its storage of
\* maps is not overrun, whatever inputs the adjuster rejects.
THEOREM NoAssertEverFails == Spec => []NoAssertFails
  <1>1. ASSUME RunInv PROVE NoAssertFails
    BY <1>1, RecorderFacts DEF NoAssertFails
  <1> QED BY <1>1, RunInvariant, PTL

LEMMA KeptImagesAreHeld ==
    ASSUME Readable
    PROVE  KeptImages = ImagesOf(Ids)
  <1> USE Constants
  <1> DEFINE k == CountOf(Ids)
             kept == RP!KeptOf(Ids)
             data(b) == GetData(bundleHistory!Image, b)
             present == {b \in 0..(M - 1) : data(b) # NULL}
  <1>1. /\ Ids \in Seq(Nat) /\ Len(Ids) \in Nat /\ inputs \in Nat
    BY HeldFacts DEF Readable
  <1>2. k \in 0..M /\ k \in 0..Len(Ids) /\ k = IF Len(Ids) < M THEN Len(Ids) ELSE M
    BY <1>1 DEF CountOf
  <1>3. \A b \in 0..M : data(b) = IF b < Len(Ids) THEN Ids[b + 1] ELSE 0
    BY ReadsHeld
  <1>4. \A b \in 0..(M - 1) : data(b) # NULL <=> b < k
    <2> SUFFICES ASSUME NEW b \in 0..(M - 1) PROVE data(b) # NULL <=> b < k
      OBVIOUS
    <2>1. b < k <=> b < Len(Ids)
      BY <1>1, <1>2
    <2>2. b \in 0..M
      OBVIOUS
    <2>3. CASE b < Len(Ids)
      <3>1. b + 1 \in 1..Len(Ids)
        BY <1>1, <2>3
      <3>2. Ids[b + 1] \in 1..inputs
        BY <3>1, ReadsHeld
      <3>3. Ids[b + 1] # 0
        BY <1>1, <3>2
      <3> QED BY <1>3, <2>1, <2>2, <2>3, <3>3
    <2>4. CASE ~(b < Len(Ids))
      BY <1>3, <2>1, <2>2, <2>4
    <2> QED BY <2>3, <2>4
  <1>5. Cardinality(present) = k
    <2>1. present = 0..(k - 1)
      <3> HIDE DEF data, k
      <3>1. present = {b \in 0..(M - 1) : b < k}
        BY <1>4
      <3>2. {b \in 0..(M - 1) : b < k} = 0..(k - 1)
        BY <1>2
      <3> QED BY <3>1, <3>2
    <2>2. 0 \in Int /\ k - 1 \in Int
      BY <1>2
    <2>3. Cardinality(0..(k - 1)) = IF 0 > k - 1 THEN 0 ELSE (k - 1) - 0 + 1
      BY <2>2, FS_Interval
    <2> HIDE DEF present, k
    <2> QED BY <1>2, <2>1, <2>3
  <1>6. /\ kept \in Seq(Nat) /\ Len(kept) = k
        /\ \A i \in 1..k : kept[i] = Ids[i]
        /\ ImagesOf(Ids) = ImagesOfPairs(kept)
    <2>1. k = RP!KeptCount(Ids)
      BY DEF RP!KeptCount, CountOf, RP!SmallerOf, RP!M
    <2>2. /\ kept \in Seq(Nat) /\ Len(kept) = RP!KeptCount(Ids)
          /\ \A i \in 1..RP!KeptCount(Ids) : kept[i] = Ids[i]
          /\ ImagesOf(Ids) = RP!ImagesOfPairs(kept)
      BY <1>1, RecorderAssumptions, RP!KeptFacts DEF ImagesOf
    <2> HIDE DEF k, kept
    <2> QED BY <2>1, <2>2, SameMaps
  <1>7. [i \in 1..k |-> data(i - 1)] = kept
    <2>1. kept = [i \in 1..k |-> kept[i]]
      <3> HIDE DEF kept, k
      <3> QED BY <1>6, LenProperties
    <2>2. ASSUME NEW i \in 1..k PROVE data(i - 1) = kept[i]
      <3>1. i - 1 \in 0..M /\ i - 1 < Len(Ids) /\ (i - 1) + 1 = i
        BY <1>1, <1>2, <2>2
      <3>2. data(i - 1) = Ids[i]
        <4> DEFINE j == i - 1
        <4>1. j \in 0..M /\ j < Len(Ids) /\ j + 1 = i
          BY <3>1
        <4> HIDE DEF j, data
        <4>2. data(j) = Ids[j + 1]
          BY <1>3, <4>1
        <4> QED BY <4>1, <4>2 DEF j
      <3> QED BY <1>6, <2>2, <3>2
    <2> QED BY <2>1, <2>2
  <1>8. KeptImages = ImagesOfPairs([i \in 1..Cardinality(present) |-> data(i - 1)])
    BY DEF KeptImages, M
  <1> QED BY <1>5, <1>6, <1>7, <1>8

\* What the adjuster gets are the maps between the images the history holds.
LEMMA LatestAreHeld ==
    ASSUME RunInv, pc \in {"adjust", "idle"}
    PROVE  /\ Readable
           /\ recorder!GetLatestCorrespondences = AllMaps(ImagesOf(Ids))
  <1>1. RP!RecorderInv /\ ~addingNewSequence
    BY RecorderFacts
  <1>2. RP!GetLatestCorrespondences = RP!MapsOf(Frames)
    BY <1>1, RecorderAssumptions, RP!LatestIsAsked
  <1>3. Frames = Ids
    BY DEF Frames
  <1>4. RP!MapsOf(Ids) = AllMaps(ImagesOf(Ids))
    BY SameMaps DEF RP!MapsOf, ImagesOf
  <1> QED BY <1>2, <1>3, <1>4, RecorderCalls, AllStored

\* History and recorder forget the same inputs, however many are rejected.
THEOREM RecorderAgrees == Spec => []RecorderAgreesWithHistory
  <1>1. ASSUME RunInv PROVE RecorderAgreesWithHistory
    <2> SUFFICES ASSUME pc \in {"adjust", "idle"}
                 PROVE  recorder!GetLatestCorrespondences = AllMaps(KeptImages)
      BY DEF RecorderAgreesWithHistory
    <2> QED BY <1>1, LatestAreHeld, KeptImagesAreHeld
  <1> QED BY <1>1, RunInvariant, PTL

\* Filter never reads behind the maps of the sequence it is given.
THEOREM FilterReadsEnough == Spec => []FilterReadsStoredMaps
  <1>1. ASSUME RunInv PROVE FilterReadsStoredMaps
    <2> USE Constants
    <2> SUFFICES ASSUME pc = "adjust", ~TooFewInputs
                 PROVE  recorder!MapsReadByFilter <= Len(recorder!GetLatestCorrespondences)
      BY DEF FilterReadsStoredMaps
    <2> DEFINE maps == recorder!GetLatestCorrespondences
               images == ImagesOf(Ids)
    <2>1. maps = AllMaps(images)
      BY <1>1, LatestAreHeld
    <2>2. Ids \in Seq(Nat) /\ Len(Ids) \in Nat /\ M <= Len(Ids)
      BY <1>1, BundleFacts, BundleIsHeld
    <2>3. CountOf(Ids) = M
      BY <2>2 DEF CountOf
    <2>4. images \in Seq(Nat \X Sides) /\ Len(images) = 2 * M
      <3>1. HeldImages(Ids, images, M)
        BY <2>2, <2>3, ImagesAreHeld
      <3> QED BY <3>1 DEF HeldImages
    <2>5. Len(AllMaps(images)) = M * (2 * M - 1)
      <3> DEFINE I == Nat \X Sides
      <3>1. images \in Seq(I) /\ M \in Nat
        BY <2>4
      <3> HIDE DEF I, images
      <3> QED BY <2>4, <3>1, AllMapsLength
    <2>6. recorder!MapsReadByFilter \in {0, M * (2 * M - 1)}
      BY DEF recorder!MapsReadByFilter, M
    <2>7. M * (2 * M - 1) \in Nat
      <3>1. 2 * M - 1 \in Nat
        OBVIOUS
      <3> QED BY <3>1
    <2> HIDE DEF maps, images
    <2>8. Len(maps) = M * (2 * M - 1)
      BY <2>1, <2>5
    <2> QED BY <2>6, <2>7, <2>8 DEF maps
  <1> QED BY <1>1, RunInvariant, PTL

\* The pointers that are dereferenced for an adjusted bundle are not NULL.
THEOREM DereferencedExists == Spec => []DereferencedDataExists
  <1>1. ASSUME RunInv PROVE DereferencedDataExists
    <2> USE Constants
    <2> SUFFICES ASSUME pc = "adjust", ~TooFewInputs PROVE DereferencedDataExists
      BY DEF DereferencedDataExists
    <2>1. /\ M <= Len(Ids) /\ Len(Ids) \in Nat /\ inputs \in Nat
          /\ \A b \in 0..M : \A c \in Data \cup {bundleHistory!Image} :
                GetData(c, b) = IF b < Len(Ids) THEN Ids[b + 1] ELSE 0
          /\ \A k \in 1..Len(Ids) : Ids[k] \in 1..inputs
      BY <1>1, BundleIsHeld, BundleFacts
    <2>2. ASSUME NEW b \in 0..(M - 1), NEW c \in Data PROVE GetData(c, b) # NULL
      <3>1. b \in 0..M /\ b < Len(Ids) /\ b + 1 \in 1..Len(Ids)
        BY <2>1, <2>2
      <3>2. GetData(c, b) = Ids[b + 1] /\ Ids[b + 1] \in 1..inputs
        BY <2>1, <2>2, <3>1
      <3> QED BY <2>1, <3>2
    <2>3. \A b \in 0..(M - 1) : GetData(STEREO_CLOUD, b) # NULL
      BY <2>2 DEF Data
    <2>4. ASSUME useBundleInitialEstimation
          PROVE  \A b \in 0..(M - 1) : GetData(TRIANGULATION_CLOUD, b) # NULL
                                       /\ GetData(MATCHES, b) # NULL
      BY <2>2, <2>4 DEF Data
    <2>5. 0 \in 0..(M - 1) /\ \A b \in 1..(M - 1) : b \in 0..(M - 1)
      OBVIOUS
    <2> QED BY <2>3, <2>4, <2>5 DEF DereferencedDataExists, M
  <1> QED BY <1>1, RunInvariant, PTL

\* Between two runs each input of the bundle is in the map, none twice.
THEOREM MapHoldsBundle == Spec => []MapHoldsTheBundleOnce
  <1>1. ASSUME RunInv PROVE MapHoldsTheBundleOnce
    <2> USE Constants
    <2> SUFFICES ASSUME pc = "idle", ~firstTimeBundle PROVE MapHoldsTheBundleOnce
      BY DEF MapHoldsTheBundleOnce
    <2>1. /\ CloudsOf(pointCloudMap, Finished) /\ Mapped(pointCloudMap, Ids, 0)
          /\ Len(Ids) >= M /\ HR!InUse
      BY <1>1 DEF RunInv, MapPart, BundlePart, HistoryPart, Running
    <2>2. DOMAIN pointCloudMap = 1..Len(pointCloudMap)
      BY <2>1, LenProperties DEF CloudsOf
    <2>3. \A j, k \in DOMAIN pointCloudMap :
             pointCloudMap[j].cloud = pointCloudMap[k].cloud => j = k
      BY <2>1, <2>2 DEF CloudsOf
    <2>4. ASSUME NEW b \in 0..(M - 1)
          PROVE  \E k \in DOMAIN pointCloudMap :
                     pointCloudMap[k].cloud = GetData(bundleHistory!Image, b)
      <3> DEFINE i == b + 1
      <3>1. Readable /\ Len(Ids) \in Nat
        BY <1>1, <2>1, AllStored, HeldFacts
      <3>2. b \in 0..M /\ b < Len(Ids) /\ i \in 1..M /\ 0 + i = b + 1
        BY <2>1, <3>1
      <3>3. GetData(bundleHistory!Image, b) = Ids[b + 1]
        BY <3>1, <3>2, ReadsHeld
      <3> HIDE DEF i
      <3>4. \E k \in 1..Len(pointCloudMap) : pointCloudMap[k].cloud = Ids[0 + i]
        BY <2>1, <3>2 DEF Mapped
      <3> QED BY <2>2, <3>2, <3>3, <3>4
    <2> QED BY <2>3, <2>4 DEF MapHoldsTheBundleOnce, M
  <1> QED BY <1>1, RunInvariant, PTL
=============================================================================
