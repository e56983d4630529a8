--------------------- MODULE EstimationFromStereo_proofs ---------------------
(***************************************************************************)
(* Why history, recorder and map of EstimationFromStereo agree.  The       *)
(* history is used through what BundleHistory_refinement says of a queue.  *)
(* What the recorder stores is known for up to three pairs: from the       *)
(* fourth on it keeps maps of the wrong pairs, and only their first ones,  *)
(* those of the new pair, are what the estimator expects.                  *)
(***************************************************************************)
EXTENDS EstimationFromStereo, CorrespondenceSequences_proofs, FiniteSetTheorems

M == numberOfAdjustedStereoPairs
Data == {LEFT, RIGHT, STEREO_CLOUD, TRIANGULATION_CLOUD, MATCHES}

HR == INSTANCE BundleHistory_refinement WITH
    Size <- numberOfAdjustedStereoPairs + 1,
    Categories <- {LEFT, RIGHT, STEREO_CLOUD, TRIANGULATION_CLOUD, MATCHES}

\* The inputs in the history, latest first.
Ids == HR!Ids

\* The pairs the recorder knows of: not yet the one whose data are being
\* stored, and still the one that was just removed from the history.
Frames == IF pc = "store" THEN Tail(Ids)
          ELSE IF pc \in {"remove", "discard"} THEN <<inputs>> \o Ids
          ELSE Ids

ToAdd == IF pc = "correspond" THEN pending ELSE <<>>
CanDiscard == pc \in {"estimate", "remove", "discard"}

LEMMA HistoryAssumptions == HR!SizeAssumption /\ HR!CategoriesAssumption /\ HR!MaxInputsAssumption
  BY PairsAssumption, InputsAssumption
     DEF HR!SizeAssumption, HR!CategoriesAssumption, HR!MaxInputsAssumption, HR!Image,
         HR!Features3d, LEFT, RIGHT, STEREO_CLOUD, TRIANGULATION_CLOUD, MATCHES

LEMMA Constants ==
    /\ M \in Nat /\ M >= 1 /\ M <= 5 /\ MaxInputs \in Nat
    /\ HR!Slots = 0..M /\ HR!Payloads = 0..MaxInputs
    /\ HR!NULL = 0 /\ NULL = 0
  BY PairsAssumption, InputsAssumption
     DEF M, HR!Slots, HR!Payloads, HR!NULL, NULL, bundleHistory!NULL

-----------------------------------------------------------------------------
(* The history of the model is the one the lemmas are about.               *)

LEMMA HistoryCalls ==
    /\ bundleHistory!Init => HR!Init
    /\ bundleHistory!AddImages => HR!AddImages
    /\ \A d \in Data : bundleHistory!AddData(d) => HR!AddData(d)
    /\ bundleHistory!RemoveEntry(0) => HR!RemoveEntry(0)
    /\ bundleHistory!RemovalLoop => HR!RemovalLoop
    /\ UNCHANGED historyVars => UNCHANGED HR!vars
  <1>1. bundleHistory!Init => HR!Init
    BY DEF HR!Init, bundleHistory!Init, HR!Slots, bundleHistory!Slots,
           HR!AllLists, bundleHistory!AllLists, HR!Deleted, bundleHistory!Deleted,
           HR!Image, bundleHistory!Image, HR!Features3d, bundleHistory!Features3d,
           HR!NULL, bundleHistory!NULL, HR!NO_RECENT_ENTRY, bundleHistory!NO_RECENT_ENTRY
  <1>2. bundleHistory!AddImages => HR!AddImages
    BY DEF HR!AddImages, bundleHistory!AddImages, HR!Ready, bundleHistory!Ready,
           HR!ReplaceOldestImages, bundleHistory!ReplaceOldestImages,
           HR!AppendImages, bundleHistory!AppendImages, HR!IsFull, bundleHistory!IsFull,
           HR!ListsWithoutDataAt, bundleHistory!ListsWithoutDataAt,
           HR!HeapWithoutDataAt, bundleHistory!HeapWithoutDataAt,
           HR!AllLists, bundleHistory!AllLists, HR!Deleted, bundleHistory!Deleted,
           HR!Image, bundleHistory!Image, HR!Features3d, bundleHistory!Features3d,
           HR!NULL, bundleHistory!NULL, HR!NO_RECENT_ENTRY, bundleHistory!NO_RECENT_ENTRY
  <1>3. ASSUME NEW d \in Data PROVE bundleHistory!AddData(d) => HR!AddData(d)
    BY DEF HR!AddData, bundleHistory!AddData, HR!Ready, bundleHistory!Ready,
           HR!Image, bundleHistory!Image, HR!NO_RECENT_ENTRY, bundleHistory!NO_RECENT_ENTRY
  <1>4. bundleHistory!RemoveEntry(0) => HR!RemoveEntry(0)
    BY DEF HR!RemoveEntry, bundleHistory!RemoveEntry, HR!Ready, bundleHistory!Ready,
           HR!BackwardStepsToIndex, bundleHistory!BackwardStepsToIndex,
           HR!DropOldestIndex, bundleHistory!DropOldestIndex, HR!queueVars, bundleHistory!queueVars,
           HR!ListsWithoutDataAt, bundleHistory!ListsWithoutDataAt,
           HR!HeapWithoutDataAt, bundleHistory!HeapWithoutDataAt,
           HR!AllLists, bundleHistory!AllLists, HR!Deleted, bundleHistory!Deleted,
           HR!Image, bundleHistory!Image, HR!Features3d, bundleHistory!Features3d,
           HR!NULL, bundleHistory!NULL, HR!NO_RECENT_ENTRY, bundleHistory!NO_RECENT_ENTRY
  <1>5. bundleHistory!RemovalLoop => HR!RemovalLoop
    BY DEF HR!RemovalLoop, bundleHistory!RemovalLoop, HR!ShiftEntry, bundleHistory!ShiftEntry,
           HR!FinishRemoval, bundleHistory!FinishRemoval,
           HR!ListsWithoutDataAt, bundleHistory!ListsWithoutDataAt,
           HR!AllLists, bundleHistory!AllLists, HR!Deleted, bundleHistory!Deleted,
           HR!Image, bundleHistory!Image, HR!Features3d, bundleHistory!Features3d,
           HR!NULL, bundleHistory!NULL, HR!NO_RECENT_ENTRY, bundleHistory!NO_RECENT_ENTRY
  <1>6. UNCHANGED historyVars => UNCHANGED HR!vars
    BY DEF historyVars, HR!vars
  <1> QED BY <1>1, <1>2, <1>3, <1>4, <1>5, <1>6

LEMMA HistoryReads ==
    /\ \A c, b : GetData(c, b) = HR!GetData(c, b)
    /\ bundleHistory!Image = HR!Image
    /\ HR!TypeOK => bundleHistory!TypeOK
  <1>1. \A c, b : GetData(c, b) = HR!GetData(c, b)
    BY DEF GetData, HR!GetData, bundleHistory!GetData, HR!BackwardStepsToIndex,
           bundleHistory!BackwardStepsToIndex, HR!NULL, bundleHistory!NULL,
           HR!NO_RECENT_ENTRY, bundleHistory!NO_RECENT_ENTRY
  <1>2. bundleHistory!Image = HR!Image
    BY DEF HR!Image, bundleHistory!Image
  <1>3. HR!TypeOK => bundleHistory!TypeOK
    BY DEF HR!TypeOK, HR!Slots, HR!Payloads, HR!AllLists, HR!Deleted, HR!Image, HR!Features3d,
           HR!NO_RECENT_ENTRY, bundleHistory!TypeOK, bundleHistory!Slots, bundleHistory!Payloads,
           bundleHistory!AllLists, bundleHistory!Deleted, bundleHistory!Image,
           bundleHistory!Features3d, bundleHistory!NO_RECENT_ENTRY
  <1> QED BY <1>1, <1>2, <1>3

-----------------------------------------------------------------------------
(* The inputs held. *)

LEMMA NewIds ==
    ASSUME NEW ids \in Seq(0..MaxInputs), Len(ids) \in 0..(M + 1), NEW id \in 0..MaxInputs
    PROVE  LET new == HR!IdsWithNew(ids, id)
               kept == IF Len(ids) = M + 1 THEN M ELSE Len(ids)
           IN  /\ new \in Seq(0..MaxInputs) /\ new # <<>>
               /\ Len(new) = kept + 1
               /\ new[1] = id
               /\ \A k \in 1..kept : new[k + 1] = ids[k]
               /\ Tail(new) = SubSeq(ids, 1, kept)
               /\ Len(ids) # M + 1 => Tail(new) = ids
  <1> DEFINE S == 0..MaxInputs
             n == Len(ids)
             kept == IF n = M + 1 THEN M ELSE n
             rest == IF n = M + 1 THEN SubSeq(ids, 1, M) ELSE ids
             new == HR!IdsWithNew(ids, id)
  <1>1. M \in Nat /\ n \in 0..(M + 1) /\ kept \in 0..n /\ n \in Nat
    BY Constants
  <1>2. new = <<id>> \o rest
    <2>1. (M + 1) - 1 = M
      BY <1>1
    <2> QED BY <2>1 DEF HR!IdsWithNew, M
  <1>3. /\ SubSeq(ids, 1, kept) \in Seq(S) /\ Len(SubSeq(ids, 1, kept)) = kept
        /\ \A k \in 1..kept : SubSeq(ids, 1, kept)[k] = ids[k]
    <2> HIDE DEF S, kept
    <2> QED BY <1>1, FirstFacts DEF S
  <1>4. rest = SubSeq(ids, 1, kept)
    <2>1. CASE n = M + 1
      BY <2>1
    <2>2. CASE n # M + 1
      <3>1. kept = n /\ rest = ids
        BY <2>2
      <3> HIDE DEF kept, rest
      <3>2. SubSeq(ids, 1, kept) = ids
        BY <1>1, <1>3, <3>1, SeqEqual DEF S
      <3> QED BY <3>1, <3>2
    <2> QED BY <2>1, <2>2
  <1>5. n # M + 1 => rest = ids
    OBVIOUS
  <1> HIDE DEF rest, new, kept, n
  <1>6. rest \in Seq(S) /\ Len(rest) = kept /\ \A k \in 1..kept : rest[k] = ids[k]
    BY <1>3, <1>4
  <1> HIDE DEF S
  <1>7. id \in S
    BY DEF S
  <1>8. /\ <<id>> \o rest \in Seq(S) /\ <<id>> \o rest # <<>>
        /\ Len(<<id>> \o rest) = Len(rest) + 1
        /\ (<<id>> \o rest)[1] = id
        /\ \A k \in 1..Len(rest) : (<<id>> \o rest)[k + 1] = rest[k]
        /\ Tail(<<id>> \o rest) = rest
    BY <1>6, <1>7, ConsFacts
  <1>9. /\ new \in Seq(S) /\ new # <<>> /\ Len(new) = kept + 1 /\ new[1] = id
        /\ \A k \in 1..kept : new[k + 1] = ids[k]
        /\ Tail(new) = SubSeq(ids, 1, kept)
        /\ n # M + 1 => Tail(new) = ids
    BY <1>2, <1>4, <1>5, <1>6, <1>8
  <1> QED BY <1>9 DEF S, new, kept, n

\* What an entry still has to be given.
ToStore == {pending[i] : i \in 1..Len(pending)}

HistoryPart ==
    /\ HR!InUse
    /\ HR!NotInLoop <=> pc # "remove"
    /\ HR!Filled(HR!AbstractQueue, IF pc = "store" THEN 1 ELSE 0, Data)
    /\ pc = "store" => /\ pending \in Seq(Data)
                       /\ Len(pending) <= 5
                       /\ HR!Filled(HR!AbstractQueue, 0, Data \ ToStore)

Running == pc \in {"store", "correspond", "estimate"}
Finished == IF pc = "idle" THEN inputs ELSE inputs - 1

\* How many inputs are held, and how many run() has counted.
BundlePart ==
    /\ firstTimeBundle \in BOOLEAN
    /\ currentInputNumber \in 0..Finished
    /\ firstTimeBundle =>
          /\ currentInputNumber = Finished
          /\ pc \notin {"remove", "discard"}
          /\ Len(Ids) = IF inputs < M + 1 THEN inputs ELSE M + 1
    /\ ~firstTimeBundle => IF Running THEN Len(Ids) = M + 1 ELSE Len(Ids) >= M
    /\ Running => Ids # <<>> /\ Ids[1] = inputs

\* The latest inputs that can be in the map are in it, once, and the very
\* latest of them was added last.
Maps == (Nat \X Nat) \cup {UNKNOWN_MAP}
Clouds == [cloud : 0..MaxInputs, transform : Maps]
CloudsOf(map, n) ==
    /\ map \in Seq(Clouds)
    /\ \A k \in 1..Len(map) : map[k].cloud \in 1..n
    /\ \A j, k \in 1..Len(map) : map[j].cloud = map[k].cloud => j = k
Mapped(map, ids, skipped) ==
    /\ \A k \in 1..M : \E j \in 1..Len(map) : map[j].cloud = ids[skipped + k]
    /\ map # <<>> /\ map[Len(map)].cloud = ids[skipped + 1]

MapPart ==
    /\ CloudsOf(pointCloudMap, Finished)
    /\ firstTimeBundle => pointCloudMap = <<>>
    /\ ~firstTimeBundle => Mapped(pointCloudMap, Ids, IF Running THEN 1 ELSE 0)

\* The maps of a sequence of pairs: those of its first pair come first.
MapsOf(pairs) == AllMaps(Latest(pairs, M))
MapsOfNewPair(pairs) == MapsFrom(Latest(pairs, M), 1)

BeginsLike(maps, others) == others # <<>> => maps # <<>> /\ maps[1] = others[1]

Buffers == {recorder!FIRST_SEQUENCE, recorder!SECOND_SEQUENCE}
StoredBefore == sequences[recorder!history]

RecorderTypes ==
    /\ latestSequence \in Buffers
    /\ working \in Buffers
    /\ sequences \in [Buffers -> Seq(Maps)]
    /\ numberOfOldPoses \in -1..(M + 1)
    /\ oneCorrespondenceWasAddedSinceLastDiscard \in BOOLEAN
    /\ aborted = FALSE
    /\ Frames \in Seq(Nat)
    /\ ToAdd \in Seq(Maps)

\* Between two sequences the latest one begins with the maps of the latest
\* pair as long as that pair may be taken back.  Up to three pairs it holds
\* those of the pairs that remain, and the other one those of the pairs
\* before the latest.
BetweenSequences ==
    ~addingNewSequence =>
        /\ latestSequence = (IF oneCorrespondenceWasAddedSinceLastDiscard
                             THEN working ELSE recorder!history)
        /\ CanDiscard =>
              /\ oneCorrespondenceWasAddedSinceLastDiscard
              /\ Frames # <<>>
              /\ BeginsLike(sequences[working], MapsOfNewPair(Frames))
        /\ M <= 3 =>
              /\ sequences[latestSequence] = MapsOf(Frames)
              /\ CanDiscard => StoredBefore = MapsOf(Tail(Frames))

\* While a sequence is filled the maps added and those still to come are
\* those of the new pair.
InsideSequence ==
    addingNewSequence =>
        /\ latestSequence = working
        /\ Frames # <<>>
        /\ sequences[working] \o ToAdd = MapsOfNewPair(Frames)
        /\ numberOfMapsAddedSinceLastInitialization = Len(sequences[working])
        /\ M <= 3 => StoredBefore = MapsOf(Tail(Frames))

\* The number of old poses is one less than that of the pairs until both are
\* large enough; a discard may take it back to M though there are more.
CountAgrees ==
    \/ numberOfOldPoses = Len(Frames) - 1
    \/ /\ numberOfOldPoses = M + 1
       /\ IF addingNewSequence \/ CanDiscard THEN Len(Frames) >= M + 1 ELSE Len(Frames) >= M
    \/ /\ ~addingNewSequence /\ ~CanDiscard
       /\ numberOfOldPoses = M
       /\ Len(Frames) >= M

RecorderInv == RecorderTypes /\ BetweenSequences /\ InsideSequence /\ CountAgrees

RecorderPart ==
    /\ RecorderInv
    /\ addingNewSequence = (pc = "correspond")
    /\ pc \notin {"store", "correspond"} => pending = <<>>

RunInv ==
    /\ pc \in {"idle", "store", "correspond", "estimate", "remove", "discard"}
    /\ HistoryPart
    /\ BundlePart
    /\ MapPart
    /\ RecorderPart

-----------------------------------------------------------------------------
(* The maps of a sequence of pairs. *)

LEMMA MapTypes ==
    /\ UNKNOWN_MAP \in Maps
    /\ \A s \in Seq(Nat \X Nat) : s \in Seq(Maps)
  <1>1. UNKNOWN_MAP \in Maps
    BY DEF Maps
  <1>2. ASSUME NEW s \in Seq(Nat \X Nat) PROVE s \in Seq(Maps)
    <2> DEFINE P == Nat \X Nat
    <2>1. Len(s) \in Nat /\ DOMAIN s = 1..Len(s) /\ s = [k \in DOMAIN s |-> s[k]]
      BY LenProperties
    <2>2. \A k \in 1..Len(s) : s[k] \in P
      <3> HIDE DEF P
      <3> QED BY ElementOfSeq DEF P
    <2>3. P \subseteq Maps
      BY DEF Maps
    <2> HIDE DEF P
    <2>4. s \in [1..Len(s) -> Maps]
      BY <2>1, <2>2, <2>3
    <2> QED BY <2>1, <2>4, FunctionIsSequence
  <1> QED BY <1>1, <1>2

LEMMA NewPairFacts ==
    ASSUME NEW pairs \in Seq(Nat), pairs # <<>>
    PROVE  /\ MapsOfNewPair(pairs) \in Seq(Maps)
           /\ Len(MapsOfNewPair(pairs)) = LatestCount(pairs, M) - 1
           /\ LatestCount(pairs, M) \in 1..M /\ LatestCount(pairs, M) \in 1..Len(pairs)
           /\ \A b \in 1..(LatestCount(pairs, M) - 1) :
                 MapsOfNewPair(pairs)[b] = <<pairs[1], pairs[1 + b]>>
  <1> USE Constants
  <1> DEFINE k == LatestCount(pairs, M)
             kept == Latest(pairs, M)
             new == MapsFrom(kept, 1)
             m == M
  <1>0. m \in Nat /\ m >= 1
    OBVIOUS
  <1>1. /\ Len(pairs) \in Nat /\ k \in 0..Len(pairs) /\ k \in 0..m
        /\ kept \in Seq(Nat) /\ Len(kept) = k
        /\ \A i \in 1..k : kept[i] = pairs[i]
    <2> HIDE DEF m
    <2> QED BY <1>0, LatestFacts DEF m
  <1>2. k \in 1..m /\ k \in 1..Len(pairs)
    <2>1. Len(pairs) >= 1
      BY <1>1, EmptySeq
    <2> QED BY <1>0, <1>1, <2>1 DEF LatestCount
  <1> HIDE DEF k, kept, m
  <1>3. /\ new \in Seq(Nat \X Nat) /\ Len(new) = k - 1
        /\ \A b \in 1..(k - 1) : new[b] = <<kept[1], kept[1 + b]>>
    <2>1. 1 \in 1..Len(kept)
      BY <1>1, <1>2
    <2> QED BY <1>1, <2>1, MapsFromFacts
  <1> HIDE DEF new
  <1>4. ASSUME NEW b \in 1..(k - 1) PROVE new[b] = <<pairs[1], pairs[1 + b]>>
    <2>1. 1 \in 1..k /\ 1 + b \in 1..k
      BY <1>2
    <2> QED BY <1>1, <1>3, <2>1
  <1>5. new \in Seq(Maps)
    BY <1>3, MapTypes
  <1> QED BY <1>2, <1>3, <1>4, <1>5 DEF new, kept, k, m, MapsOfNewPair

LEMMA MapsOfNone == ASSUME NEW pairs, pairs = <<>> PROVE MapsOf(pairs) = <<>>
  <1>1. pairs \in Seq(Nat) /\ Len(pairs) = 0 /\ M \in Nat
    BY Constants, EmptySeq
  <1> DEFINE kept == Latest(pairs, M)
  <1>2. kept \in Seq(Nat) /\ Len(kept) = LatestCount(pairs, M)
        /\ LatestCount(pairs, M) \in 0..Len(pairs)
    <2> DEFINE m == M
    <2>1. m \in Nat
      BY <1>1
    <2> HIDE DEF m
    <2>2. Latest(pairs, m) \in Seq(Nat) /\ Len(Latest(pairs, m)) = LatestCount(pairs, m)
          /\ LatestCount(pairs, m) \in 0..Len(pairs)
      BY <1>1, <2>1, LatestFacts
    <2> QED BY <2>2 DEF m
  <1> HIDE DEF kept
  <1>3. kept = <<>>
    BY <1>1, <1>2, EmptySeq
  <1> QED BY <1>3, AllMapsOfNone DEF MapsOf, kept

\* What CompleteNewSequence puts behind the maps of the new pair: with one
\* map skipped after each source it would be right for any number of pairs,
\* with two it is for up to three.
LEMMA MapsOfCons ==
    ASSUME NEW pairs \in Seq(Nat), pairs # <<>>, M <= 3
    PROVE  MapsOf(pairs) = MapsOfNewPair(pairs) \o
               (IF Len(pairs) <= M
                THEN MapsOf(Tail(pairs))
                ELSE MapsAt(MapsOf(Tail(pairs)), ReadPositions(M - 1, 2)))
  <1> DEFINE m == M
             rest == Tail(pairs)
             kept == Latest(pairs, m)
             keptRest == Latest(rest, m)
             last == m - 1
  <1>0. m \in Nat /\ m >= 1 /\ m <= 3 /\ last \in 0..2 /\ last \in Nat /\ last + 1 = m
    BY Constants
  <1> HIDE DEF m, last
  <1>1. /\ rest \in Seq(Nat) /\ kept # <<>> /\ Len(pairs) \in Nat /\ kept \in Seq(Nat)
        /\ Len(pairs) <= m => Tail(kept) = keptRest
        /\ Len(pairs) > m => /\ LatestCount(rest, m) = m
                             /\ Tail(kept) = SubSeq(keptRest, 1, m - 1)
    <2>1. Len(pairs) \in Nat /\ kept \in Seq(Nat)
      BY <1>0, LatestFacts
    <2>2. /\ rest \in Seq(Nat) /\ kept # <<>>
          /\ Len(pairs) <= m => Tail(kept) = keptRest
          /\ Len(pairs) > m => /\ LatestCount(rest, m) = m
                               /\ Tail(kept) = SubSeq(keptRest, 1, m - 1)
      BY <1>0, LatestOfTail
    <2> QED BY <2>1, <2>2
  <1>2. keptRest \in Seq(Nat) /\ Len(keptRest) = LatestCount(rest, m)
    <2> HIDE DEF rest
    <2> QED BY <1>0, <1>1, LatestFacts
  <1> HIDE DEF kept, keptRest, rest
  <1>3. AllMaps(kept) = MapsFrom(kept, 1) \o AllMaps(Tail(kept))
    BY <1>1, AllMapsCons
  <1>4. CASE Len(pairs) <= m
    BY <1>1, <1>3, <1>4 DEF m, kept, keptRest, rest, MapsOf, MapsOfNewPair
  <1>5. CASE ~(Len(pairs) <= m)
    <2>1. Len(keptRest) = last + 1 /\ Tail(kept) = SubSeq(keptRest, 1, last)
      BY <1>0, <1>1, <1>2, <1>5 DEF last
    <2>2. MapsAt(AllMaps(keptRest), ReadPositions(last, 1)) = AllMaps(SubSeq(keptRest, 1, last))
      BY <1>0, <1>2, <2>1, ReadPositionsKeep
    <2>3. ReadPositions(last, 2) = ReadPositions(last, 1)
      BY <1>0, FirstPositionsAgree
    <2>4. MapsAt(AllMaps(keptRest), ReadPositions(last, 2)) = AllMaps(Tail(kept))
      BY <2>1, <2>2, <2>3
    <2> QED BY <1>3, <1>5, <2>4 DEF m, last, kept, keptRest, rest, MapsOf, MapsOfNewPair
  <1> QED BY <1>4, <1>5

-----------------------------------------------------------------------------
(* The calls of the recorder keep its part of the invariant.               *)

LEMMA OtherBuffer ==
    ASSUME NEW buffer \in Buffers
    PROVE  /\ recorder!Other(buffer) \in Buffers /\ recorder!Other(buffer) # buffer
           /\ recorder!Other(recorder!Other(buffer)) = buffer
  BY DEF Buffers, recorder!Other, recorder!FIRST_SEQUENCE, recorder!SECOND_SEQUENCE

LEMMA RecorderReads ==
    /\ recorder!history = recorder!Other(working)
    /\ recorder!MapsToKeep = IF numberOfOldPoses < M THEN StoredBefore
                             ELSE MapsAt(StoredBefore, ReadPositions(M - 1, 2))
  <1>1. recorder!history = recorder!Other(working)
    BY DEF recorder!history
  <1>2. \A maps, positions : recorder!MapsAt(maps, positions) = MapsAt(maps, positions)
    BY DEF recorder!MapsAt, MapsAt, recorder!UNKNOWN_MAP, UNKNOWN_MAP
  <1>3. recorder!ReadPositions(M - 1, 2) = ReadPositions(M - 1, 2)
    BY DEF recorder!ReadPositions, ReadPositions, recorder!Start, Start,
           recorder!FlattenSeq, FlattenSeq
  <1>4. recorder!MapsToKeep = IF numberOfOldPoses < M THEN StoredBefore
                              ELSE recorder!MapsAt(StoredBefore, recorder!ReadPositions(M - 1, 2))
    BY DEF recorder!MapsToKeep, StoredBefore, M
  <1> QED BY <1>1, <1>2, <1>3, <1>4

LEMMA MapsToKeepFacts ==
    ASSUME StoredBefore \in Seq(Maps)
    PROVE  recorder!MapsToKeep \in Seq(Maps)
  <1> DEFINE last == M - 1
  <1>1. last \in Nat /\ 2 \in Nat
    BY Constants
  <1> HIDE DEF last
  <1>2. ReadPositions(last, 2) \in Seq(Int)
    BY <1>1, ReadPositionsFacts
  <1>3. MapsAt(StoredBefore, ReadPositions(last, 2)) \in Seq(Maps)
    <2> DEFINE positions == ReadPositions(last, 2)
               stored == StoredBefore
    <2> HIDE DEF positions, stored
    <2>1. MapsAt(stored, positions) \in Seq(Maps)
      BY <1>2, MapTypes, MapsAtFacts DEF positions, stored
    <2> QED BY <2>1 DEF positions, stored
  <1> QED BY <1>3, RecorderReads DEF last

\* InitializeNewSequence for a pair that comes to those the recorder has.
LEMMA BeginKeepsInv ==
    ASSUME RecorderInv, ~addingNewSequence, recorder!InitializeNewSequence,
           Frames' \in Seq(Nat), Frames' # <<>>, Tail(Frames') = Frames,
           ToAdd' = MapsOfNewPair(Frames')
    PROVE  RecorderInv' /\ addingNewSequence' = TRUE /\ aborted' = FALSE
  <1>1. /\ latestSequence' = recorder!Other(latestSequence)
        /\ working' = latestSequence'
        /\ sequences' = [sequences EXCEPT ![working'] = <<>>]
        /\ numberOfOldPoses' = IF numberOfOldPoses <= M THEN numberOfOldPoses + 1
                               ELSE numberOfOldPoses
        /\ addingNewSequence' = TRUE
        /\ numberOfMapsAddedSinceLastInitialization' = 0
        /\ UNCHANGED <<oneCorrespondenceWasAddedSinceLastDiscard, aborted>>
    BY DEF recorder!InitializeNewSequence, M
  <1>2. /\ latestSequence \in Buffers
        /\ sequences \in [Buffers -> Seq(Maps)]
        /\ numberOfOldPoses \in -1..(M + 1)
        /\ oneCorrespondenceWasAddedSinceLastDiscard \in BOOLEAN
        /\ aborted = FALSE
        /\ Frames \in Seq(Nat)
        /\ M <= 3 => sequences[latestSequence] = MapsOf(Frames)
        /\ CountAgrees
    BY DEF RecorderInv, RecorderTypes, BetweenSequences
  <1>3. M \in Nat /\ M >= 1
    BY Constants
  <1> DEFINE n == Len(Frames)
             n1 == Len(Frames')
  <1>4. n1 = n + 1 /\ n \in Nat
    <2>1. Len(Tail(Frames')) = Len(Frames') - 1 /\ Len(Frames') \in Nat /\ n \in Nat
      BY <1>2, HeadTailProperties, LenProperties
    <2>2. n = Len(Tail(Frames'))
      OBVIOUS
    <2> HIDE DEF n, n1
    <2> QED BY <2>1, <2>2 DEF n1
  <1>5. working' \in Buffers /\ working' # latestSequence /\ recorder!history' = latestSequence
    BY <1>1, <1>2, OtherBuffer DEF recorder!history
  <1>6. sequences'[working'] = <<>> /\ StoredBefore' = sequences[latestSequence]
    BY <1>1, <1>2, <1>5 DEF StoredBefore
  <1>7. sequences' \in [Buffers -> Seq(Maps)]
    <2>1. <<>> \in Seq(Maps)
      BY EmptySeq
    <2> QED BY <1>1, <1>2, <1>5, <2>1
  <1>8. MapsOfNewPair(Frames') \in Seq(Maps)
    <2> DEFINE pairs == Frames'
    <2>1. pairs \in Seq(Nat) /\ pairs # <<>>
      OBVIOUS
    <2> HIDE DEF pairs
    <2>2. MapsOfNewPair(pairs) \in Seq(Maps)
      BY <2>1, NewPairFacts
    <2> QED BY <2>2 DEF pairs
  <1> HIDE DEF n, n1, M
  <1>9. \/ numberOfOldPoses = n - 1
        \/ numberOfOldPoses = M + 1 /\ n >= M
        \/ numberOfOldPoses = M /\ n >= M
    BY <1>2, <1>3, <1>4 DEF CountAgrees, n
  <1>10. \/ numberOfOldPoses' = n1 - 1
         \/ numberOfOldPoses' = M + 1 /\ n1 >= M + 1
    BY <1>1, <1>2, <1>3, <1>4, <1>9
  <1>11. numberOfOldPoses' \in -1..(M + 1)
    BY <1>1, <1>2, <1>3
  <1>12. M' = M /\ Buffers' = Buffers /\ Maps' = Maps
    BY DEF M, Buffers, Maps, recorder!FIRST_SEQUENCE, recorder!SECOND_SEQUENCE
  <1>13. RecorderTypes'
    <2>1. /\ latestSequence' \in Buffers /\ working' \in Buffers
          /\ oneCorrespondenceWasAddedSinceLastDiscard' \in BOOLEAN
          /\ aborted' = FALSE
      BY <1>1, <1>2, <1>5
    <2> QED BY <1>7, <1>8, <1>11, <1>12, <2>1 DEF RecorderTypes
  <1>14. BetweenSequences'
    BY <1>1 DEF BetweenSequences
  <1>15. InsideSequence'
    <2>1. <<>> \o MapsOfNewPair(Frames') = MapsOfNewPair(Frames')
      BY <1>8, ConcatEmptySeq
    <2>2. sequences'[working'] \o ToAdd' = MapsOfNewPair(Frames')
      BY <1>6, <2>1
    <2>3. M <= 3 => StoredBefore' = MapsOf(Tail(Frames'))
      BY <1>2, <1>6
    <2>4. numberOfMapsAddedSinceLastInitialization' = Len(sequences'[working'])
      BY <1>1, <1>6, EmptySeq
    <2> QED BY <1>1, <1>12, <2>2, <2>3, <2>4 DEF InsideSequence
  <1>16. CountAgrees'
    BY <1>1, <1>10, <1>12 DEF CountAgrees, n1
  <1> QED BY <1>1, <1>2, <1>13, <1>14, <1>15, <1>16 DEF RecorderInv

\* AddCorrespondencesFromTwoImagePairs of the next map.
LEMMA AddKeepsInv ==
    ASSUME RecorderInv, addingNewSequence, ToAdd # <<>>,
           recorder!AddCorrespondencesFromTwoImagePairs(Head(ToAdd)),
           ToAdd' = Tail(ToAdd), Frames' = Frames
    PROVE  RecorderInv' /\ addingNewSequence' = TRUE /\ aborted' = FALSE
  <1>1. /\ latestSequence \in Buffers /\ latestSequence = working
        /\ working \in Buffers
        /\ sequences \in [Buffers -> Seq(Maps)]
        /\ numberOfOldPoses \in -1..(M + 1)
        /\ oneCorrespondenceWasAddedSinceLastDiscard \in BOOLEAN
        /\ aborted = FALSE
        /\ Frames # <<>> /\ Frames \in Seq(Nat)
        /\ ToAdd \in Seq(Maps)
        /\ sequences[working] \o ToAdd = MapsOfNewPair(Frames)
        /\ numberOfMapsAddedSinceLastInitialization = Len(sequences[working])
        /\ M <= 3 => StoredBefore = MapsOf(Tail(Frames))
        /\ CountAgrees
    BY DEF RecorderInv, RecorderTypes, InsideSequence
  <1> DEFINE before == sequences[working]
             map == Head(ToAdd)
             rest == Tail(ToAdd)
  <1>2. before \in Seq(Maps) /\ Len(before) \in Nat
    BY <1>1, LenProperties
  <1>3. /\ sequences' = [sequences EXCEPT ![working] = Append(before, map)]
        /\ numberOfMapsAddedSinceLastInitialization' = numberOfMapsAddedSinceLastInitialization + 1
        /\ UNCHANGED <<latestSequence, working, numberOfOldPoses, addingNewSequence,
                       oneCorrespondenceWasAddedSinceLastDiscard, aborted>>
    BY DEF recorder!AddCorrespondencesFromTwoImagePairs, recorder!flagVars
  <1>4. /\ Append(before, map) \in Seq(Maps)
        /\ Len(Append(before, map)) = Len(before) + 1
        /\ Append(before, map) \o rest = before \o ToAdd
        /\ rest \in Seq(Maps)
    <2> HIDE DEF before
    <2>1. before \in Seq(Maps) /\ ToAdd \in Seq(Maps) /\ ToAdd # <<>>
      BY <1>1, <1>2
    <2> QED BY ONLY <2>1, MoveHead
  <1>5. working # recorder!history /\ recorder!history \in Buffers /\ recorder!history' = recorder!history
    BY <1>1, <1>3, OtherBuffer DEF recorder!history
  <1>6. /\ sequences'[working] = Append(before, map)
        /\ StoredBefore' = StoredBefore
        /\ sequences' \in [Buffers -> Seq(Maps)]
    BY <1>1, <1>3, <1>4, <1>5 DEF StoredBefore
  <1>7. M' = M /\ Buffers' = Buffers /\ Maps' = Maps
    BY DEF M, Buffers, Maps, recorder!FIRST_SEQUENCE, recorder!SECOND_SEQUENCE
  <1> HIDE DEF before, map, rest
  <1>8. RecorderTypes'
    <2>1. ToAdd' \in Seq(Maps)
      BY <1>4 DEF rest
    <2> QED BY <1>1, <1>3, <1>6, <1>7, <2>1 DEF RecorderTypes
  <1>9. BetweenSequences'
    BY <1>3 DEF BetweenSequences
  <1>10. InsideSequence'
    <2>1. sequences'[working'] \o ToAdd' = MapsOfNewPair(Frames')
      BY <1>1, <1>3, <1>4, <1>6 DEF before, rest
    <2>2. numberOfMapsAddedSinceLastInitialization' = Len(sequences'[working'])
      BY <1>1, <1>3, <1>4, <1>6 DEF before
    <2> QED BY <1>1, <1>3, <1>6, <1>7, <2>1, <2>2 DEF InsideSequence
  <1>11. CountAgrees'
    <2>1. addingNewSequence' = addingNewSequence /\ numberOfOldPoses' = numberOfOldPoses /\ addingNewSequence
      BY <1>3
    <2> QED BY <1>1, <1>7, <2>1 DEF CountAgrees
  <1> QED BY <1>1, <1>3, <1>8, <1>9, <1>10, <1>11 DEF RecorderInv

\* CompleteNewSequence when all maps were added: the assertion holds.
LEMMA EndKeepsInv ==
    ASSUME RecorderInv, addingNewSequence, ToAdd = <<>>, recorder!CompleteNewSequence,
           ToAdd' = ToAdd, Frames' = Frames
    PROVE  RecorderInv' /\ addingNewSequence' = FALSE /\ aborted' = FALSE
  <1>1. /\ latestSequence \in Buffers /\ latestSequence = working
        /\ working \in Buffers
        /\ sequences \in [Buffers -> Seq(Maps)]
        /\ numberOfOldPoses \in -1..(M + 1)
        /\ aborted = FALSE
        /\ Frames # <<>> /\ Frames \in Seq(Nat)
        /\ ToAdd \in Seq(Maps)
        /\ sequences[working] \o ToAdd = MapsOfNewPair(Frames)
        /\ numberOfMapsAddedSinceLastInitialization = Len(sequences[working])
        /\ M <= 3 => StoredBefore = MapsOf(Tail(Frames))
        /\ CountAgrees
    BY DEF RecorderInv, RecorderTypes, InsideSequence
  <1>2. M \in Nat /\ M >= 1 /\ Len(Frames) \in Nat
    BY <1>1, Constants, LenProperties
  <1> DEFINE new == MapsOfNewPair(Frames)
             kept == recorder!MapsToKeep
             m == M
             k == LatestCount(Frames, m)
  <1>3. sequences[working] = new
    <2>1. sequences[working] \o <<>> = sequences[working]
      BY <1>1, ConcatEmptySeq
    <2> QED BY <1>1, <2>1
  <1>4. new \in Seq(Maps) /\ Len(new) = k - 1 /\ k = IF Len(Frames) < m THEN Len(Frames) ELSE m
    <2> DEFINE pairs == Frames
    <2>1. pairs \in Seq(Nat) /\ pairs # <<>>
      BY <1>1
    <2> HIDE DEF pairs
    <2>2. MapsOfNewPair(pairs) \in Seq(Maps) /\ Len(MapsOfNewPair(pairs)) = LatestCount(pairs, M) - 1
      BY <2>1, NewPairFacts
    <2>3. LatestCount(Frames, M) = IF Len(Frames) < M THEN Len(Frames) ELSE M
      BY DEF LatestCount
    <2> QED BY <2>2, <2>3 DEF pairs
  <1> HIDE DEF new, kept, k
  <1>5. \/ numberOfOldPoses = Len(Frames) - 1
        \/ numberOfOldPoses = M + 1 /\ Len(Frames) >= M + 1
    BY <1>1 DEF CountAgrees
  <1>6. recorder!SequenceIsComplete
    <2>1. recorder!SmallerOf(numberOfOldPoses, M - 1) = k - 1
      BY <1>2, <1>4, <1>5 DEF recorder!SmallerOf, m
    <2> QED BY <1>1, <1>3, <1>4, <2>1 DEF recorder!SequenceIsComplete, M
  <1>7. /\ sequences' = [sequences EXCEPT ![working] = new \o kept]
        /\ addingNewSequence' = FALSE
        /\ oneCorrespondenceWasAddedSinceLastDiscard' = TRUE
        /\ UNCHANGED <<latestSequence, working, numberOfOldPoses,
                       numberOfMapsAddedSinceLastInitialization, aborted>>
    BY <1>3, <1>6 DEF recorder!CompleteNewSequence, kept
  <1>8. numberOfOldPoses < M <=> Len(Frames) <= M
    BY <1>2, <1>5
  <1>9. working # recorder!history /\ recorder!history \in Buffers /\ recorder!history' = recorder!history
    BY <1>1, <1>7, OtherBuffer DEF recorder!history
  <1>10. kept \in Seq(Maps) /\ new \o kept \in Seq(Maps)
    <2>1. StoredBefore \in Seq(Maps)
      BY <1>1, <1>9 DEF StoredBefore
    <2>2. kept \in Seq(Maps)
      BY <2>1, MapsToKeepFacts DEF kept
    <2> QED BY <1>4, <2>2, ConcatProperties
  <1>11. ASSUME M <= 3 PROVE new \o kept = MapsOf(Frames)
    <2>1. kept = IF Len(Frames) <= M THEN MapsOf(Tail(Frames))
                 ELSE MapsAt(MapsOf(Tail(Frames)), ReadPositions(M - 1, 2))
      BY <1>1, <1>8, <1>11, RecorderReads DEF kept
    <2> DEFINE pairs == Frames
    <2>2. pairs \in Seq(Nat) /\ pairs # <<>>
      BY <1>1
    <2> HIDE DEF pairs
    <2>3. MapsOf(pairs) = MapsOfNewPair(pairs) \o
             (IF Len(pairs) <= M THEN MapsOf(Tail(pairs))
              ELSE MapsAt(MapsOf(Tail(pairs)), ReadPositions(M - 1, 2)))
      BY <1>11, <2>2, MapsOfCons
    <2> QED BY <2>1, <2>3 DEF pairs, new
  <1>12. BeginsLike(new \o kept, new)
    <2> SUFFICES ASSUME new # <<>> PROVE new \o kept # <<>> /\ (new \o kept)[1] = new[1]
      BY DEF BeginsLike
    <2> DEFINE joined == new \o kept
    <2>1. Len(new) \in Nat /\ Len(new) # 0 /\ Len(kept) \in Nat
      BY <1>4, <1>10, EmptySeq, LenProperties
    <2>2. Joins(joined, new, kept, Maps)
      BY <1>4, <1>10, JoinsConcat
    <2> HIDE DEF joined
    <2>3. /\ Len(joined) = Len(new) + Len(kept)
          /\ \A i \in 1..(Len(new) + Len(kept)) :
                joined[i] = IF i <= Len(new) THEN new[i] ELSE kept[i - Len(new)]
      BY <2>2 DEF Joins
    <2>4. 1 \in 1..(Len(new) + Len(kept)) /\ 1 <= Len(new)
      BY <2>1
    <2>5. joined[1] = new[1]
      BY <2>3, <2>4
    <2>6. joined # <<>>
      <3>1. Len(joined) # 0 /\ Len(<<>>) = 0
        BY <2>1, <2>3, EmptySeq
      <3> QED BY <3>1
    <2> QED BY <2>5, <2>6 DEF joined
  <1> DEFINE joined == new \o kept
  <1> HIDE DEF joined, m
  <1>13. /\ sequences' = [sequences EXCEPT ![working] = joined]
         /\ joined \in Seq(Maps) /\ BeginsLike(joined, new)
         /\ M <= 3 => joined = MapsOf(Frames)
    BY <1>7, <1>10, <1>11, <1>12 DEF joined
  <1>14. /\ sequences'[working] = joined
         /\ StoredBefore' = StoredBefore
         /\ sequences' \in [Buffers -> Seq(Maps)]
    BY <1>1, <1>9, <1>13 DEF StoredBefore
  <1>15. M' = M /\ Buffers' = Buffers /\ Maps' = Maps
    BY DEF M, Buffers, Maps, recorder!FIRST_SEQUENCE, recorder!SECOND_SEQUENCE
  <1>16. RecorderTypes'
    BY <1>1, <1>7, <1>14, <1>15 DEF RecorderTypes
  <1>17. BetweenSequences'
    <2>1. /\ MapsOfNewPair(Frames') = new /\ MapsOf(Frames') = MapsOf(Frames)
          /\ MapsOf(Tail(Frames')) = MapsOf(Tail(Frames))
      BY DEF new
    <2>2. BeginsLike(sequences'[working'], MapsOfNewPair(Frames'))
      BY <1>7, <1>13, <1>14, <2>1
    <2> QED BY <1>1, <1>7, <1>13, <1>14, <1>15, <2>1, <2>2 DEF BetweenSequences
  <1>18. InsideSequence'
    BY <1>7 DEF InsideSequence
  <1>19. CountAgrees'
    BY <1>2, <1>5, <1>7, <1>15 DEF CountAgrees
  <1> QED BY <1>1, <1>7, <1>16, <1>17, <1>18, <1>19 DEF RecorderInv

\* DiscardLatestCorrespondences, once after a sequence.
LEMMA DiscardKeepsInv ==
    ASSUME RecorderInv, ~addingNewSequence, CanDiscard,
           recorder!DiscardLatestCorrespondences,
           ToAdd' = ToAdd, Frames' = Tail(Frames), CanDiscard' = FALSE
    PROVE  RecorderInv' /\ addingNewSequence' = addingNewSequence /\ aborted' = FALSE
  <1>1. /\ latestSequence \in Buffers /\ working \in Buffers
        /\ sequences \in [Buffers -> Seq(Maps)]
        /\ numberOfOldPoses \in -1..(M + 1)
        /\ Frames \in Seq(Nat) /\ Frames # <<>>
        /\ ToAdd \in Seq(Maps)
        /\ oneCorrespondenceWasAddedSinceLastDiscard
        /\ latestSequence = working
        /\ M <= 3 => StoredBefore = MapsOf(Tail(Frames))
        /\ aborted = FALSE
        /\ CountAgrees
    BY DEF RecorderInv, RecorderTypes, BetweenSequences
  <1>2. /\ latestSequence' = recorder!Other(latestSequence)
        /\ numberOfOldPoses' = IF numberOfOldPoses >= 0 THEN numberOfOldPoses - 1
                               ELSE numberOfOldPoses
        /\ oneCorrespondenceWasAddedSinceLastDiscard' = FALSE
        /\ UNCHANGED <<working, sequences, addingNewSequence,
                       numberOfMapsAddedSinceLastInitialization, aborted>>
    BY <1>1 DEF recorder!DiscardLatestCorrespondences
  <1>3. Tail(Frames) \in Seq(Nat) /\ Len(Tail(Frames)) = Len(Frames) - 1 /\ Len(Frames) \in Nat
    <2> DEFINE pairs == Frames
    <2>1. pairs \in Seq(Nat) /\ pairs # <<>>
      BY <1>1
    <2> HIDE DEF pairs
    <2>2. Tail(pairs) \in Seq(Nat) /\ Len(Tail(pairs)) = Len(pairs) - 1 /\ Len(pairs) \in Nat
      BY <2>1, HeadTailProperties, LenProperties
    <2> QED BY <2>2 DEF pairs
  <1>4. Len(Frames) >= 1
    BY <1>1, <1>3, EmptySeq
  <1>5. M \in Nat /\ M >= 1
    BY Constants
  <1>6. latestSequence' = recorder!history /\ recorder!history' = recorder!history
        /\ recorder!history \in Buffers /\ StoredBefore' = StoredBefore
    BY <1>1, <1>2, OtherBuffer DEF recorder!history, StoredBefore
  <1>7. numberOfOldPoses' \in -1..(M + 1)
    BY <1>1, <1>2, <1>5
  <1>8. M' = M /\ Buffers' = Buffers /\ Maps' = Maps
    BY DEF M, Buffers, Maps, recorder!FIRST_SEQUENCE, recorder!SECOND_SEQUENCE
  <1>9. RecorderTypes'
    BY <1>1, <1>2, <1>3, <1>6, <1>7, <1>8 DEF RecorderTypes
  <1>10. BetweenSequences'
    <2>1. sequences'[latestSequence'] = StoredBefore
      BY <1>2, <1>6 DEF StoredBefore
    <2>2. MapsOf(Frames') = MapsOf(Tail(Frames))
      OBVIOUS
    <2> QED BY <1>1, <1>2, <1>6, <1>8, <2>1, <2>2 DEF BetweenSequences
  <1>11. InsideSequence'
    BY <1>2 DEF InsideSequence
  <1>12. CountAgrees'
    <2>1. \/ numberOfOldPoses = Len(Frames) - 1
          \/ numberOfOldPoses = M + 1 /\ Len(Frames) >= M + 1
      BY <1>1 DEF CountAgrees
    <2>2. numberOfOldPoses' = numberOfOldPoses - 1
      BY <1>2, <1>3, <1>4, <1>5, <2>1
    <2>3. \/ numberOfOldPoses' = Len(Frames') - 1
          \/ numberOfOldPoses' = M /\ Len(Frames') >= M
      BY <1>3, <1>5, <2>1, <2>2
    <2> QED BY <1>2, <1>8, <2>3 DEF CountAgrees
  <1> QED BY <1>1, <1>2, <1>9, <1>10, <1>11, <1>12 DEF RecorderInv

\* A call of anything else leaves the recorder as it is.
LEMMA RecorderStays ==
    ASSUME UNCHANGED recorderVars
    PROVE  /\ UNCHANGED <<latestSequence, working, sequences, numberOfOldPoses>>
           /\ UNCHANGED <<addingNewSequence, oneCorrespondenceWasAddedSinceLastDiscard>>
           /\ UNCHANGED <<numberOfMapsAddedSinceLastInitialization, aborted>>
           /\ recorder!history' = recorder!history /\ StoredBefore' = StoredBefore
           /\ M' = M /\ Buffers' = Buffers /\ Maps' = Maps
  BY DEF recorderVars, recorder!history, StoredBefore, M, Buffers, Maps,
         recorder!FIRST_SEQUENCE, recorder!SECOND_SEQUENCE

\* The history may forget old pairs, as long as M of them stay, if the latest
\* is not taken back afterwards.
LEMMA DropKeepsInv ==
    ASSUME RecorderInv, ~addingNewSequence, UNCHANGED recorderVars,
           NEW k \in M..Len(Frames), Frames' = SubSeq(Frames, 1, k),
           ToAdd' = ToAdd, CanDiscard' = FALSE
    PROVE  RecorderInv'
  <1>1. /\ Frames \in Seq(Nat) /\ Len(Frames) \in Nat /\ M \in Nat /\ M >= 1
        /\ CountAgrees
        /\ RecorderTypes /\ BetweenSequences
    BY LenProperties, Constants DEF RecorderInv, RecorderTypes
  <1>2. /\ UNCHANGED <<latestSequence, working, sequences, numberOfOldPoses>>
        /\ UNCHANGED <<addingNewSequence, oneCorrespondenceWasAddedSinceLastDiscard>>
        /\ UNCHANGED <<numberOfMapsAddedSinceLastInitialization, aborted>>
        /\ recorder!history' = recorder!history
        /\ M' = M /\ Buffers' = Buffers /\ Maps' = Maps
    BY RecorderStays
  <1>3. /\ Frames' \in Seq(Nat) /\ Len(Frames') = k
        /\ \A i \in 1..k : Frames'[i] = Frames[i]
    <2> DEFINE pairs == Frames
    <2>1. k \in 0..Len(pairs) /\ pairs \in Seq(Nat)
      BY <1>1
    <2> HIDE DEF pairs
    <2>2. /\ SubSeq(pairs, 1, k) \in Seq(Nat) /\ Len(SubSeq(pairs, 1, k)) = k
          /\ \A i \in 1..k : SubSeq(pairs, 1, k)[i] = pairs[i]
      BY <2>1, FirstFacts
    <2> QED BY <2>2 DEF pairs
  <1>4. MapsOf(Frames') = MapsOf(Frames)
    <2> DEFINE before == Frames
               after == Frames'
               m == M
    <2>1. /\ after \in Seq(Nat) /\ before \in Seq(Nat) /\ m \in Nat
          /\ Len(after) >= m /\ Len(before) >= m /\ Len(after) \in Nat /\ Len(before) \in Nat
          /\ \A i \in 1..m : after[i] = before[i]
      BY <1>1, <1>3
    <2> HIDE DEF before, after, m
    <2>2. LatestCount(after, m) = m /\ LatestCount(before, m) = m
      BY <2>1 DEF LatestCount
    <2>3. /\ Latest(after, m) \in Seq(Nat) /\ Len(Latest(after, m)) = m
          /\ \A i \in 1..m : Latest(after, m)[i] = after[i]
      BY <2>1, <2>2, LatestFacts
    <2>4. /\ Latest(before, m) \in Seq(Nat) /\ Len(Latest(before, m)) = m
          /\ \A i \in 1..m : Latest(before, m)[i] = before[i]
      BY <2>1, <2>2, LatestFacts
    <2>5. Latest(after, m) = Latest(before, m)
      BY <2>1, <2>3, <2>4, SeqEqual
    <2>6. AllMaps(Latest(after, m)) = AllMaps(Latest(before, m))
      BY <2>5
    <2> QED BY <2>6 DEF MapsOf, before, after, m
  <1>5. RecorderTypes'
    BY <1>1, <1>2, <1>3 DEF RecorderTypes
  <1>6. BetweenSequences'
    BY <1>1, <1>2, <1>4 DEF BetweenSequences
  <1>7. InsideSequence'
    BY <1>2 DEF InsideSequence
  <1>8. CountAgrees'
    <2>1. numberOfOldPoses' = numberOfOldPoses /\ ~addingNewSequence' /\ ~CanDiscard'
      BY <1>2
    <2>2. numberOfOldPoses \in -1..(M + 1)
      BY <1>1 DEF RecorderTypes
    <2> QED BY <1>1, <1>2, <1>3, <2>1, <2>2 DEF CountAgrees
  <1> QED BY <1>5, <1>6, <1>7, <1>8 DEF RecorderInv

\* Nothing changes, except that a discard may be given up.
LEMMA IdleKeepsInv ==
    ASSUME RecorderInv, UNCHANGED recorderVars, Frames' = Frames, ToAdd' = ToAdd,
           CanDiscard' => CanDiscard
    PROVE  RecorderInv'
  <1>1. /\ UNCHANGED <<latestSequence, working, sequences, numberOfOldPoses>>
        /\ UNCHANGED <<addingNewSequence, oneCorrespondenceWasAddedSinceLastDiscard>>
        /\ UNCHANGED <<numberOfMapsAddedSinceLastInitialization, aborted>>
        /\ recorder!history' = recorder!history /\ StoredBefore' = StoredBefore
        /\ M' = M /\ Buffers' = Buffers /\ Maps' = Maps
    BY RecorderStays
  <1>2. /\ MapsOf(Frames') = MapsOf(Frames) /\ MapsOf(Tail(Frames')) = MapsOf(Tail(Frames))
        /\ MapsOfNewPair(Frames') = MapsOfNewPair(Frames)
    OBVIOUS
  <1>3. RecorderTypes'
    BY <1>1 DEF RecorderInv, RecorderTypes
  <1>4. BetweenSequences'
    BY <1>1, <1>2 DEF RecorderInv, BetweenSequences
  <1>5. InsideSequence'
    BY <1>1, <1>2 DEF RecorderInv, InsideSequence
  <1>6. CountAgrees'
    <2>1. CountAgrees /\ RecorderTypes
      BY DEF RecorderInv
    <2>2. Len(Frames) \in Nat /\ M \in Nat
      BY <2>1, LenProperties, Constants DEF RecorderTypes
    <2> QED BY <1>1, <2>1, <2>2 DEF CountAgrees
  <1> QED BY <1>3, <1>4, <1>5, <1>6 DEF RecorderInv

LEMMA NothingRecordedYet ==
    ASSUME recorder!Init, Frames = <<>>, ToAdd = <<>>, CanDiscard = FALSE
    PROVE  RecorderInv
  <1>1. /\ latestSequence = recorder!SECOND_SEQUENCE /\ working = recorder!FIRST_SEQUENCE
        /\ sequences = [buffer \in Buffers |-> <<>>]
        /\ numberOfOldPoses = -1
        /\ addingNewSequence = FALSE
        /\ oneCorrespondenceWasAddedSinceLastDiscard = FALSE
        /\ aborted = FALSE
    BY DEF recorder!Init, Buffers
  <1>2. M \in Nat /\ M >= 1
    BY Constants
  <1>3. <<>> \in Seq(Maps) /\ <<>> \in Seq(Nat) /\ Len(<<>>) = 0
    BY EmptySeq
  <1>4. latestSequence \in Buffers /\ working \in Buffers /\ recorder!history = latestSequence
    BY <1>1 DEF Buffers, recorder!history, recorder!Other, recorder!FIRST_SEQUENCE,
                recorder!SECOND_SEQUENCE
  <1>5. RecorderTypes
    <2>1. numberOfOldPoses \in -1..(M + 1)
      BY <1>1, <1>2
    <2> QED BY <1>1, <1>3, <1>4, <2>1 DEF RecorderTypes
  <1>6. BetweenSequences
    <2>1. MapsOf(Frames) = <<>>
      <3> DEFINE pairs == Frames
      <3>1. pairs = <<>>
        OBVIOUS
      <3> HIDE DEF pairs
      <3>2. MapsOf(pairs) = <<>>
        BY <3>1, MapsOfNone
      <3> QED BY <3>2 DEF pairs
    <2> QED BY <1>1, <1>4, <2>1 DEF BetweenSequences
  <1>7. InsideSequence
    BY <1>1 DEF InsideSequence
  <1>8. CountAgrees
    BY <1>1, <1>3 DEF CountAgrees
  <1> QED BY <1>5, <1>6, <1>7, <1>8 DEF RecorderInv

-----------------------------------------------------------------------------
(* What the parts of the invariant say of a state. *)

LEMMA FilledWithLess ==
    ASSUME NEW q, NEW first, NEW A, NEW B, HR!Filled(q, first, A), B \subseteq A
    PROVE  HR!Filled(q, first, B)
  BY DEF HR!Filled

LEMMA HeldFacts ==
    ASSUME HR!InUse
    PROVE  /\ Ids \in Seq(0..MaxInputs) /\ Len(Ids) \in 0..(M + 1)
           /\ inputs \in 0..MaxInputs
           /\ Ids \in Seq(Nat)
  <1>1. HR!AbstractQueue \in Seq(HR!QueueEntries) /\ Len(HR!AbstractQueue) \in 0..(M + 1)
    BY HistoryAssumptions, HR!QueueInUse DEF M
  <1>2. Ids = HR!IdsOf(HR!AbstractQueue)
    BY DEF Ids, HR!Ids
  <1>3. Ids \in Seq(HR!Payloads) /\ Len(Ids) \in 0..(M + 1)
    BY <1>1, <1>2, HistoryAssumptions, HR!IdsFacts
  <1>4. inputs \in 0..MaxInputs
    BY Constants DEF HR!InUse, HR!IInv, HR!TypeOK
  <1>5. Ids \in Seq(0..MaxInputs)
    BY <1>3, Constants
  <1>6. Ids \in Seq(Nat)
    <2> DEFINE S == 0..MaxInputs
               ids == Ids
    <2>1. \A k \in 1..Len(ids) : ids[k] \in Nat
      <3> HIDE DEF S, ids
      <3>1. ASSUME NEW k \in 1..Len(ids) PROVE ids[k] \in S
        BY <1>5, ElementOfSeq DEF S, ids
      <3> QED BY <3>1, Constants DEF S
    <2>2. Len(ids) \in Nat /\ ids \in [1..Len(ids) -> Nat]
      <3> HIDE DEF ids
      <3>1. Len(ids) \in Nat /\ DOMAIN ids = 1..Len(ids) /\ ids = [k \in DOMAIN ids |-> ids[k]]
        BY <1>5, LenProperties DEF S, ids
      <3> QED BY <2>1, <3>1
    <2> HIDE DEF ids
    <2>3. ids \in Seq(Nat)
      BY <2>2, FunctionIsSequence
    <2> QED BY <2>3 DEF ids
  <1> QED BY <1>3, <1>4, <1>5, <1>6

LEMMA DataFacts ==
    /\ DataOfInput \in Seq(Data) /\ Len(DataOfInput) <= 5
    /\ {DataOfInput[i] : i \in 1..Len(DataOfInput)} = Data
  BY DEF DataOfInput, Data

LEMMA RecorderFacts ==
    ASSUME RunInv
    PROVE  /\ RecorderInv /\ aborted = FALSE
           /\ addingNewSequence = (pc = "correspond")
           /\ pc \notin {"store", "correspond"} => pending = <<>>
  BY DEF RunInv, RecorderPart, RecorderInv, RecorderTypes

LEMMA RecorderIdle ==
    ASSUME RunInv, UNCHANGED recorderVars, Frames' = Frames, ToAdd' = ToAdd,
           CanDiscard' => CanDiscard
    PROVE  RecorderInv'
  BY RecorderFacts, IdleKeepsInv

-----------------------------------------------------------------------------
(* The steps of run(). *)

LEMMA InitKeeps == Init => RunInv
  <1> SUFFICES ASSUME Init PROVE RunInv
    OBVIOUS
  <1>1. /\ HR!Init /\ recorder!Init /\ currentInputNumber = 0 /\ firstTimeBundle = TRUE
        /\ pc = "idle" /\ pending = <<>> /\ pointCloudMap = <<>>
    BY HistoryCalls DEF Init
  <1>2. /\ HR!InUse /\ HR!NotInLoop /\ inputs = 0 /\ Ids = <<>>
        /\ HR!Filled(HR!AbstractQueue, 0, Data)
    BY <1>1, HistoryAssumptions, HR!InitIsUsed DEF Ids
  <1>3. HistoryPart
    BY <1>1, <1>2 DEF HistoryPart
  <1>4. BundlePart
    <2>1. Len(Ids) = 0
      BY <1>2, EmptySeq
    <2> QED BY <1>1, <1>2, <2>1, Constants DEF BundlePart, Running, Finished
  <1>5. MapPart
    <2>1. <<>> \in Seq(Clouds) /\ Len(<<>>) = 0
      BY EmptySeq
    <2> QED BY <1>1, <2>1 DEF MapPart, CloudsOf
  <1>6. RecorderPart
    <2>1. Frames = <<>> /\ ToAdd = <<>> /\ CanDiscard = FALSE
      BY <1>1, <1>2 DEF Frames, ToAdd, CanDiscard
    <2>2. RecorderInv
      BY <1>1, <2>1, NothingRecordedYet
    <2>3. addingNewSequence = FALSE
      BY <1>1 DEF recorder!Init
    <2> QED BY <1>1, <2>2, <2>3 DEF RecorderPart
  <1> QED BY <1>1, <1>3, <1>4, <1>5, <1>6 DEF RunInv

LEMMA AddImagesKeeps == ASSUME RunInv, AddImages PROVE RunInv'
  <1> USE Constants
  <1>1. /\ pc = "idle" /\ pc' = "store" /\ pending' = DataOfInput
        /\ UNCHANGED <<recorderVars, currentInputNumber, firstTimeBundle, pointCloudMap>>
        /\ HR!AddImages
    BY HistoryCalls DEF AddImages
  <1>2. HistoryPart /\ BundlePart /\ MapPart /\ HR!InUse
    BY DEF RunInv, HistoryPart
  <1>3. HR!Filled(HR!AbstractQueue, 0, Data)
    BY <1>1, <1>2 DEF HistoryPart
  <1>4. /\ HR!InUse' /\ HR!NotInLoop' /\ inputs' = inputs + 1 /\ inputs' \in 1..MaxInputs
        /\ Ids' = HR!IdsWithNew(Ids, inputs')
        /\ HR!Filled(HR!AbstractQueue', 1, Data)
    BY <1>1, <1>2, <1>3, HistoryAssumptions, HR!CallAddImages DEF Ids
  <1>5. /\ Ids \in Seq(0..MaxInputs) /\ Len(Ids) \in 0..(M + 1) /\ inputs \in 0..MaxInputs
        /\ Ids \in Seq(Nat)
    BY <1>2, HeldFacts
  <1> DEFINE kept == IF Len(Ids) = M + 1 THEN M ELSE Len(Ids)
  <1>6. /\ Ids' # <<>> /\ Len(Ids') = kept + 1 /\ Ids'[1] = inputs'
        /\ \A k \in 1..kept : Ids'[k + 1] = Ids[k]
        /\ Tail(Ids') = SubSeq(Ids, 1, kept)
        /\ Len(Ids) # M + 1 => Tail(Ids') = Ids
    <2> DEFINE ids == Ids
               latest == inputs'
    <2>1. ids \in Seq(0..MaxInputs) /\ Len(ids) \in 0..(M + 1) /\ latest \in 0..MaxInputs
      BY <1>4, <1>5
    <2> HIDE DEF ids, latest
    <2>2. /\ HR!IdsWithNew(ids, latest) # <<>>
          /\ Len(HR!IdsWithNew(ids, latest)) = (IF Len(ids) = M + 1 THEN M ELSE Len(ids)) + 1
          /\ HR!IdsWithNew(ids, latest)[1] = latest
          /\ \A k \in 1..(IF Len(ids) = M + 1 THEN M ELSE Len(ids)) :
                HR!IdsWithNew(ids, latest)[k + 1] = ids[k]
          /\ Tail(HR!IdsWithNew(ids, latest))
                = SubSeq(ids, 1, IF Len(ids) = M + 1 THEN M ELSE Len(ids))
          /\ Len(ids) # M + 1 => Tail(HR!IdsWithNew(ids, latest)) = ids
      BY <2>1, NewIds
    <2> QED BY <1>4, <2>2 DEF ids, latest
  <1>7. HistoryPart'
    <2>1. ToStore' = Data /\ Data' = Data
      BY <1>1, DataFacts DEF ToStore, Data
    <2>2. HR!Filled(HR!AbstractQueue', 0, Data \ ToStore')
      BY <2>1 DEF HR!Filled
    <2>3. pending' \in Seq(Data) /\ Len(pending') <= 5
      <3>1. DataOfInput \in Seq(Data) /\ Len(DataOfInput) <= 5
        BY DataFacts
      <3> QED BY <1>1, <3>1
    <2> QED BY <1>1, <1>4, <2>1, <2>2, <2>3 DEF HistoryPart
  <1>8. BundlePart'
    <2>1. /\ currentInputNumber \in 0..inputs
          /\ firstTimeBundle => currentInputNumber = inputs
                                /\ Len(Ids) = IF inputs < M + 1 THEN inputs ELSE M + 1
          /\ ~firstTimeBundle => Len(Ids) >= M
          /\ firstTimeBundle \in BOOLEAN
      BY <1>1, <1>2 DEF BundlePart, Finished, Running
    <2>2. Finished' = inputs /\ Running'
      BY <1>1, <1>4, <1>5 DEF Finished, Running
    <2>3. firstTimeBundle => Len(Ids') = IF inputs' < M + 1 THEN inputs' ELSE M + 1
      BY <1>4, <1>5, <1>6, <2>1
    <2>4. ~firstTimeBundle => Len(Ids') = M + 1
      BY <1>5, <1>6, <2>1
    <2>5. pc' \notin {"remove", "discard"} /\ firstTimeBundle' = firstTimeBundle
          /\ currentInputNumber' = currentInputNumber
      BY <1>1
    <2>6. M' = M
      BY DEF M
    <2> HIDE DEF kept
    <2> QED BY <1>6, <2>1, <2>2, <2>3, <2>4, <2>5, <2>6 DEF BundlePart
  <1>9. MapPart'
    <2>1. Finished' = inputs /\ Running' /\ Finished = inputs /\ ~Running
      BY <1>1, <1>4, <1>5 DEF Finished, Running
    <2>2. /\ CloudsOf(pointCloudMap, inputs)
          /\ firstTimeBundle => pointCloudMap = <<>>
          /\ ~firstTimeBundle => Mapped(pointCloudMap, Ids, 0) /\ Len(Ids) >= M
      BY <1>2, <2>1 DEF MapPart, BundlePart
    <2>3. ASSUME ~firstTimeBundle PROVE Mapped(pointCloudMap, Ids', 1)
      <3>1. kept = M
        BY <1>5, <2>2, <2>3
      <3>2. \A k \in 1..M : Ids'[1 + k] = Ids[0 + k]
        BY <1>5, <1>6, <3>1
      <3>3. Ids'[1 + 1] = Ids[0 + 1]
        BY <3>2
      <3> QED BY <2>2, <2>3, <3>2, <3>3 DEF Mapped
    <2>4. pointCloudMap' = pointCloudMap /\ firstTimeBundle' = firstTimeBundle
      BY <1>1
    <2> QED BY <2>1, <2>2, <2>3, <2>4 DEF MapPart, CloudsOf, Mapped
  <1>10. RecorderPart'
    <2>1. ToAdd = <<>> /\ ToAdd' = <<>> /\ CanDiscard = FALSE /\ CanDiscard' = FALSE
          /\ Frames = Ids /\ Frames' = Tail(Ids')
      BY <1>1 DEF ToAdd, CanDiscard, Frames
    <2>2. RecorderInv'
      <3>1. CASE Len(Ids) = M + 1
        <4>1. M \in M..Len(Frames) /\ Frames' = SubSeq(Frames, 1, M)
          BY <1>5, <1>6, <2>1, <3>1
        <4>2. UNCHANGED recorderVars
          BY <1>1
        <4>3. ~addingNewSequence /\ RecorderInv
          BY <1>1, RecorderFacts
        <4>4. ToAdd' = ToAdd
          BY <2>1
        <4> QED BY <2>1, <4>1, <4>2, <4>3, <4>4, DropKeepsInv
      <3>2. CASE Len(Ids) # M + 1
        <4>1. Frames' = Frames /\ ToAdd' = ToAdd /\ (CanDiscard' => CanDiscard)
          BY <1>6, <2>1, <3>2
        <4>2. UNCHANGED recorderVars
          BY <1>1
        <4> QED BY <4>1, <4>2, RecorderIdle
      <3> QED BY <3>1, <3>2
    <2>3. addingNewSequence' = FALSE
      BY <1>1, RecorderFacts DEF recorderVars
    <2> QED BY <1>1, <2>2, <2>3 DEF RecorderPart
  <1> QED BY <1>1, <1>7, <1>8, <1>9, <1>10 DEF RunInv

LEMMA StoreDataKeeps == ASSUME RunInv, StoreData PROVE RunInv'
  <1> USE Constants
  <1> DEFINE d == Head(pending)
             before == Data \ ToStore
             after == Data \ ToStore'
  <1>1. /\ pc = "store" /\ pc' = "store" /\ pending # <<>> /\ pending' = Tail(pending)
        /\ UNCHANGED <<recorderVars, currentInputNumber, firstTimeBundle, pointCloudMap>>
        /\ bundleHistory!AddData(d)
    BY DEF StoreData
  <1>2. /\ HR!InUse /\ HR!NotInLoop /\ HR!Filled(HR!AbstractQueue, 1, Data)
        /\ HR!Filled(HR!AbstractQueue, 0, before)
        /\ pending \in Seq(Data) /\ Len(pending) <= 5
        /\ BundlePart /\ MapPart
    BY <1>1 DEF RunInv, HistoryPart
  <1>3. /\ d \in Data /\ Tail(pending) \in Seq(Data) /\ Len(Tail(pending)) = Len(pending) - 1
        /\ Len(pending) \in Nat /\ Len(pending) >= 1
        /\ \A i \in 1..(Len(pending) - 1) : Tail(pending)[i] = pending[i + 1]
        /\ d = pending[1]
    <2> DEFINE p == pending
    <2>1. p \in Seq(Data) /\ p # <<>>
      BY <1>1, <1>2
    <2> HIDE DEF p
    <2>2. /\ Head(p) \in Data /\ Tail(p) \in Seq(Data) /\ Len(Tail(p)) = Len(p) - 1
          /\ Len(p) \in Nat /\ Len(p) >= 1 /\ Head(p) = p[1]
          /\ \A i \in 1..(Len(p) - 1) : Tail(p)[i] = p[i + 1]
      BY ONLY <2>1, HeadTailProperties, EmptySeq, LenProperties
    <2> QED BY <2>2 DEF p
  <1>4. after \subseteq before \cup {d}
    <2> DEFINE p == pending
               n == Len(pending)
    <2>1. n \in Nat /\ n >= 1 /\ \A i \in 1..(n - 1) : Tail(p)[i] = p[i + 1]
      BY <1>3
    <2>2. ToStore = {p[i] : i \in 1..n} /\ ToStore' = {Tail(p)[i] : i \in 1..(n - 1)}
      BY <1>1, <1>3 DEF ToStore
    <2>3. d = p[1]
      BY <1>3
    <2> HIDE DEF p, n, d
    <2>4. ASSUME NEW i \in 1..n PROVE p[i] \in ToStore' \cup {d}
      <3>1. CASE i = 1
        BY <2>3, <3>1
      <3>2. CASE i # 1
        <4> DEFINE j == i - 1
        <4>1. j \in 1..(n - 1) /\ i = j + 1
          BY ONLY <2>1, <2>4, <3>2
        <4>2. p[i] = Tail(p)[j]
          BY <2>1, <4>1
        <4> QED BY <2>2, <4>1, <4>2
      <3> QED BY <3>1, <3>2
    <2> QED BY <2>2, <2>4
  <1>5. /\ HR!InUse' /\ HR!NotInLoop' /\ inputs' = inputs /\ Ids' = Ids
        /\ HR!Filled(HR!AbstractQueue', 1, Data)
        /\ HR!Filled(HR!AbstractQueue', 0, before \cup {d})
    <2>1. d \in Data /\ before \subseteq Data /\ Data \subseteq Data
      BY <1>3, DataFacts
    <2>2. HR!AddData(d)
      BY <1>1, <2>1, HistoryCalls
    <2> DEFINE all == Data
    <2>3. d \in Data /\ d \in all /\ HR!InUse /\ HR!AddData(d)
          /\ HR!Filled(HR!AbstractQueue, 1, all) /\ HR!Filled(HR!AbstractQueue, 0, before)
      BY <1>2, <1>3, <2>1, <2>2
    <2> HIDE DEF d, before, all
    <2>4. /\ HR!InUse' /\ HR!NotInLoop' /\ inputs' = inputs /\ HR!Ids' = HR!Ids
          /\ HR!Filled(HR!AbstractQueue', 1, all)
          /\ HR!Filled(HR!AbstractQueue', 0, before \cup {d})
      BY ONLY <2>3, HistoryAssumptions, HR!CallAddData DEF Data
    <2> QED BY <2>4 DEF Ids, all
  <1>6. HR!Filled(HR!AbstractQueue', 0, after)
    <2> HIDE DEF after, before, d
    <2> QED BY <1>4, <1>5, FilledWithLess
  <1>7. HistoryPart'
    <2>1. Data' = Data
      BY DEF Data
    <2>2. pending' \in Seq(Data) /\ Len(pending') <= 5
      BY <1>1, <1>2, <1>3
    <2>3. HR!Filled(HR!AbstractQueue', 0, Data' \ ToStore')
      BY <1>6, <2>1
    <2> QED BY <1>1, <1>5, <2>1, <2>2, <2>3 DEF HistoryPart
  <1>8. BundlePart' /\ MapPart'
    <2>1. Finished' = Finished /\ (Running' <=> Running) /\ M' = M
      BY <1>1, <1>5 DEF Finished, Running, M
    <2> QED BY <1>1, <1>2, <1>5, <2>1 DEF BundlePart, MapPart, CloudsOf, Mapped, Clouds
  <1>9. RecorderPart'
    <2>1. Frames' = Frames /\ ToAdd' = ToAdd /\ (CanDiscard' => CanDiscard)
          /\ UNCHANGED recorderVars
      BY <1>1, <1>5 DEF Frames, ToAdd, CanDiscard
    <2>2. RecorderInv'
      BY <2>1, RecorderIdle
    <2>3. addingNewSequence' = FALSE
      BY <1>1, RecorderFacts DEF recorderVars
    <2> QED BY <1>1, <2>2, <2>3 DEF RecorderPart
  <1> QED BY <1>1, <1>7, <1>8, <1>9 DEF RunInv

-----------------------------------------------------------------------------
(* What CreateWorkingCorrespondences reads and adds.                       *)

\* The history answers with the inputs held.
Readable == HR!InUse /\ HR!NotInLoop /\ HR!Filled(HR!AbstractQueue, 0, Data)

LEMMA ReadsHeld ==
    ASSUME Readable
    PROVE  /\ \A k \in 1..Len(Ids) : Ids[k] \in 1..inputs
           /\ \A j, k \in 1..Len(Ids) : Ids[j] = Ids[k] => j = k
           /\ \A c \in Data \cup {bundleHistory!Image} : \A b \in 0..M :
                 GetData(c, b) = IF b < Len(Ids) THEN Ids[b + 1] ELSE 0
  <1>1. HR!InUse /\ HR!NotInLoop /\ HR!Filled(HR!AbstractQueue, 0, Data)
    BY DEF Readable
  <1>2. /\ \A k \in 1..Len(Ids) : Ids[k] \in 1..inputs
        /\ \A j, k \in 1..Len(Ids) : Ids[j] = Ids[k] => j = k
    BY <1>1, HistoryAssumptions, HR!IdsAreDistinct DEF Ids
  <1>3. \A c \in Data \cup {HR!Image} : \A b \in 0..M :
           HR!GetData(c, b) = IF b < Len(Ids) THEN Ids[b + 1] ELSE 0
    <2> DEFINE data == Data
    <2>1. data \in SUBSET Data
      OBVIOUS
    <2> HIDE DEF data
    <2>2. \A c \in data \cup {HR!Image}, b \in HR!Slots :
              HR!GetData(c, b) = IF b < Len(HR!Ids) THEN HR!Ids[b + 1] ELSE HR!NULL
      BY <1>1, <2>1, HistoryAssumptions, HR!GettersReadIds DEF Data, data
    <2> QED BY <2>2, Constants DEF data, Ids
  <1> QED BY <1>2, <1>3, HistoryReads

\* The data of one step back are there for the inputs held, and of none before them.
LEMMA HeldDatum ==
    ASSUME Readable, NEW c \in Data, NEW b \in 0..M
    PROVE  /\ GetData(c, b) # 0 <=> b < Len(Ids)
           /\ b < Len(Ids) => GetData(c, b) = Ids[b + 1] /\ b + 1 \in 1..Len(Ids)
  <1> USE Constants
  <1>1. Len(Ids) \in Nat /\ inputs \in Nat
    BY HeldFacts DEF Readable
  <1>2. GetData(c, b) = IF b < Len(Ids) THEN Ids[b + 1] ELSE 0
    BY ReadsHeld
  <1>3. ASSUME b < Len(Ids) PROVE b + 1 \in 1..Len(Ids) /\ Ids[b + 1] # 0
    <2>1. b + 1 \in 1..Len(Ids)
      BY <1>1, <1>3
    <2>2. Ids[b + 1] \in 1..inputs
      BY <2>1, ReadsHeld
    <2> QED BY <1>1, <2>1, <2>2
  <1> QED BY <1>2, <1>3

LEMMA PastPairsAreHeld ==
    ASSUME Readable, Ids # <<>>, NEW k, k = LatestCount(Ids, M)
    PROVE  /\ k \in 1..M /\ k \in 1..Len(Ids)
           /\ PastPairs = 1..(k - 1) /\ Cardinality(PastPairs) = k - 1
  <1> USE Constants
  <1> DEFINE n == Len(Ids)
  <1>1. n \in Nat /\ n >= 1 /\ k = IF n < M THEN n ELSE M
    BY HeldFacts, EmptySeq DEF Readable, LatestCount
  <1>2. k \in 1..M /\ k \in 1..n
    BY <1>1
  <1>3. \A b \in 0..M : PairIsComplete(b) <=> b < n
    <2> SUFFICES ASSUME NEW b \in 0..M PROVE PairIsComplete(b) <=> b < n
      OBVIOUS
    <2>1. /\ GetData(LEFT, b) # 0 <=> b < n
          /\ GetData(RIGHT, b) # 0 <=> b < n
          /\ GetData(MATCHES, b) # 0 <=> b < n
          /\ GetData(TRIANGULATION_CLOUD, b) # 0 <=> b < n
      BY HeldDatum DEF Data
    <2> QED BY <2>1 DEF PairIsComplete
  <1>4. PastPairs = 1..(k - 1)
    <2>0. PastPairs = {b \in 1..(M - 1) : \A step \in 1..b : PairIsComplete(step)}
      BY DEF PastPairs, M
    <2>1. ASSUME NEW b \in PastPairs PROVE b \in 1..(k - 1)
      <3>1. b \in 1..(M - 1) /\ b \in 1..b /\ b \in 0..M
        BY <2>0, <2>1
      <3>2. PairIsComplete(b)
        BY <2>0, <2>1, <3>1
      <3>3. b < n
        BY <1>3, <3>1, <3>2
      <3> HIDE DEF n
      <3> QED BY <1>1, <3>1, <3>3
    <2>2. ASSUME NEW b \in 1..(k - 1) PROVE b \in PastPairs
      <3>1. b \in 1..(M - 1)
        BY <1>2, <2>2
      <3>2. ASSUME NEW step \in 1..b PROVE PairIsComplete(step)
        <4>1. step \in 0..M /\ step < n
          BY <1>1, <1>2, <2>2, <3>1, <3>2
        <4> QED BY <1>3, <4>1
      <3> QED BY <2>0, <3>1, <3>2
    <2> QED BY <2>1, <2>2
  <1>5. Cardinality(1..(k - 1)) = k - 1
    <2>1. 1 \in Int /\ k - 1 \in Int
      BY <1>2
    <2>2. Cardinality(1..(k - 1)) = IF 1 > k - 1 THEN 0 ELSE (k - 1) - 1 + 1
      BY <2>1, FS_Interval
    <2> HIDE DEF n
    <2> QED BY <1>2, <2>2
  <1> QED BY <1>2, <1>4, <1>5

\* The maps added for a pair are those between it and the pairs before it.
LEMMA WorkingMapsAreTheNewPairs ==
    ASSUME Readable, Ids # <<>>
    PROVE  WorkingCorrespondences = MapsOfNewPair(Ids)
  <1> USE Constants
  <1> DEFINE k == LatestCount(Ids, M)
             new == MapsOfNewPair(Ids)
             old == WorkingCorrespondences
  <1>1. Ids \in Seq(Nat)
    BY HeldFacts DEF Readable
  <1>2. /\ new \in Seq(Maps) /\ Len(new) = k - 1
        /\ \A b \in 1..(k - 1) : new[b] = <<Ids[1], Ids[1 + b]>>
    BY <1>1, NewPairFacts
  <1>3. k \in 1..M /\ k \in 1..Len(Ids) /\ Cardinality(PastPairs) = k - 1 /\ Len(Ids) \in Nat
    <2> HIDE DEF k
    <2> QED BY PastPairsAreHeld, HeldFacts DEF k, Readable
  <1>4. old = [b \in 1..(k - 1) |-> <<GetData(MATCHES, 0), GetData(MATCHES, b)>>]
    BY <1>3 DEF WorkingCorrespondences
  <1> HIDE DEF k, new, old
  <1>5. ASSUME NEW b \in 1..(k - 1)
        PROVE  <<GetData(MATCHES, 0), GetData(MATCHES, b)>> = new[b]
    <2>1. b \in 0..M /\ 0 \in 0..M /\ b < Len(Ids) /\ 0 < Len(Ids) /\ 1 + b = b + 1
      BY <1>3, <1>5
    <2>2. MATCHES \in Data
      BY DEF Data
    <2>3. GetData(MATCHES, b) = Ids[b + 1] /\ GetData(MATCHES, 0) = Ids[0 + 1]
      BY <2>1, <2>2, HeldDatum
    <2> QED BY <1>2, <1>5, <2>1, <2>3
  <1>6. old = [b \in 1..(k - 1) |-> new[b]]
    BY <1>4, <1>5
  <1>7. new = [b \in 1..(k - 1) |-> new[b]]
    BY <1>2, LenProperties
  <1> QED BY <1>6, <1>7 DEF old, new

-----------------------------------------------------------------------------
(* The steps that tell the recorder of an input.                           *)

LEMMA HistoryStays ==
    ASSUME RunInv, UNCHANGED historyVars
    PROVE  /\ HR!InUse' /\ HR!NotInLoop' = HR!NotInLoop /\ inputs' = inputs
           /\ HR!AbstractQueue' = HR!AbstractQueue /\ Ids' = Ids
  <1>1. UNCHANGED HR!vars
    BY HistoryCalls
  <1>2. HR!InUse
    BY DEF RunInv, HistoryPart
  <1> QED BY <1>1, <1>2, HistoryAssumptions, HR!NoCall DEF Ids

\* Every datum of the latest entry is stored once nothing is left to store.
LEMMA AllStored ==
    ASSUME RunInv, pc \in {"correspond", "estimate", "idle", "discard"} \/ pending = <<>>,
           pc # "remove"
    PROVE  Readable
  <1>1. CASE pc # "store"
    BY <1>1 DEF RunInv, HistoryPart, Readable
  <1>2. CASE pc = "store"
    <2>1. pending = <<>> /\ HR!Filled(HR!AbstractQueue, 0, Data \ ToStore)
      BY <1>2 DEF RunInv, HistoryPart
    <2>2. Len(pending) = 0
      BY <2>1, EmptySeq
    <2>3. ToStore = {}
      BY <2>2 DEF ToStore
    <2>4. Data \ ToStore = Data
      BY <2>3
    <2> QED BY <1>2, <2>1, <2>4 DEF RunInv, HistoryPart, Readable
  <1> QED BY <1>1, <1>2

\* A call of the recorder changes neither the history nor the map.
LEMMA HistoryIdle ==
    ASSUME RunInv, UNCHANGED historyVars, Readable,
           UNCHANGED <<currentInputNumber, firstTimeBundle, pointCloudMap>>,
           Running, Running', pc' # "store"
    PROVE  HistoryPart' /\ BundlePart' /\ MapPart'
  <1> USE Constants
  <1>1. /\ HR!InUse' /\ HR!NotInLoop' = HR!NotInLoop /\ inputs' = inputs
        /\ HR!AbstractQueue' = HR!AbstractQueue /\ Ids' = Ids
    BY HistoryStays
  <1>2. HistoryPart'
    <2>1. Data' = Data /\ pc' # "remove"
      BY DEF Data, Running
    <2>2. HR!Filled(HR!AbstractQueue', 0, Data')
      BY <1>1, <2>1 DEF Readable
    <2> QED BY <1>1, <2>1, <2>2 DEF HistoryPart, Readable
  <1>3. BundlePart' /\ MapPart'
    <2>1. Finished' = Finished /\ M' = M /\ pc' \notin {"remove", "discard"}
      BY <1>1 DEF Finished, Running, M
    <2>2. BundlePart /\ MapPart
      BY DEF RunInv
    <2> QED BY <1>1, <2>1, <2>2 DEF BundlePart, MapPart, CloudsOf, Mapped, Clouds
  <1> QED BY <1>2, <1>3

LEMMA InitializeNewSequenceKeeps == ASSUME RunInv, InitializeNewSequence PROVE RunInv'
  <1> USE Constants
  <1>1. /\ pc = "store" /\ pending = <<>>
        /\ recorder!InitializeNewSequence
        /\ pc' = IF aborted' THEN "exited" ELSE "correspond"
        /\ pending' = WorkingCorrespondences
        /\ UNCHANGED <<historyVars, currentInputNumber, firstTimeBundle, pointCloudMap>>
    BY DEF InitializeNewSequence
  <1>2. ~addingNewSequence /\ RecorderInv /\ aborted = FALSE
    BY <1>1, RecorderFacts
  <1>3. aborted' = FALSE /\ addingNewSequence' = TRUE
    BY <1>1, <1>2 DEF recorder!InitializeNewSequence
  <1>4. pc' = "correspond"
    BY <1>1, <1>3
  <1>5. Ids' = Ids /\ Readable /\ HistoryPart' /\ BundlePart' /\ MapPart'
    <2>1. Readable
      BY <1>1, AllStored
    <2> QED BY <1>1, <1>4, <2>1, HistoryIdle, HistoryStays DEF Running
  <1>6. Ids # <<>> /\ Ids \in Seq(Nat)
    BY <1>1, HeldFacts DEF RunInv, BundlePart, Running, HistoryPart
  <1>7. WorkingCorrespondences = MapsOfNewPair(Ids)
    BY <1>5, <1>6, WorkingMapsAreTheNewPairs
  <1>8. RecorderPart'
    <2>1. Frames = Tail(Ids) /\ Frames' = Ids /\ ToAdd' = MapsOfNewPair(Ids)
      BY <1>1, <1>4, <1>5, <1>7 DEF Frames, ToAdd
    <2>2. /\ Frames' \in Seq(Nat) /\ Frames' # <<>> /\ Tail(Frames') = Frames
          /\ ToAdd' = MapsOfNewPair(Frames')
      BY <1>6, <2>1
    <2>3. RecorderInv'
      BY <1>1, <1>2, <2>2, BeginKeepsInv
    <2> QED BY <1>3, <1>4, <2>3 DEF RecorderPart
  <1> QED BY <1>4, <1>5, <1>8 DEF RunInv

LEMMA AddCorrespondencesKeeps ==
    ASSUME RunInv, AddCorrespondencesFromTwoImagePairs
    PROVE  RunInv'
  <1>1. /\ pc = "correspond" /\ pending # <<>>
        /\ recorder!AddCorrespondencesFromTwoImagePairs(Head(pending))
        /\ pc' = IF aborted' THEN "exited" ELSE pc
        /\ pending' = Tail(pending)
        /\ UNCHANGED <<historyVars, currentInputNumber, firstTimeBundle, pointCloudMap>>
    BY DEF AddCorrespondencesFromTwoImagePairs
  <1>2. addingNewSequence /\ RecorderInv /\ aborted = FALSE
    BY <1>1, RecorderFacts
  <1>3. /\ ToAdd = pending /\ Frames = Ids /\ Ids' = Ids
        /\ pc' \in {"correspond", "exited"}
    BY <1>1, HistoryStays DEF ToAdd, Frames
  <1>4. RecorderInv' /\ addingNewSequence' = TRUE /\ aborted' = FALSE /\ pc' = "correspond"
    <2>1. aborted' = FALSE => pc' = "correspond"
      BY <1>1
    <2>2. aborted' = FALSE
      BY <1>1, <1>2 DEF recorder!AddCorrespondencesFromTwoImagePairs
    <2>3. ToAdd' = Tail(ToAdd) /\ Frames' = Frames
      BY <1>1, <1>3, <2>1, <2>2 DEF ToAdd, Frames
    <2> QED BY <1>1, <1>2, <1>3, <2>1, <2>3, AddKeepsInv
  <1>5. HistoryPart' /\ BundlePart' /\ MapPart'
    <2>1. Readable
      BY <1>1, AllStored
    <2> QED BY <1>1, <1>4, <2>1, HistoryIdle DEF Running
  <1>6. RecorderPart'
    BY <1>4 DEF RecorderPart
  <1> QED BY <1>4, <1>5, <1>6 DEF RunInv

LEMMA CompleteNewSequenceKeeps == ASSUME RunInv, CompleteNewSequence PROVE RunInv'
  <1>1. /\ pc = "correspond" /\ pending = <<>>
        /\ recorder!CompleteNewSequence
        /\ pc' = IF aborted' THEN "exited" ELSE "estimate"
        /\ UNCHANGED <<historyVars, currentInputNumber, firstTimeBundle, pending, pointCloudMap>>
    BY DEF CompleteNewSequence
  <1>2. addingNewSequence /\ RecorderInv
    BY <1>1, RecorderFacts
  <1>3. Ids' = Ids
    BY <1>1, HistoryStays
  <1>4. RecorderInv' /\ addingNewSequence' = FALSE /\ aborted' = FALSE
    <2>1. ToAdd = <<>> /\ ToAdd' = ToAdd /\ Frames' = Frames
      BY <1>1, <1>3 DEF ToAdd, Frames
    <2> QED BY <1>1, <1>2, <2>1, EndKeepsInv
  <1>5. pc' = "estimate"
    BY <1>1, <1>4
  <1>7. HistoryPart' /\ BundlePart' /\ MapPart'
    <2>1. Readable
      BY <1>1, AllStored
    <2> QED BY <1>1, <1>5, <2>1, HistoryIdle DEF Running
  <1>8. RecorderPart'
    BY <1>1, <1>4, <1>5 DEF RecorderPart
  <1> QED BY <1>5, <1>7, <1>8 DEF RunInv

-----------------------------------------------------------------------------
(* The ends of run().                                                      *)

\* The inputs counted as seen grow by one when run() returns.
LEMMA BundleFacts ==
    ASSUME RunInv, pc \in {"estimate", "remove", "discard"}
    PROVE  /\ inputs \in 1..MaxInputs /\ inputs \in Nat /\ Len(Ids) \in 0..(M + 1)
           /\ Ids \in Seq(Nat) /\ Ids \in Seq(0..MaxInputs)
           /\ Finished = inputs - 1 /\ currentInputNumber \in 0..(inputs - 1)
           /\ firstTimeBundle \in BOOLEAN
           /\ CloudsOf(pointCloudMap, inputs - 1)
           /\ firstTimeBundle => currentInputNumber = inputs - 1
  <1> USE Constants
  <1>1. BundlePart /\ MapPart /\ HR!InUse
    BY DEF RunInv, HistoryPart
  <1>2. /\ inputs \in 0..MaxInputs /\ Len(Ids) \in 0..(M + 1)
        /\ Ids \in Seq(Nat) /\ Ids \in Seq(0..MaxInputs)
    BY <1>1, HeldFacts
  <1>3. Finished = inputs - 1
    BY DEF Finished
  <1>4. /\ currentInputNumber \in 0..(inputs - 1) /\ firstTimeBundle \in BOOLEAN
        /\ firstTimeBundle => currentInputNumber = inputs - 1
    BY <1>1, <1>3 DEF BundlePart
  <1>5. CloudsOf(pointCloudMap, inputs - 1)
    BY <1>1, <1>3 DEF MapPart
  <1> QED BY <1>2, <1>3, <1>4, <1>5

LEMMA MoreClouds ==
    ASSUME NEW map, NEW n \in Nat, CloudsOf(map, n - 1)
    PROVE  CloudsOf(map, n)
  BY DEF CloudsOf

\* run() returns with the history and the recorder as they are.
LEMMA ReturnKeeps ==
    ASSUME RunInv, pc = "estimate", pc' = "idle",
           UNCHANGED <<historyVars, recorderVars, pending>>
    PROVE  /\ HistoryPart' /\ RecorderPart' /\ Ids' = Ids /\ inputs' = inputs
           /\ Finished' = inputs /\ ~Running'
  <1>1. /\ HR!InUse' /\ HR!NotInLoop' = HR!NotInLoop /\ inputs' = inputs
        /\ HR!AbstractQueue' = HR!AbstractQueue /\ Ids' = Ids
    BY HistoryStays
  <1>2. HistoryPart'
    <2>1. Data' = Data
      BY DEF Data
    <2>2. Readable
      BY AllStored
    <2> QED BY <1>1, <2>1, <2>2 DEF HistoryPart, Readable
  <1>3. RecorderPart'
    <2>1. Frames' = Frames /\ ToAdd' = ToAdd /\ (CanDiscard' => CanDiscard)
          /\ UNCHANGED recorderVars
      BY <1>1 DEF Frames, ToAdd, CanDiscard
    <2>2. RecorderInv'
      BY <2>1, RecorderIdle
    <2>3. addingNewSequence' = FALSE /\ pending' = <<>>
      BY RecorderFacts DEF recorderVars
    <2> QED BY <2>2, <2>3 DEF RecorderPart
  <1> QED BY <1>1, <1>2, <1>3 DEF Finished, Running

LEMMA FirstBundleFailsKeeps == ASSUME RunInv, FirstBundleFails PROVE RunInv'
  <1> USE Constants
  <1>1. /\ pc = "estimate" /\ pc' = "idle" /\ firstTimeBundle
        /\ currentInputNumber' = currentInputNumber + 1
        /\ UNCHANGED <<historyVars, recorderVars, firstTimeBundle, pending, pointCloudMap>>
    BY DEF FirstBundleFails
  <1>2. /\ HistoryPart' /\ RecorderPart' /\ Ids' = Ids /\ inputs' = inputs
        /\ Finished' = inputs /\ ~Running' /\ M' = M
    BY <1>1, ReturnKeeps DEF M
  <1>3. /\ inputs \in Nat /\ currentInputNumber = inputs - 1 /\ firstTimeBundle \in BOOLEAN
        /\ CloudsOf(pointCloudMap, inputs)
    BY <1>1, BundleFacts, MoreClouds
  <1>4. /\ pointCloudMap = <<>>
        /\ Len(Ids) = IF inputs < M + 1 THEN inputs ELSE M + 1
    BY <1>1 DEF RunInv, MapPart, BundlePart
  <1>5. BundlePart'
    BY <1>1, <1>2, <1>3, <1>4 DEF BundlePart
  <1>6. MapPart'
    BY <1>1, <1>2, <1>3, <1>4 DEF MapPart, CloudsOf, Clouds
  <1> QED BY <1>1, <1>2, <1>5, <1>6 DEF RunInv

\* What the adjusted bundle consists of.
LEMMA BundleIsHeld ==
    ASSUME RunInv, pc = "estimate", ~TooFewInputs
    PROVE  /\ M <= Len(Ids) /\ (~firstTimeBundle => Len(Ids) = M + 1)
           /\ Ids # <<>> /\ Ids[1] = inputs
           /\ \A b \in 0..M : \A c \in Data \cup {bundleHistory!Image} :
                 GetData(c, b) = IF b < Len(Ids) THEN Ids[b + 1] ELSE 0
           /\ \A k \in 1..Len(Ids) : Ids[k] \in 1..inputs
           /\ \A j, k \in 1..Len(Ids) : Ids[j] = Ids[k] => j = k
  <1> USE Constants
  <1>1. /\ \A k \in 1..Len(Ids) : Ids[k] \in 1..inputs
        /\ \A j, k \in 1..Len(Ids) : Ids[j] = Ids[k] => j = k
        /\ \A c \in Data \cup {bundleHistory!Image} : \A b \in 0..M :
              GetData(c, b) = IF b < Len(Ids) THEN Ids[b + 1] ELSE 0
    BY AllStored, ReadsHeld
  <1>2. /\ Ids # <<>> /\ Ids[1] = inputs
        /\ ~firstTimeBundle => Len(Ids) = M + 1
        /\ firstTimeBundle => Len(Ids) = IF inputs < M + 1 THEN inputs ELSE M + 1
    BY DEF RunInv, BundlePart, Running
  <1>3. M <= Len(Ids)
    <2>1. /\ inputs \in Nat /\ currentInputNumber \in 0..(inputs - 1)
          /\ Len(Ids) \in 0..(M + 1)
      BY BundleFacts
    <2>2. currentInputNumber + 1 >= M
      BY <2>1 DEF TooFewInputs, M
    <2> QED BY <1>2, <2>1, <2>2
  <1> QED BY <1>1, <1>2, <1>3

\* A transform the estimator returned is one of the maps it was given.
LEMMA PoseTypes ==
    ASSUME RunInv, NEW b \in Nat
    PROVE  GetPose(b) \in Maps
  <1> DEFINE maps == recorder!GetLatestCorrespondences
  <1>1. /\ sequences \in [Buffers -> Seq(Maps)] /\ working \in Buffers
        /\ recorder!history \in Buffers
    BY RecorderFacts, RecorderReads, OtherBuffer DEF RecorderInv, RecorderTypes
  <1>2. maps \in Seq(Maps)
    BY <1>1 DEF recorder!GetLatestCorrespondences
  <1>3. GetPose(b) = IF b + 1 \in DOMAIN maps THEN maps[b + 1] ELSE UNKNOWN_MAP
    BY DEF GetPose
  <1> HIDE DEF maps
  <1>4. b + 1 \in DOMAIN maps => maps[b + 1] \in Maps
    BY <1>2, ElementOfSeq, LenProperties
  <1> QED BY <1>3, <1>4, MapTypes

\* The clouds of the first bundle, one for each of the M latest inputs.
LEMMA AllCloudsAreMapped ==
    ASSUME RunInv, pc = "estimate", ~TooFewInputs, NEW input, input \in 1..MaxInputs, NEW map,
           map = [k \in 1..M |-> MappedCloud(M - k, IF M - k = 0 THEN <<input, input>>
                                                   ELSE GetPose(M - k))]
    PROVE  CloudsOf(map, inputs) /\ Mapped(map, Ids, 0)
  <1> USE Constants
  <1>1. /\ M <= Len(Ids) /\ Len(Ids) \in Nat
        /\ \A b \in 0..M : \A c \in Data \cup {bundleHistory!Image} :
              GetData(c, b) = IF b < Len(Ids) THEN Ids[b + 1] ELSE 0
        /\ \A k \in 1..Len(Ids) : Ids[k] \in 1..inputs
        /\ \A j, k \in 1..Len(Ids) : Ids[j] = Ids[k] => j = k
    BY BundleIsHeld, BundleFacts
  <1>2. inputs \in Nat /\ inputs \in 1..MaxInputs
    BY BundleFacts
  <1> DEFINE P(b) == IF b = 0 THEN <<input, input>> ELSE GetPose(b)
             N(k) == (M - k) + 1
  <1>3. ASSUME NEW k \in 1..M
        PROVE  /\ map[k].cloud = Ids[N(k)] /\ N(k) \in 1..Len(Ids) /\ N(k) \in 1..M
               /\ map[k] \in Clouds
    <2> DEFINE b == M - k
    <2>1. b \in 0..M /\ b < Len(Ids) /\ b + 1 = N(k) /\ N(k) \in 1..Len(Ids)
          /\ b \in Nat /\ N(k) \in 1..M
      BY <1>1
    <2>2. STEREO_CLOUD \in Data \cup {bundleHistory!Image}
      BY DEF Data
    <2>3. P(b) \in Maps
      <3>1. <<input, input>> \in Maps
        BY DEF Maps
      <3>2. GetPose(b) \in Maps
        <4> HIDE DEF b
        <4> QED BY <2>1, PoseTypes
      <3> QED BY <3>1, <3>2
    <2>4. map[k] = MappedCloud(b, P(b))
      OBVIOUS
    <2> HIDE DEF b, P, N
    <2>5. GetData(STEREO_CLOUD, b) = Ids[N(k)]
      BY <1>1, <2>1, <2>2
    <2>6. map[k] = [cloud |-> Ids[N(k)], transform |-> P(b)]
      BY <2>4, <2>5 DEF MappedCloud
    <2>7. Ids[N(k)] \in 0..MaxInputs
      BY <1>1, <1>2, <2>1
    <2> QED BY <2>1, <2>3, <2>6, <2>7 DEF Clouds
  <1>4. map \in Seq(Clouds) /\ Len(map) = M
    <2>1. map \in [1..M -> Clouds]
      BY <1>3
    <2> QED BY <2>1, FunctionIsSequence
  <1>5. CloudsOf(map, inputs)
    <2>1. \A k \in 1..M : map[k].cloud \in 1..inputs
      BY <1>1, <1>3
    <2>2. \A j, k \in 1..M : map[j].cloud = map[k].cloud => j = k
      <3> SUFFICES ASSUME NEW j \in 1..M, NEW k \in 1..M, map[j].cloud = map[k].cloud
                   PROVE  j = k
        OBVIOUS
      <3>1. N(j) = N(k)
        <4> HIDE DEF N
        <4>1. Ids[N(j)] = Ids[N(k)] /\ N(j) \in 1..Len(Ids) /\ N(k) \in 1..Len(Ids)
          BY <1>3
        <4> QED BY <1>1, <4>1
      <3> QED BY <3>1
    <2> QED BY <1>4, <2>1, <2>2 DEF CloudsOf
  <1>6. Mapped(map, Ids, 0)
    <2>1. ASSUME NEW k \in 1..M
          PROVE  N(k) \in 1..Len(map) /\ map[N(k)].cloud = Ids[0 + k]
      <3>1. N(k) \in 1..M /\ N(N(k)) = 0 + k
        OBVIOUS
      <3> HIDE DEF N
      <3> QED BY <1>3, <1>4, <3>1
    <2>2. map # <<>> /\ map[Len(map)].cloud = Ids[0 + 1]
      <3>1. M \in 1..M /\ N(M) = 0 + 1
        OBVIOUS
      <3>2. map[M].cloud = Ids[N(M)]
        <4> HIDE DEF N
        <4> QED BY <1>3, <3>1
      <3> QED BY <1>4, <3>1, <3>2, EmptySeq
    <2> QED BY <2>1, <2>2 DEF Mapped
  <1> QED BY <1>5, <1>6

\* A later bundle adds the cloud of the latest input.
LEMMA LastCloudIsMapped ==
    ASSUME RunInv, pc = "estimate", ~TooFewInputs, ~firstTimeBundle, NEW map,
           map = Append(pointCloudMap, MappedCloud(0, GetPose(0)))
    PROVE  CloudsOf(map, inputs) /\ Mapped(map, Ids, 0)
  <1> USE Constants
  <1> DEFINE new == MappedCloud(0, GetPose(0))
             old == pointCloudMap
             n == Len(pointCloudMap)
  <1>1. /\ Len(Ids) = M + 1 /\ Ids[1] = inputs
        /\ \A b \in 0..M : \A c \in Data \cup {bundleHistory!Image} :
              GetData(c, b) = IF b < Len(Ids) THEN Ids[b + 1] ELSE 0
        /\ \A k \in 1..Len(Ids) : Ids[k] \in 1..inputs
        /\ inputs \in Nat /\ inputs \in 1..MaxInputs
    BY BundleIsHeld, BundleFacts
  <1>2. new.cloud = inputs /\ new \in Clouds
    <2>1. STEREO_CLOUD \in Data \cup {bundleHistory!Image}
      BY DEF Data
    <2>2. 0 \in 0..M /\ 0 < Len(Ids) /\ 0 + 1 = 1
      BY <1>1
    <2>3. GetData(STEREO_CLOUD, 0) = Ids[1]
      BY <1>1, <2>1, <2>2
    <2>4. GetPose(0) \in Maps
      BY PoseTypes
    <2>5. new = [cloud |-> inputs, transform |-> GetPose(0)]
      BY <1>1, <2>3 DEF MappedCloud
    <2>6. inputs \in 0..MaxInputs
      BY <1>1
    <2> HIDE DEF new
    <2> QED BY <2>4, <2>5, <2>6 DEF Clouds
  <1>3. /\ old \in Seq(Clouds) /\ n \in Nat
        /\ \A k \in 1..n : old[k].cloud \in 1..(inputs - 1)
        /\ \A j, k \in 1..n : old[j].cloud = old[k].cloud => j = k
    <2>1. CloudsOf(old, inputs - 1)
      BY BundleFacts
    <2> QED BY <2>1, LenProperties DEF CloudsOf
  <1>4. Mapped(old, Ids, 1)
    BY DEF RunInv, MapPart, Running
  <1>5. /\ map \in Seq(Clouds) /\ Len(map) = n + 1
        /\ \A k \in 1..n : map[k] = old[k]
        /\ map[n + 1] = new
    <2>1. map = Append(old, new)
      OBVIOUS
    <2> HIDE DEF new, old
    <2>2. /\ Append(old, new) \in Seq(Clouds) /\ Len(Append(old, new)) = Len(old) + 1
          /\ \A k \in 1..Len(old) : Append(old, new)[k] = old[k]
          /\ Append(old, new)[Len(old) + 1] = new
      BY <1>2, <1>3, AppendProperties
    <2> QED BY <2>1, <2>2 DEF old
  <1> HIDE DEF new, old, n
  <1>6. \A k \in 1..(n + 1) : /\ k \in 1..n => map[k].cloud = old[k].cloud
                              /\ k \notin 1..n => k = n + 1 /\ map[k].cloud = inputs
    BY <1>2, <1>3, <1>5
  <1>7. CloudsOf(map, inputs)
    <2>0. inputs \in 1..inputs /\ \A i \in 1..(inputs - 1) : i \in 1..inputs /\ i # inputs
      BY <1>1
    <2>1. ASSUME NEW k \in 1..(n + 1) PROVE map[k].cloud \in 1..inputs
      <3>1. CASE k \in 1..n
        BY <1>3, <1>6, <2>0, <3>1
      <3>2. CASE k \notin 1..n
        BY <1>6, <2>0, <3>2
      <3> QED BY <3>1, <3>2
    <2>2. ASSUME NEW j \in 1..(n + 1), NEW k \in 1..(n + 1), map[j].cloud = map[k].cloud
          PROVE  j = k
      <3>1. \A i \in 1..n : old[i].cloud # inputs
        BY <1>3, <2>0
      <3>2. CASE j \in 1..n /\ k \in 1..n
        <4>1. old[j].cloud = old[k].cloud
          BY <1>6, <2>2, <3>2
        <4> QED BY <1>3, <3>2, <4>1
      <3>3. CASE j \in 1..n /\ k \notin 1..n
        BY <1>6, <2>2, <3>1, <3>3
      <3>4. CASE j \notin 1..n /\ k \in 1..n
        BY <1>6, <2>2, <3>1, <3>4
      <3>5. CASE j \notin 1..n /\ k \notin 1..n
        BY <1>6, <3>5
      <3> QED BY <3>2, <3>3, <3>4, <3>5
    <2> QED BY <1>5, <2>1, <2>2 DEF CloudsOf
  <1>8. Mapped(map, Ids, 0)
    <2>1. ASSUME NEW k \in 1..M PROVE \E j \in 1..(n + 1) : map[j].cloud = Ids[0 + k]
      <3>1. CASE k = 1
        <4>1. n + 1 \in 1..(n + 1) /\ n + 1 \notin 1..n /\ 0 + k = 1
          BY <1>3, <3>1
        <4> QED BY <1>1, <1>6, <4>1
      <3>2. CASE k # 1
        <4> DEFINE i == k - 1
        <4>1. i \in 1..M /\ 1 + i = 0 + k
          BY <2>1, <3>2
        <4> HIDE DEF i
        <4>2. PICK j \in 1..n : old[j].cloud = Ids[1 + i]
          BY <1>4, <4>1 DEF Mapped, n, old
        <4>3. j \in 1..(n + 1)
          BY <1>3
        <4> QED BY <1>6, <4>1, <4>2, <4>3
      <3> QED BY <3>1, <3>2
    <2>2. map # <<>> /\ map[Len(map)].cloud = Ids[0 + 1]
      <3>1. n + 1 \in 1..(n + 1) /\ n + 1 \notin 1..n /\ Len(map) # 0
        BY <1>3, <1>5
      <3> QED BY <1>1, <1>5, <1>6, <3>1, EmptySeq
    <2> QED BY <1>5, <2>1, <2>2 DEF Mapped
  <1> QED BY <1>7, <1>8

LEMMA LatestCloud ==
    ASSUME RunInv, pc = "estimate", ~TooFewInputs
    PROVE  GetData(STEREO_CLOUD, 0) = Ids[1] /\ Ids[1] = inputs
           /\ GetData(STEREO_CLOUD, 0) \in 1..MaxInputs
  <1> USE Constants
  <1>1. STEREO_CLOUD \in Data \cup {bundleHistory!Image} /\ 0 \in 0..M /\ 0 + 1 = 1
    BY DEF Data
  <1>2. /\ M <= Len(Ids) /\ Len(Ids) \in Nat /\ inputs \in 1..MaxInputs /\ Ids[1] = inputs
        /\ \A b \in 0..M : \A c \in Data \cup {bundleHistory!Image} :
              GetData(c, b) = IF b < Len(Ids) THEN Ids[b + 1] ELSE 0
    BY BundleIsHeld, BundleFacts
  <1> QED BY <1>1, <1>2

LEMMA EstimationSucceedsKeeps == ASSUME RunInv, EstimationSucceeds PROVE RunInv'
  <1> USE Constants
  <1>1. /\ pc = "estimate" /\ pc' = "idle" /\ ~TooFewInputs
        /\ firstTimeBundle' = FALSE
        /\ currentInputNumber' = currentInputNumber + 1
        /\ UNCHANGED <<historyVars, recorderVars, pending>>
        /\ AddAllPointCloudsToMap \/ AddLastPointCloudToMap
    BY DEF EstimationSucceeds
  <1>2. /\ HistoryPart' /\ RecorderPart' /\ Ids' = Ids /\ inputs' = inputs
        /\ Finished' = inputs /\ ~Running' /\ M' = M
    BY <1>1, ReturnKeeps DEF M
  <1>3. CloudsOf(pointCloudMap', inputs) /\ Mapped(pointCloudMap', Ids, 0)
    <2>1. CASE AddAllPointCloudsToMap
      <3> DEFINE input == GetData(STEREO_CLOUD, 0)
                 all == [k \in 1..M |-> MappedCloud(M - k, IF M - k = 0 THEN <<input, input>>
                                                          ELSE GetPose(M - k))]
      <3>1. pointCloudMap = <<>> /\ pointCloudMap' = pointCloudMap \o all
        BY <2>1 DEF AddAllPointCloudsToMap, RunInv, MapPart, M
      <3>2. CloudsOf(all, inputs) /\ Mapped(all, Ids, 0)
        <4> DEFINE map == all
        <4>1. map = [k \in 1..M |-> MappedCloud(M - k, IF M - k = 0 THEN <<input, input>>
                                                      ELSE GetPose(M - k))]
          OBVIOUS
        <4>3. input \in 1..MaxInputs
          BY <1>1, LatestCloud
        <4> HIDE DEF map, input
        <4>2. CloudsOf(map, inputs) /\ Mapped(map, Ids, 0)
          BY <1>1, <4>1, <4>3, AllCloudsAreMapped
        <4> QED BY <4>2 DEF map
      <3> HIDE DEF all
      <3>3. pointCloudMap' = all
        <4>1. all \in Seq(Clouds)
          BY <3>2 DEF CloudsOf
        <4> QED BY <3>1, <4>1, ConcatEmptySeq
      <3> QED BY <3>2, <3>3
    <2>2. CASE AddLastPointCloudToMap
      <3> DEFINE map == Append(pointCloudMap, MappedCloud(0, GetPose(0)))
      <3>1. ~firstTimeBundle /\ pointCloudMap' = map
        BY <2>2 DEF AddLastPointCloudToMap
      <3>2. map = Append(pointCloudMap, MappedCloud(0, GetPose(0)))
        OBVIOUS
      <3> HIDE DEF map
      <3>3. CloudsOf(map, inputs) /\ Mapped(map, Ids, 0)
        BY <1>1, <3>1, <3>2, LastCloudIsMapped
      <3> QED BY <3>1, <3>3
    <2> QED BY <1>1, <2>1, <2>2
  <1>4. /\ inputs \in Nat /\ currentInputNumber \in 0..(inputs - 1)
        /\ M <= Len(Ids) /\ Len(Ids) \in Nat
    BY <1>1, BundleFacts, BundleIsHeld
  <1>5. BundlePart'
    <2>1. currentInputNumber' \in 0..inputs
      BY <1>1, <1>4
    <2>2. Len(Ids) >= M
      BY <1>4
    <2> QED BY <1>1, <1>2, <2>1, <2>2 DEF BundlePart
  <1>6. MapPart'
    BY <1>1, <1>2, <1>3 DEF MapPart, CloudsOf, Clouds, Mapped
  <1> QED BY <1>1, <1>2, <1>5, <1>6 DEF RunInv

LEMMA LaterBundleFailsKeeps == ASSUME RunInv, LaterBundleFails PROVE RunInv'
  <1> USE Constants
  <1>1. /\ pc = "estimate" /\ pc' = "remove" /\ ~firstTimeBundle
        /\ HR!RemoveEntry(0)
        /\ UNCHANGED <<recorderVars, currentInputNumber, firstTimeBundle, pending, pointCloudMap>>
    BY HistoryCalls DEF LaterBundleFails
  <1>2. /\ HR!InUse /\ HR!Filled(HR!AbstractQueue, 0, Data) /\ Len(Ids) = M + 1
        /\ Ids # <<>> /\ Ids[1] = inputs
        /\ Mapped(pointCloudMap, Ids, 1)
    BY <1>1 DEF RunInv, HistoryPart, BundlePart, MapPart, Running
  <1>3. /\ HR!InUse' /\ ~HR!NotInLoop' /\ inputs' = inputs /\ Ids' = Tail(Ids)
        /\ HR!Filled(HR!AbstractQueue', 0, Data)
    <2>1. Len(HR!Ids) >= 2
      BY <1>2 DEF Ids
    <2> DEFINE data == Data
    <2>2. HR!Filled(HR!AbstractQueue, 0, data)
      BY <1>2
    <2> HIDE DEF data
    <2>3. /\ HR!InUse' /\ ~HR!NotInLoop' /\ inputs' = inputs /\ HR!Ids' = Tail(HR!Ids)
          /\ HR!Filled(HR!AbstractQueue', 0, data)
      BY <1>1, <1>2, <2>1, <2>2, HistoryAssumptions, HR!CallRemoveLatest
    <2> QED BY <2>3 DEF Ids, data
  <1>4. /\ inputs \in 1..MaxInputs /\ inputs \in Nat /\ Ids \in Seq(Nat)
        /\ currentInputNumber \in 0..(inputs - 1) /\ firstTimeBundle \in BOOLEAN
        /\ CloudsOf(pointCloudMap, inputs - 1)
    BY <1>1, BundleFacts
  <1>5. Len(Ids') = M /\ \A k \in 1..M : Ids'[k] = Ids[1 + k]
    <2> DEFINE s == Ids
    <2>1. s \in Seq(Nat) /\ s # <<>> /\ Len(s) = M + 1
      BY <1>2, <1>4
    <2> HIDE DEF s
    <2>2. /\ Len(Tail(s)) = Len(s) - 1
          /\ \A k \in 1..(Len(s) - 1) : Tail(s)[k] = s[k + 1]
      BY <2>1, HeadTailProperties
    <2>3. Len(Tail(s)) = M /\ \A k \in 1..M : Tail(s)[k] = s[1 + k]
      BY <2>1, <2>2
    <2> QED BY <1>3, <2>3 DEF s
  <1>6. HistoryPart'
    <2>1. Data' = Data
      BY DEF Data
    <2> QED BY <1>1, <1>3, <2>1 DEF HistoryPart
  <1>7. Finished' = inputs - 1 /\ ~Running' /\ M' = M
    BY <1>1, <1>3 DEF Finished, Running, M
  <1>8. BundlePart'
    <2>1. Len(Ids') >= M
      BY <1>5
    <2> QED BY <1>1, <1>4, <1>7, <2>1 DEF BundlePart
  <1>9. MapPart'
    <2>1. Mapped(pointCloudMap, Ids', 0)
      <3>1. \A k \in 1..M : Ids'[0 + k] = Ids[1 + k]
        BY <1>5
      <3>2. Ids'[0 + 1] = Ids[1 + 1]
        BY <3>1
      <3> QED BY <1>2, <3>1, <3>2 DEF Mapped
    <2> QED BY <1>1, <1>4, <1>7, <2>1 DEF MapPart, CloudsOf, Clouds, Mapped
  <1>10. RecorderPart'
    <2>1. <<inputs>> \o Tail(Ids) = Ids
      <3> DEFINE s == Ids
      <3>1. s \in Seq(Nat) /\ s # <<>> /\ s[1] = inputs
        BY <1>2, <1>4
      <3> HIDE DEF s
      <3>2. <<s[1]>> \o Tail(s) = s
        BY <3>1, ConsOfHeadAndTail
      <3> QED BY <3>1, <3>2 DEF s
    <2>2. Frames = Ids /\ Frames' = Ids
      BY <1>1, <1>3, <2>1 DEF Frames
    <2>3. Frames' = Frames /\ ToAdd' = ToAdd /\ (CanDiscard' => CanDiscard)
          /\ UNCHANGED recorderVars
      BY <1>1, <2>2 DEF ToAdd, CanDiscard
    <2>4. RecorderInv'
      BY <2>3, RecorderIdle
    <2>5. addingNewSequence' = FALSE /\ pending' = <<>>
      BY <1>1, RecorderFacts DEF recorderVars
    <2> QED BY <1>1, <2>4, <2>5 DEF RecorderPart
  <1> QED BY <1>1, <1>6, <1>8, <1>9, <1>10 DEF RunInv

LEMMA RemoveEntryLoopKeeps == ASSUME RunInv, RemoveEntryLoop PROVE RunInv'
  <1> USE Constants
  <1>1. /\ pc = "remove" /\ HR!RemovalLoop
        /\ pc' = IF removing' = bundleHistory!NO_RECENT_ENTRY THEN "discard" ELSE pc
        /\ UNCHANGED <<recorderVars, currentInputNumber, firstTimeBundle, pending, pointCloudMap>>
    BY HistoryCalls DEF RemoveEntryLoop
  <1>2. HR!InUse /\ HR!Filled(HR!AbstractQueue, 0, Data) /\ BundlePart /\ MapPart
    BY <1>1 DEF RunInv, HistoryPart
  <1>3. /\ HR!InUse' /\ inputs' = inputs /\ HR!AbstractQueue' = HR!AbstractQueue /\ Ids' = Ids
    BY <1>1, <1>2, HistoryAssumptions, HR!CallRemovalLoop DEF Ids
  <1>4. /\ pc' \in {"remove", "discard"}
        /\ HR!NotInLoop' <=> pc' # "remove"
    BY <1>1 DEF HR!NotInLoop, HR!NO_RECENT_ENTRY, bundleHistory!NO_RECENT_ENTRY
  <1>5. HistoryPart'
    <2>1. Data' = Data
      BY DEF Data
    <2> QED BY <1>2, <1>3, <1>4, <2>1 DEF HistoryPart
  <1>6. BundlePart' /\ MapPart'
    <2>1. Finished' = Finished /\ M' = M /\ ~Running /\ ~Running'
      BY <1>1, <1>3, <1>4 DEF Finished, Running, M
    <2> QED BY <1>1, <1>2, <1>3, <1>4, <2>1 DEF BundlePart, MapPart, CloudsOf, Mapped, Clouds
  <1>7. RecorderPart'
    <2>1. Frames' = Frames /\ ToAdd' = ToAdd /\ (CanDiscard' => CanDiscard)
          /\ UNCHANGED recorderVars
      BY <1>1, <1>3, <1>4 DEF Frames, ToAdd, CanDiscard
    <2>2. RecorderInv'
      BY <2>1, RecorderIdle
    <2>3. addingNewSequence' = FALSE /\ pending' = <<>>
      BY <1>1, RecorderFacts DEF recorderVars
    <2> QED BY <1>4, <2>2, <2>3 DEF RecorderPart
  <1> QED BY <1>4, <1>5, <1>6, <1>7 DEF RunInv

LEMMA DiscardLatestCorrespondencesKeeps ==
    ASSUME RunInv, DiscardLatestCorrespondences PROVE RunInv'
  <1> USE Constants
  <1>1. /\ pc = "discard"
        /\ recorder!DiscardLatestCorrespondences
        /\ pc' = IF aborted' THEN "exited" ELSE "idle"
        /\ UNCHANGED <<historyVars, currentInputNumber, firstTimeBundle, pending, pointCloudMap>>
    BY DEF DiscardLatestCorrespondences
  <1>2. RecorderInv /\ ~addingNewSequence /\ addingNewSequence = FALSE /\ pending = <<>>
    BY <1>1, RecorderFacts
  <1>3. /\ HR!InUse' /\ HR!NotInLoop' = HR!NotInLoop /\ inputs' = inputs
        /\ HR!AbstractQueue' = HR!AbstractQueue /\ Ids' = Ids
    BY <1>1, HistoryStays
  <1>4. /\ inputs \in 1..MaxInputs /\ inputs \in Nat /\ Ids \in Seq(Nat)
        /\ currentInputNumber \in 0..(inputs - 1) /\ firstTimeBundle \in BOOLEAN
        /\ CloudsOf(pointCloudMap, inputs)
    BY <1>1, BundleFacts, MoreClouds
  <1>5. RecorderInv' /\ addingNewSequence' = addingNewSequence /\ aborted' = FALSE
    <2>1. Tail(<<inputs>> \o Ids) = Ids
      <3> DEFINE s == Ids
      <3>1. s \in Seq(Nat) /\ inputs \in Nat
        BY <1>4
      <3> HIDE DEF s
      <3>2. Tail(<<inputs>> \o s) = s
        BY <3>1, ConsFacts
      <3> QED BY <3>2 DEF s
    <2>2. Frames = <<inputs>> \o Ids /\ Frames' = Ids
      BY <1>1, <1>3 DEF Frames
    <2>3. Frames' = Tail(Frames) /\ ToAdd' = ToAdd
      BY <1>1, <2>1, <2>2 DEF ToAdd
    <2>4. CanDiscard
      BY <1>1 DEF CanDiscard
    <2>5. CanDiscard' = FALSE
      BY <1>1 DEF CanDiscard
    <2>6. RecorderInv /\ ~addingNewSequence
      BY <1>2
    <2>7. recorder!DiscardLatestCorrespondences
      BY <1>1
    <2> QED BY ONLY <2>3, <2>4, <2>5, <2>6, <2>7, DiscardKeepsInv
  <1>6. aborted' = FALSE /\ pc' = "idle"
    BY <1>1, <1>5
  <1>7. HistoryPart'
    <2>1. Data' = Data
      BY DEF Data
    <2>2. Readable
      BY <1>1, AllStored
    <2> QED BY <1>3, <1>6, <2>1, <2>2 DEF HistoryPart, Readable
  <1>8. Finished' = inputs /\ ~Running' /\ ~Running /\ M' = M
    BY <1>1, <1>3, <1>6 DEF Finished, Running, M
  <1>9. ~firstTimeBundle /\ Len(Ids) >= M /\ Mapped(pointCloudMap, Ids, 0)
    BY <1>1, <1>8 DEF RunInv, BundlePart, MapPart
  <1>10. BundlePart'
    <2>1. currentInputNumber' \in 0..inputs
      BY <1>1, <1>4
    <2> QED BY <1>1, <1>3, <1>4, <1>8, <1>9, <2>1 DEF BundlePart
  <1>11. MapPart'
    BY <1>1, <1>3, <1>4, <1>8, <1>9 DEF MapPart, CloudsOf, Clouds, Mapped
  <1>12. RecorderPart'
    <2>1. addingNewSequence' = FALSE
      BY <1>2, <1>5
    <2> QED BY <1>1, <1>2, <1>5, <1>6, <2>1 DEF RecorderPart
  <1> QED BY <1>6, <1>7, <1>10, <1>11, <1>12 DEF RunInv

LEMMA StutterKeeps == ASSUME RunInv, UNCHANGED vars PROVE RunInv'
  <1> USE Constants
  <1>1. UNCHANGED historyVars /\ UNCHANGED recorderVars
        /\ UNCHANGED <<currentInputNumber, firstTimeBundle, pc, pending, pointCloudMap>>
    BY DEF vars, runVars
  <1>2. /\ HR!InUse' /\ HR!NotInLoop' = HR!NotInLoop /\ inputs' = inputs
        /\ HR!AbstractQueue' = HR!AbstractQueue /\ Ids' = Ids
    BY <1>1, HistoryStays
  <1>3. HistoryPart'
    BY <1>1, <1>2 DEF RunInv, HistoryPart, Data, ToStore
  <1>4. BundlePart' /\ MapPart'
    <2>1. Finished' = Finished /\ M' = M /\ Running' = Running
      BY <1>1, <1>2 DEF Finished, Running, M
    <2> QED BY <1>1, <1>2, <2>1 DEF RunInv, BundlePart, MapPart, CloudsOf, Mapped, Clouds
  <1>5. RecorderPart'
    <2>1. Frames' = Frames /\ ToAdd' = ToAdd /\ (CanDiscard' => CanDiscard)
      BY <1>1, <1>2 DEF Frames, ToAdd, CanDiscard
    <2>2. RecorderInv'
      BY <1>1, <2>1, RecorderIdle
    <2>3. addingNewSequence' = addingNewSequence
      BY <1>1 DEF recorderVars
    <2> QED BY <1>1, <2>2, <2>3 DEF RunInv, RecorderPart
  <1> QED BY <1>1, <1>3, <1>4, <1>5 DEF RunInv

LEMMA StepKeeps == RunInv /\ [Next]_vars => RunInv'
  <1> SUFFICES ASSUME RunInv, [Next]_vars PROVE RunInv'
    OBVIOUS
  <1>1. CASE AddImages
    BY <1>1, AddImagesKeeps
  <1>2. CASE StoreData
    BY <1>2, StoreDataKeeps
  <1>3. CASE InitializeNewSequence
    BY <1>3, InitializeNewSequenceKeeps
  <1>4. CASE AddCorrespondencesFromTwoImagePairs
    BY <1>4, AddCorrespondencesKeeps
  <1>5. CASE CompleteNewSequence
    BY <1>5, CompleteNewSequenceKeeps
  <1>6. CASE EstimationSucceeds
    BY <1>6, EstimationSucceedsKeeps
  <1>7. CASE FirstBundleFails
    BY <1>7, FirstBundleFailsKeeps
  <1>8. CASE LaterBundleFails
    BY <1>8, LaterBundleFailsKeeps
  <1>9. CASE RemoveEntryLoop
    BY <1>9, RemoveEntryLoopKeeps
  <1>10. CASE DiscardLatestCorrespondences
    BY <1>10, DiscardLatestCorrespondencesKeeps
  <1>11. CASE UNCHANGED vars
    BY <1>11, StutterKeeps
  <1> QED
    BY <1>1, <1>2, <1>3, <1>4, <1>5, <1>6, <1>7, <1>8, <1>9, <1>10, <1>11 DEF Next, InsideRun

\* History, recorder, map and the count of inputs agree in every state that
\* run() of EstimationFromStereo goes through.
THEOREM RunInvariant == Spec => []RunInv
  BY InitKeeps, StepKeeps, PTL DEF Spec

-----------------------------------------------------------------------------
(* What follows.                                                           *)

LEMMA MapsStillToAdd ==
    ASSUME RecorderInv, addingNewSequence, ToAdd = pending
    PROVE  Len(pending) <= M - 1 /\ Len(pending) \in Nat
  <1> USE Constants
  <1> DEFINE before == sequences[working]
             maps == MapsOfNewPair(Frames)
             k == LatestCount(Frames, M)
  <1>1. /\ before \in Seq(Maps) /\ pending \in Seq(Maps)
        /\ before \o pending = maps
        /\ Frames \in Seq(Nat) /\ Frames # <<>>
    BY DEF RecorderInv, RecorderTypes, InsideSequence
  <1>2. Len(before) \in Nat /\ Len(pending) \in Nat
    BY <1>1, LenProperties
  <1>3. Len(maps) = k - 1 /\ k \in 1..M
    <2> DEFINE pairs == Frames
    <2>1. pairs \in Seq(Nat) /\ pairs # <<>>
      BY <1>1
    <2> HIDE DEF pairs
    <2>2. /\ Len(MapsOfNewPair(pairs)) = LatestCount(pairs, M) - 1
          /\ LatestCount(pairs, M) \in 1..M
      BY <2>1, NewPairFacts
    <2> QED BY <2>2 DEF pairs
  <1> HIDE DEF before, maps, k
  <1>4. Len(before \o pending) = Len(before) + Len(pending)
    BY <1>1, ConcatProperties
  <1> QED BY <1>1, <1>2, <1>3, <1>4

\* The indices of the history stay in their ranges, no more is pending than
\* the data of one input or its maps, and the map holds clouds of inputs.
THEOREM TypesHold == Spec => []TypeOK
  <1>1. ASSUME RunInv PROVE TypeOK
    <2> USE Constants
    <2>1. HistoryPart /\ BundlePart /\ MapPart /\ HR!InUse
      BY <1>1 DEF RunInv, HistoryPart
    <2>2. bundleHistory!TypeOK
      BY <2>1, HistoryReads DEF HR!InUse, HR!IInv
    <2>3. inputs \in 0..MaxInputs /\ Finished \in Int /\ Finished <= MaxInputs
      BY <2>1, HeldFacts DEF Finished
    <2>4. currentInputNumber \in 0..MaxInputs /\ firstTimeBundle \in BOOLEAN
      BY <2>1, <2>3 DEF BundlePart
    <2>5. Len(pending) <= 5 + M
      <3>1. CASE pc = "store"
        <4>1. pending \in Seq(Data) /\ Len(pending) <= 5
          BY <2>1, <3>1 DEF HistoryPart
        <4>2. Len(pending) \in Nat
          BY <4>1, LenProperties
        <4> QED BY <4>1, <4>2
      <3>2. CASE pc = "correspond"
        <4>1. ToAdd = pending
          BY <3>2 DEF ToAdd
        <4>2. Len(pending) <= M - 1 /\ Len(pending) \in Nat
          BY <1>1, <3>2, <4>1, RecorderFacts, MapsStillToAdd
        <4> QED BY <4>2
      <3>3. CASE pc \notin {"store", "correspond"}
        <4>1. Len(pending) = 0
          BY <1>1, <3>3, RecorderFacts, EmptySeq
        <4> QED BY <4>1
      <3> QED BY <3>1, <3>2, <3>3
    <2>6. \A k \in DOMAIN pointCloudMap : pointCloudMap[k].cloud \in 0..MaxInputs
      <3>1. /\ pointCloudMap \in Seq(Clouds)
            /\ \A k \in 1..Len(pointCloudMap) : pointCloudMap[k].cloud \in 1..Finished
        BY <2>1 DEF MapPart, CloudsOf
      <3>2. DOMAIN pointCloudMap = 1..Len(pointCloudMap)
        BY <3>1, LenProperties
      <3>3. 1..Finished \subseteq 0..MaxInputs
        BY <2>3
      <3> QED BY <3>1, <3>2, <3>3
    <2>7. pc \in {"idle", "store", "correspond", "estimate", "remove", "discard", "exited"}
      BY <1>1 DEF RunInv
    <2>8. Len(DataOfInput) = 5
      BY DEF DataOfInput
    <2> QED BY <2>2, <2>4, <2>5, <2>6, <2>7, <2>8 DEF TypeOK, M
  <1> QED BY <1>1, RunInvariant, PTL

\* No ASSERT of the recorder fails, whatever inputs the estimator rejects.
THEOREM NoAssertEverFails == Spec => []NoAssertFails
  <1>1. ASSUME RunInv PROVE NoAssertFails
    BY <1>1, RecorderFacts DEF NoAssertFails
  <1> QED BY <1>1, RunInvariant, PTL

\* The pointers that are dereferenced for an estimated bundle are not NULL.
THEOREM DereferencedExists == Spec => []DereferencedDataExists
  <1>1. ASSUME RunInv PROVE DereferencedDataExists
    <2> USE Constants
    <2> SUFFICES ASSUME pc = "estimate", ~TooFewInputs,
                        NEW b \in 0..(M - 1)
                 PROVE  GetData(STEREO_CLOUD, b) # NULL
      BY DEF DereferencedDataExists, M
    <2>1. M <= Len(Ids) /\ Len(Ids) \in Nat /\ Readable
      BY <1>1, BundleIsHeld, BundleFacts, AllStored
    <2>2. b \in 0..M /\ b < Len(Ids) /\ STEREO_CLOUD \in Data
      BY <2>1 DEF Data
    <2> QED BY <2>1, <2>2, HeldDatum
  <1> QED BY <1>1, RunInvariant, PTL

\* Between two runs each input of the bundle is in the map, none twice.
THEOREM MapHoldsBundle == Spec => []MapHoldsTheBundleOnce
  <1>1. ASSUME RunInv PROVE MapHoldsTheBundleOnce
    <2> USE Constants
    <2> SUFFICES ASSUME pc = "idle", ~firstTimeBundle PROVE MapHoldsTheBundleOnce
      BY DEF MapHoldsTheBundleOnce
    <2>1. /\ CloudsOf(pointCloudMap, Finished) /\ Mapped(pointCloudMap, Ids, 0)
          /\ Len(Ids) >= M /\ HR!InUse
      BY <1>1 DEF RunInv, MapPart, BundlePart, HistoryPart, Running
    <2>2. DOMAIN pointCloudMap = 1..Len(pointCloudMap)
      BY <2>1, LenProperties DEF CloudsOf
    <2>3. \A j, k \in DOMAIN pointCloudMap :
             pointCloudMap[j].cloud = pointCloudMap[k].cloud => j = k
      BY <2>1, <2>2 DEF CloudsOf
    <2>4. ASSUME NEW b \in 0..(M - 1)
          PROVE  \E k \in DOMAIN pointCloudMap :
                     pointCloudMap[k].cloud = GetData(bundleHistory!Image, b)
      <3> DEFINE i == b + 1
      <3>1. Readable /\ Len(Ids) \in Nat
        BY <1>1, <2>1, AllStored, HeldFacts
      <3>2. b \in 0..M /\ b < Len(Ids) /\ i \in 1..M /\ 0 + i = b + 1
        BY <2>1, <3>1
      <3>3. GetData(bundleHistory!Image, b) = Ids[b + 1]
        BY <3>1, <3>2, ReadsHeld
      <3> HIDE DEF i
      <3>4. \E k \in 1..Len(pointCloudMap) : pointCloudMap[k].cloud = Ids[0 + i]
        BY <2>1, <3>2 DEF Mapped
      <3> QED BY <2>2, <3>2, <3>3, <3>4
    <2> QED BY <2>3, <2>4 DEF MapHoldsTheBundleOnce, M
  <1> QED BY <1>1, RunInvariant, PTL

LEMMA KeptPairsAreHeld ==
    ASSUME Readable
    PROVE  KeptPairs = Latest(Ids, M)
  <1> USE Constants
  <1> DEFINE k == LatestCount(Ids, M)
             kept == Latest(Ids, M)
             data(b) == GetData(bundleHistory!Image, b)
             present == {b \in 0..(M - 1) : data(b) # NULL}
  <1>1. /\ Ids \in Seq(Nat) /\ Len(Ids) \in Nat /\ inputs \in Nat
    BY HeldFacts DEF Readable
  <1>2. k \in 0..M /\ k \in 0..Len(Ids) /\ k = IF Len(Ids) < M THEN Len(Ids) ELSE M
    BY <1>1 DEF LatestCount
  <1>3. \A b \in 0..M : data(b) = IF b < Len(Ids) THEN Ids[b + 1] ELSE 0
    BY ReadsHeld
  <1>4. \A b \in 0..(M - 1) : data(b) # NULL <=> b < k
    <2> SUFFICES ASSUME NEW b \in 0..(M - 1) PROVE data(b) # NULL <=> b < k
      OBVIOUS
    <2>1. b < k <=> b < Len(Ids)
      BY <1>1, <1>2
    <2>2. b \in 0..M
      OBVIOUS
    <2>3. CASE b < Len(Ids)
      <3>1. b + 1 \in 1..Len(Ids)
        BY <1>1, <2>3
      <3>2. Ids[b + 1] \in 1..inputs
        BY <3>1, ReadsHeld
      <3>3. Ids[b + 1] # 0
        BY <1>1, <3>2
      <3> QED BY <1>3, <2>1, <2>2, <2>3, <3>3
    <2>4. CASE ~(b < Len(Ids))
      BY <1>3, <2>1, <2>2, <2>4
    <2> QED BY <2>3, <2>4
  <1>5. Cardinality(present) = k
    <2>1. present = 0..(k - 1)
      <3> HIDE DEF data, k
      <3>1. present = {b \in 0..(M - 1) : b < k}
        BY <1>4
      <3>2. {b \in 0..(M - 1) : b < k} = 0..(k - 1)
        BY <1>2
      <3> QED BY <3>1, <3>2
    <2>2. 0 \in Int /\ k - 1 \in Int
      BY <1>2
    <2>3. Cardinality(0..(k - 1)) = IF 0 > k - 1 THEN 0 ELSE (k - 1) - 0 + 1
      BY <2>2, FS_Interval
    <2> HIDE DEF present, k
    <2> QED BY <1>2, <2>1, <2>3
  <1>6. /\ kept \in Seq(Nat) /\ Len(kept) = k
        /\ \A i \in 1..k : kept[i] = Ids[i]
    <2> DEFINE m == M
    <2>1. m \in Nat
      OBVIOUS
    <2> HIDE DEF m
    <2>2. /\ Latest(Ids, m) \in Seq(Nat) /\ Len(Latest(Ids, m)) = LatestCount(Ids, m)
          /\ \A i \in 1..LatestCount(Ids, m) : Latest(Ids, m)[i] = Ids[i]
      BY <1>1, <2>1, LatestFacts
    <2> QED BY <2>2 DEF m
  <1>7. [i \in 1..k |-> data(i - 1)] = kept
    <2>1. kept = [i \in 1..k |-> kept[i]]
      <3> HIDE DEF kept, k
      <3> QED BY <1>6, LenProperties
    <2>2. ASSUME NEW i \in 1..k PROVE data(i - 1) = kept[i]
      <3>1. i - 1 \in 0..M /\ i - 1 < Len(Ids) /\ (i - 1) + 1 = i
        BY <1>1, <1>2, <2>2
      <3>2. data(i - 1) = Ids[i]
        <4> DEFINE j == i - 1
        <4>1. j \in 0..M /\ j < Len(Ids) /\ j + 1 = i
          BY <3>1
        <4> HIDE DEF j, data
        <4>2. data(j) = Ids[j + 1]
          BY <1>3, <4>1
        <4> QED BY <4>1, <4>2 DEF j
      <3> QED BY <1>6, <2>2, <3>2
    <2> QED BY <2>1, <2>2
  <1>8. KeptPairs = [i \in 1..Cardinality(present) |-> data(i - 1)]
    BY DEF KeptPairs, M
  <1> QED BY <1>5, <1>7, <1>8

\* Up to three pairs, history and recorder forget the same inputs, however
\* many are rejected.  From the fourth pair on the recorder keeps maps of the
\* wrong pairs.
THEOREM RecorderAgrees ==
    numberOfAdjustedStereoPairs <= 3 => (Spec => []RecorderAgreesWithHistory)
  <1> SUFFICES ASSUME numberOfAdjustedStereoPairs <= 3
               PROVE  Spec => []RecorderAgreesWithHistory
    OBVIOUS
  <1>1. ASSUME RunInv PROVE RecorderAgreesWithHistory
    <2> SUFFICES ASSUME pc \in {"estimate", "idle"}
                 PROVE  recorder!GetLatestCorrespondences = AllMaps(KeptPairs)
      BY DEF RecorderAgreesWithHistory
    <2>1. Readable /\ Frames = Ids
      BY <1>1, AllStored DEF Frames
    <2>2. RecorderInv /\ addingNewSequence = FALSE
      BY <1>1, RecorderFacts
    <2>3. /\ latestSequence = (IF oneCorrespondenceWasAddedSinceLastDiscard
                               THEN working ELSE recorder!history)
          /\ sequences[latestSequence] = MapsOf(Frames)
      BY <2>2 DEF RecorderInv, BetweenSequences, M
    <2>4. recorder!GetLatestCorrespondences = MapsOf(Ids)
      BY <2>1, <2>3 DEF recorder!GetLatestCorrespondences
    <2>5. KeptPairs = Latest(Ids, M)
      BY <2>1, KeptPairsAreHeld
    <2> QED BY <2>4, <2>5 DEF MapsOf
  <1> QED BY <1>1, RunInvariant, PTL

\* The transform a new cloud is attached with is the one between its input
\* and the cloud added last.  A bundle of one pair has no transform at all.
THEOREM AttachedToLatest ==
    numberOfAdjustedStereoPairs >= 2 => (Spec => AttachedToLatestCloud)
  <1> SUFFICES ASSUME numberOfAdjustedStereoPairs >= 2
               PROVE  Spec => AttachedToLatestCloud
    OBVIOUS
  <1> DEFINE Attached == GetPose(0) = <<GetData(STEREO_CLOUD, 0),
                                        pointCloudMap[Len(pointCloudMap)].cloud>>
  <1>1. ASSUME RunInv, pc = "estimate", ~firstTimeBundle PROVE Attached
    <2> USE Constants
    <2> DEFINE maps == sequences[working]
               new == MapsOfNewPair(Ids)
    <2>1. /\ Ids # <<>> /\ Len(Ids) = M + 1 /\ Mapped(pointCloudMap, Ids, 1)
          /\ Frames = Ids /\ CanDiscard /\ M >= 2
      BY <1>1 DEF RunInv, BundlePart, MapPart, Running, Frames, CanDiscard, M
    <2>2. pointCloudMap[Len(pointCloudMap)].cloud = Ids[2]
      <3>1. 1 + 1 = 2
        OBVIOUS
      <3> QED BY <2>1, <3>1 DEF Mapped
    <2>3. Readable /\ Ids \in Seq(Nat)
      BY <1>1, AllStored, HeldFacts DEF Readable
    <2>4. GetData(STEREO_CLOUD, 0) = Ids[1]
      <3>1. 0 \in 0..M /\ 0 < Len(Ids) /\ 0 + 1 = 1 /\ STEREO_CLOUD \in Data
        BY <2>1 DEF Data
      <3> QED BY <2>3, <3>1, HeldDatum
    <2>5. new # <<>> /\ new[1] = <<Ids[1], Ids[2]>>
      <3> DEFINE k == LatestCount(Ids, M)
      <3>1. /\ Len(new) = k - 1
            /\ \A b \in 1..(k - 1) : new[b] = <<Ids[1], Ids[1 + b]>>
        BY <2>1, <2>3, NewPairFacts
      <3>2. k = M
        BY <2>1 DEF LatestCount
      <3> HIDE DEF k, new
      <3>3. 1 \in 1..(k - 1) /\ 1 + 1 = 2 /\ Len(new) # 0
        BY <2>1, <3>1, <3>2
      <3> QED BY <3>1, <3>3, EmptySeq
    <2>6. /\ oneCorrespondenceWasAddedSinceLastDiscard
          /\ BeginsLike(maps, new) /\ maps \in Seq(Maps)
      <3>1. RecorderInv /\ addingNewSequence = FALSE
        BY <1>1, RecorderFacts
      <3> QED BY <2>1, <3>1 DEF RecorderInv, RecorderTypes, BetweenSequences
    <2>7. recorder!GetLatestCorrespondences = maps
      BY <2>6 DEF recorder!GetLatestCorrespondences
    <2> HIDE DEF maps, new
    <2>8. maps # <<>> /\ maps[1] = <<Ids[1], Ids[2]>>
      BY <2>5, <2>6 DEF BeginsLike
    <2>9. 0 + 1 \in DOMAIN maps /\ maps[0 + 1] = maps[1]
      <3>1. Len(maps) \in Nat /\ Len(maps) # 0 /\ DOMAIN maps = 1..Len(maps)
        BY <2>6, <2>8, EmptySeq, LenProperties
      <3> QED BY <3>1
    <2>10. GetPose(0) = maps[1]
      BY <2>7, <2>9 DEF GetPose
    <2> QED BY <2>2, <2>4, <2>8, <2>10
  <1>2. RunInv => (pc = "estimate" /\ AddLastPointCloudToMap => Attached)
    BY <1>1 DEF AddLastPointCloudToMap
  <1>3. RunInv => [pc = "estimate" /\ AddLastPointCloudToMap => Attached]_vars
    BY <1>2
  <1> QED BY <1>3, RunInvariant, PTL DEF AttachedToLatestCloud
=============================================================================
