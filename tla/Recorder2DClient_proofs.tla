------------------------ MODULE Recorder2DClient_proofs ------------------------
(***************************************************************************)
(* Why the latest maps of the 2d recorder are those of the kept pairs, for *)
(* every number of pairs and for the one to five poses whose maps find     *)
(* room in the storage.  The lemmas about the steps speak of the recorder  *)
(* and of the client's variables alone, so that they hold of any client    *)
(* that follows the protocol.                                              *)
(***************************************************************************)
EXTENDS Recorder2DClient, CorrespondenceSequences_proofs

M == MAXIMUM_NUMBER_OF_POSES
Maps == (Nat \X Sides) \X (Nat \X Sides)
Buffers == {FIRST_SEQUENCE, SECOND_SEQUENCE}
LongestSequence == M * (2 * M - 1)

MapsOf(pairs) == AllMaps(Images(pairs))

RecorderTypes ==
    /\ latestSequence \in Buffers
    /\ working \in Buffers
    /\ sequences \in [Buffers -> Seq(Maps)]
    /\ \A buffer \in Buffers : Len(sequences[buffer]) <= LongestSequence
    /\ numberOfOldPoses \in -1..(M + 1)
    /\ addingNewSequence \in BOOLEAN
    /\ oneCorrespondenceWasAddedSinceLastDiscard \in BOOLEAN
    /\ expectedMapsToAdd \in 0..(4 * M - 3)
    /\ aborted = FALSE
    /\ frames \in Seq(Nat)
    /\ toAdd \in Seq(Maps)
    /\ canDiscard \in BOOLEAN

\* Between two sequences the latest one holds the maps of the pairs that
\* remain, and, as long as it may be taken back, the other one those of the
\* pairs before the latest.
BetweenSequences ==
    ~addingNewSequence =>
        /\ latestSequence = (IF oneCorrespondenceWasAddedSinceLastDiscard THEN working ELSE history)
        /\ sequences[latestSequence] = MapsOf(frames)
        /\ toAdd = <<>>
        /\ canDiscard =>
              /\ oneCorrespondenceWasAddedSinceLastDiscard
              /\ frames # <<>>
              /\ sequences[history] = MapsOf(Tail(frames))

\* While a sequence is filled the maps added and those still to come are
\* those of the new pair, and the history holds those of the others.
InsideSequence ==
    addingNewSequence =>
        /\ latestSequence = working
        /\ frames # <<>>
        /\ sequences[history] = MapsOf(Tail(frames))
        /\ sequences[working] \o toAdd = MapsOfNewPair(frames)
        /\ expectedMapsToAdd = Len(MapsOfNewPair(frames))

\* The number of old poses is one less than that of the pairs until both are
\* large enough; a discard may take it back to M though there are more.
CountAgrees ==
    \/ numberOfOldPoses = Len(frames) - 1
    \/ /\ numberOfOldPoses = M + 1
       /\ IF addingNewSequence \/ canDiscard THEN Len(frames) >= M + 1 ELSE Len(frames) >= M
    \/ /\ ~addingNewSequence /\ ~canDiscard
       /\ numberOfOldPoses = M
       /\ Len(frames) >= M

RecorderInv == RecorderTypes /\ BetweenSequences /\ InsideSequence /\ CountAgrees
-----------------------------------------------------------------------------
(* The maps of a sequence of pairs. *)

KeptCount(pairs) == SmallerOf(Len(pairs), M)
KeptOf(pairs) == SubSeq(pairs, 1, KeptCount(pairs))

LEMMA KeptFacts ==
    ASSUME NEW pairs \in Seq(Nat)
    PROVE  /\ Len(pairs) \in Nat
           /\ KeptCount(pairs) \in 0..Len(pairs) /\ KeptCount(pairs) \in 0..M
           /\ KeptOf(pairs) \in Seq(Nat) /\ Len(KeptOf(pairs)) = KeptCount(pairs)
           /\ \A i \in 1..KeptCount(pairs) : KeptOf(pairs)[i] = pairs[i]
           /\ Images(pairs) = ImagesOfPairs(KeptOf(pairs))
           /\ Images(pairs) \in Seq(Nat \X Sides)
           /\ Len(Images(pairs)) = 2 * KeptCount(pairs)
  <1> USE PosesAssumption
  <1> DEFINE k == KeptCount(pairs)
             kept == KeptOf(pairs)
  <1>1. Len(pairs) \in Nat
    BY LenProperties
  <1>2. k \in 0..Len(pairs) /\ k \in 0..M
    BY <1>1 DEF KeptCount, SmallerOf, M
  <1>3. /\ kept \in Seq(Nat) /\ Len(kept) = k
        /\ \A i \in 1..k : kept[i] = pairs[i]
    <2>1. kept = SubSeq(pairs, 1, k) /\ k \in Int
      BY <1>1, <1>2 DEF KeptOf
    <2> HIDE DEF k, kept
    <2>2. \A i \in 1..k : pairs[i] \in Nat
      BY <1>1, <1>2, ElementOfSeq
    <2>3. /\ SubSeq(pairs, 1, k) \in Seq(Nat)
          /\ Len(SubSeq(pairs, 1, k)) = IF 1 <= k THEN k - 1 + 1 ELSE 0
          /\ \A i \in 1..(k - 1 + 1) : SubSeq(pairs, 1, k)[i] = pairs[1 + i - 1]
      BY <2>1, <2>2, SubSeqProperties
    <2> QED
      BY <1>1, <1>2, <2>1, <2>3
  <1>4. Images(pairs) = ImagesOfPairs(kept)
    BY DEF Images, KeptOf, KeptCount, M
  <1>5. ImagesOfPairs(kept) \in Seq(Nat \X Sides) /\ Len(ImagesOfPairs(kept)) = 2 * Len(kept)
    BY <1>3, ImagesFacts
  <1> QED
    BY <1>1, <1>2, <1>3, <1>4, <1>5

LEMMA ProductGrows ==
    ASSUME NEW p \in Nat, NEW q \in Nat, p <= q
    PROVE  p * (2 * p - 1) <= q * (2 * q - 1)
  <1> DEFINE d == q - p
  <1>1. d \in Nat /\ q = p + d
    OBVIOUS
  <1> HIDE DEF d
  <1>2. q * (2 * q - 1) = p * (2 * p - 1) + d * (4 * p) + (2 * (d * d) - d)
    BY <1>1
  <1>3. d * (4 * p) >= 0 /\ d * (4 * p) \in Int
    BY <1>1
  <1>4. d * d >= d /\ d * d \in Int
    BY <1>1
  <1>5. p * (2 * p - 1) \in Int
    OBVIOUS
  <1> QED
    BY <1>1, <1>2, <1>3, <1>4, <1>5

LEMMA MapsOfFacts ==
    ASSUME NEW pairs \in Seq(Nat)
    PROVE  MapsOf(pairs) \in Seq(Maps) /\ Len(MapsOf(pairs)) <= LongestSequence
  <1>1. /\ Images(pairs) \in Seq(Nat \X Sides) /\ Len(Images(pairs)) = 2 * KeptCount(pairs)
        /\ KeptCount(pairs) \in 0..M
    BY KeptFacts
  <1>2. KeptCount(pairs) \in Nat
    BY <1>1
  <1>3. /\ AllMaps(Images(pairs)) \in Seq(Maps)
        /\ Len(AllMaps(Images(pairs))) = KeptCount(pairs) * (2 * KeptCount(pairs) - 1)
    BY <1>1, <1>2, AllMapsLength DEF Maps
  <1>4. M \in Nat
    BY PosesAssumption DEF M
  <1>5. KeptCount(pairs) * (2 * KeptCount(pairs) - 1) <= M * (2 * M - 1)
    <2> DEFINE p == KeptCount(pairs)
               q == M
    <2>1. p \in Nat /\ q \in Nat /\ p <= q
      BY <1>1, <1>2, <1>4
    <2> HIDE DEF p, q
    <2>2. p * (2 * p - 1) <= q * (2 * q - 1)
      BY ONLY <2>1, ProductGrows
    <2> QED
      BY <2>2 DEF p, q
  <1> QED
    BY <1>3, <1>5 DEF MapsOf, LongestSequence

LEMMA MapsOfNone ==
    ASSUME NEW pairs, pairs = <<>>
    PROVE  MapsOf(pairs) = <<>>
  <1>1. pairs \in Seq(Nat) /\ Len(pairs) = 0
    BY EmptySeq
  <1> DEFINE images == Images(pairs)
  <1>2. images \in Seq(Nat \X Sides) /\ Len(images) = 2 * KeptCount(pairs) /\ KeptCount(pairs) \in 0..0
    BY <1>1, KeptFacts
  <1> HIDE DEF images
  <1>3. images = <<>>
    BY <1>2, EmptySeq
  <1> QED
    BY <1>3, AllMapsOfNone DEF MapsOf, images

\* The maps of the latest pair come first, then those between the other
\* pairs kept.
LEMMA MapsOfSplits ==
    ASSUME NEW pairs \in Seq(Nat), pairs # <<>>
    PROVE  /\ MapsOfNewPair(pairs) \in Seq(Maps)
           /\ Len(MapsOfNewPair(pairs)) = 4 * KeptCount(pairs) - 3
           /\ KeptCount(pairs) >= 1
           /\ KeptOf(pairs) # <<>>
           /\ AllMaps(ImagesOfPairs(Tail(KeptOf(pairs)))) \in Seq(Maps)
           /\ MapsOf(pairs) = MapsOfNewPair(pairs) \o AllMaps(ImagesOfPairs(Tail(KeptOf(pairs))))
  <1> USE PosesAssumption
  <1> DEFINE k == KeptCount(pairs)
             kept == KeptOf(pairs)
             images == Images(pairs)
             S == Nat \X Sides
  <1>1. /\ Len(pairs) \in Nat /\ kept \in Seq(Nat) /\ Len(kept) = k /\ k \in 0..M
        /\ images = ImagesOfPairs(kept) /\ images \in Seq(S) /\ Len(images) = 2 * k
    BY KeptFacts
  <1>2. k >= 1
    <2>1. Len(pairs) >= 1
      BY <1>1, EmptySeq
    <2> QED
      BY <1>1, <2>1 DEF KeptCount, SmallerOf, M
  <1>3. kept # <<>>
    BY <1>1, <1>2, EmptySeq
  <1> DEFINE one == Tail(images)
             two == Tail(one)
  <1>4. images # <<>> /\ one # <<>> /\ one \in Seq(S) /\ two = ImagesOfPairs(Tail(kept))
    BY <1>1, <1>3, ImagesOfOthers
  <1>5. Tail(kept) \in Seq(Nat)
    BY <1>1, <1>3, HeadTailProperties
  <1>6. ImagesOfPairs(Tail(kept)) \in Seq(S) /\ Len(Tail(kept)) \in Nat
        /\ Len(ImagesOfPairs(Tail(kept))) = 2 * Len(Tail(kept))
    BY <1>5, ImagesFacts
  <1> HIDE DEF k, kept, images, S
  <1>7. AllMaps(ImagesOfPairs(Tail(kept))) \in Seq(S \X S)
    BY <1>6, AllMapsLength
  <1>8. AllMaps(images) = MapsFrom(images, 1) \o AllMaps(one)
    BY <1>1, <1>4, AllMapsCons
  <1>9. Len(one) = 2 * k - 1 /\ \A i \in 1..(2 * k - 1) : one[i] = images[i + 1]
    <2>1. Len(one) = Len(images) - 1 /\ \A i \in 1..Len(one) : one[i] = images[i + 1]
      BY <1>1, <1>4, HeadTailProperties
    <2> QED
      BY <1>1, <2>1
  <1> HIDE DEF one
  <1>10. AllMaps(one) = MapsFrom(one, 1) \o AllMaps(two)
    BY <1>4, AllMapsCons
  <1>11. MapsFrom(one, 1) = MapsFrom(images, 2)
    <2>1. Len(one) - 1 = 2 * k - 2 /\ Len(images) - 2 = 2 * k - 2 /\ k \in Nat
      BY <1>1, <1>9
    <2>2. one[1] = images[2]
      BY <1>2, <1>9, <2>1
    <2>3. ASSUME NEW step \in 1..(2 * k - 2) PROVE one[1 + step] = images[2 + step]
      <3>1. 1 + step \in 1..(2 * k - 1) /\ (1 + step) + 1 = 2 + step
        BY <2>1
      <3> QED
        BY <1>9, <3>1
    <2>4. [step \in 1..(2 * k - 2) |-> <<one[1], one[1 + step]>>]
            = [step \in 1..(2 * k - 2) |-> <<images[2], images[2 + step]>>]
      BY <2>2, <2>3
    <2> QED
      BY <2>1, <2>4 DEF MapsFrom
  <1> DEFINE x == MapsFrom(images, 1)
             y == MapsFrom(images, 2)
             z == AllMaps(two)
             Q == S \X S
  <1>12. x \in Seq(Q) /\ Len(x) = 2 * k - 1
    <2>1. 1 \in 1..Len(images)
      BY <1>1, <1>2
    <2>2. x \in Seq(Q) /\ Len(x) = Len(images) - 1
      BY <1>1, <2>1, MapsFromFacts
    <2> QED
      BY <1>1, <2>2
  <1>13. y \in Seq(Q) /\ Len(y) = 2 * k - 2
    <2>1. 2 \in 1..Len(images)
      BY <1>1, <1>2
    <2>2. y \in Seq(Q) /\ Len(y) = Len(images) - 2
      BY <1>1, <2>1, MapsFromFacts
    <2> QED
      BY <1>1, <2>2
  <1>14. z \in Seq(Q)
    BY <1>4, <1>7
  <1>15. AllMaps(images) = x \o (y \o z)
    BY <1>8, <1>10, <1>11
  <1> HIDE DEF x, y, z, Q
  <1>16. (x \o y) \o z = x \o (y \o z)
    BY ONLY <1>12, <1>13, <1>14, ConcatAssociative
  <1>17. x \o y \in Seq(Q) /\ Len(x \o y) = (2 * k - 1) + (2 * k - 2)
    <2>1. x \o y \in Seq(Q) /\ Len(x \o y) = Len(x) + Len(y)
      BY ONLY <1>12, <1>13, ConcatProperties
    <2> QED
      BY ONLY <1>12, <1>13, <2>1
  <1>18. (2 * k - 1) + (2 * k - 2) = 4 * k - 3
    BY <1>1
  <1>19. MapsOfNewPair(pairs) = x \o y /\ MapsOf(pairs) = AllMaps(images)
    BY DEF MapsOfNewPair, x, y, images, MapsOf
  <1>20. Maps = S \X S
    BY DEF Maps, S
  <1> QED
    BY <1>2, <1>3, <1>4, <1>7, <1>15, <1>16, <1>17, <1>18, <1>19, <1>20 DEF z, Q, k, kept

\* The other pairs kept are all of the others while there is room, else
\* those without the oldest one kept before.
LEMMA OthersKept ==
    ASSUME NEW pairs \in Seq(Nat), pairs # <<>>
    PROVE  /\ Tail(pairs) \in Seq(Nat)
           /\ Len(pairs) <= M => Tail(KeptOf(pairs)) = KeptOf(Tail(pairs))
           /\ Len(pairs) > M => /\ KeptCount(Tail(pairs)) = M
                                /\ Tail(KeptOf(pairs)) = SubSeq(KeptOf(Tail(pairs)), 1, M - 1)
  <1>1. \A s : KeptCount(s) = LatestCount(s, M) /\ KeptOf(s) = Latest(s, M)
    BY DEF KeptOf, KeptCount, SmallerOf, Latest, LatestCount
  <1>2. M \in Nat /\ M >= 1
    BY PosesAssumption DEF M
  <1>3. /\ Tail(pairs) \in Seq(Nat)
        /\ Len(pairs) <= M => Tail(Latest(pairs, M)) = Latest(Tail(pairs), M)
        /\ Len(pairs) > M => /\ LatestCount(Tail(pairs), M) = M
                             /\ Tail(Latest(pairs, M)) = SubSeq(Latest(Tail(pairs), M), 1, M - 1)
    BY <1>2, LatestOfTail
  <1> QED BY <1>1, <1>3

\* What CompleteNewSequence puts behind the maps of the new pair.
LEMMA MapsOfCons ==
    ASSUME NEW pairs \in Seq(Nat), pairs # <<>>
    PROVE  MapsOf(pairs) = MapsOfNewPair(pairs) \o
               (IF Len(pairs) <= M
                THEN MapsOf(Tail(pairs))
                ELSE MapsAt(MapsOf(Tail(pairs)), ReadPositions(2 * (M - 1), 2)))
  <1> USE PosesAssumption
  <1> DEFINE rest == Tail(pairs)
             keptRest == KeptOf(rest)
             images == Images(rest)
  <1>1. /\ MapsOf(pairs) = MapsOfNewPair(pairs) \o AllMaps(ImagesOfPairs(Tail(KeptOf(pairs))))
    BY MapsOfSplits
  <1>2. /\ rest \in Seq(Nat) /\ Len(pairs) \in Nat
        /\ Len(pairs) <= M => Tail(KeptOf(pairs)) = KeptOf(rest)
        /\ Len(pairs) > M => /\ KeptCount(rest) = M
                             /\ Tail(KeptOf(pairs)) = SubSeq(KeptOf(rest), 1, M - 1)
    BY OthersKept, LenProperties
  <1>3. /\ keptRest \in Seq(Nat) /\ Len(keptRest) = KeptCount(rest)
        /\ images = ImagesOfPairs(keptRest) /\ images \in Seq(Nat \X Sides)
        /\ Len(images) = 2 * KeptCount(rest)
    BY <1>2, KeptFacts
  <1>4. M \in Nat /\ M >= 1
    BY DEF M
  <1>5. CASE Len(pairs) <= M
    BY <1>1, <1>2, <1>3, <1>5 DEF MapsOf
  <1>6. CASE ~(Len(pairs) <= M)
    <2>1. KeptCount(rest) = M /\ Tail(KeptOf(pairs)) = SubSeq(keptRest, 1, M - 1)
      BY <1>2, <1>4, <1>6
    <2>2. M - 1 \in 0..Len(keptRest)
      BY <1>3, <1>4, <2>1
    <2> HIDE DEF keptRest, images, rest
    <2>3. SubSeq(ImagesOfPairs(keptRest), 1, 2 * (M - 1)) = ImagesOfPairs(SubSeq(keptRest, 1, M - 1))
      BY <1>3, <2>2, ImagesOfFirst
    <2> DEFINE kept == 2 * (M - 1)
    <2>4. kept \in Nat /\ 2 \in Nat /\ Len(images) = kept + 2
      BY <1>3, <1>4, <2>1
    <2> HIDE DEF kept
    <2>5. MapsAt(AllMaps(images), ReadPositions(kept, 2)) = AllMaps(SubSeq(images, 1, kept))
      BY <1>3, <2>4, ReadPositionsKeep
    <2> QED
      BY <1>1, <1>3, <1>6, <2>1, <2>3, <2>5 DEF kept, MapsOf, images, rest
  <1> QED
    BY <1>5, <1>6

-----------------------------------------------------------------------------
(* The invariant survives every step of a client that follows the protocol. *)

LEMMA OtherBuffer ==
    ASSUME NEW buffer \in Buffers
    PROVE  Other(buffer) \in Buffers /\ Other(buffer) # buffer /\ Other(Other(buffer)) = buffer
  BY DEF Buffers, Other, FIRST_SEQUENCE, SECOND_SEQUENCE

LEMMA LongestSequenceFits == LongestSequence \in Nat /\ 4 * M - 3 <= LongestSequence
  <1> DEFINE m == M
  <1>1. m \in Nat /\ m >= 1
    BY PosesAssumption DEF M
  <1> HIDE DEF m
  <1>2. CASE m = 1
    BY <1>1, <1>2 DEF LongestSequence, m
  <1>3. CASE m # 1
    <2>1. m * (2 * m - 1) = (4 * m - 3) + (2 * m - 3) * (m - 1)
      BY <1>1
    <2>2. (2 * m - 3) * (m - 1) \in Nat
      <3>1. 2 * m - 3 \in Nat /\ m - 1 \in Nat
        BY <1>1, <1>3
      <3> DEFINE a == 2 * m - 3
                 b == m - 1
      <3> HIDE DEF a, b
      <3>2. a * b \in Nat
        BY <3>1 DEF a, b
      <3> QED
        BY <3>2 DEF a, b
    <2>3. m * (2 * m - 1) \in Nat /\ 4 * m - 3 <= m * (2 * m - 1)
      BY <1>1, <2>1, <2>2
    <2> QED
      BY <2>3 DEF LongestSequence, m
  <1> QED
    BY <1>2, <1>3

\* The storage has room for it.
LEMMA LongestSequenceIsStored ==
    LongestSequence <= 45 /\ LongestSequence < MAX_CORRESPONDENCE_MAPS_SEQUENCE_LENGTH
  <1>1. M = 1 \/ M = 2 \/ M = 3 \/ M = 4 \/ M = 5
    BY PosesAssumption DEF M
  <1>2. LongestSequence <= 45
    BY <1>1 DEF LongestSequence
  <1> QED
    BY <1>1, <1>2 DEF LongestSequence, MAX_CORRESPONDENCE_MAPS_SEQUENCE_LENGTH

\* InitializeNewSequence for a pair that comes to those the client has.
LEMMA BeginKeepsInv ==
    ASSUME RecorderInv, ~addingNewSequence, InitializeNewSequence,
           frames' \in Seq(Nat), frames' # <<>>, Tail(frames') = frames,
           toAdd' = MapsOfNewPair(frames'), canDiscard' \in BOOLEAN
    PROVE  RecorderInv'
  <1>1. /\ latestSequence' = Other(latestSequence)
        /\ working' = latestSequence'
        /\ sequences' = [sequences EXCEPT ![working'] = <<>>]
        /\ numberOfOldPoses' = IF numberOfOldPoses <= M THEN numberOfOldPoses + 1
                               ELSE numberOfOldPoses
        /\ addingNewSequence' = TRUE
        /\ expectedMapsToAdd' = 4 * SmallerOf(numberOfOldPoses', M - 1) + 1
        /\ UNCHANGED <<oneCorrespondenceWasAddedSinceLastDiscard, aborted>>
    BY DEF InitializeNewSequence, M
  <1>2. /\ latestSequence \in Buffers
        /\ sequences \in [Buffers -> Seq(Maps)]
        /\ \A buffer \in Buffers : Len(sequences[buffer]) <= LongestSequence
        /\ numberOfOldPoses \in -1..(M + 1)
        /\ oneCorrespondenceWasAddedSinceLastDiscard \in BOOLEAN
        /\ aborted = FALSE
        /\ frames \in Seq(Nat)
        /\ sequences[latestSequence] = MapsOf(frames)
        /\ CountAgrees
    BY DEF RecorderInv, RecorderTypes, BetweenSequences
  <1>3. M \in Nat /\ M >= 1
    BY PosesAssumption DEF M
  <1> DEFINE n == Len(frames)
             n1 == Len(frames')
             k == KeptCount(frames')
  <1>4. n1 = n + 1 /\ n \in Nat
    <2>1. Len(Tail(frames')) = Len(frames') - 1 /\ Len(frames') \in Nat /\ n \in Nat
      BY <1>2, HeadTailProperties, LenProperties
    <2>2. n = Len(Tail(frames'))
      OBVIOUS
    <2> HIDE DEF n, n1
    <2> QED
      BY <2>1, <2>2 DEF n1
  <1>5. working' \in Buffers /\ working' # latestSequence /\ history' = latestSequence
    BY <1>1, <1>2, OtherBuffer DEF history
  <1>6. sequences'[working'] = <<>> /\ sequences'[history'] = MapsOf(frames)
    BY <1>1, <1>2, <1>5
  <1>7. sequences' \in [Buffers -> Seq(Maps)]
    <2>1. <<>> \in Seq(Maps)
      BY EmptySeq
    <2> QED
      BY <1>1, <1>2, <1>5, <2>1
  <1>8. \A buffer \in Buffers : Len(sequences'[buffer]) <= LongestSequence
    <2>1. Len(<<>>) <= LongestSequence
      BY LongestSequenceFits, EmptySeq
    <2>2. \A buffer \in Buffers : sequences'[buffer] = IF buffer = working' THEN <<>> ELSE sequences[buffer]
      BY <1>1, <1>2
    <2> QED
      BY <1>2, <2>1, <2>2
  <1>9. /\ MapsOfNewPair(frames') \in Seq(Maps)
        /\ Len(MapsOfNewPair(frames')) = 4 * k - 3
        /\ k >= 1
    BY MapsOfSplits
  <1>10. k = (IF n1 < M THEN n1 ELSE M)
    BY DEF KeptCount, SmallerOf
  <1> HIDE DEF n, n1, k, M
  <1>11. \/ numberOfOldPoses = n - 1
         \/ numberOfOldPoses = M + 1 /\ n >= M
         \/ numberOfOldPoses = M /\ n >= M
    BY <1>2, <1>3, <1>4 DEF CountAgrees, n
  <1>12. \/ numberOfOldPoses' = n1 - 1
         \/ numberOfOldPoses' = M + 1 /\ n1 >= M + 1
    BY <1>1, <1>2, <1>3, <1>4, <1>11
  <1>13. numberOfOldPoses' \in -1..(M + 1)
    BY <1>1, <1>2, <1>3
  <1>14. expectedMapsToAdd' = 4 * k - 3
    <2>1. SmallerOf(numberOfOldPoses', M - 1) = k - 1
      BY <1>3, <1>4, <1>10, <1>12, <1>13 DEF SmallerOf
    <2> QED
      BY <1>1, <1>3, <1>4, <1>10, <2>1
  <1>15. RecorderTypes'
    <2>1. 4 * k - 3 \in 0..(4 * M - 3)
      BY <1>3, <1>4, <1>9, <1>10
    <2>2. /\ latestSequence' \in Buffers /\ working' \in Buffers
          /\ addingNewSequence' \in BOOLEAN
          /\ oneCorrespondenceWasAddedSinceLastDiscard' \in BOOLEAN
          /\ aborted' = FALSE
      BY <1>1, <1>2, <1>5
    <2>3. expectedMapsToAdd' \in 0..(4 * M - 3) /\ toAdd' \in Seq(Maps)
      BY <1>9, <1>14, <2>1
    <2>4. M' = M /\ Buffers' = Buffers /\ Maps' = Maps /\ LongestSequence' = LongestSequence
      BY DEF M, Buffers, Maps, LongestSequence
    <2> QED
      BY <1>7, <1>8, <1>13, <2>2, <2>3, <2>4 DEF RecorderTypes
  <1>16. BetweenSequences'
    BY <1>1 DEF BetweenSequences
  <1>17. InsideSequence'
    <2>1. <<>> \o MapsOfNewPair(frames') = MapsOfNewPair(frames')
      BY <1>9, ConcatEmptySeq
    <2>2. sequences'[working'] \o toAdd' = MapsOfNewPair(frames')
      BY <1>6, <2>1
    <2>3. sequences'[history'] = MapsOf(Tail(frames'))
      BY <1>6
    <2> QED
      BY <1>1, <1>9, <1>14, <2>2, <2>3 DEF InsideSequence
  <1>18. CountAgrees'
    BY <1>1, <1>12 DEF CountAgrees, n1, M
  <1> QED
    BY <1>15, <1>16, <1>17, <1>18 DEF RecorderInv

\* The recorder still expects a map, and can store it, while the client has
\* one to add.
LEMMA RoomForNextMap ==
    ASSUME RecorderInv, toAdd # <<>>
    PROVE  Len(sequences[working]) < expectedMapsToAdd /\ MapIsAccepted
  <1>1. /\ sequences[working] \in Seq(Maps) /\ toAdd \in Seq(Maps)
        /\ sequences[working] \o toAdd = MapsOfNewPair(frames)
        /\ expectedMapsToAdd = Len(MapsOfNewPair(frames))
        /\ expectedMapsToAdd \in 0..(4 * M - 3)
    BY DEF RecorderInv, RecorderTypes, BetweenSequences, InsideSequence
  <1> DEFINE before == sequences[working]
  <1>2. before \in Seq(Maps) /\ Len(before) \in Nat /\ Len(toAdd) \in Nat /\ Len(toAdd) # 0
    BY <1>1, LenProperties, EmptySeq
  <1> HIDE DEF before
  <1>3. Len(before \o toAdd) = Len(before) + Len(toAdd)
    BY <1>1, <1>2, ConcatProperties
  <1>4. M \in Nat /\ 4 * M - 3 < MAX_CORRESPONDENCE_MAPS_SEQUENCE_LENGTH
    BY PosesAssumption DEF M, MAX_CORRESPONDENCE_MAPS_SEQUENCE_LENGTH
  <1>5. Len(before) < expectedMapsToAdd
    BY <1>1, <1>2, <1>3 DEF before
  <1>6. Len(before) < MAX_CORRESPONDENCE_MAPS_SEQUENCE_LENGTH
    BY <1>1, <1>2, <1>4, <1>5 DEF MAX_CORRESPONDENCE_MAPS_SEQUENCE_LENGTH
  <1> QED BY <1>5, <1>6 DEF before, MapIsAccepted

\* AddCorrespondences of the next map.
LEMMA AddKeepsInv ==
    ASSUME RecorderInv, toAdd # <<>>, AddCorrespondences(Head(toAdd)),
           toAdd' = Tail(toAdd), frames' = frames, canDiscard' \in BOOLEAN
    PROVE  RecorderInv'
  <1>1. addingNewSequence = TRUE
    BY DEF RecorderInv, RecorderTypes, BetweenSequences
  <1>2. /\ latestSequence \in Buffers
        /\ working \in Buffers
        /\ sequences \in [Buffers -> Seq(Maps)]
        /\ \A buffer \in Buffers : Len(sequences[buffer]) <= LongestSequence
        /\ expectedMapsToAdd \in 0..(4 * M - 3)
        /\ toAdd \in Seq(Maps)
        /\ latestSequence = working
        /\ frames # <<>> /\ frames \in Seq(Nat)
        /\ sequences[history] = MapsOf(Tail(frames))
        /\ sequences[working] \o toAdd = MapsOfNewPair(frames)
        /\ expectedMapsToAdd = Len(MapsOfNewPair(frames))
    BY <1>1 DEF RecorderInv, RecorderTypes, InsideSequence
  <1> DEFINE before == sequences[working]
             map == Head(toAdd)
             rest == Tail(toAdd)
  <1>3. before \in Seq(Maps) /\ Len(before) \in Nat
    BY <1>2, LenProperties
  <1>4. map \in Maps /\ rest \in Seq(Maps) /\ Len(rest) = Len(toAdd) - 1 /\ Len(toAdd) \in Nat
        /\ \A i \in 1..Len(rest) : rest[i] = toAdd[i + 1]
    BY <1>2, HeadTailProperties, LenProperties
  <1>6. Len(before) < expectedMapsToAdd /\ MapIsAccepted
    BY RoomForNextMap
  <1>7. /\ sequences' = [sequences EXCEPT ![working] = Append(before, map)]
        /\ UNCHANGED <<latestSequence, working, numberOfOldPoses, flagVars,
                       expectedMapsToAdd, aborted>>
    BY <1>6 DEF AddCorrespondences
  <1>8. /\ Append(before, map) \in Seq(Maps)
        /\ Len(Append(before, map)) = Len(before) + 1
        /\ Append(before, map) \o rest = before \o toAdd
    <2> HIDE DEF before
    <2>1. before \in Seq(Maps) /\ toAdd \in Seq(Maps) /\ toAdd # <<>>
      BY <1>2, <1>3
    <2> QED
      BY ONLY <2>1, MoveHead
  <1>9. working # history /\ history \in Buffers
    BY <1>2, OtherBuffer DEF history
  <1>10. /\ sequences'[working] = Append(before, map)
         /\ sequences'[history] = sequences[history]
         /\ sequences' \in [Buffers -> Seq(Maps)]
    BY <1>2, <1>7, <1>8, <1>9
  <1>11. \A buffer \in Buffers : Len(sequences'[buffer]) <= LongestSequence
    <2>1. Len(before) + 1 <= LongestSequence
      BY <1>2, <1>3, <1>6, LongestSequenceFits, PosesAssumption DEF M
    <2>2. \A buffer \in Buffers :
             sequences'[buffer] = IF buffer = working THEN Append(before, map) ELSE sequences[buffer]
      BY <1>2, <1>7
    <2> QED
      BY <1>2, <1>8, <2>1, <2>2
  <1>12. RecorderTypes'
    BY <1>4, <1>7, <1>10, <1>11 DEF RecorderInv, RecorderTypes, flagVars
  <1>13. BetweenSequences'
    BY <1>1, <1>7 DEF BetweenSequences, flagVars
  <1>14. InsideSequence'
    <2>1. history' = history /\ working' = working
      BY <1>7 DEF history
    <2> QED
      BY <1>2, <1>7, <1>8, <1>10, <2>1 DEF InsideSequence
  <1>15. CountAgrees'
    <2>1. addingNewSequence' = TRUE /\ numberOfOldPoses' = numberOfOldPoses
      BY <1>1, <1>7 DEF flagVars
    <2>2. CountAgrees
      BY DEF RecorderInv
    <2> QED
      BY <1>1, <2>1, <2>2 DEF CountAgrees
  <1> QED
    BY <1>12, <1>13, <1>14, <1>15 DEF RecorderInv

\* CompleteNewSequence when all maps were added: the assertion holds.
LEMMA EndKeepsInv ==
    ASSUME RecorderInv, addingNewSequence, toAdd = <<>>, CompleteNewSequence,
           toAdd' = toAdd, frames' = frames, canDiscard' \in BOOLEAN
    PROVE  RecorderInv'
  <1>1. /\ latestSequence \in Buffers
        /\ working \in Buffers
        /\ sequences \in [Buffers -> Seq(Maps)]
        /\ \A buffer \in Buffers : Len(sequences[buffer]) <= LongestSequence
        /\ numberOfOldPoses \in -1..(M + 1)
        /\ toAdd \in Seq(Maps)
        /\ latestSequence = working
        /\ frames # <<>> /\ frames \in Seq(Nat)
        /\ sequences[history] = MapsOf(Tail(frames))
        /\ sequences[working] \o toAdd = MapsOfNewPair(frames)
        /\ expectedMapsToAdd = Len(MapsOfNewPair(frames))
        /\ CountAgrees
    BY DEF RecorderInv, RecorderTypes, InsideSequence
  <1>2. sequences[working] = MapsOfNewPair(frames)
    <2>1. sequences[working] \o <<>> = sequences[working]
      BY <1>1, ConcatEmptySeq
    <2> QED
      BY <1>1, <2>1
  <1>3. SequenceIsComplete
    BY <1>1, <1>2 DEF SequenceIsComplete
  <1>4. Len(frames) \in Nat /\ M \in Nat
    BY <1>1, LenProperties, PosesAssumption DEF M
  <1>5. numberOfOldPoses < M <=> Len(frames) <= M
    BY <1>1, <1>4 DEF CountAgrees
  <1>6. sequences[working] \o MapsToKeep = MapsOf(frames)
    <2>1. MapsToKeep = IF Len(frames) <= M THEN MapsOf(Tail(frames))
                       ELSE MapsAt(MapsOf(Tail(frames)), ReadPositions(2 * (M - 1), 2))
      BY <1>1, <1>5 DEF MapsToKeep, M
    <2>2. MapsOf(frames) = MapsOfNewPair(frames) \o
             (IF Len(frames) <= M THEN MapsOf(Tail(frames))
              ELSE MapsAt(MapsOf(Tail(frames)), ReadPositions(2 * (M - 1), 2)))
      BY <1>1, MapsOfCons
    <2> QED
      BY <1>2, <2>1, <2>2
  <1>7. MapsOf(frames) \in Seq(Maps) /\ Len(MapsOf(frames)) <= LongestSequence
    BY <1>1, MapsOfFacts
  <1>8. /\ sequences' = [sequences EXCEPT ![working] = sequences[working] \o MapsToKeep]
        /\ addingNewSequence' = FALSE
        /\ oneCorrespondenceWasAddedSinceLastDiscard' = TRUE
        /\ UNCHANGED <<latestSequence, working, numberOfOldPoses, expectedMapsToAdd, aborted>>
    <2>1. Len(MapsOf(frames)) \in Nat
      BY <1>7, LenProperties
    <2>2. MapsAreStored
      BY <1>6, <1>7, <2>1, LongestSequenceIsStored, LongestSequenceFits
         DEF MapsAreStored, MAX_CORRESPONDENCE_MAPS_SEQUENCE_LENGTH
    <2> QED
      BY <1>3, <2>2 DEF CompleteNewSequence
  <1>9. working # history /\ history \in Buffers
    BY <1>1, OtherBuffer DEF history
  <1>10. /\ sequences'[working] = MapsOf(frames)
         /\ sequences'[history] = MapsOf(Tail(frames))
         /\ sequences' \in [Buffers -> Seq(Maps)]
         /\ \A buffer \in Buffers : Len(sequences'[buffer]) <= LongestSequence
    BY <1>1, <1>8, <1>6, <1>9, <1>7
  <1>11. RecorderTypes'
    BY <1>1, <1>8, <1>10 DEF RecorderInv, RecorderTypes
  <1>12. BetweenSequences'
    <2>1. history' = history /\ working' = working /\ latestSequence' = working
      BY <1>1, <1>8 DEF history
    <2> QED
      BY <1>1, <1>8, <1>10, <2>1 DEF BetweenSequences
  <1>13. InsideSequence'
    BY <1>8 DEF InsideSequence
  <1>14. CountAgrees'
    BY <1>1, <1>8, <1>4 DEF CountAgrees
  <1> QED
    BY <1>11, <1>12, <1>13, <1>14 DEF RecorderInv

\* DiscardLatestCorrespondences, once after a sequence.
LEMMA DiscardKeepsInv ==
    ASSUME RecorderInv, ~addingNewSequence, canDiscard, DiscardLatestCorrespondences,
           toAdd' = toAdd, frames' = Tail(frames), canDiscard' = FALSE
    PROVE  RecorderInv'
  <1>1. /\ latestSequence \in Buffers
        /\ working \in Buffers
        /\ sequences \in [Buffers -> Seq(Maps)]
        /\ numberOfOldPoses \in -1..(M + 1)
        /\ frames \in Seq(Nat) /\ frames # <<>>
        /\ oneCorrespondenceWasAddedSinceLastDiscard = TRUE
        /\ latestSequence = working
        /\ sequences[history] = MapsOf(Tail(frames))
        /\ CountAgrees
    BY DEF RecorderInv, RecorderTypes, BetweenSequences
  <1>2. /\ latestSequence' = Other(latestSequence)
        /\ numberOfOldPoses' = IF numberOfOldPoses >= 0 THEN numberOfOldPoses - 1
                               ELSE numberOfOldPoses
        /\ oneCorrespondenceWasAddedSinceLastDiscard' = FALSE
        /\ UNCHANGED <<working, sequences, addingNewSequence, expectedMapsToAdd, aborted>>
    BY <1>1 DEF DiscardLatestCorrespondences
  <1>3. Tail(frames) \in Seq(Nat) /\ Len(Tail(frames)) = Len(frames) - 1 /\ Len(frames) \in Nat
    BY <1>1, HeadTailProperties, LenProperties
  <1>4. Len(frames) >= 1
    BY <1>1, <1>3, EmptySeq
  <1>5. M \in Nat /\ M >= 1
    BY PosesAssumption DEF M
  <1>6. latestSequence' = history /\ history' = history /\ history \in Buffers
    BY <1>1, <1>2, OtherBuffer DEF history
  <1>7. numberOfOldPoses' \in -1..(M + 1)
    BY <1>1, <1>2, <1>5
  <1>8. RecorderTypes'
    BY <1>2, <1>3, <1>6, <1>7 DEF RecorderInv, RecorderTypes
  <1>9. BetweenSequences'
    BY <1>1, <1>2, <1>6 DEF RecorderInv, BetweenSequences
  <1>10. InsideSequence'
    BY <1>2 DEF InsideSequence
  <1>11. CountAgrees'
    <2>1. \/ numberOfOldPoses = Len(frames) - 1
          \/ numberOfOldPoses = M + 1 /\ Len(frames) >= M + 1
      BY <1>1 DEF CountAgrees
    <2>2. numberOfOldPoses' = numberOfOldPoses - 1
      BY <1>2, <1>3, <1>4, <1>5, <2>1
    <2>3. \/ numberOfOldPoses' = Len(frames') - 1
          \/ numberOfOldPoses' = M /\ Len(frames') >= M
      BY <1>3, <1>5, <2>1, <2>2
    <2> QED
      BY <1>2, <2>3 DEF CountAgrees, M
  <1> QED
    BY <1>8, <1>9, <1>10, <1>11 DEF RecorderInv

\* The client may forget old pairs, as long as it keeps M of them, if it does
\* not take the latest back afterwards.
LEMMA DropKeepsInv ==
    ASSUME RecorderInv, ~addingNewSequence, UNCHANGED recorderVars,
           NEW k \in M..Len(frames), frames' = SubSeq(frames, 1, k),
           toAdd' = toAdd, canDiscard' = FALSE
    PROVE  RecorderInv'
  <1>1. /\ frames \in Seq(Nat) /\ Len(frames) \in Nat /\ M \in Nat /\ M >= 1
        /\ CountAgrees
        /\ RecorderTypes /\ BetweenSequences
    BY LenProperties, PosesAssumption DEF RecorderInv, RecorderTypes, M
  <1>2. /\ UNCHANGED <<latestSequence, working, sequences, numberOfOldPoses>>
        /\ UNCHANGED <<addingNewSequence, oneCorrespondenceWasAddedSinceLastDiscard>>
        /\ UNCHANGED <<expectedMapsToAdd, aborted>>
    BY DEF recorderVars, flagVars
  <1>3. /\ frames' \in Seq(Nat) /\ Len(frames') = k
        /\ \A i \in 1..k : frames'[i] = frames[i]
    <2>1. k \in 0..Len(frames)
      BY <1>1
    <2>2. /\ SubSeq(frames, 1, k) \in Seq(Nat) /\ Len(SubSeq(frames, 1, k)) = k
          /\ \A i \in 1..k : SubSeq(frames, 1, k)[i] = frames[i]
      BY <1>1, <2>1, FirstFacts
    <2> QED
      BY <2>2
  <1>4. MapsOf(frames') = MapsOf(frames)
    <2> DEFINE after == frames'
    <2> HIDE DEF after
    <2>1. after \in Seq(Nat)
      BY <1>3 DEF after
    <2>2. KeptCount(after) = M /\ KeptCount(frames) = M
      BY <1>1, <1>3 DEF KeptCount, SmallerOf, after
    <2>3. /\ KeptOf(after) \in Seq(Nat) /\ Len(KeptOf(after)) = M
          /\ \A i \in 1..M : KeptOf(after)[i] = after[i]
          /\ Images(after) = ImagesOfPairs(KeptOf(after))
      BY <2>1, <2>2, KeptFacts
    <2>4. /\ KeptOf(frames) \in Seq(Nat) /\ Len(KeptOf(frames)) = M
          /\ \A i \in 1..M : KeptOf(frames)[i] = frames[i]
          /\ Images(frames) = ImagesOfPairs(KeptOf(frames))
      BY <1>1, <2>2, KeptFacts
    <2>5. \A i \in 1..M : after[i] = frames[i]
      BY <1>1, <1>3 DEF after
    <2>6. KeptOf(after) = KeptOf(frames)
      BY <2>3, <2>4, <2>5, SeqEqual
    <2>7. MapsOf(after) = MapsOf(frames)
      BY <2>3, <2>4, <2>6 DEF MapsOf
    <2> QED
      BY <2>7 DEF after
  <1>5. RecorderTypes'
    BY <1>1, <1>2, <1>3 DEF RecorderTypes
  <1>6. BetweenSequences'
    BY <1>1, <1>2, <1>4 DEF BetweenSequences, history
  <1>7. InsideSequence'
    BY <1>2 DEF InsideSequence
  <1>8. CountAgrees'
    <2>1. numberOfOldPoses' = numberOfOldPoses /\ ~addingNewSequence' /\ ~canDiscard'
      BY <1>2
    <2>2. numberOfOldPoses \in -1..(M + 1)
      BY <1>1 DEF RecorderTypes
    <2> QED
      BY <1>1, <1>3, <2>1, <2>2 DEF CountAgrees
  <1> QED
    BY <1>5, <1>6, <1>7, <1>8 DEF RecorderInv

\* Nothing changes, except that the client may give up a discard.
LEMMA IdleKeepsInv ==
    ASSUME RecorderInv, UNCHANGED recorderVars, frames' = frames, toAdd' = toAdd,
           canDiscard' \in BOOLEAN, canDiscard' => canDiscard
    PROVE  RecorderInv'
  <1>1. /\ UNCHANGED <<latestSequence, working, sequences, numberOfOldPoses>>
        /\ UNCHANGED <<addingNewSequence, oneCorrespondenceWasAddedSinceLastDiscard>>
        /\ UNCHANGED <<expectedMapsToAdd, aborted>>
        /\ history' = history
    BY DEF recorderVars, flagVars, history
  <1>2. RecorderTypes'
    BY <1>1 DEF RecorderInv, RecorderTypes
  <1>3. BetweenSequences'
    BY <1>1 DEF RecorderInv, BetweenSequences
  <1>4. InsideSequence'
    BY <1>1 DEF RecorderInv, InsideSequence
  <1>5. CountAgrees'
    <2>1. CountAgrees /\ RecorderTypes
      BY DEF RecorderInv
    <2>2. Len(frames) \in Nat /\ M \in Nat
      BY <2>1, LenProperties, PosesAssumption DEF RecorderTypes, M
    <2>3. /\ numberOfOldPoses' = numberOfOldPoses /\ frames' = frames
          /\ addingNewSequence' = addingNewSequence
      BY <1>1
    <2> QED
      BY <2>1, <2>2, <2>3 DEF CountAgrees
  <1> QED
    BY <1>2, <1>3, <1>4, <1>5 DEF RecorderInv

LEMMA NothingRecordedYet ==
    ASSUME Init, frames = <<>>, toAdd = <<>>, canDiscard = FALSE
    PROVE  RecorderInv
  <1>1. /\ latestSequence = SECOND_SEQUENCE /\ working = FIRST_SEQUENCE
        /\ sequences = [buffer \in Buffers |-> <<>>]
        /\ numberOfOldPoses = -1
        /\ addingNewSequence = FALSE
        /\ oneCorrespondenceWasAddedSinceLastDiscard = FALSE
        /\ expectedMapsToAdd = 0
        /\ aborted = FALSE
    BY DEF Init, Buffers
  <1>2. M \in Nat /\ M >= 1 /\ LongestSequence \in Nat
    BY PosesAssumption, LongestSequenceFits DEF M
  <1>3. <<>> \in Seq(Maps) /\ <<>> \in Seq(Nat) /\ Len(<<>>) = 0
    BY EmptySeq
  <1>4. latestSequence \in Buffers /\ working \in Buffers /\ history = latestSequence
    BY <1>1 DEF Buffers, history, Other, FIRST_SEQUENCE, SECOND_SEQUENCE
  <1>5. /\ sequences \in [Buffers -> Seq(Maps)]
        /\ \A buffer \in Buffers : Len(sequences[buffer]) <= LongestSequence
    BY <1>1, <1>2, <1>3
  <1>6. RecorderTypes
    <2>1. numberOfOldPoses \in -1..(M + 1) /\ expectedMapsToAdd \in 0..(4 * M - 3)
      BY <1>1, <1>2
    <2> QED
      BY <1>1, <1>3, <1>4, <1>5, <2>1 DEF RecorderTypes
  <1>7. BetweenSequences
    <2>1. MapsOf(frames) = <<>>
      BY MapsOfNone
    <2> QED
      BY <1>1, <1>4, <2>1 DEF BetweenSequences
  <1>8. InsideSequence
    BY <1>1 DEF InsideSequence
  <1>9. CountAgrees
    BY <1>1, <1>3 DEF CountAgrees
  <1> QED
    BY <1>6, <1>7, <1>8, <1>9 DEF RecorderInv

-----------------------------------------------------------------------------
(* The client of the header's protocol. *)

ClientInv == RecorderInv /\ frameCount \in Nat

LEMMA ClientInitInv == ClientInit => ClientInv
  <1> SUFFICES ASSUME ClientInit PROVE ClientInv
    OBVIOUS
  <1>1. Init /\ frames = <<>> /\ toAdd = <<>> /\ canDiscard = FALSE /\ frameCount = 0
    BY DEF ClientInit
  <1>2. RecorderInv
    BY <1>1, NothingRecordedYet
  <1> QED
    BY <1>1, <1>2 DEF ClientInv

LEMMA ClientStep == ClientInv /\ [ClientNext]_vars => ClientInv'
  <1> SUFFICES ASSUME ClientInv, [ClientNext]_vars PROVE ClientInv'
    OBVIOUS
  <1>1. RecorderInv /\ frameCount \in Nat /\ frames \in Seq(Nat) /\ canDiscard \in BOOLEAN
    BY DEF ClientInv, RecorderInv, RecorderTypes
  <1>2. CASE BeginFrame
    <2>1. /\ ~addingNewSequence /\ InitializeNewSequence
          /\ frameCount' = frameCount + 1
          /\ frames' = <<frameCount'>> \o frames
          /\ toAdd' = MapsOfNewPair(frames')
          /\ canDiscard' = canDiscard
      BY <1>2 DEF BeginFrame
    <2> DEFINE latest == frameCount'
    <2>2. latest \in Nat
      BY <1>1, <2>1
    <2> HIDE DEF latest
    <2>3. /\ <<latest>> \o frames \in Seq(Nat) /\ <<latest>> \o frames # <<>>
          /\ Tail(<<latest>> \o frames) = frames
      BY <1>1, <2>2, ConsFacts
    <2>4. frames' \in Seq(Nat) /\ frames' # <<>> /\ Tail(frames') = frames
      BY <2>1, <2>3 DEF latest
    <2>5. canDiscard' \in BOOLEAN
      BY <1>1, <2>1
    <2>6. RecorderInv'
      BY <1>1, <2>1, <2>4, <2>5, BeginKeepsInv
    <2> QED
      BY <2>2, <2>6 DEF ClientInv, latest
  <1>3. CASE AddNextMap
    <2>1. /\ toAdd # <<>> /\ AddCorrespondences(Head(toAdd)) /\ toAdd' = Tail(toAdd)
          /\ frames' = frames /\ frameCount' = frameCount /\ canDiscard' = canDiscard
      BY <1>3 DEF AddNextMap
    <2>2. canDiscard' \in BOOLEAN
      BY <1>1, <2>1
    <2>3. RecorderInv'
      BY <1>1, <2>1, <2>2, AddKeepsInv
    <2> QED
      BY <1>1, <2>1, <2>3 DEF ClientInv
  <1>4. CASE EndFrame
    <2>1. /\ addingNewSequence /\ toAdd = <<>> /\ CompleteNewSequence /\ canDiscard' = TRUE
          /\ frames' = frames /\ frameCount' = frameCount /\ toAdd' = toAdd
      BY <1>4 DEF EndFrame
    <2>2. canDiscard' \in BOOLEAN
      BY <2>1
    <2>3. RecorderInv'
      BY <1>1, <2>1, <2>2, EndKeepsInv
    <2> QED
      BY <1>1, <2>1, <2>3 DEF ClientInv
  <1>5. CASE DiscardFrame
    <2>1. /\ ~addingNewSequence /\ canDiscard /\ DiscardLatestCorrespondences
          /\ canDiscard' = FALSE /\ frames' = Tail(frames)
          /\ frameCount' = frameCount /\ toAdd' = toAdd
      BY <1>5 DEF DiscardFrame
    <2>2. RecorderInv'
      BY <1>1, <2>1, DiscardKeepsInv
    <2> QED
      BY <1>1, <2>1, <2>2 DEF ClientInv
  <1>6. CASE UNCHANGED vars
    <2>1. /\ UNCHANGED recorderVars /\ frames' = frames /\ toAdd' = toAdd
          /\ canDiscard' = canDiscard /\ frameCount' = frameCount
      BY <1>6 DEF vars, clientVars
    <2>2. canDiscard' \in BOOLEAN /\ (canDiscard' => canDiscard)
      BY <1>1, <2>1
    <2>3. RecorderInv'
      BY <1>1, <2>1, <2>2, IdleKeepsInv
    <2> QED
      BY <1>1, <2>1, <2>3 DEF ClientInv
  <1> QED
    BY <1>2, <1>3, <1>4, <1>5, <1>6 DEF ClientNext

\* The invariant of a client that follows the protocol.
THEOREM ClientInvariant == ClientSpec => []ClientInv
  BY ClientInitInv, ClientStep, PTL DEF ClientSpec

LEMMA InvGivesTypes == RecorderInv => TypeOK
  <1> SUFFICES ASSUME RecorderInv PROVE TypeOK
    OBVIOUS
  <1>1. RecorderTypes
    BY DEF RecorderInv
  <1>2. \A buffer \in Buffers : Len(sequences[buffer]) \in 0..LongestSequence
    <2> TAKE buffer \in Buffers
    <2>1. Len(sequences[buffer]) \in Nat /\ Len(sequences[buffer]) <= LongestSequence
      BY <1>1, LenProperties DEF RecorderTypes
    <2> QED
      BY <2>1, LongestSequenceFits
  <1>3. aborted \in BOOLEAN
    BY <1>1 DEF RecorderTypes
  <1> QED
    BY <1>1, <1>2, <1>3 DEF TypeOK, RecorderTypes, Buffers, LongestSequence, M

\* The counters stay in their ranges and no sequence outgrows the maps
\* between all images of the kept pairs, for one to five poses and whatever
\* the client adds and discards.
THEOREM RecorderTypesHold == ClientSpec => []TypeOK
  <1>1. ClientInv => TypeOK
    BY InvGivesTypes DEF ClientInv
  <1> QED
    BY <1>1, ClientInvariant, PTL

\* For one to five poses no ASSERT of the recorder fails for a client that
\* follows the protocol, and the storage of its sequences is not overrun.
THEOREM ProtocolSafe == ClientSpec => []ProtocolNeverAborts
  <1>1. ClientInv => ProtocolNeverAborts
    BY DEF ClientInv, RecorderInv, RecorderTypes, ProtocolNeverAborts
  <1> QED
    BY <1>1, ClientInvariant, PTL

\* What GetLatestCorrespondences returns between two sequences.
LEMMA LatestIsAsked ==
    ASSUME RecorderInv, ~addingNewSequence
    PROVE  GetLatestCorrespondences = MapsOf(frames)
  BY DEF RecorderInv, BetweenSequences, GetLatestCorrespondences

\* Between two sequences GetLatestCorrespondences returns the maps between
\* the images of the latest pairs not discarded, in the promised order, for
\* one to five poses and every number of pairs.
THEOREM LatestMaps == ClientSpec => []LatestMapsAreThoseOfTheKeptPairs
  <1>1. ClientInv => LatestMapsAreThoseOfTheKeptPairs
    BY LatestIsAsked DEF ClientInv, LatestMapsAreThoseOfTheKeptPairs, MapsOf
  <1> QED
    BY <1>1, ClientInvariant, PTL
================================================================================
