--------------------------- MODULE Recorder2DClient ---------------------------
(***************************************************************************)
(* The 2d recorder with a client that follows the protocol of its header:  *)
(* a sequence is initialised, filled and completed, and the latest one is  *)
(* discarded at most once, never twice in a row.  The maps a client adds   *)
(* for a new stereo pair are those from its two images to the images of    *)
(* the pairs kept, as CreateWorkingCorrespondences does.                   *)
(***************************************************************************)
EXTENDS MultipleCorrespondences2DRecorder

CONSTANT MaxFrames      \* bound on the number of stereo pairs

ASSUME MaxFramesAssumption == MaxFrames \in Nat

VARIABLES frames,       \* the pairs added and not discarded, latest first
          frameCount,   \* number of pairs seen
          toAdd,        \* maps still to be added for the latest pair
          canDiscard    \* the latest sequence has not been discarded

clientVars == <<frames, frameCount, toAdd, canDiscard>>
vars == <<recorderVars, clientVars>>

\* Left and right image of each of the latest pairs the recorder keeps.
Images(pairs) ==
    ImagesOfPairs(SubSeq(pairs, 1, SmallerOf(Len(pairs), MAXIMUM_NUMBER_OF_POSES)))

\* The maps from the images of the first pair to all later images.
MapsOfNewPair(pairs) == MapsFrom(Images(pairs), 1) \o MapsFrom(Images(pairs), 2)

ClientInit ==
    /\ Init
    /\ frames = <<>>
    /\ frameCount = 0
    /\ toAdd = <<>>
    /\ canDiscard = FALSE

BeginFrame ==
    /\ ~aborted
    /\ ~addingNewSequence
    /\ frameCount < MaxFrames
    /\ InitializeNewSequence
    /\ frameCount' = frameCount + 1
    /\ frames' = <<frameCount'>> \o frames
    /\ toAdd' = MapsOfNewPair(frames')
    /\ UNCHANGED canDiscard

AddNextMap ==
    /\ ~aborted
    /\ toAdd # <<>>
    /\ AddCorrespondences(Head(toAdd))
    /\ toAdd' = Tail(toAdd)
    /\ UNCHANGED <<frames, frameCount, canDiscard>>

EndFrame ==
    /\ ~aborted
    /\ addingNewSequence
    /\ toAdd = <<>>
    /\ CompleteNewSequence
    /\ canDiscard' = TRUE
    /\ UNCHANGED <<frames, frameCount, toAdd>>

DiscardFrame ==
    /\ ~aborted
    /\ ~addingNewSequence
    /\ canDiscard
    /\ DiscardLatestCorrespondences
    /\ canDiscard' = FALSE
    /\ frames' = Tail(frames)
    /\ UNCHANGED <<frameCount, toAdd>>

ClientNext == BeginFrame \/ AddNextMap \/ EndFrame \/ DiscardFrame

ClientSpec == ClientInit /\ [][ClientNext]_vars

-----------------------------------------------------------------------------
\* The buffers hold pairs of images and the counters stay in their ranges;
\* a sequence never outgrows the maps between all images kept.
TypeOK ==
    /\ latestSequence \in {FIRST_SEQUENCE, SECOND_SEQUENCE}
    /\ working \in {FIRST_SEQUENCE, SECOND_SEQUENCE}
    /\ \A buffer \in {FIRST_SEQUENCE, SECOND_SEQUENCE} :
          Len(sequences[buffer]) \in 0..(MAXIMUM_NUMBER_OF_POSES * (2 * MAXIMUM_NUMBER_OF_POSES - 1))
    /\ numberOfOldPoses \in -1..(MAXIMUM_NUMBER_OF_POSES + 1)
    /\ addingNewSequence \in BOOLEAN
    /\ oneCorrespondenceWasAddedSinceLastDiscard \in BOOLEAN
    /\ expectedMapsToAdd \in 0..(4 * MAXIMUM_NUMBER_OF_POSES - 3)
    /\ aborted \in BOOLEAN

\* A client that follows the protocol never meets a failed ASSERT, however
\* many sequences it discards: the recorder's count of old poses and the
\* pairs the client still has agree.
ProtocolNeverAborts == ~aborted

\* Between two sequences GetLatestCorrespondences returns exactly the maps
\* between the images of the latest pairs not discarded, in the order the
\* header promises, also right after a discard and after pairs were dropped.
LatestMapsAreThoseOfTheKeptPairs ==
    ~addingNewSequence => GetLatestCorrespondences = AllMaps(Images(frames))
=============================================================================
