------------------ MODULE MultipleCorrespondences2DRecorder ------------------
(***************************************************************************)
(* DFPCs/Reconstruction3D/MultipleCorrespondences2DRecorder: the 2d        *)
(* correspondence maps between all images of the latest stereo pairs, kept *)
(* in two buffers so that the latest sequence can be taken back once.      *)
(* A failed ASSERT ends the program, here it sets aborted; so does a map    *)
(* too many for the storage of a sequence, which an ASSERT_ON_TEST checks  *)
(* and which is an array otherwise.                                        *)
(***************************************************************************)
EXTENDS CorrespondenceSequences

CONSTANT MAXIMUM_NUMBER_OF_POSES

\* Five pairs have 45 maps between their images, six would have 66.
ASSUME PosesAssumption == MAXIMUM_NUMBER_OF_POSES \in 1..5

\* The storage of a sequence of maps.
MAX_CORRESPONDENCE_MAPS_SEQUENCE_LENGTH == 56

\* Smaller than the number of maps of a full sequence: it counts the pairs of
\* poses and not those of their images.
MAXIMUM_NUMBER_OF_MAPS == (MAXIMUM_NUMBER_OF_POSES * (MAXIMUM_NUMBER_OF_POSES - 1)) \div 2

FIRST_SEQUENCE == 1
SECOND_SEQUENCE == 2
Other(buffer) == FIRST_SEQUENCE + SECOND_SEQUENCE - buffer

VARIABLES latestSequence,
          working,      \* buffer of workingCorrespondenceMapSequence
          sequences,    \* the maps in each buffer
          numberOfOldPoses,
          addingNewSequence,
          oneCorrespondenceWasAddedSinceLastDiscard,
          expectedMapsToAdd,
          aborted

flagVars == <<addingNewSequence, oneCorrespondenceWasAddedSinceLastDiscard>>
recorderVars == <<latestSequence, working, sequences, numberOfOldPoses,
                  addingNewSequence, oneCorrespondenceWasAddedSinceLastDiscard,
                  expectedMapsToAdd, aborted>>

history == Other(working)
SmallerOf(a, b) == IF a < b THEN a ELSE b

Init ==
    /\ latestSequence = SECOND_SEQUENCE
    /\ working = FIRST_SEQUENCE
    /\ sequences = [buffer \in {FIRST_SEQUENCE, SECOND_SEQUENCE} |-> <<>>]
    /\ numberOfOldPoses = -1
    /\ addingNewSequence = FALSE
    /\ oneCorrespondenceWasAddedSinceLastDiscard = FALSE
    /\ expectedMapsToAdd = 0
    /\ aborted = FALSE

Abort == /\ aborted' = TRUE
         /\ UNCHANGED <<latestSequence, working, sequences, numberOfOldPoses,
                        flagVars, expectedMapsToAdd>>

\* Fault: the number of old poses has no upper bound.
InitializeNewSequence_Unbounded ==
    \/ /\ ~addingNewSequence
       /\ latestSequence' = Other(latestSequence)
       /\ working' = latestSequence'
       /\ sequences' = [sequences EXCEPT ![working'] = <<>>]
       /\ numberOfOldPoses' = numberOfOldPoses + 1
       /\ addingNewSequence' = TRUE
       /\ expectedMapsToAdd' = 4 * SmallerOf(numberOfOldPoses', MAXIMUM_NUMBER_OF_POSES - 1) + 1
       /\ UNCHANGED <<oneCorrespondenceWasAddedSinceLastDiscard, aborted>>
    \/ addingNewSequence /\ Abort

\* The buffers swap their roles and the new working one is emptied. The
\* number of old poses stops one above the maximum.
InitializeNewSequence ==
    \/ /\ ~addingNewSequence
       /\ latestSequence' = Other(latestSequence)
       /\ working' = latestSequence'
       /\ sequences' = [sequences EXCEPT ![working'] = <<>>]
       /\ numberOfOldPoses' = IF numberOfOldPoses <= MAXIMUM_NUMBER_OF_POSES
                              THEN numberOfOldPoses + 1
                              ELSE numberOfOldPoses
       /\ addingNewSequence' = TRUE
       /\ expectedMapsToAdd' = 4 * SmallerOf(numberOfOldPoses', MAXIMUM_NUMBER_OF_POSES - 1) + 1
       /\ UNCHANGED <<oneCorrespondenceWasAddedSinceLastDiscard, aborted>>
    \/ addingNewSequence /\ Abort

MapIsAccepted ==
    /\ Len(sequences[working]) < expectedMapsToAdd
    /\ Len(sequences[working]) < MAX_CORRESPONDENCE_MAPS_SEQUENCE_LENGTH

AddCorrespondences(map) ==
    \/ /\ MapIsAccepted
       /\ sequences' = [sequences EXCEPT ![working] = Append(@, map)]
       /\ UNCHANGED <<latestSequence, working, numberOfOldPoses, flagVars,
                      expectedMapsToAdd, aborted>>
    \/ ~MapIsAccepted /\ Abort

\* The maps of the history that still matter: all of them while there is
\* room, else those without the two images of the oldest pose.
MapsToKeep ==
    IF numberOfOldPoses < MAXIMUM_NUMBER_OF_POSES
    THEN sequences[history]
    ELSE MapsAt(sequences[history], ReadPositions(2 * (MAXIMUM_NUMBER_OF_POSES - 1), 2))

SequenceIsComplete == addingNewSequence /\ Len(sequences[working]) = expectedMapsToAdd

MapsAreStored ==
    Len(sequences[working] \o MapsToKeep) <= MAX_CORRESPONDENCE_MAPS_SEQUENCE_LENGTH

CompleteNewSequence ==
    \/ /\ SequenceIsComplete /\ MapsAreStored
       /\ sequences' = [sequences EXCEPT ![working] = @ \o MapsToKeep]
       /\ addingNewSequence' = FALSE
       /\ oneCorrespondenceWasAddedSinceLastDiscard' = TRUE
       /\ UNCHANGED <<latestSequence, working, numberOfOldPoses, expectedMapsToAdd, aborted>>
    \/ ~(SequenceIsComplete /\ MapsAreStored) /\ Abort

\* Fault: a discard is ignored.
GetLatestCorrespondences_AlwaysWorking == sequences[working]

\* The sequence GetLatestCorrespondences returns, before it is filtered.
GetLatestCorrespondences ==
    sequences[IF oneCorrespondenceWasAddedSinceLastDiscard THEN working ELSE history]

\* How many maps Filter and ComputeChainFrom read, unless a chain ends
\* early: none of a short sequence, else those between all images of
\* MAXIMUM_NUMBER_OF_POSES stereo pairs, however many maps there are.
MapsReadByFilter ==
    IF Len(GetLatestCorrespondences) < MAXIMUM_NUMBER_OF_MAPS
    THEN 0
    ELSE MAXIMUM_NUMBER_OF_POSES * (2 * MAXIMUM_NUMBER_OF_POSES - 1)

\* Fault: the number of old poses is not taken back.
DiscardLatestCorrespondences_KeepsCount ==
    /\ oneCorrespondenceWasAddedSinceLastDiscard
    /\ latestSequence' = Other(latestSequence)
    /\ oneCorrespondenceWasAddedSinceLastDiscard' = FALSE
    /\ UNCHANGED <<working, sequences, numberOfOldPoses, addingNewSequence,
                   expectedMapsToAdd, aborted>>

\* Only the index of the latest buffer and the number of poses go back; the
\* two pointers stay until the next sequence is started.
DiscardLatestCorrespondences ==
    \/ /\ oneCorrespondenceWasAddedSinceLastDiscard
       /\ latestSequence' = Other(latestSequence)
       /\ numberOfOldPoses' = IF numberOfOldPoses >= 0 THEN numberOfOldPoses - 1
                              ELSE numberOfOldPoses
       /\ oneCorrespondenceWasAddedSinceLastDiscard' = FALSE
       /\ UNCHANGED <<working, sequences, addingNewSequence, expectedMapsToAdd, aborted>>
    \/ ~oneCorrespondenceWasAddedSinceLastDiscard /\ Abort
=============================================================================
