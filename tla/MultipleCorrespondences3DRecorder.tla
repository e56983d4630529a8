------------------ MODULE MultipleCorrespondences3DRecorder ------------------
(***************************************************************************)
(* DFPCs/Reconstruction3D/MultipleCorrespondences3DRecorder: the 3d        *)
(* correspondence maps between the latest stereo pairs, kept in two        *)
(* buffers like the 2d maps.  A failed ASSERT ends the program, here it    *)
(* sets aborted.                                                           *)
(***************************************************************************)
EXTENDS CorrespondenceSequences

CONSTANT MAXIMUM_NUMBER_OF_POSES

FIRST_SEQUENCE == 1
SECOND_SEQUENCE == 2
Other(buffer) == FIRST_SEQUENCE + SECOND_SEQUENCE - buffer

VARIABLES latestSequence,
          working,      \* buffer of workingCorrespondenceMapSequence
          sequences,    \* the maps in each buffer
          numberOfOldPoses,
          addingNewSequence,
          oneCorrespondenceWasAddedSinceLastDiscard,
          numberOfMapsAddedSinceLastInitialization,
          aborted

flagVars == <<addingNewSequence, oneCorrespondenceWasAddedSinceLastDiscard>>
recorderVars == <<latestSequence, working, sequences, numberOfOldPoses,
                  addingNewSequence, oneCorrespondenceWasAddedSinceLastDiscard,
                  numberOfMapsAddedSinceLastInitialization, aborted>>

history == Other(working)
SmallerOf(a, b) == IF a < b THEN a ELSE b

Init ==
    /\ latestSequence = SECOND_SEQUENCE
    /\ working = FIRST_SEQUENCE
    /\ sequences = [buffer \in {FIRST_SEQUENCE, SECOND_SEQUENCE} |-> <<>>]
    /\ numberOfOldPoses = -1
    /\ addingNewSequence = FALSE
    /\ oneCorrespondenceWasAddedSinceLastDiscard = FALSE
    /\ numberOfMapsAddedSinceLastInitialization = 0
    /\ aborted = FALSE

Abort == /\ aborted' = TRUE
         /\ UNCHANGED <<latestSequence, working, sequences, numberOfOldPoses,
                        flagVars, numberOfMapsAddedSinceLastInitialization>>

InitializeNewSequence ==
    \/ /\ ~addingNewSequence
       /\ latestSequence' = Other(latestSequence)
       /\ working' = latestSequence'
       /\ sequences' = [sequences EXCEPT ![working'] = <<>>]
       /\ numberOfOldPoses' = IF numberOfOldPoses <= MAXIMUM_NUMBER_OF_POSES
                              THEN numberOfOldPoses + 1
                              ELSE numberOfOldPoses
       /\ addingNewSequence' = TRUE
       /\ numberOfMapsAddedSinceLastInitialization' = 0
       /\ UNCHANGED <<oneCorrespondenceWasAddedSinceLastDiscard, aborted>>
    \/ addingNewSequence /\ Abort

\* The four 2d maps and the two clouds of two stereo pairs become one map:
\* its points are those the four maps agree on.
AddCorrespondencesFromTwoImagePairs(map) ==
    \/ /\ addingNewSequence
       /\ sequences' = [sequences EXCEPT ![working] = Append(@, map)]
       /\ numberOfMapsAddedSinceLastInitialization' = numberOfMapsAddedSinceLastInitialization + 1
       /\ UNCHANGED <<latestSequence, working, numberOfOldPoses, flagVars, aborted>>
    \/ ~addingNewSequence /\ Abort

\* As in the 2d recorder two positions are skipped after each source,
\* though only one map of the oldest pose follows there.
MapsToKeep ==
    IF numberOfOldPoses < MAXIMUM_NUMBER_OF_POSES
    THEN sequences[history]
    ELSE MapsAt(sequences[history], ReadPositions(MAXIMUM_NUMBER_OF_POSES - 1, 2))

SequenceIsComplete ==
    /\ addingNewSequence
    /\ numberOfMapsAddedSinceLastInitialization
          = SmallerOf(numberOfOldPoses, MAXIMUM_NUMBER_OF_POSES - 1)

CompleteNewSequence ==
    \/ /\ SequenceIsComplete
       /\ sequences' = [sequences EXCEPT ![working] = @ \o MapsToKeep]
       /\ addingNewSequence' = FALSE
       /\ oneCorrespondenceWasAddedSinceLastDiscard' = TRUE
       /\ UNCHANGED <<latestSequence, working, numberOfOldPoses,
                      numberOfMapsAddedSinceLastInitialization, aborted>>
    \/ ~SequenceIsComplete /\ Abort

GetLatestCorrespondences ==
    sequences[IF oneCorrespondenceWasAddedSinceLastDiscard THEN working ELSE history]

DiscardLatestCorrespondences ==
    \/ /\ oneCorrespondenceWasAddedSinceLastDiscard
       /\ latestSequence' = Other(latestSequence)
       /\ numberOfOldPoses' = IF numberOfOldPoses >= 0 THEN numberOfOldPoses - 1
                              ELSE numberOfOldPoses
       /\ oneCorrespondenceWasAddedSinceLastDiscard' = FALSE
       /\ UNCHANGED <<working, sequences, addingNewSequence,
                      numberOfMapsAddedSinceLastInitialization, aborted>>
    \/ ~oneCorrespondenceWasAddedSinceLastDiscard /\ Abort
=============================================================================
