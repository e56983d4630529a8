---------------------------- MODULE BundleHistory ----------------------------
(***************************************************************************)
(* DFPCs/Reconstruction3D/BundleHistory: the circular queue in which every *)
(* stereo reconstruction DFPC keeps its latest inputs and what it computed *)
(* from them.                                                              *)
(*                                                                         *)
(* The two image lists always hold data of the same input and are one list *)
(* here.  The categories of the three maps of 2d features, matches and     *)
(* point clouds are handled alike and are the set Categories; the map of   *)
(* 3d features is not, DeleteAllDataAt and RemoveEntry skip it, and it is  *)
(* a list of its own.  A category whose vector was not created yet reads   *)
(* like one full of NULL.  A payload is the number of the input it was     *)
(* computed from; heap holds the payloads that were allocated and not yet  *)
(* deleted, so that a lost or a twice deleted pointer can be seen.         *)
(***************************************************************************)
EXTENDS Integers, FiniteSets, Sequences

CONSTANTS Size,         \* argument of the constructor
          Categories,   \* categories of 2d features, matches and clouds
          MaxInputs     \* bound on the number of AddImages calls

Image == "image"
Features3d == "features3d"

ASSUME SizeAssumption == Size \in Nat \ {0}
ASSUME CategoriesAssumption == Image \notin Categories /\ Features3d \notin Categories
ASSUME MaxInputsAssumption == MaxInputs \in Nat

NULL == 0
NO_RECENT_ENTRY == -1

\* The lists DeleteAllDataAt covers, and all of them.
Deleted == Categories \cup {Image}
AllLists == Deleted \cup {Features3d}

Slots == 0..(Size - 1)
Payloads == 0..MaxInputs

VARIABLES mostRecentEntryIndex,
          oldestEntryIndex,
          lists,        \* lists[c][i]: the pointer of list c in slot i
          removing,     \* RemoveEntry's index while its loop runs
          alive,        \* FALSE once the destructor has run
          inputs,       \* number of AddImages calls
          heap          \* allocated payloads: pairs <<list, input>>

queueVars == <<mostRecentEntryIndex, oldestEntryIndex>>
vars == <<mostRecentEntryIndex, oldestEntryIndex, lists, removing, alive, inputs, heap>>

-----------------------------------------------------------------------------
(* The index arithmetic and the clean-up helper. *)

\* Unlike the comment suggests an empty history does not always give
\* NO_RECENT_ENTRY: the candidate is compared with an index of -1.
BackwardStepsToIndex(backwardSteps) ==
    LET candidate == (mostRecentEntryIndex + Size - backwardSteps) % Size
        inside == IF oldestEntryIndex <= mostRecentEntryIndex
                  THEN oldestEntryIndex <= candidate /\ candidate <= mostRecentEntryIndex
                  ELSE oldestEntryIndex <= candidate \/ candidate <= mostRecentEntryIndex
    IN  IF backwardSteps < Size /\ inside THEN candidate ELSE NO_RECENT_ENTRY

\* Fault: deleted pointers are not set to NULL.
ListsWithoutDataAt_KeepsPointers(index) == lists

\* The lists and the heap after DeleteAllDataAt(index).
ListsWithoutDataAt(index) ==
    [c \in AllLists |-> IF c \in Deleted THEN [lists[c] EXCEPT ![index] = NULL] ELSE lists[c]]

HeapWithoutDataAt(index) == heap \ {<<c, lists[c][index]>> : c \in Deleted}

\* Getters: NULL when there is no such entry, else what the slot holds.
GetData(c, backwardSteps) ==
    LET index == BackwardStepsToIndex(backwardSteps)
    IN  IF index = NO_RECENT_ENTRY THEN NULL ELSE lists[c][index]

-----------------------------------------------------------------------------
(* Operations. Only RemoveEntry has a loop whose steps matter; a caller is *)
(* inside it while removing is an index.                                   *)

Ready == alive /\ removing = NO_RECENT_ENTRY

Init ==
    /\ mostRecentEntryIndex = NO_RECENT_ENTRY
    /\ oldestEntryIndex = 0
    /\ lists = [c \in AllLists |-> [i \in Slots |-> NULL]]
    /\ removing = NO_RECENT_ENTRY
    /\ alive = TRUE
    /\ inputs = 0
    /\ heap = {}

IsFull == /\ mostRecentEntryIndex # NO_RECENT_ENTRY
          /\ (mostRecentEntryIndex + 1) % Size = oldestEntryIndex

\* Fault: the images are replaced without deleting the oldest entry.
ReplaceOldestImages_KeepsData ==
    /\ IsFull
    /\ lists' = [lists EXCEPT ![Image][oldestEntryIndex] = inputs']
    /\ heap' = heap \cup {<<Image, inputs'>>}
    /\ mostRecentEntryIndex' = oldestEntryIndex
    /\ oldestEntryIndex' = (oldestEntryIndex + 1) % Size

\* Fault: the oldest index stays at the replaced entry.
ReplaceOldestImages_OldestStays ==
    /\ IsFull
    /\ lists' = [ListsWithoutDataAt(oldestEntryIndex) EXCEPT ![Image][oldestEntryIndex] = inputs']
    /\ heap' = HeapWithoutDataAt(oldestEntryIndex) \cup {<<Image, inputs'>>}
    /\ mostRecentEntryIndex' = oldestEntryIndex
    /\ UNCHANGED oldestEntryIndex

\* A full history deletes the oldest entry and reuses its slot.
ReplaceOldestImages ==
    /\ IsFull
    /\ lists' = [ListsWithoutDataAt(oldestEntryIndex) EXCEPT ![Image][oldestEntryIndex] = inputs']
    /\ heap' = HeapWithoutDataAt(oldestEntryIndex) \cup {<<Image, inputs'>>}
    /\ mostRecentEntryIndex' = oldestEntryIndex
    /\ oldestEntryIndex' = (oldestEntryIndex + 1) % Size

\* Fault: the newest index does not wrap around.
AppendImages_NoWrap ==
    /\ ~IsFull
    /\ mostRecentEntryIndex' = mostRecentEntryIndex + 1
    /\ lists' = [lists EXCEPT ![Image][mostRecentEntryIndex'] = inputs']
    /\ heap' = heap \cup {<<Image, inputs'>>}
    /\ UNCHANGED oldestEntryIndex

AppendImages ==
    /\ ~IsFull
    /\ mostRecentEntryIndex' = (mostRecentEntryIndex + 1) % Size
    /\ lists' = [lists EXCEPT ![Image][mostRecentEntryIndex'] = inputs']
    /\ heap' = heap \cup {<<Image, inputs'>>}
    /\ UNCHANGED oldestEntryIndex

AddImages ==
    /\ Ready
    /\ inputs < MaxInputs
    /\ inputs' = inputs + 1
    /\ ReplaceOldestImages \/ AppendImages
    /\ UNCHANGED <<removing, alive>>

\* AddFeatures, AddFeatures3d, AddMatches and AddPointCloud: what the slot
\* of the latest entry held is deleted first. The callers compute the data
\* from the images they added last.
AddData(c) ==
    /\ Ready
    /\ mostRecentEntryIndex # NO_RECENT_ENTRY
    /\ lists[Image][mostRecentEntryIndex] = inputs
    /\ lists' = [lists EXCEPT ![c][mostRecentEntryIndex] = inputs]
    /\ heap' = (heap \ {<<c, lists[c][mostRecentEntryIndex]>>}) \cup {<<c, inputs>>}
    /\ UNCHANGED <<mostRecentEntryIndex, oldestEntryIndex, removing, alive, inputs>>

\* The index part of RemoveOldestEntry; an emptied queue keeps its oldest
\* index.
DropOldestIndex ==
    IF mostRecentEntryIndex = NO_RECENT_ENTRY
    THEN UNCHANGED queueVars
    ELSE IF oldestEntryIndex = mostRecentEntryIndex
    THEN mostRecentEntryIndex' = NO_RECENT_ENTRY /\ UNCHANGED oldestEntryIndex
    ELSE oldestEntryIndex' = (oldestEntryIndex + 1) % Size /\ UNCHANGED mostRecentEntryIndex

RemoveOldestEntry ==
    /\ Ready
    /\ lists' = ListsWithoutDataAt(oldestEntryIndex)
    /\ heap' = HeapWithoutDataAt(oldestEntryIndex)
    /\ DropOldestIndex
    /\ UNCHANGED <<removing, alive, inputs>>

\* RemoveEntry up to its loop. For the oldest entry it calls
\* RemoveOldestEntry and goes on all the same; deleting the slot twice is
\* harmless, the first time has set it to NULL.
RemoveEntry(backwardSteps) ==
    LET index == BackwardStepsToIndex(backwardSteps)
    IN  /\ Ready
        /\ index # NO_RECENT_ENTRY
        /\ lists' = ListsWithoutDataAt(index)
        /\ heap' = HeapWithoutDataAt(index)
        /\ IF index = oldestEntryIndex THEN DropOldestIndex ELSE UNCHANGED queueVars
        /\ removing' = index
        /\ UNCHANGED <<alive, inputs>>

\* Fault: the images are shifted, the data computed from them is not.
ShiftEntry_ImagesOnly ==
    /\ removing # NO_RECENT_ENTRY
    /\ removing # mostRecentEntryIndex
    /\ removing' = (removing + 1) % Size
    /\ lists' = [lists EXCEPT ![Image][removing] = lists[Image][removing']]
    /\ UNCHANGED <<mostRecentEntryIndex, oldestEntryIndex, alive, inputs, heap>>

\* One iteration of the loop: the next entry moves one slot down.
ShiftEntry ==
    /\ removing # NO_RECENT_ENTRY
    /\ removing # mostRecentEntryIndex
    /\ removing' = (removing + 1) % Size
    /\ lists' = [c \in AllLists |->
                    IF c \in Deleted
                    THEN [lists[c] EXCEPT ![removing] = lists[c][removing']]
                    ELSE lists[c]]
    /\ UNCHANGED <<mostRecentEntryIndex, oldestEntryIndex, alive, inputs, heap>>

\* Fault: the vacated slot still points at the entry that left it.
FinishRemoval_SlotKept ==
    /\ removing # NO_RECENT_ENTRY
    /\ removing = mostRecentEntryIndex
    /\ removing' = NO_RECENT_ENTRY
    /\ mostRecentEntryIndex' = IF mostRecentEntryIndex = oldestEntryIndex
                               THEN NO_RECENT_ENTRY
                               ELSE (mostRecentEntryIndex + Size - 1) % Size
    /\ UNCHANGED <<oldestEntryIndex, lists, alive, inputs, heap>>

\* Fault: the newest index stays at the vacated slot.
FinishRemoval_IndexStays ==
    /\ removing # NO_RECENT_ENTRY
    /\ removing = mostRecentEntryIndex
    /\ removing' = NO_RECENT_ENTRY
    /\ lists' = ListsWithoutDataAt(mostRecentEntryIndex)
    /\ UNCHANGED <<mostRecentEntryIndex, oldestEntryIndex, alive, inputs, heap>>

\* After the loop: the vacated slot is nulled and the newest index goes back.
FinishRemoval ==
    /\ removing # NO_RECENT_ENTRY
    /\ removing = mostRecentEntryIndex
    /\ removing' = NO_RECENT_ENTRY
    /\ lists' = ListsWithoutDataAt(mostRecentEntryIndex)
    /\ mostRecentEntryIndex' = IF mostRecentEntryIndex = oldestEntryIndex
                               THEN NO_RECENT_ENTRY
                               ELSE (mostRecentEntryIndex + Size - 1) % Size
    /\ UNCHANGED <<oldestEntryIndex, alive, inputs, heap>>

\* The destructor deletes the data of every slot.
Destroy ==
    /\ Ready
    /\ alive' = FALSE
    /\ lists' = [c \in AllLists |-> IF c \in Deleted THEN [i \in Slots |-> NULL] ELSE lists[c]]
    /\ heap' = {h \in heap : \A c \in Deleted, i \in Slots : h # <<c, lists[c][i]>>}
    /\ UNCHANGED <<mostRecentEntryIndex, oldestEntryIndex, removing, inputs>>

-----------------------------------------------------------------------------
(* Any sequence of calls of the public methods, data being added only for the *)
(* images added last. *)

Filling == AddImages \/ \E c \in AllLists \ {Image} : AddData(c)
RemovalLoop == ShiftEntry \/ FinishRemoval

Next ==
    \/ Filling
    \/ RemoveOldestEntry
    \/ \E backwardSteps \in Slots : RemoveEntry(backwardSteps)
    \/ RemovalLoop
    \/ Destroy

Spec == Init /\ [][Next]_vars

(* The calls the DFPCs make: an entry is removed only while an older one  *)
(* remains, so never the oldest and never from an empty history.          *)

\* Fault: the caller does not care whether an older entry remains.
RemoveNewerEntry_Unguarded == \E backwardSteps \in Slots : RemoveEntry(backwardSteps)

RemoveNewerEntry ==
    /\ mostRecentEntryIndex # NO_RECENT_ENTRY
    /\ \E backwardSteps \in Slots :
          /\ BackwardStepsToIndex(backwardSteps) # oldestEntryIndex
          /\ RemoveEntry(backwardSteps)

CallerNext ==
    \/ Filling
    \/ RemoveNewerEntry
    \/ oldestEntryIndex # mostRecentEntryIndex /\ mostRecentEntryIndex # NO_RECENT_ENTRY
          /\ RemoveOldestEntry
    \/ RemovalLoop
    \/ Destroy

\* A call of RemoveEntry runs to its end: nothing else blocks its loop.
CallerSpec == Init /\ [][CallerNext]_vars /\ WF_vars(RemovalLoop)

-----------------------------------------------------------------------------
(* Properties. *)

\* Every pointer of the queue is an index of the lists or the sentinel.
TypeOK ==
    /\ mostRecentEntryIndex \in Slots \cup {NO_RECENT_ENTRY}
    /\ oldestEntryIndex \in Slots
    /\ lists \in [AllLists -> [Slots -> Payloads]]
    /\ removing \in Slots \cup {NO_RECENT_ENTRY}
    /\ alive \in BOOLEAN
    /\ inputs \in Payloads
    /\ heap \subseteq AllLists \X Payloads

\* The slots of the queue, from the oldest to the most recent entry; the one
\* being removed is not an entry any more.
Ring ==
    IF mostRecentEntryIndex = NO_RECENT_ENTRY THEN {}
    ELSE IF oldestEntryIndex <= mostRecentEntryIndex
    THEN oldestEntryIndex..mostRecentEntryIndex
    ELSE {i \in Slots : oldestEntryIndex <= i \/ i <= mostRecentEntryIndex}

Entries == Ring \ {removing}

\* An entry of the queue always has its images (the class comment calls them
\* mandatory): no sequence of additions and removals leaves a hole.
EveryEntryHasImages == alive => \A i \in Entries : lists[Image][i] # NULL

\* No input is stored twice, and none that was not seen.
EntriesAreDistinct ==
    alive => \A i \in Entries :
                /\ lists[Image][i] <= inputs
                /\ \A j \in Entries : i # j => lists[Image][i] # lists[Image][j]

\* Outside the queue there is nothing that an entry stored there later
\* could take for its own data.
NothingOutsideTheQueue == \A i \in Slots \ Ring, c \in Deleted : lists[c][i] = NULL

\* Features, matches and clouds stay with the images they were computed
\* from, also when RemoveEntry shifts the later entries.
DataStaysWithItsImages ==
    \A i \in Entries, c \in Categories : lists[c][i] \in {NULL, lists[Image][i]}

\* In every list but that of the 3d features, the pointers are exactly the
\* payloads that are allocated and not deleted: none of them is leaked and
\* none that was deleted is still reachable. The 3d features are left out
\* because DeleteAllDataAt and the destructor never delete them: they leak.
\* In the loop of RemoveEntry the slot being vacated does not count, what it
\* holds is about to be overwritten.
HeapMatchesLists ==
    \A c \in Deleted, p \in Payloads \ {NULL} :
        <<c, p>> \in heap <=> \E i \in Slots \ {removing} : lists[c][i] = p

\* Whatever calls are made, data being added only for the images added last,
\* no list holds a pointer that was deleted: the next deletion of the slot
\* would be a double one.
NoDanglingPointer ==
    \A c \in Deleted, i \in Slots : lists[c][i] # NULL => <<c, lists[c][i]>> \in heap

\* Why no call can leave one behind: but for the slot a removal is about to
\* overwrite, no two slots share a pointer, every pointer is of an input
\* seen, and what was computed from the latest one is next to its images.
PointersAreInOneSlot ==
    \A c \in Deleted, i, j \in Slots \ {removing} :
        i # j /\ lists[c][i] # NULL => lists[c][i] # lists[c][j]

PayloadsWereSeen == \A c \in Deleted, i \in Slots : lists[c][i] <= inputs

LatestDataIsWithItsImages ==
    \A c \in Deleted, i \in Slots \ {removing} :
        lists[c][i] = inputs /\ inputs # NULL => lists[Image][i] = inputs

PointerInv == /\ TypeOK
              /\ NoDanglingPointer
              /\ PointersAreInOneSlot
              /\ PayloadsWereSeen
              /\ LatestDataIsWithItsImages

\* Why the invariants survive the calls of the DFPCs: an entry under removal
\* is inside the queue and never its oldest one, and an empty queue is one
\* that was never used, so its oldest index is still the first slot.
RemovalInsideQueue ==
    removing # NO_RECENT_ENTRY => removing \in Ring \ {oldestEntryIndex} /\ alive

EmptyQueueIsFresh == mostRecentEntryIndex = NO_RECENT_ENTRY => oldestEntryIndex = 0

IInv == /\ TypeOK
        /\ RemovalInsideQueue
        /\ EmptyQueueIsFresh
        /\ EveryEntryHasImages
        /\ EntriesAreDistinct
        /\ NothingOutsideTheQueue
        /\ DataStaysWithItsImages
        /\ HeapMatchesLists

\* "This method removes an entry": once RemoveEntry has dropped the entry
\* asked for, its loop loses no other.
LoopLosesNoEntry ==
    [][removing # NO_RECENT_ENTRY => Cardinality(Entries') = Cardinality(Entries)]_vars

\* "the oldest entry is removed and forgotten": the 3d features read for an
\* entry are its own.
Features3dBelongToTheirEntry ==
    alive => \A i \in Entries : lists[Features3d][i] \in {NULL, lists[Image][i]}

\* RemoveEntry returns.
RemovalTerminates == (removing # NO_RECENT_ENTRY) ~> (removing = NO_RECENT_ENTRY)

(* Refinement: the entries in order are a bounded queue. *)

\* The place of a slot of the ring, the oldest entry being the first, and
\* the slot at a place.
PlaceOf(slot) == 1 + ((slot + Size - oldestEntryIndex) % Size)
SlotAt(place) == (oldestEntryIndex + place - 1) % Size
RingLength == IF mostRecentEntryIndex = NO_RECENT_ENTRY THEN 0 ELSE PlaceOf(mostRecentEntryIndex)

\* The slot that is being removed is skipped.
EntryCount == IF removing = NO_RECENT_ENTRY THEN RingLength ELSE RingLength - 1
SlotOfEntry(k) ==
    IF removing # NO_RECENT_ENTRY /\ PlaceOf(removing) <= k THEN SlotAt(k + 1) ELSE SlotAt(k)

EntryAt(i) == [id |-> lists[Image][i], data |-> [c \in Categories |-> lists[c][i]]]

AbstractQueue == IF alive THEN [k \in 1..EntryCount |-> EntryAt(SlotOfEntry(k))] ELSE <<>>

Queue == INSTANCE HistoryQueue WITH Capacity <- Size, queue <- AbstractQueue

\* The calls of the DFPCs see the bounded queue of the class comment.
ImplementsQueue == Queue!Spec
=============================================================================
