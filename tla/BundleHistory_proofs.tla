------------------------ MODULE BundleHistory_proofs ------------------------
(***************************************************************************)
(* The indices and pointers of BundleHistory stay well formed under every  *)
(* sequence of calls, and under the calls of the DFPCs the queue is always *)
(* complete, clean and correctly associated, for every size.               *)
(***************************************************************************)
EXTENDS BundleHistory, TLAPS

\* Moving one slot forward or back in the circular vectors.
LEMMA SlotArithmetic ==
    /\ \A a \in Int : a % Size \in Slots
    /\ \A i \in Slots : (i + 1) % Size = IF i = Size - 1 THEN 0 ELSE i + 1
    /\ \A i \in Slots : (i + Size - 1) % Size = IF i = 0 THEN Size - 1 ELSE i - 1
  <1> USE SizeAssumption DEF Slots
  <1>1. \A a \in Int : a % Size \in Slots
    BY SMT
  <1>2. ASSUME NEW i \in Slots
        PROVE  (i + 1) % Size = IF i = Size - 1 THEN 0 ELSE i + 1
    <2>1. \A a \in Slots : a % Size = a
      BY SMT
    <2>2. Size % Size = 0
      BY SMT
    <2> QED BY <2>1, <2>2
  <1>3. ASSUME NEW i \in Slots
        PROVE  (i + Size - 1) % Size = IF i = 0 THEN Size - 1 ELSE i - 1
    BY SMT
  <1> QED BY <1>1, <1>2, <1>3

\* The index of a getter or of RemoveEntry is a slot of the queue, unless the
\* queue is empty.
LEMMA IndexOfStepsIsInRing ==
    ASSUME TypeOK, NEW b \in Slots, BackwardStepsToIndex(b) # NO_RECENT_ENTRY
    PROVE  /\ BackwardStepsToIndex(b) \in Slots
           /\ mostRecentEntryIndex # NO_RECENT_ENTRY => BackwardStepsToIndex(b) \in Ring
  <1>1. (mostRecentEntryIndex + Size - b) % Size \in Slots
    <2>1. mostRecentEntryIndex + Size - b \in Int
      BY SizeAssumption DEF TypeOK, Slots, NO_RECENT_ENTRY
    <2> QED BY <2>1, SlotArithmetic
  <1> QED BY <1>1, SizeAssumption DEF BackwardStepsToIndex, Ring, TypeOK, Slots, NO_RECENT_ENTRY

\* What every proof below knows of the constants.
LEMMA ConstantFacts ==
    /\ Image \in Deleted /\ Deleted \subseteq AllLists /\ Categories \subseteq Deleted
    /\ Image \notin Categories /\ Features3d \notin Deleted
    /\ NULL \in Payloads /\ NO_RECENT_ENTRY \notin Slots
    /\ \A n \in Nat : n < MaxInputs => n + 1 \in Payloads /\ n + 1 # NULL
  BY CategoriesAssumption, MaxInputsAssumption
     DEF Deleted, AllLists, NULL, Payloads, NO_RECENT_ENTRY, Slots, Image, Features3d

-----------------------------------------------------------------------------
(* Type correctness, for every sequence of calls. *)

LEMMA ClearedListsType ==
    ASSUME TypeOK, NEW i \in Slots
    PROVE  ListsWithoutDataAt(i) \in [AllLists -> [Slots -> Payloads]]
  BY ConstantFacts DEF TypeOK, ListsWithoutDataAt

LEMMA ClearedHeapType ==
    ASSUME TypeOK, NEW i \in Slots
    PROVE  HeapWithoutDataAt(i) \subseteq AllLists \X Payloads
  BY DEF TypeOK, HeapWithoutDataAt

LEMMA DropOldestType ==
    ASSUME TypeOK, DropOldestIndex
    PROVE  /\ mostRecentEntryIndex' \in Slots \cup {NO_RECENT_ENTRY}
           /\ oldestEntryIndex' \in Slots
  <1>1. (oldestEntryIndex + 1) % Size \in Slots
    <2>1. oldestEntryIndex + 1 \in Int
      BY DEF TypeOK, Slots
    <2> QED BY <2>1, SlotArithmetic
  <1> QED BY <1>1 DEF TypeOK, DropOldestIndex, queueVars

LEMMA TypeStep == TypeOK /\ [Next]_vars => TypeOK'
  <1> SUFFICES ASSUME TypeOK, [Next]_vars PROVE TypeOK'
    OBVIOUS
  <1> USE ConstantFacts
  <1>1. CASE AddImages
    <2>1. inputs' \in Payloads
      BY <1>1, MaxInputsAssumption DEF AddImages, TypeOK, Payloads
    <2>2. CASE ReplaceOldestImages
      BY <1>1, <2>1, <2>2, ClearedListsType, ClearedHeapType, SlotArithmetic
         DEF AddImages, ReplaceOldestImages, TypeOK, Slots
    <2>3. CASE AppendImages
      <3>1. mostRecentEntryIndex' \in Slots
        BY <2>3, SlotArithmetic, SizeAssumption DEF AppendImages, TypeOK, Slots, NO_RECENT_ENTRY
      <3> QED BY <1>1, <2>1, <2>3, <3>1 DEF AddImages, AppendImages, TypeOK
    <2> QED BY <1>1, <2>2, <2>3 DEF AddImages
  <1>2. ASSUME NEW c \in AllLists \ {Image}, AddData(c) PROVE TypeOK'
    <2>1. mostRecentEntryIndex \in Slots
      BY <1>2 DEF AddData, TypeOK
    <2> QED BY <1>2, <2>1 DEF AddData, TypeOK
  <1>3. CASE RemoveOldestEntry
    BY <1>3, ClearedListsType, ClearedHeapType, DropOldestType DEF RemoveOldestEntry, TypeOK
  <1>4. ASSUME NEW b \in Slots, RemoveEntry(b) PROVE TypeOK'
    <2> DEFINE index == BackwardStepsToIndex(b)
    <2>1. index \in Slots
      BY <1>4, IndexOfStepsIsInRing DEF RemoveEntry
    <2>2. lists' \in [AllLists -> [Slots -> Payloads]] /\ heap' \subseteq AllLists \X Payloads
      BY <1>4, <2>1, ClearedListsType, ClearedHeapType DEF RemoveEntry
    <2>3. mostRecentEntryIndex' \in Slots \cup {NO_RECENT_ENTRY} /\ oldestEntryIndex' \in Slots
      BY <1>4, DropOldestType DEF RemoveEntry, queueVars, TypeOK
    <2> QED BY <1>4, <2>1, <2>2, <2>3 DEF RemoveEntry, TypeOK
  <1>5. CASE ShiftEntry
    <2>1. removing \in Slots /\ removing' \in Slots
      BY <1>5, SlotArithmetic DEF ShiftEntry, TypeOK, Slots
    <2> QED BY <1>5, <2>1 DEF ShiftEntry, TypeOK
  <1>6. CASE FinishRemoval
    <2>1. mostRecentEntryIndex \in Slots
      BY <1>6 DEF FinishRemoval, TypeOK
    <2>2. mostRecentEntryIndex' \in Slots \cup {NO_RECENT_ENTRY}
      BY <1>6, <2>1, SlotArithmetic, SizeAssumption DEF FinishRemoval, Slots
    <2> QED BY <1>6, <2>1, <2>2, ClearedListsType DEF FinishRemoval, TypeOK
  <1>7. CASE Destroy
    <2>1. heap' \subseteq heap
      BY <1>7 DEF Destroy
    <2>2. lists' \in [AllLists -> [Slots -> Payloads]]
      BY <1>7 DEF Destroy, TypeOK
    <2> QED BY <1>7, <2>1, <2>2 DEF Destroy, TypeOK
  <1>8. CASE UNCHANGED vars
    BY <1>8 DEF vars, TypeOK
  <1> QED BY <1>1, <1>2, <1>3, <1>4, <1>5, <1>6, <1>7, <1>8 DEF Next, Filling, RemovalLoop

LEMMA TypeInit == Init => TypeOK
  BY ConstantFacts, SizeAssumption, MaxInputsAssumption DEF Init, TypeOK, Slots, Payloads

\* Whatever methods are called in whatever order, data being added only for
\* the images added last, the two indices stay inside the vectors or at their
\* sentinel and every vector keeps its shape.
THEOREM TypeCorrectness == Spec => []TypeOK
  BY TypeInit, TypeStep, PTL DEF Spec

-----------------------------------------------------------------------------
(* The slots of the queue, and how the operations move its two ends. *)

LEMMA RingInSlots == TypeOK => Ring \subseteq Slots /\ Entries \subseteq Slots
  BY SizeAssumption DEF TypeOK, Ring, Entries, Slots, NO_RECENT_ENTRY

\* Adding to a full queue turns it by one slot, adding to one that is not
\* full extends it by a slot that was outside.
LEMMA RingAfterAdd ==
    ASSUME IInv, AddImages
    PROVE  \E t \in Slots :
             /\ t = mostRecentEntryIndex'
             /\ Ring' = Ring \cup {t}
             /\ \/ IsFull /\ t = oldestEntryIndex /\ ReplaceOldestImages
                \/ t \notin Ring /\ AppendImages
  <1> USE SizeAssumption DEF TypeOK, Ring, Slots, NO_RECENT_ENTRY
  <1>0. TypeOK /\ EmptyQueueIsFresh
    BY DEF IInv
  <1>1. CASE ReplaceOldestImages
    <2>1. /\ mostRecentEntryIndex \in Slots /\ oldestEntryIndex \in Slots
          /\ oldestEntryIndex = IF mostRecentEntryIndex = Size - 1 THEN 0 ELSE mostRecentEntryIndex + 1
          /\ oldestEntryIndex' = IF oldestEntryIndex = Size - 1 THEN 0 ELSE oldestEntryIndex + 1
          /\ mostRecentEntryIndex' = oldestEntryIndex
      BY <1>0, <1>1, SlotArithmetic DEF ReplaceOldestImages, IsFull
    <2>2. Ring = Slots
      <3>1. CASE mostRecentEntryIndex = Size - 1
        BY <2>1, <3>1
      <3>2. CASE mostRecentEntryIndex # Size - 1
        <4>1. Ring = {i \in Slots : oldestEntryIndex <= i \/ i <= mostRecentEntryIndex}
          BY <2>1, <3>2
        <4>2. \A i \in Slots : oldestEntryIndex <= i \/ i <= mostRecentEntryIndex
          BY <2>1, <3>2
        <4> HIDE DEF Ring, Slots
        <4> QED BY <4>1, <4>2
      <3> QED BY <3>1, <3>2
    <2>3. Ring' = Slots
      <3>1. CASE oldestEntryIndex = Size - 1
        BY <2>1, <3>1
      <3>2. CASE oldestEntryIndex # Size - 1
        <4>1. Ring' = {i \in Slots : oldestEntryIndex' <= i \/ i <= mostRecentEntryIndex'}
          BY <2>1, <3>2
        <4>2. \A i \in Slots : oldestEntryIndex' <= i \/ i <= mostRecentEntryIndex'
          BY <2>1, <3>2
        <4> HIDE DEF Ring, Slots
        <4> QED BY <4>1, <4>2
      <3> QED BY <3>1, <3>2
    <2> USE <2>3
    <2> QED BY <1>1, <2>1, <2>2 DEF ReplaceOldestImages
  <1>2. CASE AppendImages /\ mostRecentEntryIndex = NO_RECENT_ENTRY
    <2>1. /\ mostRecentEntryIndex' = 0
          /\ oldestEntryIndex = 0 /\ oldestEntryIndex' = 0
      <3>1. (-1 + 1) % Size = 0
        BY SMT
      <3> QED BY <3>1, <1>0, <1>2 DEF AppendImages, EmptyQueueIsFresh
    <2>2. Ring = {} /\ Ring' = {0}
      BY <1>2, <2>1
    <2> QED BY <1>2, <2>1, <2>2
  <1>3. CASE AppendImages /\ mostRecentEntryIndex # NO_RECENT_ENTRY
    <2>1. /\ mostRecentEntryIndex \in Slots /\ oldestEntryIndex \in Slots
          /\ mostRecentEntryIndex' = IF mostRecentEntryIndex = Size - 1 THEN 0 ELSE mostRecentEntryIndex + 1
          /\ mostRecentEntryIndex' # oldestEntryIndex
          /\ oldestEntryIndex' = oldestEntryIndex
      BY <1>0, <1>3, SlotArithmetic DEF AppendImages, IsFull
    <2>2. mostRecentEntryIndex' \in Slots \ Ring
      BY <2>1
    <2>3. Ring' = Ring \cup {mostRecentEntryIndex'}
      BY <2>1
    <2> QED BY <1>3, <2>2, <2>3
  <1> QED BY <1>1, <1>2, <1>3 DEF AddImages

LEMMA RingAfterDrop ==
    ASSUME TypeOK, DropOldestIndex, mostRecentEntryIndex # NO_RECENT_ENTRY,
           oldestEntryIndex # mostRecentEntryIndex
    PROVE  /\ oldestEntryIndex \in Ring
           /\ Ring' = Ring \ {oldestEntryIndex}
           /\ mostRecentEntryIndex' = mostRecentEntryIndex
  <1>1. /\ mostRecentEntryIndex \in Slots /\ oldestEntryIndex \in Slots
        /\ oldestEntryIndex' = IF oldestEntryIndex = Size - 1 THEN 0 ELSE oldestEntryIndex + 1
        /\ mostRecentEntryIndex' = mostRecentEntryIndex
    BY SlotArithmetic DEF TypeOK, DropOldestIndex
  <1> QED BY <1>1, SizeAssumption DEF Ring, Slots, NO_RECENT_ENTRY

LEMMA RingAfterFinish ==
    ASSUME IInv, FinishRemoval
    PROVE  /\ mostRecentEntryIndex \in Ring
           /\ mostRecentEntryIndex' \in Slots
           /\ Ring' = Ring \ {mostRecentEntryIndex}
  <1>1. /\ mostRecentEntryIndex \in Slots /\ oldestEntryIndex \in Slots
        /\ mostRecentEntryIndex # oldestEntryIndex
        /\ mostRecentEntryIndex' = IF mostRecentEntryIndex = 0 THEN Size - 1 ELSE mostRecentEntryIndex - 1
        /\ oldestEntryIndex' = oldestEntryIndex
    BY SlotArithmetic DEF IInv, TypeOK, RemovalInsideQueue, FinishRemoval
  <1> QED BY <1>1, SizeAssumption DEF Ring, Slots, NO_RECENT_ENTRY

\* The loop of RemoveEntry stays between the oldest and the newest entry.
LEMMA RingInShift ==
    ASSUME IInv, ShiftEntry
    PROVE  /\ removing \in Ring /\ removing' \in Ring /\ removing' # removing
           /\ removing' # oldestEntryIndex
           /\ Ring' = Ring
  <1>1. /\ removing \in Ring /\ removing # oldestEntryIndex /\ removing # mostRecentEntryIndex
        /\ removing \in Slots
    BY DEF IInv, TypeOK, RemovalInsideQueue, ShiftEntry
  <1>2. /\ removing' = IF removing = Size - 1 THEN 0 ELSE removing + 1
        /\ oldestEntryIndex' = oldestEntryIndex /\ mostRecentEntryIndex' = mostRecentEntryIndex
    BY <1>1, SlotArithmetic DEF ShiftEntry
  <1>3. mostRecentEntryIndex \in Slots /\ oldestEntryIndex \in Slots
    BY <1>1 DEF IInv, TypeOK, Ring
  <1> QED BY <1>1, <1>2, <1>3, SizeAssumption DEF Ring, Slots, NO_RECENT_ENTRY

-----------------------------------------------------------------------------
(* The operations preserve the invariant. *)

\* Between two calls no list holds more than the inputs seen so far.
LEMMA StoredInputsWereSeen ==
    ASSUME IInv, Ready, NEW c \in Deleted, NEW i \in Slots
    PROVE  lists[c][i] \in Nat /\ lists[c][i] <= inputs
  <1> USE ConstantFacts
  <1>1. lists[c][i] \in Nat /\ lists[Image][i] \in Nat /\ inputs \in Nat
    BY MaxInputsAssumption DEF IInv, TypeOK, Payloads
  <1>2. CASE i \notin Ring
    BY <1>1, <1>2 DEF IInv, NothingOutsideTheQueue, NULL
  <1>3. CASE i \in Ring
    <2>1. i \in Entries /\ alive
      BY <1>3 DEF Entries, Ready, NO_RECENT_ENTRY, Slots
    <2>2. lists[Image][i] <= inputs
      BY <2>1 DEF IInv, EntriesAreDistinct
    <2>3. c = Image \/ lists[c][i] \in {NULL, lists[Image][i]}
      BY <2>1 DEF IInv, DataStaysWithItsImages, Deleted
    <2> QED BY <1>1, <2>2, <2>3 DEF NULL
  <1> QED BY <1>2, <1>3

\* A new entry replaces everything a slot held by the images of a new input.
LEMMA AddImagesEffect ==
    ASSUME IInv, AddImages
    PROVE  \E t \in Slots :
             /\ t = mostRecentEntryIndex'
             /\ Ring' = Ring \cup {t}
             /\ \A c \in Deleted, i \in Slots :
                   lists'[c][i] = IF i # t THEN lists[c][i]
                                  ELSE IF c = Image THEN inputs + 1 ELSE NULL
             /\ \A c \in Deleted, p \in Payloads \ {NULL} :
                   <<c, p>> \in heap' <=>
                     (<<c, p>> \in heap /\ lists[c][t] # p) \/ (c = Image /\ p = inputs + 1)
  <1> USE ConstantFacts
  <1>1. PICK t \in Slots :
          /\ t = mostRecentEntryIndex'
          /\ Ring' = Ring \cup {t}
          /\ \/ IsFull /\ t = oldestEntryIndex /\ ReplaceOldestImages
             \/ t \notin Ring /\ AppendImages
    BY RingAfterAdd
  <1>2. inputs' = inputs + 1 /\ lists \in [AllLists -> [Slots -> Payloads]]
    BY DEF AddImages, IInv, TypeOK
  <1>3. CASE t = oldestEntryIndex /\ ReplaceOldestImages
    <2>1. /\ lists' = [ListsWithoutDataAt(t) EXCEPT ![Image][t] = inputs + 1]
          /\ heap' = HeapWithoutDataAt(t) \cup {<<Image, inputs + 1>>}
      BY <1>2, <1>3 DEF ReplaceOldestImages
    <2>2. \A c \in Deleted, i \in Slots :
             lists'[c][i] = IF i # t THEN lists[c][i]
                            ELSE IF c = Image THEN inputs + 1 ELSE NULL
      BY <1>2, <2>1 DEF ListsWithoutDataAt
    <2>3. \A c \in Deleted, p \in Payloads \ {NULL} :
             <<c, p>> \in heap' <=>
                     (<<c, p>> \in heap /\ lists[c][t] # p) \/ (c = Image /\ p = inputs + 1)
      BY <2>1 DEF HeapWithoutDataAt
    <2> QED BY <1>1, <2>2, <2>3
  <1>4. CASE t \notin Ring /\ AppendImages
    <2>1. lists' = [lists EXCEPT ![Image][t] = inputs + 1] /\ heap' = heap \cup {<<Image, inputs + 1>>}
      BY <1>1, <1>2, <1>4 DEF AppendImages
    <2>2. \A c \in Deleted : lists[c][t] = NULL
      BY <1>4 DEF IInv, NothingOutsideTheQueue
    <2> QED BY <1>1, <1>2, <2>1, <2>2
  <1> QED BY <1>1, <1>3, <1>4

LEMMA AddImagesStep == ASSUME IInv, TypeOK', AddImages PROVE IInv'
  <1> USE ConstantFacts
  <1>1. PICK t \in Slots :
             /\ t = mostRecentEntryIndex'
             /\ Ring' = Ring \cup {t}
             /\ \A c \in Deleted, i \in Slots :
                   lists'[c][i] = IF i # t THEN lists[c][i]
                                  ELSE IF c = Image THEN inputs + 1 ELSE NULL
             /\ \A c \in Deleted, p \in Payloads \ {NULL} :
                   <<c, p>> \in heap' <=>
                     (<<c, p>> \in heap /\ lists[c][t] # p) \/ (c = Image /\ p = inputs + 1)
    BY AddImagesEffect
  <1>2. /\ Ready /\ removing' = removing /\ alive' = alive /\ inputs' = inputs + 1
        /\ removing = NO_RECENT_ENTRY /\ alive
        /\ inputs \in Nat /\ inputs + 1 # NULL /\ inputs + 1 \in Payloads
    <2>1. inputs \in Nat /\ inputs < MaxInputs
      BY MaxInputsAssumption DEF AddImages, IInv, TypeOK, Payloads
    <2> QED BY <2>1 DEF AddImages, Ready
  <1>3. /\ Ring \subseteq Slots /\ Entries = Ring /\ Entries' = Ring \cup {t}
    BY <1>1, <1>2, RingInSlots DEF IInv, Entries, NO_RECENT_ENTRY
  <1>4. \A c \in Deleted, i \in Slots : lists[c][i] \in Nat /\ lists[c][i] <= inputs
    BY <1>2, StoredInputsWereSeen
  <1>5. RemovalInsideQueue'
    BY <1>2 DEF RemovalInsideQueue
  <1>6. EmptyQueueIsFresh'
    BY <1>1 DEF EmptyQueueIsFresh
  <1>7. EveryEntryHasImages'
    BY <1>1, <1>2, <1>3 DEF IInv, EveryEntryHasImages
  <1>8. EntriesAreDistinct'
    <2> SUFFICES ASSUME NEW i \in Ring \cup {t}
                 PROVE  /\ lists'[Image][i] <= inputs'
                        /\ \A j \in Ring \cup {t} : i # j => lists'[Image][i] # lists'[Image][j]
      BY <1>3 DEF EntriesAreDistinct
    <2>1. i \in Slots
      BY <1>3
    <2>2. lists'[Image][i] <= inputs'
      BY <1>1, <1>2, <1>4, <2>1
    <2>3. ASSUME NEW j \in Ring \cup {t}, i # j PROVE lists'[Image][i] # lists'[Image][j]
      <3>1. j \in Slots
        BY <1>3
      <3>2. CASE i # t /\ j # t
        BY <1>1, <1>2, <1>3, <2>1, <2>3, <3>1, <3>2 DEF IInv, EntriesAreDistinct
      <3>3. CASE i = t \/ j = t
        BY <1>1, <1>2, <1>4, <2>1, <2>3, <3>1, <3>3
      <3> QED BY <3>2, <3>3
    <2> QED BY <2>2, <2>3
  <1>9. NothingOutsideTheQueue'
    BY <1>1 DEF IInv, NothingOutsideTheQueue
  <1>10. DataStaysWithItsImages'
    BY <1>1, <1>3 DEF IInv, DataStaysWithItsImages
  <1>11. HeapMatchesLists'
    <2> SUFFICES ASSUME NEW c \in Deleted, NEW p \in Payloads \ {NULL}
                 PROVE  <<c, p>> \in heap' <=> \E i \in Slots : lists'[c][i] = p
      BY <1>2 DEF HeapMatchesLists, NO_RECENT_ENTRY, Slots
    <2>1. <<c, p>> \in heap <=> \E i \in Slots : lists[c][i] = p
      BY <1>2 DEF IInv, HeapMatchesLists, NO_RECENT_ENTRY, Slots
    <2>2. lists[c][t] = p => \A i \in Slots \ {t} : lists[c][i] # p
      <3> SUFFICES ASSUME lists[c][t] = p, NEW i \in Slots \ {t}, lists[c][i] = p PROVE FALSE
        OBVIOUS
      <3>1. i \in Entries /\ t \in Entries
        BY <1>3 DEF IInv, NothingOutsideTheQueue
      <3>2. lists[Image][i] = p /\ lists[Image][t] = p
        BY <3>1 DEF IInv, DataStaysWithItsImages, Deleted
      <3> QED BY <1>2, <3>1, <3>2 DEF IInv, EntriesAreDistinct
    <2> QED BY <1>1, <1>2, <1>4, <2>1, <2>2
  <1> QED BY <1>5, <1>6, <1>7, <1>8, <1>9, <1>10, <1>11 DEF IInv

LEMMA AddDataStep ==
    ASSUME IInv, TypeOK', NEW d \in AllLists \ {Image}, AddData(d)
    PROVE  IInv'
  <1> USE ConstantFacts
  <1> DEFINE m == mostRecentEntryIndex
  <1>1. /\ Ready /\ removing = NO_RECENT_ENTRY /\ alive /\ m \in Slots
        /\ m \in Ring /\ Ring' = Ring /\ Entries = Ring /\ Entries' = Ring
        /\ Ring \subseteq Slots /\ UNCHANGED <<removing, alive, inputs>>
        /\ lists[Image][m] = inputs
    <2>1. /\ Ready /\ removing = NO_RECENT_ENTRY /\ alive /\ m # NO_RECENT_ENTRY
          /\ UNCHANGED <<mostRecentEntryIndex, oldestEntryIndex, removing, alive, inputs>>
          /\ lists[Image][m] = inputs
      BY DEF AddData, Ready
    <2>2. m \in Slots /\ m \in Ring /\ oldestEntryIndex \in Slots
      BY <2>1, SizeAssumption DEF IInv, TypeOK, Ring, Slots, NO_RECENT_ENTRY
    <2>3. Ring' = Ring
      BY <2>1 DEF Ring
    <2> QED BY <2>1, <2>2, <2>3, RingInSlots DEF IInv, Entries
  <1>2. \A c \in Deleted, i \in Slots :
           lists'[c][i] = IF c = d /\ i = m THEN inputs ELSE lists[c][i]
    BY <1>1 DEF AddData, IInv, TypeOK
  <1>3. \A c \in Deleted, p \in Payloads \ {NULL} :
           <<c, p>> \in heap' <=>
             (<<c, p>> \in heap /\ ~(c = d /\ lists[c][m] = p)) \/ (c = d /\ p = inputs)
    BY DEF AddData
  <1>4. RemovalInsideQueue' /\ EmptyQueueIsFresh'
    BY <1>1 DEF AddData, IInv, RemovalInsideQueue, EmptyQueueIsFresh
  <1>5. \A i \in Slots : lists'[Image][i] = lists[Image][i]
    BY <1>2
  <1>6. EveryEntryHasImages' /\ EntriesAreDistinct'
    BY <1>1, <1>5 DEF IInv, EveryEntryHasImages, EntriesAreDistinct
  <1>7. NothingOutsideTheQueue'
    BY <1>1, <1>2 DEF IInv, NothingOutsideTheQueue
  <1>8. DataStaysWithItsImages'
    BY <1>1, <1>2, <1>5 DEF IInv, DataStaysWithItsImages
  <1>9. HeapMatchesLists'
    <2> SUFFICES ASSUME NEW c \in Deleted, NEW p \in Payloads \ {NULL}
                 PROVE  <<c, p>> \in heap' <=> \E i \in Slots : lists'[c][i] = p
      BY <1>1 DEF HeapMatchesLists, NO_RECENT_ENTRY, Slots
    <2>1. <<c, p>> \in heap <=> \E i \in Slots : lists[c][i] = p
      BY <1>1 DEF IInv, HeapMatchesLists, NO_RECENT_ENTRY, Slots
    <2>2. CASE c # d
      BY <1>2, <1>3, <2>1, <2>2
    <2>3. CASE c = d
      <3>1. lists[c][m] \in {NULL, inputs}
        BY <1>1, <2>3 DEF IInv, DataStaysWithItsImages, Deleted
      <3>2. CASE p = inputs
        BY <1>1, <1>2, <1>3, <2>3, <3>2
      <3>3. CASE p # inputs
        <4>1. <<c, p>> \in heap' <=> <<c, p>> \in heap
          BY <1>3, <3>1, <3>3
        <4>2. (\E i \in Slots : lists'[c][i] = p) <=> (\E i \in Slots : lists[c][i] = p)
          BY <1>1, <1>2, <3>1, <3>3
        <4> QED BY <2>1, <4>1, <4>2
      <3> QED BY <3>2, <3>3
    <2> QED BY <2>2, <2>3
  <1> QED BY <1>4, <1>6, <1>7, <1>8, <1>9 DEF IInv

\* Deleting the data of one entry and taking it out of the entries.
LEMMA ClearedEntryStep ==
    ASSUME IInv, TypeOK', Ready, NEW s \in Entries,
           lists' = ListsWithoutDataAt(s), heap' = HeapWithoutDataAt(s),
           UNCHANGED <<alive, inputs>>,
           Entries' = Entries \ {s}, Ring' \in {Ring, Ring \ {s}},
           removing' \in {s, NO_RECENT_ENTRY},
           RemovalInsideQueue', EmptyQueueIsFresh'
    PROVE  IInv'
  <1> USE ConstantFacts
  <1>1. Ring \subseteq Slots /\ Entries \subseteq Slots /\ s \in Ring
    BY RingInSlots DEF IInv, Entries
  <1>2. /\ \A c \in Deleted, i \in Slots : lists'[c][i] = IF i = s THEN NULL ELSE lists[c][i]
        /\ \A c \in Deleted, p \in Payloads \ {NULL} :
              <<c, p>> \in heap' <=> <<c, p>> \in heap /\ lists[c][s] # p
    BY <1>1 DEF ListsWithoutDataAt, HeapWithoutDataAt, IInv, TypeOK
  <1>3. EveryEntryHasImages' /\ EntriesAreDistinct'
    BY <1>1, <1>2 DEF IInv, EveryEntryHasImages, EntriesAreDistinct
  <1>4. NothingOutsideTheQueue'
    BY <1>1, <1>2 DEF IInv, NothingOutsideTheQueue
  <1>5. DataStaysWithItsImages'
    BY <1>1, <1>2 DEF IInv, DataStaysWithItsImages
  <1>6. HeapMatchesLists'
    <2> SUFFICES ASSUME NEW c \in Deleted, NEW p \in Payloads \ {NULL}
                 PROVE  <<c, p>> \in heap' <=> \E i \in Slots \ {removing'} : lists'[c][i] = p
      BY DEF HeapMatchesLists
    <2>1. <<c, p>> \in heap <=> \E i \in Slots : lists[c][i] = p
      BY DEF IInv, HeapMatchesLists, Ready, NO_RECENT_ENTRY, Slots
    <2>2. lists[c][s] = p => \A i \in Slots \ {s} : lists[c][i] # p
      <3> SUFFICES ASSUME lists[c][s] = p, NEW i \in Slots \ {s}, lists[c][i] = p PROVE FALSE
        OBVIOUS
      <3>1. i \in Entries
        BY DEF IInv, NothingOutsideTheQueue, Entries, Ready, NO_RECENT_ENTRY, Slots
      <3>2. lists[Image][i] = p /\ lists[Image][s] = p
        BY <3>1 DEF IInv, DataStaysWithItsImages, Deleted
      <3> QED BY <3>1, <3>2 DEF IInv, EntriesAreDistinct, Ready
    <2>3. (\E i \in Slots \ {removing'} : lists'[c][i] = p)
            <=> (\E i \in Slots \ {s} : lists[c][i] = p)
      BY <1>2
    <2> QED BY <1>1, <1>2, <2>1, <2>2, <2>3
  <1> QED BY <1>3, <1>4, <1>5, <1>6 DEF IInv

LEMMA RemoveOldestStep ==
    ASSUME IInv, TypeOK', RemoveOldestEntry, mostRecentEntryIndex # NO_RECENT_ENTRY,
           oldestEntryIndex # mostRecentEntryIndex
    PROVE  IInv'
  <1> DEFINE s == oldestEntryIndex
  <1>1. /\ Ready /\ removing = NO_RECENT_ENTRY /\ DropOldestIndex
        /\ UNCHANGED <<removing, alive, inputs>>
        /\ lists' = ListsWithoutDataAt(s) /\ heap' = HeapWithoutDataAt(s)
    BY DEF RemoveOldestEntry, Ready
  <1>2. /\ s \in Ring /\ Ring' = Ring \ {s} /\ mostRecentEntryIndex' = mostRecentEntryIndex
    BY <1>1, RingAfterDrop DEF IInv
  <1>3. s \in Entries /\ Entries' = Entries \ {s}
    BY <1>1, <1>2, RingInSlots, ConstantFacts DEF Entries, IInv
  <1>4. RemovalInsideQueue' /\ EmptyQueueIsFresh'
    BY <1>1, <1>2 DEF RemovalInsideQueue, EmptyQueueIsFresh
  <1> HIDE DEF s
  <1> QED BY <1>1, <1>2, <1>3, <1>4, ClearedEntryStep

LEMMA RemoveEntryStep ==
    ASSUME IInv, TypeOK', NEW b \in Slots, RemoveEntry(b),
           mostRecentEntryIndex # NO_RECENT_ENTRY,
           BackwardStepsToIndex(b) # oldestEntryIndex
    PROVE  IInv'
  <1> DEFINE s == BackwardStepsToIndex(b)
  <1>1. /\ Ready /\ removing = NO_RECENT_ENTRY /\ alive /\ s # NO_RECENT_ENTRY
        /\ UNCHANGED <<mostRecentEntryIndex, oldestEntryIndex, alive, inputs>>
        /\ lists' = ListsWithoutDataAt(s) /\ heap' = HeapWithoutDataAt(s) /\ removing' = s
    BY DEF RemoveEntry, Ready, queueVars
  <1>2. s \in Slots /\ s \in Ring
    BY <1>1, IndexOfStepsIsInRing DEF IInv
  <1>3. Ring' = Ring
    BY <1>1 DEF Ring
  <1>4. s \in Entries /\ Entries' = Entries \ {s}
    BY <1>1, <1>2, <1>3, RingInSlots, ConstantFacts DEF Entries, IInv
  <1>5. RemovalInsideQueue' /\ EmptyQueueIsFresh'
    BY <1>1, <1>2, <1>3 DEF RemovalInsideQueue, EmptyQueueIsFresh
  <1> HIDE DEF s
  <1> QED BY <1>1, <1>3, <1>4, <1>5, ClearedEntryStep

LEMMA ShiftEntryStep == ASSUME IInv, TypeOK', ShiftEntry PROVE IInv'
  <1> USE ConstantFacts
  <1> DEFINE r == removing
             n == removing'
  <1>1. /\ r \in Ring /\ n \in Ring /\ n # r /\ n # oldestEntryIndex
        /\ Ring' = Ring /\ Ring \subseteq Slots
    BY RingInShift, RingInSlots DEF IInv
  <1>2. /\ Entries = Ring \ {r} /\ Entries' = Ring \ {n} /\ alive
        /\ UNCHANGED <<mostRecentEntryIndex, oldestEntryIndex, alive, inputs, heap>>
    BY <1>1 DEF Entries, ShiftEntry, IInv, RemovalInsideQueue
  <1>3. \A c \in Deleted, i \in Slots : lists'[c][i] = IF i = r THEN lists[c][n] ELSE lists[c][i]
    BY <1>1 DEF ShiftEntry, IInv, TypeOK
  <1>4. RemovalInsideQueue' /\ EmptyQueueIsFresh'
    BY <1>1, <1>2 DEF IInv, RemovalInsideQueue, EmptyQueueIsFresh
  <1>5. EveryEntryHasImages'
    BY <1>1, <1>2, <1>3 DEF IInv, EveryEntryHasImages
  <1>6. EntriesAreDistinct'
    BY <1>1, <1>2, <1>3 DEF IInv, EntriesAreDistinct
  <1>7. NothingOutsideTheQueue' /\ DataStaysWithItsImages'
    BY <1>1, <1>2, <1>3 DEF IInv, NothingOutsideTheQueue, DataStaysWithItsImages
  <1>8. HeapMatchesLists'
    <2> SUFFICES ASSUME NEW c \in Deleted, NEW p \in Payloads \ {NULL}
                 PROVE  <<c, p>> \in heap' <=> \E i \in Slots \ {n} : lists'[c][i] = p
      BY DEF HeapMatchesLists
    <2>1. <<c, p>> \in heap <=> \E i \in Slots \ {r} : lists[c][i] = p
      BY DEF IInv, HeapMatchesLists
    <2> QED BY <1>1, <1>2, <1>3, <2>1
  <1> QED BY <1>4, <1>5, <1>6, <1>7, <1>8 DEF IInv

LEMMA FinishRemovalStep == ASSUME IInv, TypeOK', FinishRemoval PROVE IInv'
  <1> USE ConstantFacts
  <1> DEFINE m == mostRecentEntryIndex
  <1>1. /\ m \in Ring /\ Ring' = Ring \ {m} /\ Ring \subseteq Slots /\ removing = m
        /\ removing' = NO_RECENT_ENTRY /\ UNCHANGED <<oldestEntryIndex, alive, inputs, heap>>
        /\ mostRecentEntryIndex' \in Slots
    BY RingAfterFinish, RingInSlots DEF FinishRemoval, IInv
  <1>2. Entries = Ring \ {m} /\ Entries' = Ring \ {m}
    BY <1>1 DEF Entries
  <1>3. \A c \in Deleted, i \in Slots : lists'[c][i] = IF i = m THEN NULL ELSE lists[c][i]
    BY <1>1 DEF FinishRemoval, ListsWithoutDataAt, IInv, TypeOK
  <1>4. RemovalInsideQueue' /\ EmptyQueueIsFresh'
    BY <1>1 DEF RemovalInsideQueue, EmptyQueueIsFresh
  <1>5. EveryEntryHasImages' /\ EntriesAreDistinct'
    BY <1>1, <1>2, <1>3 DEF IInv, EveryEntryHasImages, EntriesAreDistinct
  <1>6. NothingOutsideTheQueue' /\ DataStaysWithItsImages'
    BY <1>1, <1>2, <1>3 DEF IInv, NothingOutsideTheQueue, DataStaysWithItsImages
  <1>7. HeapMatchesLists'
    <2> SUFFICES ASSUME NEW c \in Deleted, NEW p \in Payloads \ {NULL}
                 PROVE  <<c, p>> \in heap' <=> \E i \in Slots : lists'[c][i] = p
      BY <1>1 DEF HeapMatchesLists, NO_RECENT_ENTRY, Slots
    <2>1. <<c, p>> \in heap <=> \E i \in Slots \ {m} : lists[c][i] = p
      BY <1>1 DEF IInv, HeapMatchesLists
    <2>2. (\E i \in Slots : lists'[c][i] = p) <=> (\E i \in Slots \ {m} : lists[c][i] = p)
      BY <1>3
    <2> QED BY <1>1, <2>1, <2>2
  <1> QED BY <1>4, <1>5, <1>6, <1>7 DEF IInv

LEMMA DestroyStep == ASSUME IInv, TypeOK', Destroy PROVE IInv'
  <1> USE ConstantFacts
  <1>1. /\ ~alive' /\ removing = NO_RECENT_ENTRY
        /\ UNCHANGED <<mostRecentEntryIndex, oldestEntryIndex, removing, inputs>>
    BY DEF Destroy, Ready
  <1>2. \A c \in Deleted, i \in Slots : lists'[c][i] = NULL
    BY DEF Destroy
  <1>3. \A h \in heap' : h \in heap /\ \A c \in Deleted, i \in Slots : h # <<c, lists[c][i]>>
    BY DEF Destroy
  <1>4. Ring' = Ring /\ Entries' = Entries /\ Entries \subseteq Slots
    BY <1>1, RingInSlots DEF Ring, Entries, IInv
  <1>5. RemovalInsideQueue' /\ EmptyQueueIsFresh'
    BY <1>1 DEF IInv, RemovalInsideQueue, EmptyQueueIsFresh
  <1>6. EveryEntryHasImages' /\ EntriesAreDistinct'
    BY <1>1 DEF EveryEntryHasImages, EntriesAreDistinct
  <1>7. NothingOutsideTheQueue' /\ DataStaysWithItsImages'
    BY <1>2, <1>4 DEF NothingOutsideTheQueue, DataStaysWithItsImages
  <1>8. HeapMatchesLists'
    <2> SUFFICES ASSUME NEW c \in Deleted, NEW p \in Payloads \ {NULL}, <<c, p>> \in heap'
                 PROVE  FALSE
      BY <1>2 DEF HeapMatchesLists
    <2>1. <<c, p>> \in heap /\ \A i \in Slots : p # lists[c][i]
      BY <1>3
    <2> QED BY <1>1, <2>1 DEF IInv, HeapMatchesLists
  <1> QED BY <1>5, <1>6, <1>7, <1>8 DEF IInv

-----------------------------------------------------------------------------
(* The theorems. *)

LEMMA CallerNextIsNext == CallerNext => Next
  BY DEF CallerNext, Next, RemoveNewerEntry

LEMMA InvariantInit == Init => IInv
  <1> SUFFICES ASSUME Init PROVE IInv
    OBVIOUS
  <1> USE ConstantFacts
  <1>1. Ring = {} /\ Entries = {} /\ removing = NO_RECENT_ENTRY
    BY DEF Init, Ring, Entries
  <1>2. TypeOK /\ RemovalInsideQueue /\ EmptyQueueIsFresh
    BY TypeInit, <1>1 DEF Init, RemovalInsideQueue, EmptyQueueIsFresh
  <1>3. EveryEntryHasImages /\ EntriesAreDistinct /\ DataStaysWithItsImages
    BY <1>1 DEF EveryEntryHasImages, EntriesAreDistinct, DataStaysWithItsImages
  <1>4. NothingOutsideTheQueue /\ HeapMatchesLists
    BY DEF Init, NothingOutsideTheQueue, HeapMatchesLists
  <1> QED BY <1>2, <1>3, <1>4 DEF IInv

LEMMA InvariantStep == IInv /\ [CallerNext]_vars => IInv'
  <1> SUFFICES ASSUME IInv, [CallerNext]_vars PROVE IInv'
    OBVIOUS
  <1>1. TypeOK'
    BY CallerNextIsNext, TypeStep DEF IInv
  <1>2. CASE AddImages
    BY <1>1, <1>2, AddImagesStep
  <1>3. ASSUME NEW c \in AllLists \ {Image}, AddData(c) PROVE IInv'
    BY <1>1, <1>3, AddDataStep
  <1>4. CASE RemoveNewerEntry
    BY <1>1, <1>4, RemoveEntryStep DEF RemoveNewerEntry
  <1>5. CASE /\ oldestEntryIndex # mostRecentEntryIndex
             /\ mostRecentEntryIndex # NO_RECENT_ENTRY
             /\ RemoveOldestEntry
    BY <1>1, <1>5, RemoveOldestStep
  <1>6. CASE ShiftEntry
    BY <1>1, <1>6, ShiftEntryStep
  <1>7. CASE FinishRemoval
    BY <1>1, <1>7, FinishRemovalStep
  <1>8. CASE Destroy
    BY <1>1, <1>8, DestroyStep
  <1>9. CASE UNCHANGED vars
    <2>1. Ring' = Ring /\ Entries' = Entries
      BY <1>9 DEF vars, Ring, Entries
    <2> QED BY <1>1, <1>9, <2>1
            DEF vars, IInv, RemovalInsideQueue, EmptyQueueIsFresh, EveryEntryHasImages,
                EntriesAreDistinct, NothingOutsideTheQueue, DataStaysWithItsImages,
                HeapMatchesLists
  <1> QED BY <1>2, <1>3, <1>4, <1>5, <1>6, <1>7, <1>8, <1>9
          DEF CallerNext, Filling, RemovalLoop

\* Under the calls of the DFPCs and for every size of the queue, the inductive
\* invariant of the ring holds.
THEOREM QueueInvariant == CallerSpec => []IInv
  BY InvariantInit, InvariantStep, PTL DEF CallerSpec

\* Hence no entry of the queue is without its images, ...
THEOREM EntriesHaveImages == CallerSpec => []EveryEntryHasImages
  <1>1. IInv => EveryEntryHasImages
    BY DEF IInv
  <1> QED BY <1>1, QueueInvariant, PTL

\* ... features, matches and clouds are never found at another entry than the
\* one they were stored for, ...
THEOREM DataKeepsItsImages == CallerSpec => []DataStaysWithItsImages
  <1>1. IInv => DataStaysWithItsImages
    BY DEF IInv
  <1> QED BY <1>1, QueueInvariant, PTL

\* ... and, but for the 3d features, which no method deletes, what is
\* allocated is what the lists point at: nothing is lost before its deletion
\* and nothing is reachable after it.
THEOREM NoLeakButOf3dFeatures == CallerSpec => []HeapMatchesLists
  <1>1. IInv => HeapMatchesLists
    BY DEF IInv
  <1> QED BY <1>1, QueueInvariant, PTL

-----------------------------------------------------------------------------
(* Pointers, for every sequence of calls. *)

\* DeleteAllDataAt deletes what one slot points at and, since no other slot
\* does, nothing that is still pointed at.
LEMMA ClearedSlotLeavesNoPointer ==
    ASSUME PointerInv, removing = NO_RECENT_ENTRY, NEW t \in Slots
    PROVE  \A c \in Deleted, i \in Slots :
             /\ ListsWithoutDataAt(t)[c][i] = IF i = t THEN NULL ELSE lists[c][i]
             /\ ListsWithoutDataAt(t)[c][i] # NULL =>
                   <<c, ListsWithoutDataAt(t)[c][i]>> \in HeapWithoutDataAt(t)
  <1> USE ConstantFacts
  <1> TAKE c \in Deleted, i \in Slots
  <1>1. ListsWithoutDataAt(t)[c][i] = IF i = t THEN NULL ELSE lists[c][i]
    BY DEF ListsWithoutDataAt, PointerInv, TypeOK
  <1>2. ASSUME i # t, lists[c][i] # NULL PROVE <<c, lists[c][i]>> \in HeapWithoutDataAt(t)
    <2>1. <<c, lists[c][i]>> \in heap
      BY <1>2 DEF PointerInv, NoDanglingPointer
    <2>2. lists[c][i] # lists[c][t]
      BY <1>2 DEF PointerInv, PointersAreInOneSlot
    <2> QED BY <2>1, <2>2 DEF HeapWithoutDataAt
  <1> QED BY <1>1, <1>2

LEMMA PayloadsAreNumbers ==
    ASSUME PointerInv
    PROVE  /\ inputs \in Nat
           /\ \A c \in Deleted, i \in Slots : lists[c][i] \in Nat /\ lists[c][i] <= inputs
  BY ConstantFacts, MaxInputsAssumption DEF PointerInv, TypeOK, PayloadsWereSeen, Payloads

\* Deleting the data of one slot.
LEMMA ClearStep ==
    ASSUME PointerInv, TypeOK', removing = NO_RECENT_ENTRY, NEW t \in Slots,
           lists' = ListsWithoutDataAt(t), heap' = HeapWithoutDataAt(t), inputs' = inputs
    PROVE  PointerInv'
  <1> USE ConstantFacts
  <1>1. \A c \in Deleted, i \in Slots :
           /\ lists'[c][i] = IF i = t THEN NULL ELSE lists[c][i]
           /\ lists'[c][i] # NULL => <<c, lists'[c][i]>> \in heap'
    BY ClearedSlotLeavesNoPointer
  <1>2. NoDanglingPointer'
    BY <1>1 DEF NoDanglingPointer
  <1>3. \A c \in Deleted, i, j \in Slots :
           /\ i # j /\ lists[c][i] # NULL => lists[c][i] # lists[c][j]
           /\ lists[c][i] = inputs /\ inputs # NULL => lists[Image][i] = inputs
    BY DEF PointerInv, PointersAreInOneSlot, LatestDataIsWithItsImages
  <1>4. PointersAreInOneSlot'
    <2> SUFFICES ASSUME NEW c \in Deleted, NEW i \in Slots, NEW j \in Slots,
                        i # j, lists'[c][i] # NULL
                 PROVE  lists'[c][i] # lists'[c][j]
      BY DEF PointersAreInOneSlot
    <2>1. i # t /\ lists'[c][i] = lists[c][i]
      BY <1>1
    <2>2. lists[c][i] # lists[c][j]
      BY <1>3, <2>1
    <2>3. CASE j = t
      BY <1>1, <2>3
    <2>4. CASE j # t
      <3>1. lists'[c][j] = lists[c][j]
        BY <1>1, <2>4
      <3> QED BY <2>1, <2>2, <3>1
    <2> QED BY <2>3, <2>4
  <1>5. PayloadsWereSeen'
    <2> SUFFICES ASSUME NEW c \in Deleted, NEW i \in Slots PROVE lists'[c][i] <= inputs
      BY DEF PayloadsWereSeen
    <2>1. CASE i = t
      <3>1. lists'[c][i] = 0
        BY <1>1, <2>1 DEF NULL
      <3> QED BY <3>1, PayloadsAreNumbers
    <2>2. CASE i # t
      <3>1. lists'[c][i] = lists[c][i]
        BY <1>1, <2>2
      <3> QED BY <3>1, PayloadsAreNumbers
    <2> QED BY <2>1, <2>2
  <1>6. LatestDataIsWithItsImages'
    <2> SUFFICES ASSUME NEW c \in Deleted, NEW i \in Slots, lists'[c][i] = inputs, inputs # NULL
                 PROVE  lists'[Image][i] = inputs
      BY DEF LatestDataIsWithItsImages
    <2>1. i # t /\ lists'[c][i] = lists[c][i] /\ lists'[Image][i] = lists[Image][i]
      BY <1>1
    <2> QED BY <1>3, <2>1
  <1> QED BY <1>2, <1>4, <1>5, <1>6 DEF PointerInv

LEMMA AddImagesKeepsPointers == ASSUME PointerInv, TypeOK', AddImages PROVE PointerInv'
  <1> USE ConstantFacts
  <1>1. /\ removing = NO_RECENT_ENTRY /\ removing' = removing
        /\ inputs' = inputs + 1 /\ inputs \in Nat /\ inputs + 1 # NULL
        /\ lists \in [AllLists -> [Slots -> Payloads]]
    BY PayloadsAreNumbers, MaxInputsAssumption DEF AddImages, Ready, PointerInv, TypeOK, NULL
  <1>2. \E t \in Slots :
           /\ lists'[Image][t] = inputs + 1 /\ <<Image, inputs + 1>> \in heap'
           /\ \A c \in Deleted, i \in Slots : c # Image \/ i # t =>
                 /\ lists'[c][i] = lists[c][i] \/ lists'[c][i] = NULL
                 /\ lists'[c][i] # NULL => <<c, lists'[c][i]>> \in heap'
    <2>1. CASE ReplaceOldestImages
      <3> DEFINE t == oldestEntryIndex
                 cleared == ListsWithoutDataAt(t)
      <3>1. t \in Slots
        BY DEF PointerInv, TypeOK
      <3>2. \A c \in Deleted, i \in Slots :
               /\ cleared[c][i] = IF i = t THEN NULL ELSE lists[c][i]
               /\ cleared[c][i] # NULL => <<c, cleared[c][i]>> \in HeapWithoutDataAt(t)
        BY <1>1, <3>1, ClearedSlotLeavesNoPointer
      <3>3. cleared \in [AllLists -> [Slots -> Payloads]]
        BY <3>1, ClearedListsType DEF PointerInv
      <3>4. /\ lists' = [cleared EXCEPT ![Image][t] = inputs + 1]
            /\ heap' = HeapWithoutDataAt(t) \cup {<<Image, inputs + 1>>}
        BY <1>1, <2>1 DEF ReplaceOldestImages
      <3> HIDE DEF t, cleared
      <3>5. \A c \in Deleted, i \in Slots :
               lists'[c][i] = IF c = Image /\ i = t THEN inputs + 1 ELSE cleared[c][i]
        BY <3>1, <3>3, <3>4
      <3> QED BY <3>1, <3>2, <3>4, <3>5
    <2>2. CASE AppendImages
      <3> DEFINE t == mostRecentEntryIndex'
      <3>1. t \in Slots
        BY <2>2, SlotArithmetic, SizeAssumption
           DEF AppendImages, PointerInv, TypeOK, Slots, NO_RECENT_ENTRY
      <3>2. /\ lists' = [lists EXCEPT ![Image][t] = inputs + 1]
            /\ heap' = heap \cup {<<Image, inputs + 1>>}
        BY <1>1, <2>2 DEF AppendImages
      <3> HIDE DEF t
      <3>3. \A c \in Deleted, i \in Slots :
               lists'[c][i] = IF c = Image /\ i = t THEN inputs + 1 ELSE lists[c][i]
        BY <1>1, <3>1, <3>2
      <3> QED BY <3>1, <3>2, <3>3 DEF PointerInv, NoDanglingPointer
    <2> QED BY <2>1, <2>2 DEF AddImages
  <1>3. PICK t \in Slots :
           /\ lists'[Image][t] = inputs + 1 /\ <<Image, inputs + 1>> \in heap'
           /\ \A c \in Deleted, i \in Slots : c # Image \/ i # t =>
                 /\ lists'[c][i] = lists[c][i] \/ lists'[c][i] = NULL
                 /\ lists'[c][i] # NULL => <<c, lists'[c][i]>> \in heap'
    BY <1>2
  <1>4. \A c \in Deleted, i \in Slots : lists[c][i] \in Nat /\ lists[c][i] # inputs + 1
    BY <1>1, PayloadsAreNumbers
  <1>5. NoDanglingPointer'
    BY <1>3 DEF NoDanglingPointer
  <1>6. PointersAreInOneSlot'
    <2> SUFFICES ASSUME NEW c \in Deleted, NEW i \in Slots, NEW j \in Slots,
                        i # j, lists'[c][i] # NULL
                 PROVE  lists'[c][i] # lists'[c][j]
      BY DEF PointersAreInOneSlot
    <2>1. lists[c][i] # NULL => lists[c][i] # lists[c][j]
      BY <1>1 DEF PointerInv, PointersAreInOneSlot
    <2>2. CASE c = Image /\ i = t
      BY <1>1, <1>3, <1>4, <2>2
    <2>3. CASE c = Image /\ j = t
      BY <1>1, <1>3, <1>4, <2>3
    <2>4. CASE c # Image \/ (i # t /\ j # t)
      BY <1>3, <2>1, <2>4
    <2> QED BY <2>2, <2>3, <2>4
  <1>7. PayloadsWereSeen'
    <2> SUFFICES ASSUME NEW c \in Deleted, NEW i \in Slots PROVE lists'[c][i] <= inputs + 1
      BY <1>1 DEF PayloadsWereSeen
    <2>1. lists[c][i] \in Nat /\ lists[c][i] <= inputs
      BY PayloadsAreNumbers
    <2>2. lists'[c][i] \in {lists[c][i], 0, inputs + 1}
      BY <1>3 DEF NULL
    <2> QED BY <1>1, <2>1, <2>2
  <1>8. LatestDataIsWithItsImages'
    BY <1>1, <1>3, <1>4 DEF LatestDataIsWithItsImages
  <1> QED BY <1>5, <1>6, <1>7, <1>8 DEF PointerInv

LEMMA AddDataKeepsPointers ==
    ASSUME PointerInv, TypeOK', NEW d \in AllLists \ {Image}, AddData(d)
    PROVE  PointerInv'
  <1> USE ConstantFacts
  <1> DEFINE m == mostRecentEntryIndex
  <1>1. /\ removing = NO_RECENT_ENTRY /\ removing' = removing /\ inputs' = inputs
        /\ m \in Slots /\ lists[Image][m] = inputs
        /\ lists \in [AllLists -> [Slots -> Payloads]]
        /\ lists' = [lists EXCEPT ![d][m] = inputs]
        /\ heap' = (heap \ {<<d, lists[d][m]>>}) \cup {<<d, inputs>>}
    BY DEF AddData, Ready, PointerInv, TypeOK
  <1> HIDE DEF m
  <1>2. \A c \in Deleted, i \in Slots :
           lists'[c][i] = IF c = d /\ i = m THEN inputs ELSE lists[c][i]
    BY <1>1
  <1>3. NoDanglingPointer'
    <2> SUFFICES ASSUME NEW c \in Deleted, NEW i \in Slots, lists'[c][i] # NULL
                 PROVE  <<c, lists'[c][i]>> \in heap'
      BY DEF NoDanglingPointer
    <2>1. CASE c = d /\ i = m
      BY <1>1, <1>2, <2>1
    <2>2. CASE c # d \/ i # m
      <3>1. lists'[c][i] = lists[c][i] /\ <<c, lists[c][i]>> \in heap
        BY <1>2, <2>2 DEF PointerInv, NoDanglingPointer
      <3>2. c # d \/ lists[c][i] # lists[d][m]
        BY <1>1, <2>2, <3>1 DEF PointerInv, PointersAreInOneSlot
      <3> QED BY <1>1, <3>1, <3>2
    <2> QED BY <2>1, <2>2
  <1>4. ASSUME NEW c \in Deleted, NEW i \in Slots, lists[c][i] = inputs, inputs # NULL
        PROVE  i = m
    <2>1. lists[Image][i] = inputs
      BY <1>1, <1>4 DEF PointerInv, LatestDataIsWithItsImages
    <2> QED BY <1>1, <1>4, <2>1 DEF PointerInv, PointersAreInOneSlot
  <1>5. PointersAreInOneSlot'
    BY <1>1, <1>2, <1>4 DEF PointerInv, PointersAreInOneSlot
  <1>6. PayloadsWereSeen'
    BY <1>1, <1>2, PayloadsAreNumbers DEF PayloadsWereSeen
  <1>7. LatestDataIsWithItsImages'
    BY <1>1, <1>2 DEF PointerInv, LatestDataIsWithItsImages
  <1> QED BY <1>3, <1>5, <1>6, <1>7 DEF PointerInv

LEMMA ShiftKeepsPointers == ASSUME PointerInv, TypeOK', ShiftEntry PROVE PointerInv'
  <1> USE ConstantFacts
  <1> DEFINE r == removing
             n == removing'
  <1>1. /\ r \in Slots /\ n \in Slots /\ inputs' = inputs /\ heap' = heap
        /\ lists' = [c \in AllLists |-> IF c \in Deleted THEN [lists[c] EXCEPT ![r] = lists[c][n]]
                                         ELSE lists[c]]
        /\ lists \in [AllLists -> [Slots -> Payloads]]
    BY SlotArithmetic DEF ShiftEntry, PointerInv, TypeOK, Slots
  <1>2. \A c \in Deleted, i \in Slots : lists'[c][i] = IF i = r THEN lists[c][n] ELSE lists[c][i]
    BY <1>1
  <1>3. NoDanglingPointer'
    BY <1>1, <1>2 DEF PointerInv, NoDanglingPointer
  <1>4. PointersAreInOneSlot'
    <2> SUFFICES ASSUME NEW c \in Deleted, NEW i \in Slots \ {n}, NEW j \in Slots \ {n},
                        i # j, lists'[c][i] # NULL
                 PROVE  lists'[c][i] # lists'[c][j]
      BY DEF PointersAreInOneSlot
    <2>1. CASE i = r
      BY <1>1, <1>2, <2>1 DEF PointerInv, PointersAreInOneSlot
    <2>2. CASE i # r
      BY <1>1, <1>2, <2>2 DEF PointerInv, PointersAreInOneSlot
    <2> QED BY <2>1, <2>2
  <1>5. PayloadsWereSeen'
    BY <1>1, <1>2 DEF PointerInv, PayloadsWereSeen
  <1>6. LatestDataIsWithItsImages'
    BY <1>1, <1>2 DEF PointerInv, LatestDataIsWithItsImages
  <1> QED BY <1>3, <1>4, <1>5, <1>6 DEF PointerInv

LEMMA FinishKeepsPointers == ASSUME PointerInv, TypeOK', FinishRemoval PROVE PointerInv'
  <1> USE ConstantFacts
  <1> DEFINE t == mostRecentEntryIndex
  <1>1. /\ t \in Slots /\ removing = t /\ inputs' = inputs /\ heap' = heap
        /\ lists' = ListsWithoutDataAt(t)
        /\ lists \in [AllLists -> [Slots -> Payloads]]
    BY DEF FinishRemoval, PointerInv, TypeOK
  <1> HIDE DEF t
  <1>2. \A c \in Deleted, i \in Slots : lists'[c][i] = IF i = t THEN NULL ELSE lists[c][i]
    BY <1>1 DEF ListsWithoutDataAt
  <1>3. NoDanglingPointer'
    BY <1>1, <1>2 DEF PointerInv, NoDanglingPointer
  <1>4. PointersAreInOneSlot'
    BY <1>1, <1>2 DEF PointerInv, PointersAreInOneSlot
  <1>5. PayloadsWereSeen'
    BY <1>1, <1>2, PayloadsAreNumbers DEF PayloadsWereSeen, NULL
  <1>6. LatestDataIsWithItsImages'
    BY <1>1, <1>2 DEF PointerInv, LatestDataIsWithItsImages
  <1> QED BY <1>3, <1>4, <1>5, <1>6 DEF PointerInv

LEMMA DestroyKeepsPointers == ASSUME PointerInv, TypeOK', Destroy PROVE PointerInv'
  <1>1. /\ \A c \in Deleted, i \in Slots : lists'[c][i] = NULL
        /\ inputs' \in Nat
    BY ConstantFacts, PayloadsAreNumbers DEF Destroy
  <1> QED BY <1>1 DEF PointerInv, NoDanglingPointer, PointersAreInOneSlot, PayloadsWereSeen,
                      LatestDataIsWithItsImages, NULL

LEMMA PointerStep == PointerInv /\ [Next]_vars => PointerInv'
  <1> SUFFICES ASSUME PointerInv, [Next]_vars PROVE PointerInv'
    OBVIOUS
  <1>1. TypeOK'
    BY TypeStep DEF PointerInv
  <1>2. CASE AddImages
    BY <1>1, <1>2, AddImagesKeepsPointers
  <1>3. ASSUME NEW c \in AllLists \ {Image}, AddData(c) PROVE PointerInv'
    BY <1>1, <1>3, AddDataKeepsPointers
  <1>4. CASE RemoveOldestEntry
    <2>1. oldestEntryIndex \in Slots
      BY DEF PointerInv, TypeOK
    <2> QED BY <1>1, <1>4, <2>1, ClearStep DEF RemoveOldestEntry, Ready
  <1>5. ASSUME NEW b \in Slots, RemoveEntry(b) PROVE PointerInv'
    <2>1. BackwardStepsToIndex(b) \in Slots
      BY <1>5, IndexOfStepsIsInRing DEF RemoveEntry, PointerInv
    <2> QED BY <1>1, <1>5, <2>1, ClearStep DEF RemoveEntry, Ready
  <1>6. CASE ShiftEntry
    BY <1>1, <1>6, ShiftKeepsPointers
  <1>7. CASE FinishRemoval
    BY <1>1, <1>7, FinishKeepsPointers
  <1>8. CASE Destroy
    BY <1>1, <1>8, DestroyKeepsPointers
  <1>9. CASE UNCHANGED vars
    BY <1>1, <1>9 DEF vars, PointerInv, NoDanglingPointer, PointersAreInOneSlot,
                      PayloadsWereSeen, LatestDataIsWithItsImages
  <1> QED BY <1>2, <1>3, <1>4, <1>5, <1>6, <1>7, <1>8, <1>9 DEF Next, Filling, RemovalLoop

LEMMA PointerInit == Init => PointerInv
  <1> SUFFICES ASSUME Init PROVE PointerInv
    OBVIOUS
  <1>1. \A c \in Deleted, i \in Slots : lists[c][i] = NULL
    BY ConstantFacts DEF Init
  <1> QED BY <1>1, TypeInit DEF Init, PointerInv, NoDanglingPointer, PointersAreInOneSlot,
                                PayloadsWereSeen, LatestDataIsWithItsImages, NULL

\* Whatever methods are called in whatever order, removal of the oldest or
\* from an emptied history and destruction included, and data being added only
\* for the images added last, no list holds a pointer that was deleted.
THEOREM PointersAreNeverDangling == Spec => []NoDanglingPointer
  <1>1. PointerInv => NoDanglingPointer
    BY DEF PointerInv
  <1> QED BY <1>1, PointerInit, PointerStep, PTL DEF Spec
=============================================================================
