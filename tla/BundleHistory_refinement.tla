----------------------- MODULE BundleHistory_refinement -----------------------
(***************************************************************************)
(* The circular vectors of BundleHistory implement HistoryQueue, and the   *)
(* getters read that queue, for every size and under the calls of the      *)
(* DFPCs.                                                                  *)
(***************************************************************************)
EXTENDS BundleHistory_proofs, SequenceTheorems, FiniteSetTheorems

\* Taking the remainder wraps around once.
LEMMA Modulo ==
    /\ \A a \in 0..(Size - 1) : a % Size = a
    /\ \A a \in Size..(2 * Size - 1) : a % Size = a - Size
  <1> USE SizeAssumption
  <1>1. ASSUME NEW a \in 0..(Size - 1) PROVE a % Size = a
    BY SMT
  <1>2. ASSUME NEW a \in Size..(2 * Size - 1) PROVE a % Size = a - Size
    BY SMTT(30)
  <1> QED BY <1>1, <1>2

\* The place of a slot and the slot at a place, without the remainder.
LEMMA PlaceFacts ==
    ASSUME oldestEntryIndex \in Slots
    PROVE  /\ \A i \in Slots : PlaceOf(i) = IF oldestEntryIndex <= i THEN i - oldestEntryIndex + 1
                                            ELSE i - oldestEntryIndex + Size + 1
           /\ \A p \in 1..Size : SlotAt(p) = IF oldestEntryIndex + p <= Size
                                             THEN oldestEntryIndex + p - 1
                                             ELSE oldestEntryIndex + p - 1 - Size
  BY Modulo, SizeAssumption DEF Slots, PlaceOf, SlotAt

LEMMA PlaceAndSlot ==
    ASSUME oldestEntryIndex \in Slots
    PROVE  /\ \A i \in Slots : PlaceOf(i) \in 1..Size /\ SlotAt(PlaceOf(i)) = i
           /\ \A p \in 1..Size : SlotAt(p) \in Slots /\ PlaceOf(SlotAt(p)) = p
  BY PlaceFacts, SizeAssumption DEF Slots

LEMMA RingPlaces ==
    ASSUME oldestEntryIndex \in Slots, mostRecentEntryIndex \in Slots \cup {NO_RECENT_ENTRY}
    PROVE  /\ RingLength \in 0..Size
           /\ RingLength = 0 <=> mostRecentEntryIndex = NO_RECENT_ENTRY
           /\ \A i \in Slots : i \in Ring <=> PlaceOf(i) <= RingLength
  BY PlaceFacts, SizeAssumption DEF Slots, RingLength, Ring, NO_RECENT_ENTRY

LEMMA FunctionIsSequence ==
    ASSUME NEW S, NEW n \in Nat, NEW f \in [1..n -> S]
    PROVE  f \in Seq(S) /\ Len(f) = n /\ DOMAIN f = 1..n
  BY SeqDef

\* A slot of the lists as an entry of the queue.
QueueEntries == [id : Payloads, data : [Categories -> Payloads]]
EntryIn(contents, i) ==
    [id |-> contents[Image][i], data |-> [c \in Categories |-> contents[c][i]]]

LEMMA EntryCountFacts ==
    ASSUME TypeOK, RemovalInsideQueue
    PROVE  /\ EntryCount \in 0..Size
           /\ \A k \in 1..EntryCount : SlotOfEntry(k) \in Slots /\ SlotOfEntry(k) \in Entries
  <1> USE SizeAssumption
  <1>1. /\ oldestEntryIndex \in Slots /\ mostRecentEntryIndex \in Slots \cup {NO_RECENT_ENTRY}
        /\ removing \in Slots \cup {NO_RECENT_ENTRY}
    BY DEF TypeOK
  <1>2. CASE removing = NO_RECENT_ENTRY
    <2>1. EntryCount = RingLength /\ \A k : SlotOfEntry(k) = SlotAt(k)
      BY <1>2 DEF EntryCount, SlotOfEntry
    <2>2. ASSUME NEW k \in 1..EntryCount PROVE SlotAt(k) \in Slots /\ SlotAt(k) \in Entries
      <3>1. k \in 1..Size /\ k <= RingLength
        BY <1>1, <2>1, RingPlaces
      <3>2. SlotAt(k) \in Slots /\ PlaceOf(SlotAt(k)) = k
        BY <1>1, <3>1, PlaceAndSlot
      <3> QED BY <1>1, <1>2, <3>1, <3>2, RingPlaces, ConstantFacts DEF Entries
    <2> QED BY <1>1, <2>1, <2>2, RingPlaces
  <1>3. CASE removing # NO_RECENT_ENTRY
    <2>1. removing \in Slots /\ removing \in Ring
      BY <1>1, <1>3 DEF RemovalInsideQueue
    <2>2. PlaceOf(removing) \in 1..RingLength /\ RingLength \in 0..Size
      BY <1>1, <2>1, RingPlaces, PlaceAndSlot
    <2>3. EntryCount = RingLength - 1
      BY <1>3 DEF EntryCount
    <2>4. ASSUME NEW k \in 1..EntryCount PROVE SlotOfEntry(k) \in Slots /\ SlotOfEntry(k) \in Entries
      <3>1. PICK p \in 1..Size : p <= RingLength /\ p # PlaceOf(removing) /\ SlotOfEntry(k) = SlotAt(p)
        BY <1>3, <2>2, <2>3 DEF SlotOfEntry
      <3>2. SlotAt(p) \in Slots /\ PlaceOf(SlotAt(p)) = p
        BY <1>1, <3>1, PlaceAndSlot
      <3> QED BY <1>1, <3>1, <3>2, RingPlaces DEF Entries
    <2> QED BY <2>2, <2>3, <2>4
  <1> QED BY <1>2, <1>3

\* The refinement mapping yields a sequence of entries.
LEMMA QueueFacts ==
    TypeOK /\ RemovalInsideQueue =>
      /\ ~alive => AbstractQueue = <<>>
      /\ AbstractQueue \in Seq(QueueEntries)
      /\ alive => /\ Len(AbstractQueue) = EntryCount
                  /\ \A k \in 1..EntryCount : AbstractQueue[k] = EntryIn(lists, SlotOfEntry(k))
  <1> SUFFICES ASSUME TypeOK, RemovalInsideQueue
               PROVE  /\ ~alive => AbstractQueue = <<>>
                      /\ AbstractQueue \in Seq(QueueEntries)
                      /\ alive => /\ Len(AbstractQueue) = EntryCount
                                  /\ \A k \in 1..EntryCount : AbstractQueue[k] = EntryIn(lists, SlotOfEntry(k))
    OBVIOUS
  <1>1. CASE ~alive
    BY <1>1 DEF AbstractQueue
  <1>2. CASE alive
    <2>1. AbstractQueue = [k \in 1..EntryCount |-> EntryIn(lists, SlotOfEntry(k))]
      BY <1>2 DEF AbstractQueue, EntryAt, EntryIn
    <2>2. \A i \in Slots : EntryIn(lists, i) \in QueueEntries
      BY ConstantFacts DEF EntryIn, QueueEntries, TypeOK
    <2>3. EntryCount \in Nat /\ \A k \in 1..EntryCount : SlotOfEntry(k) \in Slots
      BY EntryCountFacts, SizeAssumption
    <2>4. AbstractQueue \in [1..EntryCount -> QueueEntries]
      BY <2>1, <2>2, <2>3
    <2> QED BY <1>2, <2>1, <2>3, <2>4, FunctionIsSequence
  <1> QED BY <1>1, <1>2

LEMMA QueueFactsNext ==
    (TypeOK /\ RemovalInsideQueue)' =>
      (/\ ~alive => AbstractQueue = <<>>
       /\ AbstractQueue \in Seq(QueueEntries)
       /\ alive => /\ Len(AbstractQueue) = EntryCount
                   /\ \A k \in 1..EntryCount : AbstractQueue[k] = EntryIn(lists, SlotOfEntry(k)))'
  BY QueueFacts, PTL

LEMMA PlaceFactsNext ==
    (oldestEntryIndex \in Slots =>
        /\ \A i \in Slots : PlaceOf(i) = IF oldestEntryIndex <= i THEN i - oldestEntryIndex + 1
                                         ELSE i - oldestEntryIndex + Size + 1
        /\ \A p \in 1..Size : SlotAt(p) = IF oldestEntryIndex + p <= Size
                                          THEN oldestEntryIndex + p - 1
                                          ELSE oldestEntryIndex + p - 1 - Size)'
  <1>1. oldestEntryIndex \in Slots =>
        /\ \A i \in Slots : PlaceOf(i) = IF oldestEntryIndex <= i THEN i - oldestEntryIndex + 1
                                         ELSE i - oldestEntryIndex + Size + 1
        /\ \A p \in 1..Size : SlotAt(p) = IF oldestEntryIndex + p <= Size
                                          THEN oldestEntryIndex + p - 1
                                          ELSE oldestEntryIndex + p - 1 - Size
    BY PlaceFacts
  <1> QED BY <1>1, PTL

\* A full ring is turned by one place, another one gets longer by one.
LEMMA PlacesAfterAdd ==
    ASSUME IInv, AddImages
    PROVE  /\ mostRecentEntryIndex' \in Slots /\ alive /\ alive'
           /\ removing = NO_RECENT_ENTRY /\ removing' = NO_RECENT_ENTRY
           /\ \/ /\ RingLength = Size /\ RingLength' = Size
                 /\ \A k \in 1..(Size - 1) :
                       SlotAt(k)' = SlotAt(k + 1) /\ SlotAt(k + 1) # mostRecentEntryIndex'
              \/ /\ RingLength < Size /\ RingLength' = RingLength + 1
                 /\ \A k \in 1..RingLength :
                       SlotAt(k)' = SlotAt(k) /\ SlotAt(k) # mostRecentEntryIndex'
           /\ SlotAt(RingLength)' = mostRecentEntryIndex'
  <1> USE SizeAssumption, ConstantFacts
  <1>0. /\ alive /\ alive' /\ removing = NO_RECENT_ENTRY /\ removing' = NO_RECENT_ENTRY
    BY DEF AddImages, Ready
  <1>1. /\ oldestEntryIndex \in Slots /\ mostRecentEntryIndex \in Slots \cup {NO_RECENT_ENTRY}
        /\ mostRecentEntryIndex = NO_RECENT_ENTRY => oldestEntryIndex = 0
    BY DEF IInv, TypeOK, EmptyQueueIsFresh
  <1>2. CASE ReplaceOldestImages
    <2>1. /\ mostRecentEntryIndex \in Slots /\ mostRecentEntryIndex' = oldestEntryIndex
          /\ oldestEntryIndex' = IF oldestEntryIndex = Size - 1 THEN 0 ELSE oldestEntryIndex + 1
          /\ oldestEntryIndex' \in Slots
          /\ oldestEntryIndex = IF mostRecentEntryIndex = Size - 1 THEN 0
                                ELSE mostRecentEntryIndex + 1
      BY <1>1, <1>2, SlotArithmetic DEF ReplaceOldestImages, IsFull, Slots
    <2>2. RingLength = Size
      BY <1>1, <2>1, PlaceFacts DEF RingLength, Slots
    <2>3. RingLength' = Size
      BY <1>1, <2>1, PlaceFactsNext DEF RingLength, Slots
    <2>4. ASSUME NEW k \in 1..(Size - 1)
          PROVE  SlotAt(k)' = SlotAt(k + 1) /\ SlotAt(k + 1) # mostRecentEntryIndex'
      BY <1>1, <2>1, PlaceFacts, PlaceFactsNext DEF Slots
    <2>5. SlotAt(RingLength)' = mostRecentEntryIndex'
      <3>1. SlotAt(RingLength)' = (oldestEntryIndex' + Size - 1) % Size
        BY <2>3 DEF SlotAt
      <3> QED BY <1>1, <2>1, <3>1, Modulo DEF Slots
    <2> QED BY <1>0, <1>1, <2>1, <2>2, <2>3, <2>4, <2>5
  <1>3. CASE AppendImages
    <2>1. /\ mostRecentEntryIndex' \in Slots
          /\ oldestEntryIndex' = oldestEntryIndex
          /\ mostRecentEntryIndex' = IF mostRecentEntryIndex = NO_RECENT_ENTRY THEN 0
                                     ELSE IF mostRecentEntryIndex = Size - 1 THEN 0
                                     ELSE mostRecentEntryIndex + 1
      <3>1. (-1 + 1) % Size = 0
        BY SMT
      <3> QED BY <1>1, <1>3, <3>1, SlotArithmetic DEF AppendImages, Slots, NO_RECENT_ENTRY
    <2>2. mostRecentEntryIndex # NO_RECENT_ENTRY => mostRecentEntryIndex' # oldestEntryIndex
      BY <1>3 DEF AppendImages, IsFull
    <2>3. RingLength < Size /\ RingLength \in Nat
      BY <1>1, <2>1, <2>2, PlaceFacts DEF RingLength, Slots, NO_RECENT_ENTRY
    <2>4. RingLength' = RingLength + 1
      BY <1>1, <2>1, <2>2, PlaceFacts, PlaceFactsNext DEF RingLength, Slots, NO_RECENT_ENTRY
    <2>5. ASSUME NEW k \in 1..Size PROVE SlotAt(k)' = SlotAt(k)
      BY <2>1 DEF SlotAt
    <2>6. SlotAt(RingLength + 1) = mostRecentEntryIndex'
      BY <1>1, <2>1, <2>2, PlaceFacts DEF RingLength, Slots, NO_RECENT_ENTRY
    <2>7. ASSUME NEW k \in 1..RingLength PROVE SlotAt(k) # mostRecentEntryIndex'
      <3>1. PlaceOf(SlotAt(k)) = k /\ PlaceOf(SlotAt(RingLength + 1)) = RingLength + 1
        BY <1>1, <2>3, PlaceAndSlot
      <3> QED BY <2>3, <2>6, <3>1
    <2>8. SlotAt(RingLength)' = mostRecentEntryIndex'
      <3>1. SlotAt(RingLength)' = SlotAt(RingLength + 1)
        BY <2>1, <2>4 DEF SlotAt
      <3> QED BY <2>6, <3>1
    <2> QED BY <1>0, <2>1, <2>3, <2>4, <2>5, <2>7, <2>8
  <1> QED BY <1>2, <1>3 DEF AddImages

-----------------------------------------------------------------------------
(* Every operation is one of the queue's, or leaves the queue as it is.    *)

\* Two sequences of entries of the same contents are the same.
LEMMA SameEntry ==
    ASSUME NEW i, NEW j, NEW contents, NEW contents2,
           \A c \in Deleted : contents2[c][i] = contents[c][j]
    PROVE  EntryIn(contents2, i) = EntryIn(contents, j)
  <1>1. contents2[Image][i] = contents[Image][j]
    BY ConstantFacts
  <1>2. \A c \in Categories : contents2[c][i] = contents[c][j]
    BY ConstantFacts
  <1> QED BY <1>1, <1>2 DEF EntryIn

LEMMA AddImagesAddsEntry ==
    ASSUME IInv, IInv', AddImages
    PROVE  Queue!AddEntry
  <1> USE SizeAssumption
  <1> DEFINE q == AbstractQueue
             n == RingLength
             n1 == RingLength'
             room == IF Len(q) = Size THEN Tail(q) ELSE q
             fresh == Queue!NewEntry(inputs + 1)
  <1>1. PICK t \in Slots :
             /\ t = mostRecentEntryIndex'
             /\ Ring' = Ring \cup {t}
             /\ \A c \in Deleted, i \in Slots :
                   lists'[c][i] = IF i # t THEN lists[c][i]
                                  ELSE IF c = Image THEN inputs + 1 ELSE NULL
             /\ \A c \in Deleted, p \in Payloads \ {NULL} :
                   <<c, p>> \in heap' <=>
                     (<<c, p>> \in heap /\ lists[c][t] # p) \/ (c = Image /\ p = inputs + 1)
    BY AddImagesEffect
  <1>2. /\ alive /\ alive' /\ removing = NO_RECENT_ENTRY /\ removing' = NO_RECENT_ENTRY
        /\ \/ /\ RingLength = Size /\ RingLength' = Size
              /\ \A k \in 1..(Size - 1) : SlotAt(k)' = SlotAt(k + 1) /\ SlotAt(k + 1) # t
           \/ /\ RingLength < Size /\ RingLength' = RingLength + 1
              /\ \A k \in 1..RingLength : SlotAt(k)' = SlotAt(k) /\ SlotAt(k) # t
        /\ SlotAt(RingLength)' = t
    BY <1>1, PlacesAfterAdd
  <1>3. TypeOK /\ RemovalInsideQueue /\ (TypeOK /\ RemovalInsideQueue)'
    BY DEF IInv
  <1>4. /\ n \in 0..Size /\ n1 \in 1..Size
        /\ \A k \in 1..n : SlotAt(k) \in Slots
    BY <1>2, <1>3, RingPlaces, PlaceAndSlot DEF TypeOK
  <1>5. /\ q \in Seq(QueueEntries) /\ Len(q) = n
        /\ \A k \in 1..n : q[k] = EntryIn(lists, SlotAt(k))
    <2>1. EntryCount = n /\ \A k : SlotOfEntry(k) = SlotAt(k)
      BY <1>2 DEF EntryCount, SlotOfEntry
    <2> QED BY <1>2, <1>3, <2>1, QueueFacts
  <1>6. /\ q' \in Seq(QueueEntries) /\ Len(q') = n1
        /\ \A k \in 1..n1 : q'[k] = EntryIn(lists', SlotAt(k)')
    <2>1. EntryCount' = n1 /\ \A k : SlotOfEntry(k)' = SlotAt(k)'
      BY <1>2 DEF EntryCount, SlotOfEntry
    <2>2. QueueEntries' = QueueEntries
      BY DEF QueueEntries
    <2> QED BY <1>2, <1>3, <2>1, <2>2, QueueFactsNext DEF EntryIn
  <1>7. fresh \in QueueEntries /\ EntryIn(lists', t) = fresh
    <2>1. inputs \in Nat /\ inputs < MaxInputs
      BY <1>3, MaxInputsAssumption DEF AddImages, TypeOK, Payloads
    <2>2. inputs + 1 \in Payloads /\ 0 \in Payloads
      BY <2>1, MaxInputsAssumption DEF Payloads
    <2>3. lists'[Image][t] = inputs + 1 /\ \A c \in Categories : lists'[c][t] = 0
      BY <1>1, ConstantFacts DEF NULL
    <2> QED BY <2>2, <2>3 DEF Queue!NewEntry, Queue!NULL, QueueEntries, EntryIn
  <1>8. /\ room \in Seq(QueueEntries) /\ Len(room) = n1 - 1
        /\ \A k \in 1..(n1 - 1) : room[k] = EntryIn(lists', SlotAt(k)')
    <2>1. CASE n = Size
      <3>1. /\ room = Tail(q) /\ q # <<>>
        BY <1>5, <2>1
      <3>2. /\ room \in Seq(QueueEntries) /\ Len(room) = Size - 1
            /\ \A k \in 1..(Size - 1) : room[k] = q[k + 1]
        BY <1>5, <2>1, <3>1, HeadTailProperties
      <3>3. ASSUME NEW k \in 1..(Size - 1) PROVE room[k] = EntryIn(lists', SlotAt(k)')
        <4>1. SlotAt(k)' = SlotAt(k + 1) /\ SlotAt(k + 1) # t /\ SlotAt(k + 1) \in Slots
          BY <1>2, <1>4, <2>1
        <4>2. EntryIn(lists', SlotAt(k + 1)) = EntryIn(lists, SlotAt(k + 1))
          BY <1>1, <4>1, SameEntry
        <4> QED BY <1>5, <2>1, <3>2, <4>1, <4>2
      <3> QED BY <1>2, <1>4, <2>1, <3>2, <3>3
    <2>2. CASE n # Size
      <3>1. ASSUME NEW k \in 1..n PROVE q[k] = EntryIn(lists', SlotAt(k)')
        <4>1. SlotAt(k)' = SlotAt(k) /\ SlotAt(k) # t /\ SlotAt(k) \in Slots
          BY <1>2, <1>4, <2>2
        <4>2. EntryIn(lists', SlotAt(k)) = EntryIn(lists, SlotAt(k))
          BY <1>1, <4>1, SameEntry
        <4> QED BY <1>5, <4>1, <4>2
      <3>2. room = q
        BY <1>5, <2>2
      <3>3. n1 - 1 = n
        <4>1. n1 = n + 1
          BY <1>2, <2>2
        <4>2. n \in Int
          BY <1>4
        <4> QED BY <4>1, <4>2
      <3> QED BY <1>5, <3>1, <3>2, <3>3
    <2> QED BY <2>1, <2>2
  <1>9. q' = Append(room, fresh)
    <2> HIDE DEF q, n, n1, room, fresh
    <2>1. /\ Append(room, fresh) \in Seq(QueueEntries) /\ Len(Append(room, fresh)) = n1
          /\ \A k \in 1..(n1 - 1) : Append(room, fresh)[k] = room[k]
          /\ Append(room, fresh)[n1] = fresh
      BY <1>4, <1>7, <1>8, AppendProperties
    <2>2. q'[n1] = fresh
      BY <1>2, <1>4, <1>6, <1>7 DEF n1
    <2>3. ASSUME NEW k \in 1..n1 PROVE q'[k] = Append(room, fresh)[k]
      <3>1. CASE k = n1
        BY <2>1, <2>2, <3>1
      <3>2. CASE k # n1
        <4>1. k \in 1..(n1 - 1)
          BY <1>4, <3>2
        <4> QED BY <1>6, <1>8, <2>1, <4>1
      <3> QED BY <3>1, <3>2
    <2> QED BY <1>6, <2>1, <2>3, SeqEqual
  <1> QED BY <1>9 DEF AddImages, Queue!AddEntry

\* What is stored for the latest entry is stored for the last of the queue.
LEMMA AddDataChangesLastEntry ==
    ASSUME IInv, IInv', NEW d \in AllLists \ {Image}, AddData(d)
    PROVE  IF d \in Categories THEN Queue!AddData(d) ELSE UNCHANGED Queue!qvars
  <1> USE SizeAssumption
  <1> DEFINE q == AbstractQueue
             q1 == AbstractQueue'
             n == RingLength
             m == mostRecentEntryIndex
  <1>1. /\ alive /\ alive' /\ removing = NO_RECENT_ENTRY /\ removing' = NO_RECENT_ENTRY
        /\ UNCHANGED <<mostRecentEntryIndex, oldestEntryIndex, inputs>>
        /\ m \in Slots /\ lists[Image][m] = inputs /\ inputs' = inputs
        /\ lists' = [lists EXCEPT ![d][m] = inputs]
        /\ lists \in [AllLists -> [Slots -> Payloads]] /\ inputs \in Payloads
    BY DEF AddData, Ready, IInv, TypeOK
  <1>2. TypeOK /\ RemovalInsideQueue /\ (TypeOK /\ RemovalInsideQueue)'
    BY DEF IInv
  <1>3. /\ n \in 1..Size /\ SlotAt(n) = m
        /\ \A k \in 1..n : SlotAt(k) \in Slots /\ (k # n => SlotAt(k) # m)
    <2>1. n = PlaceOf(m)
      BY <1>1, ConstantFacts DEF RingLength
    <2> QED BY <1>1, <1>2, <2>1, PlaceAndSlot DEF TypeOK
  <1>4. /\ q \in Seq(QueueEntries) /\ Len(q) = n
        /\ \A k \in 1..n : q[k] = EntryIn(lists, SlotAt(k))
    <2>1. EntryCount = n /\ \A k : SlotOfEntry(k) = SlotAt(k)
      BY <1>1 DEF EntryCount, SlotOfEntry
    <2> QED BY <1>1, <1>2, <2>1, QueueFacts
  <1>5. /\ q1 \in Seq(QueueEntries) /\ Len(q1) = n
        /\ \A k \in 1..n : q1[k] = EntryIn(lists', SlotAt(k))
    <2>1. EntryCount' = n /\ \A k : SlotOfEntry(k)' = SlotAt(k)
      BY <1>1 DEF EntryCount, SlotOfEntry, RingLength, PlaceOf, SlotAt
    <2>2. QueueEntries' = QueueEntries
      BY DEF QueueEntries
    <2> QED BY <1>1, <1>2, <2>1, <2>2, QueueFactsNext DEF EntryIn
  <1>6. ASSUME NEW k \in 1..n, k # n PROVE q1[k] = q[k]
    <2>1. \A c \in Deleted : lists'[c][SlotAt(k)] = lists[c][SlotAt(k)]
      BY <1>1, <1>3, <1>6, ConstantFacts
    <2> QED BY <1>4, <1>5, <2>1, SameEntry
  <1>7. CASE d \in Categories
    <2> DEFINE changed == [q EXCEPT ![Len(q)].data[d] = inputs]
    <2>1. q[n] = EntryIn(lists, m) /\ q[n].id = inputs
      BY <1>1, <1>3, <1>4 DEF EntryIn
    <2>2. q1[n] = [q[n] EXCEPT !.data[d] = inputs]
      <3>1. /\ lists'[Image][m] = lists[Image][m]
            /\ \A c \in Categories : lists'[c][m] = IF c = d THEN inputs ELSE lists[c][m]
        BY <1>1, <1>7, ConstantFacts
      <3>2. q1[n] = EntryIn(lists', m)
        BY <1>3, <1>5
      <3> QED BY <2>1, <3>1, <3>2 DEF EntryIn
    <2>3. q1 = changed
      <3>1. q1[n] \in QueueEntries
        BY <1>3, <1>5, ElementOfSeq
      <3>2. changed = [q EXCEPT ![n] = q1[n]]
        BY <1>4, <2>2
      <3> HIDE DEF q, q1, n, m, changed
      <3>3. /\ changed \in Seq(QueueEntries) /\ Len(changed) = n
            /\ \A k \in 1..n : changed[k] = IF k = n THEN q1[n] ELSE q[k]
        BY <1>3, <1>4, <3>1, <3>2, ExceptSeq
      <3>4. \A k \in 1..n : q1[k] = changed[k]
        BY <1>6, <3>3
      <3> QED BY <1>5, <3>3, <3>4, SeqEqual
    <2>4. q # <<>> /\ q[Len(q)].id = inputs
      BY <1>3, <1>4, <2>1
    <2> QED BY <1>1, <1>7, <2>3, <2>4 DEF Queue!AddData
  <1>8. CASE d \notin Categories
    <2>1. \A c \in Deleted : lists'[c][m] = lists[c][m]
      BY <1>1, <1>8, ConstantFacts DEF Deleted
    <2>2. q1[n] = q[n]
      BY <1>3, <1>4, <1>5, <2>1, SameEntry
    <2>3. q1 = q
      <3> HIDE DEF q, q1, n
      <3> QED BY <1>4, <1>5, <1>6, <2>2, SeqEqual
    <2> QED BY <1>1, <1>8, <2>3 DEF Queue!qvars
  <1> QED BY <1>7, <1>8

\* A sequence without its k-th element.
LEMMA Removed ==
    ASSUME NEW S, NEW s \in Seq(S), NEW t \in Seq(S), NEW k \in 1..Len(s), Len(t) = Len(s) - 1,
           \A i \in 1..Len(t) : t[i] = IF i < k THEN s[i] ELSE s[i + 1]
    PROVE  t = SubSeq(s, 1, k - 1) \o SubSeq(s, k + 1, Len(s))
  <1> DEFINE u == SubSeq(s, 1, k - 1)
             v == SubSeq(s, k + 1, Len(s))
  <1>1. Len(s) \in Nat /\ Len(t) \in Nat
    BY LenProperties
  <1>2. /\ u \in Seq(S) /\ Len(u) = k - 1
        /\ \A i \in 1..(k - 1) : u[i] = s[i]
    BY <1>1, SubSeqProperties
  <1>3. /\ v \in Seq(S) /\ Len(v) = Len(s) - k
        /\ \A i \in 1..(Len(s) - k) : v[i] = s[k + i]
    BY <1>1, SubSeqProperties
  <1> HIDE DEF u, v
  <1>4. /\ u \o v \in Seq(S) /\ Len(u \o v) = Len(s) - 1
        /\ \A i \in 1..(Len(s) - 1) : (u \o v)[i] = IF i <= k - 1 THEN u[i] ELSE v[i - (k - 1)]
    BY <1>1, <1>2, <1>3, ConcatProperties
  <1>5. ASSUME NEW i \in 1..Len(t) PROVE t[i] = (u \o v)[i]
    <2>1. CASE i < k
      BY <1>1, <1>2, <1>4, <2>1
    <2>2. CASE ~(i < k)
      <3>1. i - (k - 1) \in 1..(Len(s) - k) /\ k + (i - (k - 1)) = i + 1
        BY <1>1, <2>2
      <3>2. (u \o v)[i] = v[i - (k - 1)] /\ v[i - (k - 1)] = s[i + 1]
        BY <1>1, <1>3, <1>4, <2>2, <3>1
      <3> QED BY <2>2, <3>2
    <2> QED BY <2>1, <2>2
  <1>6. t = u \o v
    BY <1>4, <1>5, SeqEqual
  <1> QED BY <1>6 DEF u, v

\* RemoveEntry drops the entry it was asked for as soon as its loop begins,
LEMMA RemoveEntryDropsIt ==
    ASSUME IInv, IInv', NEW b \in Slots, RemoveEntry(b),
           mostRecentEntryIndex # NO_RECENT_ENTRY,
           BackwardStepsToIndex(b) # oldestEntryIndex
    PROVE  \E k \in 1..Len(AbstractQueue) :
              k = PlaceOf(BackwardStepsToIndex(b)) /\ Queue!RemoveEntry(k)
  <1> USE SizeAssumption
  <1> DEFINE q == AbstractQueue
             q1 == AbstractQueue'
             n == RingLength
             s == BackwardStepsToIndex(b)
             p == PlaceOf(s)
  <1>1. /\ alive /\ alive' /\ removing = NO_RECENT_ENTRY /\ removing' = s /\ s # NO_RECENT_ENTRY
        /\ UNCHANGED <<mostRecentEntryIndex, oldestEntryIndex, inputs>> /\ inputs' = inputs
        /\ lists' = ListsWithoutDataAt(s)
        /\ lists \in [AllLists -> [Slots -> Payloads]]
    BY DEF RemoveEntry, Ready, queueVars, IInv, TypeOK
  <1>2. TypeOK /\ RemovalInsideQueue /\ (TypeOK /\ RemovalInsideQueue)'
    BY DEF IInv
  <1>3. s \in Slots /\ s \in Ring
    BY <1>1, <1>2, IndexOfStepsIsInRing
  <1>4. /\ n \in 1..Size /\ p \in 1..n /\ SlotAt(p) = s
        /\ \A k \in 1..n : SlotAt(k) \in Slots /\ (k # p => SlotAt(k) # s)
    <2>1. n \in 0..Size /\ p \in 1..Size /\ p <= n /\ SlotAt(p) = s
      BY <1>2, <1>3, RingPlaces, PlaceAndSlot DEF TypeOK
    <2> QED BY <1>2, <2>1, PlaceAndSlot DEF TypeOK
  <1> HIDE DEF s, p
  <1>5. /\ q \in Seq(QueueEntries) /\ Len(q) = n
        /\ \A k \in 1..n : q[k] = EntryIn(lists, SlotAt(k))
    <2>1. EntryCount = n /\ \A k : SlotOfEntry(k) = SlotAt(k)
      BY <1>1 DEF EntryCount, SlotOfEntry
    <2> QED BY <1>1, <1>2, <2>1, QueueFacts
  <1>6. /\ q1 \in Seq(QueueEntries) /\ Len(q1) = n - 1
        /\ \A k \in 1..(n - 1) :
              q1[k] = EntryIn(lists', IF p <= k THEN SlotAt(k + 1) ELSE SlotAt(k))
    <2>1. EntryCount' = n - 1
      BY <1>1 DEF EntryCount, RingLength, PlaceOf
    <2>2. \A k : SlotOfEntry(k)' = IF p <= k THEN SlotAt(k + 1) ELSE SlotAt(k)
      BY <1>1 DEF SlotOfEntry, PlaceOf, SlotAt, p
    <2>3. QueueEntries' = QueueEntries
      BY DEF QueueEntries
    <2> QED BY <1>1, <1>2, <2>1, <2>2, <2>3, QueueFactsNext DEF EntryIn
  <1>7. ASSUME NEW i \in Slots, i # s PROVE EntryIn(lists', i) = EntryIn(lists, i)
    <2>1. \A c \in Deleted : lists'[c][i] = lists[c][i]
      BY <1>1, <1>3, <1>7, ConstantFacts DEF ListsWithoutDataAt
    <2> QED BY <2>1, SameEntry
  <1> HIDE DEF q, q1, n
  <1>8. ASSUME NEW k \in 1..(n - 1) PROVE q1[k] = IF k < p THEN q[k] ELSE q[k + 1]
    <2>1. CASE k < p
      <3>1. k \in 1..n /\ k # p /\ ~(p <= k)
        BY <1>4, <2>1
      <3> QED BY <1>4, <1>5, <1>6, <1>7, <2>1, <3>1
    <2>2. CASE ~(k < p)
      <3>1. k + 1 \in 1..n /\ k + 1 # p /\ p <= k
        BY <1>4, <2>2
      <3> QED BY <1>4, <1>5, <1>6, <1>7, <2>2, <3>1
    <2> QED BY <2>1, <2>2
  <1>9. q1 = SubSeq(q, 1, p - 1) \o SubSeq(q, p + 1, Len(q))
    BY <1>4, <1>5, <1>6, <1>8, Removed
  <1> QED BY <1>1, <1>4, <1>5, <1>9 DEF Queue!RemoveEntry, q, q1, p, s

\* RemoveOldestEntry drops the first one.
LEMMA RemoveOldestDropsFirst ==
    ASSUME IInv, IInv', RemoveOldestEntry, mostRecentEntryIndex # NO_RECENT_ENTRY,
           oldestEntryIndex # mostRecentEntryIndex
    PROVE  \E k \in 1..Len(AbstractQueue) : Queue!RemoveEntry(k)
  <1> USE SizeAssumption
  <1> DEFINE q == AbstractQueue
             q1 == AbstractQueue'
             n == RingLength
             s == oldestEntryIndex
  <1>1. /\ alive /\ alive' /\ removing = NO_RECENT_ENTRY /\ removing' = NO_RECENT_ENTRY
        /\ mostRecentEntryIndex' = mostRecentEntryIndex
        /\ s \in Slots /\ mostRecentEntryIndex \in Slots /\ s' \in Slots
        /\ s' = IF s = Size - 1 THEN 0 ELSE s + 1
        /\ inputs' = inputs /\ lists' = ListsWithoutDataAt(s)
        /\ lists \in [AllLists -> [Slots -> Payloads]]
    BY SlotArithmetic DEF RemoveOldestEntry, DropOldestIndex, Ready, IInv, TypeOK
  <1>2. TypeOK /\ RemovalInsideQueue /\ (TypeOK /\ RemovalInsideQueue)'
    BY DEF IInv
  <1>3. /\ n \in 2..Size /\ RingLength' = n - 1
        /\ \A k \in 1..(n - 1) : SlotAt(k)' = SlotAt(k + 1) /\ SlotAt(k + 1) \in Slots /\ SlotAt(k + 1) # s
    <2>1. n \in 2..Size
      BY <1>1, PlaceFacts, ConstantFacts DEF RingLength, Slots
    <2>2. RingLength' = n - 1
      <3>1. RingLength' = 1 + ((mostRecentEntryIndex + Size - s') % Size)
        BY <1>1, ConstantFacts DEF RingLength, PlaceOf
      <3>2. n = IF s <= mostRecentEntryIndex THEN mostRecentEntryIndex - s + 1
                ELSE mostRecentEntryIndex - s + Size + 1
        BY <1>1, PlaceFacts, ConstantFacts DEF RingLength
      <3>3. CASE s = Size - 1
        BY <1>1, <3>1, <3>2, <3>3, Modulo DEF Slots
      <3>4. CASE s # Size - 1
        <4> DEFINE a == mostRecentEntryIndex + Size - s'
        <4>1. s' = s + 1
          BY <1>1, <3>4
        <4>2. CASE s < mostRecentEntryIndex
          <5>1. a \in Size..(2 * Size - 1)
            BY <1>1, <4>1, <4>2 DEF Slots
          <5>2. a % Size = a - Size
            BY <5>1, Modulo
          <5> QED BY <1>1, <3>1, <3>2, <4>1, <4>2, <5>2 DEF Slots
        <4>3. CASE mostRecentEntryIndex < s
          <5>1. a \in 0..(Size - 1)
            BY <1>1, <4>1, <4>3 DEF Slots
          <5>2. a % Size = a
            BY <5>1, Modulo
          <5> QED BY <1>1, <3>1, <3>2, <4>1, <4>3, <5>2 DEF Slots
        <4> QED BY <1>1, <4>2, <4>3 DEF Slots
      <3> QED BY <3>3, <3>4
    <2>3. ASSUME NEW k \in 1..(n - 1)
          PROVE  SlotAt(k)' = SlotAt(k + 1) /\ SlotAt(k + 1) \in Slots /\ SlotAt(k + 1) # s
      <3>1. k \in 1..Size /\ k + 1 \in 1..Size
        BY <2>1
      <3>2. SlotAt(k)' = (s' + k - 1) % Size
        BY DEF SlotAt
      <3>3. SlotAt(k)' = IF s' + k <= Size THEN s' + k - 1 ELSE s' + k - 1 - Size
        <4> DEFINE a == s' + k - 1
        <4>1. a \in 0..(2 * Size - 1)
          BY <1>1, <3>1 DEF Slots
        <4>2. CASE a < Size
          <5>1. a \in 0..(Size - 1)
            BY <4>1, <4>2
          <5> QED BY <1>1, <3>2, <4>2, <5>1, Modulo DEF Slots
        <4>3. CASE ~(a < Size)
          <5>1. a \in Size..(2 * Size - 1)
            BY <4>1, <4>3
          <5>2. a % Size = a - Size
            BY <5>1, Modulo
          <5> QED BY <1>1, <3>1, <3>2, <4>3, <5>2 DEF Slots
        <4> QED BY <4>2, <4>3
      <3>4. SlotAt(k + 1) = IF s + (k + 1) <= Size THEN s + (k + 1) - 1 ELSE s + (k + 1) - 1 - Size
        BY <1>1, <3>1, PlaceFacts
      <3> QED BY <1>1, <3>1, <3>3, <3>4 DEF Slots
    <2> QED BY <2>1, <2>2, <2>3
  <1>4. /\ q \in Seq(QueueEntries) /\ Len(q) = n
        /\ \A k \in 1..n : q[k] = EntryIn(lists, SlotAt(k))
    <2>1. EntryCount = n /\ \A k : SlotOfEntry(k) = SlotAt(k)
      BY <1>1 DEF EntryCount, SlotOfEntry
    <2> QED BY <1>1, <1>2, <2>1, QueueFacts
  <1>5. /\ q1 \in Seq(QueueEntries) /\ Len(q1) = n - 1
        /\ \A k \in 1..(n - 1) : q1[k] = EntryIn(lists', SlotAt(k + 1))
    <2>1. EntryCount' = n - 1 /\ \A k : SlotOfEntry(k)' = SlotAt(k)'
      BY <1>1, <1>3 DEF EntryCount, SlotOfEntry
    <2>2. QueueEntries' = QueueEntries
      BY DEF QueueEntries
    <2> QED BY <1>1, <1>2, <1>3, <2>1, <2>2, QueueFactsNext DEF EntryIn
  <1>6. ASSUME NEW k \in 1..(n - 1) PROVE q1[k] = IF k < 1 THEN q[k] ELSE q[k + 1]
    <2>1. \A c \in Deleted : lists'[c][SlotAt(k + 1)] = lists[c][SlotAt(k + 1)]
      BY <1>1, <1>3, ConstantFacts DEF ListsWithoutDataAt
    <2>2. EntryIn(lists', SlotAt(k + 1)) = EntryIn(lists, SlotAt(k + 1))
      BY <2>1, SameEntry
    <2>3. k + 1 \in 1..n /\ ~(k < 1)
      BY <1>3
    <2> QED BY <1>4, <1>5, <2>2, <2>3
  <1> HIDE DEF q, q1, n
  <1>7. q1 = SubSeq(q, 1, 1 - 1) \o SubSeq(q, 1 + 1, Len(q))
    <2>1. 1 \in 1..Len(q) /\ Len(q1) = Len(q) - 1
      BY <1>3, <1>4, <1>5
    <2> QED BY <1>4, <1>5, <1>6, <2>1, Removed
  <1>8. 1 \in 1..Len(q)
    BY <1>3, <1>4
  <1>9. Queue!RemoveEntry(1)
    BY <1>1, <1>7 DEF Queue!RemoveEntry, q, q1
  <1> QED BY <1>8, <1>9 DEF q

\* The steps of the loop change the slots but not the entries.
LEMMA ShiftKeepsQueue ==
    ASSUME IInv, IInv', ShiftEntry
    PROVE  UNCHANGED Queue!qvars
  <1> USE SizeAssumption
  <1> DEFINE q == AbstractQueue
             q1 == AbstractQueue'
             n == RingLength
             r == removing
             p == PlaceOf(r)
  <1>1. /\ alive /\ alive' /\ r # NO_RECENT_ENTRY /\ r \in Slots /\ r \in Ring
        /\ r # mostRecentEntryIndex /\ mostRecentEntryIndex \in Slots
        /\ UNCHANGED <<mostRecentEntryIndex, oldestEntryIndex, inputs>> /\ inputs' = inputs
        /\ oldestEntryIndex \in Slots
        /\ removing' = IF r = Size - 1 THEN 0 ELSE r + 1
        /\ removing' \in Slots /\ removing' # NO_RECENT_ENTRY /\ removing' # r
        /\ removing' # oldestEntryIndex
    <2>1. /\ removing \in Ring /\ removing' # removing /\ removing' # oldestEntryIndex
      BY RingInShift
    <2>2. removing \in Slots /\ removing' \in Slots
      BY SlotArithmetic DEF IInv, TypeOK, ShiftEntry, Slots
    <2>3. /\ alive /\ alive' /\ UNCHANGED <<mostRecentEntryIndex, oldestEntryIndex, inputs>>
          /\ removing # mostRecentEntryIndex
      BY DEF IInv, RemovalInsideQueue, ShiftEntry
    <2>4. mostRecentEntryIndex \in Slots /\ oldestEntryIndex \in Slots
      BY <2>1 DEF IInv, TypeOK, Ring
    <2>5. removing' = IF r = Size - 1 THEN 0 ELSE r + 1
      BY <2>2, SlotArithmetic DEF ShiftEntry
    <2> QED BY <2>1, <2>2, <2>3, <2>4, <2>5, ConstantFacts
  <1>2. TypeOK /\ RemovalInsideQueue /\ (TypeOK /\ RemovalInsideQueue)'
    BY DEF IInv
  <1>3. \A c \in Deleted, i \in Slots :
           lists'[c][i] = IF i = r THEN lists[c][removing'] ELSE lists[c][i]
    BY <1>1, ConstantFacts DEF ShiftEntry, IInv, TypeOK
  <1>4. /\ n \in 2..Size /\ p \in 1..(n - 1) /\ SlotAt(p) = r /\ SlotAt(p + 1) = removing'
        /\ PlaceOf(removing') = p + 1
        /\ \A k \in 1..n : SlotAt(k) \in Slots /\ (k # p => SlotAt(k) # r)
    <2>1. n = PlaceOf(mostRecentEntryIndex) /\ p <= n
      BY <1>1, <1>2, RingPlaces, ConstantFacts DEF RingLength
    <2>2. n \in 1..Size /\ p \in 1..Size /\ SlotAt(p) = r /\ SlotAt(n) = mostRecentEntryIndex
      BY <1>1, <2>1, PlaceAndSlot
    <2>3. PlaceOf(removing') = p + 1
      <3>1. p = IF oldestEntryIndex <= r THEN r - oldestEntryIndex + 1
                ELSE r - oldestEntryIndex + Size + 1
        BY <1>1, PlaceFacts
      <3>2. PlaceOf(removing') = IF oldestEntryIndex <= removing' THEN removing' - oldestEntryIndex + 1
                ELSE removing' - oldestEntryIndex + Size + 1
        BY <1>1, PlaceFacts
      <3> QED BY <1>1, <3>1, <3>2 DEF Slots
    <2>4. p # n
      BY <1>1, <2>2
    <2>5. SlotAt(p + 1) = removing'
      BY <1>1, <2>3, PlaceAndSlot
    <2> QED BY <1>1, <2>1, <2>2, <2>3, <2>4, <2>5, PlaceAndSlot
  <1> HIDE DEF p
  <1>5. /\ q \in Seq(QueueEntries) /\ Len(q) = n - 1
        /\ \A k \in 1..(n - 1) : q[k] = EntryIn(lists, IF p <= k THEN SlotAt(k + 1) ELSE SlotAt(k))
    <2>1. /\ EntryCount = n - 1
          /\ \A k : SlotOfEntry(k) = IF p <= k THEN SlotAt(k + 1) ELSE SlotAt(k)
      BY <1>1 DEF EntryCount, SlotOfEntry, p
    <2> QED BY <1>1, <1>2, <2>1, QueueFacts
  <1>6. /\ q1 \in Seq(QueueEntries) /\ Len(q1) = n - 1
        /\ \A k \in 1..(n - 1) :
              q1[k] = EntryIn(lists', IF p + 1 <= k THEN SlotAt(k + 1) ELSE SlotAt(k))
    <2>1. EntryCount' = n - 1
      BY <1>1 DEF EntryCount, RingLength, PlaceOf
    <2>2. \A k : SlotOfEntry(k)' = IF p + 1 <= k THEN SlotAt(k + 1) ELSE SlotAt(k)
      <3>1. PlaceOf(removing)' = PlaceOf(removing')
        BY <1>1 DEF PlaceOf
      <3>2. \A k : SlotAt(k)' = SlotAt(k)
        BY <1>1 DEF SlotAt
      <3> QED BY <1>1, <1>4, <3>1, <3>2 DEF SlotOfEntry
    <2>3. QueueEntries' = QueueEntries
      BY DEF QueueEntries
    <2> QED BY <1>1, <1>2, <2>1, <2>2, <2>3, QueueFactsNext DEF EntryIn
  <1>7. ASSUME NEW k \in 1..(n - 1) PROVE q[k] = q1[k]
    <2>1. k \in 1..n /\ k + 1 \in 1..n
      BY <1>4
    <2>2. CASE k < p
      <3>1. ~(p <= k) /\ ~(p + 1 <= k) /\ k # p
        BY <1>4, <2>2
      <3>2. EntryIn(lists', SlotAt(k)) = EntryIn(lists, SlotAt(k))
        BY <1>3, <1>4, <2>1, <3>1, SameEntry
      <3> QED BY <1>5, <1>6, <3>1, <3>2
    <2>3. CASE k = p
      <3>1. p <= k /\ ~(p + 1 <= k)
        BY <1>4, <2>3
      <3>2. EntryIn(lists', r) = EntryIn(lists, removing')
        BY <1>1, <1>3, SameEntry
      <3>3. SlotAt(k) = r /\ SlotAt(k + 1) = removing'
        BY <1>4, <2>3
      <3> QED BY <1>5, <1>6, <3>1, <3>2, <3>3
    <2>4. CASE p < k
      <3>1. p <= k /\ p + 1 <= k /\ k + 1 # p
        BY <1>4, <2>4
      <3>2. EntryIn(lists', SlotAt(k + 1)) = EntryIn(lists, SlotAt(k + 1))
        BY <1>3, <1>4, <2>1, <3>1, SameEntry
      <3> QED BY <1>5, <1>6, <3>1, <3>2
    <2> QED BY <1>4, <2>2, <2>3, <2>4
  <1>8. q1 = q
    <2> HIDE DEF q, q1, n
    <2> QED BY <1>5, <1>6, <1>7, SeqEqual
  <1> QED BY <1>1, <1>8 DEF Queue!qvars

LEMMA FinishKeepsQueue ==
    ASSUME IInv, IInv', FinishRemoval
    PROVE  UNCHANGED Queue!qvars
  <1> USE SizeAssumption
  <1> DEFINE q == AbstractQueue
             q1 == AbstractQueue'
             n == RingLength
             m == mostRecentEntryIndex
  <1>1. /\ alive /\ alive' /\ removing = m /\ m # NO_RECENT_ENTRY /\ m \in Slots
        /\ removing' = NO_RECENT_ENTRY
        /\ inputs' = inputs /\ oldestEntryIndex' = oldestEntryIndex
        /\ oldestEntryIndex \in Slots /\ m # oldestEntryIndex
        /\ m' = IF m = 0 THEN Size - 1 ELSE m - 1
        /\ m' \in Slots
        /\ lists' = ListsWithoutDataAt(m)
        /\ lists \in [AllLists -> [Slots -> Payloads]]
    BY RingAfterFinish, SlotArithmetic, ConstantFacts
       DEF IInv, TypeOK, RemovalInsideQueue, FinishRemoval
  <1>2. TypeOK /\ RemovalInsideQueue /\ (TypeOK /\ RemovalInsideQueue)'
    BY DEF IInv
  <1>3. /\ n = PlaceOf(m) /\ n \in 1..Size /\ RingLength' = n - 1
        /\ \A k \in 1..(n - 1) : SlotAt(k) \in Slots /\ SlotAt(k) # m
    <2>1. n = PlaceOf(m) /\ n \in 1..Size
      BY <1>1, PlaceAndSlot, ConstantFacts DEF RingLength
    <2>2. RingLength' = PlaceOf(m')
      BY <1>1, ConstantFacts DEF RingLength, PlaceOf
    <2>3. PlaceOf(m') = n - 1
      <3>1. n = IF oldestEntryIndex <= m THEN m - oldestEntryIndex + 1
                ELSE m - oldestEntryIndex + Size + 1
        BY <1>1, <2>1, PlaceFacts
      <3>2. PlaceOf(m') = IF oldestEntryIndex <= m' THEN m' - oldestEntryIndex + 1
                          ELSE m' - oldestEntryIndex + Size + 1
        BY <1>1, PlaceFacts
      <3> QED BY <1>1, <3>1, <3>2 DEF Slots
    <2>4. ASSUME NEW k \in 1..(n - 1) PROVE SlotAt(k) \in Slots /\ SlotAt(k) # m
      BY <1>1, <2>1, PlaceAndSlot
    <2> QED BY <2>1, <2>2, <2>3, <2>4
  <1>4. /\ q \in Seq(QueueEntries) /\ Len(q) = n - 1
        /\ \A k \in 1..(n - 1) : q[k] = EntryIn(lists, SlotAt(k))
    <2>1. EntryCount = n - 1 /\ \A k \in 1..(n - 1) : SlotOfEntry(k) = SlotAt(k)
      BY <1>1, <1>3 DEF EntryCount, SlotOfEntry
    <2> QED BY <1>1, <1>2, <2>1, QueueFacts
  <1>5. /\ q1 \in Seq(QueueEntries) /\ Len(q1) = n - 1
        /\ \A k \in 1..(n - 1) : q1[k] = EntryIn(lists', SlotAt(k))
    <2>1. EntryCount' = n - 1 /\ \A k : SlotOfEntry(k)' = SlotAt(k)
      BY <1>1, <1>3 DEF EntryCount, SlotOfEntry, SlotAt
    <2>2. QueueEntries' = QueueEntries
      BY DEF QueueEntries
    <2> QED BY <1>1, <1>2, <2>1, <2>2, QueueFactsNext DEF EntryIn
  <1>6. ASSUME NEW k \in 1..(n - 1) PROVE q[k] = q1[k]
    <2>1. \A c \in Deleted : lists'[c][SlotAt(k)] = lists[c][SlotAt(k)]
      BY <1>1, <1>3, ConstantFacts DEF ListsWithoutDataAt
    <2> QED BY <1>4, <1>5, <2>1, SameEntry
  <1>7. q1 = q
    <2> HIDE DEF q, q1, n
    <2> QED BY <1>4, <1>5, <1>6, SeqEqual
  <1> QED BY <1>1, <1>7 DEF Queue!qvars

-----------------------------------------------------------------------------
(* The theorems. *)

LEMMA QueueInit == Init => Queue!Init
  <1> SUFFICES ASSUME Init PROVE Queue!Init
    OBVIOUS
  <1>1. AbstractQueue \in Seq(QueueEntries) /\ (alive => Len(AbstractQueue) = EntryCount)
    BY InvariantInit, QueueFacts DEF IInv
  <1>2. EntryCount = 0
    BY DEF Init, EntryCount, RingLength
  <1>3. AbstractQueue = <<>>
    BY <1>1, <1>2, EmptySeq DEF Init
  <1> QED BY <1>3 DEF Init, Queue!Init

LEMMA QueueStep == IInv /\ IInv' /\ [CallerNext]_vars => [Queue!Next]_(Queue!qvars)
  <1> SUFFICES ASSUME IInv, IInv', [CallerNext]_vars PROVE Queue!Next \/ UNCHANGED Queue!qvars
    OBVIOUS
  <1>1. CASE AddImages
    BY <1>1, AddImagesAddsEntry DEF Queue!Next
  <1>2. ASSUME NEW c \in AllLists \ {Image}, AddData(c) PROVE Queue!Next \/ UNCHANGED Queue!qvars
    BY <1>2, AddDataChangesLastEntry DEF Queue!Next
  <1>3. CASE RemoveNewerEntry
    BY <1>3, RemoveEntryDropsIt DEF RemoveNewerEntry, Queue!Next
  <1>4. CASE /\ oldestEntryIndex # mostRecentEntryIndex
             /\ mostRecentEntryIndex # NO_RECENT_ENTRY
             /\ RemoveOldestEntry
    BY <1>4, RemoveOldestDropsFirst DEF Queue!Next
  <1>5. CASE ShiftEntry
    BY <1>5, ShiftKeepsQueue
  <1>6. CASE FinishRemoval
    BY <1>6, FinishKeepsQueue
  <1>7. CASE Destroy
    <2>1. ~alive' /\ inputs' = inputs
      BY <1>7 DEF Destroy
    <2>2. AbstractQueue' = <<>>
      BY <2>1 DEF AbstractQueue
    <2> QED BY <2>1, <2>2 DEF Queue!Next, Queue!Clear
  <1>8. CASE UNCHANGED vars
    BY <1>8 DEF vars, Queue!qvars, AbstractQueue, EntryCount, RingLength, PlaceOf, SlotAt,
                SlotOfEntry, EntryAt
  <1> QED BY <1>1, <1>2, <1>3, <1>4, <1>5, <1>6, <1>7, <1>8
          DEF CallerNext, Filling, RemovalLoop

\* The circular vectors, their two indices and the shifting loop are a
\* bounded queue to the DFPCs: every call does to the entries what the class
\* comment promises, for every size.
THEOREM RefinesQueue == CallerSpec => ImplementsQueue
  BY QueueInit, QueueStep, QueueInvariant, PTL DEF CallerSpec, ImplementsQueue, Queue!Spec

\* "This method removes an entry": its loop loses no other one.
THEOREM LoopKeepsEntries == CallerSpec => LoopLosesNoEntry
  <1>1. IInv /\ [CallerNext]_vars
           => [removing # NO_RECENT_ENTRY => Cardinality(Entries') = Cardinality(Entries)]_vars
    <2> SUFFICES ASSUME IInv, CallerNext, removing # NO_RECENT_ENTRY
                 PROVE  Cardinality(Entries') = Cardinality(Entries)
      BY DEF vars
    <2>1. IsFiniteSet(Ring)
      <3>1. Ring \subseteq 0..(Size - 1)
        BY RingInSlots DEF IInv, Slots
      <3>2. IsFiniteSet(0..(Size - 1))
        BY FS_Interval, SizeAssumption
      <3> QED BY <3>1, <3>2, FS_Subset
    <2>2. CASE ShiftEntry
      <3>1. removing \in Ring /\ removing' \in Ring /\ Ring' = Ring
        BY <2>2, RingInShift
      <3> QED BY <2>1, <3>1, FS_RemoveElement DEF Entries
    <2>3. CASE FinishRemoval
      <3>1. Entries' = Entries
        <4>1. /\ removing = mostRecentEntryIndex /\ removing' = NO_RECENT_ENTRY
              /\ Ring' = Ring \ {mostRecentEntryIndex} /\ Ring \subseteq Slots
          BY <2>3, RingAfterFinish, RingInSlots DEF FinishRemoval, IInv
        <4> QED BY <4>1, ConstantFacts DEF Entries
      <3> QED BY <3>1
    <2> QED BY <2>2, <2>3
            DEF CallerNext, Filling, RemovalLoop, AddImages, AddData, RemoveNewerEntry, RemoveEntry,
                RemoveOldestEntry, Destroy, Ready
  <1> QED BY <1>1, QueueInvariant, PTL DEF CallerSpec, LoopLosesNoEntry

-----------------------------------------------------------------------------
(* What the getters read, for the modules that use the history. *)

LEMMA IndexOfSteps ==
    ASSUME TypeOK, mostRecentEntryIndex # NO_RECENT_ENTRY, NEW b \in Slots
    PROVE  BackwardStepsToIndex(b) = IF b < RingLength THEN SlotAt(RingLength - b)
                                     ELSE NO_RECENT_ENTRY
  <1> USE SizeAssumption
  <1> DEFINE m == mostRecentEntryIndex
             old == oldestEntryIndex
             n == RingLength
  <1>1. m \in Slots /\ old \in Slots
    BY DEF TypeOK
  <1>2. (m + Size - b) % Size = IF b <= m THEN m - b ELSE m - b + Size
    <2>1. CASE b <= m
      <3> DEFINE a == m + Size - b
      <3>1. a \in Size..(2 * Size - 1)
        BY <1>1, <2>1 DEF Slots
      <3> HIDE DEF a
      <3>2. a % Size = a - Size
        BY <3>1, Modulo
      <3> QED BY <1>1, <2>1, <3>1, <3>2 DEF Slots, a
    <2>2. CASE ~(b <= m)
      <3>1. m + Size - b \in 0..(Size - 1)
        BY <1>1, <2>2 DEF Slots
      <3>2. (m + Size - b) % Size = m + Size - b
        BY <3>1, Modulo
      <3> QED BY <1>1, <2>2, <3>2 DEF Slots
    <2> QED BY <2>1, <2>2
  <1>3. n = IF old <= m THEN m - old + 1 ELSE m - old + Size + 1
    BY <1>1, PlaceFacts DEF RingLength
  <1>4. n \in 1..Size
    BY <1>1, <1>3 DEF Slots
  <1>5. b < n => SlotAt(n - b) = IF old + (n - b) <= Size THEN old + (n - b) - 1
                                 ELSE old + (n - b) - 1 - Size
    <2>1. b < n => n - b \in 1..Size
      BY <1>4 DEF Slots
    <2> QED BY <1>1, <2>1, PlaceFacts
  <1> HIDE DEF n
  <1>6. CASE b <= m
    BY <1>1, <1>2, <1>3, <1>4, <1>5, <1>6 DEF Slots, BackwardStepsToIndex, n
  <1>7. CASE ~(b <= m)
    BY <1>1, <1>2, <1>3, <1>4, <1>5, <1>7 DEF Slots, BackwardStepsToIndex, n
  <1> QED BY <1>6, <1>7

\* Outside RemoveEntry a getter returns what the queue holds that many
\* places before its end, and NULL when it is shorter.
LEMMA GettersReadQueue ==
    IInv /\ Ready =>
        /\ AbstractQueue \in Seq(QueueEntries) /\ Len(AbstractQueue) \in 0..Size
        /\ \A b \in Slots :
              /\ GetData(Image, b) = IF b < Len(AbstractQueue)
                                     THEN AbstractQueue[Len(AbstractQueue) - b].id ELSE NULL
              /\ \A c \in Categories :
                    GetData(c, b) = IF b < Len(AbstractQueue)
                                    THEN AbstractQueue[Len(AbstractQueue) - b].data[c] ELSE NULL
  <1> SUFFICES ASSUME IInv, Ready
               PROVE  /\ AbstractQueue \in Seq(QueueEntries) /\ Len(AbstractQueue) \in 0..Size
                      /\ \A b \in Slots :
                            /\ GetData(Image, b) = IF b < Len(AbstractQueue)
                                                   THEN AbstractQueue[Len(AbstractQueue) - b].id ELSE NULL
                            /\ \A c \in Categories :
                                  GetData(c, b) = IF b < Len(AbstractQueue)
                                                  THEN AbstractQueue[Len(AbstractQueue) - b].data[c] ELSE NULL
    OBVIOUS
  <1> USE SizeAssumption
  <1> DEFINE q == AbstractQueue
             n == RingLength
  <1>1. /\ alive /\ removing = NO_RECENT_ENTRY /\ TypeOK /\ RemovalInsideQueue
    BY DEF IInv, Ready
  <1>2. n \in 0..Size /\ (n = 0 <=> mostRecentEntryIndex = NO_RECENT_ENTRY)
    BY <1>1, RingPlaces DEF TypeOK
  <1>3. /\ q \in Seq(QueueEntries) /\ Len(q) = n
        /\ \A k \in 1..n : q[k] = EntryIn(lists, SlotAt(k))
    <2>1. EntryCount = n /\ \A k : SlotOfEntry(k) = SlotAt(k)
      BY <1>1 DEF EntryCount, SlotOfEntry
    <2> QED BY <1>1, <2>1, QueueFacts
  <1>4. ASSUME NEW b \in Slots
        PROVE  /\ b < n => \A c \in Deleted : GetData(c, b) = lists[c][SlotAt(n - b)]
               /\ ~(b < n) => \A c \in Deleted : GetData(c, b) = NULL
    <2>1. CASE mostRecentEntryIndex = NO_RECENT_ENTRY
      <3>1. Ring = {} /\ n = 0 /\ b \in Nat
        BY <1>2, <2>1 DEF Ring, Slots
      <3>2. \A i \in Slots, c \in Deleted : lists[c][i] = NULL
        BY <3>1 DEF IInv, NothingOutsideTheQueue
      <3>3. BackwardStepsToIndex(b) # NO_RECENT_ENTRY => BackwardStepsToIndex(b) \in Slots
        BY <1>1, IndexOfStepsIsInRing
      <3> QED BY <3>1, <3>2, <3>3 DEF GetData
    <2>2. CASE mostRecentEntryIndex # NO_RECENT_ENTRY
      <3>1. BackwardStepsToIndex(b) = IF b < n THEN SlotAt(n - b) ELSE NO_RECENT_ENTRY
        BY <1>1, <2>2, IndexOfSteps
      <3>2. b < n => SlotAt(n - b) \in Slots
        <4>1. b < n => n - b \in 1..Size
          BY <1>2 DEF Slots
        <4> QED BY <1>1, <4>1, PlaceAndSlot DEF TypeOK
      <3> QED BY <3>1, <3>2, ConstantFacts DEF GetData
    <2> QED BY <2>1, <2>2
  <1>5. ASSUME NEW b \in Slots
        PROVE  /\ GetData(Image, b) = IF b < n THEN q[n - b].id ELSE NULL
               /\ \A c \in Categories : GetData(c, b) = IF b < n THEN q[n - b].data[c] ELSE NULL
    <2>1. CASE b < n
      <3>1. n - b \in 1..n
        BY <1>2, <2>1 DEF Slots
      <3>2. q[n - b] = EntryIn(lists, SlotAt(n - b))
        BY <1>3, <3>1
      <3> HIDE DEF q, n
      <3> QED BY <1>4, <2>1, <3>2, ConstantFacts DEF EntryIn
    <2>2. CASE ~(b < n)
      BY <1>4, <2>2, ConstantFacts
    <2> QED BY <2>1, <2>2
  <1> QED BY <1>2, <1>3, <1>5

-----------------------------------------------------------------------------
(* The history as its callers see it: the inputs it holds, latest first,   *)
(* and which data are stored for them.                                     *)

IdsOf(q) == [k \in 1..Len(q) |-> q[Len(q) + 1 - k].id]
Ids == IdsOf(AbstractQueue)

\* From so many steps back on the entries hold their own data of these
\* categories.
Filled(q, first, data) ==
    \A b \in first..(Len(q) - 1), c \in data : q[Len(q) - b].data[c] = q[Len(q) - b].id

LEMMA IdsFacts ==
    ASSUME NEW q \in Seq(QueueEntries)
    PROVE  /\ Len(q) \in Nat
           /\ IdsOf(q) \in Seq(Payloads) /\ Len(IdsOf(q)) = Len(q)
           /\ \A k \in 1..Len(q) : IdsOf(q)[k] = q[Len(q) + 1 - k].id
  <1> DEFINE n == Len(q)
  <1>1. n \in Nat
    BY LenProperties
  <1>2. ASSUME NEW k \in 1..n PROVE q[n + 1 - k].id \in Payloads
    <2>1. n + 1 - k \in 1..n
      BY <1>1
    <2>2. q[n + 1 - k] \in QueueEntries
      BY <2>1, ElementOfSeq
    <2> QED BY <2>2 DEF QueueEntries
  <1>3. IdsOf(q) = [k \in 1..n |-> q[n + 1 - k].id]
    BY DEF IdsOf
  <1> HIDE DEF n
  <1>4. IdsOf(q) \in [1..n -> Payloads]
    BY <1>2, <1>3
  <1>5. IdsOf(q) \in Seq(Payloads) /\ Len(IdsOf(q)) = n
    BY <1>1, <1>4, FunctionIsSequence
  <1> QED BY <1>1, <1>3, <1>5 DEF n

\* A new entry comes first.
LEMMA IdsAfterAppend ==
    ASSUME NEW q \in Seq(QueueEntries), NEW e \in QueueEntries, NEW data
    PROVE  /\ IdsOf(Append(q, e)) = <<e.id>> \o IdsOf(q)
           /\ Filled(q, 0, data) => Filled(Append(q, e), 1, data)
  <1> DEFINE q1 == Append(q, e)
             n == Len(q)
             ids == IdsOf(q)
             one == <<e.id>>
             ids1 == one \o ids
  <1>1. /\ n \in Nat /\ ids \in Seq(Payloads) /\ Len(ids) = n
        /\ \A k \in 1..n : ids[k] = q[n + 1 - k].id
    BY IdsFacts
  <1>2. /\ q1 \in Seq(QueueEntries) /\ Len(q1) = n + 1
        /\ \A k \in 1..n : q1[k] = q[k]
        /\ q1[n + 1] = e
    BY AppendProperties
  <1>3. /\ IdsOf(q1) \in Seq(Payloads) /\ Len(IdsOf(q1)) = n + 1
        /\ \A k \in 1..(n + 1) : IdsOf(q1)[k] = q1[(n + 1) + 1 - k].id
    BY <1>2, IdsFacts
  <1>4. /\ one \in Seq(Payloads) /\ Len(one) = 1 /\ one[1] = e.id
    BY DEF QueueEntries
  <1> HIDE DEF one, ids, n, q1
  <1>5. /\ ids1 \in Seq(Payloads) /\ Len(ids1) = 1 + n
        /\ \A k \in 1..(1 + n) : ids1[k] = IF k <= 1 THEN one[k] ELSE ids[k - 1]
    <2>1. /\ ids1 \in Seq(Payloads) /\ Len(ids1) = Len(one) + Len(ids)
          /\ \A k \in 1..(Len(one) + Len(ids)) :
                ids1[k] = IF k <= Len(one) THEN one[k] ELSE ids[k - Len(one)]
      BY <1>1, <1>4, ConcatProperties
    <2> QED BY <1>1, <1>4, <2>1
  <1> HIDE DEF ids1
  <1>6. ASSUME NEW k \in 1..(n + 1) PROVE IdsOf(q1)[k] = ids1[k]
    <2>1. CASE k = 1
      <3>1. (n + 1) + 1 - k = n + 1 /\ k \in 1..(1 + n)
        BY <1>1, <2>1
      <3> QED BY <1>2, <1>3, <1>4, <1>5, <2>1, <3>1
    <2>2. CASE k # 1
      <3>1. k - 1 \in 1..n /\ (n + 1) + 1 - k = n + 1 - (k - 1) /\ n + 1 - (k - 1) \in 1..n
            /\ ~(k <= 1) /\ k \in 1..(1 + n)
        BY <1>1, <2>2
      <3>2. IdsOf(q1)[k] = q1[n + 1 - (k - 1)].id
        BY <1>3, <3>1
      <3>3. q1[n + 1 - (k - 1)] = q[n + 1 - (k - 1)]
        BY <1>2, <3>1
      <3>4. ids1[k] = ids[k - 1] /\ ids[k - 1] = q[n + 1 - (k - 1)].id
        BY <1>1, <1>5, <3>1
      <3> QED BY <3>2, <3>3, <3>4
    <2> QED BY <2>1, <2>2
  <1>7. IdsOf(q1) = ids1
    BY <1>1, <1>3, <1>5, <1>6, SeqEqual
  <1>8. ASSUME Filled(q, 0, data) PROVE Filled(q1, 1, data)
    <2>1. ASSUME NEW b \in 1..(Len(q1) - 1), NEW c \in data
          PROVE  q1[Len(q1) - b].data[c] = q1[Len(q1) - b].id
      <3>1. b - 1 \in 0..(n - 1) /\ Len(q1) - b = n - (b - 1) /\ n - (b - 1) \in 1..n
        BY <1>1, <1>2
      <3>2. q[n - (b - 1)].data[c] = q[n - (b - 1)].id
        BY <1>8, <3>1 DEF Filled, n
      <3>3. q1[n - (b - 1)] = q[n - (b - 1)]
        BY <1>2, <3>1
      <3> QED BY <3>1, <3>2, <3>3
    <2> QED BY <2>1 DEF Filled
  <1> QED BY <1>7, <1>8 DEF q1, ids1, ids, one

\* Without its first entry a queue has lost the last of its inputs.
LEMMA IdsAfterTail ==
    ASSUME NEW q \in Seq(QueueEntries), q # <<>>, NEW data
    PROVE  /\ IdsOf(Tail(q)) = SubSeq(IdsOf(q), 1, Len(q) - 1)
           /\ Filled(q, 0, data) => Filled(Tail(q), 0, data)
  <1> DEFINE q1 == Tail(q)
             n == Len(q)
             ids == IdsOf(q)
             ids1 == SubSeq(ids, 1, n - 1)
  <1>1. /\ n \in Nat /\ ids \in Seq(Payloads) /\ Len(ids) = n
        /\ \A k \in 1..n : ids[k] = q[n + 1 - k].id
    BY IdsFacts
  <1>2. n # 0
    BY EmptySeq
  <1>3. /\ q1 \in Seq(QueueEntries) /\ Len(q1) = n - 1
        /\ \A k \in 1..(n - 1) : q1[k] = q[k + 1]
    BY HeadTailProperties
  <1>4. /\ IdsOf(q1) \in Seq(Payloads) /\ Len(IdsOf(q1)) = n - 1
        /\ \A k \in 1..(n - 1) : IdsOf(q1)[k] = q1[(n - 1) + 1 - k].id
    BY <1>3, IdsFacts
  <1> HIDE DEF ids, n, q1
  <1>5. /\ ids1 \in Seq(Payloads) /\ Len(ids1) = n - 1
        /\ \A k \in 1..(n - 1) : ids1[k] = ids[k]
    <2>1. \A k \in 1..(n - 1) : ids[k] \in Payloads
      BY <1>1, ElementOfSeq
    <2> QED BY <1>1, <1>2, <2>1, SubSeqProperties
  <1> HIDE DEF ids1
  <1>6. ASSUME NEW k \in 1..(n - 1) PROVE IdsOf(q1)[k] = ids1[k]
    <2>1. (n - 1) + 1 - k \in 1..(n - 1) /\ ((n - 1) + 1 - k) + 1 = n + 1 - k /\ k \in 1..n
      BY <1>1
    <2>2. q1[(n - 1) + 1 - k] = q[n + 1 - k]
      BY <1>3, <2>1
    <2> QED BY <1>1, <1>4, <1>5, <2>1, <2>2
  <1>7. IdsOf(q1) = ids1
    BY <1>4, <1>5, <1>6, SeqEqual
  <1>8. ASSUME Filled(q, 0, data) PROVE Filled(q1, 0, data)
    <2>1. ASSUME NEW b \in 0..(Len(q1) - 1), NEW c \in data
          PROVE  q1[Len(q1) - b].data[c] = q1[Len(q1) - b].id
      <3>1. b \in 0..(n - 1) /\ Len(q1) - b \in 1..(n - 1) /\ (Len(q1) - b) + 1 = n - b
        BY <1>1, <1>3
      <3>2. q[n - b].data[c] = q[n - b].id
        BY <1>8, <3>1 DEF Filled, n
      <3>3. q1[Len(q1) - b] = q[n - b]
        BY <1>3, <3>1
      <3> QED BY <3>2, <3>3
    <2> QED BY <2>1 DEF Filled
  <1> QED BY <1>7, <1>8 DEF q1, ids1, ids, n

\* Without its last entry it has lost the first of them.
LEMMA IdsAfterDrop ==
    ASSUME NEW q \in Seq(QueueEntries), q # <<>>, NEW data
    PROVE  /\ IdsOf(SubSeq(q, 1, Len(q) - 1)) = Tail(IdsOf(q))
           /\ Filled(q, 0, data) => Filled(SubSeq(q, 1, Len(q) - 1), 0, data)
  <1> DEFINE n == Len(q)
             q1 == SubSeq(q, 1, n - 1)
             ids == IdsOf(q)
             ids1 == Tail(ids)
  <1>1. /\ n \in Nat /\ ids \in Seq(Payloads) /\ Len(ids) = n
        /\ \A k \in 1..n : ids[k] = q[n + 1 - k].id
    BY IdsFacts
  <1>2. n # 0
    BY EmptySeq
  <1>3. /\ q1 \in Seq(QueueEntries) /\ Len(q1) = n - 1
        /\ \A k \in 1..(n - 1) : q1[k] = q[k]
    <2>1. \A k \in 1..(n - 1) : q[k] \in QueueEntries
      BY <1>1, ElementOfSeq
    <2> HIDE DEF n
    <2> QED BY <1>1, <1>2, <2>1, SubSeqProperties
  <1>4. /\ IdsOf(q1) \in Seq(Payloads) /\ Len(IdsOf(q1)) = n - 1
        /\ \A k \in 1..(n - 1) : IdsOf(q1)[k] = q1[(n - 1) + 1 - k].id
    <2> HIDE DEF q1, n
    <2> QED BY <1>3, IdsFacts
  <1> HIDE DEF ids, q1, n
  <1>5. /\ ids1 \in Seq(Payloads) /\ Len(ids1) = n - 1
        /\ \A k \in 1..(n - 1) : ids1[k] = ids[k + 1]
    <2>1. ids # <<>>
      BY <1>1, <1>2, EmptySeq
    <2> QED BY <1>1, <2>1, HeadTailProperties
  <1> HIDE DEF ids1
  <1>6. ASSUME NEW k \in 1..(n - 1) PROVE IdsOf(q1)[k] = ids1[k]
    <2>1. (n - 1) + 1 - k \in 1..(n - 1) /\ (n - 1) + 1 - k = n + 1 - (k + 1) /\ k + 1 \in 1..n
      BY <1>1
    <2>2. q1[(n - 1) + 1 - k] = q[n + 1 - (k + 1)]
      BY <1>3, <2>1
    <2> QED BY <1>1, <1>4, <1>5, <2>1, <2>2
  <1>7. IdsOf(q1) = ids1
    BY <1>4, <1>5, <1>6, SeqEqual
  <1>8. ASSUME Filled(q, 0, data) PROVE Filled(q1, 0, data)
    <2>1. ASSUME NEW b \in 0..(Len(q1) - 1), NEW c \in data
          PROVE  q1[Len(q1) - b].data[c] = q1[Len(q1) - b].id
      <3>1. b + 1 \in 0..(n - 1) /\ Len(q1) - b \in 1..(n - 1) /\ Len(q1) - b = n - (b + 1)
        BY <1>1, <1>3
      <3>2. q[n - (b + 1)].data[c] = q[n - (b + 1)].id
        BY <1>8, <3>1 DEF Filled, n
      <3>3. q1[Len(q1) - b] = q[n - (b + 1)]
        BY <1>3, <3>1
      <3> QED BY <3>2, <3>3
    <2> QED BY <2>1 DEF Filled
  <1> QED BY <1>7, <1>8 DEF q1, ids1, ids, n

\* Data stored for the latest entry.
LEMMA IdsAfterData ==
    ASSUME NEW q \in Seq(QueueEntries), q # <<>>, NEW d \in Categories,
           NEW p \in Payloads, q[Len(q)].id = p,
           NEW data, NEW all, d \in all
    PROVE  /\ IdsOf([q EXCEPT ![Len(q)].data[d] = p]) = IdsOf(q)
           /\ Filled(q, 1, all) => Filled([q EXCEPT ![Len(q)].data[d] = p], 1, all)
           /\ Filled(q, 1, all) /\ Filled(q, 0, data)
                 => Filled([q EXCEPT ![Len(q)].data[d] = p], 0, data \cup {d})
  <1> DEFINE n == Len(q)
             e == [q[n] EXCEPT !.data[d] = p]
             q1 == [q EXCEPT ![n] = e]
             q2 == [q EXCEPT ![n].data[d] = p]
  <1>1. /\ n \in Nat /\ IdsOf(q) \in Seq(Payloads) /\ Len(IdsOf(q)) = n
        /\ \A k \in 1..n : IdsOf(q)[k] = q[n + 1 - k].id
    BY IdsFacts
  <1>2. n # 0 /\ n \in 1..n
    <2>1. n # 0
      BY EmptySeq
    <2> HIDE DEF n
    <2> QED BY <1>1, <2>1
  <1>3. q[n] \in QueueEntries
    BY <1>2, ElementOfSeq
  <1>4. /\ e \in QueueEntries /\ e.id = p
        /\ \A c \in Categories : e.data[c] = IF c = d THEN p ELSE q[n].data[c]
    BY <1>3 DEF QueueEntries
  <1>5. q2 = q1
    BY <1>2
  <1>6. q[n].id = p
    OBVIOUS
  <1> HIDE DEF n, e, q1, q2
  <1>7. /\ q1 \in Seq(QueueEntries) /\ Len(q1) = n
        /\ \A k \in 1..n : q1[k] = IF k = n THEN e ELSE q[k]
    BY <1>2, <1>4, ExceptSeq DEF q1, n
  <1>8. /\ IdsOf(q1) \in Seq(Payloads) /\ Len(IdsOf(q1)) = n
        /\ \A k \in 1..n : IdsOf(q1)[k] = q1[n + 1 - k].id
    BY <1>7, IdsFacts
  <1>9. ASSUME NEW k \in 1..n PROVE IdsOf(q1)[k] = IdsOf(q)[k]
    <2>1. n + 1 - k \in 1..n
      BY <1>1
    <2>2. q1[n + 1 - k].id = q[n + 1 - k].id
      BY <1>4, <1>6, <1>7, <2>1
    <2> QED BY <1>1, <1>8, <2>2
  <1>10. IdsOf(q1) = IdsOf(q)
    BY <1>1, <1>8, <1>9, SeqEqual
  <1>11. ASSUME Filled(q, 1, all) PROVE Filled(q1, 1, all)
    <2>1. ASSUME NEW b \in 1..(Len(q1) - 1), NEW c \in all
          PROVE  q1[Len(q1) - b].data[c] = q1[Len(q1) - b].id
      <3>1. b \in 1..(n - 1) /\ n - b \in 1..n /\ n - b # n
        BY <1>1, <1>7
      <3>2. q[n - b].data[c] = q[n - b].id
        BY <1>11, <3>1 DEF Filled, n
      <3>3. q1[n - b] = q[n - b]
        BY <1>7, <3>1
      <3> QED BY <1>7, <3>2, <3>3
    <2> QED BY <2>1 DEF Filled
  <1>12. ASSUME Filled(q, 1, all), Filled(q, 0, data) PROVE Filled(q1, 0, data \cup {d})
    <2>1. ASSUME NEW b \in 0..(Len(q1) - 1), NEW c \in data \cup {d}
          PROVE  q1[Len(q1) - b].data[c] = q1[Len(q1) - b].id
      <3>1. b \in 0..(n - 1) /\ n - b \in 1..n
        BY <1>1, <1>7
      <3>2. c \in data => q[n - b].data[c] = q[n - b].id
        BY <1>12, <3>1 DEF Filled, n
      <3>3. CASE b = 0 /\ c = d
        <4>1. n - b = n /\ q1[n] = e
          BY <1>1, <1>2, <1>7, <3>3
        <4> QED BY <1>4, <1>7, <3>3, <4>1
      <3>4. CASE b = 0 /\ c # d
        <4>1. n - b = n /\ q1[n] = e /\ e.data[c] = q[n].data[c]
          <5>1. n - b = n /\ q1[n] = e
            BY <1>1, <1>2, <1>7, <3>4
          <5>2. e.data[c] = q[n].data[c]
            BY <1>3, <3>4 DEF e, QueueEntries
          <5> QED BY <5>1, <5>2
        <4> QED BY <1>4, <1>6, <1>7, <3>2, <3>4, <4>1
      <3>5. CASE b # 0
        <4>1. q1[n - b] = q[n - b]
          BY <1>1, <1>7, <3>1, <3>5
        <4>2. b \in 1..(n - 1) /\ (c \in all \/ c \in data)
          BY <1>1, <3>1, <3>5
        <4>3. q[n - b].data[c] = q[n - b].id
          BY <1>12, <3>2, <4>2 DEF Filled, n
        <4> QED BY <1>7, <4>1, <4>3
      <3> QED BY <3>3, <3>4, <3>5
    <2> QED BY <2>1 DEF Filled
  <1> QED BY <1>5, <1>10, <1>11, <1>12 DEF q2, n

-----------------------------------------------------------------------------
(* The calls, in these terms. *)

\* A full history forgets the last input when a new one comes.
IdsWithNew(ids, id) == <<id>> \o (IF Len(ids) = Size THEN SubSeq(ids, 1, Size - 1) ELSE ids)

InUse == IInv /\ alive
NotInLoop == removing = NO_RECENT_ENTRY

LEMMA QueueInUse ==
    ASSUME InUse
    PROVE  AbstractQueue \in Seq(QueueEntries) /\ Len(AbstractQueue) \in 0..Size
  BY QueueFacts, EntryCountFacts DEF InUse, IInv

LEMMA InitIsUsed ==
    ASSUME Init, NEW data
    PROVE  InUse /\ NotInLoop /\ inputs = 0 /\ Ids = <<>> /\ Filled(AbstractQueue, 0, data)
  <1>1. InUse /\ NotInLoop /\ inputs = 0
    BY InvariantInit DEF Init, InUse, NotInLoop
  <1>2. AbstractQueue = <<>>
    BY QueueInit DEF Queue!Init
  <1>3. Len(<<>>) = 0
    BY EmptySeq
  <1>4. Filled(AbstractQueue, 0, data)
    BY <1>2, <1>3 DEF Filled
  <1>5. <<>> \in Seq(QueueEntries)
    BY EmptySeq
  <1>6. IdsOf(<<>>) \in Seq(Payloads) /\ Len(IdsOf(<<>>)) = 0
    BY <1>3, <1>5, IdsFacts
  <1>7. Ids = <<>>
    BY <1>2, <1>6, EmptySeq DEF Ids
  <1> QED BY <1>1, <1>4, <1>7

LEMMA CallAddImages ==
    ASSUME InUse, AddImages, NEW data
    PROVE  /\ InUse' /\ NotInLoop'
           /\ inputs' = inputs + 1 /\ inputs' \in 1..MaxInputs
           /\ Ids' = IdsWithNew(Ids, inputs')
           /\ Filled(AbstractQueue, 0, data) => Filled(AbstractQueue', 1, data)
  <1> USE SizeAssumption
  <1> DEFINE q == AbstractQueue
             room == IF Len(q) = Size THEN Tail(q) ELSE q
             fresh == Queue!NewEntry(inputs + 1)
  <1>1. InUse' /\ NotInLoop' /\ inputs' = inputs + 1 /\ IInv /\ IInv'
    BY InvariantStep DEF CallerNext, Filling, InUse, NotInLoop, AddImages, Ready
  <1>2. inputs' \in 1..MaxInputs /\ inputs + 1 \in Payloads
    BY MaxInputsAssumption DEF InUse, IInv, TypeOK, Payloads, AddImages
  <1>3. AbstractQueue' = Append(room, fresh)
    BY <1>1, AddImagesAddsEntry DEF Queue!AddEntry
  <1>4. fresh \in QueueEntries /\ fresh.id = inputs'
    BY <1>1, <1>2, ConstantFacts DEF Queue!NewEntry, QueueEntries, Queue!NULL, NULL
  <1>5. q \in Seq(QueueEntries) /\ Len(IdsOf(q)) = Len(q)
    BY QueueInUse, IdsFacts
  <1> HIDE DEF q, fresh
  <1>6. /\ room \in Seq(QueueEntries)
        /\ IdsOf(room) = (IF Len(q) = Size THEN SubSeq(IdsOf(q), 1, Size - 1) ELSE IdsOf(q))
        /\ Filled(q, 0, data) => Filled(room, 0, data)
    <2>1. CASE Len(q) = Size
      <3>1. q # <<>>
        BY <2>1, EmptySeq
      <3>2. Tail(q) \in Seq(QueueEntries)
        BY <1>5, <3>1, HeadTailProperties
      <3>3. IdsOf(Tail(q)) = SubSeq(IdsOf(q), 1, Len(q) - 1)
            /\ (Filled(q, 0, data) => Filled(Tail(q), 0, data))
        BY <1>5, <3>1, IdsAfterTail
      <3> QED BY <2>1, <3>2, <3>3
    <2>2. CASE Len(q) # Size
      BY <1>5, <2>2
    <2> QED BY <2>1, <2>2
  <1> HIDE DEF room
  <1>7. /\ IdsOf(Append(room, fresh)) = <<fresh.id>> \o IdsOf(room)
        /\ Filled(room, 0, data) => Filled(Append(room, fresh), 1, data)
    BY <1>4, <1>6, IdsAfterAppend
  <1>8. Ids' = IdsOf(AbstractQueue')
    BY DEF Ids, IdsOf
  <1>9. Ids' = IdsWithNew(Ids, inputs')
    BY <1>3, <1>4, <1>5, <1>6, <1>7, <1>8 DEF IdsWithNew, Ids, q
  <1> QED BY <1>1, <1>2, <1>3, <1>6, <1>7, <1>9 DEF q

LEMMA CallAddData ==
    ASSUME InUse, NEW d \in Categories, AddData(d), NEW data, NEW all, d \in all
    PROVE  /\ InUse' /\ NotInLoop' /\ inputs' = inputs /\ Ids' = Ids
           /\ Filled(AbstractQueue, 1, all) => Filled(AbstractQueue', 1, all)
           /\ Filled(AbstractQueue, 1, all) /\ Filled(AbstractQueue, 0, data)
                 => Filled(AbstractQueue', 0, data \cup {d})
  <1> DEFINE q == AbstractQueue
  <1>1. d \in AllLists \ {Image}
    BY ConstantFacts
  <1>2. InUse' /\ NotInLoop' /\ inputs' = inputs /\ IInv /\ IInv'
    BY <1>1, InvariantStep DEF CallerNext, Filling, InUse, NotInLoop, AddData, Ready
  <1>3. /\ q # <<>> /\ q[Len(q)].id = inputs
        /\ AbstractQueue' = [q EXCEPT ![Len(q)].data[d] = inputs]
    BY <1>1, <1>2, AddDataChangesLastEntry DEF Queue!AddData
  <1>4. q \in Seq(QueueEntries) /\ inputs \in Payloads
    BY QueueInUse DEF InUse, IInv, TypeOK
  <1>5. Ids' = IdsOf(AbstractQueue')
    BY DEF Ids, IdsOf
  <1> HIDE DEF q
  <1>6. /\ IdsOf([q EXCEPT ![Len(q)].data[d] = inputs]) = IdsOf(q)
        /\ Filled(q, 1, all) => Filled([q EXCEPT ![Len(q)].data[d] = inputs], 1, all)
        /\ Filled(q, 1, all) /\ Filled(q, 0, data)
              => Filled([q EXCEPT ![Len(q)].data[d] = inputs], 0, data \cup {d})
    BY <1>3, <1>4, IdsAfterData
  <1> QED BY <1>2, <1>3, <1>5, <1>6 DEF Ids, q

LEMMA CallRemoveLatest ==
    ASSUME InUse, RemoveEntry(0), Len(Ids) >= 2, NEW data
    PROVE  /\ InUse' /\ ~NotInLoop' /\ inputs' = inputs /\ Ids' = Tail(Ids)
           /\ Filled(AbstractQueue, 0, data) => Filled(AbstractQueue', 0, data)
  <1> USE SizeAssumption
  <1> DEFINE q == AbstractQueue
             n == RingLength
             m == mostRecentEntryIndex
             old == oldestEntryIndex
             s == BackwardStepsToIndex(0)
  <1>1. /\ IInv /\ TypeOK /\ RemovalInsideQueue /\ alive /\ removing = NO_RECENT_ENTRY
        /\ old \in Slots /\ m \in Slots \cup {NO_RECENT_ENTRY}
    BY DEF InUse, RemoveEntry, Ready, IInv, TypeOK
  <1>2. q \in Seq(QueueEntries) /\ Len(q) \in Nat /\ Len(q) = n /\ Len(q) >= 2
    <2>1. EntryCount = n
      BY <1>1 DEF EntryCount
    <2>2. q \in Seq(QueueEntries) /\ Len(q) = n
      BY <1>1, <2>1, QueueFacts
    <2> HIDE DEF q
    <2>3. Len(IdsOf(q)) = Len(q) /\ Len(q) \in Nat
      BY <2>2, IdsFacts
    <2> QED BY <2>2, <2>3 DEF Ids, q
  <1>3. m # NO_RECENT_ENTRY /\ n \in 0..Size /\ n \in 1..Size
    <2>1. n \in 0..Size
      BY <1>1, RingPlaces
    <2>2. m # NO_RECENT_ENTRY
      BY <1>2 DEF RingLength
    <2> HIDE DEF n
    <2> QED BY <1>2, <2>1, <2>2
  <1>4. s = SlotAt(n)
    <2>1. 0 \in Slots
      BY DEF Slots
    <2>2. BackwardStepsToIndex(0) = IF 0 < RingLength THEN SlotAt(RingLength - 0) ELSE NO_RECENT_ENTRY
      BY <1>1, <1>3, <2>1, IndexOfSteps
    <2> HIDE DEF n, s
    <2>3. 0 < n /\ n - 0 = n
      BY <1>3
    <2> QED BY <2>2, <2>3 DEF n, s
  <1>5. SlotAt(n) \in Slots /\ PlaceOf(SlotAt(n)) = n
    BY <1>1, <1>3, PlaceAndSlot
  <1>6. s # old
    <2>1. PlaceOf(old) = 1
      <3>1. PlaceOf(old) = IF old <= old THEN old - old + 1 ELSE old - old + Size + 1
        BY <1>1, PlaceFacts
      <3> QED BY <1>1, <3>1 DEF Slots
    <2> HIDE DEF n, s, old
    <2> QED BY <1>2, <1>4, <1>5, <2>1
  <1>7. 0 \in Slots
    BY DEF Slots
  <1>8. IInv' /\ alive'
    <2>1. RemoveNewerEntry
      BY <1>3, <1>6, <1>7 DEF RemoveNewerEntry
    <2>2. alive'
      BY <1>1 DEF RemoveEntry
    <2> QED BY <1>1, <2>1, <2>2, InvariantStep DEF CallerNext
  <1>9. removing' # NO_RECENT_ENTRY /\ inputs' = inputs
    BY DEF RemoveEntry
  <1>10. PICK k \in 1..Len(AbstractQueue) : k = PlaceOf(s) /\ Queue!RemoveEntry(k)
    BY <1>1, <1>3, <1>6, <1>7, <1>8, RemoveEntryDropsIt
  <1>11. k = n
    BY <1>4, <1>5, <1>10
  <1>12. AbstractQueue' = SubSeq(q, 1, n - 1) \o SubSeq(q, n + 1, Len(q))
    BY <1>10, <1>11 DEF Queue!RemoveEntry
  <1> HIDE DEF q, n
  <1>13. AbstractQueue' = SubSeq(q, 1, Len(q) - 1)
    <2>1. SubSeq(q, n + 1, Len(q)) = <<>>
      BY <1>2, SubSeqEmpty
    <2>2. SubSeq(q, 1, n - 1) \in Seq(QueueEntries)
      <3>1. \A i \in 1..(n - 1) : q[i] \in QueueEntries
        BY <1>2, ElementOfSeq
      <3> QED BY <1>2, <3>1, SubSeqProperties
    <2>3. SubSeq(q, 1, n - 1) \o <<>> = SubSeq(q, 1, n - 1)
      BY <2>2, ConcatEmptySeq
    <2> QED BY <1>2, <1>12, <2>1, <2>3
  <1>14. q # <<>>
    BY <1>2, EmptySeq
  <1>15. /\ IdsOf(SubSeq(q, 1, Len(q) - 1)) = Tail(IdsOf(q))
         /\ Filled(q, 0, data) => Filled(SubSeq(q, 1, Len(q) - 1), 0, data)
    BY <1>2, <1>14, IdsAfterDrop
  <1>16. Ids' = IdsOf(AbstractQueue')
    BY DEF Ids, IdsOf
  <1> QED BY <1>8, <1>9, <1>13, <1>15, <1>16 DEF InUse, NotInLoop, Ids, q

LEMMA CallRemovalLoop ==
    ASSUME InUse, RemovalLoop
    PROVE  InUse' /\ inputs' = inputs /\ AbstractQueue' = AbstractQueue /\ Ids' = Ids
  <1>1. IInv /\ IInv' /\ alive' /\ inputs' = inputs
    BY InvariantStep DEF InUse, CallerNext, RemovalLoop, ShiftEntry, FinishRemoval
  <1>2. AbstractQueue' = AbstractQueue
    BY <1>1, ShiftKeepsQueue, FinishKeepsQueue DEF RemovalLoop, Queue!qvars
  <1>3. Ids' = Ids
    BY <1>2 DEF Ids, IdsOf
  <1> QED BY <1>1, <1>2, <1>3 DEF InUse

LEMMA NoCall ==
    ASSUME InUse, UNCHANGED vars
    PROVE  /\ InUse' /\ NotInLoop' = NotInLoop /\ inputs' = inputs
           /\ AbstractQueue' = AbstractQueue /\ Ids' = Ids
  <1>1. IInv' /\ alive' /\ inputs' = inputs /\ NotInLoop' = NotInLoop
    BY InvariantStep DEF InUse, vars, NotInLoop
  <1>2. AbstractQueue' = AbstractQueue
    BY DEF vars, AbstractQueue, EntryCount, RingLength, PlaceOf, SlotAt, SlotOfEntry, EntryAt
  <1>3. Ids' = Ids
    BY <1>2 DEF Ids, IdsOf
  <1> QED BY <1>1, <1>2, <1>3 DEF InUse

\* What the getters return for data that are stored for every input held.
LEMMA GettersReadIds ==
    ASSUME InUse, NotInLoop, NEW data \in SUBSET Categories, Filled(AbstractQueue, 0, data)
    PROVE  /\ Ids \in Seq(Payloads) /\ Len(Ids) \in 0..Size
           /\ \A c \in data \cup {Image}, b \in Slots :
                 GetData(c, b) = IF b < Len(Ids) THEN Ids[b + 1] ELSE NULL
  <1> DEFINE q == AbstractQueue
             n == Len(q)
  <1>1. /\ q \in Seq(QueueEntries) /\ n \in 0..Size
        /\ \A b \in Slots :
              /\ GetData(Image, b) = IF b < n THEN q[n - b].id ELSE NULL
              /\ \A c \in Categories : GetData(c, b) = IF b < n THEN q[n - b].data[c] ELSE NULL
    BY GettersReadQueue DEF InUse, NotInLoop, Ready
  <1> HIDE DEF q
  <1>2. /\ n \in Nat /\ Ids \in Seq(Payloads) /\ Len(Ids) = n
        /\ \A k \in 1..n : Ids[k] = q[n + 1 - k].id
    BY <1>1, IdsFacts DEF Ids, q
  <1> HIDE DEF n
  <1>3. ASSUME NEW b \in Slots, b < n PROVE Ids[b + 1] = q[n - b].id /\ b \in 0..(n - 1)
    <2>1. b + 1 \in 1..n /\ n + 1 - (b + 1) = n - b /\ b \in 0..(n - 1)
      BY <1>2, <1>3 DEF Slots
    <2> QED BY <1>2, <2>1
  <1>4. \A b \in Slots : GetData(Image, b) = IF b < Len(Ids) THEN Ids[b + 1] ELSE NULL
    BY <1>1, <1>2, <1>3
  <1>5. ASSUME NEW c \in data, NEW b \in Slots
        PROVE  GetData(c, b) = IF b < Len(Ids) THEN Ids[b + 1] ELSE NULL
    <2>1. CASE b < n
      <3>1. Ids[b + 1] = q[n - b].id /\ b \in 0..(n - 1)
        BY <1>3, <2>1
      <3>2. q[n - b].data[c] = q[n - b].id
        BY <3>1 DEF Filled, q, n
      <3>3. GetData(c, b) = q[n - b].data[c]
        BY <1>1, <2>1
      <3> QED BY <1>2, <2>1, <3>1, <3>2, <3>3
    <2>2. CASE ~(b < n)
      BY <1>1, <1>2, <2>2
    <2> QED BY <2>1, <2>2
  <1> QED BY <1>1, <1>2, <1>4, <1>5

\* No input is held twice, and none that was not seen.
LEMMA IdsAreDistinct ==
    ASSUME InUse, NotInLoop
    PROVE  /\ \A k \in 1..Len(Ids) : Ids[k] \in 1..inputs
           /\ \A j, k \in 1..Len(Ids) : Ids[j] = Ids[k] => j = k
  <1> DEFINE q == AbstractQueue
             n == Len(q)
             At(k) == SlotAt(n + 1 - k)
  <1>1. /\ IInv /\ TypeOK /\ RemovalInsideQueue /\ alive /\ removing = NO_RECENT_ENTRY
        /\ oldestEntryIndex \in Slots /\ inputs \in Nat
        /\ mostRecentEntryIndex \in Slots \cup {NO_RECENT_ENTRY}
    BY DEF InUse, NotInLoop, IInv, TypeOK, Payloads
  <1>2. /\ EntryCount = RingLength /\ n = RingLength /\ n \in 0..Size
        /\ \A k : SlotOfEntry(k) = SlotAt(k)
    <2>1. EntryCount = RingLength /\ \A k : SlotOfEntry(k) = SlotAt(k)
      BY <1>1 DEF EntryCount, SlotOfEntry
    <2>2. n = RingLength /\ n \in 0..Size
      BY <1>1, <2>1, QueueFacts, QueueInUse
    <2> QED BY <2>1, <2>2
  <1>3. /\ q \in Seq(QueueEntries)
        /\ \A k \in 1..n : SlotAt(k) \in Entries /\ q[k] = EntryIn(lists, SlotAt(k))
    BY <1>1, <1>2, QueueFacts, EntryCountFacts
  <1>4. /\ Len(Ids) = n /\ \A k \in 1..n : Ids[k] = q[n + 1 - k].id
    <2> HIDE DEF q
    <2> QED BY <1>3, IdsFacts DEF Ids, q
  <1>5. \A k \in 1..n : SlotAt(k) \in Slots /\ PlaceOf(SlotAt(k)) = k
    <2> HIDE DEF n
    <2>1. \A k \in 1..n : k \in 1..Size
      BY <1>2, SizeAssumption
    <2> QED BY <1>1, <2>1, PlaceAndSlot
  <1> HIDE DEF q, n
  <1>6. ASSUME NEW k \in 1..n
        PROVE  /\ n + 1 - k \in 1..n
               /\ At(k) \in Entries /\ At(k) \in Slots /\ PlaceOf(At(k)) = n + 1 - k
               /\ Ids[k] = lists[Image][At(k)]
    <2>1. n + 1 - k \in 1..n
      BY <1>2
    <2>2. q[n + 1 - k] = EntryIn(lists, At(k))
      BY <1>3, <2>1
    <2>3. Ids[k] = lists[Image][At(k)]
      BY <1>4, <2>2 DEF EntryIn
    <2> QED BY <1>3, <1>5, <2>1, <2>3
  <1> HIDE DEF At
  <1>7. /\ \A i \in Entries : lists[Image][i] # NULL /\ lists[Image][i] <= inputs
        /\ \A i, j \in Entries : i # j => lists[Image][i] # lists[Image][j]
    BY <1>1 DEF IInv, EveryEntryHasImages, EntriesAreDistinct
  <1>8. ASSUME NEW k \in 1..n PROVE Ids[k] \in 1..inputs
    <2>1. lists[Image][At(k)] \in Payloads
      BY <1>1, <1>6, ConstantFacts DEF TypeOK
    <2>2. Ids[k] \in Nat /\ Ids[k] # 0 /\ Ids[k] <= inputs
      BY <1>6, <1>7, <2>1, MaxInputsAssumption DEF Payloads, NULL
    <2> QED BY <1>1, <2>2
  <1>9. ASSUME NEW j \in 1..n, NEW k \in 1..n, Ids[j] = Ids[k] PROVE j = k
    <2>1. At(j) = At(k)
      BY <1>6, <1>7, <1>9
    <2>2. n + 1 - j = n + 1 - k
      BY <1>6, <2>1
    <2> QED BY <1>2, <2>2
  <1> QED BY <1>4, <1>8, <1>9
=============================================================================
