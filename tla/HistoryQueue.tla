---------------------------- MODULE HistoryQueue ----------------------------
(***************************************************************************)
(* What the class comment of BundleHistory promises: a memory of the       *)
(* latest entries of a stereo stream, oldest first, of which the oldest    *)
(* one is forgotten, with everything stored in it, when a new one does not *)
(* fit.  An entry is the number of its input, and for every category       *)
(* either NULL or the payload stored there.                                *)
(***************************************************************************)
EXTENDS Integers, Sequences

CONSTANTS Capacity,     \* entries the history keeps
          Categories    \* what an entry may hold beside its images

NULL == 0

VARIABLES queue,        \* the entries, oldest first
          inputs        \* number of inputs seen so far

qvars == <<queue, inputs>>

NewEntry(id) == [id |-> id, data |-> [c \in Categories |-> NULL]]

Init == /\ queue = <<>>
        /\ inputs = 0

\* A new entry goes to the end; a full queue forgets its first one.
AddEntry ==
    /\ inputs' = inputs + 1
    /\ queue' = Append(IF Len(queue) = Capacity THEN Tail(queue) ELSE queue,
                       NewEntry(inputs + 1))

\* The newest entry gets the data computed from its input.
AddData(c) ==
    /\ queue # <<>>
    /\ queue[Len(queue)].id = inputs
    /\ queue' = [queue EXCEPT ![Len(queue)].data[c] = inputs]
    /\ UNCHANGED inputs

\* Exactly the entry asked for disappears, the others keep their order.
RemoveEntry(k) ==
    /\ queue' = SubSeq(queue, 1, k - 1) \o SubSeq(queue, k + 1, Len(queue))
    /\ UNCHANGED inputs

Clear == /\ queue' = <<>>
         /\ UNCHANGED inputs

Next == \/ AddEntry
        \/ \E c \in Categories : AddData(c)
        \/ \E k \in 1..Len(queue) : RemoveEntry(k)
        \/ Clear

Spec == Init /\ [][Next]_qvars
=============================================================================
