------------------------ MODULE CorrespondenceSequences ------------------------
(***************************************************************************)
(* Sequences of correspondence maps in the order both recorders keep them. *)
(* A map is the pair of the images whose features it matches; which points *)
(* it matches is left out.                                                 *)
(***************************************************************************)
EXTENDS Integers, SequencesExt

\* The images of stereo pairs, left before right.
ImagesOfPairs(pairs) ==
    [i \in 1..(2 * Len(pairs)) |->
        <<pairs[(i + 1) \div 2], IF i % 2 = 1 THEN "left" ELSE "right">>]

\* The maps from one of the images to each of the later ones.
MapsFrom(images, source) ==
    [step \in 1..(Len(images) - source) |-> <<images[source], images[source + step]>>]

\* The order the comments of the recorders promise for images numbered from
\* the most recent one: first every map from the first image to a later one,
\* then every map from the second image, and so on.
AllMaps(images) ==
    FlattenSeq([source \in 1..Len(images) |-> MapsFrom(images, source)])

\* Two nested loops over source < sink read, in a sequence of maps of which
\* only those between the first "kept" images are wanted, the positions
\* after Start(source): the reading index moves on by one with each map, and
\* by "skipped" more at the end of each source.
Start(kept, skipped, source) ==
    (source - 1) * (kept + skipped) - (source * (source - 1)) \div 2

ReadPositions(kept, skipped) ==
    FlattenSeq([source \in 1..kept |->
                    [step \in 1..(kept - source) |-> Start(kept, skipped, source) + step]])

\* Positions beyond the end of a sequence hold maps of an unknown past.
UNKNOWN_MAP == <<"unknown", "unknown">>

MapsAt(maps, positions) ==
    [k \in 1..Len(positions) |->
        IF positions[k] \in 1..Len(maps) THEN maps[positions[k]] ELSE UNKNOWN_MAP]
================================================================================
