# CDFF: a TLA+ model of the stereo reconstruction core and the SLAM threads

The Common Data Fusion Framework is a library of data fusion nodes (DFNs: one
numeric algorithm each, `src/DFNs`) and data fusion processing compounds (DFPCs:
objects that chain DFNs, `src/DFPCs`). A DFPC is driven by one thread: the owner
calls `setup()` once, then, for every new input, the input methods, `run()` and
the output methods. The DFNs are pure floating point. What has *state* across
inputs, and can go wrong after a long sequence of legal calls, are the 3d
reconstruction DFPCs in `src/DFPCs/Reconstruction3D`: each remembers the latest
stereo pairs and everything computed from them, rolls the memory back when an
input fails, and adds what succeeded to a global map. The one part that is
*concurrent* is the SLAM library behind the DFN `StereoSlamOrb`,
`src/Common/Core/liborbslam`: four kinds of threads that stop, reset, release and
finish each other. Both are modelled here.

## Inventory

| part | state | operations | hard behaviour |
|---|---|---|---|
| `BundleHistory` | two indices of a circular buffer; owning pointers to images, features, 3d features, matches and clouds per slot | add images / data, getters by distance from the newest entry, remove one / the oldest entry, destructor | wrap-around, removal by shifting owned pointers, double deletion, leaks, stale data in reused slots |
| `MultipleCorrespondences2DRecorder` | two buffers of correspondence maps, which is the latest, number of old poses, flags | initialise, add, complete a sequence, read the latest, discard the latest | protocol with assertions, saturating counter against discards, pruning a triangle of maps, one-step rollback |
| `MultipleCorrespondences3DRecorder` | the same for 3d maps | the same | the same |
| `AdjustmentFromStereo` | history, 2d recorder, map, input count, "first bundle" flag | `run()` | history, recorder and map must change in step although the adjuster may fail at any input |
| `EstimationFromStereo` | history, 3d recorder, map, count, flag | `run()` | the same, plus an index convention between pairs and transforms |
| `PointCloudMap` | accumulated cloud, features, pose of the latest cloud | add at a pose, attach relative to the latest, retrieve around a pose | what "latest" is when clouds are added in bulk |
| `RegistrationFromStereo`, `Sparse…`, `Dense…` | history, map, poses, static counters | `run()` | removal of failed inputs, stale clouds, state shared by instances |
| `ReconstructionFromMotion`, `ReconstructionFromStereo` | history or previous cloud, map | `run()` | match with an older entry, attach to the latest |
| `System`, `Tracking` of liborbslam | state of the tracker, request of a reset | track a frame, reset, shutdown | waits for the other threads with mutexes held |
| `LocalMapping` | queue of keyframes; stop, reset and finish requests; stopped flag | insert, one round of the loop, stop, release | requests of three threads on the same flags, two mutexes taken in both orders |
| `LoopClosing` | queue, last loop, global adjustment running / aborted, abort counter | one round, correct a loop, launch and abort an adjustment | detached threads told apart by a counter, exclusive use of the map |
| `DfpcConfigurator` | DFNs by name | configure, get | reconfiguration, ownership |
| other DFPCs, Types, Converters, … | see `components` in PROJECT.json | | |

Interactions: a DFPC calls its history, its recorder and its map directly, in
one thread; there are no callbacks and no messages. The recorders copy the maps
they are given; the history owns copies of what is stored. The map reads the
cloud it is given and keeps no pointer into the history. Failure enters through
the `success` output of the DFNs and through `ASSERT`, which ends the program.
The threads of liborbslam share flags and queues, each behind a mutex of its own,
and wait for each other by polling them.

What makes each part correct, and the hazards at their lines, are in `hazards`
of PROJECT.json; the properties below are derived from them.

## Modules

* **HistoryQueue**: what the class comment of `BundleHistory` promises, a bounded
  queue that forgets the oldest entry with all its data.
* **BundleHistory**: the circular buffer. `mostRecentEntryIndex`,
  `oldestEntryIndex` and the lists are the members of the class; `heap` is the
  set of allocated payloads, so that leaks and double deletions are visible;
  `removing` is the local variable `index` of `RemoveEntry` while its loop runs,
  whose iterations are steps of their own. A payload is the number of the input
  it was computed from, 0 is NULL. `Next` allows any public call, with one
  restriction: data is added only while the newest entry is the one of the images
  added last, as every DFPC does, because a payload is named by the input it was
  computed from. `CallerNext` allows the calls the DFPCs make: they remove an
  entry only while an older one remains.
* **CorrespondenceSequences**: the order of maps the recorders promise
  (`AllMaps`) and the positions their nested copy loops read (`ReadPositions`).
  A map is the pair of images it is between; its points are left out.
* **MultipleCorrespondences2DRecorder**, **MultipleCorrespondences3DRecorder**:
  one operator per method, with the failing branch of each `ASSERT` as a disjunct
  that sets `aborted`. `working` is the buffer `workingCorrespondenceMapSequence`
  points at, the other one is `historyCorrespondenceMapSequence`. Reading behind
  the end of a sequence yields `UNKNOWN_MAP`, a map between images that do not
  exist: the storage is a fixed-size array whose stale elements survive `Clear`.
  A 2d sequence has room for 56 maps (Sequences.asn:38); one more fails an
  `ASSERT_ON_TEST` or writes behind the array, and is `Abort` in the model. The
  order is that of the header (MultipleCorrespondences2DRecorder.hpp:17-20) without
  the `(R0-L0)` its example lists: neither the code nor the reader of the sequence
  knows that map.
* **Recorder2DClient**: the 2d recorder with a client that follows the protocol
  in its header.
* **AdjustmentFromStereo**, **EstimationFromStereo**: `run()` as a sequence of
  atomic calls on the history and the recorder, which are instances of the two
  component modules (`bundleHistory!…`, `recorder!…`) over the same variables;
  `pc` is the position in `run()`, `pending` what the current phase still has to
  store or to add. The result of the adjuster or estimator is a
  nondeterministic choice at `pc = "adjust"` / `"estimate"`. `pointCloudMap` is
  the list of clouds added, each with the camera or the transform that placed it.
* **StereoRegistration**: `run()` of `RegistrationFromStereo` and of its sparse and
  dense variants over a `BundleHistory` of two slots; `parameters` says which one
  runs and with which options and never changes. A coordinate system is named by
  the input whose camera it belongs to, a pose is the pair of systems it leads
  from and to, and a sum of two poses that do not meet is `UNKNOWN_POSE`: a cloud
  registered to the wrong target, a pose added to the wrong one, or two summed in
  the wrong order, shows as a pose that leads to the wrong place: `Sum` multiplies
  the orientations in the order of its arguments (Pose.cpp:171-174). `stored` says what each run put into the
  history, `mergeCounter` is the static counter of the dense variant.
* **OrbSlamThreads**: the threads. `main`, `mapper`, `closer` and `gba[g]` say where
  the caller's thread (`System::TrackStereo`, `Tracking`, `Shutdown`), the local
  mapper (`LocalMapping::Run`), the loop closer (`LoopClosing::Run`) and each global
  bundle adjustment (`RunGlobalBundleAdjustment`) are; the other variables are the
  members of the classes, under their names without `mb`/`mn` where that is clear.
  A keyframe is its id. A polling loop is the guard of the step that leaves it. A
  mutex held for one step is left out; for `mMutexMapUpdate`, `mMutexStop`,
  `mMutexFinish` and `mMutexGBA`, which are held for longer, a predicate over the
  program counters says whether it is free. Atomic steps end where the code
  releases a mutex or reads shared state again; `CheckNewKeyFrames` and
  `ProcessNewKeyFrame` of the mapper are two steps, and when `Release` has emptied
  the queue in between, the mapper reads the front of an empty list and is at
  `"undefined"`, where it is not followed. Two merges are harmless: what
  `NeedNewKeyFrame` reads of the mapper under four locks is one step, because
  `SetNotStop` asks again for the one that matters; and the closer's own test and
  take of its queue are one step, because only the closer empties that queue.
  Whether a frame becomes a keyframe,
  is lost, or a keyframe closes a loop is a choice within the code's conditions.
* **MCHistory**, **MCAdjustment**, **MCEstimation**, **MCRegistration**: instances for
  TLC, with an assumption that the bound on inputs makes the history wrap, and, in
  the last one, the sets of options of the runs.
* **BundleHistory_proofs**, **BundleHistory_refinement**, **OrbSlamThreads_proofs**,
  **StereoRegistration_proofs**, **Recorder2DClient_proofs**,
  **AdjustmentFromStereo_proofs**, **EstimationFromStereo_proofs**: the theorems.
  **CorrespondenceSequences_proofs**: what `FlattenSeq`, `AllMaps` and
  `ReadPositions` compute for sequences of any length, for the last three.

Operators named `X_Something` with a comment `Fault:` are mutated copies of `X`,
defined before it, used to confirm that each property fails for a plausible bug.

## Runs

| run | bounds | shows |
|---|---|---|
| `history` | 4 slots, one category, 6 inputs | under the DFPCs' calls: type correctness, the inductive invariant, no entry without images, data stays with its images, no leak but of the 3d features, no double deletion and no dangling pointer, removals end, no entry is lost by the loop, refinement of `HistoryQueue` |
| `history_features3d` | 2 slots, 4 inputs | **violation**: 3d features survive in a reused slot |
| `recorder_2d` | 4 poses, 8 stereo pairs | no assertion fails, no sequence outgrows its storage, and the latest maps are those of the kept pairs, in order |
| `adjustment` | 4 pairs, 10 inputs, with initial estimation | history, recorder and map stay consistent whatever inputs fail; `run()` returns |
| `adjustment_attach` | 2 pairs, 4 inputs | **violation**: the second success attaches to the oldest cloud |
| `estimation` | 3 pairs, 9 inputs | the same consistency, and clouds are attached to the cloud they were registered with |
| `estimation_order` | 4 pairs, 6 inputs | **violation**: the 3d recorder keeps the wrong maps with four pairs |
| `registration` | 6 inputs, all options that track the camera | what is matched to what, which pose results, what the history and the map then hold; `run()` returns |
| `dense_previous_frame` | 5 inputs, the defaults of the dense variant | **violation**: the third input is registered to the last merged scene, not to the previous frame |
| `registration_refined` | 6 inputs, registrator, matching to the scene and assembler | **violation**: the two estimates of a pose are summed in the wrong order |
| `slam_threads` | 2 adjustments, 3 keyframes between resets, a loop at any keyframe, 1 abort | keyframes keep their order, a reset deletes none in use, `SetNotStop` excludes a stop, a loop is corrected alone; a reset and a shutdown return, or the threads are in one of three named states |
| `slam_stop_lost` | the same | **violation**: a loop closer whose stop request was cleared waits for ever |

`CHECK_DEADLOCK FALSE` everywhere: the number of inputs is bounded, and a
destroyed history, a program ended by `ASSERT`, and threads after a shutdown really
stop.

**Bounds.** The history only compares indices modulo its size. With more inputs
than slots plus one every entry is replaced at least once and the queue starts at
every slot; four slots give removals at the front of the wrapped part, behind
it and across the end of the buffer. One category suffices because all are
handled by the same three loops; the proofs do not need that. Four poses is
the default of `NumberOfAdjustedStereoPairs` and the smallest number for which a
skip of one and of two maps read different maps; eight pairs exceed the
saturation of the counter (at five) with discards before and after it.
`estimation` uses three pairs, the number of the unit tests, because with four
the recorder's order is violated (`estimation_order`). More than five pairs are
excluded by `PosesAssumption` and `PairsAssumption`: the 2d recorder has room for 56
maps, which holds the 45 between five pairs and not the 66 between six, and the 3d
recorder would read further behind its storage. (A 3d sequence has the same room,
enough for the 55 maps of eleven poses, so that its model has no capacity.) The
documentation of AdjustmentFromStereo allows 2, 3 and 4 pairs; the code checks
nothing. Ten (nine) inputs wrap the history of the DFPC twice. Six inputs wrap the
two slots of the registration DFPCs three times and leave room for a merge period
of three with failures before, at and after the merge. In `slam_threads` a loop may
close at every keyframe but the first (`LoopSpacing` is 10 in the code; a smaller
one gives more behaviours with fewer keyframes), so with three keyframes a second
loop finds the adjustment of the first one running, aborts it and launches its
own; a reset starts the ids again any number of times. Two adjustments are one
that was aborted and its successor. The theorems hold for every value of these
constants that the assumptions allow: any size, number of inputs, keyframes,
adjustments and aborts, and one to five pairs.

The options `registration` covers are those with which the chain keeps track of the
camera, `TracksCamera`. The others it leaves out, because its properties fail with
them:

| chain | options | why |
|---|---|---|
| registration | registrator | its result is applied after the first estimate, but is the second argument of `Sum` (RegistrationFromStereo.cpp:229): the run `registration_refined` |
| registration | ... without `matchToReconstructedCloud` | no cloud is stored, the registrator gets NULL (:227) |
| registration | ... without assembler | the stored cloud is in the system of the camera, the cloud it is registered with has been moved into that of the map (:224, :286, :292) |
| sparse | `matchToReconstructedCloud` | `featureCloud` still holds the features of the previous input (SparseRegistrationFromStereo.cpp:212) |
| dense | matching to frames, unless every run merges | the stored cloud is replaced by the last output (DenseRegistrationFromStereo.cpp:325): the run `dense_previous_frame` |
| dense | `matchToReconstructedCloud` without assembler | the stored scene is in the system of the camera, the resulting pose is taken for one in the map (:391, :286) |

**Fairness.** Weak fairness of `RemovalLoop`, and of the steps inside `run()`:
the code is single-threaded, the loop has no guard but its own condition and
every call made by `run()` returns, so a step that is enabled is taken. No
fairness is assumed for new inputs or for the adjuster to succeed. In
`OrbSlamThreads` every thread that can run does (weak fairness of each thread, and
of the caller's once it has called); nothing makes the caller call, or a keyframe
close a loop. Polling loops and mutexes ask for no more: the properties of
`slam_threads` hold although a thread may be refused a mutex for ever that is free
only now and then. `slam_stop_lost` assumes strong fairness of each thread, so that
its counterexample is not one of a starved thread.

**A timing assumption.** `LaunchedHaveStarted`: an adjustment thread has read
`mnFullBAIdx` (LoopClosing.cc:649) by the time the next loop aborts it, ten
keyframes after its launch. Without it an old adjustment could take its
successor's number; the read is not synchronised with anything.

## Disagreements found

The six violation runs are listed under `findings` with the quoted lines:
3d features that outlive their entry; the 3d recorder's skip of two maps; the order
in which `AdjustmentFromStereo` adds its first bundle; what the dense registration
is matched to with its defaults; the order in which the registration sums the two
estimates of a pose; and the stop request of a loop correction that a global
adjustment's `Release` clears.

In the last one the loop closer asks the mapper to stop, then asks whether a global
adjustment is running, and waits for `mMutexGBA`, which an adjustment holds that has
just finished and stops the mapper itself. That adjustment updates the map and
releases the mapper, which clears the request of the closer as well. `ResetReturns`
and `ShutdownReturns` state that this (`StopRequestLost`), the two mutexes of
`Release` and `SetFinish` taken in opposite orders (`LocksCrossed`), and the mapper
that reads the front of an emptied queue (`MapperLost`), are the only ways in which a
reset or a shutdown can hang: all three states are reachable.

Two more can be seen in the models but have no run. `EstimationFromStereo` places the
clouds of its first bundle by pose number `stereoIndex`, which is the transform of the
map with that number (`MappedCloud`): with the maps (3,2), (3,1), (2,1) of three pairs
the middle cloud is placed by (3,1), between the two others, and the oldest by (2,1),
its own but relative to the middle cloud. And an adjustment that ends its optimisation
between its launch (LoopClosing.cc:579) and the closer's next call, `Release` (:582),
finds the mapper stopped for the loop and updates the map while the release lets the
mapper work in it; this takes a closer that is kept waiting for as long as the
adjustment optimises.

`RemoveEntry` of the oldest entry (BundleHistory.cpp:260) drops two entries; no DFPC
does it, they remove entry 0 while older ones exist, and `LoopLosesNoEntry` is
checked under their calls.

## Proofs

`BundleHistory_proofs` proves, for every `Size > 0`, every set of categories
and every bound on inputs:

* `TypeCorrectness`: `Spec => []TypeOK`, under any public calls in which data is added
  only for the images added last;
* `PointersAreNeverDangling`: `Spec => []NoDanglingPointer`, under the same calls;
* `QueueInvariant`: `CallerSpec => []IInv`, and from it `EntriesHaveImages`,
  `DataKeepsItsImages` and `NoLeakButOf3dFeatures`. The 3d features are allocated
  and never deleted: the heap of the model covers the other lists.

None of the safety properties is inductive. `EveryEntryHasImages` needs that
`RemoveEntry` shifts full slots only and never runs on the oldest entry
(`RemovalInsideQueue`), and that an empty queue starts at slot 0
(`EmptyQueueIsFresh`: otherwise the first entry would make a whole range of
slots look used, which is what happens to a history whose last entry was
removed). `HeapMatchesLists` needs that two entries never hold the same payload
(`EntriesAreDistinct`), or deleting one would free the other's, and that slots
outside the queue are NULL (`NothingOutsideTheQueue`), or appending would leak what
was there. `IInv` is the conjunction. The argument is one lemma per action;
lemmas about modular successors (`(i + 1) % Size`) are proved first, because the
SMT solver does not reason about `%` with a symbolic divisor, and slots are
compared through them. The assumptions are the three `ASSUME`s of BundleHistory.

`NoDanglingPointer` needs less, and so holds for callers other than the DFPCs:
`PointerInv` says that, but for the slot a removal is about to overwrite, no two
slots share a pointer (a deletion can then leave none behind), that every pointer is
one of an input seen, and that data of the latest input is in the slot of its images,
so that `AddData` replaces it where it is.

`OrbSlamThreads_proofs` proves, for any set of adjustments, spacing of loops and
bounds, one inductive invariant per property:

* `TypeCorrectness`; its invariant adds that an id and an abort are only used up
  behind the guards that leave room for them;
* `StoppedMapperIsLeftAlone`: `mbNotStop` is set exactly between the two calls of
  `SetNotStop`, and `mbStopped` only while the mapper is in its safe area or
  finishing, which is after the caller has stopped tracking;
* `LoopCorrectionIsExclusive`: of the adjustments that no abort has replaced there
  is at most one, `mbRunningGBA` says so, only that one may write the map, and once
  the closer waits for the mapper there is none. It is here that the abort counter
  and the timing assumption are needed;
* `ResetWaitsForBothThreads`: while the tracker waits for the mapper nothing feeds
  the mapper, and once the mapper has been reset nothing feeds the closer, so each
  stays empty until the map is deleted;
* `KeyFramesKeepTheirOrder`: the ids in closer, its queue, mapper, its queue and the
  tracker's counter increase in that order; the counter can only start again because
  of the previous theorem. The theorem follows the mapper until it reads the front of
  an emptied queue.

`StereoRegistration_proofs` proves `RegistrationTypes` for any set of configurations,
also those with which a chain loses the camera, and the following for any number of
inputs and any set of configurations that all satisfy `TracksCamera` (hence have no
registrator, see above), which is the only hypothesis besides the two `ASSUME`s:
`MatchesWhatIsConfigured`, `PoseFollowsTheNewestEntry`, `TargetIsInTheNewestEntry` and
`MapHoldsEachPosedInput`.
They follow from one inductive invariant, `Tracking` (`CameraIsTracked`). Its centre
is the *posed entry*: the slot beside the newest while an input waits for its
registration or is being removed, the newest slot otherwise. The pose is that
entry's, and the entry holds what the next input is registered to. This is what
`AddImages` (which moves to the other slot), a success (after which the newest is the
posed one) and `RemoveEntry` (which moves back) preserve. The dense variant needs in
addition that nothing but the first input can come before the first merge
(`MergedCloud`), or the cloud stored in place of a merge could be none. The first
lemmas say what the operations of `BundleHistory` do with two slots, and the proofs
about `run()` use only those.

`BundleHistory_refinement` proves that the circular vectors implement the bounded
queue, for every size and every set of categories, under the calls the DFPCs make:

* `RefinesQueue`: `CallerSpec => ImplementsQueue`. The refinement mapping lists the
  entries from the oldest to the newest and skips the slot that is being removed.
  `PlaceFacts` says which slot is at which place without `%`, and each call is then
  one lemma: appending (with and without dropping the first entry), storing into the
  last, removing one, removing the oldest. An iteration of the removal loop moves
  both an entry and the skipped slot by one, so it maps to a stutter. `IInv` is used
  in every step.
* `LoopKeepsEntries`: `CallerSpec => LoopLosesNoEntry`.

The same module then states what a caller may rely on (`CallAddImages`,
`CallRemoveLatest`, `GettersReadIds`, ...): which inputs are held, latest first
(`Ids`), and that the getters return their data (`Filled`). The proofs about the two
bundle DFPCs cite these lemmas through `INSTANCE` and never look at a slot.

`Recorder2DClient_proofs` proves, for one to five poses and every number of pairs, for
a client that follows the protocol: `RecorderTypesHold` (no buffer outgrows the
m(2m-1) maps between the images of m pairs), `ProtocolSafe` (no `ASSERT` fails and
the storage of 56 maps is not overrun) and
`LatestMaps` (the maps returned are those of the kept pairs, in the order promised).
The inductive invariant, `RecorderInv`, has four parts. Between two sequences the
latest buffer holds the maps of the pairs that remain and, while a discard is
possible, the other one those of the pairs before the latest (`BetweenSequences`).
Inside a sequence, the maps added followed by those still to come are those of the new
pair (`InsideSequence`). The saturating counter of old poses is one less than the
number of pairs, or both are large enough not to matter; a discard after the
saturation leaves it one too small, but still large enough (`CountAgrees`). The heart
is the data: that the maps of m pairs, less those of the oldest, are exactly the
positions that the nested copy loops read (`ReadPositionsKeep`), and that putting
those of a new pair in front gives all maps of the new sequence (`AllMapsCons`). Both
are in `CorrespondenceSequences_proofs`. They need induction over the length of a
sequence; the library's induction theorems take an operator and cannot be used here,
so `Induct` states induction for a *set* of numbers and is derived from the
well-foundedness of `<`.

`AdjustmentFromStereo_proofs` proves, for one to five pairs and every number of inputs,
`TypesHold`, `NoAssertEverFails`, `RecorderAgrees`, `FilterReadsEnough`,
`DereferencedExists` and `MapHoldsBundle`. They follow from `RunInv` (`RunInvariant`),
which ties four parts together that `run()` changes at different moments:

* the history (`HistoryPart`): what is stored of the latest input, and everything of
  the others;
* the count (`BundlePart`): until the first bundle succeeds no input is ever removed,
  afterwards at least as many are held as a bundle needs, and one more while an
  input is processed, so that removing it again never empties the bundle;
* the map (`MapPart`): the latest inputs that can be in it are in it, once;
* the recorder (`RecorderPart`): it knows of `Frames`, which lags behind the history
  while data are stored, and still holds the pair that was just removed until the
  discard. `run()` is a client in the sense of `Recorder2DClient_proofs`: that
  module's lemmas about steps are cited with `Frames` for the client's pairs.

`EstimationFromStereo_proofs` proves the same about the 3d recorder and its DFPC, for
one to five pairs (`PairsAssumption`, see Bounds): `TypesHold`, `NoAssertEverFails`,
`DereferencedExists` and `MapHoldsBundle` without further hypothesis. Two theorems
have one, and need it: `RecorderAgrees` is stated for at most three pairs, since from
the fourth on the recorder skips the wrong maps (the run `estimation_order` is the
counterexample); `AttachedToLatest` is stated for at least two, since with one pair
there is no map and hence no transform. The invariant of the recorder is split
accordingly: for up to three pairs its buffers hold all maps of the pairs, for more it
only says that the first map is that of the latest two pairs (`BeginsLike`), which is
all that placing a cloud relative to the previous one needs. `Mapped` says in addition
that the cloud of the latest accepted input was added last.

Only model-checked: liveness (`RemovalTerminates`, `RunReturns`, `ResetReturns`,
`ShutdownReturns`), which rests on fairness and `ENABLED`, out of the provers' reach.
Every other property of a passing run is the statement of a theorem. What is wrong in
the code is shown by the violation runs and is not the subject of a theorem, but for
the hypotheses above.

## Not modelled

* Numeric results: which points match, poses, clouds. A DFN's outcome is a
  choice between success and failure.
* `MultipleCorrespondences2DRecorder::Filter`'s search for chains, beyond the
  number of maps it reads, and the matching of points in the 3d recorder.
* A second `setup()`: it replaces the history and the recorder but not the count,
  the flag and the map; after it a failing run would remove the only entry and
  not return. No document says that it may be called twice.
* The numbers of a pose. A sum of poses is taken for a composition of coordinate
  systems; `Sum` (Pose.cpp:168) and `AttachPointCloud` add the positions without
  rotating the second one. `PointCloudMap` moves a cloud by the inverse of its pose
  when it is added and again when it is read around a pose.
* A second `DenseRegistrationFromStereo` in the same process (its counter and flags
  are static), and the cloud that it saves to a file.
* Of liborbslam: the viewer and the localization mode, which `StereoSlamOrb` runs
  only when asked to; which thread owns a keyframe, its connections and the spanning
  tree (`KeyFrame`, `Map`); everything numeric. A global adjustment that goes on while
  a reset deletes the map, or after a shutdown has returned, is possible in the model
  and in the code, see `hazards`.
* The components with status `not_modelled` in PROJECT.json, with their reasons.

## Plan

1. *KeyFrame*: `SetBadFlag` of the mapper and the closer against `SetNotErase`, the
   spanning tree with a root and no cycle, and the locks of parent and child.
2. *ReconstructionFromMotion* with its search over older entries of the history, and
   `ReconstructionFromStereo`.
3. *Filter*: chains of points and the compaction of correspondences as
   recursive functions, compared with a reference definition on small maps.
4. *Proofs*: the recorder of `EstimationFromStereo` for four and five pairs, that is,
   which maps it does keep; the invariants of the components above, as they are
   modelled.
