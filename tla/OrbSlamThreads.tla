---------------------------- MODULE OrbSlamThreads ----------------------------
(***************************************************************************)
(* The threads of liborbslam as StereoSlamOrb runs them: the caller's      *)
(* thread, which tracks each stereo pair (System, Tracking), the local     *)
(* mapper (LocalMapping::Run), the loop closer (LoopClosing::Run) and the  *)
(* global bundle adjustments the closer launches.  What is modelled is how *)
(* they stop, reset, release and finish each other; images, poses and map  *)
(* points are left out, and what they decide is a choice.  There is no     *)
(* viewer, hence no localization mode and no reset but the tracker's own.  *)
(*                                                                         *)
(* A wait loop of the code is the guard of the step that leaves it.  A     *)
(* mutex held for one step is left out; one held for longer is the         *)
(* predicate that says who holds it, and the steps of the others that take *)
(* it are guarded by its negation.                                         *)
(***************************************************************************)
EXTENDS Integers, Sequences

CONSTANTS
    Gba,            \* global bundle adjustments alive at the same time
    LoopSpacing,    \* keyframes between two loops: 10 in the code
    MaxKeyFrames,   \* bound on the keyframes created between two resets
    MaxAborts       \* bound on the adjustments that are aborted

ASSUME ThreadsAssumption ==
    /\ LoopSpacing \in Nat \ {0}
    /\ MaxKeyFrames \in Nat
    /\ MaxAborts \in Nat

VARIABLES
    main,           \* where the caller's thread is
    mbReset,        \* the tracker has asked for a reset
    mState,         \* state of the tracker: is there a map?
    nNextId,        \* KeyFrame::nNextId
    mapper,         \* where the local mapper is
    newKeyFrames,   \* its queue, as the ids of the keyframes
    mapperKF,       \* its mpCurrentKeyFrame, 0 when it will not be read again
    stopRequested,  \* its mbStopRequested
    stopped,        \* its mbStopped
    notStop,        \* its mbNotStop
    mapperReset,    \* its mbResetRequested
    closer,         \* where the loop closer is
    loopQueue,      \* its queue, as the ids of the keyframes
    closerKF,       \* its mpCurrentKF, 0 when it will not be read again
    lastLoopKF,     \* its mLastLoopKFid
    closerReset,    \* its mbResetRequested
    runningGBA,     \* mbRunningGBA
    stopGBA,        \* mbStopGBA
    fullBAIdx,      \* mnFullBAIdx
    gba,            \* where each global bundle adjustment is
    gbaIdx          \* its idx, the mnFullBAIdx it has read

mainVars   == <<main, mbReset, mState, nNextId>>
stopVars   == <<stopRequested, stopped, notStop>>
mapperVars == <<mapper, mapperKF>>
closerVars == <<closer, closerKF, lastLoopKF>>
gbaVars    == <<runningGBA, stopGBA, fullBAIdx, gba, gbaIdx>>
resetVars  == <<mapperReset, closerReset>>
queueVars  == <<newKeyFrames, loopQueue>>
vars == <<mainVars, stopVars, mapperVars, closerVars, gbaVars, resetVars,
          queueVars>>

-----------------------------------------------------------------------------
(* The mutexes and the finish flags, read off the program counters.        *)

\* mMutexMapUpdate: a frame is tracked, a loop corrected or a map updated.
MapMutexFree ==
    /\ main \notin {"tracking", "create", "insert", "allowStop"}
    /\ closer # "correcting"
    /\ \A g \in Gba : gba[g] \notin {"update", "releasing"}

\* mMutexStop of the mapper: a Release() waits for mMutexFinish with it.
StopMutexFree ==
    /\ closer # "releasing"
    /\ \A g \in Gba : gba[g] # "releasing"

\* mMutexFinish of the mapper: SetFinish() waits for mMutexStop with it.
FinishMutexFree == mapper # "finishing"

\* mMutexGBA: held from the test of mnFullBAIdx to the end of the thread.
GbaMutexFree ==
    \A g \in Gba : gba[g] \notin {"await", "lockMap", "update", "releasing"}

\* mbFinishRequested and mbFinished of the mapper, then of the closer.
MapperFinishRequested == main \in {"finishCloser", "awaitEnd", "returned"}
MapperFinished == mapper \in {"finishing", "done"}
CloserFinishRequested == main \in {"awaitEnd", "returned"}
CloserFinished == closer = "done"

\* mbAcceptKeyFrames: the mapper is between two rounds of its loop.
AcceptKeyFrames == mapper \in {"checkFinish", "check"}

\* Both threads have entered their loops.
Init ==
    /\ main = "idle" /\ mbReset = FALSE /\ mState = "NOT_INITIALIZED"
    /\ nNextId = 0
    /\ mapper = "check" /\ mapperKF = 0
    /\ stopRequested = FALSE /\ stopped = FALSE /\ notStop = FALSE
    /\ closer = "check" /\ closerKF = 0 /\ lastLoopKF = 0
    /\ mapperReset = FALSE /\ closerReset = FALSE
    /\ newKeyFrames = <<>> /\ loopQueue = <<>>
    /\ runningGBA = FALSE /\ stopGBA = FALSE /\ fullBAIdx = 0
    /\ gba = [g \in Gba |-> "gone"] /\ gbaIdx = [g \in Gba |-> 0]

-----------------------------------------------------------------------------
(* The caller: TrackStereo, with Tracking::Reset and Tracking::Track.      *)

\* Fault: asks both threads at once instead of waiting for the mapper.
X_TrackStereo ==
    /\ main = "idle"
    /\ IF mbReset
          THEN /\ main' = "awaitCloser"
               /\ mapperReset' = TRUE /\ closerReset' = TRUE
          ELSE /\ main' = "track"
               /\ UNCHANGED resetVars
    /\ UNCHANGED <<mbReset, mState, nNextId>>
    /\ UNCHANGED <<stopVars, mapperVars, closerVars, gbaVars, queueVars>>

TrackStereo ==
    /\ main = "idle"
    /\ IF mbReset
          THEN /\ main' = "awaitMapper"
               /\ mapperReset' = TRUE
          ELSE /\ main' = "track"
               /\ UNCHANGED mapperReset
    /\ UNCHANGED <<mbReset, mState, nNextId, closerReset>>
    /\ UNCHANGED <<stopVars, mapperVars, closerVars, gbaVars, queueVars>>

MapperHasReset ==
    /\ main = "awaitMapper"
    /\ ~mapperReset
    /\ main' = "awaitCloser"
    /\ closerReset' = TRUE
    /\ UNCHANGED <<mbReset, mState, nNextId, mapperReset>>
    /\ UNCHANGED <<stopVars, mapperVars, closerVars, gbaVars, queueVars>>

CloserHasReset ==
    /\ main = "awaitCloser"
    /\ ~closerReset
    /\ main' = "clear"
    /\ UNCHANGED <<mbReset, mState, nNextId, resetVars>>
    /\ UNCHANGED <<stopVars, mapperVars, closerVars, gbaVars, queueVars>>

\* The rest of Tracking::Reset deletes the map and restarts the ids.
ClearMap ==
    /\ main = "clear"
    /\ main' = "track"
    /\ mbReset' = FALSE
    /\ mState' = "NOT_INITIALIZED"
    /\ nNextId' = 0
    /\ UNCHANGED <<resetVars, stopVars, mapperVars, closerVars, gbaVars>>
    /\ UNCHANGED queueVars

\* Tracking::Track takes the map mutex until it returns.
BeginTrack ==
    /\ main = "track"
    /\ MapMutexFree
    /\ main' = "tracking"
    /\ UNCHANGED <<mbReset, mState, nNextId, resetVars>>
    /\ UNCHANGED <<stopVars, mapperVars, closerVars, gbaVars, queueVars>>

\* StereoInitialization succeeds: the first keyframe does not ask the
\* mapper whether it is stopped.
StereoInitialization ==
    /\ main = "tracking"
    /\ mState = "NOT_INITIALIZED"
    /\ nNextId < MaxKeyFrames
    /\ main' = "idle"
    /\ mState' = "OK"
    /\ nNextId' = nNextId + 1
    /\ newKeyFrames' = Append(newKeyFrames, nNextId)
    /\ UNCHANGED <<mbReset, loopQueue, resetVars>>
    /\ UNCHANGED <<stopVars, mapperVars, closerVars, gbaVars>>

\* No keyframe comes of this frame.  A frame lost while the map has few
\* keyframes asks for a reset, which the next frame carries out.
TrackWithoutKeyFrame ==
    /\ main = "tracking"
    /\ main' = "idle"
    /\ \/ UNCHANGED mbReset
       \/ mState = "OK" /\ mbReset' = TRUE
    /\ UNCHANGED <<mState, nNextId, resetVars, stopVars, mapperVars>>
    /\ UNCHANGED <<closerVars, gbaVars, queueVars>>

NeedNewKeyFrame ==
    /\ main = "tracking"
    /\ mState = "OK"
    /\ StopMutexFree
    /\ ~stopped /\ ~stopRequested
    /\ AcceptKeyFrames \/ Len(newKeyFrames) < 3
    /\ nNextId < MaxKeyFrames
    /\ main' = "create"
    /\ UNCHANGED <<mbReset, mState, nNextId, resetVars, stopVars>>
    /\ UNCHANGED <<mapperVars, closerVars, gbaVars, queueVars>>

\* CreateNewKeyFrame: SetNotStop(true), InsertKeyFrame, SetNotStop(false).
ForbidStop ==
    /\ main = "create"
    /\ StopMutexFree
    /\ IF stopped
          THEN main' = "idle" /\ UNCHANGED notStop
          ELSE main' = "insert" /\ notStop' = TRUE
    /\ UNCHANGED <<mbReset, mState, nNextId, resetVars, stopRequested>>
    /\ UNCHANGED <<stopped, mapperVars, closerVars, gbaVars, queueVars>>

\* Fault: takes the id after the increment.
X_InsertKeyFrame ==
    /\ main = "insert"
    /\ main' = "allowStop"
    /\ nNextId' = nNextId + 1
    /\ newKeyFrames' = Append(newKeyFrames, nNextId + 1)
    /\ UNCHANGED <<mbReset, mState, loopQueue, resetVars, stopVars>>
    /\ UNCHANGED <<mapperVars, closerVars, gbaVars>>

InsertKeyFrame ==
    /\ main = "insert"
    /\ main' = "allowStop"
    /\ nNextId' = nNextId + 1
    /\ newKeyFrames' = Append(newKeyFrames, nNextId)
    /\ UNCHANGED <<mbReset, mState, loopQueue, resetVars, stopVars>>
    /\ UNCHANGED <<mapperVars, closerVars, gbaVars>>

AllowStop ==
    /\ main = "allowStop"
    /\ StopMutexFree
    /\ main' = "idle"
    /\ notStop' = FALSE
    /\ UNCHANGED <<mbReset, mState, nNextId, resetVars, stopRequested>>
    /\ UNCHANGED <<stopped, mapperVars, closerVars, gbaVars, queueVars>>

\* System::Shutdown, from the destructor of StereoSlamOrb.
Shutdown ==
    /\ main = "idle"
    /\ FinishMutexFree
    /\ main' = "finishCloser"
    /\ UNCHANGED <<mbReset, mState, nNextId, resetVars, stopVars>>
    /\ UNCHANGED <<mapperVars, closerVars, gbaVars, queueVars>>

RequestCloserFinish ==
    /\ main = "finishCloser"
    /\ main' = "awaitEnd"
    /\ UNCHANGED <<mbReset, mState, nNextId, resetVars, stopVars>>
    /\ UNCHANGED <<mapperVars, closerVars, gbaVars, queueVars>>

EndShutdown ==
    /\ main = "awaitEnd"
    /\ MapperFinished /\ FinishMutexFree
    /\ CloserFinished
    /\ ~runningGBA /\ GbaMutexFree
    /\ main' = "returned"
    /\ UNCHANGED <<mbReset, mState, nNextId, resetVars, stopVars>>
    /\ UNCHANGED <<mapperVars, closerVars, gbaVars, queueVars>>

\* Once the caller has called, its thread runs on to the return.
CallerRuns ==
    \/ MapperHasReset \/ CloserHasReset \/ ClearMap
    \/ BeginTrack \/ StereoInitialization \/ TrackWithoutKeyFrame
    \/ NeedNewKeyFrame \/ ForbidStop \/ InsertKeyFrame \/ AllowStop
    \/ RequestCloserFinish \/ EndShutdown

Caller == TrackStereo \/ Shutdown \/ CallerRuns

-----------------------------------------------------------------------------
(* The local mapper: LocalMapping::Run.                                    *)

CheckNewKeyFrames ==
    /\ mapper = "check"
    /\ mapper' = IF newKeyFrames # <<>> THEN "take" ELSE "tryStop"
    /\ UNCHANGED <<mainVars, mapperKF, stopVars, resetVars, queueVars>>
    /\ UNCHANGED <<closerVars, gbaVars>>

\* ProcessNewKeyFrame takes the oldest keyframe.  It has let go of the mutex
\* since the check, and Release() empties the queue without it: the front of
\* an empty queue is undefined, and the mapper is not followed any further.
TakeKeyFrame ==
    /\ mapper = "take"
    /\ IF newKeyFrames # <<>>
          THEN /\ mapper' = "process"
               /\ mapperKF' = Head(newKeyFrames)
               /\ newKeyFrames' = Tail(newKeyFrames)
          ELSE /\ mapper' = "undefined"
               /\ UNCHANGED <<mapperKF, newKeyFrames>>
    /\ UNCHANGED <<mainVars, stopVars, resetVars, loopQueue>>
    /\ UNCHANGED <<closerVars, gbaVars>>

\* The keyframe is in the map.  Bundle adjustment only runs when no other
\* keyframe waits and no stop is asked for, and with more than two keyframes.
ProcessKeyFrame ==
    /\ mapper = "process"
    /\ StopMutexFree
    /\ \/ mapper' = "forward"
       \/ newKeyFrames = <<>> /\ ~stopRequested /\ mapper' = "optimize"
    /\ UNCHANGED <<mainVars, mapperKF, stopVars, resetVars, queueVars>>
    /\ UNCHANGED <<closerVars, gbaVars>>

\* LocalBundleAdjustment writes its result under the map mutex.
OptimizeLocally ==
    /\ mapper = "optimize"
    /\ MapMutexFree
    /\ mapper' = "forward"
    /\ UNCHANGED <<mainVars, mapperKF, stopVars, resetVars, queueVars>>
    /\ UNCHANGED <<closerVars, gbaVars>>

\* LoopClosing::InsertKeyFrame leaves out the first keyframe.
ForwardKeyFrame ==
    /\ mapper = "forward"
    /\ mapper' = "reset"
    /\ loopQueue' = IF mapperKF # 0 THEN Append(loopQueue, mapperKF)
                                    ELSE loopQueue
    /\ mapperKF' = 0
    /\ UNCHANGED <<mainVars, stopVars, resetVars, newKeyFrames>>
    /\ UNCHANGED <<closerVars, gbaVars>>

\* Fault: ignores SetNotStop.
X_Stop ==
    /\ mapper = "tryStop"
    /\ StopMutexFree
    /\ IF stopRequested
          THEN mapper' = "stopped" /\ stopped' = TRUE
          ELSE mapper' = "reset" /\ UNCHANGED stopped
    /\ UNCHANGED <<mainVars, mapperKF, stopRequested, notStop, resetVars>>
    /\ UNCHANGED <<queueVars, closerVars, gbaVars>>

Stop ==
    /\ mapper = "tryStop"
    /\ StopMutexFree
    /\ IF stopRequested /\ ~notStop
          THEN mapper' = "stopped" /\ stopped' = TRUE
          ELSE mapper' = "reset" /\ UNCHANGED stopped
    /\ UNCHANGED <<mainVars, mapperKF, stopRequested, notStop, resetVars>>
    /\ UNCHANGED <<queueVars, closerVars, gbaVars>>

\* The safe area: until a Release(), or until the thread has to finish.
LeaveSafeArea ==
    /\ mapper = "stopped"
    /\ \/ MapperFinishRequested /\ mapper' = "finish"
       \/ /\ ~MapperFinishRequested
          /\ StopMutexFree /\ ~stopped
          /\ mapper' = "reset"
    /\ UNCHANGED <<mainVars, mapperKF, stopVars, resetVars, queueVars>>
    /\ UNCHANGED <<closerVars, gbaVars>>

MapperResetIfRequested ==
    /\ mapper = "reset"
    /\ mapper' = "checkFinish"
    /\ mapperReset' = FALSE
    /\ newKeyFrames' = IF mapperReset THEN <<>> ELSE newKeyFrames
    /\ UNCHANGED <<mainVars, mapperKF, stopVars, closerReset, loopQueue>>
    /\ UNCHANGED <<closerVars, gbaVars>>

MapperCheckFinish ==
    /\ mapper = "checkFinish"
    /\ mapper' = IF MapperFinishRequested THEN "finish" ELSE "check"
    /\ UNCHANGED <<mainVars, mapperKF, stopVars, resetVars, queueVars>>
    /\ UNCHANGED <<closerVars, gbaVars>>

\* SetFinish takes mMutexFinish, then mMutexStop.
MapperBeginFinish ==
    /\ mapper = "finish"
    /\ mapper' = "finishing"
    /\ UNCHANGED <<mainVars, mapperKF, stopVars, resetVars, queueVars>>
    /\ UNCHANGED <<closerVars, gbaVars>>

\* Fault: leaves mbStopped as it is.
X_MapperEndFinish ==
    /\ mapper = "finishing"
    /\ StopMutexFree
    /\ mapper' = "done"
    /\ UNCHANGED stopped
    /\ UNCHANGED <<mainVars, mapperKF, stopRequested, notStop, resetVars>>
    /\ UNCHANGED <<queueVars, closerVars, gbaVars>>

MapperEndFinish ==
    /\ mapper = "finishing"
    /\ StopMutexFree
    /\ mapper' = "done"
    /\ stopped' = TRUE
    /\ UNCHANGED <<mainVars, mapperKF, stopRequested, notStop, resetVars>>
    /\ UNCHANGED <<queueVars, closerVars, gbaVars>>

Mapper ==
    \/ CheckNewKeyFrames \/ TakeKeyFrame \/ ProcessKeyFrame
    \/ OptimizeLocally \/ ForwardKeyFrame \/ Stop \/ LeaveSafeArea
    \/ MapperResetIfRequested \/ MapperCheckFinish
    \/ MapperBeginFinish \/ MapperEndFinish

\* Fault: leaves the mapper stopped.
X_Release ==
    /\ FinishMutexFree
    /\ IF MapperFinished
          THEN UNCHANGED <<stopped, stopRequested, newKeyFrames>>
          ELSE /\ UNCHANGED stopped
               /\ stopRequested' = FALSE
               /\ newKeyFrames' = <<>>
    /\ UNCHANGED notStop

\* The end of LocalMapping::Release, with both mutexes held.
Release ==
    /\ FinishMutexFree
    /\ IF MapperFinished
          THEN UNCHANGED <<stopped, stopRequested, newKeyFrames>>
          ELSE /\ stopped' = FALSE
               /\ stopRequested' = FALSE
               /\ newKeyFrames' = <<>>
    /\ UNCHANGED notStop

-----------------------------------------------------------------------------
(* The loop closer: LoopClosing::Run, DetectLoop and CorrectLoop.          *)

TakeLoopKeyFrame ==
    /\ closer = "check"
    /\ IF loopQueue # <<>>
          THEN /\ closer' = "detect"
               /\ closerKF' = Head(loopQueue)
               /\ loopQueue' = Tail(loopQueue)
          ELSE /\ closer' = "reset"
               /\ UNCHANGED <<closerKF, loopQueue>>
    /\ UNCHANGED <<mainVars, stopVars, mapperVars, resetVars, newKeyFrames>>
    /\ UNCHANGED <<lastLoopKF, gbaVars>>

NoLoop ==
    /\ closer = "detect"
    /\ closer' = "reset"
    /\ closerKF' = 0
    /\ UNCHANGED <<mainVars, stopVars, mapperVars, resetVars, queueVars>>
    /\ UNCHANGED <<lastLoopKF, gbaVars>>

\* A loop is found, at some distance of the last one; the bounds leave room
\* for one more abort and one more adjustment.  CorrectLoop asks for a stop.
RequestStop ==
    /\ closer = "detect"
    /\ closerKF >= lastLoopKF + LoopSpacing
    /\ fullBAIdx < MaxAborts
    /\ \E g \in Gba : gba[g] = "gone"
    /\ StopMutexFree
    /\ closer' = "checkGBA"
    /\ stopRequested' = TRUE
    /\ UNCHANGED <<mainVars, stopped, notStop, mapperVars, resetVars>>
    /\ UNCHANGED <<queueVars, closerKF, lastLoopKF, gbaVars>>

CheckRunningGBA ==
    /\ closer = "checkGBA"
    /\ GbaMutexFree
    /\ closer' = IF runningGBA THEN "abortGBA" ELSE "awaitStop"
    /\ UNCHANGED <<mainVars, stopVars, mapperVars, resetVars, queueVars>>
    /\ UNCHANGED <<closerKF, lastLoopKF, gbaVars>>

\* The timing assumption: by the next loop, LoopSpacing keyframes later, a
\* thread that was launched has read mnFullBAIdx.
LaunchedHaveStarted == \A g \in Gba : gba[g] # "launched"

\* Fault: forgets to count the abort.
X_AbortGBA ==
    /\ closer = "abortGBA"
    /\ GbaMutexFree
    /\ LaunchedHaveStarted
    /\ closer' = "awaitStop"
    /\ stopGBA' = TRUE
    /\ UNCHANGED fullBAIdx
    /\ UNCHANGED <<mainVars, stopVars, mapperVars, resetVars, queueVars>>
    /\ UNCHANGED <<closerKF, lastLoopKF, runningGBA, gba, gbaIdx>>

AbortGBA ==
    /\ closer = "abortGBA"
    /\ GbaMutexFree
    /\ LaunchedHaveStarted
    /\ closer' = "awaitStop"
    /\ stopGBA' = TRUE
    /\ fullBAIdx' = fullBAIdx + 1
    /\ UNCHANGED <<mainVars, stopVars, mapperVars, resetVars, queueVars>>
    /\ UNCHANGED <<closerKF, lastLoopKF, runningGBA, gba, gbaIdx>>

AwaitStop ==
    /\ closer = "awaitStop"
    /\ StopMutexFree
    /\ stopped
    /\ closer' = "correct"
    /\ UNCHANGED <<mainVars, stopVars, mapperVars, resetVars, queueVars>>
    /\ UNCHANGED <<closerKF, lastLoopKF, gbaVars>>

\* The correction of the poses and points holds the map mutex throughout.
BeginCorrection ==
    /\ closer = "correct"
    /\ MapMutexFree
    /\ closer' = "correcting"
    /\ UNCHANGED <<mainVars, stopVars, mapperVars, resetVars, queueVars>>
    /\ UNCHANGED <<closerKF, lastLoopKF, gbaVars>>

EndCorrection ==
    /\ closer = "correcting"
    /\ closer' = "fuse"
    /\ UNCHANGED <<mainVars, stopVars, mapperVars, resetVars, queueVars>>
    /\ UNCHANGED <<closerKF, lastLoopKF, gbaVars>>

\* SearchAndFuse and OptimizeEssentialGraph take it again for their writes.
FuseAndOptimize ==
    /\ closer = "fuse"
    /\ MapMutexFree
    /\ closer' = "launch"
    /\ UNCHANGED <<mainVars, stopVars, mapperVars, resetVars, queueVars>>
    /\ UNCHANGED <<closerKF, lastLoopKF, gbaVars>>

LaunchGBA(g) ==
    /\ closer = "launch"
    /\ gba[g] = "gone"
    /\ closer' = "release"
    /\ runningGBA' = TRUE
    /\ stopGBA' = FALSE
    /\ gba' = [gba EXCEPT ![g] = "launched"]
    /\ UNCHANGED <<mainVars, stopVars, mapperVars, resetVars, queueVars>>
    /\ UNCHANGED <<closerKF, lastLoopKF, fullBAIdx, gbaIdx>>

CloserBeginRelease ==
    /\ closer = "release"
    /\ StopMutexFree
    /\ closer' = "releasing"
    /\ UNCHANGED <<mainVars, stopVars, mapperVars, resetVars, queueVars>>
    /\ UNCHANGED <<closerKF, lastLoopKF, gbaVars>>

CloserEndRelease ==
    /\ closer = "releasing"
    /\ Release
    /\ closer' = "reset"
    /\ lastLoopKF' = closerKF
    /\ closerKF' = 0
    /\ UNCHANGED <<mainVars, mapperVars, resetVars, loopQueue>>
    /\ UNCHANGED gbaVars

\* Fault: keeps the queue.
X_CloserResetIfRequested ==
    /\ closer = "reset"
    /\ closer' = "checkFinish"
    /\ closerReset' = FALSE
    /\ IF closerReset
          THEN lastLoopKF' = 0 /\ UNCHANGED loopQueue
          ELSE UNCHANGED <<loopQueue, lastLoopKF>>
    /\ UNCHANGED <<mainVars, stopVars, mapperVars, mapperReset>>
    /\ UNCHANGED <<newKeyFrames, closerKF, gbaVars>>

CloserResetIfRequested ==
    /\ closer = "reset"
    /\ closer' = "checkFinish"
    /\ closerReset' = FALSE
    /\ IF closerReset
          THEN loopQueue' = <<>> /\ lastLoopKF' = 0
          ELSE UNCHANGED <<loopQueue, lastLoopKF>>
    /\ UNCHANGED <<mainVars, stopVars, mapperVars, mapperReset>>
    /\ UNCHANGED <<newKeyFrames, closerKF, gbaVars>>

\* CheckFinish and SetFinish: the closer's own mutexes are never nested.
CloserCheckFinish ==
    /\ closer = "checkFinish"
    /\ closer' = IF CloserFinishRequested THEN "done" ELSE "check"
    /\ UNCHANGED <<mainVars, stopVars, mapperVars, resetVars, queueVars>>
    /\ UNCHANGED <<closerKF, lastLoopKF, gbaVars>>

Closer ==
    \/ TakeLoopKeyFrame \/ NoLoop \/ RequestStop \/ CheckRunningGBA
    \/ AbortGBA \/ AwaitStop \/ BeginCorrection \/ EndCorrection
    \/ FuseAndOptimize \/ (\E g \in Gba : LaunchGBA(g))
    \/ CloserBeginRelease \/ CloserEndRelease
    \/ CloserResetIfRequested \/ CloserCheckFinish

-----------------------------------------------------------------------------
(* A global bundle adjustment: RunGlobalBundleAdjustment.                  *)

StartGBA(g) ==
    /\ gba[g] = "launched"
    /\ gba' = [gba EXCEPT ![g] = "optimize"]
    /\ gbaIdx' = [gbaIdx EXCEPT ![g] = fullBAIdx]
    /\ UNCHANGED <<mainVars, stopVars, mapperVars, resetVars, queueVars>>
    /\ UNCHANGED <<closerVars, runningGBA, stopGBA, fullBAIdx>>

\* A later loop has replaced this adjustment, or has aborted it.
LeaveAbortedGBA(g) ==
    /\ gba[g] = "optimize"
    /\ GbaMutexFree
    /\ gbaIdx[g] # fullBAIdx \/ stopGBA
    /\ gba' = [gba EXCEPT ![g] = "gone"]
    /\ gbaIdx' = [gbaIdx EXCEPT ![g] = 0]
    /\ runningGBA' = (runningGBA /\ gbaIdx[g] # fullBAIdx)
    /\ UNCHANGED <<mainVars, stopVars, mapperVars, resetVars, queueVars>>
    /\ UNCHANGED <<closerVars, stopGBA, fullBAIdx>>

\* Update the map: ask the mapper to stop, with mMutexGBA held.
RequestStopForGBA(g) ==
    /\ gba[g] = "optimize"
    /\ GbaMutexFree
    /\ gbaIdx[g] = fullBAIdx
    /\ ~stopGBA
    /\ StopMutexFree
    /\ gba' = [gba EXCEPT ![g] = "await"]
    /\ stopRequested' = TRUE
    /\ UNCHANGED <<mainVars, stopped, notStop, mapperVars, resetVars>>
    /\ UNCHANGED <<queueVars, closerVars, runningGBA, stopGBA, fullBAIdx>>
    /\ UNCHANGED gbaIdx

AwaitStopForGBA(g) ==
    /\ gba[g] = "await"
    /\ StopMutexFree
    /\ stopped \/ (MapperFinished /\ FinishMutexFree)
    /\ gba' = [gba EXCEPT ![g] = "lockMap"]
    /\ UNCHANGED <<mainVars, stopVars, mapperVars, resetVars, queueVars>>
    /\ UNCHANGED <<closerVars, runningGBA, stopGBA, fullBAIdx, gbaIdx>>

UpdateMap(g) ==
    /\ gba[g] = "lockMap"
    /\ MapMutexFree
    /\ gba' = [gba EXCEPT ![g] = "update"]
    /\ UNCHANGED <<mainVars, stopVars, mapperVars, resetVars, queueVars>>
    /\ UNCHANGED <<closerVars, runningGBA, stopGBA, fullBAIdx, gbaIdx>>

BeginReleaseForGBA(g) ==
    /\ gba[g] = "update"
    /\ StopMutexFree
    /\ gba' = [gba EXCEPT ![g] = "releasing"]
    /\ UNCHANGED <<mainVars, stopVars, mapperVars, resetVars, queueVars>>
    /\ UNCHANGED <<closerVars, runningGBA, stopGBA, fullBAIdx, gbaIdx>>

EndReleaseForGBA(g) ==
    /\ gba[g] = "releasing"
    /\ Release
    /\ gba' = [gba EXCEPT ![g] = "gone"]
    /\ gbaIdx' = [gbaIdx EXCEPT ![g] = 0]
    /\ runningGBA' = FALSE
    /\ UNCHANGED <<mainVars, mapperVars, resetVars, loopQueue, closerVars>>
    /\ UNCHANGED <<stopGBA, fullBAIdx>>

GbaThread(g) ==
    \/ StartGBA(g) \/ LeaveAbortedGBA(g) \/ RequestStopForGBA(g)
    \/ AwaitStopForGBA(g) \/ UpdateMap(g)
    \/ BeginReleaseForGBA(g) \/ EndReleaseForGBA(g)

-----------------------------------------------------------------------------
(* After Shutdown the caller calls no more.                                *)

Next == Caller \/ Mapper \/ Closer \/ (\E g \in Gba : GbaThread(g))

\* Every thread runs on; nothing makes the caller call.
Fairness ==
    /\ WF_vars(CallerRuns)
    /\ WF_vars(Mapper)
    /\ WF_vars(Closer)
    /\ \A g \in Gba : WF_vars(GbaThread(g))

\* And a thread gets a mutex that is free again and again, which the mutexes
\* of the platform give in practice.
StrongFairness ==
    /\ WF_vars(CallerRuns)
    /\ SF_vars(Mapper)
    /\ SF_vars(Closer)
    /\ \A g \in Gba : SF_vars(GbaThread(g))

Spec == Init /\ [][Next]_vars
FairSpec == Spec /\ Fairness
StronglyFairSpec == Spec /\ StrongFairness

-----------------------------------------------------------------------------
(* Properties.                                                             *)

CallerPlaces == {"idle", "awaitMapper", "awaitCloser", "clear", "track",
                 "tracking", "create", "insert", "allowStop",
                 "finishCloser", "awaitEnd", "returned"}
MapperPlaces == {"check", "take", "process", "optimize", "forward",
                 "tryStop", "stopped", "reset", "checkFinish", "finish",
                 "finishing", "done", "undefined"}
CloserPlaces == {"check", "detect", "checkGBA", "abortGBA", "awaitStop",
                 "correct", "correcting", "fuse", "launch", "release",
                 "releasing", "reset", "checkFinish", "done"}
GbaPlaces == {"gone", "launched", "optimize", "await", "lockMap", "update",
              "releasing"}

KeyFrameIds == {id \in Nat : id < MaxKeyFrames}

\* Every variable has its type; the ids of queued keyframes are ids the
\* tracker has handed out, and the abort counter stays within its bound.
TypeOK ==
    /\ main \in CallerPlaces
    /\ mbReset \in BOOLEAN
    /\ mState \in {"NOT_INITIALIZED", "OK"}
    /\ nNextId \in 0..MaxKeyFrames
    /\ mapper \in MapperPlaces
    /\ newKeyFrames \in Seq(KeyFrameIds)
    /\ mapperKF \in KeyFrameIds \cup {0}
    /\ stopRequested \in BOOLEAN
    /\ stopped \in BOOLEAN
    /\ notStop \in BOOLEAN
    /\ mapperReset \in BOOLEAN
    /\ closer \in CloserPlaces
    /\ loopQueue \in Seq(KeyFrameIds)
    /\ closerKF \in KeyFrameIds \cup {0}
    /\ lastLoopKF \in KeyFrameIds \cup {0}
    /\ closerReset \in BOOLEAN
    /\ runningGBA \in BOOLEAN
    /\ stopGBA \in BOOLEAN
    /\ fullBAIdx \in 0..MaxAborts
    /\ gba \in [Gba -> GbaPlaces]
    /\ gbaIdx \in [Gba -> Nat]

MapperWorks == mapper \in {"process", "optimize", "forward"}
LoopFound == closer \in {"checkGBA", "abortGBA", "awaitStop", "correct",
                         "correcting", "fuse", "launch", "release",
                         "releasing"}
CloserWorks == closer = "detect" \/ LoopFound

\* The keyframe each of the two threads has in hand, if any.
InMapper == IF MapperWorks THEN <<mapperKF>> ELSE <<>>
InCloser == IF CloserWorks THEN <<closerKF>> ELSE <<>>

Precedes(s, t) == \A i \in DOMAIN s : \A j \in DOMAIN t : s[i] < t[j]
Ordered(s) == \A i, j \in DOMAIN s : i < j => s[i] < s[j]

\* Keyframes go through mapper and closer in the order of their creation,
\* none overtakes or repeats another, and none has an id not yet handed out:
\* no keyframe of an earlier map survives a reset (Tracking.cc:1560-1575),
\* whose ids start again from 0.
KeyFramesArriveInOrder ==
    /\ Ordered(loopQueue) /\ Ordered(newKeyFrames)
    /\ Precedes(InCloser, loopQueue) /\ Precedes(InCloser, InMapper)
    /\ Precedes(InCloser, newKeyFrames) /\ Precedes(loopQueue, InMapper)
    /\ Precedes(loopQueue, newKeyFrames) /\ Precedes(InMapper, newKeyFrames)
    /\ Precedes(InCloser, <<nNextId>>) /\ Precedes(loopQueue, <<nNextId>>)
    /\ Precedes(InMapper, <<nNextId>>) /\ Precedes(newKeyFrames, <<nNextId>>)

\* When Tracking::Reset deletes the keyframes of the map, neither thread
\* holds or queues one of them: the mapper is reset before the closer it
\* feeds, and each is awaited.  (A global bundle adjustment may still run.)
ClearedMapIsUnused ==
    main = "clear" =>
        /\ newKeyFrames = <<>> /\ ~MapperWorks
        /\ loopQueue = <<>> /\ ~CloserWorks

\* A keyframe created by CreateNewKeyFrame is queued while the mapper is not
\* stopped and cannot stop: SetNotStop and Stop exclude each other.
NoKeyFrameForAStoppedMapper == main = "insert" => ~stopped

\* While the closer corrects a loop, the mapper stays out of the map and no
\* global bundle adjustment asks for it, waits for it or writes it.
CorrectsLoop == closer \in {"correct", "correcting", "fuse", "launch"}
WritesMap(g) == gba[g] \in {"await", "lockMap", "update", "releasing"}
CorrectionIsExclusive ==
    CorrectsLoop =>
        /\ mapper \in {"stopped", "finish", "finishing", "done"}
        /\ \A g \in Gba : ~WritesMap(g)

\* The three ways in which the threads can get stuck.  The Release() of a
\* global bundle adjustment has cleared the stop request of a loop that was
\* found meanwhile; a Release() has mMutexStop and waits for mMutexFinish
\* while SetFinish() has mMutexFinish and waits for mMutexStop; or the mapper
\* has taken a keyframe off a queue that was emptied after its check.
StopRequestLost == closer = "awaitStop" /\ ~stopRequested /\ ~stopped
LocksCrossed == mapper = "finishing" /\ ~StopMutexFree
MapperLost == mapper = "undefined"

\* A reset that has begun ends, and the frame is tracked, unless a stop
\* request or the mapper is lost: no other order of the steps can hang the
\* tracker.
ResetReturns ==
    (main = "awaitMapper") ~> (main = "track" \/ StopRequestLost \/ MapperLost)

\* Shutdown returns, whatever the threads were doing, unless the two locks
\* cross or the mapper is lost: also a lost stop request ends with the
\* mapper's SetFinish.
ShutdownReturns ==
    (main = "awaitEnd") ~> (main = "returned" \/ LocksCrossed \/ MapperLost)

\* What CorrectLoop relies on (LoopClosing.cc:406, :425): the mapper it has
\* asked to stop does stop, and the correction goes on.
StopRequestIsServed ==
    (closer = "awaitStop") ~> (closer # "awaitStop" \/ MapperLost)
===============================================================================
