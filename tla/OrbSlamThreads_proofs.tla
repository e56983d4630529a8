------------------------ MODULE OrbSlamThreads_proofs ------------------------
(***************************************************************************)
(* The safety properties of the SLAM threads, for every number of global   *)
(* bundle adjustments and every bound: the types, the order of the         *)
(* keyframes, the reset, SetNotStop against Stop, and the exclusion of     *)
(* mapper and adjustments by a loop correction.                            *)
(***************************************************************************)
EXTENDS OrbSlamThreads, TLAPS

\* Taking the first keyframe of a queue.
LEMMA TakeFirst ==
    ASSUME NEW S, NEW q \in Seq(S), q # <<>>
    PROVE  /\ Head(q) \in S /\ Tail(q) \in Seq(S) /\ Head(q) = q[1]
           /\ 1 \in DOMAIN q
           /\ \A i \in DOMAIN Tail(q) : /\ i \in Nat /\ i + 1 \in DOMAIN q
                                        /\ Tail(q)[i] = q[i + 1]
                                        /\ 1 < i + 1
  OBVIOUS

\* Queueing a keyframe behind the others.
LEMMA PutLast ==
    ASSUME NEW S, NEW q \in Seq(S), NEW x \in S
    PROVE  /\ Append(q, x) \in Seq(S)
           /\ \A i \in DOMAIN Append(q, x) :
                \/ i \in DOMAIN q /\ Append(q, x)[i] = q[i]
                \/ i = Len(q) + 1 /\ Append(q, x)[i] = x
           /\ \A i \in DOMAIN q : i \in Nat /\ i < Len(q) + 1
           /\ Len(q) \in Nat
  OBVIOUS

-----------------------------------------------------------------------------
(* Type correctness.  The bounds are kept because the steps that use up an *)
(* id or an abort come after the guard that leaves room for it.            *)

Flags ==
    /\ mbReset \in BOOLEAN /\ mapperReset \in BOOLEAN /\ closerReset \in BOOLEAN
    /\ stopRequested \in BOOLEAN /\ stopped \in BOOLEAN /\ notStop \in BOOLEAN
    /\ runningGBA \in BOOLEAN /\ stopGBA \in BOOLEAN

Data ==
    /\ main \in CallerPlaces /\ mapper \in MapperPlaces
    /\ closer \in CloserPlaces
    /\ mState \in {"NOT_INITIALIZED", "OK"}
    /\ nNextId \in 0..MaxKeyFrames /\ fullBAIdx \in 0..MaxAborts
    /\ newKeyFrames \in Seq(KeyFrameIds) /\ loopQueue \in Seq(KeyFrameIds)
    /\ mapperKF \in KeyFrameIds \cup {0} /\ closerKF \in KeyFrameIds \cup {0}
    /\ lastLoopKF \in KeyFrameIds \cup {0}
    /\ gba \in [Gba -> GbaPlaces] /\ gbaIdx \in [Gba -> Nat]
    /\ main \in {"create", "insert"} => nNextId < MaxKeyFrames
    /\ closer \in {"checkGBA", "abortGBA"} => fullBAIdx < MaxAborts

LEMMA FlagsInit == Init => Flags
  BY DEF Init, Flags

LEMMA DataInit == Init => Data
  <1> SUFFICES ASSUME Init PROVE Data
    OBVIOUS
  <1>1. gba \in [Gba -> GbaPlaces] /\ gbaIdx \in [Gba -> Nat]
    BY DEF Init, GbaPlaces
  <1>2. newKeyFrames \in Seq(KeyFrameIds) /\ loopQueue \in Seq(KeyFrameIds)
    BY DEF Init
  <1> QED
    BY <1>1, <1>2, ThreadsAssumption
       DEF Init, Data, CallerPlaces, MapperPlaces, CloserPlaces

LEMMA FlagsStep == Flags /\ [Next]_vars => Flags'
  <1> SUFFICES ASSUME Flags, [Next]_vars PROVE Flags'
    OBVIOUS
  <1> USE DEF Flags, Release, vars, mainVars, stopVars, mapperVars, closerVars,
        gbaVars, resetVars, queueVars
  <1>1. ASSUME TrackStereo PROVE Flags'
    BY <1>1 DEF TrackStereo
  <1>2. ASSUME MapperHasReset PROVE Flags'
    BY <1>2 DEF MapperHasReset
  <1>3. ASSUME CloserHasReset PROVE Flags'
    BY <1>3 DEF CloserHasReset
  <1>4. ASSUME ClearMap PROVE Flags'
    BY <1>4 DEF ClearMap
  <1>5. ASSUME BeginTrack PROVE Flags'
    BY <1>5 DEF BeginTrack
  <1>6. ASSUME StereoInitialization PROVE Flags'
    BY <1>6 DEF StereoInitialization
  <1>7. ASSUME TrackWithoutKeyFrame PROVE Flags'
    BY <1>7 DEF TrackWithoutKeyFrame
  <1>8. ASSUME NeedNewKeyFrame PROVE Flags'
    BY <1>8 DEF NeedNewKeyFrame
  <1>9. ASSUME ForbidStop PROVE Flags'
    BY <1>9 DEF ForbidStop
  <1>10. ASSUME InsertKeyFrame PROVE Flags'
    BY <1>10 DEF InsertKeyFrame
  <1>11. ASSUME AllowStop PROVE Flags'
    BY <1>11 DEF AllowStop
  <1>12. ASSUME Shutdown PROVE Flags'
    BY <1>12 DEF Shutdown
  <1>13. ASSUME RequestCloserFinish PROVE Flags'
    BY <1>13 DEF RequestCloserFinish
  <1>14. ASSUME EndShutdown PROVE Flags'
    BY <1>14 DEF EndShutdown
  <1>15. ASSUME TakeKeyFrame PROVE Flags'
    BY <1>15 DEF TakeKeyFrame
  <1>16. ASSUME ProcessKeyFrame PROVE Flags'
    BY <1>16 DEF ProcessKeyFrame
  <1>17. ASSUME OptimizeLocally PROVE Flags'
    BY <1>17 DEF OptimizeLocally
  <1>18. ASSUME ForwardKeyFrame PROVE Flags'
    BY <1>18 DEF ForwardKeyFrame
  <1>19. ASSUME Stop PROVE Flags'
    BY <1>19 DEF Stop
  <1>20. ASSUME LeaveSafeArea PROVE Flags'
    BY <1>20 DEF LeaveSafeArea
  <1>21. ASSUME MapperResetIfRequested PROVE Flags'
    BY <1>21 DEF MapperResetIfRequested
  <1>22. ASSUME MapperCheckFinish PROVE Flags'
    BY <1>22 DEF MapperCheckFinish
  <1>23. ASSUME MapperBeginFinish PROVE Flags'
    BY <1>23 DEF MapperBeginFinish
  <1>24. ASSUME MapperEndFinish PROVE Flags'
    BY <1>24 DEF MapperEndFinish
  <1>25. ASSUME TakeLoopKeyFrame PROVE Flags'
    BY <1>25 DEF TakeLoopKeyFrame
  <1>26. ASSUME NoLoop PROVE Flags'
    BY <1>26 DEF NoLoop
  <1>27. ASSUME RequestStop PROVE Flags'
    BY <1>27 DEF RequestStop
  <1>28. ASSUME CheckRunningGBA PROVE Flags'
    BY <1>28 DEF CheckRunningGBA
  <1>29. ASSUME AbortGBA PROVE Flags'
    BY <1>29 DEF AbortGBA
  <1>30. ASSUME AwaitStop PROVE Flags'
    BY <1>30 DEF AwaitStop
  <1>31. ASSUME BeginCorrection PROVE Flags'
    BY <1>31 DEF BeginCorrection
  <1>32. ASSUME EndCorrection PROVE Flags'
    BY <1>32 DEF EndCorrection
  <1>33. ASSUME FuseAndOptimize PROVE Flags'
    BY <1>33 DEF FuseAndOptimize
  <1>34. ASSUME NEW g \in Gba, LaunchGBA(g) PROVE Flags'
    BY <1>34 DEF LaunchGBA
  <1>35. ASSUME CloserBeginRelease PROVE Flags'
    BY <1>35 DEF CloserBeginRelease
  <1>36. ASSUME CloserEndRelease PROVE Flags'
    BY <1>36 DEF CloserEndRelease
  <1>37. ASSUME CloserResetIfRequested PROVE Flags'
    BY <1>37 DEF CloserResetIfRequested
  <1>38. ASSUME CloserCheckFinish PROVE Flags'
    BY <1>38 DEF CloserCheckFinish
  <1>39. ASSUME NEW g \in Gba, StartGBA(g) PROVE Flags'
    BY <1>39 DEF StartGBA
  <1>40. ASSUME NEW g \in Gba, LeaveAbortedGBA(g) PROVE Flags'
    BY <1>40 DEF LeaveAbortedGBA
  <1>41. ASSUME NEW g \in Gba, RequestStopForGBA(g) PROVE Flags'
    BY <1>41 DEF RequestStopForGBA
  <1>42. ASSUME NEW g \in Gba, AwaitStopForGBA(g) PROVE Flags'
    BY <1>42 DEF AwaitStopForGBA
  <1>43. ASSUME NEW g \in Gba, UpdateMap(g) PROVE Flags'
    BY <1>43 DEF UpdateMap
  <1>44. ASSUME NEW g \in Gba, BeginReleaseForGBA(g) PROVE Flags'
    BY <1>44 DEF BeginReleaseForGBA
  <1>45. ASSUME NEW g \in Gba, EndReleaseForGBA(g) PROVE Flags'
    BY <1>45 DEF EndReleaseForGBA
  <1>47. ASSUME CheckNewKeyFrames PROVE Flags'
    BY <1>47 DEF CheckNewKeyFrames
  <1>46. CASE UNCHANGED vars
    BY <1>46
  <1> QED
    BY <1>1, <1>2, <1>3, <1>4, <1>5, <1>6, <1>7, <1>8, <1>9, <1>10,
       <1>11, <1>12, <1>13, <1>14, <1>15, <1>16, <1>17, <1>18, <1>19,
       <1>20, <1>21, <1>22, <1>23, <1>24, <1>25, <1>26, <1>27, <1>28,
       <1>29, <1>30, <1>31, <1>32, <1>33, <1>34, <1>35, <1>36, <1>37,
       <1>38, <1>39, <1>40, <1>41, <1>42, <1>43, <1>44, <1>45, <1>46,
       <1>47
       DEF Next, Caller, CallerRuns, Mapper, Closer, GbaThread

LEMMA DataStep == Data /\ [Next]_vars => Data'
  <1> SUFFICES ASSUME Data, [Next]_vars PROVE Data'
    OBVIOUS
  <1> USE ThreadsAssumption
      DEF Data, CallerPlaces, MapperPlaces, CloserPlaces,
          GbaPlaces, Release, vars, mainVars, stopVars, mapperVars, closerVars,
          gbaVars, resetVars, queueVars
  <1>1. ASSUME TrackStereo PROVE Data'
    BY <1>1 DEF TrackStereo
  <1>2. ASSUME MapperHasReset PROVE Data'
    BY <1>2 DEF MapperHasReset
  <1>3. ASSUME CloserHasReset PROVE Data'
    BY <1>3 DEF CloserHasReset
  <1>4. ASSUME ClearMap PROVE Data'
    BY <1>4 DEF ClearMap
  <1>5. ASSUME BeginTrack PROVE Data'
    BY <1>5 DEF BeginTrack
  <1>6. ASSUME StereoInitialization PROVE Data'
    <2>1. nNextId \in KeyFrameIds
      BY <1>6 DEF StereoInitialization, KeyFrameIds
    <2>2. newKeyFrames' \in Seq(KeyFrameIds)
      BY <1>6, <2>1, PutLast DEF StereoInitialization
    <2> QED BY <1>6, <2>2 DEF StereoInitialization
  <1>7. ASSUME TrackWithoutKeyFrame PROVE Data'
    BY <1>7 DEF TrackWithoutKeyFrame
  <1>8. ASSUME NeedNewKeyFrame PROVE Data'
    BY <1>8 DEF NeedNewKeyFrame
  <1>9. ASSUME ForbidStop PROVE Data'
    BY <1>9 DEF ForbidStop
  <1>10. ASSUME InsertKeyFrame PROVE Data'
    <2>1. nNextId \in KeyFrameIds
      BY <1>10 DEF InsertKeyFrame, KeyFrameIds
    <2>2. newKeyFrames' \in Seq(KeyFrameIds)
      BY <1>10, <2>1, PutLast DEF InsertKeyFrame
    <2> QED BY <1>10, <2>2 DEF InsertKeyFrame
  <1>11. ASSUME AllowStop PROVE Data'
    BY <1>11 DEF AllowStop
  <1>12. ASSUME Shutdown PROVE Data'
    BY <1>12 DEF Shutdown
  <1>13. ASSUME RequestCloserFinish PROVE Data'
    BY <1>13 DEF RequestCloserFinish
  <1>14. ASSUME EndShutdown PROVE Data'
    BY <1>14 DEF EndShutdown
  <1>15. ASSUME TakeKeyFrame PROVE Data'
    <2>1. CASE newKeyFrames # <<>>
      <3>1. /\ Head(newKeyFrames) \in KeyFrameIds
            /\ Tail(newKeyFrames) \in Seq(KeyFrameIds)
        BY <2>1, TakeFirst DEF Data
      <3>2. newKeyFrames' \in Seq(KeyFrameIds) /\ mapperKF' \in KeyFrameIds
        BY <1>15, <2>1, <3>1 DEF TakeKeyFrame
      <3> QED BY <1>15, <2>1, <3>2 DEF TakeKeyFrame
    <2>2. CASE newKeyFrames = <<>>
      BY <1>15, <2>2 DEF TakeKeyFrame
    <2> QED BY <2>1, <2>2
  <1>16. ASSUME ProcessKeyFrame PROVE Data'
    BY <1>16 DEF ProcessKeyFrame
  <1>17. ASSUME OptimizeLocally PROVE Data'
    BY <1>17 DEF OptimizeLocally
  <1>18. ASSUME ForwardKeyFrame PROVE Data'
    <2>1. mapperKF # 0 => Append(loopQueue, mapperKF) \in Seq(KeyFrameIds)
      BY PutLast DEF Data
    <2>2. loopQueue' \in Seq(KeyFrameIds)
      BY <1>18, <2>1 DEF ForwardKeyFrame
    <2>3. mapper' \in MapperPlaces /\ mapperKF' \in KeyFrameIds \cup {0}
      BY <1>18 DEF ForwardKeyFrame
    <2> QED BY <1>18, <2>2, <2>3 DEF ForwardKeyFrame
  <1>19. ASSUME Stop PROVE Data'
    BY <1>19 DEF Stop
  <1>20. ASSUME LeaveSafeArea PROVE Data'
    BY <1>20 DEF LeaveSafeArea
  <1>21. ASSUME MapperResetIfRequested PROVE Data'
    BY <1>21 DEF MapperResetIfRequested
  <1>22. ASSUME MapperCheckFinish PROVE Data'
    BY <1>22 DEF MapperCheckFinish
  <1>23. ASSUME MapperBeginFinish PROVE Data'
    BY <1>23 DEF MapperBeginFinish
  <1>24. ASSUME MapperEndFinish PROVE Data'
    BY <1>24 DEF MapperEndFinish
  <1>25. ASSUME TakeLoopKeyFrame PROVE Data'
    <2>1. CASE loopQueue # <<>>
      <3>1. /\ Head(loopQueue) \in KeyFrameIds
            /\ Tail(loopQueue) \in Seq(KeyFrameIds)
        BY <2>1, TakeFirst DEF Data
      <3>2. loopQueue' \in Seq(KeyFrameIds) /\ closerKF' \in KeyFrameIds
        BY <1>25, <2>1, <3>1 DEF TakeLoopKeyFrame
      <3> QED BY <1>25, <2>1, <3>2 DEF TakeLoopKeyFrame
    <2>2. CASE loopQueue = <<>>
      BY <1>25, <2>2 DEF TakeLoopKeyFrame
    <2> QED BY <2>1, <2>2
  <1>26. ASSUME NoLoop PROVE Data'
    BY <1>26 DEF NoLoop
  <1>27. ASSUME RequestStop PROVE Data'
    BY <1>27 DEF RequestStop
  <1>28. ASSUME CheckRunningGBA PROVE Data'
    BY <1>28 DEF CheckRunningGBA
  <1>29. ASSUME AbortGBA PROVE Data'
    BY <1>29 DEF AbortGBA
  <1>30. ASSUME AwaitStop PROVE Data'
    BY <1>30 DEF AwaitStop
  <1>31. ASSUME BeginCorrection PROVE Data'
    BY <1>31 DEF BeginCorrection
  <1>32. ASSUME EndCorrection PROVE Data'
    BY <1>32 DEF EndCorrection
  <1>33. ASSUME FuseAndOptimize PROVE Data'
    BY <1>33 DEF FuseAndOptimize
  <1>34. ASSUME NEW g \in Gba, LaunchGBA(g) PROVE Data'
    BY <1>34 DEF LaunchGBA
  <1>35. ASSUME CloserBeginRelease PROVE Data'
    BY <1>35 DEF CloserBeginRelease
  <1>36. ASSUME CloserEndRelease PROVE Data'
    <2>1. newKeyFrames' \in Seq(KeyFrameIds)
      <3>1. newKeyFrames' = <<>> \/ newKeyFrames' = newKeyFrames
        BY <1>36 DEF CloserEndRelease
      <3>2. <<>> \in Seq(KeyFrameIds)
        OBVIOUS
      <3> QED BY <3>1, <3>2 DEF Data
    <2>2. closer' \in CloserPlaces /\ lastLoopKF' \in KeyFrameIds \cup {0}
      BY <1>36 DEF CloserEndRelease
    <2> QED BY <1>36, <2>1, <2>2 DEF CloserEndRelease
  <1>37. ASSUME CloserResetIfRequested PROVE Data'
    <2>1. loopQueue' \in Seq(KeyFrameIds)
      <3>1. loopQueue' = <<>> \/ loopQueue' = loopQueue
        BY <1>37 DEF CloserResetIfRequested
      <3>2. <<>> \in Seq(KeyFrameIds)
        OBVIOUS
      <3> QED BY <3>1, <3>2 DEF Data
    <2>2. closer' \in CloserPlaces /\ lastLoopKF' \in KeyFrameIds \cup {0}
      BY <1>37 DEF CloserResetIfRequested
    <2> QED BY <1>37, <2>1, <2>2 DEF CloserResetIfRequested
  <1>38. ASSUME CloserCheckFinish PROVE Data'
    BY <1>38 DEF CloserCheckFinish
  <1>39. ASSUME NEW g \in Gba, StartGBA(g) PROVE Data'
    BY <1>39 DEF StartGBA
  <1>40. ASSUME NEW g \in Gba, LeaveAbortedGBA(g) PROVE Data'
    BY <1>40 DEF LeaveAbortedGBA
  <1>41. ASSUME NEW g \in Gba, RequestStopForGBA(g) PROVE Data'
    BY <1>41 DEF RequestStopForGBA
  <1>42. ASSUME NEW g \in Gba, AwaitStopForGBA(g) PROVE Data'
    BY <1>42 DEF AwaitStopForGBA
  <1>43. ASSUME NEW g \in Gba, UpdateMap(g) PROVE Data'
    BY <1>43 DEF UpdateMap
  <1>44. ASSUME NEW g \in Gba, BeginReleaseForGBA(g) PROVE Data'
    BY <1>44 DEF BeginReleaseForGBA
  <1>45. ASSUME NEW g \in Gba, EndReleaseForGBA(g) PROVE Data'
    <2>1. newKeyFrames' \in Seq(KeyFrameIds)
      <3>1. newKeyFrames' = <<>> \/ newKeyFrames' = newKeyFrames
        BY <1>45 DEF EndReleaseForGBA
      <3>2. <<>> \in Seq(KeyFrameIds)
        OBVIOUS
      <3> QED BY <3>1, <3>2 DEF Data
    <2>2. gba' \in [Gba -> GbaPlaces] /\ gbaIdx' \in [Gba -> Nat]
      BY <1>45 DEF EndReleaseForGBA
    <2> QED BY <1>45, <2>1, <2>2 DEF EndReleaseForGBA
  <1>47. ASSUME CheckNewKeyFrames PROVE Data'
    BY <1>47 DEF CheckNewKeyFrames
  <1>46. CASE UNCHANGED vars
    BY <1>46
  <1> QED
    BY <1>1, <1>2, <1>3, <1>4, <1>5, <1>6, <1>7, <1>8, <1>9, <1>10,
       <1>11, <1>12, <1>13, <1>14, <1>15, <1>16, <1>17, <1>18, <1>19,
       <1>20, <1>21, <1>22, <1>23, <1>24, <1>25, <1>26, <1>27, <1>28,
       <1>29, <1>30, <1>31, <1>32, <1>33, <1>34, <1>35, <1>36, <1>37,
       <1>38, <1>39, <1>40, <1>41, <1>42, <1>43, <1>44, <1>45, <1>46,
       <1>47
       DEF Next, Caller, CallerRuns, Mapper, Closer, GbaThread

\* Every value has its type, ids and abort counter stay within the bounds.
THEOREM TypeCorrectness == Spec => []TypeOK
  <1>1. Flags /\ Data => TypeOK
    BY DEF Flags, Data, TypeOK
  <1>2. Spec => [](Flags /\ Data)
    BY FlagsInit, DataInit, FlagsStep, DataStep, PTL DEF Spec
  <1> QED BY <1>1, <1>2, PTL

-----------------------------------------------------------------------------
(* SetNotStop against Stop.  Only Stop and SetFinish set mbStopped: Stop    *)
(* not between the two calls of SetNotStop, SetFinish not before Shutdown.  *)

StopInv ==
    /\ notStop <=> main \in {"insert", "allowStop"}
    /\ main \in {"insert", "allowStop"} => ~stopped
    /\ mapper \in {"finish", "finishing", "done"} => MapperFinishRequested
    /\ stopped => mapper \in {"stopped", "finish", "finishing", "done"}

LEMMA StopInvInit == Init => StopInv
  BY DEF Init, StopInv, MapperFinishRequested

LEMMA StopInvStep == StopInv /\ [Next]_vars => StopInv'
  <1> SUFFICES ASSUME StopInv, [Next]_vars PROVE StopInv'
    OBVIOUS
  <1> USE DEF StopInv, MapperFinishRequested, MapperFinished, Release, vars,
        mainVars, stopVars, mapperVars, closerVars, gbaVars, resetVars,
        queueVars
  <1>1. ASSUME TrackStereo PROVE StopInv'
    BY <1>1 DEF TrackStereo
  <1>2. ASSUME MapperHasReset PROVE StopInv'
    BY <1>2 DEF MapperHasReset
  <1>3. ASSUME CloserHasReset PROVE StopInv'
    BY <1>3 DEF CloserHasReset
  <1>4. ASSUME ClearMap PROVE StopInv'
    BY <1>4 DEF ClearMap
  <1>5. ASSUME BeginTrack PROVE StopInv'
    BY <1>5 DEF BeginTrack
  <1>6. ASSUME StereoInitialization PROVE StopInv'
    BY <1>6 DEF StereoInitialization
  <1>7. ASSUME TrackWithoutKeyFrame PROVE StopInv'
    BY <1>7 DEF TrackWithoutKeyFrame
  <1>8. ASSUME NeedNewKeyFrame PROVE StopInv'
    BY <1>8 DEF NeedNewKeyFrame
  <1>9. ASSUME ForbidStop PROVE StopInv'
    BY <1>9 DEF ForbidStop
  <1>10. ASSUME InsertKeyFrame PROVE StopInv'
    BY <1>10 DEF InsertKeyFrame
  <1>11. ASSUME AllowStop PROVE StopInv'
    BY <1>11 DEF AllowStop
  <1>12. ASSUME Shutdown PROVE StopInv'
    BY <1>12 DEF Shutdown
  <1>13. ASSUME RequestCloserFinish PROVE StopInv'
    BY <1>13 DEF RequestCloserFinish
  <1>14. ASSUME EndShutdown PROVE StopInv'
    BY <1>14 DEF EndShutdown
  <1>15. ASSUME TakeKeyFrame PROVE StopInv'
    BY <1>15 DEF TakeKeyFrame
  <1>16. ASSUME ProcessKeyFrame PROVE StopInv'
    BY <1>16 DEF ProcessKeyFrame
  <1>17. ASSUME OptimizeLocally PROVE StopInv'
    BY <1>17 DEF OptimizeLocally
  <1>18. ASSUME ForwardKeyFrame PROVE StopInv'
    BY <1>18 DEF ForwardKeyFrame
  <1>19. ASSUME Stop PROVE StopInv'
    BY <1>19 DEF Stop
  <1>20. ASSUME LeaveSafeArea PROVE StopInv'
    BY <1>20 DEF LeaveSafeArea
  <1>21. ASSUME MapperResetIfRequested PROVE StopInv'
    BY <1>21 DEF MapperResetIfRequested
  <1>22. ASSUME MapperCheckFinish PROVE StopInv'
    BY <1>22 DEF MapperCheckFinish
  <1>23. ASSUME MapperBeginFinish PROVE StopInv'
    BY <1>23 DEF MapperBeginFinish
  <1>24. ASSUME MapperEndFinish PROVE StopInv'
    BY <1>24 DEF MapperEndFinish
  <1>25. ASSUME TakeLoopKeyFrame PROVE StopInv'
    BY <1>25 DEF TakeLoopKeyFrame
  <1>26. ASSUME NoLoop PROVE StopInv'
    BY <1>26 DEF NoLoop
  <1>27. ASSUME RequestStop PROVE StopInv'
    BY <1>27 DEF RequestStop
  <1>28. ASSUME CheckRunningGBA PROVE StopInv'
    BY <1>28 DEF CheckRunningGBA
  <1>29. ASSUME AbortGBA PROVE StopInv'
    BY <1>29 DEF AbortGBA
  <1>30. ASSUME AwaitStop PROVE StopInv'
    BY <1>30 DEF AwaitStop
  <1>31. ASSUME BeginCorrection PROVE StopInv'
    BY <1>31 DEF BeginCorrection
  <1>32. ASSUME EndCorrection PROVE StopInv'
    BY <1>32 DEF EndCorrection
  <1>33. ASSUME FuseAndOptimize PROVE StopInv'
    BY <1>33 DEF FuseAndOptimize
  <1>34. ASSUME NEW g \in Gba, LaunchGBA(g) PROVE StopInv'
    BY <1>34 DEF LaunchGBA
  <1>35. ASSUME CloserBeginRelease PROVE StopInv'
    BY <1>35 DEF CloserBeginRelease
  <1>36. ASSUME CloserEndRelease PROVE StopInv'
    BY <1>36 DEF CloserEndRelease
  <1>37. ASSUME CloserResetIfRequested PROVE StopInv'
    BY <1>37 DEF CloserResetIfRequested
  <1>38. ASSUME CloserCheckFinish PROVE StopInv'
    BY <1>38 DEF CloserCheckFinish
  <1>39. ASSUME NEW g \in Gba, StartGBA(g) PROVE StopInv'
    BY <1>39 DEF StartGBA
  <1>40. ASSUME NEW g \in Gba, LeaveAbortedGBA(g) PROVE StopInv'
    BY <1>40 DEF LeaveAbortedGBA
  <1>41. ASSUME NEW g \in Gba, RequestStopForGBA(g) PROVE StopInv'
    BY <1>41 DEF RequestStopForGBA
  <1>42. ASSUME NEW g \in Gba, AwaitStopForGBA(g) PROVE StopInv'
    BY <1>42 DEF AwaitStopForGBA
  <1>43. ASSUME NEW g \in Gba, UpdateMap(g) PROVE StopInv'
    BY <1>43 DEF UpdateMap
  <1>44. ASSUME NEW g \in Gba, BeginReleaseForGBA(g) PROVE StopInv'
    BY <1>44 DEF BeginReleaseForGBA
  <1>45. ASSUME NEW g \in Gba, EndReleaseForGBA(g) PROVE StopInv'
    BY <1>45 DEF EndReleaseForGBA
  <1>47. ASSUME CheckNewKeyFrames PROVE StopInv'
    BY <1>47 DEF CheckNewKeyFrames
  <1>46. CASE UNCHANGED vars
    BY <1>46
  <1> QED
    BY <1>1, <1>2, <1>3, <1>4, <1>5, <1>6, <1>7, <1>8, <1>9, <1>10,
       <1>11, <1>12, <1>13, <1>14, <1>15, <1>16, <1>17, <1>18, <1>19,
       <1>20, <1>21, <1>22, <1>23, <1>24, <1>25, <1>26, <1>27, <1>28,
       <1>29, <1>30, <1>31, <1>32, <1>33, <1>34, <1>35, <1>36, <1>37,
       <1>38, <1>39, <1>40, <1>41, <1>42, <1>43, <1>44, <1>45, <1>46,
       <1>47
       DEF Next, Caller, CallerRuns, Mapper, Closer, GbaThread

\* No keyframe is queued by CreateNewKeyFrame while the mapper is stopped.
THEOREM StoppedMapperIsLeftAlone == Spec => []NoKeyFrameForAStoppedMapper
  <1>1. StopInv => NoKeyFrameForAStoppedMapper
    BY DEF StopInv, NoKeyFrameForAStoppedMapper
  <1>2. Spec => []StopInv
    BY StopInvInit, StopInvStep, PTL DEF Spec
  <1> QED BY <1>1, <1>2, PTL

-----------------------------------------------------------------------------
(* Loop correction against global bundle adjustment.  A current adjustment  *)
(* is one that no abort has replaced: there is at most one, mbRunningGBA     *)
(* says so, and none is left once the closer waits for the mapper.           *)

Current(g) ==
    \/ gba[g] = "launched"
    \/ gba[g] # "gone" /\ gbaIdx[g] = fullBAIdx

GbaInv ==
    /\ \A g \in Gba : gbaIdx[g] <= fullBAIdx
    /\ \A g \in Gba : Current(g) => runningGBA
    /\ \A g, h \in Gba : Current(g) /\ Current(h) => g = h
    /\ \A g \in Gba : WritesMap(g) => Current(g)
    /\ closer = "awaitStop" \/ CorrectsLoop => \A g \in Gba : ~Current(g)
    /\ CorrectsLoop => stopped

LEMMA GbaInvInit == Init => GbaInv
  BY DEF Init, GbaInv, Current, WritesMap, CorrectsLoop

LEMMA GbaInvStep == Flags /\ Data /\ GbaInv /\ [Next]_vars => GbaInv'
  <1> SUFFICES ASSUME Flags, Data, GbaInv, [Next]_vars PROVE GbaInv'
    OBVIOUS
  <1>0. /\ gba \in [Gba -> GbaPlaces] /\ gbaIdx \in [Gba -> Nat]
        /\ fullBAIdx \in Nat
    BY ThreadsAssumption DEF Data
  <1> USE <1>0
      DEF GbaInv, Current, WritesMap, CorrectsLoop, GbaPlaces, GbaMutexFree,
          LaunchedHaveStarted, Release, vars, mainVars, stopVars, mapperVars,
          closerVars, gbaVars, resetVars, queueVars
  <1>1. ASSUME TrackStereo PROVE GbaInv'
    BY <1>1 DEF TrackStereo
  <1>2. ASSUME MapperHasReset PROVE GbaInv'
    BY <1>2 DEF MapperHasReset
  <1>3. ASSUME CloserHasReset PROVE GbaInv'
    BY <1>3 DEF CloserHasReset
  <1>4. ASSUME ClearMap PROVE GbaInv'
    BY <1>4 DEF ClearMap
  <1>5. ASSUME BeginTrack PROVE GbaInv'
    BY <1>5 DEF BeginTrack
  <1>6. ASSUME StereoInitialization PROVE GbaInv'
    BY <1>6 DEF StereoInitialization
  <1>7. ASSUME TrackWithoutKeyFrame PROVE GbaInv'
    BY <1>7 DEF TrackWithoutKeyFrame
  <1>8. ASSUME NeedNewKeyFrame PROVE GbaInv'
    BY <1>8 DEF NeedNewKeyFrame
  <1>9. ASSUME ForbidStop PROVE GbaInv'
    BY <1>9 DEF ForbidStop
  <1>10. ASSUME InsertKeyFrame PROVE GbaInv'
    BY <1>10 DEF InsertKeyFrame
  <1>11. ASSUME AllowStop PROVE GbaInv'
    BY <1>11 DEF AllowStop
  <1>12. ASSUME Shutdown PROVE GbaInv'
    BY <1>12 DEF Shutdown
  <1>13. ASSUME RequestCloserFinish PROVE GbaInv'
    BY <1>13 DEF RequestCloserFinish
  <1>14. ASSUME EndShutdown PROVE GbaInv'
    BY <1>14 DEF EndShutdown
  <1>15. ASSUME TakeKeyFrame PROVE GbaInv'
    BY <1>15 DEF TakeKeyFrame
  <1>16. ASSUME ProcessKeyFrame PROVE GbaInv'
    BY <1>16 DEF ProcessKeyFrame
  <1>17. ASSUME OptimizeLocally PROVE GbaInv'
    BY <1>17 DEF OptimizeLocally
  <1>18. ASSUME ForwardKeyFrame PROVE GbaInv'
    BY <1>18 DEF ForwardKeyFrame
  <1>19. ASSUME Stop PROVE GbaInv'
    BY <1>19 DEF Stop
  <1>20. ASSUME LeaveSafeArea PROVE GbaInv'
    BY <1>20 DEF LeaveSafeArea
  <1>21. ASSUME MapperResetIfRequested PROVE GbaInv'
    BY <1>21 DEF MapperResetIfRequested
  <1>22. ASSUME MapperCheckFinish PROVE GbaInv'
    BY <1>22 DEF MapperCheckFinish
  <1>23. ASSUME MapperBeginFinish PROVE GbaInv'
    BY <1>23 DEF MapperBeginFinish
  <1>24. ASSUME MapperEndFinish PROVE GbaInv'
    BY <1>24 DEF MapperEndFinish
  <1>25. ASSUME TakeLoopKeyFrame PROVE GbaInv'
    BY <1>25 DEF TakeLoopKeyFrame
  <1>26. ASSUME NoLoop PROVE GbaInv'
    BY <1>26 DEF NoLoop
  <1>27. ASSUME RequestStop PROVE GbaInv'
    BY <1>27 DEF RequestStop
  <1>28. ASSUME CheckRunningGBA PROVE GbaInv'
    BY <1>28 DEF CheckRunningGBA
  <1>29. ASSUME AbortGBA PROVE GbaInv'
    BY <1>29 DEF AbortGBA
  <1>30. ASSUME AwaitStop PROVE GbaInv'
    BY <1>30 DEF AwaitStop
  <1>31. ASSUME BeginCorrection PROVE GbaInv'
    BY <1>31 DEF BeginCorrection
  <1>32. ASSUME EndCorrection PROVE GbaInv'
    BY <1>32 DEF EndCorrection
  <1>33. ASSUME FuseAndOptimize PROVE GbaInv'
    BY <1>33 DEF FuseAndOptimize
  <1>34. ASSUME NEW g \in Gba, LaunchGBA(g) PROVE GbaInv'
    BY <1>34 DEF LaunchGBA
  <1>35. ASSUME CloserBeginRelease PROVE GbaInv'
    BY <1>35 DEF CloserBeginRelease
  <1>36. ASSUME CloserEndRelease PROVE GbaInv'
    BY <1>36 DEF CloserEndRelease
  <1>37. ASSUME CloserResetIfRequested PROVE GbaInv'
    BY <1>37 DEF CloserResetIfRequested
  <1>38. ASSUME CloserCheckFinish PROVE GbaInv'
    BY <1>38 DEF CloserCheckFinish
  <1>39. ASSUME NEW g \in Gba, StartGBA(g) PROVE GbaInv'
    BY <1>39 DEF StartGBA
  <1>40. ASSUME NEW g \in Gba, LeaveAbortedGBA(g) PROVE GbaInv'
    <2>1. \A h \in Gba : Current(h)' => Current(h) /\ h # g
      BY <1>40 DEF LeaveAbortedGBA
    <2>2. \A h \in Gba : Current(h)' => runningGBA'
      <3> SUFFICES ASSUME NEW h \in Gba, Current(h)' PROVE runningGBA'
        OBVIOUS
      <3>1. Current(h) /\ h # g
        BY <2>1
      <3>2. runningGBA
        BY <3>1
      <3>3. gbaIdx[g] # fullBAIdx
        BY <1>40, <3>1 DEF LeaveAbortedGBA
      <3>4. runningGBA' = (runningGBA /\ gbaIdx[g] # fullBAIdx)
        BY <1>40 DEF LeaveAbortedGBA
      <3> QED BY <3>2, <3>3, <3>4, Zenon
    <2>3. \A h \in Gba : WritesMap(h)' => Current(h)'
      BY <1>40 DEF LeaveAbortedGBA
    <2>4. UNCHANGED <<closer, stopped, fullBAIdx>>
      BY <1>40 DEF LeaveAbortedGBA
    <2>5. \A h \in Gba : gbaIdx'[h] <= fullBAIdx'
      BY <1>40 DEF LeaveAbortedGBA
    <2>6. \A h, k \in Gba : Current(h)' /\ Current(k)' => h = k
      BY <2>1
    <2>7. (closer = "awaitStop" \/ CorrectsLoop)' => \A h \in Gba : ~Current(h)'
      BY <2>1, <2>4
    <2>8. CorrectsLoop' => stopped'
      BY <2>4
    <2> QED BY <2>2, <2>3, <2>5, <2>6, <2>7, <2>8, Zenon
  <1>41. ASSUME NEW g \in Gba, RequestStopForGBA(g) PROVE GbaInv'
    BY <1>41 DEF RequestStopForGBA
  <1>42. ASSUME NEW g \in Gba, AwaitStopForGBA(g) PROVE GbaInv'
    BY <1>42 DEF AwaitStopForGBA
  <1>43. ASSUME NEW g \in Gba, UpdateMap(g) PROVE GbaInv'
    BY <1>43 DEF UpdateMap
  <1>44. ASSUME NEW g \in Gba, BeginReleaseForGBA(g) PROVE GbaInv'
    BY <1>44 DEF BeginReleaseForGBA
  <1>45. ASSUME NEW g \in Gba, EndReleaseForGBA(g) PROVE GbaInv'
    BY <1>45 DEF EndReleaseForGBA
  <1>47. ASSUME CheckNewKeyFrames PROVE GbaInv'
    BY <1>47 DEF CheckNewKeyFrames
  <1>46. CASE UNCHANGED vars
    BY <1>46
  <1> QED
    BY <1>1, <1>2, <1>3, <1>4, <1>5, <1>6, <1>7, <1>8, <1>9, <1>10,
       <1>11, <1>12, <1>13, <1>14, <1>15, <1>16, <1>17, <1>18, <1>19,
       <1>20, <1>21, <1>22, <1>23, <1>24, <1>25, <1>26, <1>27, <1>28,
       <1>29, <1>30, <1>31, <1>32, <1>33, <1>34, <1>35, <1>36, <1>37,
       <1>38, <1>39, <1>40, <1>41, <1>42, <1>43, <1>44, <1>45, <1>46,
       <1>47
       DEF Next, Caller, CallerRuns, Mapper, Closer, GbaThread

\* While a loop is corrected, the mapper is out of the map and no global
\* bundle adjustment writes it.
THEOREM LoopCorrectionIsExclusive == Spec => []CorrectionIsExclusive
  <1>1. StopInv /\ GbaInv => CorrectionIsExclusive
    BY DEF StopInv, GbaInv, CorrectionIsExclusive
  <1>2. Spec => [](StopInv /\ Flags /\ Data /\ GbaInv)
    BY StopInvInit, StopInvStep, FlagsInit, FlagsStep, DataInit, DataStep,
       GbaInvInit, GbaInvStep, PTL DEF Spec
  <1> QED BY <1>1, <1>2, PTL

-----------------------------------------------------------------------------
(* The reset.  Nothing feeds the mapper once the tracker waits, and once     *)
(* the mapper has been reset nothing feeds the closer.                       *)

ResetInv ==
    /\ mapperReset => main = "awaitMapper"
    /\ closerReset => main = "awaitCloser"
    /\ \/ main = "awaitMapper" /\ ~mapperReset
       \/ main \in {"awaitCloser", "clear"}
       => newKeyFrames = <<>> /\ ~MapperWorks
    /\ \/ main = "awaitCloser" /\ ~closerReset
       \/ main = "clear"
       => loopQueue = <<>> /\ ~CloserWorks

LEMMA ResetInvInit == Init => ResetInv
  BY DEF Init, ResetInv

LEMMA ResetInvStep == ResetInv /\ [Next]_vars => ResetInv'
  <1> SUFFICES ASSUME ResetInv, [Next]_vars PROVE ResetInv'
    OBVIOUS
  <1> USE DEF ResetInv, MapperWorks, CloserWorks, LoopFound, Release, vars,
        mainVars, stopVars, mapperVars, closerVars, gbaVars, resetVars,
        queueVars
  <1>1. ASSUME TrackStereo PROVE ResetInv'
    BY <1>1 DEF TrackStereo
  <1>2. ASSUME MapperHasReset PROVE ResetInv'
    BY <1>2 DEF MapperHasReset
  <1>3. ASSUME CloserHasReset PROVE ResetInv'
    BY <1>3 DEF CloserHasReset
  <1>4. ASSUME ClearMap PROVE ResetInv'
    BY <1>4 DEF ClearMap
  <1>5. ASSUME BeginTrack PROVE ResetInv'
    BY <1>5 DEF BeginTrack
  <1>6. ASSUME StereoInitialization PROVE ResetInv'
    BY <1>6 DEF StereoInitialization
  <1>7. ASSUME TrackWithoutKeyFrame PROVE ResetInv'
    BY <1>7 DEF TrackWithoutKeyFrame
  <1>8. ASSUME NeedNewKeyFrame PROVE ResetInv'
    BY <1>8 DEF NeedNewKeyFrame
  <1>9. ASSUME ForbidStop PROVE ResetInv'
    BY <1>9 DEF ForbidStop
  <1>10. ASSUME InsertKeyFrame PROVE ResetInv'
    BY <1>10 DEF InsertKeyFrame
  <1>11. ASSUME AllowStop PROVE ResetInv'
    BY <1>11 DEF AllowStop
  <1>12. ASSUME Shutdown PROVE ResetInv'
    BY <1>12 DEF Shutdown
  <1>13. ASSUME RequestCloserFinish PROVE ResetInv'
    BY <1>13 DEF RequestCloserFinish
  <1>14. ASSUME EndShutdown PROVE ResetInv'
    BY <1>14 DEF EndShutdown
  <1>15. ASSUME TakeKeyFrame PROVE ResetInv'
    BY <1>15 DEF TakeKeyFrame
  <1>16. ASSUME ProcessKeyFrame PROVE ResetInv'
    BY <1>16 DEF ProcessKeyFrame
  <1>17. ASSUME OptimizeLocally PROVE ResetInv'
    BY <1>17 DEF OptimizeLocally
  <1>18. ASSUME ForwardKeyFrame PROVE ResetInv'
    BY <1>18 DEF ForwardKeyFrame
  <1>19. ASSUME Stop PROVE ResetInv'
    BY <1>19 DEF Stop
  <1>20. ASSUME LeaveSafeArea PROVE ResetInv'
    BY <1>20 DEF LeaveSafeArea
  <1>21. ASSUME MapperResetIfRequested PROVE ResetInv'
    BY <1>21 DEF MapperResetIfRequested
  <1>22. ASSUME MapperCheckFinish PROVE ResetInv'
    BY <1>22 DEF MapperCheckFinish
  <1>23. ASSUME MapperBeginFinish PROVE ResetInv'
    BY <1>23 DEF MapperBeginFinish
  <1>24. ASSUME MapperEndFinish PROVE ResetInv'
    BY <1>24 DEF MapperEndFinish
  <1>25. ASSUME TakeLoopKeyFrame PROVE ResetInv'
    BY <1>25 DEF TakeLoopKeyFrame
  <1>26. ASSUME NoLoop PROVE ResetInv'
    BY <1>26 DEF NoLoop
  <1>27. ASSUME RequestStop PROVE ResetInv'
    BY <1>27 DEF RequestStop
  <1>28. ASSUME CheckRunningGBA PROVE ResetInv'
    BY <1>28 DEF CheckRunningGBA
  <1>29. ASSUME AbortGBA PROVE ResetInv'
    BY <1>29 DEF AbortGBA
  <1>30. ASSUME AwaitStop PROVE ResetInv'
    BY <1>30 DEF AwaitStop
  <1>31. ASSUME BeginCorrection PROVE ResetInv'
    BY <1>31 DEF BeginCorrection
  <1>32. ASSUME EndCorrection PROVE ResetInv'
    BY <1>32 DEF EndCorrection
  <1>33. ASSUME FuseAndOptimize PROVE ResetInv'
    BY <1>33 DEF FuseAndOptimize
  <1>34. ASSUME NEW g \in Gba, LaunchGBA(g) PROVE ResetInv'
    BY <1>34 DEF LaunchGBA
  <1>35. ASSUME CloserBeginRelease PROVE ResetInv'
    BY <1>35 DEF CloserBeginRelease
  <1>36. ASSUME CloserEndRelease PROVE ResetInv'
    BY <1>36 DEF CloserEndRelease
  <1>37. ASSUME CloserResetIfRequested PROVE ResetInv'
    BY <1>37 DEF CloserResetIfRequested
  <1>38. ASSUME CloserCheckFinish PROVE ResetInv'
    BY <1>38 DEF CloserCheckFinish
  <1>39. ASSUME NEW g \in Gba, StartGBA(g) PROVE ResetInv'
    BY <1>39 DEF StartGBA
  <1>40. ASSUME NEW g \in Gba, LeaveAbortedGBA(g) PROVE ResetInv'
    BY <1>40 DEF LeaveAbortedGBA
  <1>41. ASSUME NEW g \in Gba, RequestStopForGBA(g) PROVE ResetInv'
    BY <1>41 DEF RequestStopForGBA
  <1>42. ASSUME NEW g \in Gba, AwaitStopForGBA(g) PROVE ResetInv'
    BY <1>42 DEF AwaitStopForGBA
  <1>43. ASSUME NEW g \in Gba, UpdateMap(g) PROVE ResetInv'
    BY <1>43 DEF UpdateMap
  <1>44. ASSUME NEW g \in Gba, BeginReleaseForGBA(g) PROVE ResetInv'
    BY <1>44 DEF BeginReleaseForGBA
  <1>45. ASSUME NEW g \in Gba, EndReleaseForGBA(g) PROVE ResetInv'
    BY <1>45 DEF EndReleaseForGBA
  <1>47. ASSUME CheckNewKeyFrames PROVE ResetInv'
    BY <1>47 DEF CheckNewKeyFrames
  <1>46. CASE UNCHANGED vars
    BY <1>46
  <1> QED
    BY <1>1, <1>2, <1>3, <1>4, <1>5, <1>6, <1>7, <1>8, <1>9, <1>10,
       <1>11, <1>12, <1>13, <1>14, <1>15, <1>16, <1>17, <1>18, <1>19,
       <1>20, <1>21, <1>22, <1>23, <1>24, <1>25, <1>26, <1>27, <1>28,
       <1>29, <1>30, <1>31, <1>32, <1>33, <1>34, <1>35, <1>36, <1>37,
       <1>38, <1>39, <1>40, <1>41, <1>42, <1>43, <1>44, <1>45, <1>46,
       <1>47
       DEF Next, Caller, CallerRuns, Mapper, Closer, GbaThread

\* No thread uses a keyframe of the map that is deleted.
THEOREM ResetWaitsForBothThreads == Spec => []ClearedMapIsUnused
  <1>1. ResetInv => ClearedMapIsUnused
    BY DEF ResetInv, ClearedMapIsUnused
  <1>2. Spec => []ResetInv
    BY ResetInvInit, ResetInvStep, PTL DEF Spec
  <1> QED BY <1>1, <1>2, PTL

-----------------------------------------------------------------------------
(* The order of the keyframes, from the tracker to the closer.               *)

QueuesInOrder ==
    /\ \A i, j \in DOMAIN loopQueue : i < j => loopQueue[i] < loopQueue[j]
    /\ \A i, j \in DOMAIN newKeyFrames :
          i < j => newKeyFrames[i] < newKeyFrames[j]
    /\ \A i \in DOMAIN loopQueue : \A j \in DOMAIN newKeyFrames :
          loopQueue[i] < newKeyFrames[j]
    /\ \A i \in DOMAIN loopQueue : loopQueue[i] < nNextId
    /\ \A i \in DOMAIN newKeyFrames : newKeyFrames[i] < nNextId

MapperInOrder ==
    MapperWorks =>
        /\ \A i \in DOMAIN loopQueue : loopQueue[i] < mapperKF
        /\ \A i \in DOMAIN newKeyFrames : mapperKF < newKeyFrames[i]
        /\ mapperKF < nNextId

CloserInOrder ==
    CloserWorks =>
        /\ \A i \in DOMAIN loopQueue : closerKF < loopQueue[i]
        /\ \A i \in DOMAIN newKeyFrames : closerKF < newKeyFrames[i]
        /\ MapperWorks => closerKF < mapperKF
        /\ closerKF < nNextId

OrderInv == QueuesInOrder /\ MapperInOrder /\ CloserInOrder

LEMMA OrderInvInit == Init => OrderInv
  BY DEF Init, OrderInv, QueuesInOrder, MapperInOrder, CloserInOrder,
         MapperWorks, CloserWorks, LoopFound

LEMMA OrderInvStep == Data /\ ResetInv /\ OrderInv /\ [Next]_vars => OrderInv'
  <1> SUFFICES ASSUME Data, ResetInv, OrderInv, [Next]_vars PROVE OrderInv'
    OBVIOUS
  <1>0. /\ newKeyFrames \in Seq(KeyFrameIds) /\ loopQueue \in Seq(KeyFrameIds)
        /\ mapperKF \in Nat /\ closerKF \in Nat /\ nNextId \in Nat
        /\ KeyFrameIds \subseteq Nat
        /\ \A i \in DOMAIN newKeyFrames : newKeyFrames[i] \in Nat
        /\ \A i \in DOMAIN loopQueue : loopQueue[i] \in Nat
    BY ThreadsAssumption DEF Data, KeyFrameIds
  <1> USE <1>0
      DEF OrderInv, QueuesInOrder, MapperInOrder, CloserInOrder, MapperWorks,
          CloserWorks, LoopFound, Release, vars, mainVars, stopVars,
          mapperVars, closerVars, gbaVars, resetVars, queueVars
  <1>1. ASSUME TrackStereo PROVE OrderInv'
    BY <1>1 DEF TrackStereo
  <1>2. ASSUME MapperHasReset PROVE OrderInv'
    BY <1>2 DEF MapperHasReset
  <1>3. ASSUME CloserHasReset PROVE OrderInv'
    BY <1>3 DEF CloserHasReset
  <1>4. ASSUME ClearMap PROVE OrderInv'
    <2>1. newKeyFrames = <<>> /\ loopQueue = <<>> /\ ~MapperWorks /\ ~CloserWorks
      BY <1>4 DEF ClearMap, ResetInv
    <2> QED BY <1>4, <2>1 DEF ClearMap
  <1>5. ASSUME BeginTrack PROVE OrderInv'
    BY <1>5 DEF BeginTrack
  <1>6. ASSUME StereoInitialization PROVE OrderInv'
    <2>1. nNextId \in KeyFrameIds
      BY <1>6 DEF StereoInitialization, Data, KeyFrameIds
    <2>2. newKeyFrames' = Append(newKeyFrames, nNextId) /\ nNextId' = nNextId + 1
      BY <1>6 DEF StereoInitialization
    <2>3. UNCHANGED <<loopQueue, mapper, mapperKF, closer, closerKF>>
      BY <1>6 DEF StereoInitialization
    <2> QED BY <2>1, <2>2, <2>3, PutLast
  <1>7. ASSUME TrackWithoutKeyFrame PROVE OrderInv'
    BY <1>7 DEF TrackWithoutKeyFrame
  <1>8. ASSUME NeedNewKeyFrame PROVE OrderInv'
    BY <1>8 DEF NeedNewKeyFrame
  <1>9. ASSUME ForbidStop PROVE OrderInv'
    BY <1>9 DEF ForbidStop
  <1>10. ASSUME InsertKeyFrame PROVE OrderInv'
    <2>1. nNextId \in KeyFrameIds
      BY <1>10 DEF InsertKeyFrame, Data, KeyFrameIds
    <2>2. newKeyFrames' = Append(newKeyFrames, nNextId) /\ nNextId' = nNextId + 1
      BY <1>10 DEF InsertKeyFrame
    <2>3. UNCHANGED <<loopQueue, mapper, mapperKF, closer, closerKF>>
      BY <1>10 DEF InsertKeyFrame
    <2> QED BY <2>1, <2>2, <2>3, PutLast
  <1>11. ASSUME AllowStop PROVE OrderInv'
    BY <1>11 DEF AllowStop
  <1>12. ASSUME Shutdown PROVE OrderInv'
    BY <1>12 DEF Shutdown
  <1>13. ASSUME RequestCloserFinish PROVE OrderInv'
    BY <1>13 DEF RequestCloserFinish
  <1>14. ASSUME EndShutdown PROVE OrderInv'
    BY <1>14 DEF EndShutdown
  <1>15. ASSUME TakeKeyFrame PROVE OrderInv'
    <2>1. CASE newKeyFrames # <<>>
      <3>1. /\ mapperKF' = Head(newKeyFrames) /\ newKeyFrames' = Tail(newKeyFrames)
            /\ UNCHANGED <<nNextId, loopQueue, closerKF>>
        BY <1>15, <2>1 DEF TakeKeyFrame
      <3> QED BY <1>15, <2>1, <3>1, TakeFirst DEF TakeKeyFrame
    <2>2. CASE newKeyFrames = <<>>
      BY <1>15, <2>2 DEF TakeKeyFrame
    <2> QED BY <2>1, <2>2
  <1>16. ASSUME ProcessKeyFrame PROVE OrderInv'
    BY <1>16 DEF ProcessKeyFrame
  <1>17. ASSUME OptimizeLocally PROVE OrderInv'
    BY <1>17 DEF OptimizeLocally
  <1>18. ASSUME ForwardKeyFrame PROVE OrderInv'
    BY <1>18 DEF ForwardKeyFrame
  <1>19. ASSUME Stop PROVE OrderInv'
    BY <1>19 DEF Stop
  <1>20. ASSUME LeaveSafeArea PROVE OrderInv'
    BY <1>20 DEF LeaveSafeArea
  <1>21. ASSUME MapperResetIfRequested PROVE OrderInv'
    BY <1>21 DEF MapperResetIfRequested
  <1>22. ASSUME MapperCheckFinish PROVE OrderInv'
    BY <1>22 DEF MapperCheckFinish
  <1>23. ASSUME MapperBeginFinish PROVE OrderInv'
    BY <1>23 DEF MapperBeginFinish
  <1>24. ASSUME MapperEndFinish PROVE OrderInv'
    BY <1>24 DEF MapperEndFinish
  <1>25. ASSUME TakeLoopKeyFrame PROVE OrderInv'
    <2>1. CASE loopQueue # <<>>
      <3>1. /\ closerKF' = Head(loopQueue) /\ loopQueue' = Tail(loopQueue)
            /\ UNCHANGED <<nNextId, newKeyFrames, mapperKF>>
        BY <1>25, <2>1 DEF TakeLoopKeyFrame
      <3> QED BY <1>25, <2>1, <3>1, TakeFirst DEF TakeLoopKeyFrame
    <2>2. CASE loopQueue = <<>>
      BY <1>25, <2>2 DEF TakeLoopKeyFrame
    <2> QED BY <2>1, <2>2
  <1>26. ASSUME NoLoop PROVE OrderInv'
    BY <1>26 DEF NoLoop
  <1>27. ASSUME RequestStop PROVE OrderInv'
    BY <1>27 DEF RequestStop
  <1>28. ASSUME CheckRunningGBA PROVE OrderInv'
    BY <1>28 DEF CheckRunningGBA
  <1>29. ASSUME AbortGBA PROVE OrderInv'
    BY <1>29 DEF AbortGBA
  <1>30. ASSUME AwaitStop PROVE OrderInv'
    BY <1>30 DEF AwaitStop
  <1>31. ASSUME BeginCorrection PROVE OrderInv'
    BY <1>31 DEF BeginCorrection
  <1>32. ASSUME EndCorrection PROVE OrderInv'
    BY <1>32 DEF EndCorrection
  <1>33. ASSUME FuseAndOptimize PROVE OrderInv'
    BY <1>33 DEF FuseAndOptimize
  <1>34. ASSUME NEW g \in Gba, LaunchGBA(g) PROVE OrderInv'
    BY <1>34 DEF LaunchGBA
  <1>35. ASSUME CloserBeginRelease PROVE OrderInv'
    BY <1>35 DEF CloserBeginRelease
  <1>36. ASSUME CloserEndRelease PROVE OrderInv'
    BY <1>36 DEF CloserEndRelease
  <1>37. ASSUME CloserResetIfRequested PROVE OrderInv'
    BY <1>37 DEF CloserResetIfRequested
  <1>38. ASSUME CloserCheckFinish PROVE OrderInv'
    BY <1>38 DEF CloserCheckFinish
  <1>39. ASSUME NEW g \in Gba, StartGBA(g) PROVE OrderInv'
    BY <1>39 DEF StartGBA
  <1>40. ASSUME NEW g \in Gba, LeaveAbortedGBA(g) PROVE OrderInv'
    BY <1>40 DEF LeaveAbortedGBA
  <1>41. ASSUME NEW g \in Gba, RequestStopForGBA(g) PROVE OrderInv'
    BY <1>41 DEF RequestStopForGBA
  <1>42. ASSUME NEW g \in Gba, AwaitStopForGBA(g) PROVE OrderInv'
    BY <1>42 DEF AwaitStopForGBA
  <1>43. ASSUME NEW g \in Gba, UpdateMap(g) PROVE OrderInv'
    BY <1>43 DEF UpdateMap
  <1>44. ASSUME NEW g \in Gba, BeginReleaseForGBA(g) PROVE OrderInv'
    BY <1>44 DEF BeginReleaseForGBA
  <1>45. ASSUME NEW g \in Gba, EndReleaseForGBA(g) PROVE OrderInv'
    BY <1>45 DEF EndReleaseForGBA
  <1>47. ASSUME CheckNewKeyFrames PROVE OrderInv'
    BY <1>47 DEF CheckNewKeyFrames
  <1>46. CASE UNCHANGED vars
    BY <1>46
  <1> QED
    BY <1>1, <1>2, <1>3, <1>4, <1>5, <1>6, <1>7, <1>8, <1>9, <1>10,
       <1>11, <1>12, <1>13, <1>14, <1>15, <1>16, <1>17, <1>18, <1>19,
       <1>20, <1>21, <1>22, <1>23, <1>24, <1>25, <1>26, <1>27, <1>28,
       <1>29, <1>30, <1>31, <1>32, <1>33, <1>34, <1>35, <1>36, <1>37,
       <1>38, <1>39, <1>40, <1>41, <1>42, <1>43, <1>44, <1>45, <1>46,
       <1>47
       DEF Next, Caller, CallerRuns, Mapper, Closer, GbaThread

\* Keyframes keep the order of their creation on their way to the closer. The
\* mapper is followed until it reads the front of a queue that was emptied
\* after its check (place "undefined"): it forwards no keyframe from there.
THEOREM KeyFramesKeepTheirOrder == Spec => []KeyFramesArriveInOrder
  <1>1. OrderInv => KeyFramesArriveInOrder
    BY DEF OrderInv, QueuesInOrder, MapperInOrder, CloserInOrder,
           KeyFramesArriveInOrder, Precedes, Ordered, InMapper, InCloser
  <1>2. Spec => [](Data /\ ResetInv /\ OrderInv)
    BY DataInit, DataStep, ResetInvInit, ResetInvStep, OrderInvInit,
       OrderInvStep, PTL DEF Spec
  <1> QED BY <1>1, <1>2, PTL
=============================================================================
