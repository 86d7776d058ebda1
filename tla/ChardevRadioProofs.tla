------------------------- MODULE ChardevRadioProofs -------------------------
(***************************************************************************)
(* Proofs about ChardevRadio, for any number of callers, thread identities *)
(* and channels, both back-ends, and any subset of the faults.             *)
(*                                                                         *)
(* The argument.  Exactly the owner of stEnabledStatusLock is inside the   *)
(* sections it protects (OwnerInv).  A receive thread that still serves is *)
(* the one on record (HandleInv), so there is one; it is started with all  *)
(* channels open (SpawnInv), and channels are closed only when pthread_join*)
(* has seen it end, or by itself after it has taken itself off the record  *)
(* (CloseInv).  Hence its channels are open while it serves.               *)
(***************************************************************************)
EXTENDS ChardevRadio, TLAPS

\* Every step preserves the types.
LEMMA TypeStep == TypeOK /\ [Next]_vars => TypeOK'
<1> SUFFICES ASSUME TypeOK, [Next]_vars PROVE TypeOK'
  OBVIOUS
<1> USE ThreadsAssumption, ChannelsAssumption
    DEF TypeOK, Threads, At, Goto, radio, Labels, HoldsLock, ServingLabels,
        Routines, Statuses
<1>0. CASE UNCHANGED vars
  BY <1>0 DEF vars
<1>1. ASSUME NEW c \in Callers, NEW o \in Operations, Call(c, o) PROVE TypeOK'
  BY <1>1, EnvironmentAssumption DEF Call
<1>2. ASSUME NEW c \in Callers, Acquire(c) PROVE TypeOK'
  BY <1>2 DEF Acquire
<1>3. ASSUME NEW c \in Callers, RedundantCall(c) PROVE TypeOK'
  BY <1>3 DEF RedundantCall, Return
<1>4. ASSUME NEW c \in Callers, BeginEnable(c) PROVE TypeOK'
  BY <1>4 DEF BeginEnable
<1>5. ASSUME NEW c \in Callers, BeginDisable(c) PROVE TypeOK'
  BY <1>5 DEF BeginDisable
<1>6. ASSUME NEW c \in Callers, BeginHardReset(c) PROVE TypeOK'
  BY <1>6 DEF BeginHardReset
<1>7. ASSUME NEW c \in Callers, EnableSucceeds(c) PROVE TypeOK'
  BY <1>7 DEF EnableSucceeds, Return
<1>8. ASSUME NEW c \in Callers, EnableFails(c) PROVE TypeOK'
  BY <1>8 DEF EnableFails
<1>9. ASSUME NEW c \in Callers, HardResetReports(c) PROVE TypeOK'
  BY <1>9 DEF HardResetReports
<1>10. ASSUME NEW c \in Callers, HardResetReturns(c) PROVE TypeOK'
  BY <1>10 DEF HardResetReturns, Return
<1>11. ASSUME NEW r \in RxThreads, RxStart(r) PROVE TypeOK'
  BY <1>11 DEF RxStart
<1>12. ASSUME NEW r \in RxThreads, RxLoop(r) PROVE TypeOK'
  BY <1>12 DEF RxLoop
<1>13. ASSUME NEW r \in RxThreads, PollData(r) PROVE TypeOK'
  BY <1>13 DEF PollData
<1>14. ASSUME NEW r \in RxThreads, PollSilence(r) PROVE TypeOK'
  BY <1>14 DEF PollSilence
<1>15. ASSUME NEW r \in RxThreads, PollHangup(r) PROVE TypeOK'
  BY <1>15 DEF PollHangup
<1>16. ASSUME NEW r \in RxThreads, ReadFailsVfs(r) PROVE TypeOK'
  BY <1>16 DEF ReadFailsVfs
<1>17. ASSUME NEW r \in RxThreads, ReadFailsBt(r) PROVE TypeOK'
  BY <1>17 DEF ReadFailsBt
<1>18. ASSUME NEW r \in RxThreads, PollShutdown(r) PROVE TypeOK'
  BY <1>18 DEF PollShutdown
<1>19. ASSUME NEW r \in RxThreads, EventFdFails(r) PROVE TypeOK'
  BY <1>19 DEF EventFdFails
<1>20. ASSUME NEW r \in RxThreads, DoReset(r) PROVE TypeOK'
  BY <1>20 DEF DoReset
<1>21. ASSUME NEW r \in RxThreads, DoResetStops(r) PROVE TypeOK'
  BY <1>21 DEF DoResetStops
<1>22. ASSUME NEW r \in RxThreads, DoResetLocks(r) PROVE TypeOK'
  BY <1>22 DEF DoResetLocks
<1>23. ASSUME NEW r \in RxThreads, CleanUp(r) PROVE TypeOK'
  BY <1>23 DEF CleanUp
<1>24. ASSUME NEW r \in RxThreads, LeaveBusy(r) PROVE TypeOK'
  BY <1>24 DEF LeaveBusy
<1>25. ASSUME NEW r \in RxThreads, DoResetClearsFlag(r) PROVE TypeOK'
  <2>1. pc' \in [Threads -> Labels]
    BY <1>25 DEF DoResetClearsFlag
  <2> QED
    BY <1>25, <2>1 DEF DoResetClearsFlag
<1>26. ASSUME NEW r \in RxThreads, DoResetReports(r) PROVE TypeOK'
  BY <1>26 DEF DoResetReports, Return
<1>27. ASSUME NEW t \in Threads, AntEnable(t) PROVE TypeOK'
  BY <1>27 DEF AntEnable
<1>28. ASSUME NEW t \in Threads, OpenChannel(t) PROVE TypeOK'
  <2>1. ucRunThread' \in BOOLEAN /\ fd' \in [Channels -> BOOLEAN]
    BY <1>28 DEF OpenChannel, RunFlagAtReturn
  <2>2. pc' \in [Threads -> Labels]
    BY <1>28 DEF OpenChannel
  <2> QED
    BY <1>28, <2>1, <2>2 DEF OpenChannel
<1>29. ASSUME NEW t \in Threads, AllChannelsOpen(t) PROVE TypeOK'
  BY <1>29 DEF AllChannelsOpen
<1>30. ASSUME NEW t \in Threads, Spawn(t) PROVE TypeOK'
  BY <1>30 DEF Spawn
<1>31. ASSUME NEW t \in Threads, NoSpawn(t) PROVE TypeOK'
  BY <1>31 DEF NoSpawn
<1>32. ASSUME NEW t \in Threads, Confirm(t) PROVE TypeOK'
  BY <1>32 DEF Confirm, RunFlagAtReturn
<1>33. ASSUME NEW t \in Threads, AntDisable(t) PROVE TypeOK'
  BY <1>33 DEF AntDisable
<1>34. ASSUME NEW t \in Threads, SignalShutdown(t) PROVE TypeOK'
  BY <1>34 DEF SignalShutdown
<1>35. ASSUME NEW t \in Threads, Join(t) PROVE TypeOK'
  BY <1>35 DEF Join
<1>36. ASSUME NEW t \in Threads, CloseChannel(t) PROVE TypeOK'
  BY <1>36 DEF CloseChannel
<1>37. ASSUME NEW t \in Threads, ClosedForReset(t) PROVE TypeOK'
  BY <1>37 DEF ClosedForReset
<1>38. ASSUME NEW t \in Threads, ClosedForGood(t) PROVE TypeOK'
  BY <1>38 DEF ClosedForGood, Return, ant_radio_enabled_status, AllOpen, AllClosed, Statuses
<1> QED
  BY <1>0, <1>1, <1>2, <1>3, <1>4, <1>5, <1>6, <1>7, <1>8, <1>9, <1>10,
     <1>11, <1>12, <1>13, <1>14, <1>15, <1>16, <1>17, <1>18, <1>19, <1>20,
     <1>21, <1>22, <1>23, <1>24, <1>25, <1>26, <1>27, <1>28, <1>29, <1>30,
     <1>31, <1>32, <1>33, <1>34, <1>35, <1>36, <1>37, <1>38
     DEF Next, CallerStep, RxStep, OwnerStep

\* Every step preserves the structural invariant.
LEMMA StructStep == IInv /\ [Next]_vars => StructInv'
<1> SUFFICES ASSUME IInv, [Next]_vars PROVE StructInv'
  OBVIOUS
<1> USE ThreadsAssumption, ChannelsAssumption
    DEF IInv, TypeOK, Threads, At, Goto, radio, StructInv, OwnerInv, HandleInv,
        NoSelfJoin, SpawnInv, CloseInv, RecordInv, OverrideInv, Serving,
        ServingLabels, HoldsLock, AllOpen, AllClosed
<1>0. CASE UNCHANGED vars
  BY <1>0 DEF vars
<1>1. ASSUME NEW c \in Callers, NEW o \in Operations, Call(c, o) PROVE StructInv'
  BY <1>1, EnvironmentAssumption DEF Call
<1>2. ASSUME NEW c \in Callers, Acquire(c) PROVE StructInv'
  BY <1>2 DEF Acquire
<1>3. ASSUME NEW c \in Callers, RedundantCall(c) PROVE StructInv'
  BY <1>3 DEF RedundantCall, Return
<1>4. ASSUME NEW c \in Callers, BeginEnable(c) PROVE StructInv'
  BY <1>4 DEF BeginEnable
<1>5. ASSUME NEW c \in Callers, BeginDisable(c) PROVE StructInv'
  BY <1>5 DEF BeginDisable
<1>6. ASSUME NEW c \in Callers, BeginHardReset(c) PROVE StructInv'
  BY <1>6 DEF BeginHardReset
<1>7. ASSUME NEW c \in Callers, EnableSucceeds(c) PROVE StructInv'
  BY <1>7 DEF EnableSucceeds, Return
<1>8. ASSUME NEW c \in Callers, EnableFails(c) PROVE StructInv'
  BY <1>8 DEF EnableFails
<1>9. ASSUME NEW c \in Callers, HardResetReports(c) PROVE StructInv'
  BY <1>9 DEF HardResetReports
<1>10. ASSUME NEW c \in Callers, HardResetReturns(c) PROVE StructInv'
  BY <1>10 DEF HardResetReturns, Return
<1>11. ASSUME NEW r \in RxThreads, RxStart(r) PROVE StructInv'
  BY <1>11 DEF RxStart
<1>12. ASSUME NEW r \in RxThreads, RxLoop(r) PROVE StructInv'
  BY <1>12 DEF RxLoop
<1>13. ASSUME NEW r \in RxThreads, PollData(r) PROVE StructInv'
  BY <1>13 DEF PollData
<1>14. ASSUME NEW r \in RxThreads, PollSilence(r) PROVE StructInv'
  BY <1>14 DEF PollSilence
<1>15. ASSUME NEW r \in RxThreads, PollHangup(r) PROVE StructInv'
  BY <1>15 DEF PollHangup
<1>16. ASSUME NEW r \in RxThreads, ReadFailsVfs(r) PROVE StructInv'
  BY <1>16 DEF ReadFailsVfs
<1>17. ASSUME NEW r \in RxThreads, ReadFailsBt(r) PROVE StructInv'
  BY <1>17 DEF ReadFailsBt
<1>18. ASSUME NEW r \in RxThreads, PollShutdown(r) PROVE StructInv'
  BY <1>18 DEF PollShutdown
<1>19. ASSUME NEW r \in RxThreads, EventFdFails(r) PROVE StructInv'
  BY <1>19 DEF EventFdFails
<1>20. ASSUME NEW r \in RxThreads, DoReset(r) PROVE StructInv'
  BY <1>20 DEF DoReset
<1>21. ASSUME NEW r \in RxThreads, DoResetStops(r) PROVE StructInv'
  BY <1>21 DEF DoResetStops
<1>22. ASSUME NEW r \in RxThreads, DoResetLocks(r) PROVE StructInv'
  BY <1>22 DEF DoResetLocks
<1>23. ASSUME NEW r \in RxThreads, CleanUp(r) PROVE StructInv'
  BY <1>23 DEF CleanUp
<1>24. ASSUME NEW r \in RxThreads, LeaveBusy(r) PROVE StructInv'
  BY <1>24 DEF LeaveBusy
<1>25. ASSUME NEW r \in RxThreads, DoResetClearsFlag(r) PROVE StructInv'
  BY <1>25 DEF DoResetClearsFlag
<1>26. ASSUME NEW r \in RxThreads, DoResetReports(r) PROVE StructInv'
  BY <1>26 DEF DoResetReports, Return
<1>27. ASSUME NEW t \in Threads, AntEnable(t) PROVE StructInv'
  BY <1>27 DEF AntEnable
<1>28. ASSUME NEW t \in Threads, OpenChannel(t) PROVE StructInv'
  BY <1>28 DEF OpenChannel, FirstClosed, RunFlagAtReturn
<1>29. ASSUME NEW t \in Threads, AllChannelsOpen(t) PROVE StructInv'
  BY <1>29 DEF AllChannelsOpen
<1>30. ASSUME NEW t \in Threads, Spawn(t) PROVE StructInv'
  BY <1>30 DEF Spawn
<1>31. ASSUME NEW t \in Threads, NoSpawn(t) PROVE StructInv'
  BY <1>31 DEF NoSpawn
<1>32. ASSUME NEW t \in Threads, Confirm(t) PROVE StructInv'
  BY <1>32 DEF Confirm, RunFlagAtReturn
<1>33. ASSUME NEW t \in Threads, AntDisable(t) PROVE StructInv'
  BY <1>33 DEF AntDisable
<1>34. ASSUME NEW t \in Threads, SignalShutdown(t) PROVE StructInv'
  BY <1>34 DEF SignalShutdown
<1>35. ASSUME NEW t \in Threads, Join(t) PROVE StructInv'
  BY <1>35 DEF Join
<1>36. ASSUME NEW t \in Threads, CloseChannel(t) PROVE StructInv'
  BY <1>36 DEF CloseChannel
<1>37. ASSUME NEW t \in Threads, ClosedForReset(t) PROVE StructInv'
  BY <1>37 DEF ClosedForReset
<1>38. ASSUME NEW t \in Threads, ClosedForGood(t) PROVE StructInv'
  BY <1>38 DEF ClosedForGood, Return
<1> QED
  BY <1>0, <1>1, <1>2, <1>3, <1>4, <1>5, <1>6, <1>7, <1>8, <1>9, <1>10,
     <1>11, <1>12, <1>13, <1>14, <1>15, <1>16, <1>17, <1>18, <1>19, <1>20,
     <1>21, <1>22, <1>23, <1>24, <1>25, <1>26, <1>27, <1>28, <1>29, <1>30,
     <1>31, <1>32, <1>33, <1>34, <1>35, <1>36, <1>37, <1>38
     DEF Next, CallerStep, RxStep, OwnerStep

LEMMA StopStep == 
  ASSUME BackEnd = "vfs", "eventFd" \notin Faults
  PROVE  ToldIInv /\ [Next]_vars => StopInv'
<1> SUFFICES ASSUME ToldIInv, [Next]_vars PROVE StopInv'
  OBVIOUS
<1> USE ThreadsAssumption, ChannelsAssumption
    DEF ToldIInv, IInv, TypeOK, Threads, At, Goto, radio, StructInv, OwnerInv,
        HandleInv, NoSelfJoin, CloseInv, StopInv, ToldInv, FreshStartInv,
        NoAbandonedThread, JoinPending, Serving, ServingLabels, HoldsLock
<1>0. CASE UNCHANGED vars
  BY <1>0 DEF vars
<1>1. ASSUME NEW c \in Callers, NEW o \in Operations, Call(c, o) PROVE StopInv'
  BY <1>1, EnvironmentAssumption DEF Call
<1>2. ASSUME NEW c \in Callers, Acquire(c) PROVE StopInv'
  BY <1>2 DEF Acquire
<1>3. ASSUME NEW c \in Callers, RedundantCall(c) PROVE StopInv'
  BY <1>3 DEF RedundantCall, Return
<1>4. ASSUME NEW c \in Callers, BeginEnable(c) PROVE StopInv'
  BY <1>4 DEF BeginEnable
<1>5. ASSUME NEW c \in Callers, BeginDisable(c) PROVE StopInv'
  BY <1>5 DEF BeginDisable
<1>6. ASSUME NEW c \in Callers, BeginHardReset(c) PROVE StopInv'
  BY <1>6 DEF BeginHardReset
<1>7. ASSUME NEW c \in Callers, EnableSucceeds(c) PROVE StopInv'
  BY <1>7 DEF EnableSucceeds, Return
<1>8. ASSUME NEW c \in Callers, EnableFails(c) PROVE StopInv'
  BY <1>8 DEF EnableFails
<1>9. ASSUME NEW c \in Callers, HardResetReports(c) PROVE StopInv'
  BY <1>9 DEF HardResetReports
<1>10. ASSUME NEW c \in Callers, HardResetReturns(c) PROVE StopInv'
  BY <1>10 DEF HardResetReturns, Return
<1>11. ASSUME NEW r \in RxThreads, RxStart(r) PROVE StopInv'
  BY <1>11 DEF RxStart
<1>12. ASSUME NEW r \in RxThreads, RxLoop(r) PROVE StopInv'
  BY <1>12 DEF RxLoop
<1>13. ASSUME NEW r \in RxThreads, PollData(r) PROVE StopInv'
  BY <1>13 DEF PollData
<1>14. ASSUME NEW r \in RxThreads, PollSilence(r) PROVE StopInv'
  BY <1>14 DEF PollSilence
<1>15. ASSUME NEW r \in RxThreads, PollHangup(r) PROVE StopInv'
  BY <1>15 DEF PollHangup
<1>16. ASSUME NEW r \in RxThreads, ReadFailsVfs(r) PROVE StopInv'
  BY <1>16 DEF ReadFailsVfs
<1>17. ASSUME NEW r \in RxThreads, ReadFailsBt(r) PROVE StopInv'
  BY <1>17 DEF ReadFailsBt
<1>18. ASSUME NEW r \in RxThreads, PollShutdown(r) PROVE StopInv'
  BY <1>18 DEF PollShutdown
<1>19. ASSUME NEW r \in RxThreads, EventFdFails(r) PROVE StopInv'
  BY <1>19 DEF EventFdFails
<1>20. ASSUME NEW r \in RxThreads, DoReset(r) PROVE StopInv'
  BY <1>20 DEF DoReset
<1>21. ASSUME NEW r \in RxThreads, DoResetStops(r) PROVE StopInv'
  BY <1>21 DEF DoResetStops
<1>22. ASSUME NEW r \in RxThreads, DoResetLocks(r) PROVE StopInv'
  BY <1>22 DEF DoResetLocks
<1>23. ASSUME NEW r \in RxThreads, CleanUp(r) PROVE StopInv'
  BY <1>23 DEF CleanUp
<1>24. ASSUME NEW r \in RxThreads, LeaveBusy(r) PROVE StopInv'
  BY <1>24 DEF LeaveBusy
<1>25. ASSUME NEW r \in RxThreads, DoResetClearsFlag(r) PROVE StopInv'
  BY <1>25 DEF DoResetClearsFlag
<1>26. ASSUME NEW r \in RxThreads, DoResetReports(r) PROVE StopInv'
  BY <1>26 DEF DoResetReports, Return
<1>27. ASSUME NEW t \in Threads, AntEnable(t) PROVE StopInv'
  BY <1>27 DEF AntEnable
<1>28. ASSUME NEW t \in Threads, OpenChannel(t) PROVE StopInv'
  <2>1. ~JoinPending
    BY <1>28 DEF OpenChannel
  <2>2. \A r \in RxThreads : pc'[r] = pc[r] \/ (r = t /\ pc[r] = "open" /\ pc'[r] = "failed")
    BY <1>28 DEF OpenChannel
  <2>3. ucRunThread' = ucRunThread \/ stRxThread = NoThread
    BY <1>28 DEF OpenChannel, RunFlagAtReturn
  <2>4. ToldInv'
    BY <1>28, <2>1, <2>2, <2>3 DEF OpenChannel
  <2>5. FreshStartInv'
    <3>1. CASE pc' = pc /\ ucRunThread' = ucRunThread
      BY <1>28, <3>1 DEF OpenChannel
    <3>2. CASE pc' = [pc EXCEPT ![t] = "failed"]
      BY <1>28, <3>2 DEF OpenChannel
    <3> QED
      BY <1>28, <3>1, <3>2 DEF OpenChannel
  <2>6. NoAbandonedThread'
    BY <1>28, <2>1, <2>2 DEF OpenChannel
  <2> QED
    BY <2>4, <2>5, <2>6
<1>29. ASSUME NEW t \in Threads, AllChannelsOpen(t) PROVE StopInv'
  BY <1>29 DEF AllChannelsOpen
<1>30. ASSUME NEW t \in Threads, Spawn(t) PROVE StopInv'
  BY <1>30 DEF Spawn
<1>31. ASSUME NEW t \in Threads, NoSpawn(t) PROVE StopInv'
  BY <1>31 DEF NoSpawn
<1>32. ASSUME NEW t \in Threads, Confirm(t) PROVE StopInv'
  BY <1>32 DEF Confirm, RunFlagAtReturn
<1>33. ASSUME NEW t \in Threads, AntDisable(t) PROVE StopInv'
  BY <1>33 DEF AntDisable
<1>34. ASSUME NEW t \in Threads, SignalShutdown(t) PROVE StopInv'
  BY <1>34 DEF SignalShutdown
<1>35. ASSUME NEW t \in Threads, Join(t) PROVE StopInv'
  BY <1>35 DEF Join
<1>36. ASSUME NEW t \in Threads, CloseChannel(t) PROVE StopInv'
  BY <1>36 DEF CloseChannel
<1>37. ASSUME NEW t \in Threads, ClosedForReset(t) PROVE StopInv'
  BY <1>37 DEF ClosedForReset
<1>38. ASSUME NEW t \in Threads, ClosedForGood(t) PROVE StopInv'
  BY <1>38 DEF ClosedForGood, Return
<1> QED
  BY <1>0, <1>1, <1>2, <1>3, <1>4, <1>5, <1>6, <1>7, <1>8, <1>9, <1>10,
     <1>11, <1>12, <1>13, <1>14, <1>15, <1>16, <1>17, <1>18, <1>19, <1>20,
     <1>21, <1>22, <1>23, <1>24, <1>25, <1>26, <1>27, <1>28, <1>29, <1>30,
     <1>31, <1>32, <1>33, <1>34, <1>35, <1>36, <1>37, <1>38
     DEF Next, CallerStep, RxStep, OwnerStep

-----------------------------------------------------------------------------
LEMMA InitStep == Init => IInv
<1>1. Init => TypeOK
  BY ThreadsAssumption, ChannelsAssumption
     DEF Init, TypeOK, Threads, Statuses, Routines, Labels
<1>2. Init => StructInv
  BY ThreadsAssumption
     DEF Init, StructInv, OwnerInv, HandleInv, NoSelfJoin, SpawnInv, CloseInv,
         RecordInv, OverrideInv, Serving, ServingLabels, HoldsLock, At, Threads
<1> QED
  BY <1>1, <1>2 DEF IInv

LEMMA InvariantStep == IInv /\ [Next]_vars => IInv'
  BY TypeStep, StructStep DEF IInv

\* The invariant holds initially and in every reachable state.
THEOREM Invariant == Spec => []IInv
  BY InitStep, InvariantStep, PTL DEF Spec

\* Every variable keeps its type: in particular the handle is a receive
\* thread's or 0, and the lock is owned by one thread or none.
THEOREM TypeCorrect == Spec => []TypeOK
  BY Invariant, PTL DEF IInv

\* No receive thread ever polls a channel that was closed under it.
THEOREM ChannelsStayOpen == Spec => []ChannelsOpenWhileServing
<1>1. IInv => ChannelsOpenWhileServing
  BY ThreadsAssumption
     DEF IInv, StructInv, HandleInv, RecordInv, CloseInv, ChannelsOpenWhileServing
<1> QED
  BY <1>1, Invariant, PTL

\* There is at most one serving receive thread, through every reset.
THEOREM OneThreadServes == Spec => []OneServingThread
<1>1. IInv => OneServingThread
  BY DEF IInv, StructInv, HandleInv, OneServingThread
<1> QED
  BY <1>1, Invariant, PTL

\* ant_radio_enabled_status can explain every snapshot of the state.
THEOREM NeverUnknown == Spec => []StatusNeverUnknown
<1>1. IInv => StatusNeverUnknown
  <2> SUFFICES ASSUME IInv, ant_radio_enabled_status = "UNKNOWN" PROVE FALSE
    BY DEF StatusNeverUnknown
  <2>1. stRxThread # NoThread /\ ucRunThread /\ ~AllOpen
    BY DEF ant_radio_enabled_status
  <2>2. PICK t \in Threads : At(t, "close")
    BY <2>1 DEF IInv, StructInv, RecordInv
  <2> QED
    BY <2>1, <2>2 DEF IInv, StructInv, CloseInv, At
<1> QED
  BY <1>1, Invariant, PTL

\* The steps that lock or unlock stEnabledStatusLock.
LEMMA LockSteps ==
  ASSUME Next
  PROVE  \/ lock' = lock
         \/ \E c \in Callers : \/ Acquire(c) \/ RedundantCall(c)
                               \/ EnableSucceeds(c) \/ HardResetReturns(c)
         \/ \E r \in RxThreads : DoResetLocks(r) \/ CleanUp(r) \/ DoResetReports(r)
         \/ \E t \in Threads : ClosedForGood(t)
  BY DEF Next, CallerStep, RxStep, OwnerStep, Call, BeginEnable,
         BeginDisable, BeginHardReset, EnableFails, HardResetReports,
         RxStart, RxLoop, PollData, PollSilence, PollHangup,
         ReadFailsVfs, ReadFailsBt, PollShutdown, EventFdFails, DoReset,
         DoResetStops, LeaveBusy, DoResetClearsFlag, AntEnable,
         OpenChannel, AllChannelsOpen, Spawn, NoSpawn, Confirm,
         AntDisable, SignalShutdown, Join, CloseChannel, ClosedForReset, Threads

\* A return of ant_disable_radio that has closed the channels leaves the radio
\* DISABLED: the step clears the handle, and nobody can have left the override
\* up, since every thread that raises it is serving or owns the lock.
THEOREM DisableIsComplete == Spec => DisableLeavesNothing
<1>1. ASSUME IInv, Next, NEW c \in Callers,
             op[c] = "disable", At(c, "close"), lock' = NoThread
      PROVE  ant_radio_enabled_status' = "DISABLED"
  <2>1. c \in Threads /\ lock = c /\ c # NoThread /\ pc[c] = "close"
    BY <1>1, ThreadsAssumption DEF IInv, StructInv, OwnerInv, Threads, At, HoldsLock
  <2>2. ~ucRunThread /\ \A r \in RxThreads : ~Serving(r)
    BY <1>1, <2>1 DEF IInv, StructInv, CloseInv
  <2>3. \A t \in Threads : pc[t] \in HoldsLock => t = c
    BY <1>1, <2>1 DEF IInv, StructInv, OwnerInv
  <2>4. ~ucChipResetting
    BY <1>1, <2>2, <2>3
       DEF IInv, StructInv, OverrideInv, Serving, ServingLabels, HoldsLock
  <2>5. ClosedForGood(c)
    BY <1>1, <2>1, <2>3, LockSteps
       DEF Acquire, RedundantCall, EnableSucceeds, HardResetReturns, DoResetLocks,
           CleanUp, DoResetReports, ClosedForGood, HoldsLock, At, Threads
  <2> QED
    BY <2>2, <2>4, <2>5 DEF ClosedForGood, ant_radio_enabled_status, AllClosed
<1>2. IInv /\ Next => DisabledAtReturn
  BY <1>1 DEF DisabledAtReturn
<1> QED
  BY <1>2, Invariant, PTL DEF Spec, DisableLeavesNothing

-----------------------------------------------------------------------------
\* With the vfs back-end and an eventfd that works, the receive thread stops
\* only for a thread that joins it.
THEOREM StopInvariant ==
  ASSUME BackEnd = "vfs", "eventFd" \notin Faults
  PROVE  Spec => []ToldIInv
<1>1. Init => StopInv
  BY ThreadsAssumption
     DEF Init, StopInv, ToldInv, FreshStartInv, NoAbandonedThread, At, Threads
<1>2. ToldIInv /\ [Next]_vars => StopInv'
  BY StopStep
<1> QED
  BY <1>1, <1>2, Invariant, PTL DEF Spec, ToldIInv

\* The same assumptions: a thread that has ended is not left on record.
THEOREM NobodyAbandoned ==
  ASSUME BackEnd = "vfs", "eventFd" \notin Faults
  PROVE  Spec => []NoAbandonedThread
  BY StopInvariant, PTL DEF ToldIInv, StopInv

\* And one that finds the lock taken at its end is being joined.
THEOREM BusyThreadWasTold ==
  ASSUME BackEnd = "vfs", "eventFd" \notin Faults
  PROVE  Spec => BusyMeansTold
<1>1. ToldIInv => ToldToLeave
  BY DEF ToldIInv, StopInv, ToldInv, JoinPending, ToldToLeave
<1> QED
  BY <1>1, StopInvariant, PTL DEF BusyMeansTold

-----------------------------------------------------------------------------
\* Everything but the steps of the receive thread in its loop leaves the
\* keepalive state alone and nobody in the loop but those who were there.
LEMMA KeepaliveFrame ==
  ASSUME TypeOK, [Next]_vars
  PROVE  \/ /\ waiting' = waiting
            /\ \A r \in RxThreads : pc'[r] \in {"loop", "poll"} => pc[r] \in {"loop", "poll"}
         \/ \E r \in RxThreads :
              /\ pc[r] \in {"start", "loop", "poll"} /\ waiting' \in {r, waiting, NoThread}
              /\ pc[r] = "start" => waiting' = NoThread
              /\ \A q \in RxThreads \ {r} : pc'[q] = pc[q]
<1> USE ThreadsAssumption
    DEF TypeOK, Threads, At, Goto, radio, Serving, ServingLabels
<1>0. CASE UNCHANGED vars
  BY <1>0 DEF vars
<1>1. ASSUME NEW r \in RxThreads,
             \/ RxStart(r) \/ PollData(r) \/ PollSilence(r) \/ ReadFailsVfs(r)
             \/ ReadFailsBt(r) \/ PollShutdown(r) \/ EventFdFails(r)
      PROVE  /\ pc[r] \in {"start", "loop", "poll"} /\ waiting' \in {r, waiting, NoThread}
             /\ pc[r] = "start" => waiting' = NoThread
             /\ \A q \in RxThreads \ {r} : pc'[q] = pc[q]
  BY <1>1 DEF RxStart, PollData, PollSilence, ReadFailsVfs, ReadFailsBt, PollShutdown,
              EventFdFails
<1>2. ASSUME NEW r \in RxThreads,
             \/ RxLoop(r) \/ PollHangup(r) \/ DoReset(r) \/ DoResetStops(r)
             \/ CleanUp(r) \/ LeaveBusy(r) \/ DoResetClearsFlag(r) \/ DoResetReports(r)
             \/ DoResetLocks(r)
      PROVE  /\ waiting' = waiting
             /\ \A q \in RxThreads : pc'[q] \in {"loop", "poll"} => pc[q] \in {"loop", "poll"}
  BY <1>2 DEF RxLoop, PollHangup, DoReset, DoResetStops, CleanUp, LeaveBusy,
              DoResetClearsFlag, DoResetReports, DoResetLocks, Return
<1>3. ASSUME NEW c \in Callers,
             \/ \E o \in Operations : Call(c, o)
             \/ Acquire(c) \/ RedundantCall(c) \/ BeginEnable(c) \/ BeginDisable(c)
             \/ BeginHardReset(c) \/ EnableSucceeds(c) \/ EnableFails(c)
             \/ HardResetReports(c) \/ HardResetReturns(c)
      PROVE  /\ waiting' = waiting
             /\ \A q \in RxThreads : pc'[q] \in {"loop", "poll"} => pc[q] \in {"loop", "poll"}
  BY <1>3 DEF Call, Acquire, RedundantCall, BeginEnable, BeginDisable, BeginHardReset,
              EnableSucceeds, EnableFails, HardResetReports, HardResetReturns, Return
<1>4. ASSUME NEW t \in Threads, OwnerStep(t)
      PROVE  /\ waiting' = waiting
             /\ \A q \in RxThreads : pc'[q] \in {"loop", "poll"} => pc[q] \in {"loop", "poll"}
  BY <1>4 DEF OwnerStep, AntEnable, OpenChannel, AllChannelsOpen, Spawn, NoSpawn, Confirm,
              AntDisable, SignalShutdown, Join, CloseChannel, ClosedForReset, ClosedForGood,
              Return
<1> QED
  BY <1>0, <1>1, <1>2, <1>3, <1>4 DEF Next, CallerStep, RxStep

\* A receive thread never takes over the keepalive timeout of the thread before
\* it: only the one serving thread sets it, and it clears it when it starts.
THEOREM KeepaliveIsFresh == Spec => []FreshKeepalive
<1>1. Init => FreshKeepalive
  BY ThreadsAssumption DEF Init, FreshKeepalive, Threads
<1>2. ASSUME IInv, FreshKeepalive, [Next]_vars PROVE FreshKeepalive'
  <2>1. TypeOK /\ \A q, r \in RxThreads : Serving(q) /\ Serving(r) => q = r
    BY <1>2 DEF IInv, StructInv, HandleInv
  <2>2. CASE /\ waiting' = waiting
             /\ \A r \in RxThreads : pc'[r] \in {"loop", "poll"} => pc[r] \in {"loop", "poll"}
    BY <1>2, <2>2 DEF FreshKeepalive
  <2>3. ASSUME NEW r \in RxThreads,
               pc[r] \in {"start", "loop", "poll"}, waiting' \in {r, waiting, NoThread},
               pc[r] = "start" => waiting' = NoThread,
               \A q \in RxThreads \ {r} : pc'[q] = pc[q]
        PROVE  FreshKeepalive'
    <3>1. waiting' \in {r, NoThread}
      BY <1>2, <2>3 DEF FreshKeepalive
    <3>2. \A q \in RxThreads \ {r} : pc'[q] \notin {"loop", "poll"}
      BY <2>1, <2>3 DEF Serving, ServingLabels
    <3> QED
      BY <3>1, <3>2 DEF FreshKeepalive
  <2> QED
    BY <1>2, <2>1, <2>2, <2>3, KeepaliveFrame
<1> QED
  BY <1>1, <1>2, Invariant, PTL DEF Spec

-----------------------------------------------------------------------------
\* Who sends a thread to poll(), and who touches the signal or the run flag.
LEMMA SignalFrame ==
  ASSUME BackEnd = "vfs", "eventFd" \notin Faults, IInv, Next
  PROVE  \/ /\ eventFd' = eventFd /\ ucRunThread' = ucRunThread
            /\ \A r \in RxThreads :
                 At(r, "poll")' => At(r, "poll") \/ (At(r, "loop") /\ ucRunThread)
            /\ \A t \in Threads : At(t, "signal") => At(t, "signal")'
         \/ \A r \in RxThreads : ~At(r, "poll")'
         \/ \E t \in Threads : AntDisable(t) \/ SignalShutdown(t)
         \/ \E t \in Threads : AntEnable(t)
<1> USE ThreadsAssumption
    DEF IInv, TypeOK, Threads, At, Goto, radio
<1>1. ASSUME NEW r \in RxThreads,
             \/ RxStart(r) \/ RxLoop(r) \/ PollData(r) \/ PollSilence(r) \/ PollHangup(r)
             \/ ReadFailsVfs(r) \/ DoReset(r) \/ CleanUp(r) \/ LeaveBusy(r)
             \/ DoResetClearsFlag(r) \/ DoResetReports(r) \/ DoResetLocks(r)
      PROVE  /\ eventFd' = eventFd /\ ucRunThread' = ucRunThread
             /\ \A q \in RxThreads :
                  At(q, "poll")' => At(q, "poll") \/ (At(q, "loop") /\ ucRunThread)
             /\ \A t \in Threads : At(t, "signal") => At(t, "signal")'
  BY <1>1 DEF RxStart, RxLoop, PollData, PollSilence, PollHangup, ReadFailsVfs, DoReset,
              CleanUp, LeaveBusy, DoResetClearsFlag, DoResetReports, DoResetLocks, Return
<1>2. ASSUME NEW r \in RxThreads, PollShutdown(r) \/ DoResetStops(r)
      PROVE  \A q \in RxThreads : ~At(q, "poll")'
  BY <1>2 DEF PollShutdown, DoResetStops, StructInv, HandleInv, Serving, ServingLabels
<1>3. ASSUME NEW c \in Callers,
             \/ \E o \in Operations : Call(c, o)
             \/ Acquire(c) \/ RedundantCall(c) \/ BeginEnable(c) \/ BeginDisable(c)
             \/ BeginHardReset(c) \/ EnableSucceeds(c) \/ EnableFails(c)
             \/ HardResetReports(c) \/ HardResetReturns(c)
      PROVE  /\ eventFd' = eventFd /\ ucRunThread' = ucRunThread
             /\ \A q \in RxThreads : At(q, "poll")' => At(q, "poll")
             /\ \A u \in Threads : At(u, "signal") => At(u, "signal")'
  BY <1>3 DEF Call, Acquire, RedundantCall, BeginEnable, BeginDisable, BeginHardReset,
              EnableSucceeds, EnableFails, HardResetReports, HardResetReturns, Return
<1>4. ASSUME NEW t \in Threads,
             \/ AllChannelsOpen(t) \/ Spawn(t) \/ NoSpawn(t) \/ Join(t)
             \/ CloseChannel(t) \/ ClosedForReset(t) \/ ClosedForGood(t)
      PROVE  /\ eventFd' = eventFd /\ ucRunThread' = ucRunThread
             /\ \A q \in RxThreads : At(q, "poll")' => At(q, "poll")
             /\ \A u \in Threads : At(u, "signal") => At(u, "signal")'
  BY <1>4 DEF AllChannelsOpen, Spawn, NoSpawn, Join, CloseChannel, ClosedForReset,
              ClosedForGood, Return
<1>5. ASSUME NEW t \in Threads, OpenChannel(t) \/ Confirm(t)
      PROVE  \/ /\ eventFd' = eventFd /\ ucRunThread' = ucRunThread
                /\ \A q \in RxThreads : At(q, "poll")' => At(q, "poll")
                /\ \A u \in Threads : At(u, "signal") => At(u, "signal")'
             \/ \A q \in RxThreads : ~At(q, "poll")'
  <2>1. /\ \A q \in RxThreads : At(q, "poll")' => At(q, "poll")
        /\ \A u \in Threads : At(u, "signal") => At(u, "signal")'
    BY <1>5 DEF OpenChannel, Confirm
  <2>2. eventFd' = eventFd /\ (ucRunThread' = ucRunThread \/ stRxThread = NoThread)
    BY <1>5 DEF OpenChannel, Confirm, RunFlagAtReturn
  <2>3. stRxThread = NoThread => \A q \in RxThreads : ~At(q, "poll")
    BY DEF StructInv, HandleInv, Serving, ServingLabels
  <2> QED
    BY <2>1, <2>2, <2>3
<1>6. ASSUME NEW r \in RxThreads, ReadFailsBt(r) \/ EventFdFails(r) PROVE FALSE
  BY <1>6 DEF ReadFailsBt, EventFdFails
<1> QED
  BY <1>1, <1>2, <1>3, <1>4, <1>5, <1>6 DEF Next, CallerStep, RxStep, OwnerStep

\* vfs with a working eventfd: through every reset, the signal wakes a thread in
\* poll() only if it was told to stop, and one that was told to has its signal or
\* is about to get it.
THEOREM ShutdownIsSignalled ==
  ASSUME BackEnd = "vfs", "eventFd" \notin Faults
  PROVE  Spec => []ShutdownAgrees
<1>1. Init => ShutdownAgrees
  BY ThreadsAssumption DEF Init, ShutdownAgrees, At, Threads
<1>2. ASSUME ToldIInv, ShutdownAgrees, Next PROVE ShutdownAgrees'
  <2>1. IInv /\ BackEnd = "vfs" /\ "eventFd" \notin Faults
    BY <1>2 DEF ToldIInv
  \* A thread on its way to poll() has not been told, nor is there a signal.
  <2>2. \A r \in RxThreads : At(r, "loop") /\ ucRunThread => ~eventFd
    BY <1>2, <2>1
       DEF ToldIInv, StopInv, ToldInv, JoinPending, StructInv, CloseInv, IInv, At
  \* To tell a thread is to be about to signal it ...
  <2>3. ASSUME NEW t \in Threads, AntDisable(t) PROVE ShutdownAgrees'
    BY <2>1, <2>3, ThreadsAssumption
       DEF AntDisable, ShutdownAgrees, IInv, TypeOK, StructInv, HandleInv, Serving,
           ServingLabels, At, Goto, Threads
  \* ... and only one that was told is signalled.
  <2>4. ASSUME NEW t \in Threads, SignalShutdown(t) PROVE ShutdownAgrees'
    BY <2>1, <2>4
       DEF SignalShutdown, ShutdownAgrees, IInv, StructInv, CloseInv, At, radio
  <2>5. ASSUME NEW t \in Threads, AntEnable(t) PROVE ShutdownAgrees'
    BY <2>5 DEF AntEnable, ShutdownAgrees
  <2>6. CASE /\ eventFd' = eventFd /\ ucRunThread' = ucRunThread
             /\ \A r \in RxThreads :
                  At(r, "poll")' => At(r, "poll") \/ (At(r, "loop") /\ ucRunThread)
             /\ \A t \in Threads : At(t, "signal") => At(t, "signal")'
    BY <1>2, <2>2, <2>6 DEF ShutdownAgrees
  <2> QED
    BY <1>2, <2>1, <2>3, <2>4, <2>5, <2>6, SignalFrame DEF ShutdownAgrees
<1>3. ShutdownAgrees /\ UNCHANGED vars => ShutdownAgrees'
  BY DEF ShutdownAgrees, vars, radio, At
<1> QED
  BY <1>1, <1>2, <1>3, StopInvariant, PTL DEF Spec

-----------------------------------------------------------------------------
\* Who waits for whom.  A thread that waits for the lock waits for another one,
\* which does not wait for it too; and one that joins waits for a thread that
\* has been told to stop and will see it: by its run flag, and in poll() by the
\* signal.  At its end that one finds the lock taken, and leaves.
Answered ==
  \A t \in Threads :
    /\ pc[t] \in {"acquire", "resetLock"} =>
         \/ lock = NoThread
         \/ \E u \in Threads \ {t} : lock = u /\ pc[u] \notin {"acquire", "resetLock"}
    /\ At(t, "join") /\ ~JoinCycle =>
         /\ ~ucRunThread
         /\ \/ pc[stRxThread] \in {"start", "loop", "tryLock", "gone"}
            \/ At(stRxThread, "poll") /\ eventFd

\* The thread on record serves or has gone, and is signalled while it is joined.
JoinedInv ==
  /\ stRxThread # NoThread => pc[stRxThread] \in ServingLabels \cup {"gone"}
  /\ \A t \in Threads :
       /\ pc[t] \in {"signal", "join"} => stRxThread # NoThread
       /\ At(t, "join") /\ At(stRxThread, "poll") => eventFd

\* Every step preserves this: only the owner of the lock empties the record, and
\* only the joined thread itself, or the owner's ant_enable, takes the signal.
LEMMA JoinedStep == IInv /\ JoinedInv /\ [Next]_vars => JoinedInv'
<1> SUFFICES ASSUME IInv, JoinedInv, [Next]_vars PROVE JoinedInv'
  OBVIOUS
<1> USE ThreadsAssumption
    DEF IInv, TypeOK, Threads, At, Goto, radio, StructInv, OwnerInv, HandleInv,
        NoSelfJoin, CloseInv, Serving, ServingLabels, HoldsLock, JoinedInv
<1>0. CASE UNCHANGED vars
  BY <1>0 DEF vars
<1>1. ASSUME NEW c \in Callers, NEW o \in Operations, Call(c, o) PROVE JoinedInv'
  BY <1>1 DEF Call
<1>2. ASSUME NEW c \in Callers, Acquire(c) \/ RedundantCall(c) \/ BeginEnable(c)
      PROVE  JoinedInv'
  BY <1>2 DEF Acquire, RedundantCall, Return, BeginEnable
<1>3. ASSUME NEW c \in Callers, BeginDisable(c) \/ BeginHardReset(c) \/ EnableSucceeds(c)
      PROVE  JoinedInv'
  BY <1>3 DEF BeginDisable, BeginHardReset, EnableSucceeds, Return
<1>4. ASSUME NEW c \in Callers, EnableFails(c) \/ HardResetReports(c) \/ HardResetReturns(c)
      PROVE  JoinedInv'
  BY <1>4 DEF EnableFails, HardResetReports, HardResetReturns, Return
<1>5. ASSUME NEW r \in RxThreads, RxStart(r) \/ PollData(r) \/ PollSilence(r) \/ PollHangup(r)
      PROVE  JoinedInv'
  BY <1>5 DEF RxStart, PollData, PollSilence, PollHangup
<1>6. ASSUME NEW r \in RxThreads, RxLoop(r) PROVE JoinedInv'
  BY <1>6 DEF RxLoop
<1>7. ASSUME NEW r \in RxThreads, ReadFailsVfs(r) \/ ReadFailsBt(r) PROVE JoinedInv'
  BY <1>7 DEF ReadFailsVfs, ReadFailsBt
<1>8. ASSUME NEW r \in RxThreads, PollShutdown(r) \/ EventFdFails(r) PROVE JoinedInv'
  BY <1>8 DEF PollShutdown, EventFdFails
<1>9. ASSUME NEW r \in RxThreads, DoReset(r) \/ DoResetStops(r) \/ LeaveBusy(r)
      PROVE  JoinedInv'
  BY <1>9 DEF DoReset, DoResetStops, LeaveBusy
<1>10. ASSUME NEW r \in RxThreads, DoResetLocks(r) \/ CleanUp(r) PROVE JoinedInv'
  BY <1>10 DEF DoResetLocks, CleanUp
<1>11. ASSUME NEW r \in RxThreads, DoResetClearsFlag(r) \/ DoResetReports(r) PROVE JoinedInv'
  BY <1>11 DEF DoResetClearsFlag, DoResetReports, Return
<1>12. ASSUME NEW t \in Threads, AntEnable(t) \/ AllChannelsOpen(t) \/ NoSpawn(t)
       PROVE  JoinedInv'
  BY <1>12 DEF AntEnable, AllChannelsOpen, NoSpawn
<1>13. ASSUME NEW t \in Threads, OpenChannel(t) PROVE JoinedInv'
  BY <1>13 DEF OpenChannel
<1>14. ASSUME NEW t \in Threads, Spawn(t) PROVE JoinedInv'
  BY <1>14 DEF Spawn
<1>15. ASSUME NEW t \in Threads, Confirm(t) PROVE JoinedInv'
  BY <1>15 DEF Confirm
<1>16. ASSUME NEW t \in Threads, AntDisable(t) PROVE JoinedInv'
  BY <1>16 DEF AntDisable
<1>17. ASSUME NEW t \in Threads, SignalShutdown(t) PROVE JoinedInv'
  BY <1>17 DEF SignalShutdown
<1>18. ASSUME NEW t \in Threads, Join(t) \/ CloseChannel(t) PROVE JoinedInv'
  BY <1>18 DEF Join, CloseChannel
<1>19. ASSUME NEW t \in Threads, ClosedForReset(t) \/ ClosedForGood(t) PROVE JoinedInv'
  BY <1>19 DEF ClosedForReset, ClosedForGood, Return
<1> QED
  BY <1>0, <1>1, <1>2, <1>3, <1>4, <1>5, <1>6, <1>7, <1>8, <1>9, <1>10, <1>11, <1>12,
     <1>13, <1>14, <1>15, <1>16, <1>17, <1>18, <1>19 DEF Next, CallerStep, RxStep, OwnerStep

\* Both back-ends, whatever fails: apart from the join cycle nobody waits for a
\* thread that waits in turn, or that has not been told to stop.  (LockReleased
\* is this, and the fairness with which threads run.)
THEOREM WaitsAreAnswered == Spec => []Answered
<1>1. Init => JoinedInv
  BY DEF Init, JoinedInv, At, Threads
<1>2. ASSUME IInv, JoinedInv PROVE Answered
  <2>1. ASSUME NEW t \in Threads, pc[t] \in {"acquire", "resetLock"}, lock # NoThread
        PROVE  \E u \in Threads \ {t} : lock = u /\ pc[u] \notin {"acquire", "resetLock"}
    BY <1>2, <2>1 DEF IInv, TypeOK, StructInv, OwnerInv, HoldsLock
  <2>2. ASSUME NEW t \in Threads, At(t, "join"), ~JoinCycle
        PROVE  /\ ~ucRunThread
               /\ \/ pc[stRxThread] \in {"start", "loop", "tryLock", "gone"}
                  \/ At(stRxThread, "poll") /\ eventFd
    BY <1>2, <2>2 DEF IInv, StructInv, CloseInv, JoinedInv, JoinCycle, ServingLabels, At
  <2> QED
    BY <2>1, <2>2 DEF Answered
<1> QED
  BY <1>1, <1>2, JoinedStep, Invariant, PTL DEF Spec
=============================================================================
