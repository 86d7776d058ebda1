-------------------------- MODULE ChardevSettledProofs --------------------------
(***************************************************************************)
(* Once nobody is inside the API or recovering the radio, the application  *)
(* has last been told the status the radio has: the proof of               *)
(* QuiescentAgreement for the vfs back-end with an eventfd that works, and *)
(* for bt what BtTransportProofs needs of the radio for SettledStatus.     *)
(***************************************************************************)
EXTENDS ChardevRadioProofs

Resetting == \E r \in RxThreads : pc[r] \in {"resetFlag", "resetRun", "resetLock"}

\* Receive threads never wait as callers do.
RxLabelsInv == \A r \in RxThreads : pc[r] \in {"gone"} \cup ServingLabels \cup HoldsLock

\* Without a thread the run flag is up only in ant_enable, or where ant_disable
\* is about to lower it.
RunInv ==
  ucRunThread /\ stRxThread = NoThread
    => \E t \in Threads : pc[t] \in {"open", "spawn", "confirm", "disable"}

\* An ant_enable that succeeds has opened every channel, and one that fails
\* leaves a receive thread only if that thread is about to reset the radio.
OutcomeInv ==
  \A t \in Threads :
    /\ pc[t] \in {"confirm", "enabled", "recovered"} => AllOpen
    /\ pc[t] \in {"failed", "lost"} /\ stRxThread # NoThread => Resetting

\* What the application was told last is so, or the radio is stranded.
LastWord ==
  /\ stRxThread # NoThread => notified \in {"ENABLED", "RESET"}
  /\ stRxThread = NoThread => notified = "DISABLED" \/ ~AllClosed

\* Places at which a thread owes the application no report.
Reported == {"idle", "acquire", "check", "gone", "clearFlag"} \cup ServingLabels

LastWordInv == Resetting \/ (\E t \in Threads : pc[t] \notin Reported) \/ LastWord

SettledInv == RxLabelsInv /\ RunInv /\ OutcomeInv /\ LastWordInv

SettledIInv == ToldIInv /\ SettledInv

-----------------------------------------------------------------------------
LEMMA OpenIsNotClosed == AllOpen => ~AllClosed
<1>1. 0 \in Channels
  BY ChannelsAssumption DEF Channels
<1> QED
  BY <1>1 DEF AllOpen, AllClosed

LEMMA RxLabelsStep ==
  ASSUME IInv, RxLabelsInv, [Next]_vars
  PROVE  RxLabelsInv'
<1> USE ThreadsAssumption, ChannelsAssumption
    DEF IInv, TypeOK, Threads, At, Goto, radio, ServingLabels, HoldsLock, RxLabelsInv
<1>0. CASE UNCHANGED vars
  BY <1>0 DEF vars
<1>1. ASSUME NEW c \in Callers, NEW o \in Operations, Call(c, o) PROVE RxLabelsInv'
  BY <1>1, EnvironmentAssumption DEF Call
<1>2. ASSUME NEW c \in Callers,
             \/ Acquire(c) \/ RedundantCall(c) \/ BeginEnable(c) \/ BeginDisable(c)
             \/ BeginHardReset(c) \/ EnableSucceeds(c) \/ EnableFails(c)
             \/ HardResetReports(c) \/ HardResetReturns(c)
      PROVE  RxLabelsInv'
  BY <1>2
  DEF Acquire, RedundantCall, Return, BeginEnable, BeginDisable, BeginHardReset,
      EnableSucceeds, EnableFails, HardResetReports, HardResetReturns
<1>3. ASSUME NEW r \in RxThreads,
             \/ RxStart(r) \/ RxLoop(r) \/ PollData(r) \/ PollSilence(r)
             \/ PollHangup(r) \/ ReadFailsVfs(r) \/ ReadFailsBt(r) \/ PollShutdown(r)
      PROVE  RxLabelsInv'
  BY <1>3
  DEF RxStart, RxLoop, PollData, PollSilence, PollHangup, ReadFailsVfs, ReadFailsBt,
      PollShutdown
<1>4. ASSUME NEW r \in RxThreads,
             \/ EventFdFails(r) \/ DoReset(r) \/ DoResetStops(r) \/ DoResetLocks(r)
             \/ CleanUp(r) \/ LeaveBusy(r) \/ DoResetClearsFlag(r)
             \/ DoResetReports(r)
      PROVE  RxLabelsInv'
  BY <1>4
  DEF EventFdFails, DoReset, DoResetStops, DoResetLocks, CleanUp, LeaveBusy,
      DoResetClearsFlag, DoResetReports, Return
<1>5. ASSUME NEW t \in Threads,
             \/ AntEnable(t) \/ OpenChannel(t) \/ AllChannelsOpen(t) \/ Spawn(t)
             \/ NoSpawn(t) \/ Confirm(t)
      PROVE  RxLabelsInv'
  BY <1>5
  DEF AntEnable, OpenChannel, FirstClosed, RunFlagAtReturn, AllChannelsOpen, Spawn,
      NoSpawn, Confirm
<1>6. ASSUME NEW t \in Threads,
             \/ AntDisable(t) \/ SignalShutdown(t) \/ Join(t) \/ CloseChannel(t)
             \/ ClosedForReset(t) \/ ClosedForGood(t)
      PROVE  RxLabelsInv'
  BY <1>6
  DEF AntDisable, SignalShutdown, Join, CloseChannel, ClosedForReset, ClosedForGood, Return
<1> QED
  BY <1>0, <1>1, <1>2, <1>3, <1>4, <1>5, <1>6
     DEF Next, CallerStep, RxStep, OwnerStep

LEMMA RunStep ==
  ASSUME BackEnd = "vfs", "eventFd" \notin Faults, SettledIInv, [Next]_vars
  PROVE  RunInv'
<1> USE ThreadsAssumption, ChannelsAssumption
    DEF SettledIInv, SettledInv, ToldIInv, IInv, TypeOK, Threads, At, Goto, radio,
        ServingLabels, HoldsLock, RunInv, StructInv, OwnerInv, CloseInv
<1>0. CASE UNCHANGED vars
  BY <1>0 DEF vars
<1>1. ASSUME NEW c \in Callers, NEW o \in Operations, Call(c, o) PROVE RunInv'
  BY <1>1, EnvironmentAssumption DEF Call
<1>2. ASSUME NEW c \in Callers,
             \/ Acquire(c) \/ RedundantCall(c) \/ BeginEnable(c) \/ BeginDisable(c)
             \/ BeginHardReset(c) \/ EnableSucceeds(c) \/ EnableFails(c)
             \/ HardResetReports(c) \/ HardResetReturns(c)
      PROVE  RunInv'
  BY <1>2
  DEF Acquire, RedundantCall, Return, BeginEnable, BeginDisable, BeginHardReset,
      EnableSucceeds, EnableFails, HardResetReports, HardResetReturns
<1>3. ASSUME NEW r \in RxThreads,
             \/ RxStart(r) \/ RxLoop(r) \/ PollData(r) \/ PollSilence(r)
             \/ PollHangup(r) \/ ReadFailsVfs(r) \/ ReadFailsBt(r) \/ PollShutdown(r)
      PROVE  RunInv'
  BY <1>3
  DEF RxStart, RxLoop, PollData, PollSilence, PollHangup, ReadFailsVfs, ReadFailsBt,
      PollShutdown
<1>4. ASSUME NEW r \in RxThreads,
             \/ EventFdFails(r) \/ DoReset(r) \/ DoResetStops(r) \/ DoResetLocks(r)
             \/ CleanUp(r) \/ LeaveBusy(r) \/ DoResetClearsFlag(r)
             \/ DoResetReports(r)
      PROVE  RunInv'
  BY <1>4
  DEF EventFdFails, DoReset, DoResetStops, DoResetLocks, CleanUp, LeaveBusy,
      DoResetClearsFlag, DoResetReports, Return
<1>5. ASSUME NEW t \in Threads,
             \/ AntEnable(t) \/ OpenChannel(t) \/ AllChannelsOpen(t) \/ Spawn(t)
             \/ NoSpawn(t) \/ Confirm(t)
      PROVE  RunInv'
  BY <1>5
  DEF AntEnable, OpenChannel, FirstClosed, RunFlagAtReturn, AllChannelsOpen, Spawn,
      NoSpawn, Confirm
<1>6. ASSUME NEW t \in Threads,
             \/ AntDisable(t) \/ SignalShutdown(t) \/ Join(t) \/ CloseChannel(t)
             \/ ClosedForReset(t) \/ ClosedForGood(t)
      PROVE  RunInv'
  BY <1>6
  DEF AntDisable, SignalShutdown, Join, CloseChannel, ClosedForReset, ClosedForGood, Return
<1> QED
  BY <1>0, <1>1, <1>2, <1>3, <1>4, <1>5, <1>6
     DEF Next, CallerStep, RxStep, OwnerStep

LEMMA OutcomeStep ==
  ASSUME BackEnd = "vfs", "eventFd" \notin Faults, SettledIInv, [Next]_vars
  PROVE  OutcomeInv'
<1> USE ThreadsAssumption, ChannelsAssumption
    DEF SettledIInv, SettledInv, ToldIInv, IInv, TypeOK, Threads, At, Goto, radio,
        ServingLabels, HoldsLock, OutcomeInv, Resetting, AllOpen, StructInv,
        OwnerInv, SpawnInv, RecordInv, NoSelfJoin, HandleInv, RxLabelsInv, StopInv,
        ToldInv, JoinPending, NoAbandonedThread, Serving
<1>0. CASE UNCHANGED vars
  BY <1>0 DEF vars
<1>1. ASSUME NEW c \in Callers, NEW o \in Operations, Call(c, o) PROVE OutcomeInv'
  BY <1>1, EnvironmentAssumption DEF Call
<1>2. ASSUME NEW c \in Callers, Acquire(c) PROVE OutcomeInv'
  BY <1>2 DEF Acquire
<1>3. ASSUME NEW c \in Callers, RedundantCall(c) PROVE OutcomeInv'
  BY <1>3 DEF RedundantCall, Return
<1>4. ASSUME NEW c \in Callers, BeginEnable(c) PROVE OutcomeInv'
  BY <1>4 DEF BeginEnable
<1>5. ASSUME NEW c \in Callers, BeginDisable(c) PROVE OutcomeInv'
  BY <1>5 DEF BeginDisable
<1>6. ASSUME NEW c \in Callers, BeginHardReset(c) PROVE OutcomeInv'
  BY <1>6 DEF BeginHardReset
<1>7. ASSUME NEW c \in Callers, EnableSucceeds(c) PROVE OutcomeInv'
  BY <1>7 DEF EnableSucceeds, Return
<1>8. ASSUME NEW c \in Callers, EnableFails(c) PROVE OutcomeInv'
  BY <1>8 DEF EnableFails
<1>9. ASSUME NEW c \in Callers, HardResetReports(c) PROVE OutcomeInv'
  BY <1>9 DEF HardResetReports
<1>10. ASSUME NEW c \in Callers, HardResetReturns(c) PROVE OutcomeInv'
  BY <1>10 DEF HardResetReturns, Return
<1>11. ASSUME NEW r \in RxThreads, RxStart(r) PROVE OutcomeInv'
  BY <1>11 DEF RxStart
<1>12. ASSUME NEW r \in RxThreads, RxLoop(r) PROVE OutcomeInv'
  BY <1>12 DEF RxLoop
<1>13. ASSUME NEW r \in RxThreads, PollData(r) PROVE OutcomeInv'
  BY <1>13 DEF PollData
<1>14. ASSUME NEW r \in RxThreads, PollSilence(r) PROVE OutcomeInv'
  BY <1>14 DEF PollSilence
<1>15. ASSUME NEW r \in RxThreads, PollHangup(r) PROVE OutcomeInv'
  BY <1>15 DEF PollHangup
<1>16. ASSUME NEW r \in RxThreads, ReadFailsVfs(r) PROVE OutcomeInv'
  BY <1>16 DEF ReadFailsVfs
<1>17. ASSUME NEW r \in RxThreads, ReadFailsBt(r) PROVE OutcomeInv'
  BY <1>17 DEF ReadFailsBt
<1>18. ASSUME NEW r \in RxThreads, PollShutdown(r) PROVE OutcomeInv'
  BY <1>18 DEF PollShutdown
<1>19. ASSUME NEW r \in RxThreads, EventFdFails(r) PROVE OutcomeInv'
  BY <1>19 DEF EventFdFails
<1>20. ASSUME NEW r \in RxThreads, DoReset(r) PROVE OutcomeInv'
  BY <1>20 DEF DoReset
<1>21. ASSUME NEW r \in RxThreads, DoResetStops(r) PROVE OutcomeInv'
  BY <1>21 DEF DoResetStops
<1>22. ASSUME NEW r \in RxThreads, DoResetLocks(r) PROVE OutcomeInv'
  BY <1>22 DEF DoResetLocks
<1>23. ASSUME NEW r \in RxThreads, CleanUp(r) PROVE OutcomeInv'
  BY <1>23 DEF CleanUp
<1>24. ASSUME NEW r \in RxThreads, LeaveBusy(r) PROVE OutcomeInv'
  BY <1>24 DEF LeaveBusy
<1>25. ASSUME NEW r \in RxThreads, DoResetClearsFlag(r) PROVE OutcomeInv'
  BY <1>25 DEF DoResetClearsFlag
<1>26. ASSUME NEW r \in RxThreads, DoResetReports(r) PROVE OutcomeInv'
  BY <1>26 DEF DoResetReports, Return
<1>27. ASSUME NEW t \in Threads, AntEnable(t) PROVE OutcomeInv'
  BY <1>27 DEF AntEnable
<1>28. ASSUME NEW t \in Threads, OpenChannel(t) PROVE OutcomeInv'
  BY <1>28 DEF OpenChannel, FirstClosed, RunFlagAtReturn
<1>29. ASSUME NEW t \in Threads, AllChannelsOpen(t) PROVE OutcomeInv'
  BY <1>29 DEF AllChannelsOpen
<1>30. ASSUME NEW t \in Threads, Spawn(t) PROVE OutcomeInv'
  BY <1>30 DEF Spawn
<1>31. ASSUME NEW t \in Threads, NoSpawn(t) PROVE OutcomeInv'
  BY <1>31 DEF NoSpawn
<1>32. ASSUME NEW t \in Threads, Confirm(t) PROVE OutcomeInv'
  BY <1>32 DEF Confirm, RunFlagAtReturn
<1>33. ASSUME NEW t \in Threads, AntDisable(t) PROVE OutcomeInv'
  BY <1>33 DEF AntDisable
<1>34. ASSUME NEW t \in Threads, SignalShutdown(t) PROVE OutcomeInv'
  BY <1>34 DEF SignalShutdown
<1>35. ASSUME NEW t \in Threads, Join(t) PROVE OutcomeInv'
  BY <1>35 DEF Join
<1>36. ASSUME NEW t \in Threads, CloseChannel(t) PROVE OutcomeInv'
  BY <1>36 DEF CloseChannel
<1>37. ASSUME NEW t \in Threads, ClosedForReset(t) PROVE OutcomeInv'
  BY <1>37 DEF ClosedForReset
<1>38. ASSUME NEW t \in Threads, ClosedForGood(t) PROVE OutcomeInv'
  BY <1>38 DEF ClosedForGood, Return, ant_radio_enabled_status
<1> QED
  BY <1>0, <1>1, <1>2, <1>3, <1>4, <1>5, <1>6, <1>7, <1>8, <1>9, <1>10,
     <1>11, <1>12, <1>13, <1>14, <1>15, <1>16, <1>17, <1>18, <1>19, <1>20,
     <1>21, <1>22, <1>23, <1>24, <1>25, <1>26, <1>27, <1>28, <1>29, <1>30,
     <1>31, <1>32, <1>33, <1>34, <1>35, <1>36, <1>37, <1>38
     DEF Next, CallerStep, RxStep, OwnerStep

LEMMA LastWordStep ==
  ASSUME BackEnd = "vfs", "eventFd" \notin Faults, SettledIInv, [Next]_vars
  PROVE  LastWordInv'
<1> USE ThreadsAssumption, ChannelsAssumption
    DEF SettledIInv, SettledInv, ToldIInv, IInv, TypeOK, Threads, At, Goto, radio,
        ServingLabels, HoldsLock, OutcomeInv, Resetting, AllOpen, AllClosed,
        StructInv, OwnerInv, CloseInv, OverrideInv, Serving, Reported, LastWord, LastWordInv
<1>0. CASE UNCHANGED vars
  BY <1>0 DEF vars
<1>1. ASSUME NEW c \in Callers, NEW o \in Operations, Call(c, o) PROVE LastWordInv'
  BY <1>1, EnvironmentAssumption DEF Call
<1>2. ASSUME NEW c \in Callers, Acquire(c) PROVE LastWordInv'
  BY <1>2 DEF Acquire
<1>3. ASSUME NEW c \in Callers, RedundantCall(c) PROVE LastWordInv'
  BY <1>3 DEF RedundantCall, Return
<1>4. ASSUME NEW c \in Callers, BeginEnable(c) PROVE LastWordInv'
  BY <1>4 DEF BeginEnable
<1>5. ASSUME NEW c \in Callers, BeginDisable(c) PROVE LastWordInv'
  BY <1>5 DEF BeginDisable
<1>6. ASSUME NEW c \in Callers, BeginHardReset(c) PROVE LastWordInv'
  BY <1>6 DEF BeginHardReset
<1>7. ASSUME NEW c \in Callers, EnableSucceeds(c) PROVE LastWordInv'
  BY <1>7, OpenIsNotClosed DEF EnableSucceeds, Return
<1>8. ASSUME NEW c \in Callers, EnableFails(c) PROVE LastWordInv'
  BY <1>8 DEF EnableFails
<1>9. ASSUME NEW c \in Callers, HardResetReports(c) PROVE LastWordInv'
  BY <1>9, OpenIsNotClosed DEF HardResetReports
<1>10. ASSUME NEW c \in Callers, HardResetReturns(c) PROVE LastWordInv'
  BY <1>10 DEF HardResetReturns, Return
<1>11. ASSUME NEW r \in RxThreads, RxStart(r) PROVE LastWordInv'
  BY <1>11 DEF RxStart
<1>12. ASSUME NEW r \in RxThreads, RxLoop(r) PROVE LastWordInv'
  BY <1>12 DEF RxLoop
<1>13. ASSUME NEW r \in RxThreads, PollData(r) PROVE LastWordInv'
  BY <1>13 DEF PollData
<1>14. ASSUME NEW r \in RxThreads, PollSilence(r) PROVE LastWordInv'
  BY <1>14 DEF PollSilence
<1>15. ASSUME NEW r \in RxThreads, PollHangup(r) PROVE LastWordInv'
  BY <1>15 DEF PollHangup
<1>16. ASSUME NEW r \in RxThreads, ReadFailsVfs(r) PROVE LastWordInv'
  BY <1>16 DEF ReadFailsVfs
<1>17. ASSUME NEW r \in RxThreads, ReadFailsBt(r) PROVE LastWordInv'
  BY <1>17 DEF ReadFailsBt
<1>18. ASSUME NEW r \in RxThreads, PollShutdown(r) PROVE LastWordInv'
  BY <1>18 DEF PollShutdown
<1>19. ASSUME NEW r \in RxThreads, EventFdFails(r) PROVE LastWordInv'
  BY <1>19 DEF EventFdFails
<1>20. ASSUME NEW r \in RxThreads, DoReset(r) PROVE LastWordInv'
  BY <1>20 DEF DoReset
<1>21. ASSUME NEW r \in RxThreads, DoResetStops(r) PROVE LastWordInv'
  BY <1>21 DEF DoResetStops
<1>22. ASSUME NEW r \in RxThreads, DoResetLocks(r) PROVE LastWordInv'
  BY <1>22 DEF DoResetLocks
<1>23. ASSUME NEW r \in RxThreads, CleanUp(r) PROVE LastWordInv'
  BY <1>23 DEF CleanUp
<1>24. ASSUME NEW r \in RxThreads, LeaveBusy(r) PROVE LastWordInv'
  BY <1>24 DEF LeaveBusy
<1>25. ASSUME NEW r \in RxThreads, DoResetClearsFlag(r) PROVE LastWordInv'
  BY <1>25 DEF DoResetClearsFlag
<1>26. ASSUME NEW r \in RxThreads, DoResetReports(r) PROVE LastWordInv'
  BY <1>26, OpenIsNotClosed DEF DoResetReports, Return
<1>27. ASSUME NEW t \in Threads, AntEnable(t) PROVE LastWordInv'
  BY <1>27 DEF AntEnable
<1>28. ASSUME NEW t \in Threads, OpenChannel(t) PROVE LastWordInv'
  BY <1>28 DEF OpenChannel, FirstClosed, RunFlagAtReturn
<1>29. ASSUME NEW t \in Threads, AllChannelsOpen(t) PROVE LastWordInv'
  BY <1>29 DEF AllChannelsOpen
<1>30. ASSUME NEW t \in Threads, Spawn(t) PROVE LastWordInv'
  BY <1>30 DEF Spawn
<1>31. ASSUME NEW t \in Threads, NoSpawn(t) PROVE LastWordInv'
  BY <1>31 DEF NoSpawn
<1>32. ASSUME NEW t \in Threads, Confirm(t) PROVE LastWordInv'
  BY <1>32 DEF Confirm, RunFlagAtReturn
<1>33. ASSUME NEW t \in Threads, AntDisable(t) PROVE LastWordInv'
  BY <1>33 DEF AntDisable
<1>34. ASSUME NEW t \in Threads, SignalShutdown(t) PROVE LastWordInv'
  BY <1>34 DEF SignalShutdown
<1>35. ASSUME NEW t \in Threads, Join(t) PROVE LastWordInv'
  BY <1>35 DEF Join
<1>36. ASSUME NEW t \in Threads, CloseChannel(t) PROVE LastWordInv'
  BY <1>36 DEF CloseChannel
<1>37. ASSUME NEW t \in Threads, ClosedForReset(t) PROVE LastWordInv'
  BY <1>37 DEF ClosedForReset
<1>38. ASSUME NEW t \in Threads, ClosedForGood(t) PROVE LastWordInv'
  BY <1>38 DEF ClosedForGood, Return, ant_radio_enabled_status
<1> QED
  BY <1>0, <1>1, <1>2, <1>3, <1>4, <1>5, <1>6, <1>7, <1>8, <1>9, <1>10,
     <1>11, <1>12, <1>13, <1>14, <1>15, <1>16, <1>17, <1>18, <1>19, <1>20,
     <1>21, <1>22, <1>23, <1>24, <1>25, <1>26, <1>27, <1>28, <1>29, <1>30,
     <1>31, <1>32, <1>33, <1>34, <1>35, <1>36, <1>37, <1>38
     DEF Next, CallerStep, RxStep, OwnerStep

\* vfs with a working eventfd: what the threads owe the application, they report
\* before they let go of the lock.
THEOREM SettledInvariant ==
  ASSUME BackEnd = "vfs", "eventFd" \notin Faults
  PROVE  Spec => []SettledIInv
<1>1. Init => SettledInv
  BY ThreadsAssumption
     DEF Init, SettledInv, RxLabelsInv, RunInv, OutcomeInv, LastWordInv, LastWord,
         Reported, Threads
<1>2. SettledIInv /\ [Next]_vars => SettledInv'
  BY RxLabelsStep, RunStep, OutcomeStep, LastWordStep DEF SettledInv, SettledIInv, ToldIInv
<1> QED
  BY <1>1, <1>2, StopInvariant, PTL DEF Spec, SettledIInv

\* Once everything has settled, the application has last been told the status
\* the radio has, unless the radio is stranded.
THEOREM SettledTruth ==
  ASSUME BackEnd = "vfs", "eventFd" \notin Faults
  PROVE  Spec => []QuiescentAgreement
<1>1. ASSUME SettledIInv, Quiescent, ~Stranded
      PROVE  ant_radio_enabled_status = IF notified = "RESET" THEN "ENABLED" ELSE notified
  <2> USE <1>1, ThreadsAssumption DEF SettledIInv, SettledInv, ToldIInv, IInv, StructInv
  <2>1. LastWord
    BY DEF Quiescent, LastWordInv, Resetting, Reported, ServingLabels, Threads
  <2>2. ~ucChipResetting
    BY DEF Quiescent, OverrideInv, HoldsLock, Threads
  <2>3. CASE stRxThread = NoThread
    <3>1. ~ucRunThread
      BY <2>3 DEF Quiescent, RunInv
    <3>2. AllClosed
      BY <2>3 DEF Stranded
    <3> QED
      BY <2>1, <2>2, <2>3, <3>1, <3>2 DEF LastWord, ant_radio_enabled_status
  <2>4. CASE stRxThread # NoThread
    <3>1. AllOpen
      BY <2>4 DEF Quiescent, RecordInv, At
    <3>2. stRxThread \in RxThreads /\ pc[stRxThread] \in {"start", "loop", "poll"}
      BY <2>4 DEF TypeOK, Quiescent, StopInv, NoAbandonedThread, RxLabelsInv, At, Threads,
                  ServingLabels, HoldsLock
    <3>3. ucRunThread
      BY <3>2 DEF TypeOK, Quiescent, StopInv, ToldInv, JoinPending, At
    <3> QED
      BY <2>1, <2>2, <2>4, <3>1, <3>3 DEF LastWord, ant_radio_enabled_status
  <2> QED
    BY <2>3, <2>4
<1> QED
  BY <1>1, SettledInvariant, PTL DEF QuiescentAgreement

-----------------------------------------------------------------------------
(* bt: a receive thread stops by itself when a read or its eventfd fails.  *)

\* Without a thread on record nobody lowers the run flag an ant_enable has
\* raised, and with one only its end makes an ant_enable fail.
FlagInv ==
  \A t \in Threads :
    /\ pc[t] \in {"open", "spawn", "confirm", "enabled", "failed", "recovered", "lost"}
         /\ stRxThread = NoThread => ucRunThread
    /\ pc[t] \in {"failed", "lost"} /\ stRxThread # NoThread => ~ucRunThread

\* A receive thread that has not been back to its loop yet is stopped by
\* ant_disable only.
PollInv == \A r \in RxThreads : pc[r] \in {"start", "poll"} /\ ~ucRunThread => JoinPending

\* What the application was told last is so, or the thread on record will say
\* more, or ant_enable has left the run flag up.
BtLastWord ==
  IF stRxThread # NoThread THEN ucRunThread => notified \in {"ENABLED", "RESET"}
  ELSE ucRunThread \/ (AllClosed /\ notified = "DISABLED")

BtLastWordInv == Resetting \/ (\E t \in Threads : pc[t] \notin Reported) \/ BtLastWord

BtSettledInv == RxLabelsInv /\ FlagInv /\ PollInv /\ BtLastWordInv

BtSettledIInv == IInv /\ BtSettledInv

LEMMA FlagStep ==
  ASSUME BackEnd = "bt", BtSettledIInv, [Next]_vars
  PROVE  FlagInv'
<1> USE ThreadsAssumption, ChannelsAssumption
    DEF BtSettledIInv, BtSettledInv, IInv, TypeOK, Threads, At, Goto, radio,
        ServingLabels, HoldsLock, FlagInv, AllOpen, StructInv, OwnerInv, HandleInv,
        RecordInv, CloseInv, Serving
<1>0. CASE UNCHANGED vars
  BY <1>0 DEF vars
<1>1. ASSUME NEW c \in Callers, NEW o \in Operations, Call(c, o) PROVE FlagInv'
  BY <1>1, EnvironmentAssumption DEF Call
<1>2. ASSUME NEW c \in Callers, Acquire(c) PROVE FlagInv'
  BY <1>2 DEF Acquire
<1>3. ASSUME NEW c \in Callers, RedundantCall(c) PROVE FlagInv'
  BY <1>3 DEF RedundantCall, Return
<1>4. ASSUME NEW c \in Callers, BeginEnable(c) PROVE FlagInv'
  BY <1>4 DEF BeginEnable
<1>5. ASSUME NEW c \in Callers, BeginDisable(c) PROVE FlagInv'
  BY <1>5 DEF BeginDisable
<1>6. ASSUME NEW c \in Callers, BeginHardReset(c) PROVE FlagInv'
  BY <1>6 DEF BeginHardReset
<1>7. ASSUME NEW c \in Callers, EnableSucceeds(c) PROVE FlagInv'
  BY <1>7 DEF EnableSucceeds, Return
<1>8. ASSUME NEW c \in Callers, EnableFails(c) PROVE FlagInv'
  BY <1>8 DEF EnableFails
<1>9. ASSUME NEW c \in Callers, HardResetReports(c) PROVE FlagInv'
  BY <1>9 DEF HardResetReports
<1>10. ASSUME NEW c \in Callers, HardResetReturns(c) PROVE FlagInv'
  BY <1>10 DEF HardResetReturns, Return
<1>11. ASSUME NEW r \in RxThreads, RxStart(r) PROVE FlagInv'
  BY <1>11 DEF RxStart
<1>12. ASSUME NEW r \in RxThreads, RxLoop(r) PROVE FlagInv'
  BY <1>12 DEF RxLoop
<1>13. ASSUME NEW r \in RxThreads, PollData(r) PROVE FlagInv'
  BY <1>13 DEF PollData
<1>14. ASSUME NEW r \in RxThreads, PollSilence(r) PROVE FlagInv'
  BY <1>14 DEF PollSilence
<1>15. ASSUME NEW r \in RxThreads, PollHangup(r) PROVE FlagInv'
  BY <1>15 DEF PollHangup
<1>16. ASSUME NEW r \in RxThreads, ReadFailsVfs(r) PROVE FlagInv'
  BY <1>16 DEF ReadFailsVfs
<1>17. ASSUME NEW r \in RxThreads, ReadFailsBt(r) PROVE FlagInv'
  BY <1>17 DEF ReadFailsBt
<1>18. ASSUME NEW r \in RxThreads, PollShutdown(r) PROVE FlagInv'
  BY <1>18 DEF PollShutdown
<1>19. ASSUME NEW r \in RxThreads, EventFdFails(r) PROVE FlagInv'
  BY <1>19 DEF EventFdFails
<1>20. ASSUME NEW r \in RxThreads, DoReset(r) PROVE FlagInv'
  BY <1>20 DEF DoReset
<1>21. ASSUME NEW r \in RxThreads, DoResetStops(r) PROVE FlagInv'
  BY <1>21 DEF DoResetStops
<1>22. ASSUME NEW r \in RxThreads, DoResetLocks(r) PROVE FlagInv'
  BY <1>22 DEF DoResetLocks
<1>23. ASSUME NEW r \in RxThreads, CleanUp(r) PROVE FlagInv'
  BY <1>23 DEF CleanUp
<1>24. ASSUME NEW r \in RxThreads, LeaveBusy(r) PROVE FlagInv'
  BY <1>24 DEF LeaveBusy
<1>25. ASSUME NEW r \in RxThreads, DoResetClearsFlag(r) PROVE FlagInv'
  BY <1>25 DEF DoResetClearsFlag
<1>26. ASSUME NEW r \in RxThreads, DoResetReports(r) PROVE FlagInv'
  BY <1>26 DEF DoResetReports, Return
<1>27. ASSUME NEW t \in Threads, AntEnable(t) PROVE FlagInv'
  BY <1>27 DEF AntEnable
<1>28. ASSUME NEW t \in Threads, OpenChannel(t) PROVE FlagInv'
  BY <1>28 DEF OpenChannel, FirstClosed, RunFlagAtReturn
<1>29. ASSUME NEW t \in Threads, AllChannelsOpen(t) PROVE FlagInv'
  BY <1>29 DEF AllChannelsOpen
<1>30. ASSUME NEW t \in Threads, Spawn(t) PROVE FlagInv'
  BY <1>30 DEF Spawn
<1>31. ASSUME NEW t \in Threads, NoSpawn(t) PROVE FlagInv'
  BY <1>31 DEF NoSpawn
<1>32. ASSUME NEW t \in Threads, Confirm(t) PROVE FlagInv'
  BY <1>32 DEF Confirm, RunFlagAtReturn
<1>33. ASSUME NEW t \in Threads, AntDisable(t) PROVE FlagInv'
  BY <1>33 DEF AntDisable
<1>34. ASSUME NEW t \in Threads, SignalShutdown(t) PROVE FlagInv'
  BY <1>34 DEF SignalShutdown
<1>35. ASSUME NEW t \in Threads, Join(t) PROVE FlagInv'
  BY <1>35 DEF Join
<1>36. ASSUME NEW t \in Threads, CloseChannel(t) PROVE FlagInv'
  BY <1>36 DEF CloseChannel
<1>37. ASSUME NEW t \in Threads, ClosedForReset(t) PROVE FlagInv'
  BY <1>37 DEF ClosedForReset
<1>38. ASSUME NEW t \in Threads, ClosedForGood(t) PROVE FlagInv'
  BY <1>38 DEF ClosedForGood, Return, ant_radio_enabled_status
<1> QED
  BY <1>0, <1>1, <1>2, <1>3, <1>4, <1>5, <1>6, <1>7, <1>8, <1>9, <1>10,
     <1>11, <1>12, <1>13, <1>14, <1>15, <1>16, <1>17, <1>18, <1>19, <1>20,
     <1>21, <1>22, <1>23, <1>24, <1>25, <1>26, <1>27, <1>28, <1>29, <1>30,
     <1>31, <1>32, <1>33, <1>34, <1>35, <1>36, <1>37, <1>38
     DEF Next, CallerStep, RxStep, OwnerStep

LEMMA PollStep ==
  ASSUME BackEnd = "bt", BtSettledIInv, [Next]_vars
  PROVE  PollInv'
<1> USE ThreadsAssumption, ChannelsAssumption
    DEF BtSettledIInv, BtSettledInv, IInv, TypeOK, Threads, At, Goto, radio,
        ServingLabels, HoldsLock, FlagInv, PollInv, JoinPending, StructInv, OwnerInv,
        HandleInv, NoSelfJoin, Serving, RxLabelsInv
<1>0. CASE UNCHANGED vars
  BY <1>0 DEF vars
<1>1. ASSUME NEW c \in Callers, NEW o \in Operations, Call(c, o) PROVE PollInv'
  BY <1>1, EnvironmentAssumption DEF Call
<1>2. ASSUME NEW c \in Callers, Acquire(c) PROVE PollInv'
  BY <1>2 DEF Acquire
<1>3. ASSUME NEW c \in Callers, RedundantCall(c) PROVE PollInv'
  BY <1>3 DEF RedundantCall, Return
<1>4. ASSUME NEW c \in Callers, BeginEnable(c) PROVE PollInv'
  BY <1>4 DEF BeginEnable
<1>5. ASSUME NEW c \in Callers, BeginDisable(c) PROVE PollInv'
  BY <1>5 DEF BeginDisable
<1>6. ASSUME NEW c \in Callers, BeginHardReset(c) PROVE PollInv'
  BY <1>6 DEF BeginHardReset
<1>7. ASSUME NEW c \in Callers, EnableSucceeds(c) PROVE PollInv'
  BY <1>7 DEF EnableSucceeds, Return
<1>8. ASSUME NEW c \in Callers, EnableFails(c) PROVE PollInv'
  BY <1>8 DEF EnableFails
<1>9. ASSUME NEW c \in Callers, HardResetReports(c) PROVE PollInv'
  BY <1>9 DEF HardResetReports
<1>10. ASSUME NEW c \in Callers, HardResetReturns(c) PROVE PollInv'
  BY <1>10 DEF HardResetReturns, Return
<1>11. ASSUME NEW r \in RxThreads, RxStart(r) PROVE PollInv'
  BY <1>11 DEF RxStart
<1>12. ASSUME NEW r \in RxThreads, RxLoop(r) PROVE PollInv'
  BY <1>12 DEF RxLoop
<1>13. ASSUME NEW r \in RxThreads, PollData(r) PROVE PollInv'
  BY <1>13 DEF PollData
<1>14. ASSUME NEW r \in RxThreads, PollSilence(r) PROVE PollInv'
  BY <1>14 DEF PollSilence
<1>15. ASSUME NEW r \in RxThreads, PollHangup(r) PROVE PollInv'
  BY <1>15 DEF PollHangup
<1>16. ASSUME NEW r \in RxThreads, ReadFailsVfs(r) PROVE PollInv'
  BY <1>16 DEF ReadFailsVfs
<1>17. ASSUME NEW r \in RxThreads, ReadFailsBt(r) PROVE PollInv'
  BY <1>17 DEF ReadFailsBt
<1>18. ASSUME NEW r \in RxThreads, PollShutdown(r) PROVE PollInv'
  BY <1>18 DEF PollShutdown
<1>19. ASSUME NEW r \in RxThreads, EventFdFails(r) PROVE PollInv'
  BY <1>19 DEF EventFdFails
<1>20. ASSUME NEW r \in RxThreads, DoReset(r) PROVE PollInv'
  BY <1>20 DEF DoReset
<1>21. ASSUME NEW r \in RxThreads, DoResetStops(r) PROVE PollInv'
  BY <1>21 DEF DoResetStops
<1>22. ASSUME NEW r \in RxThreads, DoResetLocks(r) PROVE PollInv'
  BY <1>22 DEF DoResetLocks
<1>23. ASSUME NEW r \in RxThreads, CleanUp(r) PROVE PollInv'
  BY <1>23 DEF CleanUp
<1>24. ASSUME NEW r \in RxThreads, LeaveBusy(r) PROVE PollInv'
  BY <1>24 DEF LeaveBusy
<1>25. ASSUME NEW r \in RxThreads, DoResetClearsFlag(r) PROVE PollInv'
  BY <1>25 DEF DoResetClearsFlag
<1>26. ASSUME NEW r \in RxThreads, DoResetReports(r) PROVE PollInv'
  BY <1>26 DEF DoResetReports, Return
<1>27. ASSUME NEW t \in Threads, AntEnable(t) PROVE PollInv'
  BY <1>27 DEF AntEnable
<1>28. ASSUME NEW t \in Threads, OpenChannel(t) PROVE PollInv'
  BY <1>28 DEF OpenChannel, FirstClosed, RunFlagAtReturn
<1>29. ASSUME NEW t \in Threads, AllChannelsOpen(t) PROVE PollInv'
  BY <1>29 DEF AllChannelsOpen
<1>30. ASSUME NEW t \in Threads, Spawn(t) PROVE PollInv'
  BY <1>30 DEF Spawn
<1>31. ASSUME NEW t \in Threads, NoSpawn(t) PROVE PollInv'
  BY <1>31 DEF NoSpawn
<1>32. ASSUME NEW t \in Threads, Confirm(t) PROVE PollInv'
  BY <1>32 DEF Confirm, RunFlagAtReturn
<1>33. ASSUME NEW t \in Threads, AntDisable(t) PROVE PollInv'
  BY <1>33 DEF AntDisable
<1>34. ASSUME NEW t \in Threads, SignalShutdown(t) PROVE PollInv'
  BY <1>34 DEF SignalShutdown
<1>35. ASSUME NEW t \in Threads, Join(t) PROVE PollInv'
  BY <1>35 DEF Join
<1>36. ASSUME NEW t \in Threads, CloseChannel(t) PROVE PollInv'
  BY <1>36 DEF CloseChannel
<1>37. ASSUME NEW t \in Threads, ClosedForReset(t) PROVE PollInv'
  BY <1>37 DEF ClosedForReset
<1>38. ASSUME NEW t \in Threads, ClosedForGood(t) PROVE PollInv'
  BY <1>38 DEF ClosedForGood, Return, ant_radio_enabled_status
<1> QED
  BY <1>0, <1>1, <1>2, <1>3, <1>4, <1>5, <1>6, <1>7, <1>8, <1>9, <1>10,
     <1>11, <1>12, <1>13, <1>14, <1>15, <1>16, <1>17, <1>18, <1>19, <1>20,
     <1>21, <1>22, <1>23, <1>24, <1>25, <1>26, <1>27, <1>28, <1>29, <1>30,
     <1>31, <1>32, <1>33, <1>34, <1>35, <1>36, <1>37, <1>38
     DEF Next, CallerStep, RxStep, OwnerStep

LEMMA BtLastWordStep ==
  ASSUME BackEnd = "bt", BtSettledIInv, [Next]_vars
  PROVE  BtLastWordInv'
<1> USE ThreadsAssumption, ChannelsAssumption
    DEF BtSettledIInv, BtSettledInv, IInv, TypeOK, Threads, At, Goto, radio,
        ServingLabels, HoldsLock, FlagInv, BtLastWord, BtLastWordInv,
        Resetting, Reported, AllClosed, StructInv, OwnerInv, HandleInv, CloseInv,
        OverrideInv, Serving
<1>0. CASE UNCHANGED vars
  BY <1>0 DEF vars
<1>1. ASSUME NEW c \in Callers, NEW o \in Operations, Call(c, o) PROVE BtLastWordInv'
  BY <1>1, EnvironmentAssumption DEF Call
<1>2. ASSUME NEW c \in Callers, Acquire(c) PROVE BtLastWordInv'
  BY <1>2 DEF Acquire
<1>3. ASSUME NEW c \in Callers, RedundantCall(c) PROVE BtLastWordInv'
  BY <1>3 DEF RedundantCall, Return
<1>4. ASSUME NEW c \in Callers, BeginEnable(c) PROVE BtLastWordInv'
  BY <1>4 DEF BeginEnable
<1>5. ASSUME NEW c \in Callers, BeginDisable(c) PROVE BtLastWordInv'
  BY <1>5 DEF BeginDisable
<1>6. ASSUME NEW c \in Callers, BeginHardReset(c) PROVE BtLastWordInv'
  BY <1>6 DEF BeginHardReset
<1>7. ASSUME NEW c \in Callers, EnableSucceeds(c) PROVE BtLastWordInv'
  BY <1>7 DEF EnableSucceeds, Return
<1>8. ASSUME NEW c \in Callers, EnableFails(c) PROVE BtLastWordInv'
  BY <1>8 DEF EnableFails
<1>9. ASSUME NEW c \in Callers, HardResetReports(c) PROVE BtLastWordInv'
  BY <1>9 DEF HardResetReports
<1>10. ASSUME NEW c \in Callers, HardResetReturns(c) PROVE BtLastWordInv'
  BY <1>10 DEF HardResetReturns, Return
<1>11. ASSUME NEW r \in RxThreads, RxStart(r) PROVE BtLastWordInv'
  BY <1>11 DEF RxStart
<1>12. ASSUME NEW r \in RxThreads, RxLoop(r) PROVE BtLastWordInv'
  BY <1>12 DEF RxLoop
<1>13. ASSUME NEW r \in RxThreads, PollData(r) PROVE BtLastWordInv'
  BY <1>13 DEF PollData
<1>14. ASSUME NEW r \in RxThreads, PollSilence(r) PROVE BtLastWordInv'
  BY <1>14 DEF PollSilence
<1>15. ASSUME NEW r \in RxThreads, PollHangup(r) PROVE BtLastWordInv'
  BY <1>15 DEF PollHangup
<1>16. ASSUME NEW r \in RxThreads, ReadFailsVfs(r) PROVE BtLastWordInv'
  BY <1>16 DEF ReadFailsVfs
<1>17. ASSUME NEW r \in RxThreads, ReadFailsBt(r) PROVE BtLastWordInv'
  BY <1>17 DEF ReadFailsBt
<1>18. ASSUME NEW r \in RxThreads, PollShutdown(r) PROVE BtLastWordInv'
  BY <1>18 DEF PollShutdown
<1>19. ASSUME NEW r \in RxThreads, EventFdFails(r) PROVE BtLastWordInv'
  BY <1>19 DEF EventFdFails
<1>20. ASSUME NEW r \in RxThreads, DoReset(r) PROVE BtLastWordInv'
  BY <1>20 DEF DoReset
<1>21. ASSUME NEW r \in RxThreads, DoResetStops(r) PROVE BtLastWordInv'
  BY <1>21 DEF DoResetStops
<1>22. ASSUME NEW r \in RxThreads, DoResetLocks(r) PROVE BtLastWordInv'
  BY <1>22 DEF DoResetLocks
<1>23. ASSUME NEW r \in RxThreads, CleanUp(r) PROVE BtLastWordInv'
  BY <1>23 DEF CleanUp
<1>24. ASSUME NEW r \in RxThreads, LeaveBusy(r) PROVE BtLastWordInv'
  BY <1>24 DEF LeaveBusy
<1>25. ASSUME NEW r \in RxThreads, DoResetClearsFlag(r) PROVE BtLastWordInv'
  BY <1>25 DEF DoResetClearsFlag
<1>26. ASSUME NEW r \in RxThreads, DoResetReports(r) PROVE BtLastWordInv'
  BY <1>26 DEF DoResetReports, Return
<1>27. ASSUME NEW t \in Threads, AntEnable(t) PROVE BtLastWordInv'
  BY <1>27 DEF AntEnable
<1>28. ASSUME NEW t \in Threads, OpenChannel(t) PROVE BtLastWordInv'
  BY <1>28 DEF OpenChannel, FirstClosed, RunFlagAtReturn
<1>29. ASSUME NEW t \in Threads, AllChannelsOpen(t) PROVE BtLastWordInv'
  BY <1>29 DEF AllChannelsOpen
<1>30. ASSUME NEW t \in Threads, Spawn(t) PROVE BtLastWordInv'
  BY <1>30 DEF Spawn
<1>31. ASSUME NEW t \in Threads, NoSpawn(t) PROVE BtLastWordInv'
  BY <1>31 DEF NoSpawn
<1>32. ASSUME NEW t \in Threads, Confirm(t) PROVE BtLastWordInv'
  BY <1>32 DEF Confirm, RunFlagAtReturn
<1>33. ASSUME NEW t \in Threads, AntDisable(t) PROVE BtLastWordInv'
  BY <1>33 DEF AntDisable
<1>34. ASSUME NEW t \in Threads, SignalShutdown(t) PROVE BtLastWordInv'
  BY <1>34 DEF SignalShutdown
<1>35. ASSUME NEW t \in Threads, Join(t) PROVE BtLastWordInv'
  BY <1>35 DEF Join
<1>36. ASSUME NEW t \in Threads, CloseChannel(t) PROVE BtLastWordInv'
  BY <1>36 DEF CloseChannel
<1>37. ASSUME NEW t \in Threads, ClosedForReset(t) PROVE BtLastWordInv'
  BY <1>37 DEF ClosedForReset
<1>38. ASSUME NEW t \in Threads, ClosedForGood(t) PROVE BtLastWordInv'
  BY <1>38 DEF ClosedForGood, Return, ant_radio_enabled_status
<1> QED
  BY <1>0, <1>1, <1>2, <1>3, <1>4, <1>5, <1>6, <1>7, <1>8, <1>9, <1>10,
     <1>11, <1>12, <1>13, <1>14, <1>15, <1>16, <1>17, <1>18, <1>19, <1>20,
     <1>21, <1>22, <1>23, <1>24, <1>25, <1>26, <1>27, <1>28, <1>29, <1>30,
     <1>31, <1>32, <1>33, <1>34, <1>35, <1>36, <1>37, <1>38
     DEF Next, CallerStep, RxStep, OwnerStep

LEMMA BtSettledInit == Init => BtSettledInv
  BY ThreadsAssumption
     DEF Init, BtSettledInv, RxLabelsInv, FlagInv, PollInv, BtLastWordInv, BtLastWord,
         Reported, Threads, AllClosed

LEMMA BtSettledStep ==
  ASSUME BackEnd = "bt", BtSettledIInv, [Next]_vars
  PROVE  BtSettledIInv'
<1>1. IInv'
  BY InvariantStep DEF BtSettledIInv
<1> QED
  BY <1>1, RxLabelsStep, FlagStep, PollStep, BtLastWordStep DEF BtSettledIInv, BtSettledInv

\* Once everything has settled: a radio without a thread is off, and one whose
\* thread will go on polling is on.
LEMMA BtSettledTruth ==
  ASSUME BtSettledIInv, Quiescent,
         ~(stRxThread # NoThread /\ At(stRxThread, "gone")),
         ~(stRxThread = NoThread /\ ucRunThread),
         ~(~ucRunThread /\ \E r \in RxThreads : At(r, "loop"))
  PROVE  ant_radio_enabled_status = IF notified = "RESET" THEN "ENABLED" ELSE notified
<1> USE ThreadsAssumption DEF BtSettledIInv, BtSettledInv, IInv, StructInv
<1>1. BtLastWord
  BY DEF Quiescent, BtLastWordInv, Resetting, Reported, ServingLabels, Threads
<1>2. ~ucChipResetting
  BY DEF Quiescent, OverrideInv, HoldsLock, Threads
<1>3. CASE stRxThread = NoThread
  BY <1>1, <1>2, <1>3 DEF BtLastWord, ant_radio_enabled_status
<1>4. CASE stRxThread # NoThread
  <2>1. AllOpen
    BY <1>4 DEF Quiescent, RecordInv, At
  <2>2. stRxThread \in RxThreads /\ pc[stRxThread] \in {"start", "loop", "poll"}
    BY <1>4 DEF TypeOK, Quiescent, RxLabelsInv, At, Threads, ServingLabels, HoldsLock
  <2>3. ucRunThread
    BY <2>2 DEF TypeOK, Quiescent, PollInv, JoinPending, At
  <2> QED
    BY <1>1, <1>2, <1>4, <2>1, <2>3 DEF BtLastWord, ant_radio_enabled_status
<1> QED
  BY <1>3, <1>4
=============================================================================
