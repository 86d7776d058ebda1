-------------------------- MODULE BtTransportProofs ---------------------------
(***************************************************************************)
(* Proofs about BtTransport: that it implements the radio of ChardevRadio, *)
(* and so inherits its invariants; what it does to the chip's power; and   *)
(* that the application is told what has become of the radio.              *)
(***************************************************************************)
EXTENDS BtTransport, TLAPS

\* The theorems about the radio, for the radio of this module.
RadioProofs ==
  INSTANCE ChardevSettledProofs
    WITH BackEnd <- "bt", NumChannels <- 1, Operations <- {"enable", "disable"},
         OpenMayFail <- TRUE, CreateMayFail <- TRUE,
         lock <- RadioLock, notified <- RadioNotified, op <- RadioOp, pc <- RadioPc,
         fd <- [c \in {0} |-> iFd # -1]

-----------------------------------------------------------------------------
(* The two instances name the same operators.                              *)

LEMMA SameOwnerStep ==
  ASSUME NEW t, Radio!OwnerStep(t) PROVE RadioProofs!OwnerStep(t)
  BY DEF
      Radio!OwnerStep, RadioProofs!OwnerStep, Radio!AntEnable, RadioProofs!AntEnable,
      Radio!OpenChannel, RadioProofs!OpenChannel, Radio!AllChannelsOpen,
      RadioProofs!AllChannelsOpen, Radio!Spawn, RadioProofs!Spawn, Radio!NoSpawn,
      RadioProofs!NoSpawn, Radio!Confirm, RadioProofs!Confirm, Radio!AntDisable,
      RadioProofs!AntDisable, Radio!SignalShutdown, RadioProofs!SignalShutdown,
      Radio!Join, RadioProofs!Join, Radio!CloseChannel,
      RadioProofs!CloseChannel, Radio!ClosedForReset, RadioProofs!ClosedForReset,
      Radio!ClosedForGood, RadioProofs!ClosedForGood, Radio!At, RadioProofs!At,
      Radio!Goto, RadioProofs!Goto, Radio!Threads, RadioProofs!Threads, Radio!Channels,
      RadioProofs!Channels, Radio!radio, RadioProofs!radio, Radio!AllOpen,
      RadioProofs!AllOpen, Radio!AllClosed, RadioProofs!AllClosed,
      Radio!ant_radio_enabled_status, RadioProofs!ant_radio_enabled_status,
      Radio!Return, RadioProofs!Return, Radio!RunFlagAtReturn,
      RadioProofs!RunFlagAtReturn, Radio!FirstClosed, RadioProofs!FirstClosed

LEMMA SameCallerStep ==
  ASSUME NEW t, Radio!CallerStep(t) PROVE RadioProofs!CallerStep(t)
  BY SameOwnerStep DEF
      Radio!CallerStep, RadioProofs!CallerStep, Radio!RedundantCall,
      RadioProofs!RedundantCall, Radio!BeginEnable, RadioProofs!BeginEnable,
      Radio!BeginDisable, RadioProofs!BeginDisable, Radio!BeginHardReset,
      RadioProofs!BeginHardReset, Radio!EnableSucceeds, RadioProofs!EnableSucceeds,
      Radio!EnableFails, RadioProofs!EnableFails, Radio!HardResetReports,
      RadioProofs!HardResetReports, Radio!HardResetReturns,
      RadioProofs!HardResetReturns, Radio!At, RadioProofs!At, Radio!Goto,
      RadioProofs!Goto, Radio!Threads, RadioProofs!Threads, Radio!Channels,
      RadioProofs!Channels, Radio!radio, RadioProofs!radio, Radio!AllOpen,
      RadioProofs!AllOpen, Radio!AllClosed, RadioProofs!AllClosed,
      Radio!ant_radio_enabled_status, RadioProofs!ant_radio_enabled_status,
      Radio!Return, RadioProofs!Return, Radio!RunFlagAtReturn,
      RadioProofs!RunFlagAtReturn, Radio!FirstClosed, RadioProofs!FirstClosed

LEMMA SameRxStep ==
  ASSUME NEW t, Radio!RxStep(t) PROVE RadioProofs!RxStep(t)
  BY SameOwnerStep DEF
      Radio!RxStep, RadioProofs!RxStep, Radio!RxStart, RadioProofs!RxStart,
      Radio!RxLoop, RadioProofs!RxLoop, Radio!PollData, RadioProofs!PollData,
      Radio!PollSilence, RadioProofs!PollSilence, Radio!PollHangup,
      RadioProofs!PollHangup, Radio!ReadFailsVfs, RadioProofs!ReadFailsVfs,
      Radio!ReadFailsBt, RadioProofs!ReadFailsBt, Radio!PollShutdown,
      RadioProofs!PollShutdown, Radio!EventFdFails, RadioProofs!EventFdFails,
      Radio!DoReset, RadioProofs!DoReset, Radio!DoResetStops, RadioProofs!DoResetStops,
      Radio!CleanUp, RadioProofs!CleanUp, Radio!LeaveBusy, RadioProofs!LeaveBusy,
      Radio!DoResetClearsFlag, RadioProofs!DoResetClearsFlag, Radio!DoResetReports,
      RadioProofs!DoResetReports, Radio!At, RadioProofs!At, Radio!Goto,
      RadioProofs!Goto, Radio!Threads, RadioProofs!Threads, Radio!Channels,
      RadioProofs!Channels, Radio!radio, RadioProofs!radio, Radio!AllOpen,
      RadioProofs!AllOpen, Radio!AllClosed, RadioProofs!AllClosed,
      Radio!ant_radio_enabled_status, RadioProofs!ant_radio_enabled_status,
      Radio!Return, RadioProofs!Return, Radio!RunFlagAtReturn,
      RadioProofs!RunFlagAtReturn, Radio!FirstClosed, RadioProofs!FirstClosed

LEMMA SameNext ==
  ASSUME [Radio!Next]_(Radio!vars) PROVE [RadioProofs!Next]_(RadioProofs!vars)
  BY SameCallerStep, SameRxStep DEF
      Radio!Next, RadioProofs!Next, Radio!Call, RadioProofs!Call, Radio!Acquire,
      RadioProofs!Acquire, Radio!DoResetLocks, RadioProofs!DoResetLocks, Radio!At,
      RadioProofs!At, Radio!Goto, RadioProofs!Goto, Radio!radio, RadioProofs!radio,
      Radio!vars, RadioProofs!vars

LEMMA SameInit ==
  ASSUME Radio!Init PROVE RadioProofs!Init
  BY DEF
      Radio!Init, RadioProofs!Init, Radio!Channels, RadioProofs!Channels,
      Radio!Threads, RadioProofs!Threads

-----------------------------------------------------------------------------
(* The refinement mapping.                                                 *)

Special == SpoofLabels \cup {"report"}

\* A step of one thread is a step of that thread of the radio.
LEMMA MappedGoto ==
  ASSUME TypeOK, NEW t \in Threads, NEW label, Goto(t, label)
  PROVE  RadioPc' = [RadioPc EXCEPT ![t] = RadioLabel(t, label)]
  BY DEF RadioPc, Goto, TypeOK

LEMMA MappedAt ==
  ASSUME NEW t \in Threads
  PROVE  RadioPc[t] = RadioLabel(t, pc[t])
  BY DEF RadioPc

\* Outside the steps the radio does not have, the mapping changes labels only.
LEMMA PlainState ==
  ASSUME TypeOK, \A t \in Threads : pc[t] \notin Special
  PROVE  RadioLock = lock /\ RadioNotified = notified /\ RadioOp = op
<1>1. \A t \in Threads : ~At(t, "report")
  BY DEF At, Special
<1>2. RadioOp = [t \in Threads |-> op[t]]
  BY <1>1 DEF RadioOp
<1> QED
  BY <1>1, <1>2 DEF RadioLock, Between, RadioNotified, Special, TypeOK

LEMMA PlainNextState ==
  ASSUME TypeOK', \A t \in Threads : pc'[t] \notin Special
  PROVE  RadioLock' = lock' /\ RadioNotified' = notified' /\ RadioOp' = op'
<1>1. \A t \in Threads : ~At(t, "report")'
  BY DEF At, Special
<1>2. RadioOp' = [t \in Threads |-> op'[t]]
  BY <1>1 DEF RadioOp
<1> QED
  BY <1>1, <1>2 DEF RadioLock, Between, RadioNotified, Special, TypeOK

\* The thread on record is the only one that serves.
HandleInv == \A r \in RxThreads : Serving(r) => stRxThread = r

LEMMA RadioHandle == RadioProofs!IInv => HandleInv
<1> SUFFICES ASSUME RadioProofs!IInv, NEW r \in RxThreads, Serving(r)
             PROVE  stRxThread = r
  BY DEF HandleInv
<1>1. RadioPc[r] \in ServingLabels
  BY MappedAt DEF Threads, Serving, RadioLabel, ServingLabels, OpeningLabels
<1> QED
  BY <1>1 DEF RadioProofs!IInv, RadioProofs!StructInv, RadioProofs!HandleInv,
     RadioProofs!Serving, RadioProofs!ServingLabels, ServingLabels

\* While a thread is at such a step no other owns the lock or serves.
LEMMA Alone ==
  ASSUME BtInv, HandleInv, NEW u \in Threads, pc[u] \in Special,
         NEW t \in Threads, t # u
  PROVE  /\ lock # NoThread
         /\ pc[t] \notin HoldsLock
         /\ t \in RxThreads => ~Serving(t)
<1> USE ThreadsAssumption
    DEF BtInv, OwnerInv, Threads, Special, HoldsLock
<1>1. lock = u /\ pc[t] \notin HoldsLock
  OBVIOUS
<1>2. stRxThread # t
  BY DEF RecordInv, At
<1> QED
  BY <1>1, <1>2 DEF HandleInv

\* So the radio is in none of them when the lock is free, or a thread serves or
\* is at another place of its sections.
LEMMA Plain ==
  ASSUME BtInv, HandleInv,
         \/ lock = NoThread
         \/ \E t \in Threads : pc[t] \in HoldsLock \ Special
         \/ \E r \in RxThreads : Serving(r)
  PROVE  \A t \in Threads : pc[t] \notin Special
<1> SUFFICES ASSUME NEW u \in Threads, pc[u] \in Special PROVE FALSE
  OBVIOUS
<1>1. lock = u /\ lock # NoThread
  BY ThreadsAssumption DEF BtInv, OwnerInv, Threads, Special, HoldsLock
<1>2. ASSUME NEW t \in Threads, pc[t] \in HoldsLock \ Special PROVE FALSE
  BY <1>2, Alone
<1>3. ASSUME NEW r \in RxThreads, Serving(r) PROVE FALSE
  <2>1. pc[r] \notin Special
    BY <1>3 DEF Serving, ServingLabels, Special, SpoofLabels
  <2> QED
    BY <1>3, <2>1, Alone DEF Threads
<1> QED
  BY <1>1, <1>2, <1>3

-----------------------------------------------------------------------------
(* The invariant.                                                          *)

LEMMA BtInitStep == ant_init => BtInv
  BY ThreadsAssumption
     DEF ant_init, BtInv, TypeOK, OwnerInv, RoutineInv, ChannelInv, RecordInv, At, Threads,
         Labels, HoldsLock, SpoofLabels, OpeningLabels, ServingLabels

LEMMA BtTypeStep ==
  ASSUME TypeOK, [Next]_vars PROVE TypeOK'
<1>a. {"idle", "acquire", "gone", "start", "loop", "poll", "resetFlag", "resetRun", "resetLock",
       "tryLock", "begin", "enable", "open", "spawn", "confirm", "enabled", "failed", "disable",
       "signal", "join", "close", "powerOff", "report", "recovered", "lost", "load", "symbol",
       "powerOn", "userial", "resetSpoof", "crashSpoof"} \subseteq Labels
  BY DEF Labels, HoldsLock, ServingLabels, OpeningLabels, SpoofLabels
<1> USE <1>a, ThreadsAssumption DEF TypeOK, Threads, At, Goto, Step, flags, transport
<1>0. CASE UNCHANGED vars
  BY <1>0 DEF vars
<1>1. ASSUME NEW t \in Threads, BeginEnable(t) PROVE TypeOK'
  <2>1. pc' \in [Threads -> Labels]
    BY <1>1 DEF BeginEnable
  <2>2. ucRunThread' \in BOOLEAN /\ eventFd' \in BOOLEAN
    BY <1>1 DEF BeginEnable
  <2> QED
    BY <1>1, <2>1, <2>2 DEF BeginEnable
<1>2. ASSUME NEW t \in Threads, ant_enable_channel(t) PROVE TypeOK'
  BY <1>2 DEF ant_enable_channel
<1>3. ASSUME NEW t \in Threads, LoadLibrary(t) PROVE TypeOK'
  BY <1>3 DEF LoadLibrary
<1>4. ASSUME NEW t \in Threads, FindInterface(t) PROVE TypeOK'
  <2>1. pc' \in [Threads -> Labels]
    BY <1>4 DEF FindInterface
  <2>2. vendor_interface' \in BOOLEAN
    BY <1>4 DEF FindInterface
  <2> QED
    BY <1>4, <2>1, <2>2 DEF FindInterface
<1>5. ASSUME NEW t \in Threads, PowerOn(t) PROVE TypeOK'
  <2>1. pc' \in [Threads -> Labels]
    BY <1>5 DEF PowerOn
  <2>2. power' \in BOOLEAN
    BY <1>5 DEF PowerOn
  <2> QED
    BY <1>5, <2>1, <2>2 DEF PowerOn
<1>6. ASSUME NEW t \in Threads, OpenUserial(t) PROVE TypeOK'
  BY <1>6 DEF OpenUserial
<1>7. ASSUME NEW t \in Threads, CreateThread(t) PROVE TypeOK'
  BY <1>7 DEF CreateThread
<1>8. ASSUME NEW t \in Threads, CreateNoThread(t) PROVE TypeOK'
  BY <1>8 DEF CreateNoThread
<1>9. ASSUME NEW t \in Threads, ConfirmRunning(t) PROVE TypeOK'
  BY <1>9 DEF ConfirmRunning
<1>10. ASSUME NEW t \in Threads, BeginDisable(t) PROVE TypeOK'
  <2>1. pc' \in [Threads -> Labels]
    BY <1>10 DEF BeginDisable
  <2>2. ucRunThread' \in BOOLEAN
    BY <1>10 DEF BeginDisable
  <2> QED
    BY <1>10, <2>1, <2>2 DEF BeginDisable
<1>11. ASSUME NEW t \in Threads, SendShutdown(t) PROVE TypeOK'
  BY <1>11 DEF SendShutdown
<1>12. ASSUME NEW t \in Threads, JoinThread(t) PROVE TypeOK'
  BY <1>12 DEF JoinThread
<1>13. ASSUME NEW t \in Threads, CloseUserial(t) PROVE TypeOK'
  BY <1>13 DEF CloseUserial
<1>14. ASSUME NEW t \in Threads, PowerOff(t) PROVE TypeOK'
  <2>1. pc' \in [Threads -> Labels]
    BY <1>14 DEF PowerOff
  <2>2. vendor_interface' \in BOOLEAN /\ power' \in BOOLEAN
    BY <1>14 DEF PowerOff
  <2> QED
    BY <1>14, <2>1, <2>2 DEF PowerOff
<1>15. ASSUME NEW t \in Threads, EndDisable(t) PROVE TypeOK'
  BY <1>15 DEF EndDisable
<1>16. ASSUME NEW t \in Threads, ReportAndReturn(t) PROVE TypeOK'
  BY <1>16 DEF ReportAndReturn, Return, ant_radio_enabled_status
<1>17. ASSUME NEW c \in Callers, Call(c) PROVE TypeOK'
  BY <1>17 DEF Call
<1>18. ASSUME NEW c \in Callers, Acquire(c) PROVE TypeOK'
  BY <1>18 DEF Acquire
<1>19. ASSUME NEW c \in Callers, Begin(c) PROVE TypeOK'
  BY <1>19 DEF Begin
<1>20. ASSUME NEW c \in Callers, EnableSucceeds(c) PROVE TypeOK'
  BY <1>20 DEF EnableSucceeds, Return
<1>21. ASSUME NEW c \in Callers, EnableFails(c) PROVE TypeOK'
  BY <1>21 DEF EnableFails
<1>22. ASSUME NEW r \in RxThreads, RxStart(r) PROVE TypeOK'
  BY <1>22 DEF RxStart
<1>23. ASSUME NEW r \in RxThreads, RxLoop(r) PROVE TypeOK'
  BY <1>23 DEF RxLoop
<1>24. ASSUME NEW r \in RxThreads, PollSilence(r) PROVE TypeOK'
  BY <1>24 DEF PollSilence
<1>25. ASSUME NEW r \in RxThreads, PollHangup(r) PROVE TypeOK'
  BY <1>25 DEF PollHangup
<1>26. ASSUME NEW r \in RxThreads, PollEvents(r) PROVE TypeOK'
  <2>1. pc' \in [Threads -> Labels]
    BY <1>26 DEF PollEvents
  <2>2. ucRunThread' \in BOOLEAN /\ eventFd' \in BOOLEAN /\ waiting' \in RxThreads \cup {NoThread}
    BY <1>26 DEF PollEvents
  <2> QED
    BY <1>26, <2>1, <2>2 DEF PollEvents
<1>27. ASSUME NEW r \in RxThreads, TryLock(r) PROVE TypeOK'
  BY <1>27 DEF TryLock
<1>28. ASSUME NEW r \in RxThreads, CleanUp(r) PROVE TypeOK'
  BY <1>28 DEF CleanUp
<1>29. ASSUME NEW r \in RxThreads, LeaveBusy(r) PROVE TypeOK'
  BY <1>29 DEF LeaveBusy
<1>30. ASSUME NEW r \in RxThreads, BeginReset(r) PROVE TypeOK'
  BY <1>30 DEF BeginReset
<1>31. ASSUME NEW r \in RxThreads, LowerRunFlag(r) PROVE TypeOK'
  <2>1. pc' \in [Threads -> Labels]
    BY <1>31 DEF LowerRunFlag
  <2>2. ucRunThread' \in BOOLEAN
    BY <1>31 DEF LowerRunFlag
  <2> QED
    BY <1>31, <2>1, <2>2 DEF LowerRunFlag
<1>32. ASSUME NEW r \in RxThreads, LockForReset(r) PROVE TypeOK'
  BY <1>32 DEF LockForReset
<1>33. ASSUME NEW r \in RxThreads, SpoofHandle(r) PROVE TypeOK'
  BY <1>33 DEF SpoofHandle
<1>34. ASSUME NEW r \in RxThreads, EndReset(r) PROVE TypeOK'
  <2>1. pc' \in [Threads -> Labels]
    BY <1>34 DEF EndReset
  <2>2. ucChipResetting' \in BOOLEAN
    BY <1>34 DEF EndReset
  <2> QED
    BY <1>34, <2>1, <2>2 DEF EndReset
<1>35. ASSUME NEW r \in RxThreads, ReportReset(r) PROVE TypeOK'
  BY <1>35 DEF ReportReset, Return
<1> QED
  BY <1>0, <1>1, <1>2, <1>3, <1>4, <1>5, <1>6, <1>7, <1>8, <1>9, <1>10, <1>11, <1>12, <1>13, <1>14, <1>15, <1>16, <1>17, <1>18, <1>19, <1>20, <1>21, <1>22, <1>23, <1>24, <1>25, <1>26, <1>27, <1>28, <1>29, <1>30, <1>31, <1>32, <1>33, <1>34, <1>35
     DEF Next, CallerStep, RxStep, ant_enable, ant_disable

BtStructInv == OwnerInv /\ RoutineInv /\ ChannelInv /\ RecordInv

LEMMA BtStructStep ==
  ASSUME BtInv, HandleInv, [Next]_vars PROVE BtStructInv'
<1> USE ThreadsAssumption
    DEF BtInv, TypeOK, BtStructInv, OwnerInv, RoutineInv, ChannelInv, RecordInv, Threads, At, Goto,
        Step, flags, transport, ServingLabels, OpeningLabels, SpoofLabels, HoldsLock
<1>0. CASE UNCHANGED vars
  BY <1>0 DEF vars
<1>1. ASSUME NEW t \in Threads, BeginEnable(t) PROVE BtStructInv'
  BY <1>1 DEF BeginEnable
<1>2. ASSUME NEW t \in Threads, ant_enable_channel(t) PROVE BtStructInv'
  BY <1>2 DEF ant_enable_channel
<1>3. ASSUME NEW t \in Threads, LoadLibrary(t) PROVE BtStructInv'
  BY <1>3 DEF LoadLibrary
<1>4. ASSUME NEW t \in Threads, FindInterface(t) PROVE BtStructInv'
  BY <1>4 DEF FindInterface
<1>5. ASSUME NEW t \in Threads, PowerOn(t) PROVE BtStructInv'
  BY <1>5 DEF PowerOn
<1>6. ASSUME NEW t \in Threads, OpenUserial(t) PROVE BtStructInv'
  BY <1>6 DEF OpenUserial
<1>7. ASSUME NEW t \in Threads, CreateThread(t) PROVE BtStructInv'
  BY <1>7 DEF CreateThread
<1>8. ASSUME NEW t \in Threads, CreateNoThread(t) PROVE BtStructInv'
  BY <1>8 DEF CreateNoThread
<1>9. ASSUME NEW t \in Threads, ConfirmRunning(t) PROVE BtStructInv'
  BY <1>9 DEF ConfirmRunning
<1>10. ASSUME NEW t \in Threads, BeginDisable(t) PROVE BtStructInv'
  BY <1>10 DEF BeginDisable
<1>11. ASSUME NEW t \in Threads, SendShutdown(t) PROVE BtStructInv'
  BY <1>11 DEF SendShutdown
<1>12. ASSUME NEW t \in Threads, JoinThread(t) PROVE BtStructInv'
  BY <1>12 DEF JoinThread
<1>13. ASSUME NEW t \in Threads, CloseUserial(t) PROVE BtStructInv'
  BY <1>13 DEF CloseUserial
<1>14. ASSUME NEW t \in Threads, PowerOff(t) PROVE BtStructInv'
  BY <1>14 DEF PowerOff
<1>15. ASSUME NEW t \in Threads, EndDisable(t) PROVE BtStructInv'
  BY <1>15 DEF EndDisable
<1>16. ASSUME NEW t \in Threads, ReportAndReturn(t) PROVE BtStructInv'
  BY <1>16 DEF ReportAndReturn, Return, ant_radio_enabled_status
<1>17. ASSUME NEW c \in Callers, Call(c) PROVE BtStructInv'
  BY <1>17 DEF Call
<1>18. ASSUME NEW c \in Callers, Acquire(c) PROVE BtStructInv'
  BY <1>18 DEF Acquire
<1>19. ASSUME NEW c \in Callers, Begin(c) PROVE BtStructInv'
  BY <1>19 DEF Begin
<1>20. ASSUME NEW c \in Callers, EnableSucceeds(c) PROVE BtStructInv'
  BY <1>20 DEF EnableSucceeds, Return
<1>21. ASSUME NEW c \in Callers, EnableFails(c) PROVE BtStructInv'
  BY <1>21 DEF EnableFails
<1>22. ASSUME NEW r \in RxThreads, RxStart(r) PROVE BtStructInv'
  BY <1>22 DEF RxStart
<1>23. ASSUME NEW r \in RxThreads, RxLoop(r) PROVE BtStructInv'
  BY <1>23 DEF RxLoop
<1>24. ASSUME NEW r \in RxThreads, PollSilence(r) PROVE BtStructInv'
  BY <1>24 DEF PollSilence
<1>25. ASSUME NEW r \in RxThreads, PollHangup(r) PROVE BtStructInv'
  BY <1>25 DEF PollHangup
<1>26. ASSUME NEW r \in RxThreads, PollEvents(r) PROVE BtStructInv'
  BY <1>26 DEF PollEvents
<1>27. ASSUME NEW r \in RxThreads, TryLock(r) PROVE BtStructInv'
  BY <1>27 DEF TryLock, HandleInv, Serving
<1>28. ASSUME NEW r \in RxThreads, CleanUp(r) PROVE BtStructInv'
  BY <1>28 DEF CleanUp
<1>29. ASSUME NEW r \in RxThreads, LeaveBusy(r) PROVE BtStructInv'
  BY <1>29 DEF LeaveBusy
<1>30. ASSUME NEW r \in RxThreads, BeginReset(r) PROVE BtStructInv'
  BY <1>30 DEF BeginReset
<1>31. ASSUME NEW r \in RxThreads, LowerRunFlag(r) PROVE BtStructInv'
  BY <1>31 DEF LowerRunFlag
<1>32. ASSUME NEW r \in RxThreads, LockForReset(r) PROVE BtStructInv'
  BY <1>32 DEF LockForReset, HandleInv, Serving
<1>33. ASSUME NEW r \in RxThreads, SpoofHandle(r) PROVE BtStructInv'
  BY <1>33 DEF SpoofHandle
<1>34. ASSUME NEW r \in RxThreads, EndReset(r) PROVE BtStructInv'
  BY <1>34 DEF EndReset
<1>35. ASSUME NEW r \in RxThreads, ReportReset(r) PROVE BtStructInv'
  BY <1>35 DEF ReportReset, Return
<1> QED
  BY <1>0, <1>1, <1>2, <1>3, <1>4, <1>5, <1>6, <1>7, <1>8, <1>9, <1>10, <1>11, <1>12, <1>13, <1>14, <1>15, <1>16, <1>17, <1>18, <1>19, <1>20, <1>21, <1>22, <1>23, <1>24, <1>25, <1>26, <1>27, <1>28, <1>29, <1>30, <1>31, <1>32, <1>33, <1>34, <1>35
     DEF Next, CallerStep, RxStep, ant_enable, ant_disable

LEMMA BtInvariantStep ==
  ASSUME BtInv, HandleInv, [Next]_vars PROVE BtInv'
  BY BtTypeStep, BtStructStep DEF BtInv, BtStructInv

-----------------------------------------------------------------------------
(* Every step is a step of the radio, or none.                             *)

Unmapped == RadioLock = lock /\ RadioNotified = notified /\ RadioOp = op

\* t goes to label, with no thread between two steps of the radio before or after.
MovesPlainly(t, label) ==
  /\ Unmapped
  /\ Unmapped'
  /\ RadioPc[t] = RadioLabel(t, pc[t])
  /\ RadioPc' = [RadioPc EXCEPT ![t] = RadioLabel(t, label)]
  /\ label = pc[t] \/ RadioLabel(t, label) = RadioLabel(t, pc[t]) => RadioPc' = RadioPc

LEMMA PlainMove ==
  ASSUME BtInv, TypeOK', HandleInv,
         NEW t \in Threads, NEW label, label \notin Special, Goto(t, label),
         \/ lock = NoThread
         \/ pc[t] \in HoldsLock \ Special
         \/ t \in RxThreads /\ Serving(t)
  PROVE  MovesPlainly(t, label)
<1>1. TypeOK
  BY DEF BtInv
<1>2. \A u \in Threads : pc[u] \notin Special
  BY Plain
<1>3. \A u \in Threads : pc'[u] \notin Special
  BY <1>1, <1>2 DEF Goto, TypeOK
<1>4. Unmapped /\ Unmapped'
  BY <1>1, <1>2, <1>3, PlainState, PlainNextState DEF Unmapped
<1>5. RadioPc' = [RadioPc EXCEPT ![t] = RadioLabel(t, label)]
  BY <1>1, MappedGoto
<1>6. RadioPc[t] = RadioLabel(t, pc[t])
  BY MappedAt
<1>7. label = pc[t] \/ RadioLabel(t, label) = RadioLabel(t, pc[t]) => RadioPc' = RadioPc
  BY <1>5, <1>6 DEF RadioPc
<1> QED
  BY <1>4, <1>5, <1>6, <1>7 DEF MovesPlainly

\* A step inside init_transport_bdroid.
LEMMA Stutters ==
  ASSUME NEW t \in Threads, NEW label, MovesPlainly(t, label),
         RadioLabel(t, label) = RadioLabel(t, pc[t]),
         UNCHANGED <<lock, flags, notified, op, iFd>>
  PROVE  UNCHANGED Radio!vars
BY DEF MovesPlainly, Unmapped, flags, Radio!vars, Radio!radio

LEMMA OneChannel ==
  /\ Radio!Channels = {0}
  /\ iFd = -1 => Radio!FirstClosed(0)
<1>1. Radio!Channels = {0}
  BY DEF Radio!Channels
<1>2. ASSUME iFd = -1 PROVE ~[c \in {0} |-> iFd # -1][0]
  BY <1>2
<1> QED
  BY <1>1, <1>2 DEF Radio!FirstClosed

\* init_transport_bdroid(1) fails: the channel stays closed.
LEMMA OpenFails ==
  ASSUME NEW t \in Threads, MovesPlainly(t, "failed"), pc[t] \in OpeningLabels, iFd = -1,
         UNCHANGED <<lock, flags, notified, op, iFd>>
  PROVE  Radio!OpenChannel(t)
<1>1. RadioPc[t] = "open" /\ RadioPc' = [RadioPc EXCEPT ![t] = "failed"]
  BY DEF MovesPlainly, RadioLabel, OpeningLabels
<1>2. Unmapped /\ Unmapped'
  BY DEF MovesPlainly
<1>3. 0 \in Radio!Channels /\ Radio!FirstClosed(0)
  BY OneChannel
<1> QED
  BY <1>1, <1>2, <1>3
     DEF Unmapped, flags, Radio!OpenChannel, Radio!At, Radio!Goto, Radio!RunFlagAtReturn

RadioOwner(t) == Radio!OwnerStep(t) \/ UNCHANGED Radio!vars

LEMMA TransportOpens ==
  ASSUME BtInv, TypeOK', HandleInv, NEW t \in Threads,
         LoadLibrary(t) \/ FindInterface(t) \/ PowerOn(t) \/ OpenUserial(t)
  PROVE  RadioOwner(t)
<1>1. pc[t] \in OpeningLabels /\ pc[t] \in HoldsLock \ Special /\ iFd = -1
  BY DEF LoadLibrary, FindInterface, PowerOn, OpenUserial, Step, At, OpeningLabels, HoldsLock,
         Special, SpoofLabels, BtInv, ChannelInv
<1>2. UNCHANGED <<lock, flags, notified, op>>
  BY DEF LoadLibrary, FindInterface, PowerOn, OpenUserial, transport
<1>3. ASSUME Goto(t, "failed"), UNCHANGED iFd
      PROVE  RadioOwner(t)
  <2>1. MovesPlainly(t, "failed")
    BY <1>1, <1>3, PlainMove DEF Special, SpoofLabels
  <2> QED
    BY <1>1, <1>2, <1>3, <2>1, OpenFails DEF RadioOwner, Radio!OwnerStep
<1>4. ASSUME NEW label \in OpeningLabels, Goto(t, label), UNCHANGED iFd
      PROVE  RadioOwner(t)
  <2>1. MovesPlainly(t, label)
    BY <1>1, <1>4, PlainMove DEF Special, SpoofLabels, OpeningLabels
  <2>2. RadioLabel(t, label) = RadioLabel(t, pc[t])
    BY <1>1, <1>4 DEF RadioLabel, OpeningLabels
  <2> QED
    BY <1>2, <1>4, <2>1, <2>2, Stutters DEF RadioOwner
<1>5. ASSUME Goto(t, "open"), iFd' = Handle
      PROVE  RadioOwner(t)
  <2>1. MovesPlainly(t, "open")
    BY <1>1, <1>5, PlainMove DEF Special, SpoofLabels
  <2>2. RadioPc[t] = "open" /\ RadioPc' = RadioPc
    BY <1>1, <2>1 DEF MovesPlainly, RadioLabel, OpeningLabels
  <2>3. Unmapped /\ Unmapped'
    BY <2>1 DEF MovesPlainly
  <2>4. 0 \in Radio!Channels /\ Radio!FirstClosed(0)
    BY <1>1, OneChannel
  <2>5. [c \in {0} |-> iFd' # -1] = [[c \in {0} |-> iFd # -1] EXCEPT ![0] = TRUE]
    <3>1. (iFd' # -1) = TRUE
      BY <1>5 DEF Handle
    <3> QED
      BY <3>1
  <2>6. Radio!OpenChannel(t)
    BY <1>2, <2>2, <2>3, <2>4, <2>5 DEF Unmapped, flags, Radio!OpenChannel, Radio!At
  <2> QED
    BY <2>6 DEF RadioOwner, Radio!OwnerStep
<1>6. LoadLibrary(t) => Goto(t, "symbol") \/ Goto(t, "failed")
  BY DEF LoadLibrary, Step
<1>7. FindInterface(t) => Goto(t, "powerOn") \/ Goto(t, "failed")
  BY DEF FindInterface, Step
<1>8. PowerOn(t) => Goto(t, "userial") \/ Goto(t, "failed")
  BY DEF PowerOn, Step
<1>9. OpenUserial(t) => \/ Goto(t, "open") /\ iFd' = Handle
                        \/ Goto(t, "failed") /\ UNCHANGED iFd
  BY DEF OpenUserial, Step
<1>10. LoadLibrary(t) \/ FindInterface(t) \/ PowerOn(t) => UNCHANGED iFd
  BY DEF LoadLibrary, FindInterface, PowerOn, transport
<1>11. {"symbol", "powerOn", "userial"} \subseteq OpeningLabels
  BY DEF OpeningLabels
<1> QED
  BY <1>3, <1>4, <1>5, <1>6, <1>7, <1>8, <1>9, <1>10, <1>11

LEMMA TransportCloses ==
  ASSUME BtInv, TypeOK', HandleInv, NEW t \in Threads, CloseUserial(t) \/ PowerOff(t)
  PROVE  RadioOwner(t)
<1>1. /\ pc[t] \in {"close", "powerOff"} /\ pc[t] \in HoldsLock \ Special
      /\ RadioLabel(t, pc[t]) = "close" /\ iFd # -1
  BY DEF CloseUserial, PowerOff, Step, At, HoldsLock, Special, SpoofLabels, BtInv, ChannelInv,
         RadioLabel, OpeningLabels
<1>2. UNCHANGED <<lock, flags, notified, op>>
  BY DEF CloseUserial, PowerOff
<1>3. CASE Goto(t, "powerOff") /\ UNCHANGED iFd
  <2>1. MovesPlainly(t, "powerOff")
    BY <1>1, <1>3, PlainMove DEF Special, SpoofLabels
  <2>2. RadioLabel(t, "powerOff") = RadioLabel(t, pc[t])
    BY <1>1 DEF RadioLabel, OpeningLabels
  <2> QED
    BY <1>2, <1>3, <2>1, <2>2, Stutters DEF RadioOwner
<1>4. ASSUME Goto(t, "close"), iFd' = -1
      PROVE  RadioOwner(t)
  <2>1. MovesPlainly(t, "close")
    BY <1>1, <1>4, PlainMove DEF Special, SpoofLabels
  <2>2. RadioPc[t] = "close" /\ RadioPc' = RadioPc
    BY <1>1, <2>1 DEF MovesPlainly, RadioLabel, OpeningLabels
  <2>3. Unmapped /\ Unmapped'
    BY <2>1 DEF MovesPlainly
  <2>4. /\ [c \in {0} |-> iFd' # -1] = [[c \in {0} |-> iFd # -1] EXCEPT ![0] = FALSE]
        /\ [c \in {0} |-> iFd # -1][0]
    BY <1>1, <1>4
  <2>5. Radio!CloseChannel(t)
    BY <1>2, <2>2, <2>3, <2>4, OneChannel DEF Unmapped, flags, Radio!CloseChannel, Radio!At
  <2> QED
    BY <2>5 DEF RadioOwner, Radio!OwnerStep
<1>5. CASE At(t, "close") /\ UNCHANGED pc /\ iFd' = -1
  BY <1>4, <1>5 DEF At, Goto, BtInv, TypeOK
<1> QED
  BY <1>3, <1>4, <1>5 DEF CloseUserial, PowerOff, Step

\* The steps of ant_enable and ant_disable that do not concern the transport.
LEMMA EnableMoves ==
  ASSUME BtInv, TypeOK', HandleInv, NEW t \in Threads,
         BeginEnable(t) \/ ant_enable_channel(t) \/ CreateNoThread(t) \/ ConfirmRunning(t)
  PROVE  RadioOwner(t)
<1> USE DEF Step, At, flags, transport, Radio!At, Radio!Goto, Radio!radio
<1>1. CASE BeginEnable(t)
  <2>1. MovesPlainly(t, "open") /\ pc[t] = "enable"
    BY <1>1, PlainMove DEF BeginEnable, Special, SpoofLabels, HoldsLock
  <2>2. Radio!AntEnable(t)
    BY <1>1, <2>1 DEF BeginEnable, MovesPlainly, Unmapped, RadioLabel, OpeningLabels, Radio!AntEnable
  <2> QED
    BY <2>2 DEF RadioOwner, Radio!OwnerStep
<1>2. CASE ant_enable_channel(t) /\ iFd = -1
  <2>1. MovesPlainly(t, "load") /\ pc[t] = "open"
    BY <1>2, PlainMove DEF ant_enable_channel, Special, SpoofLabels, HoldsLock
  <2>2. RadioLabel(t, "load") = RadioLabel(t, pc[t])
    BY <2>1 DEF RadioLabel, OpeningLabels
  <2>3. UNCHANGED <<lock, flags, notified, op, iFd>>
    BY <1>2 DEF ant_enable_channel
  <2> QED
    BY <2>1, <2>2, <2>3, Stutters DEF RadioOwner
<1>3. CASE ant_enable_channel(t) /\ iFd # -1
  <2>1. MovesPlainly(t, "spawn") /\ pc[t] = "open"
    BY <1>3, PlainMove DEF ant_enable_channel, Special, SpoofLabels, HoldsLock
  <2>2. Radio!AllOpen
    BY <1>3, OneChannel DEF Radio!AllOpen
  <2>3. Radio!AllChannelsOpen(t)
    BY <1>3, <2>1, <2>2 DEF ant_enable_channel, MovesPlainly, Unmapped, RadioLabel, OpeningLabels,
       Radio!AllChannelsOpen
  <2> QED
    BY <2>3 DEF RadioOwner, Radio!OwnerStep
<1>4. CASE CreateNoThread(t)
  <2>1. MovesPlainly(t, "confirm") /\ pc[t] = "spawn"
    BY <1>4, PlainMove DEF CreateNoThread, Special, SpoofLabels, HoldsLock
  <2>2. Radio!NoSpawn(t)
    BY <1>4, <2>1 DEF CreateNoThread, MovesPlainly, Unmapped, RadioLabel, OpeningLabels, Radio!NoSpawn
  <2> QED
    BY <2>2 DEF RadioOwner, Radio!OwnerStep
<1>5. CASE ConfirmRunning(t)
  <2> DEFINE label == IF ucRunThread THEN "enabled" ELSE "failed"
  <2>1. MovesPlainly(t, label) /\ pc[t] = "confirm"
    BY <1>5, PlainMove DEF ConfirmRunning, Special, SpoofLabels, HoldsLock
  <2>2. RadioLabel(t, label) = label
    BY DEF RadioLabel, OpeningLabels
  <2>3. Radio!Confirm(t)
    BY <1>5, <2>1, <2>2 DEF ConfirmRunning, MovesPlainly, Unmapped, RadioLabel, OpeningLabels,
       Radio!Confirm, Radio!RunFlagAtReturn
  <2> QED
    BY <2>3 DEF RadioOwner, Radio!OwnerStep
<1> QED
  BY <1>1, <1>2, <1>3, <1>4, <1>5

LEMMA DisableMoves ==
  ASSUME BtInv, TypeOK', HandleInv, NEW t \in Threads,
         BeginDisable(t) \/ SendShutdown(t) \/ JoinThread(t)
  PROVE  RadioOwner(t)
<1> USE DEF Step, At, flags, transport, Radio!At, Radio!Goto, Radio!radio
<1>1. CASE BeginDisable(t)
  <2> DEFINE label == IF stRxThread = NoThread THEN "close" ELSE "signal"
  <2>1. MovesPlainly(t, label) /\ pc[t] = "disable"
    BY <1>1, PlainMove DEF BeginDisable, Special, SpoofLabels, HoldsLock
  <2>2. RadioLabel(t, label) = label
    BY DEF RadioLabel, OpeningLabels
  <2>3. Radio!AntDisable(t)
    BY <1>1, <2>1, <2>2 DEF BeginDisable, MovesPlainly, Unmapped, RadioLabel, OpeningLabels,
       Radio!AntDisable
  <2> QED
    BY <2>3 DEF RadioOwner, Radio!OwnerStep
<1>2. CASE SendShutdown(t)
  <2>1. MovesPlainly(t, "join") /\ pc[t] = "signal"
    BY <1>2, PlainMove DEF SendShutdown, Special, SpoofLabels, HoldsLock
  <2>2. Radio!SignalShutdown(t)
    BY <1>2, <2>1 DEF SendShutdown, MovesPlainly, Unmapped, RadioLabel, OpeningLabels,
       Radio!SignalShutdown
  <2> QED
    BY <2>2 DEF RadioOwner, Radio!OwnerStep
<1>3. CASE JoinThread(t)
  <2>1. MovesPlainly(t, "close") /\ pc[t] = "join"
    BY <1>3, PlainMove DEF JoinThread, Special, SpoofLabels, HoldsLock
  <2>2. RadioPc[stRxThread] = "gone"
    <3>1. pc[stRxThread] = "gone"
      BY <1>3 DEF JoinThread
    <3>2. stRxThread \in Threads
      BY <2>1 DEF BtInv, TypeOK, RecordInv, Threads
    <3> QED
      BY <3>1, <3>2, MappedAt DEF RadioLabel, OpeningLabels
  <2>3. Radio!Join(t)
    BY <1>3, <2>1, <2>2 DEF JoinThread, MovesPlainly, Unmapped, RadioLabel, OpeningLabels, Radio!Join
  <2> QED
    BY <2>3 DEF RadioOwner, Radio!OwnerStep
<1> QED
  BY <1>1, <1>2, <1>3

LEMMA ThreadIsCreated ==
  ASSUME BtInv, TypeOK', HandleInv, NEW t \in Threads, CreateThread(t)
  PROVE  Radio!Spawn(t)
<1>1. pc[t] = "spawn" /\ stRxThread = NoThread
  BY DEF CreateThread, At
<1>2. PICK r \in RxThreads : /\ pc[r] = "gone" /\ stRxThread' = r
                             /\ pc' = [pc EXCEPT ![t] = "confirm", ![r] = "start"]
  BY DEF CreateThread, At
<1>3. TypeOK /\ r \in Threads
  BY DEF BtInv, Threads
<1>4. \A u \in Threads : pc[u] \notin Special
  BY <1>1, Plain DEF HoldsLock, Special, SpoofLabels
<1>5. \A u \in Threads : pc'[u] \notin Special
  BY <1>2, <1>3, <1>4 DEF TypeOK, Special, SpoofLabels
<1>6. Unmapped /\ Unmapped'
  BY <1>3, <1>4, <1>5, PlainState, PlainNextState DEF Unmapped
<1>7. RadioPc[t] = "spawn" /\ RadioPc[r] = "gone"
  BY <1>1, <1>2, <1>3, MappedAt DEF RadioLabel, OpeningLabels
<1>8. RadioPc' = [RadioPc EXCEPT ![t] = "confirm", ![r] = "start"]
  <2>1. RadioLabel(t, "confirm") = "confirm" /\ RadioLabel(r, "start") = "start"
    BY DEF RadioLabel, OpeningLabels
  <2>2. \A u \in Threads : pc'[u] = IF u = r THEN "start" ELSE IF u = t THEN "confirm" ELSE pc[u]
    BY <1>2, <1>3 DEF TypeOK
  <2> QED
    BY <1>3, <2>1, <2>2 DEF RadioPc
<1> QED
  BY <1>1, <1>2, <1>6, <1>7, <1>8
     DEF CreateThread, Unmapped, transport, Radio!Spawn, Radio!At

\* The radio has reported and returned when the code is about to.
LEMMA DisableEnds ==
  ASSUME BtInv, TypeOK', HandleInv, NEW t \in Threads, EndDisable(t)
  PROVE  RadioOwner(t)
<1>1. pc[t] = "close" /\ iFd = -1
  BY DEF EndDisable, Step, At
<1>2. Radio!AllClosed /\ RadioPc[t] = "close"
  BY <1>1, OneChannel, MappedAt DEF Radio!AllClosed, RadioLabel, OpeningLabels
<1>3. TypeOK /\ \A u \in Threads : pc[u] \notin Special
  BY <1>1, Plain DEF BtInv, HoldsLock, Special, SpoofLabels
<1>4. Unmapped
  BY <1>3, PlainState DEF Unmapped
<1>5. CASE op[t] = "doReset"
  <2>1. MovesPlainly(t, "enable")
    BY <1>1, <1>5, PlainMove DEF EndDisable, Step, HoldsLock, Special, SpoofLabels
  <2>2. RadioPc' = [RadioPc EXCEPT ![t] = "enable"] /\ Unmapped'
    BY <2>1 DEF MovesPlainly, RadioLabel, OpeningLabels
  <2>3. Radio!ClosedForReset(t)
    BY <1>2, <1>4, <1>5, <2>2
       DEF EndDisable, Unmapped, transport, Radio!ClosedForReset, Radio!At, Radio!Goto
  <2> QED
    BY <2>3 DEF RadioOwner, Radio!OwnerStep
<1>6. CASE op[t] # "doReset"
  <2>1. pc' = [pc EXCEPT ![t] = "report"] /\ pc'[t] = "report"
    BY <1>3, <1>6 DEF EndDisable, Step, Goto, TypeOK
  <2>2. op[t] \in {"enable", "disable", "crash"}
    BY <1>1, <1>6 DEF BtInv, TypeOK, RoutineInv, HoldsLock, SpoofLabels
  <2>3. RadioLock' = NoThread
    BY <2>1 DEF RadioLock, Between
  <2>4. RadioOp' = [op EXCEPT ![t] = "none"]
    <3>1. op' = op /\ op \in [Threads -> {"none", "enable", "disable", "doReset", "crash"}]
      BY <1>3 DEF EndDisable, TypeOK
    <3>2. \A u \in Threads : pc'[u] = "report" <=> u = t
      BY <1>3, <2>1 DEF TypeOK, Special
    <3> QED
      BY <3>1, <3>2 DEF RadioOp, At
  <2>5. RadioPc' = [RadioPc EXCEPT ![t] = IF t \in Callers THEN "idle" ELSE "gone"]
    <3>1. RadioLabel(t, "report") = IF t \in Callers THEN "idle" ELSE "gone"
      BY DEF RadioLabel, OpeningLabels
    <3> QED
      BY <1>3, <2>1, <3>1, MappedGoto DEF Goto
  <2>6. RadioNotified' = Radio!ant_radio_enabled_status'
    <3>1. RadioNotified' = ant_radio_enabled_status'
      BY <2>1 DEF RadioNotified, At
    <3>2. iFd' = -1 /\ stRxThread' = NoThread
      BY <1>1 DEF EndDisable, transport
    <3>3. Radio!AllClosed'
      BY <3>2, OneChannel DEF Radio!AllClosed, Radio!Channels
    <3> QED
      BY <3>1, <3>2, <3>3 DEF ant_radio_enabled_status, Radio!ant_radio_enabled_status
  <2>7. Radio!Return(t)
    BY <1>4, <2>3, <2>4, <2>5 DEF Unmapped, Radio!Return, Radio!Goto
  <2>8. Radio!ClosedForGood(t)
    BY <1>2, <1>4, <2>2, <2>6, <2>7
       DEF EndDisable, Unmapped, transport, Radio!ClosedForGood, Radio!At
  <2> QED
    BY <2>8 DEF RadioOwner, Radio!OwnerStep
<1> QED
  BY <1>5, <1>6

\* Return, for a thread the radio knows to own the lock.
LEMMA PlainReturn ==
  ASSUME BtInv, TypeOK', HandleInv, NEW t \in Threads, pc[t] \in HoldsLock \ Special, Return(t)
  PROVE  /\ Unmapped /\ Unmapped'
         /\ RadioPc[t] = RadioLabel(t, pc[t])
         /\ Radio!Return(t)
<1> DEFINE label == IF t \in Callers THEN "idle" ELSE "gone"
<1>1. MovesPlainly(t, label)
  BY PlainMove DEF Return, Special, SpoofLabels
<1>2. RadioLabel(t, label) = label
  BY DEF RadioLabel, OpeningLabels
<1> QED
  BY <1>1, <1>2 DEF MovesPlainly, Unmapped, Return, Radio!Return, Radio!Goto

\* Nothing happens between the report the radio has made and the code's.
LEMMA ReportIsLate ==
  ASSUME BtInv, TypeOK', HandleInv, NEW t \in Threads, ReportAndReturn(t)
  PROVE  UNCHANGED Radio!vars
<1> DEFINE label == IF t \in Callers THEN "idle" ELSE "gone"
<1>1. TypeOK /\ pc[t] = "report" /\ pc[t] \in Special
  BY DEF ReportAndReturn, At, BtInv, Special
<1>2. \A u \in Threads \ {t} : pc[u] \notin Special
  BY <1>1, Alone DEF Special, HoldsLock
<1>3. pc' = [pc EXCEPT ![t] = label] /\ label \notin Special
  BY DEF ReportAndReturn, Return, Goto, Special, SpoofLabels
<1>4. \A u \in Threads : pc'[u] \notin Special
  BY <1>1, <1>2, <1>3 DEF TypeOK
<1>5. RadioLock' = lock' /\ RadioNotified' = notified' /\ RadioOp' = op'
  BY <1>4, PlainNextState
<1>6. RadioLock = NoThread /\ RadioNotified = ant_radio_enabled_status
  BY <1>1 DEF RadioLock, Between, RadioNotified, At, Special
<1>7. RadioOp = [op EXCEPT ![t] = "none"]
  <2>1. \A u \in Threads : pc[u] = "report" <=> u = t
    BY <1>1, <1>2 DEF Special
  <2> QED
    BY <1>1, <2>1 DEF RadioOp, At, TypeOK
<1>8. RadioPc' = RadioPc
  <2>1. RadioLabel(t, label) = RadioLabel(t, "report")
    BY DEF RadioLabel, OpeningLabels
  <2>2. \A u \in Threads : pc'[u] = IF u = t THEN label ELSE pc[u]
    BY <1>1, <1>3 DEF TypeOK
  <2> QED
    BY <1>1, <2>1, <2>2 DEF RadioPc
<1> QED
  BY <1>5, <1>6, <1>7, <1>8
     DEF ReportAndReturn, Return, flags, transport, Radio!vars, Radio!radio

LEMMA OwnerSimulated ==
  ASSUME BtInv, TypeOK', HandleInv, NEW t \in Threads,
         ant_enable(t) \/ ant_disable(t) \/ ReportAndReturn(t)
  PROVE  RadioOwner(t)
<1>1. CreateThread(t) => RadioOwner(t)
  BY ThreadIsCreated DEF RadioOwner, Radio!OwnerStep
<1>2. ReportAndReturn(t) => RadioOwner(t)
  BY ReportIsLate DEF RadioOwner
<1> QED
  BY <1>1, <1>2, TransportOpens, TransportCloses, EnableMoves, DisableMoves, DisableEnds
     DEF ant_enable, ant_disable

LEMMA CallSimulated ==
  ASSUME BtInv, NEW c \in Callers, Call(c)
  PROVE  \E o \in {"enable", "disable"} : Radio!Call(c, o)
<1>1. PICK o \in {"enable", "disable"} : op' = [op EXCEPT ![c] = o]
  BY DEF Call
<1>2. /\ TypeOK /\ c \in Threads /\ pc[c] = "idle" /\ pc' = [pc EXCEPT ![c] = "acquire"]
      /\ UNCHANGED <<lock, flags, notified, transport>>
  BY DEF Call, Step, At, Goto, BtInv, Threads
<1>3. \A u \in Threads : /\ pc'[u] = IF u = c THEN "acquire" ELSE pc[u]
                         /\ pc[u] = "report" <=> pc'[u] = "report"
                         /\ pc[u] \in SpoofLabels \cup {"report"} <=> pc'[u] \in SpoofLabels \cup {"report"}
  BY <1>2 DEF TypeOK, SpoofLabels
<1>4. UNCHANGED <<RadioLock, RadioNotified>>
  BY <1>2, <1>3 DEF RadioLock, Between, RadioNotified, At, ant_radio_enabled_status, flags, transport
<1>5. RadioOp' = [RadioOp EXCEPT ![c] = o]
  <2>1. \A u \in Threads : op'[u] = IF u = c THEN o ELSE op[u]
    BY <1>1, <1>2 DEF TypeOK
  <2> QED
    BY <1>2, <1>3, <2>1 DEF RadioOp, At
<1>6. RadioPc[c] = "idle" /\ RadioPc' = [RadioPc EXCEPT ![c] = "acquire"]
  <2>1. RadioLabel(c, "acquire") = "acquire" /\ RadioLabel(c, "idle") = "idle"
    BY DEF RadioLabel, OpeningLabels
  <2>2. RadioPc[c] = "idle"
    BY <1>2, <2>1, MappedAt
  <2>3. RadioPc' = [RadioPc EXCEPT ![c] = RadioLabel(c, "acquire")]
    BY <1>2, MappedGoto DEF Goto
  <2> QED
    BY <2>1, <2>2, <2>3
<1> QED
  BY <1>2, <1>4, <1>5, <1>6
     DEF flags, transport, Radio!Call, Radio!At, Radio!Goto, Radio!radio

LEMMA AcquireSimulated ==
  ASSUME BtInv, TypeOK', HandleInv, NEW c \in Callers, Acquire(c)
  PROVE  Radio!Acquire(c)
<1>1. c \in Threads /\ pc[c] = "acquire"
  BY DEF Acquire, Step, At, Threads
<1>2. MovesPlainly(c, "begin")
  BY <1>1, PlainMove DEF Acquire, Step, Special, SpoofLabels
<1> QED
  BY <1>1, <1>2 DEF Acquire, MovesPlainly, Unmapped, RadioLabel, OpeningLabels, flags, transport,
     Radio!Acquire, Radio!At, Radio!Goto, Radio!radio

LEMMA CallerSimulated ==
  ASSUME BtInv, TypeOK', HandleInv, NEW c \in Callers, CallerStep(c)
  PROVE  Radio!CallerStep(c) \/ UNCHANGED Radio!vars
<1> USE DEF Step, At, flags, transport, Radio!At, Radio!Goto, Radio!radio
<1>1. c \in Threads
  BY DEF Threads
<1>2. CASE Begin(c)
  <2> DEFINE label == op[c]
  <2>1. pc[c] = "begin" /\ pc[c] \in HoldsLock \ Special
    BY <1>2 DEF Begin, HoldsLock, Special, SpoofLabels
  <2>2. op[c] \in {"enable", "disable"} /\ Goto(c, label)
    BY <1>2 DEF Begin, Goto
  <2>3. MovesPlainly(c, label) /\ RadioLabel(c, label) = label
    BY <1>1, <2>1, <2>2, PlainMove DEF Special, SpoofLabels, RadioLabel, OpeningLabels
  <2>4. Radio!BeginEnable(c) \/ Radio!BeginDisable(c)
    BY <1>2, <2>1, <2>3 DEF Begin, MovesPlainly, Unmapped, RadioLabel, OpeningLabels,
       Radio!BeginEnable, Radio!BeginDisable
  <2> QED
    BY <2>4 DEF Radio!CallerStep
<1>3. CASE EnableSucceeds(c)
  <2>1. pc[c] = "enabled" /\ pc[c] \in HoldsLock \ Special
    BY <1>3 DEF EnableSucceeds, HoldsLock, Special, SpoofLabels
  <2>2. /\ Unmapped /\ Unmapped' /\ RadioPc[c] = "enabled" /\ Radio!Return(c)
    BY <1>1, <1>3, <2>1, PlainReturn DEF EnableSucceeds, RadioLabel, OpeningLabels
  <2>3. Radio!EnableSucceeds(c)
    BY <1>3, <2>2 DEF EnableSucceeds, Unmapped, Radio!EnableSucceeds
  <2> QED
    BY <2>3 DEF Radio!CallerStep
<1>4. CASE EnableFails(c)
  <2>1. MovesPlainly(c, "disable") /\ pc[c] = "failed"
    BY <1>1, <1>4, PlainMove DEF EnableFails, Special, SpoofLabels, HoldsLock
  <2>2. Radio!EnableFails(c)
    BY <1>4, <2>1 DEF EnableFails, MovesPlainly, Unmapped, RadioLabel, OpeningLabels,
       Radio!EnableFails
  <2> QED
    BY <2>2 DEF Radio!CallerStep
<1>5. ASSUME ant_enable(c) \/ ant_disable(c) \/ ReportAndReturn(c)
      PROVE  Radio!CallerStep(c) \/ UNCHANGED Radio!vars
  BY <1>1, <1>5, OwnerSimulated DEF RadioOwner, Radio!CallerStep
<1> QED
  BY <1>2, <1>3, <1>4, <1>5 DEF CallerStep

\* The receive thread, up to the point where it wants the lock.
LEMMA ServingMove ==
  ASSUME BtInv, TypeOK', HandleInv, NEW r \in RxThreads, Serving(r),
         NEW label \in ServingLabels \cup {"gone"}, Goto(r, label)
  PROVE  /\ MovesPlainly(r, label)
         /\ RadioPc[r] = pc[r]
         /\ RadioPc' = [RadioPc EXCEPT ![r] = label]
<1>1. r \in Threads /\ label \notin Special
  BY DEF Threads, Special, SpoofLabels, ServingLabels
<1>2. MovesPlainly(r, label)
  BY <1>1, PlainMove
<1>3. RadioLabel(r, label) = label /\ RadioLabel(r, pc[r]) = pc[r]
  BY DEF Serving, ServingLabels, RadioLabel, OpeningLabels
<1> QED
  BY <1>2, <1>3 DEF MovesPlainly

LEMMA LoopSimulated ==
  ASSUME BtInv, TypeOK', HandleInv, NEW r \in RxThreads,
         \/ RxStart(r) \/ RxLoop(r) \/ PollSilence(r) \/ PollHangup(r) \/ PollEvents(r)
         \/ LeaveBusy(r) \/ BeginReset(r) \/ LowerRunFlag(r)
  PROVE  Radio!RxStep(r)
<1> USE DEF Step, At, flags, transport, Unmapped, MovesPlainly, Radio!At, Radio!Goto, Radio!radio
<1>0. /\ \A l \in ServingLabels : pc[r] = l => Serving(r)
      /\ {"start", "loop", "poll", "resetFlag", "resetRun", "resetLock", "tryLock"} = ServingLabels
  BY DEF Serving, ServingLabels
<1>1. CASE RxStart(r)
  <2>1. MovesPlainly(r, "loop") /\ RadioPc[r] = "start" /\ RadioPc' = [RadioPc EXCEPT ![r] = "loop"]
    BY <1>0, <1>1, ServingMove DEF RxStart
  <2> QED
    BY <1>1, <2>1 DEF RxStart, Radio!RxStart, Radio!RxStep
<1>2. CASE RxLoop(r)
  <2> DEFINE label == IF ucRunThread THEN "poll" ELSE "tryLock"
  <2>1. MovesPlainly(r, label) /\ RadioPc[r] = "loop" /\ RadioPc' = [RadioPc EXCEPT ![r] = label]
    BY <1>0, <1>2, ServingMove DEF RxLoop
  <2> QED
    BY <1>2, <2>1 DEF RxLoop, Radio!RxLoop, Radio!RxStep
<1>3. CASE PollSilence(r)
  <2>1. PICK label \in {"loop", "resetFlag"} :
          /\ pc[r] = "poll" /\ Goto(r, label)
          /\ \/ label = "loop" /\ waiting = NoThread /\ waiting' = r
             \/ label = "resetFlag" /\ waiting # NoThread /\ UNCHANGED waiting
    BY <1>3 DEF PollSilence
  <2>2. MovesPlainly(r, label) /\ RadioPc[r] = "poll" /\ RadioPc' = [RadioPc EXCEPT ![r] = label]
    BY <1>0, <2>1, ServingMove
  <2> QED
    BY <1>3, <2>1, <2>2 DEF PollSilence, Radio!PollSilence, Radio!RxStep
<1>4. CASE PollHangup(r)
  <2>1. MovesPlainly(r, "resetFlag") /\ RadioPc[r] = "poll" /\ RadioPc' = [RadioPc EXCEPT ![r] = "resetFlag"]
    BY <1>0, <1>4, ServingMove DEF PollHangup
  <2> QED
    BY <1>4, <2>1 DEF PollHangup, Radio!PollHangup, Radio!RxStep
<1>5. CASE PollEvents(r)
  <2>1. MovesPlainly(r, "loop") /\ RadioPc[r] = "poll" /\ RadioPc' = [RadioPc EXCEPT ![r] = "loop"]
    BY <1>0, <1>5, ServingMove DEF PollEvents
  <2>2. PICK data \in BOOLEAN, readFails \in BOOLEAN, badEventFd \in BOOLEAN :
          /\ readFails => data /\ "read" \in Faults
          /\ badEventFd => ~eventFd /\ "eventFd" \in Faults
          /\ data \/ eventFd \/ badEventFd
          /\ waiting' = IF data THEN NoThread ELSE waiting
          /\ ucRunThread' = (ucRunThread /\ ~(readFails \/ eventFd \/ badEventFd))
    BY <1>5 DEF PollEvents
  <2>3. eventFd' = FALSE /\ ucRunThread \in BOOLEAN /\ eventFd \in BOOLEAN
    BY <1>5 DEF PollEvents, BtInv, TypeOK
  <2>4. UNCHANGED <<lock, stRxThread, ucChipResetting, notified, op, iFd>>
    BY <1>5 DEF PollEvents
  <2>5. CASE readFails
    <3>1. Radio!ReadFailsBt(r)
      BY <2>1, <2>2, <2>3, <2>4, <2>5 DEF Radio!ReadFailsBt
    <3> QED
      BY <3>1 DEF Radio!RxStep
  <2>6. CASE ~readFails /\ eventFd
    <3>1. Radio!PollShutdown(r)
      BY <2>1, <2>2, <2>3, <2>4, <2>6 DEF Radio!PollShutdown
    <3> QED
      BY <3>1 DEF Radio!RxStep
  <2>7. CASE ~readFails /\ ~eventFd /\ badEventFd
    <3>1. Radio!EventFdFails(r)
      BY <2>1, <2>2, <2>3, <2>4, <2>7 DEF Radio!EventFdFails
    <3> QED
      BY <3>1 DEF Radio!RxStep
  <2>8. CASE ~readFails /\ ~eventFd /\ ~badEventFd
    <3>1. Radio!PollData(r)
      BY <2>1, <2>2, <2>3, <2>4, <2>8 DEF Radio!PollData
    <3> QED
      BY <3>1 DEF Radio!RxStep
  <2> QED
    BY <2>5, <2>6, <2>7, <2>8
<1>6. CASE LeaveBusy(r)
  <2>1. MovesPlainly(r, "gone") /\ RadioPc[r] = "tryLock" /\ RadioPc' = [RadioPc EXCEPT ![r] = "gone"]
    BY <1>0, <1>6, ServingMove DEF LeaveBusy
  <2> QED
    BY <1>6, <2>1 DEF LeaveBusy, Radio!LeaveBusy, Radio!RxStep
<1>7. CASE BeginReset(r)
  <2>1. MovesPlainly(r, "resetRun") /\ RadioPc[r] = "resetFlag" /\ RadioPc' = [RadioPc EXCEPT ![r] = "resetRun"]
    BY <1>0, <1>7, ServingMove DEF BeginReset
  <2> QED
    BY <1>7, <2>1 DEF BeginReset, Radio!DoReset, Radio!RxStep
<1>8. CASE LowerRunFlag(r)
  <2>1. MovesPlainly(r, "resetLock") /\ RadioPc[r] = "resetRun" /\ RadioPc' = [RadioPc EXCEPT ![r] = "resetLock"]
    BY <1>0, <1>8, ServingMove DEF LowerRunFlag
  <2> QED
    BY <1>8, <2>1 DEF LowerRunFlag, Radio!DoResetStops, Radio!RxStep
<1> QED
  BY <1>1, <1>2, <1>3, <1>4, <1>5, <1>6, <1>7, <1>8

\* The radio takes the lock when the code takes the handle off the record.
LEMMA LockIsLate ==
  ASSUME BtInv, TypeOK', HandleInv, NEW r \in RxThreads, TryLock(r) \/ LockForReset(r)
  PROVE  UNCHANGED Radio!vars
<1> DEFINE label == IF pc[r] = "tryLock" THEN "crashSpoof" ELSE "resetSpoof"
<1>1. /\ TypeOK /\ r \in Threads /\ pc[r] \in {"tryLock", "resetLock"} /\ lock = NoThread
      /\ pc' = [pc EXCEPT ![r] = label]
      /\ UNCHANGED <<flags, notified, op, transport>>
  BY DEF TryLock, LockForReset, Step, At, Goto, Threads, BtInv
<1>2. \A u \in Threads : pc[u] \notin Special
  BY <1>1, Plain
<1>3. Unmapped
  BY <1>1, <1>2, PlainState DEF Unmapped
<1>4. \A u \in Threads : pc'[u] = IF u = r THEN label ELSE pc[u]
  BY <1>1 DEF TypeOK
<1>5. \A u \in Threads : ~At(u, "report")'
  BY <1>2, <1>4 DEF At, Special
<1>6. RadioLock' = NoThread /\ RadioNotified' = notified'
  BY <1>1, <1>4, <1>5 DEF RadioLock, Between, RadioNotified, SpoofLabels
<1>7. RadioOp' = op
  BY <1>1, <1>5 DEF RadioOp, TypeOK
<1>8. RadioPc' = RadioPc
  <2>1. RadioLabel(r, label) = RadioLabel(r, pc[r])
    BY <1>1 DEF RadioLabel, OpeningLabels
  <2> QED
    BY <1>1, <1>4, <2>1 DEF RadioPc
<1> QED
  BY <1>1, <1>3, <1>6, <1>7, <1>8 DEF Unmapped, flags, transport, Radio!vars, Radio!radio

LEMMA SpoofSimulated ==
  ASSUME BtInv, TypeOK', HandleInv, NEW r \in RxThreads, CleanUp(r) \/ SpoofHandle(r)
  PROVE  Radio!CleanUp(r) \/ Radio!DoResetLocks(r)
<1>1. /\ TypeOK /\ r \in Threads /\ pc[r] \in SpoofLabels /\ lock = r
      /\ pc' = [pc EXCEPT ![r] = "disable"]
  BY DEF CleanUp, SpoofHandle, Step, At, Goto, Threads, BtInv, OwnerInv, SpoofLabels, HoldsLock
<1>2. \A u \in Threads \ {r} : pc[u] \notin Special
  BY <1>1, Alone DEF Special, HoldsLock
<1>3. \A u \in Threads : pc'[u] \notin Special
  BY <1>1, <1>2 DEF TypeOK, Special, SpoofLabels
<1>4. Unmapped'
  BY <1>3, PlainNextState DEF Unmapped
<1>5. \A u \in Threads : ~At(u, "report")
  BY <1>1, <1>2 DEF At, Special, SpoofLabels
<1>6. RadioLock = NoThread /\ RadioNotified = notified
  BY <1>1, <1>5 DEF RadioLock, Between, RadioNotified
<1>7. RadioOp = op
  BY <1>1, <1>5 DEF RadioOp, TypeOK
<1>8. RadioPc' = [RadioPc EXCEPT ![r] = "disable"]
  <2>1. RadioLabel(r, "disable") = "disable"
    BY DEF RadioLabel, OpeningLabels
  <2> QED
    BY <1>1, <2>1, MappedGoto DEF Goto
<1>9. CASE CleanUp(r)
  <2>1. RadioPc[r] = "tryLock"
    BY <1>1, <1>9, MappedAt DEF CleanUp, Step, At, RadioLabel, OpeningLabels
  <2> QED
    BY <1>1, <1>4, <1>6, <1>7, <1>8, <1>9, <2>1
       DEF CleanUp, Unmapped, transport, Radio!CleanUp, Radio!At, Radio!Goto
<1>10. CASE SpoofHandle(r)
  <2>1. RadioPc[r] = "resetLock"
    BY <1>1, <1>10, MappedAt DEF SpoofHandle, Step, At, RadioLabel, OpeningLabels
  <2> QED
    BY <1>1, <1>4, <1>6, <1>7, <1>8, <1>10, <2>1
       DEF SpoofHandle, Unmapped, transport, Radio!DoResetLocks, Radio!At, Radio!Goto
<1> QED
  BY <1>9, <1>10

LEMMA ResetEnds ==
  ASSUME BtInv, TypeOK', HandleInv, NEW r \in RxThreads, EndReset(r) \/ ReportReset(r)
  PROVE  Radio!RxStep(r)
<1> USE DEF Step, At, flags, transport, Unmapped, Radio!At, Radio!Goto, Radio!radio
<1>1. r \in Threads
  BY DEF Threads
<1>2. CASE EndReset(r)
  <2>1. PICK label \in {"recovered", "lost"} :
          /\ pc[r] = IF label = "recovered" THEN "enabled" ELSE "failed"
          /\ Goto(r, label)
    BY <1>2 DEF EndReset
  <2>2. pc[r] \in HoldsLock \ Special /\ label \notin Special
    BY <2>1 DEF HoldsLock, Special, SpoofLabels
  <2>3. MovesPlainly(r, label)
    BY <1>1, <2>1, <2>2, PlainMove
  <2>4. RadioPc[r] = pc[r] /\ RadioPc' = [RadioPc EXCEPT ![r] = label]
    BY <2>1, <2>3 DEF MovesPlainly, RadioLabel, OpeningLabels
  <2>5. Unmapped /\ Unmapped'
    BY <2>3 DEF MovesPlainly
  <2>6. Radio!DoResetClearsFlag(r)
    BY <1>2, <2>1, <2>4, <2>5 DEF EndReset, Radio!DoResetClearsFlag
  <2> QED
    BY <2>6 DEF Radio!RxStep
<1>3. CASE ReportReset(r)
  <2>1. pc[r] \in {"recovered", "lost"} /\ pc[r] \in HoldsLock \ Special
    BY <1>3 DEF ReportReset, HoldsLock, Special, SpoofLabels
  <2>2. Unmapped /\ Unmapped' /\ RadioPc[r] = pc[r] /\ Radio!Return(r)
    BY <1>1, <1>3, <2>1, PlainReturn DEF ReportReset, RadioLabel, OpeningLabels
  <2>3. Radio!DoResetReports(r)
    BY <1>3, <2>2 DEF ReportReset, Radio!DoResetReports
  <2> QED
    BY <2>3 DEF Radio!RxStep
<1> QED
  BY <1>2, <1>3

LEMMA RadioStep ==
  ASSUME BtInv, TypeOK', HandleInv, [Next]_vars PROVE [Radio!Next]_(Radio!vars)
<1>1. ASSUME NEW c \in Callers, Call(c) \/ Acquire(c) \/ CallerStep(c)
      PROVE  [Radio!Next]_(Radio!vars)
  BY <1>1, CallSimulated, AcquireSimulated, CallerSimulated DEF Radio!Next
<1>2. ASSUME NEW r \in RxThreads, RxStep(r)
      PROVE  Radio!RxStep(r) \/ Radio!DoResetLocks(r) \/ UNCHANGED Radio!vars
  <2>1. ASSUME ant_enable(r) \/ ant_disable(r) \/ ReportAndReturn(r)
        PROVE  Radio!RxStep(r) \/ UNCHANGED Radio!vars
    BY <2>1, OwnerSimulated DEF Threads, RadioOwner, Radio!RxStep
  <2>2. ASSUME TryLock(r) PROVE UNCHANGED Radio!vars
    BY <2>2, LockIsLate
  <2>3. ASSUME CleanUp(r) \/ SpoofHandle(r) PROVE Radio!RxStep(r) \/ Radio!DoResetLocks(r)
    BY <2>3, SpoofSimulated DEF Radio!RxStep
  <2> QED
    BY <1>2, <2>1, <2>2, <2>3, LoopSimulated, ResetEnds DEF RxStep
<1>3. ASSUME NEW r \in RxThreads, LockForReset(r)
      PROVE  UNCHANGED Radio!vars
  BY <1>3, LockIsLate
<1>4. ASSUME UNCHANGED vars
      PROVE  UNCHANGED Radio!vars
  BY <1>4 DEF vars, flags, transport, Radio!vars, Radio!radio, RadioLock, Between, RadioNotified,
     RadioOp, RadioPc, At, ant_radio_enabled_status
<1> QED
  BY <1>1, <1>2, <1>3, <1>4 DEF Next, Radio!Next

LEMMA RadioInit == ant_init => Radio!Init
<1> SUFFICES ASSUME ant_init PROVE Radio!Init
  OBVIOUS
<1>1. TypeOK /\ \A t \in Threads : pc[t] \notin Special
  BY BtInitStep DEF BtInv, ant_init, Special, SpoofLabels
<1>2. Unmapped
  BY <1>1, PlainState DEF Unmapped
<1>3. RadioPc = [t \in Threads |-> IF t \in Callers THEN "idle" ELSE "gone"]
  BY DEF ant_init, RadioPc, RadioLabel, OpeningLabels
<1>4. [c \in {0} |-> iFd # -1] = [c \in Radio!Channels |-> FALSE]
  BY OneChannel DEF ant_init
<1> QED
  BY <1>2, <1>3, <1>4 DEF ant_init, Unmapped, Radio!Init, Radio!Threads, Threads

-----------------------------------------------------------------------------
(* The refinement, and what it brings.                                     *)

BtIInv == BtInv /\ RadioProofs!IInv

LEMMA BtIInvInit == ant_init => BtIInv
<1> USE ThreadsAssumption, FaultsAssumption
    DEF RadioProofs!ThreadsAssumption, RadioProofs!EnvironmentAssumption,
        RadioProofs!BackEndAssumption, RadioProofs!ChannelsAssumption
<1> QED
  BY BtInitStep, RadioInit, SameInit, RadioProofs!InitStep DEF BtIInv

LEMMA BtIInvStep ==
  ASSUME BtIInv, [Next]_vars
  PROVE  BtIInv' /\ [Radio!Next]_(Radio!vars) /\ [RadioProofs!Next]_(RadioProofs!vars)
<1> USE ThreadsAssumption, FaultsAssumption
    DEF RadioProofs!ThreadsAssumption, RadioProofs!EnvironmentAssumption,
        RadioProofs!BackEndAssumption, RadioProofs!ChannelsAssumption
<1>1. BtInv /\ HandleInv
  BY RadioHandle DEF BtIInv
<1>2. BtInv'
  BY <1>1, BtInvariantStep
<1>3. [Radio!Next]_(Radio!vars)
  BY <1>1, <1>2, RadioStep DEF BtInv
<1>4. [RadioProofs!Next]_(RadioProofs!vars)
  BY <1>3, SameNext
<1>5. RadioProofs!IInv'
  BY <1>4, RadioProofs!InvariantStep DEF BtIInv
<1> QED
  BY <1>2, <1>3, <1>4, <1>5 DEF BtIInv

\* The threads of the bt sources, wherever they are interrupted, do what the
\* common design of ChardevRadio allows, whatever the vendor library fails to do
\* when the channel is opened or closed.
THEOREM RadioImplemented == Spec => ImplementsRadio
<1>1. BtIInv /\ [Next]_vars => BtIInv' /\ [Radio!Next]_(Radio!vars)
  BY BtIInvStep
<1> QED
  BY <1>1, BtIInvInit, RadioInit, PTL DEF Spec, ImplementsRadio

\* ... so that the invariant of the radio holds here.
THEOREM RadioInvariant == Spec => []BtIInv
<1>1. BtIInv /\ [Next]_vars => BtIInv'
  BY BtIInvStep
<1> QED
  BY <1>1, BtIInvInit, PTL DEF Spec

-----------------------------------------------------------------------------
(* The chip's power.                                                       *)

\* Behind each step of init_transport_bdroid(1) that succeeded, what it did.
PowerInv ==
  /\ PowerAccounted
  /\ \A t \in Threads :
       /\ pc[t] \in {"powerOn", "userial"} => vendor_interface
       /\ At(t, "userial") => power

\* Only init_transport_bdroid touches the transport.
LEMMA TransportSteps ==
  ASSUME TypeOK, [Next]_vars
  PROVE  \/ /\ UNCHANGED transport
            /\ \A u \in Threads : pc'[u] \in {"powerOn", "userial"} => pc'[u] = pc[u]
         \/ \E t \in Threads :
              FindInterface(t) \/ PowerOn(t) \/ OpenUserial(t) \/ CloseUserial(t) \/ PowerOff(t)
<1> DEFINE Quiet == /\ UNCHANGED transport
                    /\ \A u \in Threads : pc'[u] \in {"powerOn", "userial"} => pc'[u] = pc[u]
           Moves(t) == FindInterface(t) \/ PowerOn(t) \/ OpenUserial(t) \/ CloseUserial(t) \/ PowerOff(t)
<1> USE DEF TypeOK, Step, At, Goto
<1>0. UNCHANGED vars => Quiet
  BY DEF vars
<1>1. ASSUME NEW t \in Threads, ant_enable(t) PROVE Quiet \/ Moves(t)
  <2>1. BeginEnable(t) \/ ant_enable_channel(t) => Quiet
    BY DEF BeginEnable, ant_enable_channel
  <2>2. LoadLibrary(t) => Quiet
    BY DEF LoadLibrary
  <2>3. CreateThread(t) => Quiet
    BY DEF CreateThread, Threads, transport
  <2>4. CreateNoThread(t) \/ ConfirmRunning(t) => Quiet
    BY DEF CreateNoThread, ConfirmRunning
  <2> QED
    BY <1>1, <2>1, <2>2, <2>3, <2>4 DEF ant_enable
<1>2. ASSUME NEW t \in Threads, ant_disable(t) PROVE Quiet \/ Moves(t)
  <2>1. BeginDisable(t) \/ SendShutdown(t) => Quiet
    BY DEF BeginDisable, SendShutdown
  <2>2. JoinThread(t) \/ EndDisable(t) => Quiet
    BY DEF JoinThread, EndDisable
  <2> QED
    BY <1>2, <2>1, <2>2 DEF ant_disable
<1>3. ASSUME NEW t \in Threads, ReportAndReturn(t) PROVE Quiet
  BY <1>3 DEF ReportAndReturn, Return
<1>4. ASSUME NEW c \in Callers, Call(c) \/ Acquire(c) \/ Begin(c) \/ EnableFails(c) PROVE Quiet
  BY <1>4 DEF Call, Acquire, Begin, EnableFails
<1>5. ASSUME NEW c \in Callers, EnableSucceeds(c) PROVE Quiet
  BY <1>5 DEF EnableSucceeds, Return
<1>6. ASSUME NEW r \in RxThreads,
             \/ RxStart(r) \/ RxLoop(r) \/ PollHangup(r)
             \/ TryLock(r) \/ CleanUp(r) \/ LeaveBusy(r) \/ BeginReset(r) \/ LowerRunFlag(r)
             \/ LockForReset(r) \/ SpoofHandle(r)
      PROVE  Quiet
  BY <1>6 DEF RxStart, RxLoop, PollHangup, TryLock, CleanUp, LeaveBusy, BeginReset,
              LowerRunFlag, LockForReset, SpoofHandle
<1>7. ASSUME NEW r \in RxThreads, PollSilence(r) \/ PollEvents(r) PROVE Quiet
  BY <1>7 DEF PollSilence, PollEvents
<1>8. ASSUME NEW r \in RxThreads, EndReset(r) PROVE Quiet
  BY <1>8 DEF EndReset
<1>9. ASSUME NEW r \in RxThreads, ReportReset(r) PROVE Quiet
  BY <1>9 DEF ReportReset, Return
<1> HIDE DEF Quiet, Moves
<1>10. ASSUME NEW c \in Callers, CallerStep(c) PROVE Quiet \/ \E t \in Threads : Moves(t)
  BY <1>1, <1>2, <1>3, <1>4, <1>5, <1>10 DEF CallerStep, Threads
<1>11. ASSUME NEW r \in RxThreads, RxStep(r) PROVE Quiet \/ \E t \in Threads : Moves(t)
  BY <1>1, <1>2, <1>3, <1>6, <1>7, <1>8, <1>9, <1>11 DEF RxStep, Threads
<1>12. Quiet \/ \E t \in Threads : Moves(t)
  BY <1>0, <1>4, <1>6, <1>10, <1>11 DEF Next
<1> QED
  BY <1>12 DEF Quiet, Moves

LEMMA PowerStep ==
  ASSUME BtInv, PowerInv, [Next]_vars PROVE PowerInv'
<1> USE DEF PowerInv, PowerAccounted
<1>1. CASE /\ UNCHANGED transport
           /\ \A u \in Threads : pc'[u] \in {"powerOn", "userial"} => pc'[u] = pc[u]
  BY <1>1 DEF transport, At
<1>2. ASSUME NEW t \in Threads,
             FindInterface(t) \/ PowerOn(t) \/ OpenUserial(t) \/ CloseUserial(t) \/ PowerOff(t)
      PROVE  PowerInv'
  <2> USE DEF Step, At, Goto, BtInv, TypeOK, Handle
  <2>1. pc[t] \in HoldsLock /\ \A u \in Threads \ {t} : pc'[u] = pc[u] /\ pc[u] \notin HoldsLock
    BY <1>2, ThreadsAssumption DEF FindInterface, PowerOn, OpenUserial, CloseUserial, PowerOff,
       OwnerInv, HoldsLock, OpeningLabels
  <2>2. \A u \in Threads \ {t} : pc'[u] \notin {"powerOn", "userial"}
    BY <2>1 DEF HoldsLock, OpeningLabels
  <2>3. CASE FindInterface(t)
    BY <2>2, <2>3 DEF FindInterface
  <2>4. CASE PowerOn(t)
    BY <2>2, <2>4 DEF PowerOn
  <2>5. CASE OpenUserial(t)
    BY <2>2, <2>5 DEF OpenUserial
  <2>6. CASE CloseUserial(t)
    BY <2>2, <2>6 DEF CloseUserial
  <2>7. CASE PowerOff(t)
    BY <2>2, <2>7 DEF PowerOff
  <2> QED
    BY <1>2, <2>3, <2>4, <2>5, <2>6, <2>7
<1> QED
  BY <1>1, <1>2, TransportSteps DEF BtInv

\* While the channel is open the chip has power, and power that is on can be
\* turned off again, whichever step of an open or a close failed before.
THEOREM PowerIsAccounted == Spec => []PowerAccounted
<1>1. ant_init => PowerInv
  BY DEF ant_init, PowerInv, PowerAccounted, At
<1>2. BtIInv /\ PowerInv /\ [Next]_vars => PowerInv'
  BY PowerStep DEF BtIInv
<1>3. PowerInv => PowerAccounted
  BY DEF PowerInv
<1> QED
  BY <1>1, <1>2, <1>3, RadioInvariant, PTL DEF Spec

\* The chip is never turned off under a receive thread: power goes only where
\* the channel is being closed, which the radio does when no thread serves.
THEOREM PowerOffComesLast == Spec => PowerOffAfterThread
<1>1. ASSUME BtIInv, [Next]_vars, power, ~power'
      PROVE  \A r \in RxThreads : ~Serving(r)
  <2> TAKE r \in RxThreads
  <2>1. PICK t \in Threads : pc[t] = "powerOff"
    <3>1. PICK t \in Threads : \/ FindInterface(t) \/ PowerOn(t) \/ OpenUserial(t)
                               \/ CloseUserial(t) \/ PowerOff(t)
      BY <1>1, TransportSteps DEF transport, BtIInv, BtInv
    <3>2. pc[t] = "powerOff"
      BY <1>1, <3>1 DEF FindInterface, PowerOn, OpenUserial, CloseUserial, PowerOff, Step, At
    <3> QED
      BY <3>2
  <2>2. RadioPc[t] = "close"
    BY <2>1, MappedAt DEF RadioLabel, OpeningLabels
  <2>3. RadioPc[r] \notin ServingLabels
    BY <1>1, <2>2 DEF BtIInv, RadioProofs!IInv, RadioProofs!StructInv, RadioProofs!CloseInv,
       RadioProofs!At, RadioProofs!Serving, RadioProofs!ServingLabels, RadioProofs!Threads,
       ServingLabels, Threads
  <2> QED
    BY <2>3, MappedAt DEF Serving, RadioLabel, ServingLabels, OpeningLabels, Threads
<1> QED
  BY <1>1, RadioInvariant, PTL DEF Spec, PowerOffAfterThread

-----------------------------------------------------------------------------
(* What the application is told.                                           *)

LEMMA SettledInvariant == Spec => [](BtIInv /\ RadioProofs!BtSettledIInv)
<1> USE ThreadsAssumption, FaultsAssumption
    DEF RadioProofs!ThreadsAssumption, RadioProofs!EnvironmentAssumption,
        RadioProofs!BackEndAssumption, RadioProofs!ChannelsAssumption
<1>1. ant_init => RadioProofs!BtSettledIInv
  BY RadioProofs!InitStep, RadioProofs!BtSettledInit, RadioInit, SameInit
     DEF RadioProofs!BtSettledIInv
<1>2. BtIInv /\ RadioProofs!BtSettledIInv /\ [Next]_vars => RadioProofs!BtSettledIInv'
  BY RadioProofs!BtSettledStep, BtIInvStep
<1> QED
  BY <1>1, <1>2, RadioInvariant, PTL DEF Spec

\* However calls, read errors, resets and failures of the vendor library overlap:
\* once everything has settled the application has last been told the status the
\* radio has, but for the thread that found the lock busy and the failed enable.
THEOREM SettledIsTold == Spec => []SettledStatus
<1>1. ASSUME BtIInv, RadioProofs!BtSettledIInv,
             Quiescent, ~Abandoned, ~StillEnabling, ~Leaving
      PROVE  ant_radio_enabled_status = IF notified = "RESET" THEN "ENABLED" ELSE notified
  <2> USE ThreadsAssumption, FaultsAssumption
      DEF RadioProofs!ThreadsAssumption, RadioProofs!EnvironmentAssumption,
          RadioProofs!BackEndAssumption, RadioProofs!ChannelsAssumption
  <2>1. TypeOK /\ \A t \in Threads : pc[t] \in {"idle", "gone", "start", "loop", "poll"}
    BY <1>1 DEF BtIInv, BtInv, Quiescent
  <2>2. Unmapped
    BY <2>1, PlainState DEF Unmapped, Special, SpoofLabels
  <2>3. \A t \in Threads : RadioPc[t] = pc[t]
    BY <2>1, MappedAt DEF RadioLabel, OpeningLabels
  <2>4. RadioProofs!Quiescent
    BY <1>1, <2>1, <2>2, <2>3 DEF Quiescent, Unmapped, RadioProofs!Quiescent,
       RadioProofs!Threads, Threads
  <2>5. /\ ~(stRxThread # NoThread /\ RadioProofs!At(stRxThread, "gone"))
        /\ ~(stRxThread = NoThread /\ ucRunThread)
        /\ ~(~ucRunThread /\ \E r \in RxThreads : RadioProofs!At(r, "loop"))
    BY <1>1, <2>1, <2>3 DEF Abandoned, StillEnabling, Leaving, At, RadioProofs!At, TypeOK, Threads
  <2>6. RadioProofs!ant_radio_enabled_status
          = IF RadioNotified = "RESET" THEN "ENABLED" ELSE RadioNotified
    BY <1>1, <2>4, <2>5, RadioProofs!BtSettledTruth
  <2>7. ant_radio_enabled_status = RadioProofs!ant_radio_enabled_status
    <3>1. RadioProofs!Channels = {0}
      BY DEF RadioProofs!Channels
    <3>2. RadioProofs!AllClosed <=> iFd = -1
      BY <3>1 DEF RadioProofs!AllClosed
    <3>3. RadioProofs!AllOpen <=> iFd # -1
      BY <3>1 DEF RadioProofs!AllOpen
    <3> QED
      BY <3>2, <3>3 DEF ant_radio_enabled_status, RadioProofs!ant_radio_enabled_status
  <2> QED
    BY <2>2, <2>6, <2>7 DEF Unmapped
<1> QED
  BY <1>1, SettledInvariant, PTL DEF SettledStatus
=============================================================================
