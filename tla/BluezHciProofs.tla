--------------------------- MODULE BluezHciProofs ----------------------------
(***************************************************************************)
(* Proofs about BluezHci, for any number of callers and receive threads,   *)
(* both builds, and any subset of the calls and of the faults.             *)
(*                                                                         *)
(* The argument.  A thread in get_and_set_radio_status is where it goes on *)
(* from there (Place).  Each of the two mutexes is owned exactly by the    *)
(* thread inside its sections (OwnersInv), so that nobody but the one call *)
(* of enable or disable under way changes RxParams.thread, and no message  *)
(* is under way in it.  A receive thread that runs is on record, because   *)
(* one is created only with the record empty, and the record is cleared    *)
(* only after its end or by itself.                                        *)
(***************************************************************************)
EXTENDS BluezHci, TLAPS

\* Where a thread is, or goes on when it knows the status.
Place(t) == IF pc[t] \in {"ask", "store", "answer"} THEN after[t] ELSE pc[t]

RxPlaces == {"rxSocket", "rxDecide", "rxPoll", "rxClose", "rxCrashed", "rxForget", "gone"}

\* Threads of the application run its calls, receive threads ANTHCIRxThread.
PlacesInv ==
  /\ \A r \in RxThreads : Place(r) \in RxPlaces
  /\ \A c \in Callers : Place(c) \notin RxPlaces

EnableSections == HoldsBoth \cup {"enTxLock", "disTxLock", "rxCrashed", "rxForget"}
TxSections     == HoldsBoth \cup HoldsTx

OwnersInv ==
  /\ \A t \in Threads : enableLock = t <=> Place(t) \in EnableSections
  /\ \A t \in Threads : txLock = t <=> Place(t) \in TxSections

\* Only a power library turns the chip on, and after the join of a disable there
\* is no receive thread.
RecordInv ==
  /\ build = "plain" => ~chipOn
  /\ \A c \in Callers : Place(c) = "disRelease" => rxThread = NoThread

StructInv == PlacesInv /\ OwnersInv /\ ReaderOnRecord /\ RecordInv

\* A message is written so often, and no more.
RetriesInv == \A c \in Callers : pc[c] \in {"txWrite", "txWait"} => retries < MaxRetries

IInv == TypeOK /\ StructInv /\ RetriesInv

\* ant_disable of the power library does not turn the chip on.
LEMMA TurnedOff ==
  ASSUME chipOn \in BOOLEAN, TurnOff PROVE chipOn' \in BOOLEAN /\ (chipOn' => chipOn)
<1>1. CASE chipOn' = FALSE
  BY <1>1
<1>2. CASE chipOn' = chipOn
  BY <1>2
<1> QED
  BY <1>1, <1>2 DEF TurnOff

\* Every step preserves the types.
LEMMA TypeStep == TypeOK /\ RetriesInv /\ [Next]_vars => TypeOK'
<1> SUFFICES ASSUME TypeOK, RetriesInv, [Next]_vars PROVE TypeOK'
  OBVIOUS
<1> USE ThreadsAssumption, BoundsAssumption
    DEF TypeOK, Threads, At, Goto, AskThen, Forget, Report, locks, radio, query, send,
        Status, Labels, HoldsBoth, HoldsTx, None, NoSample
<1>0. CASE UNCHANGED vars
  BY <1>0 DEF vars
<1>1. ASSUME NEW t \in Threads, Ask(t) PROVE TypeOK'
  BY <1>1 DEF Ask, ChipStatuses
<1>2. ASSUME NEW t \in Threads, Store(t) PROVE TypeOK'
  BY <1>2 DEF Store
<1>3. ASSUME NEW t \in Threads, GetStatus(t) PROVE TypeOK'
  BY <1>3 DEF GetStatus
<1>4. ASSUME NEW c \in Callers, CallRadio(c) PROVE TypeOK'
  BY <1>4 DEF CallRadio
<1>5. ASSUME NEW c \in Callers, CallStatus(c) PROVE TypeOK'
  BY <1>5 DEF CallStatus
<1>6. ASSUME NEW c \in Callers, TakeEnableLock(c) PROVE TypeOK'
  BY <1>6 DEF TakeEnableLock
<1>7. ASSUME NEW c \in Callers, TakeTxLock(c) PROVE TypeOK'
  BY <1>7 DEF TakeTxLock
<1>8. ASSUME NEW c \in Callers, TxLock(c) PROVE TypeOK'
  BY <1>8 DEF TxLock
<1>9. ASSUME NEW c \in Callers, EnDecide(c) PROVE TypeOK'
  BY <1>9 DEF EnDecide, BeginEnabling
<1>10. ASSUME NEW c \in Callers, EnJoin(c) PROVE TypeOK'
  BY <1>10 DEF EnJoin, BeginEnabling
<1>11. ASSUME NEW c \in Callers, EnPower(c) PROVE TypeOK'
  <2>1. chipOn' \in BOOLEAN
    BY <1>11 DEF EnPower
  <2>2. UNCHANGED <<build, locks, radio_status, rxThread, notified, query, send>>
    BY <1>11 DEF EnPower
  <2>3. pc' \in {[pc EXCEPT ![c] = "enStart"], [pc EXCEPT ![c] = "enFail"]}
    BY <1>11 DEF EnPower
  <2> QED
    BY <2>1, <2>2, <2>3
<1>12. ASSUME NEW c \in Callers, EnRestart(c) PROVE TypeOK'
  BY <1>12 DEF EnRestart
<1>13. ASSUME NEW c \in Callers, EnStart(c) PROVE TypeOK'
  BY <1>13 DEF EnStart
<1>14. ASSUME NEW c \in Callers, EnConfirm(c) PROVE TypeOK'
  BY <1>14 DEF EnConfirm
<1>15. ASSUME NEW c \in Callers, EnFail(c) PROVE TypeOK'
  <2>1. chipOn' \in BOOLEAN
    BY <1>15, TurnedOff DEF EnFail
  <2>2. UNCHANGED <<build, locks, radio_status, rxThread, notified, sample, learned, send>>
    BY <1>15 DEF EnFail
  <2>3. AskThen(c, "enRelease")
    BY <1>15 DEF EnFail
  <2> QED
    BY <2>1, <2>2, <2>3
<1>16. ASSUME NEW c \in Callers, DisDecide(c) PROVE TypeOK'
  BY <1>16 DEF DisDecide
<1>17. ASSUME NEW c \in Callers, DisPower(c) PROVE TypeOK'
  <2>1. chipOn' \in BOOLEAN
    BY <1>17, TurnedOff DEF DisPower
  <2>2. pc' = [pc EXCEPT ![c] = "disJoin"]
    BY <1>17 DEF DisPower
  <2>3. UNCHANGED <<build, locks, radio_status, rxThread, notified, query, send>>
    BY <1>17 DEF DisPower
  <2> QED
    BY <2>1, <2>2, <2>3
<1>18. ASSUME NEW c \in Callers, DisJoin(c) PROVE TypeOK'
  BY <1>18 DEF DisJoin
<1>19. ASSUME NEW c \in Callers, Release(c) PROVE TypeOK'
  BY <1>19 DEF Release
<1>20. ASSUME NEW c \in Callers, TxDecide(c) PROVE TypeOK'
  BY <1>20 DEF TxDecide, TxLeave
<1>21. ASSUME NEW c \in Callers, TxOpen(c) PROVE TypeOK'
  <2>1. retries' \in 0 .. MaxRetries
    BY <1>21 DEF TxOpen
  <2>2. pc' \in [Threads -> Labels]
    BY <1>21 DEF TxOpen, TxLeave
  <2> HIDE DEF Labels, HoldsBoth, HoldsTx
  <2> QED
    BY <1>21, <2>1, <2>2 DEF TxOpen, TxLeave
<1>22. ASSUME NEW c \in Callers, TxWrite(c) PROVE TypeOK'
  BY <1>22 DEF TxWrite
<1>23. ASSUME NEW c \in Callers, TxAnswered(c) PROVE TypeOK'
  BY <1>23 DEF TxAnswered
<1>24. ASSUME NEW c \in Callers, TxRefused(c) PROVE TypeOK'
  <2>1. retries < MaxRetries
    BY <1>24 DEF TxRefused, RetriesInv
  <2>2. retries' \in 0 .. MaxRetries
    BY <1>24, <2>1 DEF TxRefused
  <2>3. pc' \in {[pc EXCEPT ![c] = "txWrite"], [pc EXCEPT ![c] = "txClose"]}
    BY <1>24 DEF TxRefused
  <2> QED
    BY <1>24, <2>2, <2>3 DEF TxRefused
<1>25. ASSUME NEW c \in Callers, TxUnspecified(c) PROVE TypeOK'
  BY <1>25 DEF TxUnspecified
<1>26. ASSUME NEW c \in Callers, TxClose(c) PROVE TypeOK'
  <2>1. retries' \in 0 .. MaxRetries
    BY <1>26 DEF TxClose
  <2>2. pc' \in [Threads -> Labels]
    BY <1>26 DEF TxClose, TxLeave
  <2> HIDE DEF Labels, HoldsBoth, HoldsTx
  <2> QED
    BY <1>26, <2>1, <2>2 DEF TxClose, TxLeave
<1>27. ASSUME NEW r \in RxThreads, RxSocket(r) PROVE TypeOK'
  BY <1>27 DEF RxSocket
<1>28. ASSUME NEW r \in RxThreads, RxDecide(r) PROVE TypeOK'
  BY <1>28 DEF RxDecide
<1>29. ASSUME NEW r \in RxThreads, RxPoll(r) PROVE TypeOK'
  BY <1>29 DEF RxPoll
<1>30. ASSUME NEW r \in RxThreads, RxClose(r) PROVE TypeOK'
  BY <1>30 DEF RxClose
<1>31. ASSUME NEW r \in RxThreads, RxCrashed(r) PROVE TypeOK'
  <2>1. chipOn' \in BOOLEAN
    BY <1>31, TurnedOff DEF RxCrashed
  <2>2. pc' \in [Threads -> Labels] /\ after' \in {after, [after EXCEPT ![r] = "rxForget"]}
    BY <1>31 DEF RxCrashed
  <2>3. radio_status' \in Status /\ notified' \in Status
    BY <1>31 DEF RxCrashed
  <2>4. UNCHANGED <<build, locks, rxThread, sample, learned, send>>
    BY <1>31 DEF RxCrashed
  <2> HIDE DEF Labels, HoldsBoth, HoldsTx
  <2> QED
    BY <2>1, <2>2, <2>3, <2>4
<1>32. ASSUME NEW r \in RxThreads, RxForget(r) PROVE TypeOK'
  BY <1>32 DEF RxForget
<1>33. CASE TimePasses
  BY <1>33 DEF TimePasses
<1>34. CASE ChipCrashes
  BY <1>34 DEF ChipCrashes
<1> QED
  BY <1>0, <1>1, <1>2, <1>3, <1>4, <1>5, <1>6, <1>7, <1>8, <1>9, <1>10,
     <1>11, <1>12, <1>13, <1>14, <1>15, <1>16, <1>17, <1>18, <1>19, <1>20,
     <1>21, <1>22, <1>23, <1>24, <1>25, <1>26, <1>27, <1>28, <1>29, <1>30,
     <1>31, <1>32, <1>33, <1>34
     DEF Next, LockStep, CallStep, RxStep

\* Every step preserves the structure.
LEMMA StructStep == IInv /\ [Next]_vars => StructInv'
<1> SUFFICES ASSUME IInv, [Next]_vars PROVE StructInv'
  OBVIOUS
<1> USE ThreadsAssumption, BoundsAssumption
    DEF IInv, StructInv, TypeOK, Threads, At, Goto, AskThen, Forget, Report, locks, radio, query,
        send, Labels, HoldsBoth, HoldsTx, Place, RxPlaces, PlacesInv, EnableSections, TxSections,
        OwnersInv, ReaderOnRecord, RecordInv, Live
<1>0. CASE UNCHANGED vars
  BY <1>0 DEF vars
<1>1. ASSUME NEW t \in Threads, Ask(t) PROVE StructInv'
  BY <1>1 DEF Ask
<1>2. ASSUME NEW t \in Threads, Store(t) PROVE StructInv'
  BY <1>2 DEF Store
<1>3. ASSUME NEW t \in Threads, GetStatus(t) PROVE StructInv'
  BY <1>3 DEF GetStatus
<1>4. ASSUME NEW c \in Callers, CallRadio(c) PROVE StructInv'
  BY <1>4 DEF CallRadio
<1>5. ASSUME NEW c \in Callers, CallStatus(c) PROVE StructInv'
  BY <1>5 DEF CallStatus
<1>6. ASSUME NEW c \in Callers, TakeEnableLock(c) PROVE StructInv'
  BY <1>6 DEF TakeEnableLock
<1>7. ASSUME NEW c \in Callers, TakeTxLock(c) PROVE StructInv'
  BY <1>7 DEF TakeTxLock
<1>8. ASSUME NEW c \in Callers, TxLock(c) PROVE StructInv'
  BY <1>8 DEF TxLock
<1>9. ASSUME NEW c \in Callers, EnDecide(c) PROVE StructInv'
  BY <1>9 DEF EnDecide, BeginEnabling
<1>10. ASSUME NEW c \in Callers, EnJoin(c) PROVE StructInv'
  BY <1>10 DEF EnJoin, BeginEnabling
<1>11. ASSUME NEW c \in Callers, EnPower(c) PROVE StructInv'
  BY <1>11 DEF EnPower
<1>12. ASSUME NEW c \in Callers, EnRestart(c) PROVE StructInv'
  BY <1>12 DEF EnRestart
<1>13. ASSUME NEW c \in Callers, EnStart(c) PROVE StructInv'
  BY <1>13 DEF EnStart
<1>14. ASSUME NEW c \in Callers, EnConfirm(c) PROVE StructInv'
  BY <1>14 DEF EnConfirm
<1>15. ASSUME NEW c \in Callers, EnFail(c) PROVE StructInv'
  BY <1>15 DEF EnFail
<1>16. ASSUME NEW c \in Callers, DisDecide(c) PROVE StructInv'
  BY <1>16 DEF DisDecide
<1>17. ASSUME NEW c \in Callers, DisPower(c) PROVE StructInv'
  <2>1. build' = build /\ (chipOn' => chipOn)
    BY <1>17, TurnedOff DEF DisPower
  <2>2. At(c, "disPower") /\ pc' = [pc EXCEPT ![c] = "disJoin"]
    BY <1>17 DEF DisPower
  <2>3. UNCHANGED <<locks, rxThread, query>>
    BY <1>17 DEF DisPower
  <2> QED
    BY <2>1, <2>2, <2>3
<1>18. ASSUME NEW c \in Callers, DisJoin(c) PROVE StructInv'
  BY <1>18 DEF DisJoin
<1>19. ASSUME NEW c \in Callers, Release(c) PROVE StructInv'
  BY <1>19 DEF Release
<1>20. ASSUME NEW c \in Callers, TxDecide(c) PROVE StructInv'
  BY <1>20 DEF TxDecide, TxLeave
<1>21. ASSUME NEW c \in Callers, TxOpen(c) PROVE StructInv'
  BY <1>21 DEF TxOpen, TxLeave
<1>22. ASSUME NEW c \in Callers, TxWrite(c) PROVE StructInv'
  BY <1>22 DEF TxWrite
<1>23. ASSUME NEW c \in Callers, TxAnswered(c) PROVE StructInv'
  BY <1>23 DEF TxAnswered
<1>24. ASSUME NEW c \in Callers, TxRefused(c) PROVE StructInv'
  BY <1>24 DEF TxRefused
<1>25. ASSUME NEW c \in Callers, TxUnspecified(c) PROVE StructInv'
  BY <1>25 DEF TxUnspecified
<1>26. ASSUME NEW c \in Callers, TxClose(c) PROVE StructInv'
  BY <1>26 DEF TxClose, TxLeave
<1>27. ASSUME NEW r \in RxThreads, RxSocket(r) PROVE StructInv'
  BY <1>27 DEF RxSocket
<1>28. ASSUME NEW r \in RxThreads, RxDecide(r) PROVE StructInv'
  BY <1>28 DEF RxDecide
<1>29. ASSUME NEW r \in RxThreads, RxPoll(r) PROVE StructInv'
  BY <1>29 DEF RxPoll
<1>30. ASSUME NEW r \in RxThreads, RxClose(r) PROVE StructInv'
  BY <1>30 DEF RxClose
<1>31. ASSUME NEW r \in RxThreads, RxCrashed(r) PROVE StructInv'
  BY <1>31 DEF RxCrashed
<1>32. ASSUME NEW r \in RxThreads, RxForget(r) PROVE StructInv'
  BY <1>32 DEF RxForget
<1>33. CASE TimePasses
  BY <1>33 DEF TimePasses
<1>34. CASE ChipCrashes
  BY <1>34 DEF ChipCrashes
<1> QED
  BY <1>0, <1>1, <1>2, <1>3, <1>4, <1>5, <1>6, <1>7, <1>8, <1>9, <1>10,
     <1>11, <1>12, <1>13, <1>14, <1>15, <1>16, <1>17, <1>18, <1>19, <1>20,
     <1>21, <1>22, <1>23, <1>24, <1>25, <1>26, <1>27, <1>28, <1>29, <1>30,
     <1>31, <1>32, <1>33, <1>34
     DEF Next, LockStep, CallStep, RxStep
\* The counter stays below its limit while a message is tried.
LEMMA RetriesStep == IInv /\ [Next]_vars => RetriesInv'
<1> SUFFICES ASSUME IInv, [Next]_vars PROVE RetriesInv'
  OBVIOUS
<1> USE ThreadsAssumption
    DEF IInv, TypeOK, Threads, At, Goto, AskThen, Forget, locks, radio, query, send
<1>0. CASE UNCHANGED vars
  BY <1>0 DEF vars, RetriesInv
<1>1. ASSUME NEW c \in Callers, TxOpen(c) \/ TxClose(c) PROVE RetriesInv'
  BY <1>1, BoundsAssumption DEF TxOpen, TxClose, RetriesInv
<1>2. ASSUME NEW c \in Callers, TxRefused(c) PROVE RetriesInv'
  <2>1. \A d \in Callers \ {c} : pc[d] \notin {"txWrite", "txWait"}
    BY <1>2 DEF TxRefused, StructInv, OwnersInv, Place, TxSections, HoldsTx
  <2>2. /\ \A d \in Callers \ {c} : pc'[d] = pc[d]
        /\ pc'[c] = "txWrite" \/ pc'[c] = "txClose"
        /\ pc'[c] = "txWrite" => retries' < MaxRetries
    BY <1>2 DEF TxRefused
  <2> QED
    BY <2>1, <2>2 DEF RetriesInv
<1> DEFINE Kept ==
      /\ retries' = retries
      /\ \A c \in Callers : pc'[c] \in {"txWrite", "txWait"} => pc[c] \in {"txWrite", "txWait"}
<1>3. ASSUME NEW t \in Threads, Ask(t) \/ Store(t) \/ GetStatus(t) PROVE Kept
  BY <1>3 DEF Ask, Store, GetStatus
<1>4. ASSUME NEW c \in Callers,
             \/ CallRadio(c) \/ CallStatus(c) \/ LockStep(c) \/ EnDecide(c) \/ EnJoin(c) \/ EnPower(c)
             \/ EnRestart(c) \/ EnStart(c) \/ EnConfirm(c) \/ EnFail(c)
      PROVE  Kept
  BY <1>4 DEF CallRadio, CallStatus, LockStep, TakeEnableLock, TakeTxLock, TxLock, EnDecide, EnJoin,
              EnPower, EnRestart, EnStart, EnConfirm, EnFail, BeginEnabling
<1>5. ASSUME NEW c \in Callers,
             \/ DisDecide(c) \/ DisPower(c) \/ DisJoin(c) \/ Release(c) \/ TxDecide(c)
             \/ TxWrite(c) \/ TxAnswered(c) \/ TxUnspecified(c)
      PROVE  Kept
  BY <1>5 DEF DisDecide, DisPower, DisJoin, Release, TxDecide, TxLeave, TxWrite, TxAnswered,
              TxUnspecified
<1>6. ASSUME NEW r \in RxThreads, RxStep(r) PROVE Kept
  BY <1>6 DEF RxStep, RxSocket, RxDecide, RxPoll, RxClose, RxCrashed, RxForget
<1>7. CASE TimePasses \/ ChipCrashes
  BY <1>7 DEF TimePasses, ChipCrashes, RetriesInv
<1>8. Kept => RetriesInv'
  BY DEF RetriesInv
<1> HIDE DEF Kept
<1> QED
  BY <1>0, <1>1, <1>2, <1>3, <1>4, <1>5, <1>6, <1>7, <1>8 DEF Next, CallStep

-----------------------------------------------------------------------------
\* The invariant holds initially and in every reachable state.
THEOREM Invariant == Spec => []IInv
<1>1. Init => TypeOK
  <2>1. 0 \in 0 .. MaxRetries
    BY BoundsAssumption
  <2>2. NoSample \in [before : Status, now : Status] /\ None \in Status
    BY DEF NoSample, None, Status
  <2> QED
    BY <2>1, <2>2 DEF Init, TypeOK, Status, Labels
<1>2. Init => StructInv /\ RetriesInv
  BY ThreadsAssumption
     DEF Init, StructInv, PlacesInv, OwnersInv, ReaderOnRecord, RecordInv, RetriesInv, Live, At,
         Place, RxPlaces, EnableSections, TxSections, HoldsBoth, HoldsTx, Threads
<1>3. IInv /\ [Next]_vars => IInv'
  BY TypeStep, StructStep, RetriesStep DEF IInv
<1> QED
  BY <1>1, <1>2, <1>3, PTL DEF Spec, IInv

\* Every variable keeps its type; in particular the status is always one of the
\* five, whatever the power library answers, and a message is not tried more
\* often than MAX_RETRIES_WRITE_FAIL.
THEOREM TypeCorrect == Spec => []TypeOK
  BY Invariant, PTL DEF IInv

\* RxParams.thread always names the receive thread that runs: there is never a
\* second one.
THEOREM ReaderIsOnRecord == Spec => []ReaderOnRecord
  BY Invariant, PTL DEF IInv, StructInv

\* When ant_disable_radio returns there is no receive thread any more.
THEOREM DisableJoinsReader == Spec => DisableEndsReader
<1> DEFINE Ended == \A c \in Callers :
                      At(c, "disRelease") /\ pc'[c] = "idle" => \A r \in RxThreads : pc'[r] = "gone"
<1>1. ASSUME IInv, Next, NEW c \in Callers, At(c, "disRelease"), pc'[c] = "idle",
             NEW r \in RxThreads
      PROVE  pc'[r] = "gone"
  <2>1. rxThread = NoThread /\ enableLock = c /\ c # NoThread
    BY <1>1, ThreadsAssumption
       DEF IInv, StructInv, RecordInv, OwnersInv, Place, At, EnableSections, HoldsBoth, Threads
  <2>2. pc[r] = "gone" /\ r # c /\ r \in Threads
    BY <1>1, <2>1, ThreadsAssumption DEF IInv, StructInv, ReaderOnRecord, Live, At, Threads
  <2>3. \A d \in Callers : d # c => ~At(d, "enStart")
    BY <2>1, <1>1 DEF IInv, StructInv, OwnersInv, Place, At, EnableSections, HoldsBoth, Threads
  <2>4. ASSUME NEW t \in Threads, t # r,
               \/ Ask(t) \/ Store(t) \/ GetStatus(t) \/ CallRadio(t) \/ CallStatus(t)
               \/ LockStep(t) \/ RxStep(t) \/ EnDecide(t) \/ EnJoin(t) \/ EnPower(t) \/ EnRestart(t)
               \/ EnConfirm(t) \/ EnFail(t) \/ DisDecide(t) \/ DisPower(t) \/ DisJoin(t)
        PROVE  pc'[r] = pc[r]
    BY <1>1, <2>2, <2>4
       DEF IInv, TypeOK, Goto, AskThen, Ask, Store, GetStatus, CallRadio, CallStatus, LockStep,
           TakeEnableLock, TakeTxLock, TxLock, RxStep, RxSocket, RxDecide, RxPoll, RxClose,
           RxCrashed, RxForget, EnDecide, EnJoin, EnPower, EnRestart, EnConfirm, EnFail,
           BeginEnabling, DisDecide, DisPower, DisJoin
  <2>5. ASSUME NEW d \in Callers, d # r,
               \/ Release(d) \/ TxDecide(d) \/ TxOpen(d) \/ TxWrite(d) \/ TxAnswered(d)
               \/ TxRefused(d) \/ TxUnspecified(d) \/ TxClose(d)
        PROVE  pc'[r] = pc[r]
    BY <1>1, <2>2, <2>5
       DEF IInv, TypeOK, Goto, TxLeave, Release, TxDecide, TxOpen, TxWrite, TxAnswered, TxRefused,
           TxUnspecified, TxClose
  <2>6. ASSUME NEW d \in Callers, EnStart(d) PROVE FALSE
    BY <1>1, <2>3, <2>6 DEF EnStart, At
  <2>7. ASSUME Ask(r) \/ Store(r) \/ GetStatus(r) \/ RxStep(r) PROVE FALSE
    BY <2>2, <2>7
       DEF Ask, Store, GetStatus, RxStep, RxSocket, RxDecide, RxPoll, RxClose, RxCrashed,
           RxForget, At
  <2>8. CASE TimePasses \/ ChipCrashes
    BY <2>2, <2>8 DEF TimePasses, ChipCrashes
  <2> QED
    BY <1>1, <2>2, <2>4, <2>5, <2>6, <2>7, <2>8, ThreadsAssumption DEF Next, CallStep, Threads
<1>2. IInv /\ Next => Ended
  BY <1>1
<1>3. UNCHANGED vars => Ended
  BY DEF vars, At
<1> QED
  BY <1>2, <1>3, Invariant, PTL DEF Spec, DisableEndsReader

\* No enable or disable of the application takes the chip's power away from a
\* message under way.
THEOREM PowerIsKept == Spec => PowerKept
<1> DEFINE Kept ==
      (\E c \in Callers : pc[c] \in HoldsTx) /\ chipOn /\ ~chipOn'
        => pc' = pc \/ \E r \in RxThreads : At(r, "rxCrashed")
<1>1. ASSUME IInv, Next, NEW c \in Callers, pc[c] \in HoldsTx, chipOn, ~chipOn'
      PROVE  pc' = pc \/ \E r \in RxThreads : At(r, "rxCrashed")
  <2>1. \A d \in Callers : pc[d] \notin HoldsBoth
    BY <1>1, ThreadsAssumption
       DEF IInv, StructInv, OwnersInv, Place, TxSections, HoldsTx, HoldsBoth, Threads
  <2>2. ASSUME NEW d \in Callers, EnPower(d) \/ EnFail(d) \/ DisPower(d) PROVE FALSE
    BY <2>1, <2>2 DEF EnPower, EnFail, DisPower, At, HoldsBoth
  <2>3. ASSUME NEW r \in RxThreads, RxCrashed(r) PROVE At(r, "rxCrashed")
    BY <2>3 DEF RxCrashed
  <2>4. CASE ChipCrashes
    BY <2>4 DEF ChipCrashes
  <2>5. ASSUME NEW t \in Threads,
               \/ Ask(t) \/ Store(t) \/ GetStatus(t) \/ CallRadio(t) \/ CallStatus(t) \/ LockStep(t)
               \/ EnDecide(t) \/ EnJoin(t) \/ EnRestart(t) \/ EnStart(t) \/ EnConfirm(t)
               \/ DisDecide(t) \/ DisJoin(t) \/ Release(t) \/ TxDecide(t) \/ TxOpen(t) \/ TxWrite(t)
               \/ TxAnswered(t) \/ TxRefused(t) \/ TxUnspecified(t) \/ TxClose(t)
               \/ RxSocket(t) \/ RxDecide(t) \/ RxPoll(t) \/ RxClose(t) \/ RxForget(t) \/ TimePasses
        PROVE  chipOn' = chipOn
    BY <2>5
       DEF radio, Ask, Store, GetStatus, CallRadio, CallStatus, LockStep, TakeEnableLock,
           TakeTxLock, TxLock, EnDecide, EnJoin, EnRestart, EnStart, EnConfirm, DisDecide, DisJoin,
           Release, TxDecide, TxOpen, TxWrite, TxAnswered, TxRefused, TxUnspecified, TxClose,
           RxSocket, RxDecide, RxPoll, RxClose, RxForget, TimePasses
  <2> QED
    BY <1>1, <2>2, <2>3, <2>4, <2>5 DEF Next, CallStep, RxStep, Threads
<1>2. IInv /\ Next => Kept
  BY <1>1
<1>3. UNCHANGED vars => Kept
  BY DEF vars
<1> QED
  BY <1>2, <1>3, Invariant, PTL DEF Spec, PowerKept
-----------------------------------------------------------------------------
(* The answer of a disable, as long as nobody calls ant_radio_enabled_status. *)

NobodyAsks == \A t \in Threads : Place(t) = "idle" => pc[t] = "idle"

\* What a disable is about to learn is still so.
Truthful(c) ==
  /\ pc[c] = "store" /\ sample[c].now = "DISABLED" => ~chipOn
  /\ pc[c] = "answer" /\ radio_status = "DISABLED" => ~chipOn
  /\ pc[c] = "disRelease" /\ learned[c] = "DISABLED" => ~chipOn

SuccessInv ==
  /\ NobodyAsks
  /\ \A c \in Callers : Place(c) = "disRelease" => Truthful(c)

\* A disable that has joined the receive thread is alone with the chip.
LEMMA AloneAtRelease ==
  ASSUME IInv, NobodyAsks, NEW c \in Callers, Place(c) = "disRelease"
  PROVE  /\ enableLock = c /\ c # NoThread
         /\ \A r \in RxThreads : pc[r] = "gone"
         /\ \A t \in Threads \ {c} : /\ Place(t) \notin EnableSections \cup TxSections
                                     /\ pc[t] # "store"
<1>1. enableLock = c /\ txLock = c /\ c # NoThread /\ rxThread = NoThread
  BY ThreadsAssumption
     DEF IInv, StructInv, OwnersInv, RecordInv, EnableSections, TxSections, HoldsBoth, Threads
<1>2. \A r \in RxThreads : pc[r] = "gone"
  BY <1>1, ThreadsAssumption DEF IInv, StructInv, ReaderOnRecord, Live, At
<1>3. \A t \in Threads \ {c} : Place(t) \notin EnableSections \cup TxSections
  BY <1>1 DEF IInv, StructInv, OwnersInv
<1>4. ASSUME NEW t \in Threads \ {c}, pc[t] = "store" PROVE FALSE
  <2>1. t \in Callers /\ Place(t) = after[t]
    BY <1>2, <1>4 DEF Threads, Place
  <2>2. Place(t) \in {"idle", "enDecide", "enRelease", "disDecide", "disRelease", "txDecide"}
    BY <2>1 DEF IInv, TypeOK, StructInv, PlacesInv, RxPlaces
  <2> QED
    BY <1>3, <1>4, <2>2 DEF NobodyAsks, EnableSections, TxSections, HoldsBoth, HoldsTx
<1> QED
  BY <1>1, <1>2, <1>3, <1>4

\* What such a disable reads is changed by nobody else.
LEMMA OthersAtRelease ==
  ASSUME IInv, NobodyAsks, Next, NEW c \in Callers, Place(c) = "disRelease"
  PROVE  \/ Ask(c) \/ Store(c) \/ GetStatus(c) \/ Release(c)
         \/ /\ radio_status' = radio_status /\ (chipOn' => chipOn)
            /\ pc'[c] = pc[c] /\ after'[c] = after[c]
            /\ sample'[c] = sample[c] /\ learned'[c] = learned[c]
<1>a. /\ enableLock = c /\ c # NoThread /\ c \in Threads
      /\ \A r \in RxThreads : pc[r] = "gone"
      /\ \A t \in Threads \ {c} : /\ Place(t) \notin EnableSections \cup TxSections
                                  /\ pc[t] # "store"
  BY AloneAtRelease DEF Threads
<1>b. pc[c] \in {"ask", "store", "answer", "disRelease"}
  BY DEF Place
<1>c. \A t \in Threads \ {c} : pc[t] \notin EnableSections \cup TxSections
  BY <1>a DEF Place, EnableSections, TxSections, HoldsBoth, HoldsTx
<1> DEFINE Kept == /\ radio_status' = radio_status /\ (chipOn' => chipOn)
                   /\ pc'[c] = pc[c] /\ after'[c] = after[c]
                   /\ sample'[c] = sample[c] /\ learned'[c] = learned[c]
<1> USE DEF IInv, TypeOK, At, Goto, AskThen, Forget, radio, query, locks, send
<1>1. ASSUME NEW t \in Threads \ {c}, Ask(t) \/ Store(t) \/ GetStatus(t) PROVE Kept
  BY <1>a, <1>1 DEF Ask, Store, GetStatus
<1>2. ASSUME NEW d \in Callers, CallRadio(d) \/ CallStatus(d) \/ TxLock(d) PROVE Kept
  BY <1>a, <1>b, <1>2 DEF CallRadio, CallStatus, TxLock
<1>3. ASSUME NEW d \in Callers, TakeEnableLock(d) PROVE FALSE
  BY <1>a, <1>3 DEF TakeEnableLock
<1>4. ASSUME NEW d \in Callers,
             \/ TakeTxLock(d) \/ EnDecide(d) \/ EnJoin(d) \/ EnPower(d) \/ EnRestart(d) \/ EnStart(d)
             \/ EnConfirm(d) \/ EnFail(d) \/ DisDecide(d) \/ DisPower(d) \/ DisJoin(d)
             \/ TxDecide(d) \/ TxOpen(d) \/ TxWrite(d) \/ TxAnswered(d) \/ TxRefused(d)
             \/ TxUnspecified(d) \/ TxClose(d)
      PROVE  FALSE
  <2>1. /\ d \in Threads
        /\ pc[d] \in (EnableSections \cup TxSections) \ {"ask", "store", "answer", "disRelease"}
    BY <1>4
       DEF Threads, EnableSections, TxSections, HoldsBoth, HoldsTx, TakeTxLock, EnDecide, EnJoin,
           EnPower, EnRestart, EnStart, EnConfirm, EnFail, DisDecide, DisPower, DisJoin, TxDecide,
           TxOpen, TxWrite, TxAnswered, TxRefused, TxUnspecified, TxClose
  <2> QED
    BY <1>b, <1>c, <2>1
<1>5. ASSUME NEW d \in Callers \ {c}, Release(d) PROVE FALSE
  BY <1>c, <1>5 DEF Release, EnableSections, HoldsBoth, Threads
<1>6. ASSUME NEW r \in RxThreads, RxStep(r) PROVE FALSE
  BY <1>a, <1>6 DEF RxStep, RxSocket, RxDecide, RxPoll, RxClose, RxCrashed, RxForget
<1>7. CASE TimePasses \/ ChipCrashes
  BY <1>7 DEF TimePasses, ChipCrashes
<1> QED
  BY <1>1, <1>2, <1>3, <1>4, <1>5, <1>6, <1>7 DEF Next, LockStep, CallStep
\* Nobody starts to ask but from a call, and a disable gets there by its join.
LEMMA PlacesAtRelease ==
  ASSUME "status" \notin Operations, IInv, NobodyAsks, Next
  PROVE  /\ NobodyAsks'
         /\ \A c \in Callers :
              Place(c)' = "disRelease" => Place(c) = "disRelease" \/ DisJoin(c)
<1> DEFINE Kept == \A t \in Threads :
                     /\ Place(t)' = "idle" => pc'[t] = "idle"
                     /\ Place(t)' = "disRelease" => Place(t) = "disRelease"
<1> USE ThreadsAssumption
    DEF IInv, TypeOK, NobodyAsks, Threads, At, Goto, AskThen, Forget, Place, radio, query, locks,
        send
<1>1. ASSUME NEW t \in Threads, Ask(t) \/ Store(t) \/ GetStatus(t) PROVE Kept
  BY <1>1 DEF Ask, Store, GetStatus
<1>2. ASSUME NEW c \in Callers, CallRadio(c) \/ TakeEnableLock(c) \/ TakeTxLock(c) \/ TxLock(c)
      PROVE  Kept
  BY <1>2 DEF CallRadio, TakeEnableLock, TakeTxLock, TxLock
<1>3. ASSUME NEW c \in Callers, CallStatus(c) PROVE FALSE
  BY <1>3 DEF CallStatus
<1>4. ASSUME NEW c \in Callers, EnDecide(c) \/ EnJoin(c) \/ EnPower(c) \/ EnRestart(c) PROVE Kept
  BY <1>4 DEF EnDecide, EnJoin, EnPower, EnRestart, BeginEnabling
<1>5. ASSUME NEW c \in Callers, EnStart(c) \/ EnConfirm(c) \/ EnFail(c) PROVE Kept
  BY <1>5 DEF EnStart, EnConfirm, EnFail
<1>6. ASSUME NEW c \in Callers, DisDecide(c) \/ DisPower(c) \/ Release(c) PROVE Kept
  BY <1>6 DEF DisDecide, DisPower, Release
<1>7. ASSUME NEW c \in Callers, DisJoin(c)
      PROVE  /\ NobodyAsks'
             /\ \A d \in Callers \ {c} : Place(d)' = "disRelease" => Place(d) = "disRelease"
  BY <1>7 DEF DisJoin
<1>8. ASSUME NEW c \in Callers,
             \/ TxDecide(c) \/ TxOpen(c) \/ TxWrite(c) \/ TxAnswered(c) \/ TxRefused(c)
             \/ TxUnspecified(c) \/ TxClose(c)
      PROVE  Kept
  BY <1>8 DEF TxDecide, TxOpen, TxWrite, TxAnswered, TxRefused, TxUnspecified, TxClose, TxLeave
<1>9. ASSUME NEW r \in RxThreads, RxStep(r) PROVE Kept
  BY <1>9 DEF RxStep, RxSocket, RxDecide, RxPoll, RxClose, RxCrashed, RxForget
<1>10. CASE TimePasses \/ ChipCrashes
  BY <1>10 DEF TimePasses, ChipCrashes
<1>11. Kept => /\ NobodyAsks'
               /\ \A c \in Callers : Place(c)' = "disRelease" => Place(c) = "disRelease"
  OBVIOUS
<1> HIDE DEF Kept
<1> QED
  BY <1>1, <1>2, <1>3, <1>4, <1>5, <1>6, <1>7, <1>8, <1>9, <1>10, <1>11
     DEF Next, LockStep, CallStep

LEMMA SuccessStep ==
  ASSUME "status" \notin Operations, IInv, SuccessInv, Next PROVE SuccessInv'
<1>1. NobodyAsks' /\ \A c \in Callers :
                       Place(c)' = "disRelease" => Place(c) = "disRelease" \/ DisJoin(c)
  BY PlacesAtRelease DEF SuccessInv
<1>2. ASSUME NEW c \in Callers, Place(c)' = "disRelease" PROVE Truthful(c)'
  <2> USE DEF At, Goto, Truthful
  <2>1. CASE DisJoin(c)
    BY <2>1, BoundsAssumption
       DEF DisJoin, AskThen, IInv, TypeOK, StructInv, RecordInv, Threads
  <2>2. ASSUME Place(c) = "disRelease", ~DisJoin(c) PROVE Truthful(c)'
    <3>1. Truthful(c) /\ NobodyAsks
      BY <2>2 DEF SuccessInv
    <3>2. CASE Ask(c)
      BY <3>2 DEF Ask, ChipStatuses, IInv, TypeOK, Threads, radio
    <3>3. CASE Store(c)
      BY <3>1, <3>3 DEF Store, IInv, TypeOK, Threads
    <3>4. CASE GetStatus(c)
      BY <1>2, <2>2, <3>1, <3>4 DEF GetStatus, Place, IInv, TypeOK, Threads, radio
    <3>5. CASE Release(c)
      BY <3>5 DEF Release, IInv, TypeOK, Threads
    <3>6. CASE /\ radio_status' = radio_status /\ (chipOn' => chipOn)
               /\ pc'[c] = pc[c] /\ after'[c] = after[c]
               /\ sample'[c] = sample[c] /\ learned'[c] = learned[c]
      BY <3>1, <3>6
    <3> QED
      BY <2>2, <3>1, <3>2, <3>3, <3>4, <3>5, <3>6, OthersAtRelease
  <2> QED
    BY <1>1, <1>2, <2>1, <2>2
<1> QED
  BY <1>1, <1>2 DEF SuccessInv

\* When nobody calls ant_radio_enabled_status meanwhile, a disable that reports
\* success has left the chip off: whatever the library fails to do, it is not
\* the answer to an older question that the disable returns.
THEOREM DisableTellsTheTruth ==
  ASSUME "status" \notin Operations
  PROVE  Spec => []DisableSuccess
<1>1. Init => SuccessInv
  BY ThreadsAssumption DEF Init, SuccessInv, NobodyAsks, Place, Threads
<1>2. IInv /\ SuccessInv /\ Next => SuccessInv'
  BY SuccessStep
<1>3. SuccessInv /\ UNCHANGED vars => SuccessInv'
  BY DEF SuccessInv, NobodyAsks, Place, Truthful, vars, query, radio
<1>4. SuccessInv => DisableSuccess
  BY DEF SuccessInv, DisableSuccess, Truthful, Place, At
<1> QED
  BY <1>1, <1>2, <1>3, <1>4, Invariant, PTL DEF Spec

-----------------------------------------------------------------------------
\* Who waits for whom.  enable and disable take enableLock before txLock and a
\* message takes txLock alone, so that whoever waits for a mutex waits for a
\* thread further on; and a call that joins waits for a receive thread that waits
\* for no mutex and which, when the status is the code's own, finds the radio not
\* enabled.
ForEnableLock == {"enLock", "disLock"}
ForTxLock     == {"enTxLock", "disTxLock", "txLock"}
ForReader     == {"enJoin", "disJoin"}

Answered ==
  \A c \in Callers :
    /\ pc[c] \in ForEnableLock =>
         \/ enableLock = NoThread
         \/ \E u \in Threads \ {c} : enableLock = u /\ pc[u] \notin ForEnableLock \cup {"txLock"}
    /\ pc[c] \in ForTxLock =>
         \/ txLock = NoThread
         \/ \E u \in Threads \ {c} : txLock = u /\ pc[u] \notin ForEnableLock \cup ForTxLock
    /\ pc[c] \in ForReader /\ rxThread # NoThread =>
         /\ pc[rxThread] \notin ForEnableLock \cup ForTxLock \cup ForReader
         /\ build = "plain" => radio_status # "ENABLED"

\* Without a library the status changes under the lock only: what an enable has
\* learned is still so when it decides, and until it has joined.
ToldInv ==
  build = "plain" =>
    /\ \A t \in Threads : pc[t] \notin {"ask", "store"}
    /\ \A c \in Callers :
         /\ At(c, "enDecide") /\ learned[c] # "ENABLED" => radio_status # "ENABLED"
         /\ ~At(c, "disPower")
         /\ pc[c] \in ForReader => radio_status # "ENABLED"

\* Every step preserves this.
LEMMA ToldStep == IInv /\ ToldInv /\ [Next]_vars => ToldInv'
<1> SUFFICES ASSUME IInv, ToldInv, [Next]_vars, build' = "plain" PROVE ToldInv'
  BY DEF ToldInv
<1> USE ThreadsAssumption
    DEF IInv, StructInv, TypeOK, Threads, At, Goto, AskThen, Forget, locks, radio, query,
        send, Place, PlacesInv, RxPlaces, EnableSections, HoldsBoth, OwnersInv, ForReader,
        ToldInv
<1>0. CASE UNCHANGED vars
  BY <1>0 DEF vars
<1>1. ASSUME NEW t \in Threads, Ask(t) \/ Store(t) PROVE ToldInv'
  BY <1>1 DEF Ask, Store
<1>2. ASSUME NEW t \in Threads, GetStatus(t) PROVE ToldInv'
  BY <1>2 DEF GetStatus
<1>3. ASSUME NEW c \in Callers, CallRadio(c) \/ CallStatus(c) PROVE ToldInv'
  BY <1>3 DEF CallRadio, CallStatus
<1>4. ASSUME NEW c \in Callers, TakeEnableLock(c) PROVE ToldInv'
  BY <1>4 DEF TakeEnableLock
<1>5. ASSUME NEW c \in Callers, TakeTxLock(c) \/ TxLock(c) PROVE ToldInv'
  BY <1>5 DEF TakeTxLock, TxLock
<1>6. ASSUME NEW c \in Callers, EnDecide(c) PROVE ToldInv'
  BY <1>6 DEF EnDecide, BeginEnabling
<1>7. ASSUME NEW c \in Callers, EnJoin(c) \/ EnPower(c) PROVE ToldInv'
  BY <1>7 DEF EnJoin, BeginEnabling, EnPower
<1>8. ASSUME NEW c \in Callers, EnRestart(c) \/ EnConfirm(c) PROVE ToldInv'
  BY <1>8 DEF EnRestart, EnConfirm
<1>9. ASSUME NEW c \in Callers, EnStart(c) \/ EnFail(c) PROVE ToldInv'
  BY <1>9 DEF EnStart, EnFail
<1>10. ASSUME NEW c \in Callers, DisDecide(c) \/ DisPower(c) PROVE ToldInv'
  BY <1>10 DEF DisDecide, DisPower
<1>11. ASSUME NEW c \in Callers, DisJoin(c) \/ Release(c) PROVE ToldInv'
  BY <1>11 DEF DisJoin, Release
<1>12. ASSUME NEW c \in Callers, TxDecide(c) \/ TxOpen(c) \/ TxWrite(c) \/ TxAnswered(c)
       PROVE  ToldInv'
  BY <1>12 DEF TxDecide, TxLeave, TxOpen, TxWrite, TxAnswered
<1>13. ASSUME NEW c \in Callers, TxRefused(c) \/ TxUnspecified(c) \/ TxClose(c)
       PROVE  ToldInv'
  BY <1>13 DEF TxRefused, TxUnspecified, TxClose, TxLeave
<1>14. ASSUME NEW r \in RxThreads, RxSocket(r) \/ RxDecide(r) \/ RxPoll(r) PROVE ToldInv'
  BY <1>14 DEF RxSocket, RxDecide, RxPoll
<1>15. ASSUME NEW r \in RxThreads, RxClose(r) \/ RxForget(r) PROVE ToldInv'
  BY <1>15 DEF RxClose, RxForget
<1>16. ASSUME NEW r \in RxThreads, RxCrashed(r) PROVE ToldInv'
  BY <1>16 DEF RxCrashed
<1>17. CASE TimePasses \/ ChipCrashes
  BY <1>17 DEF TimePasses, ChipCrashes
<1> QED
  BY <1>0, <1>1, <1>2, <1>3, <1>4, <1>5, <1>6, <1>7, <1>8, <1>9, <1>10, <1>11, <1>12,
     <1>13, <1>14, <1>15, <1>16, <1>17 DEF Next, LockStep, CallStep, RxStep

\* Both builds, whatever fails: nobody waits for a thread that waits for him, and
\* a mutex is kept only for a receive thread that needs none.  What CallsReturn
\* adds is the fairness with which threads run.
THEOREM WaitsAreAnswered == Spec => []Answered
<1>1. Init => ToldInv
  BY DEF Init, ToldInv, At, Threads, ForReader
<1>2. ASSUME IInv, ToldInv, NEW c \in Callers PROVE
        /\ pc[c] \in ForEnableLock =>
             \/ enableLock = NoThread
             \/ \E u \in Threads \ {c} :
                  enableLock = u /\ pc[u] \notin ForEnableLock \cup {"txLock"}
        /\ pc[c] \in ForTxLock =>
             \/ txLock = NoThread
             \/ \E u \in Threads \ {c} :
                  txLock = u /\ pc[u] \notin ForEnableLock \cup ForTxLock
  BY <1>2
     DEF IInv, TypeOK, StructInv, OwnersInv, Place, EnableSections, TxSections, HoldsBoth,
         HoldsTx, ForEnableLock, ForTxLock, Threads
<1>3. ASSUME IInv, ToldInv, NEW c \in Callers, pc[c] \in ForReader, rxThread # NoThread
      PROVE  /\ pc[rxThread] \notin ForEnableLock \cup ForTxLock \cup ForReader
             /\ build = "plain" => radio_status # "ENABLED"
  BY <1>3
     DEF IInv, TypeOK, StructInv, PlacesInv, RxPlaces, Place, ForEnableLock, ForTxLock,
         ForReader, ToldInv
<1>4. IInv /\ ToldInv => Answered
  BY <1>2, <1>3 DEF Answered
<1> QED
  BY <1>1, <1>4, ToldStep, Invariant, PTL DEF Spec
=============================================================================
