------------------------ MODULE ChardevSessionProofs -------------------------
(***************************************************************************)
(* ChardevRadio implements RadioSession, for any number of callers, thread *)
(* identities and channels, both back-ends, and any subset of the faults.  *)
(*                                                                         *)
(* The argument.  What RadioSession sees of a state (SameView) is changed  *)
(* by few actions.  Those that open a channel or start a thread do so with *)
(* no thread on record and nobody closing; those that close one do so when *)
(* no thread serves; and a thread that stops serving leaves its handle on  *)
(* record or goes on to close.  All of this is in the inductive invariant  *)
(* of ChardevRadioProofs.                                                  *)
(***************************************************************************)
EXTENDS ChardevRadioProofs

EndingLabels == {"disable", "signal", "join", "close"}

\* Does a step leave alone what RadioSession sees?
SameView ==
  /\ fd' = fd /\ stRxThread' = stRxThread
  /\ \A t \in Threads :
       /\ pc'[t] \in ServingLabels <=> pc[t] \in ServingLabels
       /\ pc'[t] \in EndingLabels <=> pc[t] \in EndingLabels

LEMMA SameViewStutters == SameView => UNCHANGED Session!vars
<1> SUFFICES ASSUME SameView PROVE UNCHANGED Session!vars
  OBVIOUS
<1>1. {r \in RxThreads : Serving(r)}' = {r \in RxThreads : Serving(r)}
  BY DEF SameView, Serving, Threads
<1>2. (\E r \in RxThreads : Serving(r))' <=> (\E r \in RxThreads : Serving(r))
  BY DEF SameView, Serving, Threads
<1>3. (\E t \in Threads : pc[t] \in {"disable", "signal", "join", "close"})'
        <=> \E t \in Threads : pc[t] \in {"disable", "signal", "join", "close"}
  BY DEF SameView, EndingLabels
<1>4. SessionPhase' = SessionPhase
  BY <1>2, <1>3 DEF SameView, SessionPhase
<1>5. {c \in Channels : fd[c]}' = {c \in Channels : fd[c]}
  BY DEF SameView
<1> QED
  BY <1>1, <1>4, <1>5 DEF Session!vars

\* The phase, from what the invariant knows of a thread inside the sections the
\* lock protects.
LEMMA PhaseOfOwner ==
  ASSUME IInv, NEW t \in Threads, pc[t] \in HoldsLock
  PROVE  /\ \A s \in Threads \ {t} : pc[s] \notin HoldsLock
         /\ stRxThread = NoThread => \A r \in RxThreads : ~Serving(r)
         /\ stRxThread = NoThread /\ pc[t] \notin EndingLabels => SessionPhase = "opening"
         /\ At(t, "close") => SessionPhase = "closing" /\ \A r \in RxThreads : ~Serving(r)
<1>1. \A s \in Threads \ {t} : pc[s] \notin HoldsLock
  BY ThreadsAssumption DEF IInv, StructInv, OwnerInv, Threads
<1>2. stRxThread = NoThread => \A r \in RxThreads : ~Serving(r)
  BY ThreadsAssumption DEF IInv, StructInv, HandleInv
<1>3. ASSUME stRxThread = NoThread, pc[t] \notin EndingLabels PROVE SessionPhase = "opening"
  BY <1>1, <1>2, <1>3 DEF SessionPhase, EndingLabels, HoldsLock
<1>4. ASSUME At(t, "close") PROVE SessionPhase = "closing" /\ \A r \in RxThreads : ~Serving(r)
  BY <1>4 DEF IInv, StructInv, CloseInv, SessionPhase, At
<1> QED
  BY <1>1, <1>2, <1>3, <1>4

\* The steps RadioSession does not see.
LEMMA HiddenSteps ==
  ASSUME IInv,
         \/ \E c \in Callers :
              \/ \E o \in Operations : Call(c, o)
              \/ Acquire(c) \/ RedundantCall(c) \/ BeginEnable(c) \/ EnableSucceeds(c)
              \/ HardResetReports(c) \/ HardResetReturns(c)
         \/ \E r \in RxThreads :
              \/ RxStart(r) \/ RxLoop(r) \/ PollData(r) \/ PollSilence(r) \/ PollHangup(r)
              \/ ReadFailsVfs(r) \/ ReadFailsBt(r) \/ PollShutdown(r) \/ EventFdFails(r)
              \/ DoReset(r) \/ DoResetStops(r) \/ DoResetClearsFlag(r) \/ DoResetReports(r)
         \/ \E t \in Threads :
              \/ AntEnable(t) \/ AllChannelsOpen(t) \/ NoSpawn(t) \/ Confirm(t)
              \/ AntDisable(t) \/ SignalShutdown(t) \/ Join(t)
  PROVE  SameView
<1> USE ThreadsAssumption
    DEF IInv, TypeOK, Threads, At, Goto, radio, SameView, ServingLabels, EndingLabels
<1>1. ASSUME NEW c \in Callers,
             \/ \E o \in Operations : Call(c, o)
             \/ Acquire(c) \/ RedundantCall(c) \/ BeginEnable(c) \/ EnableSucceeds(c)
             \/ HardResetReports(c) \/ HardResetReturns(c)
      PROVE  SameView
  BY <1>1 DEF Call, Acquire, RedundantCall, BeginEnable, EnableSucceeds, HardResetReports,
              HardResetReturns, Return
<1>2. ASSUME NEW r \in RxThreads,
             \/ RxStart(r) \/ RxLoop(r) \/ PollData(r) \/ PollSilence(r) \/ PollHangup(r)
             \/ ReadFailsVfs(r) \/ ReadFailsBt(r) \/ PollShutdown(r) \/ EventFdFails(r)
      PROVE  SameView
  BY <1>2 DEF RxStart, RxLoop, PollData, PollSilence, PollHangup, ReadFailsVfs, ReadFailsBt,
              PollShutdown, EventFdFails
<1>3. ASSUME NEW r \in RxThreads,
             DoReset(r) \/ DoResetStops(r) \/ DoResetClearsFlag(r) \/ DoResetReports(r)
      PROVE  SameView
  BY <1>3 DEF DoReset, DoResetStops, DoResetClearsFlag, DoResetReports, Return
<1>4. ASSUME NEW t \in Threads,
             \/ AntEnable(t) \/ AllChannelsOpen(t) \/ NoSpawn(t) \/ Confirm(t)
             \/ AntDisable(t) \/ SignalShutdown(t) \/ Join(t)
      PROVE  SameView
  BY <1>4 DEF AntEnable, AllChannelsOpen, NoSpawn, Confirm, AntDisable, SignalShutdown, Join
<1> QED
  BY <1>1, <1>2, <1>3, <1>4

\* Going to ant_disable closes a session that is not serving.
LEMMA GoingToDisable ==
  ASSUME IInv, NEW c \in Callers, pc[c] \in HoldsLock \ EndingLabels,
         Goto(c, "disable"), UNCHANGED <<stRxThread, fd>>
  PROVE  [Session!Next]_(Session!vars)
<1>1. \A r \in RxThreads : pc'[r] = pc[r]
  BY ThreadsAssumption DEF Goto, IInv, TypeOK, Threads
<1>2. {r \in RxThreads : Serving(r)}' = {r \in RxThreads : Serving(r)}
  BY <1>1 DEF Serving
<1>3. {d \in Channels : fd[d]}' = {d \in Channels : fd[d]}
  OBVIOUS
<1>4. c \in Threads /\ pc'[c] = "disable"
  BY DEF Goto, IInv, TypeOK, Threads
<1>5. CASE \E r \in RxThreads : Serving(r)
  <2>1. SessionPhase' = "serving" /\ SessionPhase = "serving"
    BY <1>1, <1>5 DEF SessionPhase, Serving
  <2> QED
    BY <1>2, <1>3, <2>1 DEF Session!vars
<1>6. CASE \A r \in RxThreads : ~Serving(r)
  <2>1. SessionPhase' = "closing"
    BY <1>1, <1>4, <1>6 DEF SessionPhase, Serving
  <2>2. SessionPhase \in {"opening", "closing"}
    BY <1>6 DEF SessionPhase
  <2>3. CASE SessionPhase = "closing"
    BY <1>2, <1>3, <2>1, <2>3 DEF Session!vars
  <2>4. CASE SessionPhase = "opening"
    BY <1>2, <1>3, <2>1, <2>4 DEF Session!Next, Session!GiveUp
  <2> QED
    BY <2>2, <2>3, <2>4
<1> QED
  BY <1>5, <1>6

\* The serving thread stops: it leaves its handle to be joined, or closes the
\* channels itself.
LEMMA ServingEnds ==
  ASSUME IInv, NEW r \in RxThreads, Serving(r), pc'[r] \in {"disable", "gone"},
         \A t \in Threads \ {r} : pc'[t] = pc[t],
         pc'[r] = "gone" => stRxThread' = stRxThread, fd' = fd
  PROVE  Session!Leave
<1>1. \A q \in RxThreads : Serving(q) => q = r
  BY DEF IInv, StructInv, HandleInv
<1>2. stRxThread = r /\ r # NoThread /\ r \in Threads
  BY ThreadsAssumption DEF IInv, StructInv, HandleInv, Threads
<1>3. \A q \in RxThreads : ~Serving(q)'
  BY <1>1, <1>2 DEF Serving, ServingLabels, Threads
<1>4. SessionPhase = "serving"
  BY DEF SessionPhase
<1>5. SessionPhase' = "closing"
  <2>1. CASE pc'[r] = "gone"
    BY <1>2, <1>3, <2>1 DEF SessionPhase
  <2>2. CASE pc'[r] = "disable"
    BY <1>2, <1>3, <2>2 DEF SessionPhase
  <2> QED
    BY <2>1, <2>2
<1>6. {q \in RxThreads : Serving(q)}' = {}
  BY <1>3
<1> QED
  BY <1>4, <1>5, <1>6 DEF Session!Leave

\* The last channel is closed and the handle cleared.
LEMMA SessionCloses ==
  ASSUME IInv, NEW t \in Threads, At(t, "close"), AllClosed, fd' = fd,
         stRxThread' = NoThread, pc'[t] \in {"enable", "idle", "gone"},
         \A s \in Threads \ {t} : pc'[s] = pc[s]
  PROVE  Session!EndSession
<1>1. /\ \A s \in Threads \ {t} : pc[s] \notin HoldsLock
      /\ SessionPhase = "closing" /\ \A r \in RxThreads : ~Serving(r)
  BY PhaseOfOwner DEF At, HoldsLock
<1>2. \A r \in RxThreads : ~Serving(r)'
  BY <1>1 DEF Serving, ServingLabels, Threads
<1>3. \A s \in Threads : pc'[s] \notin {"disable", "signal", "join", "close"}
  BY <1>1 DEF HoldsLock
<1>4. SessionPhase' = "opening"
  BY <1>2, <1>3 DEF SessionPhase
<1>5. {r \in RxThreads : Serving(r)}' = {r \in RxThreads : Serving(r)}
  BY <1>1, <1>2
<1>6. {c \in Channels : fd[c]} = {} /\ {c \in Channels : fd[c]}' = {}
  BY DEF AllClosed
<1> QED
  BY <1>1, <1>4, <1>5, <1>6 DEF Session!EndSession

\* The steps that open, close and hand over the channels.
LEMMA OpenStep ==
  ASSUME IInv, NEW t \in Threads, OpenChannel(t) PROVE [Session!Next]_(Session!vars)
<1>1. pc[t] = "open" /\ pc[t] \in HoldsLock /\ pc[t] \notin EndingLabels
  BY DEF OpenChannel, At, HoldsLock, EndingLabels
<1>2. stRxThread = NoThread
  <2> SUFFICES ASSUME stRxThread # NoThread PROVE FALSE
    OBVIOUS
  <2>1. ~AllOpen
    BY DEF OpenChannel, FirstClosed, AllOpen
  <2>2. PICK s \in Threads : At(s, "close")
    BY <2>1 DEF IInv, StructInv, RecordInv
  <2> QED
    BY <1>1, <2>2, PhaseOfOwner DEF At, HoldsLock
<1>3. SessionPhase = "opening"
  BY <1>1, <1>2, PhaseOfOwner
<1>4. CASE UNCHANGED pc
  <2>1. PICK c \in Channels : fd' = [fd EXCEPT ![c] = TRUE]
    BY <1>1, <1>4 DEF OpenChannel, Goto, IInv, TypeOK
  <2>2. {d \in Channels : fd[d]}' = {d \in Channels : fd[d]} \cup {c}
    BY <2>1 DEF IInv, TypeOK
  <2>3. SessionPhase' = SessionPhase
    BY <1>4 DEF OpenChannel, SessionPhase, Serving
  <2>4. {r \in RxThreads : Serving(r)}' = {r \in RxThreads : Serving(r)}
    BY <1>4 DEF Serving
  <2> QED
    BY <1>3, <2>2, <2>3, <2>4 DEF Session!Next, Session!OpenChannel
<1>5. CASE Goto(t, "failed") /\ UNCHANGED fd
  <2>1. SameView
    BY <1>1, <1>5 DEF SameView, OpenChannel, Goto, IInv, TypeOK, ServingLabels, EndingLabels
  <2> QED
    BY <2>1, SameViewStutters
<1> QED
  BY <1>4, <1>5 DEF OpenChannel

LEMMA CloseStep ==
  ASSUME IInv, NEW t \in Threads, CloseChannel(t) PROVE [Session!Next]_(Session!vars)
<1>1. SessionPhase = "closing"
  BY PhaseOfOwner DEF CloseChannel, At, HoldsLock
<1>2. PICK c \in Channels : fd' = [fd EXCEPT ![c] = FALSE]
  BY DEF CloseChannel
<1>3. {d \in Channels : fd[d]}' = {d \in Channels : fd[d]} \ {c}
  BY <1>2 DEF IInv, TypeOK
<1>4. SessionPhase' = SessionPhase
  BY DEF CloseChannel, SessionPhase, Serving
<1>5. {r \in RxThreads : Serving(r)}' = {r \in RxThreads : Serving(r)}
  BY DEF CloseChannel, Serving
<1> QED
  BY <1>1, <1>3, <1>4, <1>5 DEF Session!Next, Session!CloseChannel

LEMMA SpawnStep ==
  ASSUME IInv, NEW t \in Threads, Spawn(t) PROVE [Session!Next]_(Session!vars)
<1>1. pc[t] = "spawn" /\ pc[t] \in HoldsLock /\ pc[t] \notin EndingLabels /\ stRxThread = NoThread
  BY DEF Spawn, At, HoldsLock, EndingLabels
<1>2. SessionPhase = "opening" /\ \A q \in RxThreads : ~Serving(q)
  BY <1>1, PhaseOfOwner
<1>3. PICK r \in RxThreads : At(r, "gone") /\ pc' = [pc EXCEPT ![t] = "confirm", ![r] = "start"]
  BY DEF Spawn
<1>4. pc'[r] = "start" /\ \A q \in RxThreads \ {r} : pc'[q] = pc[q] \/ pc'[q] = "confirm"
  BY <1>3 DEF IInv, TypeOK, Threads
<1>5. \A q \in RxThreads : Serving(q)' <=> q = r
  BY <1>2, <1>4 DEF Serving, ServingLabels
<1>6. SessionPhase' = "serving"
  BY <1>5 DEF SessionPhase
<1>7. {q \in RxThreads : Serving(q)}' = {r}
  BY <1>5
<1>8. {c \in Channels : fd[c]} = Channels /\ {c \in Channels : fd[c]}' = {c \in Channels : fd[c]}
  BY <1>1 DEF IInv, StructInv, SpawnInv, AllOpen, At, Spawn
<1>9. Session!Serve(r)
  BY <1>2, <1>6, <1>7, <1>8 DEF Session!Serve
<1> QED
  BY <1>9 DEF Session!Next

-----------------------------------------------------------------------------
\* Enables, disables and resets, in whatever order they overlap, add up to the
\* sessions of RadioSession: every receive thread serves descriptors opened for
\* it alone, all of which are closed before the next one is opened.
THEOREM SessionImplemented == Spec => ImplementsSession
<1>1. Init => Session!Init
  BY ThreadsAssumption
     DEF Init, Session!Init, SessionPhase, Serving, ServingLabels, Threads
<1>2. ASSUME IInv, Next PROVE [Session!Next]_(Session!vars)
  <2>1. ASSUME NEW c \in Callers, BeginDisable(c) \/ BeginHardReset(c) \/ EnableFails(c)
        PROVE  [Session!Next]_(Session!vars)
    BY <1>2, <2>1, GoingToDisable
       DEF BeginDisable, BeginHardReset, EnableFails, At, radio, HoldsLock, EndingLabels
  <2>2. ASSUME NEW r \in RxThreads, DoResetLocks(r) \/ CleanUp(r) \/ LeaveBusy(r)
        PROVE  [Session!Next]_(Session!vars)
    <3>1. /\ Serving(r) /\ pc'[r] \in {"disable", "gone"} /\ fd' = fd
          /\ pc'[r] = "gone" => stRxThread' = stRxThread
          /\ \A t \in Threads \ {r} : pc'[t] = pc[t]
      BY <1>2, <2>2
         DEF DoResetLocks, CleanUp, LeaveBusy, At, Goto, radio, Serving, ServingLabels,
             IInv, TypeOK, Threads
    <3> QED
      BY <1>2, <3>1, ServingEnds DEF Session!Next
  <2>3. ASSUME NEW t \in Threads, ClosedForReset(t) \/ ClosedForGood(t)
        PROVE  [Session!Next]_(Session!vars)
    <3>1. /\ At(t, "close") /\ AllClosed /\ fd' = fd /\ stRxThread' = NoThread
          /\ pc'[t] \in {"enable", "idle", "gone"}
          /\ \A s \in Threads \ {t} : pc'[s] = pc[s]
      BY <1>2, <2>3
         DEF ClosedForReset, ClosedForGood, Return, Goto, IInv, TypeOK
    <3> QED
      BY <1>2, <3>1, SessionCloses DEF Session!Next
  <2>4. ASSUME NEW t \in Threads, OpenChannel(t) \/ CloseChannel(t) \/ Spawn(t)
        PROVE  [Session!Next]_(Session!vars)
    BY <1>2, <2>4, OpenStep, CloseStep, SpawnStep
  <2>5. ASSUME SameView PROVE [Session!Next]_(Session!vars)
    BY <2>5, SameViewStutters
  <2> QED
    BY <1>2, <2>1, <2>2, <2>3, <2>4, <2>5, HiddenSteps
       DEF Next, CallerStep, RxStep, OwnerStep, Threads
<1>3. ASSUME UNCHANGED vars PROVE UNCHANGED Session!vars
  <2>1. SameView
    BY <1>3 DEF vars, radio, SameView
  <2> QED
    BY <2>1, SameViewStutters
<1>4. IInv /\ [Next]_vars => [Session!Next]_(Session!vars)
  BY <1>2, <1>3
<1> QED
  BY <1>1, <1>4, Invariant, PTL DEF Spec, ImplementsSession, Session!Spec
=============================================================================
