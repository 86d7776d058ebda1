---------------------------- MODULE ChardevRadio ----------------------------
(***************************************************************************)
(* The power state machine of the character-device back-ends of the ANT    *)
(* HAL (src/src/vfs and src/src/bt-vendor_vfs): ant_enable_radio,          *)
(* ant_disable_radio and ant_radio_hard_reset, called by any thread of the *)
(* application, and the receive thread fnRxThread, which shuts itself down *)
(* or restarts the radio (doReset) on its own.  All of them serialise on   *)
(* stEnabledStatusLock; the receive thread is stopped with a flag, an      *)
(* eventfd and pthread_join.                                               *)
(*                                                                         *)
(* A step is the code between two accesses to state another thread can     *)
(* see.  What poll() reports and whether open() and pthread_create()       *)
(* succeed is chosen by the environment.                                   *)
(*                                                                         *)
(* A definition Name_slip is Name with a mistake a maintainer could make.  *)
(* It is no part of Spec: it is there to see that the properties would     *)
(* notice the mistake.                                                     *)
(***************************************************************************)
EXTENDS Naturals

CONSTANTS
  BackEnd,       \* "vfs" or "bt": which of the two source trees is compiled
  Callers,       \* application threads that call the API
  RxThreads,     \* identities pthread_create may give a receive thread
  NoThread,      \* the handle 0, and the owner of a free lock
  NumChannels,   \* NUM_ANT_CHANNELS
  Operations,    \* API calls made; "hardReset" needs ANT_IOCTL_RESET
  OpenMayFail,   \* may open() of a channel device fail?
  CreateMayFail, \* may pthread_create() fail?
  Faults         \* what can go wrong while the receive thread polls

ASSUME BackEndAssumption == BackEnd \in {"vfs", "bt"}

ASSUME ThreadsAssumption ==
  /\ Callers \cap RxThreads = {}
  /\ NoThread \notin Callers \cup RxThreads

ASSUME ChannelsAssumption == NumChannels \in Nat \ {0}

ASSUME EnvironmentAssumption ==
  /\ Operations \subseteq {"enable", "disable", "hardReset"}
  /\ OpenMayFail \in BOOLEAN
  /\ CreateMayFail \in BOOLEAN
  /\ Faults \subseteq {"silence", "hangup", "read", "eventFd"}

Threads  == Callers \cup RxThreads
Channels == 0 .. NumChannels - 1

VARIABLES
  lock,            \* the owner of stEnabledStatusLock, or NoThread
  stRxThread,      \* the handle of the receive thread, or NoThread
  ucRunThread,     \* tells the receive thread to go on
  ucChipResetting, \* overrides the reported status
  fd,              \* for each channel: is its iFd a descriptor (not -1)?
  eventFd,         \* is the counter behind iRxShutdownEventFd positive?
  waiting,         \* who set bWaitingForKeepaliveResponse; NoThread: nobody
  notified,        \* the status last given to g_fnStateCallback
  op,              \* the routine a thread is executing
  pc               \* and where in it the thread is

radio == <<stRxThread, ucRunThread, ucChipResetting, fd>>
vars  == <<lock, radio, eventFd, waiting, notified, op, pc>>

Statuses == {"UNKNOWN", "ENABLING", "ENABLED", "DISABLING", "DISABLED",
             "RESETTING", "RESET"}

\* A receive thread that may still look at the channels, or that has seen a
\* reason to stop and does not own the lock yet.
ServingLabels == {"start", "loop", "poll", "resetFlag", "resetRun",
                  "resetLock", "tryLock"}

\* Labels of a thread that owns stEnabledStatusLock.
HoldsLock == {"check", "enable", "open", "spawn", "confirm", "enabled",
              "failed", "disable", "signal", "join", "close", "clearFlag",
              "recovered", "lost"}

Labels == {"idle", "acquire", "gone"} \cup ServingLabels \cup HoldsLock

Routines == {"none", "enable", "disable", "hardReset", "doReset", "crash"}

TypeOK ==
  /\ lock \in Threads \cup {NoThread}
  /\ stRxThread \in RxThreads \cup {NoThread}
  /\ ucRunThread \in BOOLEAN
  /\ ucChipResetting \in BOOLEAN
  /\ fd \in [Channels -> BOOLEAN]
  /\ eventFd \in BOOLEAN
  /\ waiting \in RxThreads \cup {NoThread}
  /\ notified \in Statuses
  /\ op \in [Threads -> Routines]
  /\ pc \in [Threads -> Labels]

AllOpen   == \A c \in Channels : fd[c]
AllClosed == \A c \in Channels : ~fd[c]

\* ant_radio_enabled_status, on one snapshot of what it reads.
ant_radio_enabled_status ==
  IF ucChipResetting THEN "RESETTING"
  ELSE IF ~ucRunThread
       THEN IF AllClosed /\ stRxThread = NoThread THEN "DISABLED" ELSE "DISABLING"
  ELSE IF stRxThread = NoThread THEN "ENABLING"
  ELSE IF AllOpen THEN "ENABLED"
  ELSE IF AllClosed THEN "UNKNOWN" ELSE "ENABLING"

Init ==
  /\ lock = NoThread
  /\ stRxThread = NoThread
  /\ ucRunThread = FALSE
  /\ ucChipResetting = FALSE
  /\ fd = [c \in Channels |-> FALSE]
  /\ eventFd = FALSE
  /\ waiting = NoThread
  /\ notified = "DISABLED"
  /\ op = [t \in Threads |-> "none"]
  /\ pc = [t \in Threads |-> IF t \in Callers THEN "idle" ELSE "gone"]

At(t, label)   == pc[t] = label
Goto(t, label) == pc' = [pc EXCEPT ![t] = label]

\* Release stEnabledStatusLock and leave the routine.
Return(t) ==
  /\ lock' = NoThread
  /\ op' = [op EXCEPT ![t] = "none"]
  /\ Goto(t, IF t \in Callers THEN "idle" ELSE "gone")

-----------------------------------------------------------------------------
(* Calls of the application.                                               *)

Call(c, o) ==
  /\ At(c, "idle")
  /\ op' = [op EXCEPT ![c] = o]
  /\ Goto(c, "acquire")
  /\ UNCHANGED <<lock, radio, eventFd, waiting, notified>>

Acquire(c) ==
  /\ At(c, "acquire")
  /\ lock = NoThread
  /\ lock' = c
  /\ Goto(c, "check")
  /\ UNCHANGED <<radio, eventFd, waiting, notified, op>>

\* Returns early without unlocking.
RedundantCall_keepsLock(c) ==
  /\ BackEnd = "vfs"
  /\ At(c, "check")
  /\ \/ op[c] = "enable" /\ ant_radio_enabled_status = "ENABLED"
     \/ op[c] = "disable" /\ ant_radio_enabled_status = "DISABLED"
  /\ op' = [op EXCEPT ![c] = "none"]
  /\ Goto(c, "idle")
  /\ UNCHANGED <<lock, radio, eventFd, waiting, notified>>

\* The status the operation would bring about is already there (vfs only).
RedundantCall(c) ==
  /\ BackEnd = "vfs"
  /\ At(c, "check")
  /\ \/ op[c] = "enable" /\ ant_radio_enabled_status = "ENABLED"
     \/ op[c] = "disable" /\ ant_radio_enabled_status = "DISABLED"
  /\ Return(c)
  /\ UNCHANGED <<radio, eventFd, waiting, notified>>

BeginEnable(c) ==
  /\ At(c, "check")
  /\ op[c] = "enable"
  /\ BackEnd = "vfs" => ant_radio_enabled_status # "ENABLED"
  /\ notified' = "ENABLING"
  /\ Goto(c, "enable")
  /\ UNCHANGED <<lock, radio, eventFd, waiting, op>>

BeginDisable(c) ==
  /\ At(c, "check")
  /\ op[c] = "disable"
  /\ BackEnd = "vfs" => ant_radio_enabled_status # "DISABLED"
  /\ notified' = "DISABLING"
  /\ Goto(c, "disable")
  /\ UNCHANGED <<lock, radio, eventFd, waiting, op>>

BeginHardReset(c) ==
  /\ At(c, "check")
  /\ op[c] = "hardReset"
  /\ ucChipResetting' = TRUE
  /\ notified' = "RESETTING"
  /\ Goto(c, "disable")
  /\ UNCHANGED <<lock, stRxThread, ucRunThread, fd, eventFd, waiting, op>>

-----------------------------------------------------------------------------
(* ant_enable, run by the owner of the lock.                               *)

\* Does not drain the shutdown signal.
AntEnable_keepsSignal(t) ==
  /\ At(t, "enable")
  /\ ucRunThread' = TRUE
  /\ Goto(t, "open")
  /\ UNCHANGED <<lock, stRxThread, ucChipResetting, fd, eventFd, waiting, notified, op>>

\* Drain the shutdown signal, then raise the run flag.  Nobody sees the one without
\* the other: a signal is there only when its thread has been joined.
AntEnable(t) ==
  /\ At(t, "enable")
  /\ eventFd' = FALSE
  /\ ucRunThread' = TRUE
  /\ Goto(t, "open")
  /\ UNCHANGED <<lock, stRxThread, ucChipResetting, fd, waiting, notified, op>>

\* The value of ucRunThread when ant_enable returns: only the vfs back-end
\* takes it back when no thread was started.
RunFlagAtReturn ==
  IF BackEnd = "vfs" /\ stRxThread = NoThread THEN FALSE ELSE ucRunThread

FirstClosed(c) == ~fd[c] /\ \A d \in Channels : d < c => fd[d]

OpenChannel(t) ==
  /\ At(t, "open")
  /\ \E c \in Channels :
        /\ FirstClosed(c)
        /\ \/ /\ fd' = [fd EXCEPT ![c] = TRUE]
              /\ UNCHANGED <<ucRunThread, pc>>
           \/ /\ OpenMayFail
              /\ ucRunThread' = RunFlagAtReturn
              /\ Goto(t, "failed")
              /\ UNCHANGED fd
  /\ UNCHANGED <<lock, stRxThread, ucChipResetting, eventFd, waiting, notified, op>>

AllChannelsOpen(t) ==
  /\ At(t, "open")
  /\ AllOpen
  /\ Goto(t, "spawn")
  /\ UNCHANGED <<lock, radio, eventFd, waiting, notified, op>>

\* Starts a thread although one is on record.
Spawn_unchecked(t) ==
  /\ At(t, "spawn")
  /\ \E r \in RxThreads :
        /\ At(r, "gone")
        /\ stRxThread' = r
        /\ pc' = [pc EXCEPT ![t] = "confirm", ![r] = "start"]
  /\ UNCHANGED <<lock, ucRunThread, ucChipResetting, fd, eventFd, waiting, notified, op>>

\* Records the creator (pthread_self) in place of the new thread.
Spawn_self(t) ==
  /\ At(t, "spawn")
  /\ stRxThread = NoThread
  /\ \E r \in RxThreads :
        /\ At(r, "gone")
        /\ stRxThread' = t
        /\ pc' = [pc EXCEPT ![t] = "confirm", ![r] = "start"]
  /\ UNCHANGED <<lock, ucRunThread, ucChipResetting, fd, eventFd, waiting, notified, op>>

\* pthread_create writes the handle the new thread is known by.
Spawn(t) ==
  /\ At(t, "spawn")
  /\ stRxThread = NoThread
  /\ \E r \in RxThreads :
        /\ At(r, "gone")
        /\ stRxThread' = r
        /\ pc' = [pc EXCEPT ![t] = "confirm", ![r] = "start"]
  /\ UNCHANGED <<lock, ucRunThread, ucChipResetting, fd, eventFd, waiting, notified, op>>

\* A failing pthread_create returns a positive number, which "< 0" misses; a
\* thread that is already there is kept.
NoSpawn(t) ==
  /\ At(t, "spawn")
  /\ CreateMayFail \/ stRxThread # NoThread
  /\ Goto(t, "confirm")
  /\ UNCHANGED <<lock, radio, eventFd, waiting, notified, op>>

\* "rx thread crashed during init", and the code after out:.
Confirm(t) ==
  /\ At(t, "confirm")
  /\ Goto(t, IF ucRunThread THEN "enabled" ELSE "failed")
  /\ ucRunThread' = RunFlagAtReturn
  /\ UNCHANGED <<lock, stRxThread, ucChipResetting, fd, eventFd, waiting, notified, op>>

-----------------------------------------------------------------------------
(* What the callers of ant_enable do with its result.                      *)

EnableSucceeds(c) ==
  /\ At(c, "enabled")
  /\ op[c] = "enable"
  /\ notified' = "ENABLED"
  /\ Return(c)
  /\ UNCHANGED <<radio, eventFd, waiting>>

EnableFails(c) ==
  /\ At(c, "failed")
  /\ op[c] = "enable"
  /\ Goto(c, "disable")
  /\ UNCHANGED <<lock, radio, eventFd, waiting, notified, op>>

\* The flag is cleared after the callback ...
HardResetReports(c) ==
  /\ op[c] = "hardReset"
  /\ \/ At(c, "enabled") /\ notified' = "RESET"
     \/ At(c, "failed") /\ notified' = "DISABLED"
  /\ Goto(c, "clearFlag")
  /\ UNCHANGED <<lock, radio, eventFd, waiting, op>>

\* Leaves the override up.
HardResetReturns_keepsFlag(c) ==
  /\ At(c, "clearFlag")
  /\ Return(c)
  /\ UNCHANGED <<radio, eventFd, waiting, notified>>

HardResetReturns(c) ==
  /\ At(c, "clearFlag")
  /\ ucChipResetting' = FALSE
  /\ Return(c)
  /\ UNCHANGED <<stRxThread, ucRunThread, fd, eventFd, waiting, notified>>

\* ... but before it in doReset.
DoResetClearsFlag(r) ==
  /\ op[r] = "doReset"
  /\ \/ At(r, "enabled") /\ Goto(r, "recovered")
     \/ At(r, "failed") /\ Goto(r, "lost")
  /\ ucChipResetting' = FALSE
  /\ UNCHANGED <<lock, stRxThread, ucRunThread, fd, eventFd, waiting, notified, op>>

\* Does not unlock.
DoResetReports_keepsLock(r) ==
  /\ \/ At(r, "recovered") /\ notified' = "RESET"
     \/ At(r, "lost") /\ notified' = "DISABLED"
  /\ op' = [op EXCEPT ![r] = "none"]
  /\ Goto(r, "gone")
  /\ UNCHANGED <<lock, radio, eventFd, waiting>>

DoResetReports(r) ==
  /\ \/ At(r, "recovered") /\ notified' = "RESET"
     \/ At(r, "lost") /\ notified' = "DISABLED"
  /\ Return(r)
  /\ UNCHANGED <<radio, eventFd, waiting>>

-----------------------------------------------------------------------------
(* ant_disable, run by the owner of the lock.                              *)

\* The receive thread may see the run flag before it is signalled.
AntDisable(t) ==
  /\ At(t, "disable")
  /\ ucRunThread' = FALSE
  /\ Goto(t, IF stRxThread = NoThread THEN "close" ELSE "signal")
  /\ UNCHANGED <<lock, stRxThread, ucChipResetting, fd, eventFd, waiting, notified, op>>

\* Signals the thread but does not wait for its end.
SignalShutdown_noJoin(t) ==
  /\ At(t, "signal")
  /\ eventFd' = TRUE
  /\ Goto(t, "close")
  /\ UNCHANGED <<lock, radio, waiting, notified, op>>

SignalShutdown(t) ==
  /\ At(t, "signal")
  /\ eventFd' = TRUE
  /\ Goto(t, "join")
  /\ UNCHANGED <<lock, radio, waiting, notified, op>>

\* pthread_join waits for the thread whose handle is stored.
Join(t) ==
  /\ At(t, "join")
  /\ At(stRxThread, "gone")
  /\ Goto(t, "close")
  /\ UNCHANGED <<lock, radio, eventFd, waiting, notified, op>>

CloseChannel(t) ==
  /\ At(t, "close")
  /\ \E c \in Channels :
        /\ fd[c] /\ \A d \in Channels : d < c => ~fd[d]
        /\ fd' = [fd EXCEPT ![c] = FALSE]
  /\ UNCHANGED <<lock, stRxThread, ucRunThread, ucChipResetting, eventFd, waiting, notified, op, pc>>

\* Goes on before the channels are closed: the new thread gets the old files.
ClosedForReset_tooEarly(t) ==
  /\ At(t, "close")
  /\ op[t] \in {"hardReset", "doReset"}
  /\ stRxThread' = NoThread
  /\ Goto(t, "enable")
  /\ UNCHANGED <<lock, ucRunThread, ucChipResetting, fd, eventFd, waiting, notified, op>>

\* Both resets go on with ant_enable.
ClosedForReset(t) ==
  /\ At(t, "close")
  /\ AllClosed
  /\ op[t] \in {"hardReset", "doReset"}
  /\ stRxThread' = NoThread
  /\ Goto(t, "enable")
  /\ UNCHANGED <<lock, ucRunThread, ucChipResetting, fd, eventFd, waiting, notified, op>>

\* Forgets to clear the handle.
ClosedForGood_keepsHandle(t) ==
  /\ At(t, "close")
  /\ AllClosed
  /\ op[t] \in {"enable", "disable", "crash"}
  /\ notified' = ant_radio_enabled_status
  /\ Return(t)
  /\ UNCHANGED <<radio, eventFd, waiting>>

\* The others report the status they leave behind and return.
ClosedForGood(t) ==
  /\ At(t, "close")
  /\ AllClosed
  /\ op[t] \in {"enable", "disable", "crash"}
  /\ stRxThread' = NoThread
  /\ UNCHANGED <<ucRunThread, ucChipResetting, fd, eventFd, waiting>>
  /\ notified' = ant_radio_enabled_status'
  /\ Return(t)

-----------------------------------------------------------------------------
(* The receive thread.                                                     *)

\* Does not reset the keepalive state.
RxStart_keepsWaiting(r) ==
  /\ At(r, "start")
  /\ Goto(r, "loop")
  /\ UNCHANGED <<lock, radio, eventFd, waiting, notified, op>>

\* The descriptors to poll are copied once, before the loop.
RxStart(r) ==
  /\ At(r, "start")
  /\ waiting' = NoThread
  /\ Goto(r, "loop")
  /\ UNCHANGED <<lock, radio, eventFd, notified, op>>

RxLoop(r) ==
  /\ At(r, "loop")
  /\ Goto(r, IF ucRunThread THEN "poll" ELSE "tryLock")
  /\ UNCHANGED <<lock, radio, eventFd, waiting, notified, op>>

\* Whole messages arrived.
PollData(r) ==
  /\ At(r, "poll")
  /\ ~eventFd
  /\ waiting' = NoThread
  /\ Goto(r, "loop")
  /\ UNCHANGED <<lock, radio, eventFd, notified, op>>

\* poll() timed out: send a keepalive message, give up the second time.
PollSilence(r) ==
  /\ "silence" \in Faults
  /\ At(r, "poll")
  /\ ~eventFd
  /\ \/ /\ waiting = NoThread
        /\ waiting' = r
        /\ Goto(r, "loop")
     \/ /\ waiting # NoThread
        /\ Goto(r, "resetFlag")
        /\ UNCHANGED waiting
  /\ UNCHANGED <<lock, radio, eventFd, notified, op>>

\* The chip was reset or is gone; seen before the shutdown signal.
PollHangup(r) ==
  /\ "hangup" \in Faults
  /\ At(r, "poll")
  /\ Goto(r, "resetFlag")
  /\ UNCHANGED <<lock, radio, eventFd, waiting, notified, op>>

\* Stops the thread, as the bt back-end does.
ReadFailsVfs_stops(r) ==
  /\ BackEnd = "vfs" /\ "read" \in Faults
  /\ At(r, "poll")
  /\ waiting' = NoThread
  /\ ucRunThread' = FALSE
  /\ Goto(r, "loop")
  /\ UNCHANGED <<lock, stRxThread, ucChipResetting, fd, eventFd, notified, op>>

\* readChannelMsg failed, vfs: recover by a reset.
ReadFailsVfs(r) ==
  /\ BackEnd = "vfs" /\ "read" \in Faults
  /\ At(r, "poll")
  /\ waiting' = NoThread
  /\ Goto(r, "resetFlag")
  /\ UNCHANGED <<lock, radio, eventFd, notified, op>>

\* readChannelMsg failed, bt: stop the thread.
ReadFailsBt(r) ==
  /\ BackEnd = "bt" /\ "read" \in Faults
  /\ At(r, "poll")
  /\ waiting' = NoThread
  /\ eventFd' = FALSE
  /\ ucRunThread' = FALSE
  /\ Goto(r, "loop")
  /\ UNCHANGED <<lock, stRxThread, ucChipResetting, fd, notified, op>>

\* The shutdown signal, data having arrived with it or not.
PollShutdown(r) ==
  /\ At(r, "poll")
  /\ eventFd
  /\ eventFd' = FALSE
  /\ ucRunThread' = FALSE
  /\ waiting' \in {waiting, NoThread}
  /\ Goto(r, "loop")
  /\ UNCHANGED <<lock, stRxThread, ucChipResetting, fd, notified, op>>

\* The shutdown descriptor reports something else; data may arrive with it, too.
EventFdFails(r) ==
  /\ "eventFd" \in Faults
  /\ At(r, "poll")
  /\ ~eventFd
  /\ ucRunThread' = FALSE
  /\ waiting' \in {waiting, NoThread}
  /\ Goto(r, "loop")
  /\ UNCHANGED <<lock, stRxThread, ucChipResetting, fd, eventFd, notified, op>>

-----------------------------------------------------------------------------
(* doReset, up to the point where it owns the lock, and the exit code.     *)

DoReset(r) ==
  /\ At(r, "resetFlag")
  /\ ucChipResetting' = TRUE
  /\ notified' = "RESETTING"
  /\ Goto(r, "resetRun")
  /\ UNCHANGED <<lock, stRxThread, ucRunThread, fd, eventFd, waiting, op>>

DoResetStops(r) ==
  /\ At(r, "resetRun")
  /\ ucRunThread' = FALSE
  /\ Goto(r, "resetLock")
  /\ UNCHANGED <<lock, stRxThread, ucChipResetting, fd, eventFd, waiting, notified, op>>

\* "spoof our handle as closed so we don't try to join ourselves"
DoResetLocks(r) ==
  /\ At(r, "resetLock")
  /\ lock = NoThread
  /\ lock' = r
  /\ stRxThread' = NoThread
  /\ op' = [op EXCEPT ![r] = "doReset"]
  /\ Goto(r, "disable")
  /\ UNCHANGED <<ucRunThread, ucChipResetting, fd, eventFd, waiting, notified>>

\* pthread_mutex_trylock at the end of fnRxThread succeeds ...
CleanUp(r) ==
  /\ At(r, "tryLock")
  /\ lock = NoThread
  /\ lock' = r
  /\ stRxThread' = NoThread
  /\ notified' = "DISABLING"
  /\ op' = [op EXCEPT ![r] = "crash"]
  /\ Goto(r, "disable")
  /\ UNCHANGED <<ucRunThread, ucChipResetting, fd, eventFd, waiting>>

\* ... or finds the lock taken: "assume something made you exit".
LeaveBusy(r) ==
  /\ At(r, "tryLock")
  /\ lock # NoThread
  /\ Goto(r, "gone")
  /\ UNCHANGED <<lock, radio, eventFd, waiting, notified, op>>

-----------------------------------------------------------------------------
\* Steps of the owner of the lock.
OwnerStep(t) ==
  \/ AntEnable(t) \/ OpenChannel(t) \/ AllChannelsOpen(t)
  \/ Spawn(t) \/ NoSpawn(t) \/ Confirm(t)
  \/ AntDisable(t) \/ SignalShutdown(t) \/ Join(t) \/ CloseChannel(t)
  \/ ClosedForReset(t) \/ ClosedForGood(t)

\* Steps of a caller inside the API other than waiting for the lock.
CallerStep(c) ==
  \/ RedundantCall(c) \/ BeginEnable(c) \/ BeginDisable(c) \/ BeginHardReset(c)
  \/ EnableSucceeds(c) \/ EnableFails(c)
  \/ HardResetReports(c) \/ HardResetReturns(c)
  \/ OwnerStep(c)

\* Steps of the receive thread other than waiting for the lock.
RxStep(r) ==
  \/ RxStart(r) \/ RxLoop(r)
  \/ PollData(r) \/ PollSilence(r) \/ PollHangup(r)
  \/ ReadFailsVfs(r) \/ ReadFailsBt(r)
  \/ PollShutdown(r) \/ EventFdFails(r)
  \/ DoReset(r) \/ DoResetStops(r) \/ CleanUp(r) \/ LeaveBusy(r)
  \/ DoResetClearsFlag(r) \/ DoResetReports(r)
  \/ OwnerStep(r)

Next ==
  \/ \E c \in Callers :
        \/ \E o \in Operations : Call(c, o)
        \/ Acquire(c)
        \/ CallerStep(c)
  \/ \E r \in RxThreads : DoResetLocks(r) \/ RxStep(r)

\* Every thread is scheduled, and a thread waiting for a mutex that is freed
\* again and again obtains it.  Nobody has to call the API.
Fairness ==
  /\ \A c \in Callers : WF_vars(CallerStep(c)) /\ SF_vars(Acquire(c))
  /\ \A r \in RxThreads : WF_vars(RxStep(r)) /\ SF_vars(DoResetLocks(r))

Spec == Init /\ [][Next]_vars /\ Fairness
-----------------------------------------------------------------------------
(* Properties.                                                             *)

Serving(r) == pc[r] \in ServingLabels

\* The owner of the lock waits, in ant_disable, for a receive thread that
\* waits, in doReset, for the lock.
JoinCycle ==
  \E t \in Threads : At(t, "join") /\ pc[stRxThread] \in {"resetFlag", "resetRun", "resetLock"}

\* No receive thread polls or reads a channel that has been closed under it:
\* ant_disable closes only after the thread has gone, ant_enable starts it
\* only after every open.
ChannelsOpenWhileServing == \A r \in RxThreads : Serving(r) => AllOpen

\* There is never a second receive thread that reads the same channels, not
\* even while doReset, running on the first, starts its successor.
OneServingThread ==
  \A r, s \in RxThreads : Serving(r) /\ Serving(s) => r = s

\* A receive thread that has ended is not left behind as the current one, to
\* be taken by ant_enable for "already running": only the owner of the lock
\* may still find its handle, until the end of ant_disable.
NoAbandonedThread ==
  \A r \in RxThreads :
    stRxThread = r /\ At(r, "gone") =>
      \E t \in Threads : pc[t] \in {"signal", "join", "close"}

\* The phase of the session RadioSession speaks of.
SessionPhase ==
  IF \E r \in RxThreads : Serving(r) THEN "serving"
  ELSE IF \/ stRxThread # NoThread
          \/ \E t \in Threads : pc[t] \in {"disable", "signal", "join", "close"}
       THEN "closing" ELSE "opening"

Session == INSTANCE RadioSession
             WITH phase   <- SessionPhase,
                  open    <- {c \in Channels : fd[c]},
                  serving <- {r \in RxThreads : Serving(r)}

\* Enables, disables and resets, in whatever order they overlap, add up to
\* sessions: every receive thread serves descriptors opened for it alone, all
\* of which are closed before the next one is opened.
ImplementsSession == Session!Spec

\* The owner of the lock has told the thread on record to stop.
JoinPending == \E t \in Threads : pc[t] \in {"signal", "join"}

ToldToLeave ==
  \A r \in RxThreads : At(r, "tryLock") /\ pc'[r] = "gone" => JoinPending

\* A receive thread that finds the lock taken and leaves without cleaning up
\* was told to: "if you can't get it assume something made you exit".
BusyMeansTold == [][ToldToLeave]_vars

\* The shutdown eventfd wakes a thread in poll() only if it has been told to
\* stop, so no signal of an earlier ant_disable kills a new thread; and a thread
\* that is told to stop has its signal, or is about to get it.
ShutdownAgrees ==
  \A r \in RxThreads : At(r, "poll") =>
    /\ eventFd => ~ucRunThread
    /\ ~ucRunThread => eventFd \/ \E t \in Threads : At(t, "signal")

\* A receive thread never takes over the keepalive timeout of the thread before
\* it ("we don't want a stale value if we were reset").
FreshKeepalive ==
  \A r \in RxThreads : pc[r] \in {"loop", "poll"} => waiting \in {r, NoThread}

\* No snapshot of the state is one for which ant_radio_enabled_status has no
\* explanation: a receive thread is never on record without its channels.
StatusNeverUnknown == ant_radio_enabled_status # "UNKNOWN"

\* Nobody is inside the API or recovering the radio.
Quiescent ==
  /\ lock = NoThread
  /\ \A t \in Threads : pc[t] \in {"idle", "gone", "start", "loop", "poll"}

\* What ant_enable leaves behind when it fails in doReset or in a hard reset, or
\* does not notice that it has failed: channels without a receive thread.
Stranded == stRxThread = NoThread /\ ~AllClosed

\* Once everything has settled, the application has last been told the status
\* the radio has, unless the radio is stranded; RESET stands for "enabled again".
QuiescentAgreement ==
  Quiescent /\ ~Stranded =>
    ant_radio_enabled_status = IF notified = "RESET" THEN "ENABLED" ELSE notified

DisabledAtReturn ==
  \A c \in Callers :
    op[c] = "disable" /\ At(c, "close") /\ lock' = NoThread
      => ant_radio_enabled_status' = "DISABLED"

\* When ant_disable_radio has closed everything and returns, the radio is off
\* and stays so reported: no descriptor, no thread, no reset still pending.
DisableLeavesNothing == [][DisabledAtReturn]_vars

\* Apart from the join cycle nothing makes a thread keep the lock for ever.
LockReleased ==
  \A t \in Threads : lock = t ~> (lock # t \/ JoinCycle)

\* The RESETTING override does not outlive the reset.
ResettingEnds == ucChipResetting ~> (~ucChipResetting \/ JoinCycle)

\* Nor does anything else keep a call from returning, however often the radio
\* fails and is reset.
CallsReturn == \A c \in Callers : ~At(c, "idle") ~> (At(c, "idle") \/ JoinCycle)

-----------------------------------------------------------------------------
(* Expectations stated beside the code that its runs do not meet.          *)

\* antradio_power.h says of ant_disable: "Will block until power down is
\* complete, and it is safe to immediately call enable()".
DisableReturns ==
  \A c \in Callers : lock = c /\ op[c] = "disable" ~> lock # c

\* The pseudocode of ant_radio_hard_reset: when ant_enable fails, "State
\* callback: STATE = DISABLED".
ToldDisabledIsDisabled ==
  Quiescent /\ notified = "DISABLED" => ant_radio_enabled_status = "DISABLED"

-----------------------------------------------------------------------------
(* The inductive invariant.                                                *)

\* stEnabledStatusLock is owned exactly by the thread inside its sections.
OwnerInv == \A t \in Threads : lock = t <=> pc[t] \in HoldsLock

\* The serving thread is the one on record ...
HandleInv == \A r \in RxThreads : Serving(r) => stRxThread = r

\* ... and no thread finds itself on record while it owns the lock, so none
\* joins itself.
NoSelfJoin == \A r \in RxThreads : pc[r] \in HoldsLock => stRxThread # r

\* A thread is started with every channel open ...
SpawnInv == \A t \in Threads : At(t, "spawn") => AllOpen

\* ... which are closed when it has gone, with the run flag down.
CloseInv ==
  \A t \in Threads :
    /\ pc[t] \in {"signal", "join", "close"} => ~ucRunThread
    /\ At(t, "close") => \A r \in RxThreads : ~Serving(r)

\* Whatever thread is on record, its channels are open or being closed.
RecordInv == stRxThread # NoThread => AllOpen \/ \E t \in Threads : At(t, "close")

\* The override is up only for a thread about to reset or the owner resetting.
OverrideInv ==
  ucChipResetting =>
    \/ \E r \in RxThreads : pc[r] \in {"resetRun", "resetLock"}
    \/ \E t \in Threads :
         /\ pc[t] \in HoldsLock \ {"recovered", "lost"}
         /\ op[t] \in {"hardReset", "doReset"}

StructInv ==
  /\ OwnerInv
  /\ HandleInv
  /\ NoSelfJoin
  /\ SpawnInv
  /\ CloseInv
  /\ RecordInv
  /\ OverrideInv

IInv == TypeOK /\ StructInv

\* What vfs adds as long as the eventfd works: a thread stops only when told.
ToldInv ==
  \A r \in RxThreads :
    /\ At(r, "tryLock") => JoinPending
    /\ pc[r] \in {"start", "loop", "poll"} /\ (~ucRunThread \/ eventFd) => JoinPending

\* A new thread starts with the run flag up and no signal pending.
FreshStartInv ==
  \A t \in Threads :
    pc[t] \in {"open", "spawn"} /\ (\A r \in RxThreads : ~Serving(r))
      => ucRunThread /\ ~eventFd

StopInv == ToldInv /\ FreshStartInv /\ NoAbandonedThread

ToldIInv == IInv /\ StopInv
=============================================================================
