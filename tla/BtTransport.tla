---------------------------- MODULE BtTransport -----------------------------
(***************************************************************************)
(* The bt-vendor_vfs back-end, function by function: the radio of          *)
(* antradio_power.h over one channel whose descriptor comes from           *)
(* libbt-vendor.so.  Opening it (init_transport_bdroid) loads the library, *)
(* turns the chip's power on and opens the UART; closing it undoes this as *)
(* far as the library lets it.                                             *)
(*                                                                         *)
(* ChardevRadio is the common design of both source trees, and takes the   *)
(* opening of a channel, and a lock with what its new owner does first,    *)
(* for one step.  This module is written from the bt sources alone and     *)
(* stops wherever they can be interrupted; ImplementsRadio says that what  *)
(* the application sees is nevertheless that radio.                        *)
(*                                                                         *)
(* A definition Name_slip is Name with a mistake a maintainer could make;  *)
(* it is no part of Spec.                                                  *)
(***************************************************************************)
EXTENDS Integers

CONSTANTS
  Callers,         \* application threads that call the API
  RxThreads,       \* identities of receive threads
  NoThread,        \* the handle 0, and the owner of a free lock
  Faults,          \* what can go wrong while the receive thread polls
  TransportFaults  \* what the vendor library can fail to do

ASSUME ThreadsAssumption ==
  /\ Callers \cap RxThreads = {}
  /\ NoThread \notin Callers \cup RxThreads

ASSUME FaultsAssumption == Faults \subseteq {"silence", "hangup", "read", "eventFd"}

ASSUME TransportFaultsAssumption ==
  TransportFaults \subseteq {"load", "symbol", "powerOn", "userial", "powerOff"}

VARIABLES
  lock,             \* the owner of stEnabledStatusLock, or NoThread
  stRxThread,       \* the handle of the receive thread, or NoThread
  ucRunThread,      \* tells the receive thread to go on
  ucChipResetting,  \* overrides the reported status
  eventFd,          \* is the counter behind iRxShutdownEventFd positive?
  waiting,          \* who set bWaitingForKeepaliveResponse; NoThread: nobody
  notified,         \* the status last given to g_fnStateCallback
  op,               \* the routine a thread is executing
  pc,               \* and where in it the thread is
  iFd,              \* descriptor of the only channel, or -1
  vendor_interface, \* is the pointer to the library's functions set?
  power             \* external: is the chip's power on?

flags     == <<stRxThread, ucRunThread, ucChipResetting, eventFd, waiting>>
transport == <<iFd, vendor_interface, power>>
vars      == <<lock, flags, notified, op, pc, transport>>

Threads == Callers \cup RxThreads

\* fd[0], as far as the code looks at it.
Handle == 3

\* Where a receive thread may still look at the channel, or has seen a reason
\* to stop and does not own the lock yet.
ServingLabels == {"start", "loop", "poll", "resetFlag", "resetRun",
                  "resetLock", "tryLock"}

\* Where in init_transport_bdroid a thread is.
OpeningLabels == {"load", "symbol", "powerOn", "userial"}

\* The owner has the lock and its handle is still on record.
SpoofLabels == {"resetSpoof", "crashSpoof"}

HoldsLock == {"begin", "enable", "open", "spawn", "confirm", "enabled", "failed",
              "disable", "signal", "join", "close", "powerOff", "report",
              "recovered", "lost"} \cup OpeningLabels \cup SpoofLabels

Labels == {"idle", "acquire", "gone"} \cup ServingLabels \cup HoldsLock

TypeOK ==
  /\ lock \in Threads \cup {NoThread}
  /\ stRxThread \in RxThreads \cup {NoThread}
  /\ ucRunThread \in BOOLEAN
  /\ ucChipResetting \in BOOLEAN
  /\ eventFd \in BOOLEAN
  /\ waiting \in RxThreads \cup {NoThread}
  /\ notified \in {"UNKNOWN", "ENABLING", "ENABLED", "DISABLING", "DISABLED",
                   "RESETTING", "RESET"}
  /\ op \in [Threads -> {"none", "enable", "disable", "doReset", "crash"}]
  /\ pc \in [Threads -> Labels]
  /\ iFd \in {-1, Handle}
  /\ vendor_interface \in BOOLEAN
  /\ power \in BOOLEAN

ant_init ==
  /\ lock = NoThread
  /\ stRxThread = NoThread
  /\ ucRunThread = FALSE
  /\ ucChipResetting = FALSE
  /\ eventFd = FALSE
  /\ waiting = NoThread
  /\ notified = "DISABLED"
  /\ op = [t \in Threads |-> "none"]
  /\ pc = [t \in Threads |-> IF t \in Callers THEN "idle" ELSE "gone"]
  /\ iFd = -1
  /\ vendor_interface = FALSE
  /\ power = FALSE

At(t, label)   == pc[t] = label
Goto(t, label) == pc' = [pc EXCEPT ![t] = label]

Step(t, from, to) == At(t, from) /\ Goto(t, to)

\* pthread_mutex_unlock, at the end of a routine.
Return(t) ==
  /\ lock' = NoThread
  /\ op' = [op EXCEPT ![t] = "none"]
  /\ Goto(t, IF t \in Callers THEN "idle" ELSE "gone")

ant_radio_enabled_status ==
  IF ucChipResetting THEN "RESETTING"
  ELSE IF ~ucRunThread
       THEN IF iFd = -1 /\ stRxThread = NoThread THEN "DISABLED" ELSE "DISABLING"
  ELSE IF stRxThread = NoThread THEN "ENABLING"
  ELSE IF iFd = -1 THEN "UNKNOWN" ELSE "ENABLED"

-----------------------------------------------------------------------------
(* init_transport_bdroid(1).  Nothing is undone when a later step fails.   *)

Fails(what) == what \in TransportFaults

\* dlopen.
LoadLibrary(t) ==
  /\ \/ Step(t, "load", "symbol")
     \/ Fails("load") /\ Step(t, "load", "failed")
  /\ UNCHANGED <<lock, flags, notified, op, transport>>

\* dlsym and init.  The library is never unloaded: what it has it keeps.
FindInterface(t) ==
  /\ \/ Step(t, "symbol", "powerOn") /\ vendor_interface' = TRUE
     \/ /\ Fails("symbol") /\ ~vendor_interface
        /\ Step(t, "symbol", "failed") /\ UNCHANGED vendor_interface
  /\ UNCHANGED <<lock, flags, notified, op, iFd, power>>

\* BT_VND_OP_POWER_CTRL, BT_VND_PWR_ON.
PowerOn(t) ==
  /\ \/ Step(t, "powerOn", "userial") /\ power' = TRUE
     \/ Fails("powerOn") /\ Step(t, "powerOn", "failed") /\ UNCHANGED power
  /\ UNCHANGED <<lock, flags, notified, op, iFd, vendor_interface>>

\* Takes -1 for a descriptor.
OpenUserial_unchecked(t) ==
  /\ \/ Step(t, "userial", "open") /\ iFd' = Handle
     \/ Fails("userial") /\ Step(t, "userial", "spawn") /\ UNCHANGED iFd
  /\ UNCHANGED <<lock, flags, notified, op, vendor_interface, power>>

\* BT_VND_OP_ANT_USERIAL_OPEN.
OpenUserial(t) ==
  /\ \/ Step(t, "userial", "open") /\ iFd' = Handle
     \/ Fails("userial") /\ Step(t, "userial", "failed") /\ UNCHANGED iFd
  /\ UNCHANGED <<lock, flags, notified, op, vendor_interface, power>>

(* init_transport_bdroid(0).                                               *)

\* BT_VND_OP_ANT_USERIAL_CLOSE, whose result does not matter.
CloseUserial(t) ==
  /\ At(t, "close") /\ iFd # -1
  /\ \/ vendor_interface /\ Goto(t, "powerOff") /\ UNCHANGED iFd
     \/ ~vendor_interface /\ iFd' = -1 /\ UNCHANGED pc
  /\ UNCHANGED <<lock, flags, notified, op, vendor_interface, power>>

\* Forgets the library although the power could not be turned off.
PowerOff_forgets(t) ==
  /\ Step(t, "powerOff", "close")
  /\ iFd' = -1
  /\ vendor_interface' = FALSE
  /\ power' = FALSE \/ (Fails("powerOff") /\ UNCHANGED power)
  /\ UNCHANGED <<lock, flags, notified, op>>

\* BT_VND_OP_POWER_CTRL, BT_VND_PWR_OFF.  When the power stays on so does the
\* pointer; the descriptor is forgotten all the same.
PowerOff(t) ==
  /\ Step(t, "powerOff", "close")
  /\ iFd' = -1
  /\ \/ vendor_interface' = FALSE /\ power' = FALSE
     \/ Fails("powerOff") /\ UNCHANGED <<vendor_interface, power>>
  /\ UNCHANGED <<lock, flags, notified, op>>

-----------------------------------------------------------------------------
(* ant_enable, run by the owner of the lock.                               *)

\* Drains the shutdown signal and raises the run flag.  Nobody sees the one
\* without the other: a signal is there only when its thread has been joined.
BeginEnable(t) ==
  /\ Step(t, "enable", "open")
  /\ eventFd' = FALSE
  /\ ucRunThread' = TRUE
  /\ UNCHANGED <<lock, stRxThread, ucChipResetting, waiting, notified, op, transport>>

ant_enable_channel(t) ==
  /\ Step(t, "open", IF iFd = -1 THEN "load" ELSE "spawn")
  /\ UNCHANGED <<lock, flags, notified, op, transport>>

CreateThread(t) ==
  /\ At(t, "spawn")
  /\ stRxThread = NoThread
  /\ \E r \in RxThreads :
        /\ At(r, "gone")
        /\ stRxThread' = r
        /\ pc' = [pc EXCEPT ![t] = "confirm", ![r] = "start"]
  /\ UNCHANGED <<lock, ucRunThread, ucChipResetting, eventFd, waiting, notified, op, transport>>

\* "already running", or pthread_create fails with a number that is not < 0.
CreateNoThread(t) ==
  /\ Step(t, "spawn", "confirm")
  /\ UNCHANGED <<lock, flags, notified, op, transport>>

\* "rx thread crashed during init"
ConfirmRunning(t) ==
  /\ Step(t, "confirm", IF ucRunThread THEN "enabled" ELSE "failed")
  /\ UNCHANGED <<lock, flags, notified, op, transport>>

ant_enable(t) ==
  \/ BeginEnable(t) \/ ant_enable_channel(t)
  \/ LoadLibrary(t) \/ FindInterface(t) \/ PowerOn(t) \/ OpenUserial(t)
  \/ CreateThread(t) \/ CreateNoThread(t) \/ ConfirmRunning(t)

-----------------------------------------------------------------------------
(* ant_disable, run by the owner of the lock.                              *)

BeginDisable(t) ==
  /\ Step(t, "disable", IF stRxThread = NoThread THEN "close" ELSE "signal")
  /\ ucRunThread' = FALSE
  /\ UNCHANGED <<lock, stRxThread, ucChipResetting, eventFd, waiting, notified, op, transport>>

\* Lets the receive thread be while it turns the chip off.
SendShutdown_unjoined(t) ==
  /\ Step(t, "signal", "close")
  /\ eventFd' = TRUE
  /\ UNCHANGED <<lock, stRxThread, ucRunThread, ucChipResetting, waiting, notified, op, transport>>

SendShutdown(t) ==
  /\ Step(t, "signal", "join")
  /\ eventFd' = TRUE
  /\ UNCHANGED <<lock, stRxThread, ucRunThread, ucChipResetting, waiting, notified, op, transport>>

JoinThread(t) ==
  /\ Step(t, "join", "close")
  /\ At(stRxThread, "gone")
  /\ UNCHANGED <<lock, flags, notified, op, transport>>

\* The code after out:.  Only doReset goes on with ant_enable.
EndDisable(t) ==
  /\ iFd = -1
  /\ Step(t, "close", IF op[t] = "doReset" THEN "enable" ELSE "report")
  /\ stRxThread' = NoThread
  /\ UNCHANGED <<lock, ucRunThread, ucChipResetting, eventFd, waiting, notified, op, transport>>

ant_disable(t) ==
  \/ BeginDisable(t) \/ SendShutdown(t) \/ JoinThread(t)
  \/ CloseUserial(t) \/ PowerOff(t) \/ EndDisable(t)

\* g_fnStateCallback(ant_radio_enabled_status()), and unlock.
ReportAndReturn(t) ==
  /\ At(t, "report")
  /\ notified' = ant_radio_enabled_status
  /\ Return(t)
  /\ UNCHANGED <<flags, transport>>

-----------------------------------------------------------------------------
(* The API.  Here no call is too redundant to be carried out.              *)

Call(c) ==
  /\ Step(c, "idle", "acquire")
  /\ \E o \in {"enable", "disable"} : op' = [op EXCEPT ![c] = o]
  /\ UNCHANGED <<lock, flags, notified, transport>>

Acquire(c) ==
  /\ lock = NoThread
  /\ lock' = c
  /\ Step(c, "acquire", "begin")
  /\ UNCHANGED <<flags, notified, op, transport>>

\* The first report of ant_enable_radio and of ant_disable_radio.
Begin(c) ==
  /\ \/ op[c] = "enable" /\ Step(c, "begin", "enable") /\ notified' = "ENABLING"
     \/ op[c] = "disable" /\ Step(c, "begin", "disable") /\ notified' = "DISABLING"
  /\ UNCHANGED <<lock, flags, op, transport>>

EnableSucceeds(c) ==
  /\ op[c] = "enable" /\ At(c, "enabled")
  /\ notified' = "ENABLED"
  /\ Return(c)
  /\ UNCHANGED <<flags, transport>>

EnableFails(c) ==
  /\ op[c] = "enable" /\ Step(c, "failed", "disable")
  /\ UNCHANGED <<lock, flags, notified, op, transport>>

CallerStep(c) ==
  \/ Begin(c) \/ EnableSucceeds(c) \/ EnableFails(c)
  \/ ant_enable(c) \/ ant_disable(c) \/ ReportAndReturn(c)

-----------------------------------------------------------------------------
(* fnRxThread.                                                             *)

RxStart(r) ==
  /\ Step(r, "start", "loop")
  /\ waiting' = NoThread
  /\ UNCHANGED <<lock, stRxThread, ucRunThread, ucChipResetting, eventFd, notified, op, transport>>

RxLoop(r) ==
  /\ Step(r, "loop", IF ucRunThread THEN "poll" ELSE "tryLock")
  /\ UNCHANGED <<lock, flags, notified, op, transport>>

\* The first silence is answered by a keepalive message, the second by doReset.
PollSilence(r) ==
  /\ "silence" \in Faults
  /\ ~eventFd
  /\ \/ waiting = NoThread /\ waiting' = r /\ Step(r, "poll", "loop")
     \/ waiting # NoThread /\ UNCHANGED waiting /\ Step(r, "poll", "resetFlag")
  /\ UNCHANGED <<lock, stRxThread, ucRunThread, ucChipResetting, eventFd, notified, op, transport>>

PollHangup(r) ==
  /\ "hangup" \in Faults
  /\ Step(r, "poll", "resetFlag")
  /\ UNCHANGED <<lock, flags, notified, op, transport>>

\* poll() reports data, the shutdown signal, or both.  A failing read, the
\* signal and trouble with the eventfd all make the thread leave the loop.
PollEvents(r) ==
  /\ Step(r, "poll", "loop")
  /\ \E data, readFails, badEventFd \in BOOLEAN :
        /\ readFails => data /\ "read" \in Faults
        /\ badEventFd => ~eventFd /\ "eventFd" \in Faults
        /\ data \/ eventFd \/ badEventFd
        /\ waiting' = IF data THEN NoThread ELSE waiting
        /\ ucRunThread' = (ucRunThread /\ ~(readFails \/ eventFd \/ badEventFd))
  /\ eventFd' = FALSE
  /\ UNCHANGED <<lock, stRxThread, ucChipResetting, notified, op, transport>>

\* pthread_mutex_trylock at the end succeeds ...
TryLock(r) ==
  /\ lock = NoThread
  /\ lock' = r
  /\ Step(r, "tryLock", "crashSpoof")
  /\ UNCHANGED <<flags, notified, op, transport>>

\* ... "spoof our handle as closed so we don't try to join ourselves" ...
CleanUp(r) ==
  /\ Step(r, "crashSpoof", "disable")
  /\ stRxThread' = NoThread
  /\ notified' = "DISABLING"
  /\ op' = [op EXCEPT ![r] = "crash"]
  /\ UNCHANGED <<lock, ucRunThread, ucChipResetting, eventFd, waiting, transport>>

\* ... or finds the lock busy.
LeaveBusy(r) ==
  /\ lock # NoThread
  /\ Step(r, "tryLock", "gone")
  /\ UNCHANGED <<lock, flags, notified, op, transport>>

-----------------------------------------------------------------------------
(* doReset.                                                                *)

BeginReset(r) ==
  /\ Step(r, "resetFlag", "resetRun")
  /\ ucChipResetting' = TRUE
  /\ notified' = "RESETTING"
  /\ UNCHANGED <<lock, stRxThread, ucRunThread, eventFd, waiting, op, transport>>

LowerRunFlag(r) ==
  /\ Step(r, "resetRun", "resetLock")
  /\ ucRunThread' = FALSE
  /\ UNCHANGED <<lock, stRxThread, ucChipResetting, eventFd, waiting, notified, op, transport>>

LockForReset(r) ==
  /\ lock = NoThread
  /\ lock' = r
  /\ Step(r, "resetLock", "resetSpoof")
  /\ UNCHANGED <<flags, notified, op, transport>>

SpoofHandle(r) ==
  /\ Step(r, "resetSpoof", "disable")
  /\ stRxThread' = NoThread
  /\ op' = [op EXCEPT ![r] = "doReset"]
  /\ UNCHANGED <<lock, ucRunThread, ucChipResetting, eventFd, waiting, notified, transport>>

EndReset(r) ==
  /\ op[r] = "doReset"
  /\ Step(r, "enabled", "recovered") \/ Step(r, "failed", "lost")
  /\ ucChipResetting' = FALSE
  /\ UNCHANGED <<lock, stRxThread, ucRunThread, eventFd, waiting, notified, op, transport>>

\* Does not unlock.
ReportReset_keepsLock(r) ==
  /\ \/ Step(r, "recovered", "gone") /\ notified' = "RESET"
     \/ Step(r, "lost", "gone") /\ notified' = "DISABLED"
  /\ op' = [op EXCEPT ![r] = "none"]
  /\ UNCHANGED <<lock, flags, transport>>

ReportReset(r) ==
  /\ \/ At(r, "recovered") /\ notified' = "RESET"
     \/ At(r, "lost") /\ notified' = "DISABLED"
  /\ Return(r)
  /\ UNCHANGED <<flags, transport>>

RxStep(r) ==
  \/ RxStart(r) \/ RxLoop(r)
  \/ PollSilence(r) \/ PollHangup(r) \/ PollEvents(r)
  \/ TryLock(r) \/ CleanUp(r) \/ LeaveBusy(r)
  \/ BeginReset(r) \/ LowerRunFlag(r) \/ SpoofHandle(r)
  \/ EndReset(r) \/ ReportReset(r)
  \/ ant_enable(r) \/ ant_disable(r) \/ ReportAndReturn(r)

-----------------------------------------------------------------------------
Next ==
  \/ \E c \in Callers : Call(c) \/ Acquire(c) \/ CallerStep(c)
  \/ \E r \in RxThreads : LockForReset(r) \/ RxStep(r)

\* Threads run and obtain mutexes, as in ChardevRadio.
Fairness ==
  /\ \A c \in Callers : WF_vars(CallerStep(c)) /\ SF_vars(Acquire(c))
  /\ \A r \in RxThreads : WF_vars(RxStep(r)) /\ SF_vars(LockForReset(r))

Spec == ant_init /\ [][Next]_vars /\ Fairness
-----------------------------------------------------------------------------
(* The radio this is an implementation of.                                 *)

\* The lock counts as taken once its owner has done what it took it for first,
\* and as released once ant_disable is over for good.
Between == \E t \in Threads : pc[t] \in SpoofLabels \cup {"report"}

RadioLock == IF Between THEN NoThread ELSE lock

RadioNotified == IF \E t \in Threads : At(t, "report")
                 THEN ant_radio_enabled_status ELSE notified

RadioOp == [t \in Threads |-> IF At(t, "report") THEN "none" ELSE op[t]]

\* The whole of init_transport_bdroid is the step that opens or closes a channel.
RadioLabel(t, label) ==
  CASE label = "begin"          -> "check"
    [] label \in OpeningLabels  -> "open"
    [] label = "powerOff"       -> "close"
    [] label = "resetSpoof"     -> "resetLock"
    [] label = "crashSpoof"     -> "tryLock"
    [] label = "report"         -> IF t \in Callers THEN "idle" ELSE "gone"
    [] OTHER                    -> label

RadioPc == [t \in Threads |-> RadioLabel(t, pc[t])]

Radio ==
  INSTANCE ChardevRadio
    WITH BackEnd <- "bt", NumChannels <- 1, Operations <- {"enable", "disable"},
         OpenMayFail <- TRUE, CreateMayFail <- TRUE,
         lock <- RadioLock, notified <- RadioNotified, op <- RadioOp, pc <- RadioPc,
         fd <- [c \in {0} |-> iFd # -1]

-----------------------------------------------------------------------------
(* Properties.                                                             *)

Serving(r) == pc[r] \in ServingLabels

\* The owner of the lock waits, in ant_disable, for a receive thread that
\* waits, in doReset, for the lock.
JoinCycle ==
  \E t \in Threads : At(t, "join") /\ pc[stRxThread] \in {"resetFlag", "resetRun", "resetLock"}

\* Nobody is inside the API or recovering the radio.
Quiescent ==
  /\ lock = NoThread
  /\ \A t \in Threads : pc[t] \in {"idle", "gone", "start", "loop", "poll"}

\* The bt sources implement the radio of ChardevRadio: wherever their threads
\* are interrupted, in the middle of opening or closing the transport, or with
\* the lock taken and the handle not yet cleared, nothing happens that the
\* common design, with its larger steps, does not allow.
ImplementsRadio == Radio!Init /\ [][Radio!Next]_(Radio!vars)

\* While the channel is open the chip has power; and whatever fails in between,
\* the power is never on without the pointer needed to turn it off again.
PowerAccounted ==
  /\ iFd # -1 => power
  /\ power => vendor_interface

\* The chip is never turned off under a receive thread that polls or reads it.
PowerOffAfterThread ==
  [][power /\ ~power' => \A r \in RxThreads : ~Serving(r)]_vars

\* Apart from the join cycle nothing makes a thread keep the lock for ever.
LockReleased ==
  \A t \in Threads : lock = t ~> (lock # t \/ JoinCycle)

\* A receive thread has stopped by itself and found the lock busy: its handle
\* stays on record, and the next ant_enable takes it to be running.
Abandoned == stRxThread # NoThread /\ At(stRxThread, "gone")

\* A failed ant_enable has left the run flag up.
StillEnabling == stRxThread = NoThread /\ ucRunThread

\* A receive thread is about to leave its loop.
Leaving == ~ucRunThread /\ \E r \in RxThreads : At(r, "loop")

\* Once everything has settled the application has last been told the status
\* the radio has, but for these two cases.
SettledStatus ==
  Quiescent /\ ~Abandoned /\ ~StillEnabling /\ ~Leaving =>
    ant_radio_enabled_status = IF notified = "RESET" THEN "ENABLED" ELSE notified

-----------------------------------------------------------------------------
(* The inductive invariant, besides that of the radio.                     *)

\* stEnabledStatusLock is owned exactly by the thread inside its sections.
OwnerInv == \A t \in Threads : lock = t <=> pc[t] \in HoldsLock

\* A thread that wants the lock, or has it, knows what for.
RoutineInv ==
  \A t \in Threads :
    At(t, "acquire") \/ pc[t] \in HoldsLock \ SpoofLabels => op[t] # "none"

\* What is open where, inside and behind init_transport_bdroid.
ChannelInv ==
  \A t \in Threads :
    /\ pc[t] \in OpeningLabels \cup {"report"} => iFd = -1
    /\ At(t, "powerOff") => iFd # -1

\* Who is on record: a receive thread until it takes its handle off itself,
\* somebody to be joined, and nobody any more.
RecordInv ==
  \A t \in Threads :
    /\ pc[t] \in SpoofLabels => stRxThread = t
    /\ pc[t] \in {"signal", "join"} => stRxThread # NoThread
    /\ At(t, "report") => stRxThread = NoThread

BtInv == TypeOK /\ OwnerInv /\ RoutineInv /\ ChannelInv /\ RecordInv
=============================================================================
