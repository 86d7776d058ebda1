------------------------------ MODULE BluezHci ------------------------------
(***************************************************************************)
(* The BlueZ back-end: ant_native_hci.c, ant_rx.c and ant_tx.c.  Threads   *)
(* of the application enable and disable the radio, ask for its status and *)
(* send messages; a receive thread reads the chip's events from a socket   *)
(* of its own.  enableLock protects enable and disable, txLock the sending *)
(* of messages; enable and disable hold both while they wait for the       *)
(* receive thread.                                                         *)
(*                                                                         *)
(* There are two builds.  With an external power library ("bluedroid") the *)
(* radio's status is what the library says of the chip; without one        *)
(* ("plain") it is what the code last wrote.  The library, the chip, the   *)
(* HCI sockets and the threads are external.                               *)
(*                                                                         *)
(* A definition Name_slip is Name with a mistake a maintainer could make;  *)
(* it is no part of Spec.                                                  *)
(***************************************************************************)
EXTENDS Naturals

CONSTANTS
  Builds,      \* the builds to consider
  Callers,     \* threads of the application
  RxThreads,   \* receive threads that may be created
  NoThread,    \* owner of a free lock; RxParams.thread of no thread
  Operations,  \* calls the application makes
  Faults,      \* what may fail or happen
  MaxRetries   \* MAX_RETRIES_WRITE_FAIL

ASSUME ThreadsAssumption ==
  NoThread \notin Callers \cup RxThreads /\ Callers \cap RxThreads = {}

ASSUME BoundsAssumption ==
  /\ Builds \subseteq {"bluedroid", "plain"}
  /\ Operations \subseteq {"enable", "disable", "status", "send"}
  /\ Faults \subseteq {"power", "query", "crash", "create", "socket", "poll", "write", "answer"}
  /\ MaxRetries \in Nat \ {0}

Threads == Callers \cup RxThreads

VARIABLES
  build,         \* which build this is
  enableLock,    \* owner of the mutex
  txLock,        \* owner of the mutex
  radio_status,
  rxThread,      \* RxParams.thread
  chipOn,        \* external: does the power library keep the chip on?
  notified,      \* status last passed to the state callback
  pc,            \* where each thread is
  after,         \* where each thread goes from get_and_set_radio_status
  sample,        \* what it has read there
  learned,       \* what get_and_set_radio_status returned to each thread last
  retries,       \* commandWriteFailRetries of the owner of txLock
  expired        \* is endTime over for it?

locks == <<enableLock, txLock>>
radio == <<radio_status, rxThread, chipOn, notified>>
query == <<after, sample, learned>>
send  == <<retries, expired>>
vars  == <<build, locks, radio, pc, query, send>>

Status == {"UNKNOWN", "ENABLING", "ENABLED", "DISABLING", "DISABLED"}

HoldsBoth == {"enDecide", "enJoin", "enPower", "enStart", "enConfirm", "enFail",
              "enRelease", "disDecide", "disPower", "disJoin", "disRelease"}
HoldsTx   == {"txDecide", "txOpen", "txWrite", "txWait", "txClose"}

Labels ==
  HoldsBoth \cup HoldsTx \cup
  {"idle", "enLock", "disLock", "enTxLock", "disTxLock", "txLock", "ask", "store", "answer",
   "rxSocket", "rxDecide", "rxPoll", "rxClose", "rxCrashed", "rxForget", "gone"}

TypeOK ==
  /\ build \in Builds
  /\ enableLock \in Threads \cup {NoThread}
  /\ txLock \in Callers \cup {NoThread}
  /\ radio_status \in Status
  /\ rxThread \in RxThreads \cup {NoThread}
  /\ chipOn \in BOOLEAN
  /\ notified \in Status
  /\ pc \in [Threads -> Labels]
  /\ after \in [Threads -> {"idle", "enDecide", "enRelease", "disDecide", "disRelease", "txDecide",
                            "rxDecide", "rxForget"}]
  /\ sample \in [Threads -> [before : Status, now : Status]]
  /\ learned \in [Threads -> Status]
  /\ retries \in 0 .. MaxRetries
  /\ expired \in BOOLEAN

\* Values of locals nobody uses.
None     == "DISABLED"
NoSample == [before |-> None, now |-> None]

\* ant_init; the status is initialised statically.
Init ==
  /\ build \in Builds
  /\ enableLock = NoThread /\ txLock = NoThread
  /\ radio_status = "DISABLED" /\ notified = "DISABLED"
  /\ rxThread = NoThread
  /\ chipOn = FALSE
  /\ pc = [t \in Threads |-> IF t \in Callers THEN "idle" ELSE "gone"]
  /\ after = [t \in Threads |-> "idle"]
  /\ sample = [t \in Threads |-> NoSample]
  /\ learned = [t \in Threads |-> None]
  /\ retries = 0
  /\ expired = FALSE

At(t, label)   == pc[t] = label
Goto(t, label) == pc' = [pc EXCEPT ![t] = label]

\* Calls get_and_set_radio_status and goes on at label.
AskThen(t, label) ==
  /\ Goto(t, IF build = "bluedroid" THEN "ask" ELSE "answer")
  /\ after' = [after EXCEPT ![t] = label]

\* What t has learned serves no more.
Forget(t) == learned' = [learned EXCEPT ![t] = None]

Report(status) == notified' = IF build = "bluedroid" THEN status ELSE notified

-----------------------------------------------------------------------------
(* get_and_set_radio_status, which no lock protects: the library is asked; *)
(* its answer is stored, and reported if it is news; and what is returned  *)
(* is what is stored by then.  Without a library there is only the last.   *)

ChipStatuses ==
  {IF chipOn THEN "ENABLED" ELSE "DISABLED"} \cup
    IF "query" \in Faults THEN {"UNKNOWN"} ELSE {}

\* Takes the library's answer for a status.
Ask_raw(t) ==
  /\ At(t, "ask")
  /\ Goto(t, "store")
  /\ sample' = [sample EXCEPT ![t] = [before |-> radio_status, now |-> IF chipOn THEN "1" ELSE "0"]]
  /\ UNCHANGED <<build, locks, radio, after, learned, send>>

Ask(t) ==
  /\ At(t, "ask")
  /\ Goto(t, "store")
  /\ \E s \in ChipStatuses : sample' = [sample EXCEPT ![t] = [before |-> radio_status, now |-> s]]
  /\ UNCHANGED <<build, locks, radio, after, learned, send>>

Store(t) ==
  /\ At(t, "store")
  /\ Goto(t, "answer")
  /\ radio_status' = sample[t].now
  /\ notified' = IF sample[t].before # sample[t].now THEN sample[t].now ELSE notified
  /\ sample' = [sample EXCEPT ![t] = NoSample]
  /\ UNCHANGED <<build, locks, rxThread, chipOn, after, learned, send>>

GetStatus(t) ==
  /\ At(t, "answer")
  /\ Goto(t, after[t])
  /\ learned' = [learned EXCEPT ![t] = IF after[t] \in {"idle", "rxForget"} THEN None ELSE radio_status]
  /\ after' = [after EXCEPT ![t] = "idle"]
  /\ UNCHANGED <<build, locks, radio, sample, send>>

-----------------------------------------------------------------------------
(* The application's calls.                                                *)

CallRadio(c) ==
  /\ At(c, "idle")
  /\ \/ "enable" \in Operations /\ Goto(c, "enLock")
     \/ "disable" \in Operations /\ Goto(c, "disLock")
     \/ "send" \in Operations /\ Goto(c, "txLock")
  /\ UNCHANGED <<build, locks, radio, query, send>>

\* ant_radio_enabled_status asks unless a call is changing the status.
CallStatus(c) ==
  /\ At(c, "idle") /\ "status" \in Operations
  /\ radio_status \notin {"ENABLING", "DISABLING"}
  /\ AskThen(c, "idle")
  /\ UNCHANGED <<build, locks, radio, sample, learned, send>>

TakeEnableLock(c) ==
  /\ pc[c] \in {"enLock", "disLock"} /\ enableLock = NoThread
  /\ enableLock' = c
  /\ IF At(c, "enLock")
     THEN /\ Goto(c, "enTxLock")
          /\ radio_status' = IF radio_status = "DISABLED" THEN "ENABLING" ELSE radio_status
     ELSE Goto(c, "disTxLock") /\ UNCHANGED radio_status
  /\ UNCHANGED <<build, txLock, rxThread, chipOn, notified, query, send>>

\* Does not wait for a send under way.
TakeTxLock_skips(c) ==
  /\ pc[c] \in {"enTxLock", "disTxLock"}
  /\ txLock' = c
  /\ IF build = "plain" /\ At(c, "disTxLock")
     THEN Goto(c, "disDecide") /\ UNCHANGED after
     ELSE AskThen(c, IF At(c, "enTxLock") THEN "enDecide" ELSE "disDecide")
  /\ UNCHANGED <<build, enableLock, radio, sample, learned, send>>

TakeTxLock(c) ==
  /\ pc[c] \in {"enTxLock", "disTxLock"} /\ txLock = NoThread
  /\ txLock' = c
  /\ IF build = "plain" /\ At(c, "disTxLock")
     THEN Goto(c, "disDecide") /\ UNCHANGED after
     ELSE AskThen(c, IF At(c, "enTxLock") THEN "enDecide" ELSE "disDecide")
  /\ UNCHANGED <<build, enableLock, radio, sample, learned, send>>

Release(c) ==
  /\ pc[c] \in {"enRelease", "disRelease"}
  /\ txLock' = NoThread /\ enableLock' = NoThread
  /\ Goto(c, "idle")
  /\ Forget(c)
  /\ UNCHANGED <<build, radio, after, sample, send>>

-----------------------------------------------------------------------------
(* ant_enable_radio, holding both locks.                                   *)

BeginEnabling(c) ==
  /\ radio_status' = "ENABLING" /\ Report("ENABLING")
  /\ Goto(c, "enPower")

EnDecide(c) ==
  /\ At(c, "enDecide")
  /\ \/ learned[c] = "ENABLED" /\ Goto(c, "enPower") /\ UNCHANGED <<radio_status, notified>>
     \/ learned[c] # "ENABLED" /\ rxThread = NoThread /\ BeginEnabling(c)
     \/ /\ learned[c] # "ENABLED" /\ rxThread # NoThread
        /\ Goto(c, "enJoin") /\ UNCHANGED <<radio_status, notified>>
  /\ Forget(c)
  /\ UNCHANGED <<build, locks, rxThread, chipOn, after, sample, send>>

\* "radio crashed, letting rx thread join"
EnJoin(c) ==
  /\ At(c, "enJoin") /\ rxThread # NoThread /\ At(rxThread, "gone")
  /\ rxThread' = NoThread
  /\ BeginEnabling(c)
  /\ UNCHANGED <<build, locks, chipOn, query, send>>

\* ant_disable of the power library, whose result is never looked at.
TurnOff ==
  \/ chipOn' = FALSE
  \/ "power" \in Faults /\ UNCHANGED chipOn

\* ant_enable of the power library, if there is one.
EnPower(c) ==
  /\ At(c, "enPower")
  /\ \/ Goto(c, "enStart") /\ chipOn' = (build = "bluedroid")
     \/ build = "bluedroid" /\ "power" \in Faults /\ Goto(c, "enFail") /\ UNCHANGED chipOn
  /\ UNCHANGED <<build, locks, radio_status, rxThread, notified, query, send>>

EnRestart(c) ==
  /\ At(c, "enStart") /\ rxThread # NoThread
  /\ radio_status' = "ENABLED"
  /\ Goto(c, "enRelease")
  /\ UNCHANGED <<build, locks, rxThread, chipOn, notified, query, send>>

\* Does not look whether there is a receive thread.
EnStart_always(c) ==
  /\ At(c, "enStart")
  /\ \/ \E r \in RxThreads :
           /\ At(r, "gone")
           /\ rxThread' = r
           /\ pc' = [pc EXCEPT ![c] = "enConfirm", ![r] = "rxSocket"]
     \/ "create" \in Faults /\ Goto(c, "enFail") /\ UNCHANGED rxThread
  /\ UNCHANGED <<build, locks, radio_status, chipOn, notified, query, send>>

\* pthread_create: the new thread runs before its creator says ENABLED.
EnStart(c) ==
  /\ At(c, "enStart") /\ rxThread = NoThread
  /\ \/ \E r \in RxThreads :
           /\ At(r, "gone")
           /\ rxThread' = r
           /\ pc' = [pc EXCEPT ![c] = "enConfirm", ![r] = "rxSocket"]
     \/ "create" \in Faults /\ Goto(c, "enFail") /\ UNCHANGED rxThread
  /\ UNCHANGED <<build, locks, radio_status, chipOn, notified, query, send>>

EnConfirm(c) ==
  /\ At(c, "enConfirm")
  /\ IF build = "plain" \/ radio_status = "ENABLING"
     THEN radio_status' = "ENABLED" /\ Report("ENABLED")
     ELSE UNCHANGED <<radio_status, notified>>
  /\ Goto(c, "enRelease")
  /\ UNCHANGED <<build, locks, rxThread, chipOn, query, send>>

\* Cleans up, whether or not there is a receive thread.
EnFail(c) ==
  /\ At(c, "enFail")
  /\ IF build = "bluedroid" THEN TurnOff ELSE UNCHANGED chipOn
  /\ AskThen(c, "enRelease")
  /\ UNCHANGED <<build, locks, radio_status, rxThread, notified, sample, learned, send>>

-----------------------------------------------------------------------------
(* ant_disable_radio, holding both locks.                                  *)

DisDecide(c) ==
  /\ At(c, "disDecide")
  /\ IF build = "plain"
     THEN radio_status' = "DISABLED" /\ Goto(c, "disJoin") /\ UNCHANGED notified
     ELSE /\ Goto(c, "disPower")
          /\ IF learned[c] = "DISABLED" THEN UNCHANGED <<radio_status, notified>>
             ELSE radio_status' = "DISABLING" /\ Report("DISABLING")
  /\ Forget(c)
  /\ UNCHANGED <<build, locks, rxThread, chipOn, after, sample, send>>

DisPower(c) ==
  /\ At(c, "disPower")
  /\ TurnOff
  /\ Goto(c, "disJoin")
  /\ UNCHANGED <<build, locks, radio_status, rxThread, notified, query, send>>

\* Forgets the receive thread without waiting for its end.
DisJoin_detaches(c) ==
  /\ At(c, "disJoin")
  /\ rxThread' = NoThread
  /\ AskThen(c, "disRelease")
  /\ UNCHANGED <<build, locks, radio_status, chipOn, notified, sample, learned, send>>

\* Does not ask what has become of the chip.
DisJoin_trusts(c) ==
  /\ At(c, "disJoin")
  /\ rxThread # NoThread => At(rxThread, "gone")
  /\ rxThread' = NoThread
  /\ Goto(c, "disRelease")
  /\ UNCHANGED <<build, locks, radio_status, chipOn, notified, query, send>>

DisJoin(c) ==
  /\ At(c, "disJoin")
  /\ rxThread # NoThread => At(rxThread, "gone")
  /\ rxThread' = NoThread
  /\ AskThen(c, "disRelease")
  /\ UNCHANGED <<build, locks, radio_status, chipOn, notified, sample, learned, send>>
-----------------------------------------------------------------------------
(* ant_tx_message, which holds txLock throughout.                          *)

TxLock(c) ==
  /\ At(c, "txLock") /\ txLock = NoThread
  /\ txLock' = c
  /\ AskThen(c, "txDecide")
  /\ UNCHANGED <<build, enableLock, radio, sample, learned, send>>

TxLeave(c) == txLock' = NoThread /\ Goto(c, "idle")

TxDecide(c) ==
  /\ At(c, "txDecide")
  /\ \/ learned[c] = "ENABLED" /\ Goto(c, "txOpen") /\ UNCHANGED txLock
     \/ learned[c] # "ENABLED" /\ TxLeave(c)
  /\ Forget(c)
  /\ UNCHANGED <<build, enableLock, radio, after, sample, send>>

TxOpen(c) ==
  /\ At(c, "txOpen")
  /\ \/ Goto(c, "txWrite") /\ UNCHANGED txLock
     \/ "socket" \in Faults /\ TxLeave(c)
  /\ retries' = 0 /\ expired' = FALSE
  /\ UNCHANGED <<build, enableLock, radio, query>>

TxWrite(c) ==
  /\ At(c, "txWrite")
  /\ \/ Goto(c, "txWait")
     \/ "write" \in Faults /\ Goto(c, "txClose")
  /\ UNCHANGED <<build, locks, radio, query, send>>

\* Success, failure, or no answer in 2.5 seconds.  The socket's filter lets
\* command complete events through and nothing else, so that the loop around
\* get_command_complete_result that skips other events, which has neither a
\* counter nor a deadline, is taken to be run through once.
TxAnswered(c) ==
  /\ At(c, "txWait")
  /\ Goto(c, "txClose")
  /\ UNCHANGED <<build, locks, radio, query, send>>

\* Tries as often as the chip refuses.
TxRefused_always(c) ==
  /\ At(c, "txWait") /\ "answer" \in Faults
  /\ Goto(c, "txWrite")
  /\ UNCHANGED <<build, locks, radio, query, send>>

\* ANT_STATUS_COMMAND_WRITE_FAILED: so many attempts in all.
TxRefused(c) ==
  /\ At(c, "txWait") /\ "answer" \in Faults
  /\ retries' = retries + 1
  /\ Goto(c, IF retries' < MaxRetries THEN "txWrite" ELSE "txClose")
  /\ UNCHANGED <<build, locks, radio, query, expired>>

\* ANT_STATUS_TRANSPORT_UNSPECIFIED_ERROR: tries again until the time is over.
TxUnspecified(c) ==
  /\ At(c, "txWait") /\ "answer" \in Faults
  /\ Goto(c, IF expired THEN "txClose" ELSE "txWrite")
  /\ UNCHANGED <<build, locks, radio, query, send>>

TxClose(c) ==
  /\ At(c, "txClose")
  /\ TxLeave(c)
  /\ retries' = 0 /\ expired' = FALSE
  /\ UNCHANGED <<build, enableLock, radio, query>>

\* MAX_RETRY_TIME_SECS go by.
TimePasses ==
  /\ \E c \in Callers : pc[c] \in {"txWrite", "txWait"}
  /\ ~expired /\ expired' = TRUE
  /\ UNCHANGED <<build, locks, radio, pc, query, retries>>

-----------------------------------------------------------------------------
(* ANTHCIRxThread.                                                         *)

\* Without a socket it ends; without the filter it closes the socket first.
RxSocket(r) ==
  /\ At(r, "rxSocket")
  /\ \/ AskThen(r, "rxDecide")
     \/ "socket" \in Faults /\ pc' \in {[pc EXCEPT ![r] = l] : l \in {"gone", "rxClose"}}
        /\ UNCHANGED after
  /\ UNCHANGED <<build, locks, radio, sample, learned, send>>

RxDecide(r) ==
  /\ At(r, "rxDecide")
  /\ Goto(r, IF learned[r] = "ENABLED" THEN "rxPoll" ELSE "rxClose")
  /\ Forget(r)
  /\ UNCHANGED <<build, locks, radio, after, sample, send>>

\* An event, passed to the callback, or 2.5 seconds of silence; or an error.
RxPoll(r) ==
  /\ At(r, "rxPoll")
  /\ \/ AskThen(r, "rxDecide")
     \/ "poll" \in Faults /\ Goto(r, "rxClose") /\ UNCHANGED after
  /\ UNCHANGED <<build, locks, radio, sample, learned, send>>

\* Whoever holds the lock is taken to wait for this thread.
RxClose(r) ==
  /\ At(r, "rxClose")
  /\ \/ enableLock = NoThread /\ enableLock' = r /\ Goto(r, "rxCrashed")
     \/ enableLock # NoThread /\ Goto(r, "gone") /\ UNCHANGED enableLock
  /\ UNCHANGED <<build, txLock, radio, query, send>>

\* "rx thread socket has unexpectedly crashed"
RxCrashed(r) ==
  /\ At(r, "rxCrashed")
  /\ Report("DISABLING")
  /\ IF build = "bluedroid"
     THEN TurnOff /\ AskThen(r, "rxForget") /\ UNCHANGED radio_status
     ELSE radio_status' = "DISABLED" /\ Goto(r, "rxForget") /\ UNCHANGED <<chipOn, after>>
  /\ UNCHANGED <<build, locks, rxThread, sample, learned, send>>

RxForget(r) ==
  /\ At(r, "rxForget")
  /\ rxThread' = NoThread
  /\ enableLock' = NoThread
  /\ Goto(r, "gone")
  /\ UNCHANGED <<build, txLock, radio_status, chipOn, notified, query, send>>

\* Bluetooth, which shares the chip, goes down.
ChipCrashes ==
  /\ "crash" \in Faults /\ chipOn
  /\ chipOn' = FALSE
  /\ UNCHANGED <<build, locks, radio_status, rxThread, notified, pc, query, send>>

-----------------------------------------------------------------------------
LockStep(c) == TakeEnableLock(c) \/ TakeTxLock(c) \/ TxLock(c)

CallStep(c) ==
  \/ EnDecide(c) \/ EnJoin(c) \/ EnPower(c) \/ EnRestart(c) \/ EnStart(c) \/ EnConfirm(c)
  \/ EnFail(c) \/ DisDecide(c) \/ DisPower(c) \/ DisJoin(c) \/ Release(c)
  \/ TxDecide(c) \/ TxOpen(c) \/ TxWrite(c) \/ TxAnswered(c) \/ TxRefused(c)
  \/ TxUnspecified(c) \/ TxClose(c)

RxStep(r) ==
  \/ RxSocket(r) \/ RxDecide(r) \/ RxPoll(r) \/ RxClose(r) \/ RxCrashed(r) \/ RxForget(r)

Next ==
  \/ \E t \in Threads : Ask(t) \/ Store(t) \/ GetStatus(t)
  \/ \E c \in Callers : CallRadio(c) \/ CallStatus(c) \/ LockStep(c) \/ CallStep(c)
  \/ \E r \in RxThreads : RxStep(r)
  \/ TimePasses \/ ChipCrashes

\* Threads run, poll returns, and mutexes are obtained eventually.  Calls need
\* not be made and the chip need not crash.
Fairness ==
  /\ \A t \in Threads : WF_vars(Ask(t) \/ Store(t) \/ GetStatus(t))
  /\ \A c \in Callers :
        /\ WF_vars(CallStep(c))
        /\ SF_vars(TakeEnableLock(c)) /\ SF_vars(TakeTxLock(c)) /\ SF_vars(TxLock(c))
  /\ \A r \in RxThreads : WF_vars(RxStep(r))
  /\ WF_vars(TimePasses)

Spec == Init /\ [][Next]_vars /\ Fairness
-----------------------------------------------------------------------------
(* Properties.                                                             *)

Live(r) == ~At(r, "gone")

\* RxParams.thread always names the receive thread that runs, so that there is
\* never a second one and ant_disable_radio joins the right one.
ReaderOnRecord == \A r \in RxThreads : Live(r) => rxThread = r

\* When ant_disable_radio returns there is no receive thread any more ...
DisableEndsReader ==
  [][\A c \in Callers :
       At(c, "disRelease") /\ pc'[c] = "idle" => \A r \in RxThreads : pc'[r] = "gone"]_vars

\* ... and if it reports success, the chip is off: so long as nobody is in
\* ant_radio_enabled_status, which may have asked before the chip was enabled
\* and stores that answer between the two last steps of get_and_set_radio_status.
DisableSuccess ==
  \A c \in Callers :
    At(c, "disRelease") /\ learned[c] = "DISABLED" => ~chipOn

\* No enable or disable of the application takes the chip's power away from a
\* message under way: only a crash does, and the receive thread on a failure.
PowerKept ==
  [][(\E c \in Callers : pc[c] \in HoldsTx) /\ chipOn /\ ~chipOn'
       => pc' = pc \/ \E r \in RxThreads : At(r, "rxCrashed")]_vars

\* A call waits, with both locks held, for a receive thread that has no reason
\* to leave: ant_disable has failed, or ant_is_enabled has only this once.
Starved ==
  \E c \in Callers :
    /\ pc[c] \in {"enJoin", "disJoin"} /\ rxThread # NoThread
    /\ chipOn

\* Otherwise every call returns, whatever fails and however often, given that the
\* filter of the socket a message is answered on works (TxAnswered).
CallsReturn == \A c \in Callers : ~At(c, "idle") ~> (At(c, "idle") \/ Starved)

-----------------------------------------------------------------------------
(* Expectations stated beside the code that its runs do not meet.          *)

Quiescent == \A c \in Callers : At(c, "idle")

\* "This thread opens a Bluez HCI socket and waits for ANT messages": while the
\* radio is ENABLED and nobody changes that, it does.
EnabledHasReader ==
  Quiescent /\ radio_status = "ENABLED" => \E r \in RxThreads : Live(r)
=============================================================================
