# Verification of the ANT HAL

The repository is a C library through which an Android application (via JNI) or
a test program drives an ANT radio chip. One interface,
`src/src/common/inc/ant_native.h`, has three back-ends, of which the build
takes one: two that talk to character devices (`src/src/vfs`,
`src/src/bt-vendor_vfs`) and one that talks to BlueZ's HCI sockets
(`src/src/bluez_hci`). This directory holds TLA+ models of the parts that have
state and run concurrently, the configurations TLC checks them with, and proofs
for TLAPS.

A name in `code` that is not a TLA+ definition is one of the C
source; `vfs/x.c` is short
for `src/src/vfs/x.c`.

## 1. Inventory

| Component | Source | State | Operations | Model |
|---|---|---|---|---|
| chardev radio | `vfs/` and `bt-vendor_vfs/`: `ant_native_chardev.c`, `ant_rx_chardev.c` | `stEnabledStatusLock`; in `stRxThreadInfo`: thread handle, `ucRunThread`, `ucChipResetting`, one `iFd` per channel, shutdown eventfd, `bWaitingForKeepaliveResponse` | `ant_enable_radio`, `ant_disable_radio`, `ant_radio_hard_reset`, `ant_radio_enabled_status`; receive thread `fnRxThread`, `doReset` | `ChardevRadio` |
| chardev flow control | the same files | `stFlowControlLock`, `stFlowControlCond`, `ucFlowControlResp` | `ant_tx_message`, `ant_tx_message_flowcontrol_wait`, `setFlowControl` | `FlowControl` |
| chardev packet reader | `ant_rx_chardev.c` | `aucRxBuffer`, `iRxBufferLength`, static, per channel | `readChannelMsg` | `ChannelReader`, `PacketPipe` |
| bt transport | `bt-vendor_vfs/ant_native_chardev.c` | `vendor_interface`; power and UART of the vendor library | `init_transport_bdroid` | `BtTransport` |
| BlueZ radio | `bluez_hci/ant_native_hci.c`, `ant_rx.c` | `enableLock`, `txLock`, `radio_status`, `RxParams.thread` | enable, disable, status, `get_and_set_radio_status`, `ANTHCIRxThread` | `BluezHci` |
| BlueZ transmit | `ant_native_hci.c`, `ant_tx.c` | `txLock`, `g_ant_cmd_socket`, retry counter and deadline | `ant_tx_message`, `write_data`, `wait_for_message`, `get_command_complete_result` | `BluezHci` |
| HCI framing | `bluez_hci/inc/ant_framing.h`, `common/ant_utils.c`, and the headers the chardev back-ends write | none | pure functions | `HciFraming` |
| JNI layer | `common/JAntNative.cpp` | the VM and method ids, set at load; in the VM: which threads are attached, which have an exception pending | native methods, `nativeJAnt_RxCallback`, `nativeJAnt_StateCallback` | `JAntNative` |
| test application | `app/ant_app.c` | globals | reads keys, calls the API | not modelled |

**How they interact.** Any number of application threads call the API. Each
back-end adds one receive thread, created by enable and joined by disable; it
waits in `poll()`, hands packets to the application's receive callback and flow
messages to the senders, and shuts down or restarts the radio by itself when the
chip fails. The bt back-end opens its one channel through the vendor library,
which also turns the chip's power on and off. For Java there is the JNI layer on
top: native methods on Java's threads, callbacks on the receive thread, which it
attaches to the VM for the time of the call. State changes are reported through the state callback, on whichever
thread makes them and mostly with the lock held. In the character-device
back-ends a second, detached thread sends a keepalive message after silence, so
that the receive thread stays free to read the answer.

**What is hard.** The receive thread restarts the radio, and with it its own
successor, while application threads enable and disable it; a disable joins, with
the lock held, a thread that may want the lock; flags, an eventfd and static
buffers outlive the thread they were meant for; the status is read without a
lock; one flag and one condition variable serve all senders; timeouts race with
late answers; opens, thread creations and the power library fail half-way;
lengths are narrowed to a byte; callbacks run on threads that may or may not be
attached to the VM, and Java throws in them; the BlueZ receive thread decides from a failed `trylock` what others are doing.
`PROJECT.json` lists each of these hazards with its line and the properties that
would catch it.

**What makes each component correct.**
- *Radio*: at most one receive thread serves, on open channels; it is the one on
  record; a signal or a keepalive state never reaches the wrong thread; a
  completed disable leaves nothing behind; what the application was told last is
  so once things settle; no lock is kept and every call returns.
- *Flow control*: success means that the chip let the message pass; nobody
  sleeps through a GO; senders and receive thread return.
- *bt transport*: an open channel has power, power that is on can be turned off,
  and never is turned off under the receive thread.
- *Packet reader*: packets come out once, whole, in order and without delay,
  however the stream is cut; the buffer suffices.
- *BlueZ*: one receive thread, on record; a disable that returns has ended it and
  tells the truth; no message loses the chip's power to another call; every call
  returns whatever the chip answers.
- *Framing and JNI*: a message that fits arrives whole in both directions and
  nothing else arrives; Java runs on attached threads only, no thread ends
  attached, no exception escapes a callback.

## 2. Modules

### ChardevRadio

One module for both character-device back-ends; `BackEnd` selects the few places
where they differ: vfs ignores redundant calls, takes `ucRunThread` back when
`ant_enable` failed without a thread, and resets on a read error, where bt lets
the receive thread stop.

`pc[t]` is the place of thread `t`, `op[t]` the routine it executes. A step is
the code between two accesses to state another thread can see, so that, for
instance, `doReset` is raising `ucChipResetting` (`DoReset`), lowering the run
flag (`DoResetStops`), taking the lock (`DoResetLocks`), and then the same steps
of `ant_disable` and `ant_enable` an application thread makes. `ant_disable`
itself is lowering the run flag (`AntDisable`), signalling the receive thread if
there is one (`SignalShutdown`), joining it (`Join`) and closing the channels.
`ant_enable` begins with two such accesses, draining the signal and raising the
flag, that are one step here (`AntEnable`): a signal is still there only when the
thread it was meant for has been joined, so that nobody is left to see it gone
before the flag is up. `fd[c]` tells
whether `iFd` of channel `c` is a descriptor, `eventFd` whether the eventfd's
counter is positive, `waiting` which thread set `bWaitingForKeepaliveResponse`,
`notified` the last status given to the state callback. `open`, `pthread_create`
and `poll` are the environment: they choose among the results the code
distinguishes, within `OpenMayFail`, `CreateMayFail` and `Faults`.
`pthread_create` fails the way the code sees it: the return value is positive,
the test is for a negative one, so that `ant_enable` goes on (`NoSpawn`).

Spurious details left out: the detached keepalive thread (it only calls
`ant_tx_message`), logging, errors of mutexes and of the eventfd itself,
`ant_init` and `ant_deinit`. `ant_radio_enabled_status` is evaluated on one
snapshot of the state; where it is called with the lock held only the receive
thread's own flags can change meanwhile.

### RadioSession

The abstract specification of the radio, in terms of what the descriptors and
receive threads do: sessions, in each of which all channels are opened, one
thread serves them, and they are closed again before the next session opens any.
`ChardevRadio` implements it (`ImplementsSession`); the refinement mapping reads
the phase off the places of the threads inside the lock (`SessionPhase`).

### BtTransport

The bt back-end once more, from its own sources alone: its variables, places and
actions are not those of `ChardevRadio`, and its steps are finer. There is one
action for each call `init_transport_bdroid` makes of the vendor library
(`LoadLibrary`, `FindInterface`, `PowerOn`, `OpenUserial`; `CloseUserial`,
`PowerOff`). The library may not load, may lack the symbol (as long as it has not
been found once), may fail to turn the power on or to open the UART, after which
the power stays on; if it fails to turn the power off, so does the pointer stay.
Taking the lock and what its new owner does first are two steps (`TryLock` and
`CleanUp`, `LockForReset` and `SpoofHandle`, `Acquire` and `Begin`), and so are the
last step of `ant_disable` and the report after it (`EndDisable`,
`ReportAndReturn`). One evaluation of `poll()` may bring data, the signal and
trouble with the eventfd together (`PollEvents`).

`ImplementsRadio` says that this is nevertheless the radio of `ChardevRadio` with
one channel. The refinement mapping puts a thread inside `init_transport_bdroid`
at the step that opens or closes the channel (`RadioLabel`), a lock that has just
been taken where it was before (`RadioLock`, while `Between`), and a report that is
about to be made where it is made (`RadioNotified`, `RadioOp`). It can fail: it did
while the eventfd's trouble and data in the same `poll()` were two alternatives in
`ChardevRadio` (`EventFdFails` now has both), and it does for a descriptor that is
not checked (`OpenUserial_unchecked`).

### FlowControl

One flag, one lock, one condition variable. `users` are the threads that send in
this behaviour, one or more, and `prompt` tells whether the chip always answers
in time; both are chosen at the start, so that one run covers the sender that is
alone with a well-behaved chip, of which much holds, and the crowd with a chip
that owes nothing, of which only termination does. A data message passes `Lock`,
`Transmit` (STOP, then the write, which may fail or fall short), `Check` (the loop condition), sleep, and
`pthread_cond_timedwait`, which returns after a signal, for no reason
(`SpuriousWakeup`) or by timeout (`TimeOut`, `GiveUp`); a command is only written
(`Write`). The receive thread sets the flag under the lock (`RxSet`) and signals
after it (`RxSignal`), two steps as in the code. The chip answers each data
message in turn, with GO or with STOP and GO; a message of which a part was
written gets no answer, and is taken not to garble the one after it. The radio may be closed and opened
under the senders (`RadioCloses`, `RadioOpens`: the joined and restarted receive
thread of `ChardevRadio`).

### ChannelReader and PacketPipe

`ChannelReader` is `readChannelMsg` over real bytes: `Read` takes any number of
bytes the driver holds, `HandlePacket`, `KeepRest` and `ScanDone` are the
branches of the loop. A packet's destination is decided as the code decides it,
by looking at fixed offsets whatever the packet's size, so that bytes beyond the
valid ones may be anything (`MayMatch`, `MayDiffer`). `memcpy` between
overlapping regions is undefined: with `CopiesDown` the model lets it also copy
from the end. `RadioResets` is what a reset does to the stream and fails to do to
the buffer. `inTransit`, `handled` and `torn` are history variables.

`PacketPipe` is the abstract specification: a queue of packets that a reset
empties, whose promise ends when a packet is torn. `ChannelReader` implements it
(`Implements == Pipe!Spec`, the variables of the same names being the refinement
mapping), including its liveness.

### BluezHci

Radio, receive thread and transmit path of the BlueZ back-end in one module,
because they share both locks and `radio_status`. `build` tells whether an
external power library is linked: then `get_and_set_radio_status` asks it (`Ask`),
stores the answer (`Store`) and returns what is stored by then (`GetStatus`),
three steps that no lock protects; without a library only the last is left.
`after[t]` is where `t` goes on from there. `chipOn` is the library's idea of the
chip. The chip answers a message with success, with a refusal (`TxRefused`,
counted), with an unspecified error (`TxUnspecified`, until the deadline) or not
at all, and may crash (`ChipCrashes`). `ant_disable` of the library may fail
wherever it is called (`TurnOff`). An event that is not the expected command
complete sends the code around a loop that has neither a counter nor a deadline
(`retryRx`, `bluez_hci/ant_native_hci.c:762-766` and `838`), with `txLock` held.
The filter of the socket (`ant_tx.c:65-68`) lets no such event through, and the
model leaves the loop out: `CallsReturn` holds on this assumption. A receive thread's event is abstract: all it
changes is that the loop looks at the status again.

### HciFraming and JAntNative

`HciFraming` holds the pure functions: the bytes each of the four builds (vfs,
bt with either packet type, and BlueZ for two chips) puts before a message, computed modulo 2^8 where the
code stores into a byte, and the validation of what a BlueZ socket delivers. A
payload is its length. `ChipReads` and `ChipEvent` are the chip's side and serve
as reference: what a chip makes of the header the code writes, and the event it
sends for a message.

`JAntNative` uses it in a layer of calls: `stack[t]` is what thread `t` is
executing, from Java through native methods, the HAL's loop and the callbacks
back into Java, which may call native methods again. A callback's frame has its
place (`at`) and, in the state callback, `iShouldDetach` (`detach`).
`nativeJAnt_RxCallback` attaches without asking, `nativeJAnt_StateCallback` asks
`GetEnv` first, since it also runs on Java's own threads. The VM's attachment of
threads, its pending exceptions, and failures of both attaching and
`NewByteArray` are external.

### Slips

A definition `Name_slip` repeats the action `Name` with one mistake a maintainer
could make (a lock not released, a signal not drained, a thread not joined). No
specification uses it. `PROJECT.json` names, for every property of every passing
run, one slip that breaks it.

## 3. What is checked

Each run ends after a minute at most. Runs that check a property stated by the
code's own comments and find it violated are marked *violated*.

| Run | Instance | Shows |
|---|---|---|
| `vfs_recovery` | vfs, 2 callers, 2 channels, hard reset, failing opens and thread creations, silence, hang-up, read errors | everything section 1 asks of the radio, and that it implements `RadioSession`, through every interleaving of enables, disables and resets; only the join cycle can block |
| `bt_faults` | the radio of bt, 1 channel, read errors and a failing eventfd | a disable that returns has left nothing behind, and the status can be explained, even when receive threads stop by themselves and find the lock busy |
| `bt_recovery` | bt over the vendor library, every step of which may fail | translated from its own sources, with finer steps, it implements the radio of `ChardevRadio`; power is accounted for and never goes off under the thread; what the application was told last is true but for the two cases `Abandoned` and `StillEnabling` |
| `vfs_join_cycle` | as `vfs_recovery`, hang-up only | *violated*: `ant_disable_radio` may wait for ever |
| `vfs_failed_reset` | a reset whose second open fails | *violated*: the application is told DISABLED, the status is DISABLING |
| `flow` | 1 or 2 senders, of data and commands, 4 messages to a prompt chip, 2 to any other, timeouts, a closing radio | every call returns, the receive thread is never held up; a sender alone with a prompt chip is never misled: success means granted, no lost wakeup, no timeout |
| `jni` | 1 Java thread, 1 receive thread, 5 nested calls, the four framings, lengths around each limit | threads are attached while Java runs and detached before they can end; no exception escapes; messages that fit arrive whole, and nothing foreign arrives |
| `reader` | 3 packets of 4 kinds, every cut, resets, both directions of copying | `ChannelReader` implements `PacketPipe`; no whole packet is kept, room remains |
| `reader_stale` | a reset between two reads | *violated*: the callback gets packets nobody sent |
| `bluez` | both builds, 2 callers, 2 receive threads, all four calls, crashes, failing power, queries, sockets, thread creations | one receive thread, the one on record; a disable ends it; no call takes the power from a message; no deadlock |
| `bluez_returns` | both builds, 2 callers, a chip that refuses, fails and crashes | every call returns unless `ant_disable` failed; a successful disable has turned the chip off |
| `bluez_no_reader` | plain build, 1 caller, nothing fails | *violated*: the receive thread may end before enable returns |

**Findings.** The four violated runs, with the lines that promise otherwise, are
under "findings" in `PROJECT.json`:
1. *Join cycle.* The receive thread enters `doReset` after `ant_disable_radio`
   took the lock; the one waits for the lock, the other for the thread.
   `LockReleased`, `ResettingEnds` and `CallsReturn` except exactly this state
   (`JoinCycle`): nothing else blocks.
2. *Failed reset.* `doReset` and `ant_radio_hard_reset` do not call `ant_disable`
   after a failed `ant_enable`, as `ant_enable_radio` does. The state that is left
   is `Stranded`, which `QuiescentAgreement` excepts.
3. *Stale receive buffer.* A reset does not clear `iRxBufferLength`.
4. *No reader.* Without a power library the receive thread may read ENABLING
   where its loop wants ENABLED.

**Limits the models make visible.** These have no run of their own; the properties
are worded to say exactly where they end.
- Flow messages carry no identity. After a timeout the late GO of one message
  lets the next one pass, and of two senders that wait one may take the GO of the
  other, which then times out although the chip has answered. This is why
  `SuccessMeansGranted` and `NoFalseTimeout` speak of an `Undisturbed` sender.
- In bt a failed open leaves the chip's power on, until the next enable and
  disable, and initialises the library a second time at the next enable
  (`FindInterface` in any state; `PowerAccounted` says what remains true).
- In bt a receive thread that stops by itself while another call holds the lock
  stays on record after its end, and a reset that fails leaves the run flag up:
  the exceptions `Abandoned` and `StillEnabling` of `SettledStatus`. vfs has
  neither (`NoAbandonedThread`).
- `pthread_create` that fails leaves the radio reported as enabled without a
  thread (`NoSpawn`; part of `Stranded`).
- BlueZ: with status calls, a thread that asked the library before the radio was
  enabled may store its stale "disabled" just before a failed disable reads the
  status, which then reports success. `DisableSuccess` is therefore checked, and
  proved, without them.
- One byte announces message and header together: messages of more than
  `LargestTx` bytes (253 or 254, by build) are cut short or announced with a wrong
  length. The smallest event `validate_hci_event_packet` accepts has an empty
  payload; the comment at its length check speaks of the ANT size and id bytes
  as well.

**Bounds and why they suffice.** Two callers are the least that contend for a
lock and, while one holds it, let the other arrive at every point. Two
identities of receive threads suffice for the radio models because a thread that
restarts the radio ends without touching shared state again; `OneServingThread`
would be violated with two. Two channels distinguish "all", "some" and "no"
descriptors. Four messages of one sender let the flag go through every
combination twice; of two senders one message each already makes both wait on
the same flag (`MaxSends` bounds their sum, `TotalSent`).
`BufferSize` 8 and `MaxByte` 7 keep the code's relation (the buffer takes the
largest packet and not two of them), and the packets contain bytes that look like
sizes, flow identifiers and keepalives when read from the wrong offset. Three
packets let a read hold the end of one, a whole one and the start of a third.
In `jni` the lengths are those next to every place where a byte runs out, and
`MaxDepth` 5 lets a callback on the receive thread call native methods that call
back.
`MaxRetries` is 10 in the code and 2 or 3 here: the counter is compared with it
and nothing else. The proofs (section 4) lift these bounds for the invariants.

**Deadlock** is checked in the BlueZ and JNI runs. In the character-device runs it is
off: the join cycle is a deadlock and has its own run, and a run that has sent
its last message has nothing left to do.

**Fairness.** Every thread is scheduled (weak fairness of its steps). A thread
waiting for a mutex that is freed over and over gets it (strong fairness of the
steps that acquire one); Linux mutexes do not promise this to a single waiter,
but with it the properties speak of deadlock and lost wakeups rather than of
starvation by an application that never stops calling. The deadline of
`pthread_cond_timedwait` is absolute, so that spurious wakeups cannot put it off
(strong fairness of `TimeOut`). `poll()` returns, by its timeout if not by an
event; `TimePasses` because time does. The application need not call anything,
the chip need not fail, and it need not answer: only where `prompt` says so
does it.

## 4. What is proved

TLAPS proves the following for every number of callers, threads, channels and
messages and every set of faults, not only for the instances above. The
assumptions are the named ones on the constants in each module, which TLC
evaluates in the runs.

**ChardevRadioProofs.** `Invariant` proves `IInv` inductive. By itself, "the
channels are open while a thread serves" is not: it needs that exactly the owner
of the lock is inside the sections the lock protects (`OwnerInv`), that a serving
thread is the one on record (`HandleInv`), that it is started with all channels
open (`SpawnInv`) and that they are closed only after the join, or by the
receive thread itself when it has taken itself off the record (`CloseInv`,
`NoSelfJoin`), and that a recorded thread's channels are open unless they are
being closed (`RecordInv`). From it follow `TypeCorrect`, `ChannelsStayOpen`,
`OneThreadServes`, `NeverUnknown`, `KeepaliveIsFresh` and, as an action property,
`DisableIsComplete`. For vfs with a working eventfd, `StopInvariant` adds that a
thread stops only for somebody who joins it (`ToldInv`) and starts with the flag
up and no signal pending (`FreshStartInv`); it gives `NobodyAbandoned`,
`ShutdownIsSignalled` (a signal finds only a thread that was told; one that was
told has it, or a disable stands between the two) and `BusyThreadWasTold`, the
assumption the code makes when it finds the lock busy. `WaitsAreAnswered` is the part of `LockReleased` that
needs no fairness, for both back-ends and all faults: a thread waiting for the
lock waits for one that does not, and a thread that joins waits for one whose run
flag is down and which, if it is in `poll()`, has its signal pending
(`JoinedInv`). Only `JoinCycle` is excepted.

**ChardevSessionProofs.** `SessionImplemented`: both back-ends implement
`RadioSession`. Most steps change nothing it sees (`SameView`); the others open
with no thread on record, or close when none serves, which `IInv` says.

**ChardevSettledProofs.** `SettledTruth` is `QuiescentAgreement` of vfs with a
working eventfd. What is true when all is quiet says nothing of a state in which
somebody is under way, so `SettledInv` follows the debts: where a thread can be
without having reported yet (`LastWordInv`), what an `ant_enable` about to report
success or failure has left (`OutcomeInv`), and where the run flag can be up
without a thread (`RunInv`). The radio of bt keeps its run flag after a failed
enable and lets a receive thread stop by itself, so the same question has another
answer there, `BtSettledInv`: where the flag is bound to be up or down while an
enable is under way (`FlagInv`), that a thread which has not been back to its loop
is stopped by a disable only (`PollInv`), and what the last report promises
(`BtLastWord`: if no thread is on record, either everything is closed and the
application knows, or the flag is up).

**BtTransportProofs.** `RadioImplemented`: every step of the bt back-end is a step
of the radio or leaves it alone. That needs an invariant of the bt back-end
(`BtInv`): the lock is owned exactly inside its sections (`OwnerInv`), by a thread
that knows what it took it for (`RoutineInv`); the descriptor is set or not where
`init_transport_bdroid` stands (`ChannelInv`); and the handle on record is the
thread's own until it takes it off itself (`RecordInv`). Two lemmas carry the
mapping, for the steps between which nobody is at one of the places where it is
not the identity (`Plain`) and for those of the thread that is (`Alone`). The
invariant of the radio is then not proved again but carried over
(`RadioInvariant`, an instance of the theorem's module), and `PowerOffComesLast`
follows: the power is turned off where the radio closes a channel, and it closes
none while a thread serves. `SettledIsTold`, which is `SettledStatus`, follows from
`BtSettledInv` in the same way. `PowerIsAccounted` is inductive with `BtInv` and
what `init_transport_bdroid` has got when it takes its next step (`PowerInv`).

**FlowControlProofs.** `NoWakeupLost` for every sender that is alone, and, with a
prompt chip, `NeverTimesOut` and `SuccessIsGranted`. The GO of the one message
under way is in exactly one place (`Awaited`) while the flag says STOP; once it is
nowhere, the flag says GO and nothing is under way that could change it
(`Quiet`).

**ChannelReaderProofs.** `ReaderInvariant`: the loop stays inside the bytes read
and starts at a whole packet, what is kept is not a whole packet, and there is
always room for another read, for any packets, cut and torn in any way. It needs
only that the buffer is larger than the largest size byte. `ReaderTypes`,
`AlwaysRoom` and `NoneKeptWhole` are its parts. `ReaderImplements` is the safety
part of `Implements`: initial states are initial states of `PacketPipe`, and
`ChipSends`, `HandlePacket` and `RadioResets` are its steps, the others none. The
refinement mapping is the identity, so the work is in the invariant `StreamInv`:
as long as nothing is torn, the bytes not yet handled, in the buffer behind the
offset and in the driver, are the packets under way, one after the other
(`InOrder`, for which `CutAt` names where each ends). The packet handled next is
then the first of them, and `RouteOf` shows that the fixed offsets the code looks
at decide its destination as the abstract `Route` does, although they may lie
beyond the packet. That needs `KeepaliveAssumption`: a packet announcing the
length of a keepalive answer has as many bytes. The ANT serial protocol's length
byte (`ANT_MSG_SIZE_OFFSET`) counts the bytes that follow, and the chip does not
cut its messages; without this the comparison at
`src/src/vfs/ant_rx_chardev.c:444` would read the next packet's bytes.

**BluezHciProofs.** A thread asking for the status is where it goes on from there
(`Place`), and each mutex is owned exactly by the thread inside its sections
(`OwnersInv`). From that follow `ReaderIsOnRecord`, `DisableJoinsReader` and
`PowerIsKept`. `DisableTellsTheTruth`, without status calls, needs that what a
disable is about to learn is still so (`Truthful`), because it is alone with the
chip once it has joined the receive thread (`AloneAtRelease`). `WaitsAreAnswered`
is the part of `CallsReturn` that needs no fairness: the mutexes are taken in one
order, and whoever keeps both while it joins waits for a receive thread that needs
neither and, without a power library, finds the status no longer ENABLED
(`ToldInv`). With a library it asks the chip, which `Starved` speaks of.

**JAntNativeProofs.** `ThreadsAttached` and `ExceptionsCleared`, to any depth of
nesting. Calls follow each other in one of four ways (`Follows`), so that the
callback a receive thread's loop has called is always the second frame of its
stack, the only one that has attached the thread (`Attaching`), and the frame
below a Java method that returns or throws is a callback that clears what it
threw (`ReturnsToCaller`). `MessagesSentWhole` and `MessagesDeliveredWhole` are
about bytes: what is on the wire is `Written` of some length Java asked for, and
what Java got is of the length sent (`MessagesInv`). `FrameRead` says that the chip
finds in each of the four headers the length it was built with, and
`ForeignWL12XX` and `ForeignBCM433X` that an event with one byte changed or missing
is not accepted. The back-ends have no modular
arithmetic; the lemmas first bound every sum (`Bytes`, `LittleEndian`), after which
it is linear. `TypeCorrect` gathers the types of these invariants.

**Only model-checked.** Every invariant and every action property of the passing
runs is a theorem. Liveness is not: `LockReleased`, `ResettingEnds`, `CallsReturn`,
`SendsReturn`, `RxReturns` and the fairness in `Implements` need ENABLED and
leads-to under fairness, which are out of the prover's reach. The two theorems
`WaitsAreAnswered` are what can be said of them state by state.

## 5. Not modelled, and why

- `ant_init`, `ant_deinit` and the `nativeJAnt_Create` and `nativeJAnt_Destroy`
  that call them: called once, before and after everything else. So is
  `JNI_OnLoad`.
- Errors of `pthread_mutex_*` and of the eventfd's read and write: they cannot
  occur with the default mutexes and a valid descriptor.
- What callbacks do to the HAL: the radio models take them to return. A callback
  that calls the API blocks on the lock its thread holds, or joins its own thread.
  `JAntNative` nests such calls, but does not block them.
- Failures of `GetByteArrayElements` and `SetByteArrayRegion`: the code does not
  check the one, which fails for want of memory only; the other has a fresh array
  of the right size.
- The keepalive message itself: a command to `FlowControl`.
- Descriptor numbers: a descriptor closed and opened by somebody else between
  the check and the write of `ant_tx_message`.
- The reads of `ant_radio_enabled_status` one by one.
- Which message a command complete event answers, in BlueZ.
- The variants no driver header of the repository turns on: opcode, channel, sync
  and checksum bytes, `ANT_FLOW_RESEND`; in bt, `ANT_IOCTL_RESET`.
- The test application `src/app/ant_app.c`, which reads keys and prints what its
  callbacks are given; logging, constants and types.

## 6. Plan

Done: `ChardevRadio`, `RadioSession`, `BtTransport`, `FlowControl`,
`ChannelReader` with `PacketPipe`, `BluezHci`, `HciFraming` and `JAntNative`, with
their proofs. To do, in this order:

1. `BluezHci`: which message a command complete event answers (late events), and
   the agreement of the last report with the status.
2. `StatusReader`: `ant_radio_enabled_status` read by read, composed with
   `ChardevRadio`; which statuses a caller can be given that no snapshot has.
3. Callbacks that call the API, composed with `ChardevRadio` and `FlowControl`.
4. Proofs of what 1 to 3 add.
