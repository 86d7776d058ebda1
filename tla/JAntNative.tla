---------------------------- MODULE JAntNative ------------------------------
(***************************************************************************)
(* The JNI layer between Java and the ANT HAL (JAntNative.cpp): native     *)
(* methods called by Java threads, and the two callbacks through which the *)
(* HAL calls Java, on the receive thread, which the Java VM does not know, *)
(* or on the Java thread that called the HAL.  A callback attaches its     *)
(* thread to the VM, makes the call, clears what the call threw, and       *)
(* detaches the thread if it was not attached before; Java may call native *)
(* methods from inside a callback.  Messages pass through HciFraming in    *)
(* both directions.                                                        *)
(*                                                                         *)
(* External are the VM and the Java code, which may throw, and the HAL,    *)
(* which calls the callbacks from where the back-ends do: it reports       *)
(* states from any thread inside it, and messages from its receive thread. *)
(*                                                                         *)
(* A definition Name_slip is Name with a mistake a maintainer could make;  *)
(* it is no part of Spec.                                                  *)
(***************************************************************************)
EXTENDS HciFraming, SequencesExt

CONSTANTS
  JavaThreads, \* threads of the application
  RxThreads,   \* receive threads of the HAL
  Lengths,     \* lengths of byte[] arguments and of the chip's messages
  MaxDepth     \* bound: calls under way in one thread

ASSUME ThreadsAssumption == JavaThreads \cap RxThreads = {}
ASSUME BoundsAssumption == Lengths \subseteq Nat /\ MaxDepth \in Nat

VARIABLES
  build,    \* the back-end of this behaviour
  attached, \* external: which threads the VM knows
  pending,  \* external: which threads have a Java exception pending
  stack,    \* for each thread the functions it is in, the innermost last
  wire,     \* the last message written: what Java asked for, what was written
  received  \* the last packet read: what the chip sent, what the HAL took it for

vars == <<build, attached, pending, stack, wire, received>>

Threads == JavaThreads \cup RxThreads

\* detach is iShouldDetach.
Frames ==
  [fn : {"java", "native", "loop"}]
    \cup [fn : {"nativeJAnt_RxCallback"}, at : {"attach", "new", "call", "called", "cleanup"}]
    \cup [fn : {"nativeJAnt_StateCallback"}, at : {"attach", "call", "called"}, detach : BOOLEAN]

TypeOK ==
  /\ build \in Builds
  /\ attached \in [Threads -> BOOLEAN]
  /\ pending \in [Threads -> BOOLEAN]
  /\ stack \in [Threads -> Seq(Frames)]
  /\ wire = <<>> \/ wire.frame.header \in Seq(0 .. 255)
  /\ received = <<>> \/ received.len \in -1 .. 255

java == [fn |-> "java"]
native == [fn |-> "native"]
loop == [fn |-> "loop"]

\* Java threads exist before JNI_OnLoad, receive threads after an enable.
Init ==
  /\ build \in Builds
  /\ attached = [t \in Threads |-> t \in JavaThreads]
  /\ pending = [t \in Threads |-> FALSE]
  /\ stack = [t \in Threads |-> IF t \in JavaThreads THEN <<java>> ELSE <<>>]
  /\ wire = <<>>
  /\ received = <<>>

In(t, fn) == stack[t] # <<>> /\ Last(stack[t]).fn = fn
InAt(t, fn, at) == In(t, fn) /\ Last(stack[t]).at = at
Enter(t, frame) == stack' = [stack EXCEPT ![t] = Append(@, frame)]
Leave(t) == stack' = [stack EXCEPT ![t] = Front(@)]
GoOn(t, frame) == stack' = [stack EXCEPT ![t] = Append(Front(@), frame)]
CallFrom(t, frame) == stack' = [stack EXCEPT ![t] = Front(@) \o <<frame, java>>]

-----------------------------------------------------------------------------
(* Java.                                                                   *)

\* Enable, Disable, HardReset, GetRadioEnabledStatus: one call of the HAL each.
CallNative(t) ==
  /\ In(t, "java") /\ ~pending[t] /\ Len(stack[t]) < MaxDepth
  /\ Enter(t, native)
  /\ UNCHANGED <<build, attached, pending, wire, received>>

\* Passes the jint on.
nativeJAnt_TxMessage_uncut(t) ==
  /\ In(t, "java") /\ ~pending[t] /\ Len(stack[t]) < MaxDepth
  /\ \E msgLength \in Lengths, type \in PacketTypes :
        wire' = [asked |-> msgLength, frame |-> Written(build, type, msgLength)]
  /\ Enter(t, native)
  /\ UNCHANGED <<build, attached, pending, received>>

\* jint becomes ANT_U8.  What the message is makes its type.
nativeJAnt_TxMessage(t) ==
  /\ In(t, "java") /\ ~pending[t] /\ Len(stack[t]) < MaxDepth
  /\ \E msgLength \in Lengths, type \in PacketTypes :
        wire' = [asked |-> msgLength, frame |-> Written(build, type, ANT_U8(msgLength))]
  /\ Enter(t, native)
  /\ UNCHANGED <<build, attached, pending, received>>

\* A null argument.
TxMessageThrows(t) ==
  /\ In(t, "java") /\ ~pending[t] /\ Len(stack[t]) < MaxDepth
  /\ pending' = [pending EXCEPT ![t] = TRUE]
  /\ UNCHANGED <<build, attached, stack, wire, received>>

NativeReturns(t) ==
  /\ In(t, "native")
  /\ Leave(t)
  /\ UNCHANGED <<build, attached, pending, wire, received>>

JavaCatches(t) ==
  /\ In(t, "java") /\ pending[t]
  /\ pending' = [pending EXCEPT ![t] = FALSE]
  /\ UNCHANGED <<build, attached, stack, wire, received>>

\* nativeCb_AntRxMessage or nativeCb_AntStateChange returns or throws.
JavaReturns(t) ==
  /\ In(t, "java") /\ Len(stack[t]) > 1
  /\ \E throws \in BOOLEAN : pending' = [pending EXCEPT ![t] = @ \/ throws]
  /\ Leave(t)
  /\ UNCHANGED <<build, attached, wire, received>>

-----------------------------------------------------------------------------
(* The HAL.                                                                *)

RxThreadStarts(r) ==
  /\ stack[r] = <<>>
  /\ Enter(r, loop)
  /\ UNCHANGED <<build, attached, pending, wire, received>>

RxThreadEnds(r) ==
  /\ stack[r] = <<loop>>
  /\ Leave(r)
  /\ UNCHANGED <<build, attached, pending, wire, received>>

\* g_fnStateCallback, pfStateCallback.
StateChanges(t) ==
  /\ In(t, "native") \/ In(t, "loop")
  /\ Enter(t, [fn |-> "nativeJAnt_StateCallback", at |-> "attach", detach |-> FALSE])
  /\ UNCHANGED <<build, attached, pending, wire, received>>

\* What a read of the HCI socket may give instead of the chip's event: one byte
\* of the header wrong (not the status of BCM433X, which nobody looks at),
\* too long, or cut short.
Foreign(p) ==
  LET looked == DOMAIN p.header \ IF build = "BCM433X" THEN {5} ELSE {}
  IN  {[p EXCEPT !.header[i] = ANT_U8(@ + 1)] : i \in looked}
        \cup {[p EXCEPT !.payload = @ + 1]}
        \cup {[header |-> SubSeq(p.header, 1, k), payload |-> 0] : k \in 0 .. Len(p.header) - 1}

\* The loop of the BlueZ receive thread reads an event.
ReadEvent(r) ==
  /\ build \notin Chardev
  /\ stack[r] = <<loop>>
  /\ \E n \in {l \in Lengths : l <= LargestRx(build)} :
        LET p == ChipEvent(build, n)
        IN  \/ received' = [sent |-> n, len |-> validate_hci_event_packet(build, p)]
            \/ \E f \in Foreign(p) :
                 received' = [sent |-> -1, len |-> validate_hci_event_packet(build, f)]
  /\ IF received'.len = -1 THEN UNCHANGED stack
     ELSE Enter(r, [fn |-> "nativeJAnt_RxCallback", at |-> "attach"])
  /\ UNCHANGED <<build, attached, pending, wire>>

\* readChannelMsg hands over a packet: see ChannelReader.
ReadPacket(r) ==
  /\ build \in Chardev
  /\ stack[r] = <<loop>>
  /\ \E n \in {l \in Lengths : l <= LargestRx(build)} : received' = [sent |-> n, len |-> n]
  /\ Enter(r, [fn |-> "nativeJAnt_RxCallback", at |-> "attach"])
  /\ UNCHANGED <<build, attached, pending, wire>>

-----------------------------------------------------------------------------
(* nativeJAnt_StateCallback.                                               *)

\* Believes that no thread that calls it is attached.
StateAttach_always(t) ==
  LET f == Last(stack[t])
  IN  /\ InAt(t, "nativeJAnt_StateCallback", "attach")
      /\ attached' = [attached EXCEPT ![t] = TRUE]
      /\ GoOn(t, [f EXCEPT !.at = "call", !.detach = TRUE])
      /\ UNCHANGED <<build, pending, wire, received>>

\* GetEnv tells whether the thread is attached; attaching it may fail.
StateAttach(t) ==
  LET f == Last(stack[t])
  IN  /\ InAt(t, "nativeJAnt_StateCallback", "attach")
      /\ \/ /\ attached[t]
            /\ GoOn(t, [f EXCEPT !.at = "call"])
            /\ UNCHANGED attached
         \/ /\ ~attached[t]
            /\ attached' = [attached EXCEPT ![t] = TRUE]
            /\ GoOn(t, [f EXCEPT !.at = "call", !.detach = TRUE])
         \/ ~attached[t] /\ Leave(t) /\ UNCHANGED attached
      /\ UNCHANGED <<build, pending, wire, received>>

StateCallsJava(t) ==
  /\ InAt(t, "nativeJAnt_StateCallback", "call")
  /\ CallFrom(t, [Last(stack[t]) EXCEPT !.at = "called"])
  /\ UNCHANGED <<build, attached, pending, wire, received>>

\* Describes the exception without clearing it.
StateReturns_keepsException(t) ==
  /\ InAt(t, "nativeJAnt_StateCallback", "called")
  /\ attached' = [attached EXCEPT ![t] = @ /\ ~Last(stack[t]).detach]
  /\ Leave(t)
  /\ UNCHANGED <<build, pending, wire, received>>

StateReturns(t) ==
  /\ InAt(t, "nativeJAnt_StateCallback", "called")
  /\ pending' = [pending EXCEPT ![t] = FALSE]
  /\ attached' = [attached EXCEPT ![t] = @ /\ ~Last(stack[t]).detach]
  /\ Leave(t)
  /\ UNCHANGED <<build, wire, received>>

-----------------------------------------------------------------------------
(* nativeJAnt_RxCallback.                                                  *)

AtRx(at) == [fn |-> "nativeJAnt_RxCallback", at |-> at]

RxAttach(t) ==
  /\ InAt(t, "nativeJAnt_RxCallback", "attach")
  /\ \/ attached' = [attached EXCEPT ![t] = TRUE] /\ GoOn(t, AtRx("new"))
     \/ ~attached[t] /\ Leave(t) /\ UNCHANGED attached
  /\ UNCHANGED <<build, pending, wire, received>>

\* NewByteArray throws if there is no memory.  SetByteArrayRegion has no reason
\* to.
RxNewByteArray(t) ==
  /\ InAt(t, "nativeJAnt_RxCallback", "new")
  /\ \/ GoOn(t, AtRx("call")) /\ UNCHANGED pending
     \/ GoOn(t, AtRx("cleanup")) /\ pending' = [pending EXCEPT ![t] = TRUE]
  /\ UNCHANGED <<build, attached, wire, received>>

RxCallsJava(t) ==
  /\ InAt(t, "nativeJAnt_RxCallback", "call")
  /\ CallFrom(t, AtRx("called"))
  /\ UNCHANGED <<build, attached, pending, wire, received>>

RxReturns(t) ==
  /\ InAt(t, "nativeJAnt_RxCallback", "called")
  /\ \/ /\ ~pending[t]
        /\ attached' = [attached EXCEPT ![t] = FALSE]
        /\ Leave(t)
     \/ /\ pending[t]
        /\ GoOn(t, AtRx("cleanup"))
        /\ UNCHANGED attached
  /\ UNCHANGED <<build, pending, wire, received>>

RxCleanUp(t) ==
  /\ InAt(t, "nativeJAnt_RxCallback", "cleanup")
  /\ pending' = [pending EXCEPT ![t] = FALSE]
  /\ attached' = [attached EXCEPT ![t] = FALSE]
  /\ Leave(t)
  /\ UNCHANGED <<build, wire, received>>

-----------------------------------------------------------------------------
Next ==
  \/ \E t \in Threads :
        \/ CallNative(t) \/ nativeJAnt_TxMessage(t) \/ TxMessageThrows(t)
        \/ NativeReturns(t) \/ JavaCatches(t) \/ JavaReturns(t)
        \/ StateChanges(t) \/ StateAttach(t) \/ StateCallsJava(t) \/ StateReturns(t)
        \/ RxAttach(t) \/ RxNewByteArray(t) \/ RxCallsJava(t) \/ RxReturns(t) \/ RxCleanUp(t)
  \/ \E r \in RxThreads :
        RxThreadStarts(r) \/ RxThreadEnds(r) \/ ReadEvent(r) \/ ReadPacket(r)

Spec == Init /\ [][Next]_vars
-----------------------------------------------------------------------------
(* Properties.                                                             *)

\* No callback detaches a thread on which Java code is under way, be it its own
\* caller, and none leaves a receive thread attached, which may end at any time
\* between two packets (a VM aborts on either).
AttachedAsNeeded ==
  /\ \A t \in Threads : java \in ToSet(stack[t]) => attached[t]
  /\ \A r \in RxThreads : stack[r] \in {<<>>, <<loop>>} => ~attached[r]

\* What Java throws in a callback reaches neither the HAL nor the next call into
\* the VM, which must not be made with an exception pending.
ExceptionsHandled ==
  \A t \in Threads :
    pending[t] => \/ In(t, "java")
                  \/ \E fn \in {"nativeJAnt_RxCallback", "nativeJAnt_StateCallback"} :
                       InAt(t, fn, "called") \/ InAt(t, fn, "cleanup")

\* A message that fits reaches the chip as Java gave it: header, lengths and the
\* number of bytes written agree, through every narrowing on the way.
SentWhole ==
  wire # <<>> /\ wire.asked <= LargestTx(build) => ChipReads(build, wire.frame) = wire.asked

\* What Java receives is as long as what the chip sent, and nothing that is not
\* an ANT event of the chip reaches it.
DeliveredWhole == received # <<>> => received.len = received.sent
=============================================================================
