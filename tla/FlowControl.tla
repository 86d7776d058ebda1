---------------------------- MODULE FlowControl -----------------------------
(***************************************************************************)
(* Flow control of the character-device back-ends.  A data message is      *)
(* written to the chip by ant_tx_message_flowcontrol_wait, which then waits*)
(* on a condition variable until the receive thread has seen the chip's    *)
(* ANT_FLOW_GO (setFlowControl), for at most 10 seconds.  There is one     *)
(* flag, one lock and one condition variable for all senders.  Commands,   *)
(* the keepalive among them, are written at once and wait for nothing.     *)
(*                                                                         *)
(* The chip is external: it answers each message in turn, with GO or with  *)
(* STOP and then GO, after any delay or never.  The radio may be disabled  *)
(* and enabled again while senders are under way (ChardevRadio says when). *)
(*                                                                         *)
(* A definition Name_slip is Name with a mistake a maintainer could make;  *)
(* it is no part of Spec.                                                  *)
(***************************************************************************)
EXTENDS Naturals, Sequences, Functions

CONSTANTS
  Senders,      \* threads that may call ant_tx_message
  NoThread,     \* owner of a free lock
  MaxSends      \* bound: messages sent, twice as many to a prompt chip

ASSUME SendersAssumption == NoThread \notin Senders
ASSUME BoundsAssumption == MaxSends \in Nat

VARIABLES
  users,    \* the senders of this behaviour
  prompt,   \* does the chip answer within ANT_FLOW_GO_WAIT_TIMEOUT_SEC, always?
            \* (asked only of a chip with one user)
  lock,     \* owner of stFlowControlLock
  response, \* ucFlowControlResp of the channel flow messages arrive on
  open,     \* is the radio enabled, with valid descriptors?
  chip,     \* messages written to the chip and not answered yet
  wire,     \* flow-control messages on their way to the receive thread
  rx,       \* where the receive thread is in setFlowControl
  pc,       \* where each sender is
  sent,     \* messages sent so far, by each sender
  result    \* what ant_tx_message returned last, to each sender

transport == <<chip, wire, open>>
given == <<users, prompt>>
vars == <<given, lock, response, transport, rx, pc, sent, result>>

Messages == Senders \X Nat
Current(s) == <<s, sent[s]>>
FlowMessages == [resp : {"GO", "STOP"}, for : Messages]

TypeOK ==
  /\ users \subseteq Senders
  /\ prompt \in BOOLEAN
  /\ lock \in Senders \cup {NoThread}
  /\ response \in {"GO", "STOP"}
  /\ open \in BOOLEAN
  /\ chip \in Seq(Messages)
  /\ wire \in Seq(FlowMessages)
  /\ rx \in [at : {"idle", "lock", "signal"}, msg : FlowMessages] \cup {[at |-> "idle"]}
  /\ pc \in [Senders -> {"idle", "write", "lock", "transmit", "check", "wait", "relock", "timedOut"}]
  /\ sent \in [Senders -> Nat]
  /\ result \in [Senders -> {"none", "SUCCESS", "FAILED", "HARDWARE_ERR",
                             "FAILED_BT_NOT_INITIALIZED"}]

Alone == \E s \in Senders : users = {s}

Init ==
  /\ users \in SUBSET Senders \ {{}}
  /\ prompt \in IF Alone THEN BOOLEAN ELSE {FALSE}
  /\ lock = NoThread
  /\ response = "GO"
  /\ open = TRUE
  /\ chip = <<>>
  /\ wire = <<>>
  /\ rx = [at |-> "idle"]
  /\ pc = [s \in Senders |-> "idle"]
  /\ sent = [s \in Senders |-> 0]
  /\ result = [s \in Senders |-> "none"]

Goto(s, label)   == pc' = [pc EXCEPT ![s] = label]
Answer(s, value) == Goto(s, "idle") /\ result' = [result EXCEPT ![s] = value]

-----------------------------------------------------------------------------
(* ant_tx_message and ant_tx_message_flowcontrol_wait.                     *)

TotalSent == FoldFunction(LAMBDA n, total : n + total, 0, sent)

\* The status is checked without a lock; the message's identifier tells data
\* from commands.
Send(s) ==
  /\ s \in users /\ pc[s] = "idle"
  /\ TotalSent < IF prompt THEN 2 * MaxSends ELSE MaxSends
  /\ sent' = [sent EXCEPT ![s] = @ + 1]
  /\ \/ open /\ (Goto(s, "lock") \/ Goto(s, "write")) /\ UNCHANGED result
     \/ ~open /\ Answer(s, "FAILED_BT_NOT_INITIALIZED")
  /\ UNCHANGED <<given, lock, response, transport, rx>>

\* A command: ant_tx_message_flowcontrol_none only writes, all of it or not.
Write(s) ==
  /\ pc[s] = "write"
  /\ Answer(s, "FAILED") \/ (open /\ Answer(s, "SUCCESS"))
  /\ UNCHANGED <<given, lock, response, transport, rx, sent>>

Lock(s) ==
  /\ pc[s] = "lock" /\ lock = NoThread
  /\ lock' = s
  /\ Goto(s, "transmit")
  /\ UNCHANGED <<given, response, transport, rx, sent, result>>

\* Leaves the flag as the last message left it.
Transmit_noStop(s) ==
  /\ pc[s] = "transmit"
  /\ \/ open /\ chip' = Append(chip, Current(s)) /\ Goto(s, "check")
        /\ UNCHANGED <<lock, result>>
     \/ lock' = NoThread /\ Answer(s, "FAILED") /\ UNCHANGED chip
  /\ UNCHANGED <<given, response, wire, open, rx, sent>>

\* STOP, then the write, which may fail or fall short, and does if the
\* descriptor is closed by now; the flag is left as it is.
Transmit(s) ==
  /\ pc[s] = "transmit"
  /\ response' = "STOP"
  /\ \/ open /\ chip' = Append(chip, Current(s)) /\ Goto(s, "check")
        /\ UNCHANGED <<lock, result>>
     \/ lock' = NoThread /\ Answer(s, "FAILED") /\ UNCHANGED chip
  /\ UNCHANGED <<given, wire, open, rx, sent>>

\* The loop condition, evaluated by the owner of the lock; to wait is to
\* release it.
Check(s) ==
  /\ pc[s] = "check"
  /\ lock' = NoThread
  /\ IF response = "GO" THEN Answer(s, "SUCCESS")
                        ELSE Goto(s, "wait") /\ UNCHANGED result
  /\ UNCHANGED <<given, response, transport, rx, sent>>

\* pthread_cond_timedwait returns for no reason, which POSIX allows ...
SpuriousWakeup(s) ==
  /\ pc[s] = "wait"
  /\ Goto(s, "relock")
  /\ UNCHANGED <<given, lock, response, transport, rx, sent, result>>

\* ... having been signalled or not, it needs the lock to return.
Relock(s) ==
  /\ pc[s] = "relock" /\ lock = NoThread
  /\ lock' = s
  /\ Goto(s, "check")
  /\ UNCHANGED <<given, response, transport, rx, sent, result>>

\* The deadline passes: with a prompt chip only after its last answer.
TimeOut(s) ==
  /\ pc[s] = "wait"
  /\ prompt => chip = <<>> /\ wire = <<>> /\ rx.at = "idle"
  /\ Goto(s, "timedOut")
  /\ UNCHANGED <<given, lock, response, transport, rx, sent, result>>

\* Leaves by the error path without unlocking.
GiveUp_keepsLock(s) ==
  /\ pc[s] = "timedOut" /\ lock = NoThread
  /\ lock' = s
  /\ Answer(s, "HARDWARE_ERR")
  /\ UNCHANGED <<given, response, transport, rx, sent>>

\* ETIMEDOUT: the flag is not looked at again.
GiveUp(s) ==
  /\ pc[s] = "timedOut" /\ lock = NoThread
  /\ Answer(s, "HARDWARE_ERR")
  /\ UNCHANGED <<given, lock, response, transport, rx, sent>>

-----------------------------------------------------------------------------
(* The receive thread in setFlowControl.                                   *)

RxReceive ==
  /\ rx.at = "idle" /\ wire # <<>>
  /\ rx' = [at |-> "lock", msg |-> Head(wire)]
  /\ wire' = Tail(wire)
  /\ UNCHANGED <<given, lock, response, chip, open, pc, sent, result>>

\* Sets the flag and does not signal.
RxSet_noSignal ==
  /\ rx.at = "lock" /\ lock = NoThread
  /\ response' = rx.msg.resp
  /\ rx' = [at |-> "idle"]
  /\ UNCHANGED <<given, lock, transport, pc, sent, result>>

\* Takes the byte before the flow setting, the message's identifier.
RxSet_offByOne ==
  /\ rx.at = "lock" /\ lock = NoThread
  /\ response' = "MESG_FLOW_CONTROL"
  /\ rx' = [rx EXCEPT !.at = "signal"]
  /\ UNCHANGED <<given, lock, transport, pc, sent, result>>

\* The flag changes under the lock.
RxSet ==
  /\ rx.at = "lock" /\ lock = NoThread
  /\ response' = rx.msg.resp
  /\ rx' = [rx EXCEPT !.at = "signal"]
  /\ UNCHANGED <<given, lock, transport, pc, sent, result>>

\* pthread_cond_signal, after the unlock: wakes one waiter, if there is one.
RxSignal ==
  /\ rx.at = "signal"
  /\ rx' = [at |-> "idle"]
  /\ \/ \E s \in Senders : pc[s] = "wait" /\ Goto(s, "relock")
     \/ (\A s \in Senders : pc[s] # "wait") /\ UNCHANGED pc
  /\ UNCHANGED <<given, lock, response, transport, sent, result>>

-----------------------------------------------------------------------------
(* The chip, and the radio around it.                                      *)

ChipAnswers ==
  /\ chip # <<>>
  /\ chip' = Tail(chip)
  /\ LET go   == [resp |-> "GO", for |-> Head(chip)]
         stop == [resp |-> "STOP", for |-> Head(chip)]
     IN  wire' \in {Append(wire, go), wire \o <<stop, go>>}
  /\ UNCHANGED <<given, lock, response, open, rx, pc, sent, result>>

\* ant_disable joins the receive thread before it closes the channels; what
\* the driver held is lost, which to a sender is a chip that never answers.
RadioCloses ==
  /\ ~prompt /\ open /\ rx.at = "idle"
  /\ open' = FALSE
  /\ chip' = <<>>
  /\ wire' = <<>>
  /\ UNCHANGED <<given, lock, response, rx, pc, sent, result>>

RadioOpens ==
  /\ ~open
  /\ open' = TRUE
  /\ UNCHANGED <<given, lock, response, chip, wire, rx, pc, sent, result>>

SenderStep(s) == Write(s) \/ Transmit(s) \/ Check(s)

RxStep == RxReceive \/ RxSignal

Next ==
  \/ \E s \in Senders :
        \/ Send(s) \/ SenderStep(s) \/ SpuriousWakeup(s)
        \/ Lock(s) \/ Relock(s) \/ TimeOut(s) \/ GiveUp(s)
  \/ RxStep \/ RxSet
  \/ ChipAnswers \/ RadioCloses \/ RadioOpens

\* Threads run and obtain mutexes eventually.  The deadline is absolute, so
\* that spurious wakeups cannot put it off.  A prompt chip answers.
Fairness ==
  /\ \A s \in Senders :
        /\ WF_vars(SenderStep(s))
        /\ SF_vars(TimeOut(s))
        /\ SF_vars(Lock(s)) /\ SF_vars(Relock(s)) /\ SF_vars(GiveUp(s))
  /\ WF_vars(RxStep) /\ SF_vars(RxSet)
  /\ WF_vars(prompt /\ ChipAnswers)

Spec == Init /\ [][Next]_vars /\ Fairness
-----------------------------------------------------------------------------
(* Properties.                                                             *)

\* What a sender may rely on that has the radio for itself, and a chip that
\* answers in time.
Undisturbed == prompt /\ Alone

\* The chip has the message, or its GO has not reached the flag yet.
Pending(m) ==
  LET go == [resp |-> "GO", for |-> m]
  IN  \/ m \in Range(chip)
      \/ go \in Range(wire)
      \/ rx.at = "lock" /\ rx.msg = go

GrantedAtSuccess ==
  \A s \in Senders : pc[s] = "check" /\ result'[s] = "SUCCESS" /\ pc'[s] = "idle"
                       => ~Pending(Current(s))

\* For a data message ant_tx_message reports success only when the chip has let
\* it pass, as long as nobody else sends and no answer is late.
SuccessMeansGranted == [][Undisturbed => GrantedAtSuccess]_vars

\* A sender that is alone does not sleep on a flag that already says GO, unless
\* its signal is about to be sent.
NoLostWakeup ==
  Alone /\ response = "GO" => rx.at = "signal" \/ \A s \in Senders : pc[s] # "wait"

\* HARDWARE_ERR is never the fault of the host: a sender that is alone does not
\* time out on a chip that answers in time.
NoFalseTimeout == Undisturbed => \A s \in Senders : pc[s] # "timedOut"

\* Whatever the chip does, ant_tx_message returns.
SendsReturn == \A s \in Senders : pc[s] # "idle" ~> pc[s] = "idle"

\* Senders never hold up the receive thread for ever: it serves the shutdown
\* signal and the keepalive, too.
RxReturns == rx.at # "idle" ~> rx.at = "idle"
=============================================================================
