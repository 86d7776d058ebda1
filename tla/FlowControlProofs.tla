-------------------------- MODULE FlowControlProofs --------------------------
(***************************************************************************)
(* Proofs about FlowControl, for any number of senders and of messages.    *)
(*                                                                         *)
(* The argument for a sender that is alone with a prompt chip.  There is at*)
(* most one data message between its write and its success, and its GO is  *)
(* in exactly one place on the way back: in the chip, on the wire behind a *)
(* STOP or not, or in the hands of the receive thread (Awaited).  As long  *)
(* as it is, the flag says STOP; once it is not, the flag says GO and      *)
(* nothing is under way that could change it (Quiet), or the write has     *)
(* failed and nobody waits.  So success means that the GO has arrived, and *)
(* a sender that still waits when nothing is under way would have missed   *)
(* its signal, which NoLostWakeup excludes.                                *)
(***************************************************************************)
EXTENDS FlowControl, TLAPS

\* What the sequences of messages are built with.
LEMMA SequenceTypes ==
  ASSUME NEW S
  PROVE  /\ <<>> \in Seq(S)
         /\ \A q \in Seq(S) : q # <<>> => Head(q) \in S /\ Tail(q) \in Seq(S)
         /\ \A q \in Seq(S) : \A x \in S : Append(q, x) \in Seq(S)
         /\ \A q \in Seq(S) : \A x, y \in S : q \o <<x, y>> \in Seq(S)
<1>1. <<>> \in Seq(S)
  OBVIOUS
<1>2. \A q \in Seq(S) : q # <<>> => Head(q) \in S /\ Tail(q) \in Seq(S)
  OBVIOUS
<1>3. \A q \in Seq(S) : \A x \in S : Append(q, x) \in Seq(S)
  OBVIOUS
<1>4. ASSUME NEW q \in Seq(S), NEW x \in S, NEW y \in S PROVE q \o <<x, y>> \in Seq(S)
  <2>1. <<x, y>> \in Seq(S)
    OBVIOUS
  <2> QED
    BY <2>1
<1> QED
  BY <1>1, <1>2, <1>3, <1>4

\* Messages and flow messages under way.
SequencesOK == chip \in Seq(Messages) /\ wire \in Seq(FlowMessages)

LEMMA SequenceStep ==
  ASSUME SequencesOK, sent \in [Senders -> Nat], Next PROVE SequencesOK'
<1>1. ASSUME NEW s \in Senders, Transmit(s) PROVE SequencesOK'
  <2>1. Current(s) \in Messages
    BY DEF Current, Messages
  <2>2. chip' \in {chip, Append(chip, Current(s))} /\ wire' = wire
    BY <1>1 DEF Transmit
  <2>3. Append(chip, Current(s)) \in Seq(Messages)
    BY <2>1, SequenceTypes DEF SequencesOK
  <2> QED
    BY <2>2, <2>3 DEF SequencesOK
<1>2. CASE ChipAnswers
  <2> DEFINE go   == [resp |-> "GO", for |-> Head(chip)]
             stop == [resp |-> "STOP", for |-> Head(chip)]
  <2>1. chip # <<>> /\ chip' = Tail(chip) /\ wire' \in {Append(wire, go), wire \o <<stop, go>>}
    BY <1>2 DEF ChipAnswers
  <2>2. Head(chip) \in Messages /\ chip' \in Seq(Messages)
    BY <2>1, SequenceTypes DEF SequencesOK
  <2>3. go \in FlowMessages /\ stop \in FlowMessages
    BY <2>2 DEF FlowMessages
  <2> HIDE DEF go, stop
  <2>4. Append(wire, go) \in Seq(FlowMessages)
    BY <2>3, SequenceTypes DEF SequencesOK
  <2>5. wire \o <<stop, go>> \in Seq(FlowMessages)
    BY <2>3, SequenceTypes DEF SequencesOK
  <2>6. wire' \in Seq(FlowMessages)
    BY <2>1, <2>4, <2>5
  <2> QED
    BY <2>2, <2>6 DEF SequencesOK
<1>3. CASE RxReceive
  BY <1>3, SequenceTypes DEF RxReceive, SequencesOK
<1>4. CASE RadioCloses
  BY <1>4, SequenceTypes DEF RadioCloses, SequencesOK
<1>5. CASE UNCHANGED <<chip, wire>>
  BY <1>5 DEF SequencesOK
<1>6. ASSUME NEW s \in Senders,
             \/ Send(s) \/ Write(s) \/ Check(s) \/ SpuriousWakeup(s)
             \/ Lock(s) \/ Relock(s) \/ TimeOut(s) \/ GiveUp(s)
      PROVE  UNCHANGED <<chip, wire>>
  BY <1>6 DEF Send, Write, Check, SpuriousWakeup, Lock, Relock, TimeOut, GiveUp, transport
<1>7. CASE RxSignal \/ RxSet \/ RadioOpens
  BY <1>7, <1>5 DEF RxSignal, RxSet, RadioOpens, transport
<1> QED
  BY <1>1, <1>2, <1>3, <1>4, <1>5, <1>6, <1>7 DEF Next, SenderStep, RxStep

\* The receive thread's state.
RxTypes == [at : {"idle", "lock", "signal"}, msg : FlowMessages] \cup {[at |-> "idle"]}

LEMMA RxStepType ==
  ASSUME SequencesOK, rx \in RxTypes, response \in {"GO", "STOP"}, Next
  PROVE  rx' \in RxTypes /\ response' \in {"GO", "STOP"}
<1>1. CASE RxReceive
  <2>1. Head(wire) \in FlowMessages
    BY <1>1, SequenceTypes DEF RxReceive, SequencesOK
  <2> QED
    BY <1>1, <2>1 DEF RxReceive, RxTypes
<1>2. CASE RxSet
  <2>1. rx \in [at : {"idle", "lock", "signal"}, msg : FlowMessages]
    BY <1>2 DEF RxSet, RxTypes
  <2>2. rx.msg \in FlowMessages
    BY <2>1
  <2>3. rx.msg.resp \in {"GO", "STOP"}
    BY <2>2 DEF FlowMessages
  <2> HIDE DEF RxTypes
  <2>4. rx' \in [at : {"idle", "lock", "signal"}, msg : FlowMessages]
    BY <1>2, <2>1 DEF RxSet
  <2> QED
    BY <1>2, <2>3, <2>4 DEF RxSet, RxTypes
<1>3. CASE RxSignal
  BY <1>3 DEF RxSignal, RxTypes
<1>4. ASSUME NEW s \in Senders,
             \/ Send(s) \/ SenderStep(s) \/ SpuriousWakeup(s)
             \/ Lock(s) \/ Relock(s) \/ TimeOut(s) \/ GiveUp(s)
      PROVE  rx' = rx /\ response' \in {response, "STOP"}
  BY <1>4 DEF Send, SenderStep, Write, Transmit, Check, SpuriousWakeup, Lock, Relock, TimeOut,
              GiveUp
<1>5. CASE ChipAnswers \/ RadioCloses \/ RadioOpens
  BY <1>5 DEF ChipAnswers, RadioCloses, RadioOpens
<1> QED
  BY <1>1, <1>2, <1>3, <1>4, <1>5 DEF Next, RxStep

\* The rest: the lock, the senders and their results.
SendersOK ==
  /\ users \subseteq Senders
  /\ prompt \in BOOLEAN
  /\ lock \in Senders \cup {NoThread}
  /\ open \in BOOLEAN
  /\ pc \in [Senders -> {"idle", "write", "lock", "transmit", "check", "wait", "relock", "timedOut"}]
  /\ sent \in [Senders -> Nat]
  /\ result \in [Senders -> {"none", "SUCCESS", "FAILED", "HARDWARE_ERR",
                             "FAILED_BT_NOT_INITIALIZED"}]

LEMMA SendersStep == ASSUME SendersOK, Next PROVE SendersOK'
<1> USE DEF SendersOK, Goto, Answer, given, transport
<1>1. ASSUME NEW s \in Senders, Send(s) PROVE SendersOK'
  BY <1>1 DEF Send
<1>2. ASSUME NEW s \in Senders, Write(s) PROVE SendersOK'
  BY <1>2 DEF Write
<1>3. ASSUME NEW s \in Senders, Lock(s) \/ Relock(s) PROVE SendersOK'
  BY <1>3 DEF Lock, Relock
<1>4. ASSUME NEW s \in Senders, Transmit(s) PROVE SendersOK'
  BY <1>4 DEF Transmit
<1>5. ASSUME NEW s \in Senders, Check(s) PROVE SendersOK'
  BY <1>5 DEF Check
<1>6. ASSUME NEW s \in Senders, SpuriousWakeup(s) \/ TimeOut(s) PROVE SendersOK'
  BY <1>6 DEF SpuriousWakeup, TimeOut
<1>7. ASSUME NEW s \in Senders, GiveUp(s) PROVE SendersOK'
  BY <1>7 DEF GiveUp
<1>8. CASE RxReceive \/ RxSet \/ RxSignal
  BY <1>8 DEF RxReceive, RxSet, RxSignal
<1>9. CASE ChipAnswers \/ RadioCloses \/ RadioOpens
  BY <1>9 DEF ChipAnswers, RadioCloses, RadioOpens
<1> QED
  BY <1>1, <1>2, <1>3, <1>4, <1>5, <1>6, <1>7, <1>8, <1>9 DEF Next, SenderStep, RxStep

\* Every variable keeps its type: the flag is GO or STOP, and what is on its way
\* are flow messages.
THEOREM TypeCorrect == Spec => []TypeOK
<1> DEFINE Parts == SendersOK /\ SequencesOK /\ rx \in RxTypes /\ response \in {"GO", "STOP"}
<1>1. TypeOK <=> Parts
  BY DEF TypeOK, SendersOK, SequencesOK, RxTypes
<1>2. Init => Parts
  <2> SUFFICES ASSUME Init PROVE Parts
    OBVIOUS
  <2>1. SequencesOK
    BY SequenceTypes DEF Init, SequencesOK
  <2>2. SendersOK /\ rx \in RxTypes /\ response \in {"GO", "STOP"}
    BY DEF Init, SendersOK, RxTypes
  <2> QED
    BY <2>1, <2>2
<1>3. Parts /\ Next => Parts'
  BY SequenceStep, RxStepType, SendersStep DEF SendersOK
<1>4. Parts /\ UNCHANGED vars => Parts'
  BY DEF vars, given, transport, SendersOK, SequencesOK
<1> HIDE DEF Parts
<1> QED
  BY <1>1, <1>2, <1>3, <1>4, PTL DEF Spec

-----------------------------------------------------------------------------
\* Only the users of a behaviour ever send.
OnlyUsers == \A s \in Senders \ users : pc[s] = "idle"

WakeupInv == OnlyUsers /\ NoLostWakeup

LEMMA WakeupStep == ASSUME TypeOK, WakeupInv, [Next]_vars PROVE WakeupInv'
<1> USE DEF WakeupInv, OnlyUsers, NoLostWakeup, Alone, Goto, Answer, given
<1>p. pc \in [Senders -> {"idle", "write", "lock", "transmit", "check", "wait", "relock", "timedOut"}]
  BY DEF TypeOK
<1>0. CASE UNCHANGED vars
  BY <1>0 DEF vars
<1>1. ASSUME NEW s \in Senders, Send(s) PROVE WakeupInv'
  BY <1>p, <1>1 DEF Send
<1>2. ASSUME NEW s \in Senders, Write(s) PROVE WakeupInv'
  BY <1>p, <1>2 DEF Write
<1>3. ASSUME NEW s \in Senders, Lock(s) \/ Relock(s) PROVE WakeupInv'
  BY <1>p, <1>3 DEF Lock, Relock
<1>4. ASSUME NEW s \in Senders, Transmit(s) PROVE WakeupInv'
  BY <1>p, <1>4 DEF Transmit
<1>5. ASSUME NEW s \in Senders, Check(s) PROVE WakeupInv'
  BY <1>p, <1>5 DEF Check
<1>6. ASSUME NEW s \in Senders, SpuriousWakeup(s) \/ TimeOut(s) PROVE WakeupInv'
  BY <1>p, <1>6 DEF SpuriousWakeup, TimeOut
<1>7. ASSUME NEW s \in Senders, GiveUp(s) PROVE WakeupInv'
  BY <1>p, <1>7 DEF GiveUp
<1>8. CASE RxReceive
  BY <1>8 DEF RxReceive
<1>9. CASE RxSet
  <2>1. rx'.at = "signal"
    BY <1>9 DEF RxSet, TypeOK
  <2> QED
    BY <1>9, <2>1 DEF RxSet
<1>10. CASE RxSignal
  BY <1>p, <1>10 DEF RxSignal
<1>11. CASE ChipAnswers \/ RadioOpens
  BY <1>11 DEF ChipAnswers, RadioOpens
<1>12. CASE RadioCloses
  BY <1>12 DEF RadioCloses
<1> QED
  BY <1>0, <1>1, <1>2, <1>3, <1>4, <1>5, <1>6, <1>7, <1>8, <1>9, <1>10, <1>11, <1>12
     DEF Next, SenderStep, RxStep

LEMMA WakeupInvariant == Spec => []WakeupInv
<1>1. Init => WakeupInv
  BY DEF Init, WakeupInv, OnlyUsers, NoLostWakeup
<1> QED
  BY <1>1, WakeupStep, TypeCorrect, PTL DEF Spec

\* A sender that is alone does not sleep on a flag that says GO, unless its
\* signal is about to be sent.
THEOREM NoWakeupLost == Spec => []NoLostWakeup
  BY WakeupInvariant, PTL DEF WakeupInv

-----------------------------------------------------------------------------
(* A sender that is alone with a prompt chip.                              *)

Go(m)   == [resp |-> "GO", for |-> m]
Stop(m) == [resp |-> "STOP", for |-> m]

\* No answer is under way.
Quiet == chip = <<>> /\ wire = <<>> /\ rx.at # "lock"

\* The GO of message m is under way, and nothing after it.
Awaited(m) ==
  \/ chip = <<m>> /\ wire = <<>> /\ rx.at # "lock"
  \/ chip = <<>> /\ wire = <<Stop(m), Go(m)>> /\ rx.at # "lock"
  \/ chip = <<>> /\ wire = <<Go(m)>> /\ (rx.at = "lock" => rx.msg = Stop(m))
  \/ chip = <<>> /\ wire = <<>> /\ rx.at = "lock" /\ rx.msg = Go(m)

Exchange(s) ==
  /\ open
  /\ pc[s] # "timedOut"
  /\ \/ Quiet /\ response = "GO"
     \/ Quiet /\ pc[s] \in {"idle", "write", "lock", "transmit"}
     \/ /\ pc[s] \in {"check", "wait", "relock"}
        /\ Awaited(Current(s)) /\ response = "STOP"

UndisturbedInv == prompt => \A s \in Senders : users = {s} => Exchange(s)

LEMMA UndisturbedStep ==
  ASSUME TypeOK, WakeupInv, UndisturbedInv, [Next]_vars PROVE UndisturbedInv'
<1> SUFFICES ASSUME prompt, prompt', NEW s \in Senders, users = {s}, users' = {s}
             PROVE  Exchange(s)'
  BY DEF UndisturbedInv, vars, given, Next, SenderStep, RxStep, Send, Write, Lock, Transmit, Check,
         SpuriousWakeup, Relock, TimeOut, GiveUp, RxReceive, RxSet, RxSignal, ChipAnswers,
         RadioCloses, RadioOpens
<1>e. Exchange(s)
  BY DEF UndisturbedInv
<1>p. pc \in [Senders -> {"idle", "write", "lock", "transmit", "check", "wait", "relock", "timedOut"}]
  BY DEF TypeOK
<1>u. \A q \in Senders : pc[q] # "idle" => q = s
  BY DEF WakeupInv, OnlyUsers
<1> USE DEF Exchange, Goto, Answer, Current, transport, Quiet, Awaited
<1>0. CASE UNCHANGED vars
  BY <1>e, <1>0 DEF vars
<1>1. ASSUME Send(s) PROVE Exchange(s)'
  BY <1>e, <1>p, <1>1 DEF Send
<1>2. ASSUME Write(s) PROVE Exchange(s)'
  BY <1>e, <1>p, <1>2 DEF Write
<1>3. ASSUME Lock(s) \/ Relock(s) PROVE Exchange(s)'
  BY <1>e, <1>p, <1>3 DEF Lock, Relock
<1>4. ASSUME Transmit(s) PROVE Exchange(s)'
  <2>1. chip = <<>> /\ wire = <<>> /\ rx.at # "lock" /\ open
    BY <1>e, <1>4 DEF Transmit
  <2>2. Append(chip, Current(s)) = <<Current(s)>>
    BY <2>1
  <2> QED
    BY <1>p, <1>4, <2>1, <2>2 DEF Transmit
<1>5. ASSUME Check(s) PROVE Exchange(s)'
  BY <1>e, <1>p, <1>5 DEF Check
<1>6. ASSUME SpuriousWakeup(s) PROVE Exchange(s)'
  BY <1>e, <1>p, <1>6 DEF SpuriousWakeup
<1>7. ASSUME TimeOut(s) PROVE FALSE
  BY <1>e, <1>7 DEF TimeOut, WakeupInv, NoLostWakeup, Alone
<1>8. ASSUME GiveUp(s) PROVE FALSE
  BY <1>e, <1>8 DEF GiveUp
<1> DEFINE m == Current(s)
<1>9. CASE RxReceive
  <2>1. /\ rx.at = "idle" /\ wire # <<>> /\ rx' = [at |-> "lock", msg |-> Head(wire)]
        /\ wire' = Tail(wire) /\ UNCHANGED <<response, chip, open, pc, sent>>
    BY <1>9 DEF RxReceive
  <2>2. CASE wire = <<Stop(m), Go(m)>>
    <3>1. Head(wire) = Stop(m) /\ Tail(wire) = <<Go(m)>>
      BY <2>2
    <3> QED
      BY <1>e, <2>1, <2>2, <3>1
  <2>3. CASE wire = <<Go(m)>>
    <3>1. Head(wire) = Go(m) /\ Tail(wire) = <<>>
      BY <2>3
    <3> QED
      BY <1>e, <2>1, <2>3, <3>1
  <2> QED
    BY <1>e, <2>1, <2>2, <2>3
<1>10. CASE RxSet
  <2>1. /\ rx.at = "lock" /\ response' = rx.msg.resp /\ UNCHANGED <<chip, wire, open, pc, sent>>
    BY <1>10 DEF RxSet
  <2>2. rx'.at = "signal"
    BY <1>10 DEF RxSet, TypeOK
  <2>3. pc[s] \in {"check", "wait", "relock"} /\ Awaited(m) /\ response = "STOP"
    BY <1>e, <2>1
  <2>4. CASE wire = <<Go(m)>> /\ rx.msg = Stop(m)
    <3>1. response' = "STOP"
      BY <2>1, <2>4 DEF Stop
    <3> QED
      BY <1>e, <2>1, <2>2, <2>3, <2>4, <3>1
  <2>5. CASE wire = <<>> /\ rx.msg = Go(m)
    <3>1. response' = "GO"
      BY <2>1, <2>5 DEF Go
    <3> QED
      BY <1>e, <2>1, <2>2, <2>3, <2>5, <3>1
  <2> QED
    BY <2>1, <2>3, <2>4, <2>5
<1>11. CASE RxSignal
  <2>1. /\ rx.at = "signal" /\ rx'.at = "idle" /\ UNCHANGED <<response, chip, wire, open, sent>>
    BY <1>11 DEF RxSignal
  <2>2. pc'[s] = pc[s] \/ (pc[s] = "wait" /\ pc'[s] = "relock")
    BY <1>p, <1>11 DEF RxSignal
  <2> QED
    BY <1>e, <2>1, <2>2
<1>12. CASE ChipAnswers
  <2>1. chip = <<m>> /\ wire = <<>> /\ rx.at # "lock" /\ response = "STOP"
        /\ pc[s] \in {"check", "wait", "relock"}
    BY <1>e, <1>12 DEF ChipAnswers
  <2>2. Head(chip) = m /\ Tail(chip) = <<>>
    BY <2>1
  <2>3. Append(wire, Go(m)) = <<Go(m)>> /\ wire \o <<Stop(m), Go(m)>> = <<Stop(m), Go(m)>>
    BY <2>1
  <2>4. chip' = <<>> /\ wire' \in {<<Go(m)>>, <<Stop(m), Go(m)>>}
        /\ UNCHANGED <<rx, response, open, pc, sent>>
    BY <1>12, <2>2, <2>3 DEF ChipAnswers, Go, Stop
  <2> QED
    BY <1>e, <2>1, <2>4
<1>13. ASSUME RadioCloses \/ RadioOpens PROVE FALSE
  BY <1>e, <1>13 DEF RadioCloses, RadioOpens
<1>14. ASSUME NEW q \in Senders,
              \/ Send(q) \/ SenderStep(q) \/ SpuriousWakeup(q)
              \/ Lock(q) \/ Relock(q) \/ TimeOut(q) \/ GiveUp(q)
       PROVE  q = s
  BY <1>u, <1>14 DEF Send, SenderStep, Write, Transmit, Check, SpuriousWakeup, Lock, Relock,
                     TimeOut, GiveUp
<1> QED
  BY <1>0, <1>1, <1>2, <1>3, <1>4, <1>5, <1>6, <1>7, <1>8, <1>9, <1>10, <1>11, <1>12, <1>13,
     <1>14 DEF Next, SenderStep, RxStep

LEMMA UndisturbedInvariant == Spec => []UndisturbedInv
<1>1. Init => UndisturbedInv
  BY DEF Init, UndisturbedInv, Exchange, Quiet
<1> QED
  BY <1>1, UndisturbedStep, TypeCorrect, WakeupInvariant, PTL DEF Spec

\* HARDWARE_ERR is never the fault of the host: a sender that is alone does not
\* time out on a chip that answers in time.
THEOREM NeverTimesOut == Spec => []NoFalseTimeout
<1>1. WakeupInv /\ UndisturbedInv => NoFalseTimeout
  BY DEF WakeupInv, OnlyUsers, UndisturbedInv, NoFalseTimeout, Undisturbed, Alone, Exchange
<1> QED
  BY <1>1, WakeupInvariant, UndisturbedInvariant, PTL

\* For such a sender ant_tx_message reports success for a data message only when
\* its GO has reached the flag.
THEOREM SuccessIsGranted == Spec => SuccessMeansGranted
<1>1. ASSUME TypeOK, WakeupInv, UndisturbedInv, Next, Undisturbed PROVE GrantedAtSuccess
  <2>1. PICK s \in Senders : users = {s}
    BY <1>1 DEF Undisturbed, Alone
  <2>2. Exchange(s)
    BY <1>1, <2>1 DEF Undisturbed, UndisturbedInv
  <2>3. SUFFICES ASSUME pc[s] = "check", result'[s] = "SUCCESS", pc'[s] = "idle"
                 PROVE  ~Pending(Current(s))
    BY <1>1, <2>1 DEF GrantedAtSuccess, WakeupInv, OnlyUsers
  <2>4. pc \in [Senders -> {"idle", "write", "lock", "transmit", "check", "wait", "relock", "timedOut"}]
    BY <1>1 DEF TypeOK
  <2>5. Check(s)
    <3> USE DEF Goto, Answer
    <3>1. ASSUME NEW q \in Senders,
                 \/ Send(q) \/ Write(q) \/ Lock(q) \/ Transmit(q) \/ SpuriousWakeup(q)
                 \/ Relock(q) \/ TimeOut(q) \/ GiveUp(q)
          PROVE  FALSE
      BY <2>3, <2>4, <3>1
         DEF Send, Write, Lock, Transmit, SpuriousWakeup, Relock, TimeOut, GiveUp
    <3>2. CASE RxReceive \/ RxSet \/ ChipAnswers \/ RadioCloses \/ RadioOpens
      BY <2>3, <3>2 DEF RxReceive, RxSet, ChipAnswers, RadioCloses, RadioOpens
    <3>3. CASE RxSignal
      BY <2>3, <2>4, <3>3 DEF RxSignal
    <3>4. ASSUME NEW q \in Senders, Check(q) PROVE q = s
      BY <2>3, <2>4, <3>4 DEF Check
    <3> QED
      BY <1>1, <3>1, <3>2, <3>3, <3>4 DEF Next, SenderStep, RxStep
  <2>6. response = "GO"
    BY <2>3, <2>4, <2>5 DEF Check, Goto
  <2>7. Quiet
    BY <2>2, <2>6 DEF Exchange
  <2>8. Range(chip) = {} /\ Range(wire) = {}
    BY <2>7 DEF Quiet, Range
  <2> QED
    BY <2>7, <2>8 DEF Pending, Quiet
<1>2. TypeOK /\ WakeupInv /\ UndisturbedInv /\ Next => (Undisturbed => GrantedAtSuccess)
  BY <1>1
<1>3. UNCHANGED vars => GrantedAtSuccess
  BY DEF vars, GrantedAtSuccess
<1> QED
  BY <1>2, TypeCorrect, WakeupInvariant, UndisturbedInvariant, PTL DEF Spec, SuccessMeansGranted
=============================================================================
