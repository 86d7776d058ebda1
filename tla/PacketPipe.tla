----------------------------- MODULE PacketPipe -----------------------------
(***************************************************************************)
(* What the receive path of one character device promises: every HCI       *)
(* packet the chip sends is handled once, whole and in the order of        *)
(* sending.  Closing the device loses the packets under way.  The promise  *)
(* ends when a packet is torn: nothing is said of what follows.            *)
(***************************************************************************)
EXTENDS Sequences

CONSTANTS
  Packets,      \* what the chip may send
  Route(_)      \* where a packet goes: callback, flow control or nowhere

VARIABLES
  inTransit,    \* packets sent and not handled yet
  handled,      \* packets handled, with their destination
  torn          \* has a packet been torn?

vars == <<inTransit, handled, torn>>

Init ==
  /\ inTransit = <<>>
  /\ handled = <<>>
  /\ torn = FALSE

Put(p) ==
  /\ inTransit' = Append(inTransit, p)
  /\ UNCHANGED <<handled, torn>>

Get ==
  /\ ~torn /\ inTransit # <<>>
  /\ handled' = Append(handled, [to |-> Route(Head(inTransit)), packet |-> Head(inTransit)])
  /\ inTransit' = Tail(inTransit)
  /\ UNCHANGED torn

Flush ==
  /\ inTransit' = <<>>
  /\ UNCHANGED <<handled, torn>>

Tear == torn'

Next == Get \/ Flush \/ Tear \/ \E p \in Packets : Put(p)

Spec == Init /\ [][Next]_vars /\ WF_vars(Get)
=============================================================================
