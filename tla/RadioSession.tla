---------------------------- MODULE RadioSession ----------------------------
(***************************************************************************)
(* What the power state machine of the character-device back-ends promises *)
(* of the channels' descriptors, whoever calls it and whatever fails.  Life*)
(* goes by in sessions.  In each one the channels are opened one by one,   *)
(* then at most one receive thread serves all of them, and when it has left*)
(* they are closed one by one.  Only when the last is closed can anything  *)
(* be opened for the next session: no thread ever takes over a descriptor  *)
(* that another one has polled, and none has a descriptor closed under it. *)
(***************************************************************************)
CONSTANTS Channels, RxThreads

VARIABLES
  phase,    \* of the session
  open,     \* the channels that have a descriptor
  serving   \* the receive threads that may use them

vars == <<phase, open, serving>>

TypeOK ==
  /\ phase \in {"opening", "serving", "closing"}
  /\ open \subseteq Channels
  /\ serving \subseteq RxThreads

Init ==
  /\ phase = "opening"
  /\ open = {}
  /\ serving = {}

OpenChannel(c) ==
  /\ phase = "opening"
  /\ open' = open \cup {c}
  /\ UNCHANGED <<phase, serving>>

Serve(r) ==
  /\ phase = "opening" /\ open = Channels
  /\ phase' = "serving"
  /\ serving' = {r}
  /\ UNCHANGED open

Leave ==
  /\ phase = "serving"
  /\ phase' = "closing"
  /\ serving' = {}
  /\ UNCHANGED open

\* An enable that fails half-way.
GiveUp ==
  /\ phase = "opening"
  /\ phase' = "closing"
  /\ UNCHANGED <<open, serving>>

CloseChannel(c) ==
  /\ phase = "closing"
  /\ open' = open \ {c}
  /\ UNCHANGED <<phase, serving>>

EndSession ==
  /\ phase = "closing" /\ open = {}
  /\ phase' = "opening"
  /\ UNCHANGED <<open, serving>>

Next ==
  \/ \E c \in Channels : OpenChannel(c) \/ CloseChannel(c)
  \/ \E r \in RxThreads : Serve(r)
  \/ Leave \/ GiveUp \/ EndSession

Spec == Init /\ [][Next]_vars
=============================================================================
