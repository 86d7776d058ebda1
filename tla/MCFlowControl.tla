---------------------------- MODULE MCFlowControl ---------------------------
(***************************************************************************)
(* Small instances of FlowControl for TLC.                                 *)
(***************************************************************************)
EXTENDS FlowControl

CONSTANTS s1, s2
=============================================================================
