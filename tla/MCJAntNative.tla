---------------------------- MODULE MCJAntNative ----------------------------
(***************************************************************************)
(* A small instance of JAntNative for TLC, with the lengths at which a     *)
(* byte runs out in one of the back-ends.                                  *)
(***************************************************************************)
EXTENDS JAntNative

CONSTANTS j, r

MCLengths == {0, 1, 252, 253, 254, 255, 256, 257}
=============================================================================
