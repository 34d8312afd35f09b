--------------------------- MODULE MCNumAllocator ---------------------------
(***************************************************************************)
(* Instances of NumAllocator for TLC.                                      *)
(***************************************************************************)
EXTENDS NumAllocator

CONSTANTS u1, u2, u3, u4, u5
=============================================================================
