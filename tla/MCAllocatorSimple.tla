-------------------------- MODULE MCAllocatorSimple --------------------------
(* Instances of AllocatorSimple for TLC.                                   *)
EXTENDS AllocatorSimple

CONSTANTS u1, u2, u3

ThreeUsers == {u1, u2, u3}

OneBoundary == {3}
=============================================================================
