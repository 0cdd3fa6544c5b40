-------------------------- MODULE MCBufferPoolWait --------------------------
(* Instances of BufferPoolWait for TLC.                                    *)
EXTENDS BufferPoolWait

CONSTANTS g1, g2, g3

OneGetter    == {g1}
ThreeGetters == {g1, g2, g3}
=============================================================================
