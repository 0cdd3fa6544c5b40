--------------------------- MODULE MCStreamSwitch ---------------------------
(* StreamSwitch for TLC: the values the calls have.                        *)
EXTENDS StreamSwitch

No == {FALSE}
Both == BOOLEAN
=============================================================================
