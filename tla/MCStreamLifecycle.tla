-------------------------- MODULE MCStreamLifecycle --------------------------
(* Instances of StreamLifecycle for TLC.                                   *)
EXTENDS StreamLifecycle

CONSTANTS f1, m1

OneFrame == {f1}
OneMessage == {m1}
=============================================================================
