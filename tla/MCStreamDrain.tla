---------------------------- MODULE MCStreamDrain ---------------------------
(* StreamDrain for TLC: the values the calls have in each run.             *)
EXTENDS StreamDrain

\* One marker at a time in CollatedFrameRing: two drains, or drains that wait
\* for their end before the next begins.
ASSUME OverlapAssumption ==
  MaxDrains <= 2 \/ (NonBlockingCalls \subseteq {FALSE} /\ ~TimesOut)

No == {FALSE}
Both == BOOLEAN
=============================================================================
