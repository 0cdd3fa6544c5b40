------------------------------- MODULE MCRing -------------------------------
(* Two inserting threads and the extractor of one ring of two entries.     *)
EXTENDS Ring

\* The processes poll with PLAYER_MAX_EVENT_WAIT, the pool does not block.
PollingPeriods == {None, Finite}
=============================================================================
