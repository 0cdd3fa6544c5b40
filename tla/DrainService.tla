---------------------------- MODULE DrainService ----------------------------
(* What InternalDrainStream promises to the thread that calls it and waits *)
(* (driver/player2/player/player/player_playback.cpp): it returns when the *)
(* frames collated before it have left the stream; what a drain that       *)
(* discards gives up is of those frames; and the others are displayed in   *)
(* the order in which they were collated, drains or not.                   *)
EXTENDS Naturals

VARIABLES collated,   \* how many frames were
          upstream,   \* the frames that have not come to the manifestor
          onScreen,   \* those the manifestor has
          phase,      \* of the drain: "idle", "begun" or "marked"
          discarding, \* whether the last drain begun discards
          due,        \* the frames it waits for
          givenUp     \* the frames discarded for a drain

vars == <<collated, upstream, onScreen, phase, discarding, due, givenUp>>

Init == /\ collated = 0
        /\ upstream = {} /\ onScreen = {} /\ due = {} /\ givenUp = {}
        /\ phase = "idle" /\ discarding = FALSE

First(f, S) == f \in S /\ \A g \in S : f <= g
Leaves(f) == upstream' = upstream \ {f} /\ due' = due \ {f}

Collate == /\ collated' = collated + 1
           /\ upstream' = upstream \cup {collated + 1}
           /\ UNCHANGED <<onScreen, phase, discarding, due, givenUp>>

Display == \E f \in upstream :
             /\ First(f, upstream) /\ Leaves(f)
             /\ onScreen' = onScreen \cup {f}
             /\ UNCHANGED <<collated, phase, discarding, givenUp>>

\* The output timer may drop any frame.
Drop == \E f \in upstream :
          /\ Leaves(f)
          /\ UNCHANGED <<collated, onScreen, phase, discarding, givenUp>>

\* A frame is discarded for the drain that is in progress.
GiveUp == \E f \in upstream :
            /\ phase # "idle" /\ discarding
            /\ phase = "marked" => f \in due
            /\ Leaves(f)
            /\ givenUp' = givenUp \cup {f}
            /\ UNCHANGED <<collated, onScreen, phase, discarding>>

LeaveScreen == \E f \in onScreen :
                 /\ First(f, onScreen)
                 /\ onScreen' = onScreen \ {f}
                 /\ UNCHANGED <<collated, upstream, phase, discarding, due,
                                givenUp>>

Begin == /\ phase = "idle"
         /\ phase' = "begun"
         /\ discarding' \in BOOLEAN
         /\ UNCHANGED <<collated, upstream, onScreen, due, givenUp>>

Flush == /\ phase = "begun" /\ discarding
         /\ onScreen' = {}
         /\ UNCHANGED <<collated, upstream, phase, discarding, due, givenUp>>

\* From here on the drain is for the frames collated so far.
Mark == /\ phase = "begun"
        /\ phase' = "marked"
        /\ due' = upstream
        /\ UNCHANGED <<collated, upstream, onScreen, discarding, givenUp>>

Return == /\ phase = "marked" /\ due = {}
          /\ phase' = "idle"
          /\ UNCHANGED <<collated, upstream, onScreen, discarding, due,
                         givenUp>>

Next == \/ Collate \/ Display \/ Drop \/ GiveUp \/ LeaveScreen
        \/ Begin \/ Flush \/ Mark \/ Return

Spec == Init /\ [][Next]_vars
=============================================================================
