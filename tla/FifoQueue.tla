----------------------------- MODULE FifoQueue -----------------------------
(* What a Ring_c promises its users (components/include/ring.h): a bounded *)
(* first-in first-out store.  A refused insertion leaves it unchanged.     *)
EXTENDS Naturals, Sequences

CONSTANTS Values,      \* what can be stored (buffer pointers)
          MaxEntries,  \* the constructor's argument
          MayFlush     \* whether its user flushes it

VARIABLE queue

Init == queue = << >>

Insert == /\ Len(queue) < MaxEntries
          /\ \E v \in Values : queue' = Append(queue, v)

Extract == /\ queue # << >>
           /\ queue' = Tail(queue)

Flush == MayFlush /\ queue' = << >>

Next == Insert \/ Extract \/ Flush

Spec == Init /\ [][Next]_queue

\* A consumer that keeps calling Extract gets what is stored.
LiveSpec == Spec /\ WF_queue(Extract)
=============================================================================
