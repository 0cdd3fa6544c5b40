--------------------------- MODULE BufferPoolWait ---------------------------
(* GetBuffer on a pool whose free ring is empty                            *)
(* (driver/player2/player/buffer/buffer_pool_generic.cpp): the getter      *)
(* sleeps on BufferReleaseSignal, ReleaseBuffer wakes it, and TidyUp, in   *)
(* the destructor of the pool, aborts it.  Which buffer is got is the      *)
(* business of BufferReferences; here the free ring is the number of       *)
(* buffers in it.                                                          *)
EXTENDS Naturals, FiniteSets

CONSTANTS Getters,         \* the threads that call GetBuffer
          NumberOfBuffers, \* of the pool
          CanDestroy,      \* whether the pool is ever destroyed
          Nobody

ASSUME GettersAssumption == Nobody \notin Getters
ASSUME BuffersAssumption == NumberOfBuffers \in Nat \ {0}
ASSUME DestroyAssumption == CanDestroy \in BOOLEAN

VARIABLES FreeBuffer,     \* the number of buffers in the free ring
          BufferReleaseSignal,
          BufferReleaseSignalWaitedOn,
          AbortGetBuffer,
          Lock,           \* the getter that has it, or Nobody
          pc,             \* where each getter is
          NonBlocking,    \* the argument of its call
          pool            \* how far the destructor is

vars == <<FreeBuffer, BufferReleaseSignal, BufferReleaseSignalWaitedOn,
          AbortGetBuffer, Lock, pc, NonBlocking, pool>>

Init == /\ FreeBuffer = NumberOfBuffers
        /\ BufferReleaseSignal = FALSE
        /\ BufferReleaseSignalWaitedOn = FALSE
        /\ AbortGetBuffer = FALSE
        /\ Lock = Nobody
        /\ pc = [g \in Getters |-> "idle"]
        /\ NonBlocking = [g \in Getters |-> FALSE]
        /\ pool = "live"

-----------------------------------------------------------------------------
Goto(g, place) == pc' = [pc EXCEPT ![g] = place]

\* The pool's memory is still there for the call to go on in.
At(g, place) == pc[g] = place /\ pool # "gone"

(* GetBuffer                                                               *)

Enter(g) ==
  /\ pc[g] = "idle" /\ pool = "live"
  /\ AbortGetBuffer' = FALSE
  /\ \E nonBlocking \in BOOLEAN :
       NonBlocking' = [NonBlocking EXCEPT ![g] = nonBlocking]
  /\ Goto(g, "entered")
  /\ UNCHANGED <<FreeBuffer, BufferReleaseSignal, BufferReleaseSignalWaitedOn,
                 Lock, pool>>

Reset(g) ==
  /\ At(g, "entered")
  /\ Lock = Nobody
  /\ Lock' = g
  /\ BufferReleaseSignal' = FALSE
  /\ Goto(g, "extract")
  /\ UNCHANGED <<FreeBuffer, BufferReleaseSignalWaitedOn, AbortGetBuffer,
                 NonBlocking, pool>>

Extract(g) ==
  /\ At(g, "extract")
  /\ FreeBuffer > 0
  /\ FreeBuffer' = FreeBuffer - 1
  /\ Lock' = Nobody
  /\ Goto(g, "idle")
  /\ UNCHANGED <<BufferReleaseSignal, BufferReleaseSignalWaitedOn,
                 AbortGetBuffer, NonBlocking, pool>>

\* Mutant: the abort is not looked at.
StopsWithoutAbort(g) == NonBlocking[g]

\* The loop's condition, once there is no buffer.
Stops(g) == NonBlocking[g] \/ AbortGetBuffer

GiveUp(g) ==
  /\ At(g, "extract")
  /\ FreeBuffer = 0
  /\ Stops(g)
  /\ Lock' = Nobody
  /\ Goto(g, "idle")
  /\ UNCHANGED <<FreeBuffer, BufferReleaseSignal, BufferReleaseSignalWaitedOn,
                 AbortGetBuffer, NonBlocking, pool>>

Wait(g) ==
  /\ At(g, "extract")
  /\ FreeBuffer = 0 /\ ~Stops(g)
  /\ BufferReleaseSignalWaitedOn' = TRUE
  /\ Lock' = Nobody
  /\ Goto(g, "waiting")
  /\ UNCHANGED <<FreeBuffer, BufferReleaseSignal, AbortGetBuffer,
                 NonBlocking, pool>>

Wake(g) ==
  /\ At(g, "waiting")
  /\ BufferReleaseSignal
  /\ Goto(g, "awake")
  /\ UNCHANGED <<FreeBuffer, BufferReleaseSignal, BufferReleaseSignalWaitedOn,
                 AbortGetBuffer, Lock, NonBlocking, pool>>

\* Mutant: the wait is OS_INFINITE.
TimeoutNever(g) == FALSE /\ UNCHANGED vars

\* BUFFER_MAXIMUM_EVENT_WAIT is over.
Timeout(g) ==
  /\ At(g, "waiting")
  /\ Goto(g, "awake")
  /\ UNCHANGED <<FreeBuffer, BufferReleaseSignal, BufferReleaseSignalWaitedOn,
                 AbortGetBuffer, Lock, NonBlocking, pool>>

Relock(g) ==
  /\ At(g, "awake")
  /\ Lock = Nobody
  /\ BufferReleaseSignalWaitedOn' = FALSE
  /\ IF Stops(g)
     THEN Goto(g, "idle") /\ UNCHANGED <<Lock, BufferReleaseSignal>>
     ELSE Goto(g, "extract") /\ Lock' = g /\ BufferReleaseSignal' = FALSE
  /\ UNCHANGED <<FreeBuffer, AbortGetBuffer, NonBlocking, pool>>

-----------------------------------------------------------------------------
\* Some thread drops the last reference to a buffer (ReleaseBuffer).
Release ==
  /\ FreeBuffer < NumberOfBuffers
  /\ Lock = Nobody /\ pool # "gone"
  /\ FreeBuffer' = FreeBuffer + 1
  /\ BufferReleaseSignal' = TRUE
  /\ UNCHANGED <<BufferReleaseSignalWaitedOn, AbortGetBuffer, Lock, pc,
                 NonBlocking, pool>>

-----------------------------------------------------------------------------
(* TidyUp and AbortBlockingGetBuffer, without Lock                         *)

TidyUp ==
  /\ CanDestroy /\ pool = "live"
  /\ pool' = IF BufferReleaseSignalWaitedOn THEN "abort" ELSE "free"
  /\ UNCHANGED <<FreeBuffer, BufferReleaseSignal, BufferReleaseSignalWaitedOn,
                 AbortGetBuffer, Lock, pc, NonBlocking>>

Abort ==
  /\ pool = "abort"
  /\ AbortGetBuffer' = TRUE
  /\ pool' = "signal"
  /\ UNCHANGED <<FreeBuffer, BufferReleaseSignal, BufferReleaseSignalWaitedOn,
                 Lock, pc, NonBlocking>>

AbortSignal ==
  /\ pool = "signal"
  /\ BufferReleaseSignal' = TRUE
  /\ pool' = "free"
  /\ UNCHANGED <<FreeBuffer, BufferReleaseSignalWaitedOn, AbortGetBuffer,
                 Lock, pc, NonBlocking>>

\* The buffers, the ring, the event and the mutex are deleted.
TidyFree ==
  /\ pool = "free"
  /\ pool' = "gone"
  /\ UNCHANGED <<FreeBuffer, BufferReleaseSignal, BufferReleaseSignalWaitedOn,
                 AbortGetBuffer, Lock, pc, NonBlocking>>

-----------------------------------------------------------------------------
Continue(g) == Reset(g) \/ Extract(g) \/ GiveUp(g) \/ Wait(g) \/ Relock(g)

Destroy == TidyUp \/ Abort \/ AbortSignal \/ TidyFree

Next == \/ \E g \in Getters : \/ Enter(g) \/ Continue(g)
                              \/ Wake(g) \/ Timeout(g)
        \/ Release
        \/ Destroy

Spec == Init /\ [][Next]_vars

(* A thread in GetBuffer goes on, a signalled sleeper is scheduled, and a  *)
(* timeout is over some time.  The semaphore of the kernels this is built  *)
(* for (2.6.32) serves its waiters in their order, so a thread that wants  *)
(* the lock gets it: strong fairness.  Nobody is obliged to call, to       *)
(* release or to destroy.                                                  *)
LiveSpec == Spec /\ \A g \in Getters : /\ WF_vars(Continue(g))
                                       /\ SF_vars(Reset(g) \/ Relock(g))
                                       /\ WF_vars(Wake(g) \/ Timeout(g))

-----------------------------------------------------------------------------
(* With several getters one's reset can swallow the signal another has not *)
(* seen yet; the timeout of the wait is what keeps a getter from sitting   *)
(* in the call for ever while there are buffers (GetBuffer's loop).        *)
NeverStuckBeforeABuffer ==
  \A g \in Getters : []<>(pc[g] = "idle" \/ FreeBuffer = 0 \/ pool = "gone")

(* "Abort any ongoing get buffer command" (AbortBlockingGetBuffer): once   *)
(* aborted, every getter comes out of GetBuffer, unless TidyUp is faster.  *)
AbortEndsAll ==
  AbortGetBuffer ~> (\A g \in Getters : pc[g] = "idle") \/ pool = "gone"

=============================================================================
