-------------------------- MODULE BufferReferences --------------------------
(* The life of the buffers of a pool (driver/player2/player/buffer):       *)
(* GetBuffer takes one from the free ring, Increment- and                  *)
(* DecrementReferenceCount share it, AttachBuffer makes one buffer hold    *)
(* another, and the thread that brings a count to zero releases the        *)
(* buffer, and what is attached to it, to the free ring.                   *)
(*                                                                         *)
(* The unit of the model is the reference: every call in progress makes or *)
(* drops one reference, so the place in the code is a property of the      *)
(* reference and a reference can change hands freely (the rings between    *)
(* the processes do just that).  Each critical section is one step; the    *)
(* code between two of them is where another thread can run.  The owner    *)
(* identifiers, which are only reported, are left out.                     *)
EXTENDS Integers, FiniteSets

CONSTANTS Buffers,     \* the buffers of the pool
          Refs,        \* the references that can exist at a time
          Attachable,  \* Attachable[a]: the buffers a client attaches to a
          MaxAttached, \* MAX_ATTACHED_BUFFERS
          Client,      \* holder of a reference no buffer holds
          NoBuffer

ASSUME BuffersAssumption == IsFiniteSet(Buffers) /\ IsFiniteSet(Refs)
ASSUME HoldersAssumption == Client \notin Buffers /\ NoBuffer \notin Buffers
ASSUME AttachAssumption  == /\ Attachable \in [Buffers -> SUBSET Buffers]
                            /\ MaxAttached \in Nat

VARIABLES ReferenceCount,     \* of each buffer
          PoolReferenceCount, \* of the pool
          CountOfReferencedBuffers,
          FreeBuffer,         \* how often each buffer is in the free ring
          Lost,               \* buffers a failed GetBuffer did not put back
          pc,                 \* where the call that concerns the ref is
          buf,                \* the buffer it refers to
          holder,             \* Client, or the buffer it is attached to
          after,              \* the local ReferenceCountAfterDecrement
          pins                \* the refs its maker holds meanwhile

vars == <<ReferenceCount, PoolReferenceCount, CountOfReferencedBuffers,
          FreeBuffer, Lost, pc, buf, holder, after, pins>>

Init == /\ ReferenceCount = [b \in Buffers |-> 0]
        /\ PoolReferenceCount = 0
        /\ CountOfReferencedBuffers = 0
        /\ FreeBuffer = [b \in Buffers |-> 1]
        /\ Lost = {}
        /\ pc = [r \in Refs |-> "none"]
        /\ buf = [r \in Refs |-> NoBuffer]
        /\ holder = [r \in Refs |-> Client]
        /\ after = [r \in Refs |-> 0]
        /\ pins = [r \in Refs |-> {}]

-----------------------------------------------------------------------------
Goto(r, place) == pc' = [pc EXCEPT ![r] = place]

\* The call returns and the reference is no more.
Forget(r) == /\ Goto(r, "none")
             /\ buf' = [buf EXCEPT ![r] = NoBuffer]
             /\ holder' = [holder EXCEPT ![r] = Client]
             /\ after' = [after EXCEPT ![r] = 0]
             /\ pins' = [pins EXCEPT ![r] = {}]

locals == <<buf, holder, after, pins>>
counts == <<ReferenceCount, PoolReferenceCount, CountOfReferencedBuffers>>

\* The occupied entries of b's AttachedBuffers.
Attached(b) == {r \in Refs : holder[r] = b}

\* A call that uses r as its own reference keeps it meanwhile.
Pinned(r) == \E q \in Refs : r \in pins[q]

-----------------------------------------------------------------------------
(* GetBuffer                                                               *)

GetExtract(r, b) ==
  /\ pc[r] = "none"
  /\ FreeBuffer[b] > 0
  /\ FreeBuffer' = [FreeBuffer EXCEPT ![b] = @ - 1]
  /\ buf' = [buf EXCEPT ![r] = b]
  /\ Goto(r, "taken")
  /\ UNCHANGED <<counts, Lost, holder, after, pins>>

\* AllocateMemoryBlock fails: the buffer is not put back.
GetFail(r) ==
  /\ pc[r] = "taken"
  /\ Lost' = Lost \cup {buf[r]}
  /\ Forget(r)
  /\ UNCHANGED <<counts, FreeBuffer>>

GetInitialise(r) ==
  /\ pc[r] = "taken"
  /\ ReferenceCount' = [ReferenceCount EXCEPT ![buf[r]] = 1]
  /\ Goto(r, "counting")
  /\ UNCHANGED <<PoolReferenceCount, CountOfReferencedBuffers, FreeBuffer,
                 Lost, locals>>

GetCount(r) ==
  /\ pc[r] = "counting"
  /\ PoolReferenceCount' = PoolReferenceCount + 1
  /\ CountOfReferencedBuffers' = CountOfReferencedBuffers + 1
  /\ Goto(r, "held")
  /\ UNCHANGED <<ReferenceCount, FreeBuffer, Lost, locals>>

-----------------------------------------------------------------------------
(* IncrementReferenceCount, called with a reference s in hand              *)

Increment(r, s) ==
  /\ pc[r] = "none"
  /\ pc[s] = "held" /\ holder[s] = Client
  /\ Goto(r, "incPool")
  /\ buf' = [buf EXCEPT ![r] = buf[s]]
  /\ pins' = [pins EXCEPT ![r] = {s}]
  /\ UNCHANGED <<counts, FreeBuffer, Lost, holder, after>>

IncPool(r) ==
  /\ pc[r] = "incPool"
  /\ PoolReferenceCount' = PoolReferenceCount + 1
  /\ Goto(r, "incBuffer")
  /\ UNCHANGED <<ReferenceCount, CountOfReferencedBuffers, FreeBuffer, Lost,
                 locals>>

IncBuffer(r) ==
  /\ pc[r] = "incBuffer"
  /\ ReferenceCount' = [ReferenceCount EXCEPT ![buf[r]] = @ + 1]
  /\ Goto(r, "held")
  /\ pins' = [pins EXCEPT ![r] = {}]
  /\ UNCHANGED <<PoolReferenceCount, CountOfReferencedBuffers, FreeBuffer,
                 Lost, buf, holder, after>>

-----------------------------------------------------------------------------
(* AttachBuffer and DetachBuffer: a is the caller's reference to the one   *)
(* buffer, s its reference to the other.  The entry is recorded before     *)
(* the count is incremented, and cleared before it is decremented.         *)

\* Mutant: the entry is recorded and the count forgotten.
AttachUncounted(r, a, s) ==
  /\ pc[r] = "none"
  /\ pc[a] = "held" /\ holder[a] = Client
  /\ pc[s] = "held" /\ holder[s] = Client
  /\ buf[s] \in Attachable[buf[a]]
  /\ Cardinality(Attached(buf[a])) < MaxAttached
  /\ Goto(r, "held")
  /\ buf' = [buf EXCEPT ![r] = buf[s]]
  /\ holder' = [holder EXCEPT ![r] = buf[a]]
  /\ UNCHANGED <<counts, FreeBuffer, Lost, after, pins>>

Attach(r, a, s) ==
  /\ pc[r] = "none"
  /\ pc[a] = "held" /\ holder[a] = Client
  /\ pc[s] = "held" /\ holder[s] = Client
  /\ buf[s] \in Attachable[buf[a]]
  /\ Cardinality(Attached(buf[a])) < MaxAttached
  /\ Goto(r, "incPool")
  /\ buf' = [buf EXCEPT ![r] = buf[s]]
  /\ holder' = [holder EXCEPT ![r] = buf[a]]
  /\ pins' = [pins EXCEPT ![r] = {a, s}]
  /\ UNCHANGED <<counts, FreeBuffer, Lost, after>>

Detach(r, a) ==
  /\ pc[r] = "held" /\ holder[r] # Client
  /\ pc[a] = "held" /\ holder[a] = Client /\ buf[a] = holder[r]
  /\ Goto(r, "decPool")
  /\ holder' = [holder EXCEPT ![r] = Client]
  /\ UNCHANGED <<counts, FreeBuffer, Lost, buf, after, pins>>

-----------------------------------------------------------------------------
(* DecrementReferenceCount                                                 *)

Decrement(r) ==
  /\ pc[r] = "held" /\ holder[r] = Client
  /\ ~Pinned(r)
  /\ Goto(r, "decPool")
  /\ UNCHANGED <<counts, FreeBuffer, Lost, locals>>

DecPool(r) ==
  /\ pc[r] = "decPool"
  /\ PoolReferenceCount' = PoolReferenceCount - 1
  /\ Goto(r, "decBuffer")
  /\ UNCHANGED <<ReferenceCount, CountOfReferencedBuffers, FreeBuffer, Lost,
                 locals>>

\* Mutant: the copy is the count before the decrement.
DecBufferOldCopy(r) ==
  /\ pc[r] = "decBuffer"
  /\ ReferenceCount' = [ReferenceCount EXCEPT ![buf[r]] = @ - 1]
  /\ after' = [after EXCEPT ![r] = ReferenceCount[buf[r]]]
  /\ Goto(r, "dropped")
  /\ UNCHANGED <<PoolReferenceCount, CountOfReferencedBuffers, FreeBuffer,
                 Lost, buf, holder, pins>>

\* The copy of the count is taken in the locked period.
DecBuffer(r) ==
  /\ pc[r] = "decBuffer"
  /\ ReferenceCount' = [ReferenceCount EXCEPT ![buf[r]] = @ - 1]
  /\ after' = [after EXCEPT ![r] = ReferenceCount[buf[r]] - 1]
  /\ Goto(r, "dropped")
  /\ UNCHANGED <<PoolReferenceCount, CountOfReferencedBuffers, FreeBuffer,
                 Lost, buf, holder, pins>>

\* Mutant: the count is read again instead of the copy.
DropLastRead(r) ==
  /\ pc[r] = "dropped" /\ ReferenceCount[buf[r]] = 0
  /\ Goto(r, "release")
  /\ UNCHANGED <<counts, FreeBuffer, Lost, locals>>

DropLast(r) ==
  /\ pc[r] = "dropped" /\ after[r] = 0
  /\ Goto(r, "release")
  /\ UNCHANGED <<counts, FreeBuffer, Lost, locals>>

DropOther(r) ==
  /\ pc[r] = "dropped" /\ after[r] # 0
  /\ Forget(r)
  /\ UNCHANGED <<counts, FreeBuffer, Lost>>

-----------------------------------------------------------------------------
(* ReleaseBuffer: the attached buffers one after the other (each a         *)
(* DecrementReferenceCount that may itself release), then the free ring.   *)

ReleaseAttached(r, q) ==
  /\ pc[r] = "release"
  /\ holder[q] = buf[r] /\ pc[q] = "held"
  /\ \A p \in Attached(buf[r]) : pc[p] = "held"
  /\ Goto(q, "decPool")
  /\ UNCHANGED <<counts, FreeBuffer, Lost, locals>>

\* Mutant: the attached buffers are left attached.
ReleaseFreeAlone(r) ==
  /\ pc[r] = "release"
  /\ FreeBuffer' = [FreeBuffer EXCEPT ![buf[r]] = @ + 1]
  /\ CountOfReferencedBuffers' = CountOfReferencedBuffers - 1
  /\ Forget(r)
  /\ UNCHANGED <<ReferenceCount, PoolReferenceCount, Lost>>

ReleaseFree(r) ==
  /\ pc[r] = "release"
  /\ Attached(buf[r]) = {}
  /\ FreeBuffer' = [FreeBuffer EXCEPT ![buf[r]] = @ + 1]
  /\ CountOfReferencedBuffers' = CountOfReferencedBuffers - 1
  /\ Forget(r)
  /\ UNCHANGED <<ReferenceCount, PoolReferenceCount, Lost>>

-----------------------------------------------------------------------------
\* The steps of a call in progress.
Continue(r) ==
  \/ GetFail(r) \/ GetInitialise(r) \/ GetCount(r)
  \/ IncPool(r) \/ IncBuffer(r)
  \/ DecPool(r) \/ DecBuffer(r) \/ DropLast(r) \/ DropOther(r)
  \/ \E q \in Refs : ReleaseAttached(r, q)
  \/ ReleaseFree(r)

\* The calls a client makes.
Call(r) ==
  \/ \E b \in Buffers : GetExtract(r, b)
  \/ \E s \in Refs : Increment(r, s) \/ Detach(r, s)
  \/ \E a, s \in Refs : Attach(r, a, s)
  \/ Decrement(r)

Next == \E r \in Refs : Call(r) \/ Continue(r)

Spec == Init /\ [][Next]_vars

\* A thread in a call goes on; nobody is obliged to make one.
LiveSpec == Spec /\ \A r \in Refs : WF_vars(Continue(r))

-----------------------------------------------------------------------------
TypeOK ==
  /\ ReferenceCount \in [Buffers -> Int]
  /\ PoolReferenceCount \in Int
  /\ CountOfReferencedBuffers \in Int
  /\ FreeBuffer \in [Buffers -> Nat]
  /\ Lost \subseteq Buffers
  /\ pc \in [Refs -> {"none", "taken", "counting", "held", "incPool",
                      "incBuffer", "decPool", "decBuffer", "dropped",
                      "release"}]
  /\ buf \in [Refs -> Buffers \cup {NoBuffer}]
  /\ holder \in [Refs -> Buffers \cup {Client}]
  /\ after \in [Refs -> Int]
  /\ pins \in [Refs -> SUBSET Refs]
  /\ \A r \in Refs : pc[r] = "none" <=> buf[r] = NoBuffer

\* The references ReferenceCount[b] stands for, and those of the pool.
Counted(b) == {r \in Refs : /\ buf[r] = b
                            /\ pc[r] \in {"counting", "held", "decPool",
                                          "decBuffer"}}
PoolCounted == {r \in Refs : pc[r] \in {"held", "incBuffer", "decPool"}}

\* The threads that will put b in the free ring.
Closers(b) == {r \in Refs : /\ buf[r] = b
                            /\ \/ pc[r] = "release"
                               \/ pc[r] = "dropped" /\ after[r] = 0}

Takers(b) == {r \in Refs : buf[r] = b /\ pc[r] = "taken"}

(* The counts tell the truth: a buffer's count is the number of its        *)
(* references (DecrementReferenceCount, IncrementReferenceCount), and the  *)
(* pool's is theirs, give or take the calls between the two locks.         *)
CountsExact ==
  /\ \A b \in Buffers : ReferenceCount[b] = Cardinality(Counted(b))
  /\ PoolReferenceCount = Cardinality(PoolCounted)

\* All that is left of b outside S are calls that will not release it.
OnlyStale(b, S) == \A q \in Refs \ S :
                     buf[q] = b => pc[q] = "dropped" /\ after[q] # 0

(* "only one will do the actual release" (DecrementReferenceCount): a      *)
(* buffer is in the free ring at most once, and while it is there, or one  *)
(* thread is taking it out or about to put it in, no other has a           *)
(* reference to it, is making one, or will release it again.               *)
ReleasedOnce ==
  \A b \in Buffers :
    /\ FreeBuffer[b] \in {0, 1}
    /\ FreeBuffer[b] = 1 => OnlyStale(b, {})
    /\ b \in Lost => FreeBuffer[b] = 0 /\ OnlyStale(b, {})
    /\ \A r \in Takers(b) \cup Closers(b) :
         FreeBuffer[b] = 0 /\ OnlyStale(b, {r})

(* A buffer in the free ring, or on its way out of it, holds no other:     *)
(* GetBuffer clears AttachedBuffers without looking.                       *)
FreeHoldsNothing ==
  \A b \in Buffers :
    FreeBuffer[b] > 0 \/ Takers(b) # {} \/ b \in Lost => Attached(b) = {}

\* Whoever makes a reference holds another to the same buffer meanwhile.
PinsHold ==
  \A r \in Refs : pc[r] \in {"incPool", "incBuffer"} =>
    \E s \in pins[r] : pc[s] = "held" /\ holder[s] = Client /\ buf[s] = buf[r]

(* AssertNonZeroReferenceCount, at the entry of every operation.           *)
AssertNonZero ==
  \A r \in Refs : pc[r] \in {"held", "incPool", "decPool"} =>
    ReferenceCount[buf[r]] > 0

(* No buffer is lost but by a GetBuffer that fails: every buffer is free,  *)
(* lost, being got, referenced, or being released, and only one of these.  *)
Conserved ==
  \A b \in Buffers :
    FreeBuffer[b] + Cardinality(Takers(b)) + Cardinality(Closers(b))
      + (IF b \in Lost THEN 1 ELSE 0)
      + (IF Counted(b) # {} THEN 1 ELSE 0) = 1

(* A buffer nobody refers to any more gets back to the free ring.          *)
Unreferenced(b) == /\ FreeBuffer[b] = 0 /\ b \notin Lost
                   /\ Takers(b) = {} /\ Counted(b) = {}

ReleaseCompletes ==
  \A b \in Buffers : Unreferenced(b) ~> FreeBuffer[b] = 1

\* The inductive invariant of the pool.
IInv == TypeOK /\ PinsHold /\ CountsExact /\ ReleasedOnce /\ FreeHoldsNothing
=============================================================================
