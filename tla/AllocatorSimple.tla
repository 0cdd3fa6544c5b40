--------------------------- MODULE AllocatorSimple ---------------------------
(* The allocator of the memory of a pool of buffers                        *)
(* (driver/player2/components/infrastructure/allocator_simple.cpp): a      *)
(* table of free blocks, first fit, concatenation when a block is freed.   *)
(* The collator allocates and shrinks, the decoding process and the codec  *)
(* shrink and free, each from a thread of its own.                         *)
(*                                                                         *)
(* A unit of memory is an allocation unit (the pool rounds every request,  *)
(* and SegmentSize is 1 in its only constructor call); addresses are       *)
(* offsets in the memory, as in the code.                                  *)
EXTENDS Integers, FiniteSets

CONSTANTS Users,         \* the buffers that can hold memory of the pool
          BufferSize,    \* the memory
          Boundaries,    \* the offsets that are 64MB boundaries
          MaxBlocks,     \* ALLOCATOR_SIMPLE_MAX_BLOCKS
          MaxAllocating, \* how many threads can be in Allocate at a time
          MaxFreeing,    \* and in Free
          CanDelete,     \* whether the allocator is ever deleted
          Nobody

ASSUME UsersAssumption == IsFiniteSet(Users) /\ Nobody \notin Users
ASSUME SizesAssumption == /\ BufferSize \in Nat \ {0}
                          /\ MaxBlocks \in Nat \ {0}
                          /\ MaxAllocating \in Nat /\ MaxFreeing \in Nat
ASSUME BoundariesAssumption == Boundaries \subseteq Nat

VARIABLES Blocks, HighestUsedBlockIndex, EntryFreed,
          BeingDeleted, InAllocate,
          Lock,      \* Nobody, or who left it locked
          pc,        \* where the call for each buffer is
          Block,     \* the memory it holds: offset and size
          Arg,       \* the arguments of its call
          LowestFreeBlock, \* the local of Free
          Dropped,   \* memory Free gave up because the table was full
          stage      \* how far the destructor is

vars == <<Blocks, HighestUsedBlockIndex, EntryFreed, BeingDeleted, InAllocate,
          Lock, pc, Block, Arg, LowestFreeBlock, Dropped, stage>>

-----------------------------------------------------------------------------
Indices == 0..(MaxBlocks - 1)
Slots   == 0..HighestUsedBlockIndex

Smallest(S) == CHOOSE x \in S : \A y \in S : x <= y
Largest(S)  == CHOOSE x \in S : \A y \in S : x >= y

Piece(base, size) == [Base |-> base, Size |-> size]
NoPiece == Piece(0, 0)
End(p)  == p.Base + p.Size
Units(p) == p.Base..(End(p) - 1)

\* What an entry that is not in use holds is never read.
FreeSlot == [InUse |-> FALSE, Size |-> 0, Base |-> 0]
Slot(p)  == [InUse |-> TRUE, Size |-> p.Size, Base |-> p.Base]

\* Free(): the memory in pieces that do not cross a boundary.
Starts == {0} \cup {b \in Boundaries : b > 0 /\ b < BufferSize}
Ordinal(s) == Cardinality({r \in Starts : r < s})
Pieces == {s \in Starts : Ordinal(s) < MaxBlocks}
After(s) == Smallest({r \in Starts : r > s} \cup {BufferSize})

Init ==
  /\ Blocks = [i \in Indices |->
                 IF \E s \in Pieces : Ordinal(s) = i
                 THEN LET s == CHOOSE s \in Pieces : Ordinal(s) = i
                      IN  Slot(Piece(s, After(s) - s))
                 ELSE FreeSlot]
  /\ HighestUsedBlockIndex = Cardinality(Pieces) - 1
  /\ EntryFreed = TRUE
  /\ BeingDeleted = FALSE /\ InAllocate = FALSE
  /\ Lock = Nobody
  /\ pc = [u \in Users |-> "idle"]
  /\ Block = [u \in Users |-> NoPiece]
  /\ Arg = [u \in Users |-> NoPiece]
  /\ LowestFreeBlock = [u \in Users |-> 0]
  /\ Dropped = {}
  /\ stage = "live"

-----------------------------------------------------------------------------
Goto(u, place) == pc' = [pc EXCEPT ![u] = place]

\* The call returns: its arguments and locals are no more.
Return(u) == /\ Goto(u, "idle")
             /\ Arg' = [Arg EXCEPT ![u] = NoPiece]
             /\ LowestFreeBlock' = [LowestFreeBlock EXCEPT ![u] = 0]
In(places) == {u \in Users : pc[u] \in places}

Allocating == In({"first", "largest", "waitFirst", "waitLargest"})

locked  == <<Blocks, HighestUsedBlockIndex, EntryFreed>>
destroy == <<BeingDeleted, stage>>

(* Allocate and AllocateLargest                                            *)

Allocate(u, size, which) ==
  /\ pc[u] = "idle" /\ Block[u] = NoPiece /\ stage = "live"
  /\ Cardinality(Allocating) < MaxAllocating
  /\ InAllocate' = TRUE
  /\ Arg' = [Arg EXCEPT ![u] = Piece(0, size)]
  /\ Goto(u, which)
  /\ UNCHANGED <<locked, Lock, Block, LowestFreeBlock, Dropped, destroy>>

\* A call that is about to look into the table, with the lock.
Looks(u, which) == pc[u] = which /\ Lock = Nobody /\ stage # "gone"

\* The blocks a request can be served from.
Fits(u) == {i \in Slots : Blocks[i].InUse /\ Blocks[i].Size >= Arg[u].Size}

\* Mutant: a block that is used up stays in the table.
RestStays(b, size) == IF b.Size = size THEN b
                      ELSE Slot(Piece(b.Base + size, b.Size - size))

\* What is left of a block when size units are taken.
Rest(b, size) == IF b.Size = size THEN FreeSlot
                 ELSE Slot(Piece(b.Base + size, b.Size - size))

TakeFirst(u) ==
  /\ Looks(u, "first") /\ ~BeingDeleted
  /\ Fits(u) # {}
  /\ LET i == Smallest(Fits(u))  size == Arg[u].Size IN
       /\ Block' = [Block EXCEPT ![u] = Piece(Blocks[i].Base, size)]
       /\ Blocks' = [Blocks EXCEPT ![i] = Rest(@, size)]
  /\ EntryFreed' = FALSE
  /\ InAllocate' = FALSE
  /\ Return(u)
  /\ UNCHANGED <<HighestUsedBlockIndex, Lock, Dropped, destroy>>

\* LargestFreeBlock: the first of the largest blocks.
LargestFreeBlock ==
  LET used == {i \in Slots : Blocks[i].InUse}
      best == {i \in used : \A j \in used : Blocks[j].Size <= Blocks[i].Size}
  IN  Smallest(best)

TakeLargest(u) ==
  /\ Looks(u, "largest") /\ ~BeingDeleted
  /\ Fits(u) # {}
  /\ LET i == LargestFreeBlock IN
       /\ Block' = [Block EXCEPT ![u] = Piece(Blocks[i].Base, Blocks[i].Size)]
       /\ Blocks' = [Blocks EXCEPT ![i] = FreeSlot]
  /\ EntryFreed' = FALSE
  /\ InAllocate' = FALSE
  /\ Return(u)
  /\ UNCHANGED <<HighestUsedBlockIndex, Lock, Dropped, destroy>>

Sleep(u) ==
  /\ \/ Looks(u, "first")   /\ Goto(u, "waitFirst")
     \/ Looks(u, "largest") /\ Goto(u, "waitLargest")
  /\ ~BeingDeleted
  /\ Fits(u) = {}
  /\ EntryFreed' = FALSE
  /\ UNCHANGED <<Blocks, HighestUsedBlockIndex, InAllocate, Lock, Block, Arg,
                 LowestFreeBlock, Dropped, destroy>>

\* The wait is for ever.  The loop's condition reads BeingDeleted.
Wake(u) ==
  /\ EntryFreed /\ stage # "gone" /\ ~BeingDeleted
  /\ \/ pc[u] = "waitFirst"   /\ Goto(u, "first")
     \/ pc[u] = "waitLargest" /\ Goto(u, "largest")
  /\ UNCHANGED <<locked, InAllocate, Lock, Block, Arg, LowestFreeBlock,
                 Dropped, destroy>>

WakeToLeave(u) ==
  /\ pc[u] \in {"waitFirst", "waitLargest"}
  /\ EntryFreed /\ stage # "gone" /\ BeingDeleted
  /\ InAllocate' = FALSE
  /\ Return(u)
  /\ UNCHANGED <<locked, Lock, Block, Dropped, destroy>>

\* Mutant: InAllocate is left set.
LeaveInside == UNCHANGED InAllocate

Leave == InAllocate' = FALSE

\* The break out of the loop leaves the mutex locked.
Break(u) ==
  /\ Looks(u, "first") \/ Looks(u, "largest")
  /\ BeingDeleted
  /\ Lock' = u
  /\ EntryFreed' = FALSE
  /\ Leave
  /\ Return(u)
  /\ UNCHANGED <<Blocks, HighestUsedBlockIndex, Block, Dropped, destroy>>

(* ExtendToLargest.  Its first test compares an offset with physical       *)
(* addresses, which lie far above any: only the boundary is left of it.    *)

ExtendUpwards(u) ==
  /\ pc[u] = "idle" /\ Block[u] # NoPiece /\ stage = "live" /\ Lock = Nobody
  /\ End(Block[u]) \notin Boundaries
  /\ \E i \in Slots :
       /\ Blocks[i].InUse /\ Blocks[i].Base = End(Block[u])
       /\ Block' = [Block EXCEPT ![u].Size = @ + Blocks[i].Size]
       /\ Blocks' = [Blocks EXCEPT ![i] = FreeSlot]
  /\ UNCHANGED <<HighestUsedBlockIndex, EntryFreed, InAllocate, Lock, pc, Arg,
                 LowestFreeBlock, Dropped, destroy>>

ExtendDownwards(u) ==
  /\ pc[u] = "idle" /\ Block[u] # NoPiece /\ stage = "live" /\ Lock = Nobody
  /\ Block[u].Base \notin Boundaries
  /\ \E i \in Slots :
       /\ Blocks[i].InUse /\ End(Blocks[i]) = Block[u].Base
       /\ Block' = [Block EXCEPT ![u] = Piece(Blocks[i].Base,
                                              @.Size + Blocks[i].Size)]
       /\ Blocks' = [Blocks EXCEPT ![i] = FreeSlot]
  /\ UNCHANGED <<HighestUsedBlockIndex, EntryFreed, InAllocate, Lock, pc, Arg,
                 LowestFreeBlock, Dropped, destroy>>

-----------------------------------------------------------------------------
(* Free(Size, Block): what is above the first keep units of a buffer's     *)
(* memory is freed (DeAllocateMemoryBlock when keep is 0 for good,         *)
(* ShrinkMemoryBlock).  LowestFreeBlock is computed before the lock.       *)

\* Mutant: an off-by-one.
FirstGuessOneLess == HighestUsedBlockIndex

FirstGuess == HighestUsedBlockIndex + 1

Free(u, keep) ==
  /\ pc[u] = "idle" /\ Block[u] # NoPiece /\ stage = "live"
  /\ keep < Block[u].Size
  /\ Cardinality(In({"free"})) < MaxFreeing
  /\ LowestFreeBlock' =
       [LowestFreeBlock EXCEPT ![u] = FirstGuess]
  /\ Arg' = [Arg EXCEPT ![u] = Piece(Block[u].Base + keep,
                                     Block[u].Size - keep)]
  /\ Block' = [Block EXCEPT ![u] =
                 IF keep = 0 THEN NoPiece ELSE Piece(@.Base, keep)]
  /\ Goto(u, "free")
  /\ UNCHANGED <<locked, InAllocate, Lock, Dropped, destroy>>

\* Mutant: a block above is concatenated over a boundary.
AboveAnywhere(p) == {i \in Slots : Blocks[i].InUse /\ Blocks[i].Base = End(p)}

\* The free blocks that touch p from above and from below.
Above(p) == {i \in Slots : /\ Blocks[i].InUse
                           /\ Blocks[i].Base = End(p)
                           /\ End(p) \notin Boundaries}
Below(p) == {i \in Slots : /\ Blocks[i].InUse
                           /\ End(Blocks[i]) = p.Base
                           /\ p.Base \notin Boundaries}

\* Mutant: only what is above is concatenated.
JoinedAbove(p) == Above(p)

Joined(p) == Above(p) \cup Below(p)

\* p with what it touches: what the loop has made of it when it ends.
Concatenated(p) ==
  LET low  == Smallest({p.Base} \cup {Blocks[i].Base : i \in Below(p)})
      high == Largest({End(p)} \cup {End(Blocks[i]) : i \in Above(p)})
  IN  Piece(low, high - low)

\* Where the loop leaves LowestFreeBlock and NextHighestUsedBlockIndex.
Target(p, low) ==
  Smallest({low} \cup {i \in Slots : ~Blocks[i].InUse \/ i \in Joined(p)})

\* Mutant: a joined block counts as in use.
NextHighestOfAll(p) == Largest({0} \cup {i \in Slots : Blocks[i].InUse})

NextHighest(p) ==
  Largest({0} \cup {i \in Slots : Blocks[i].InUse /\ i \notin Joined(p)})

(* The loop of Free, turn by turn: what the definitions above are for.     *)

\* acc holds the table, what is being freed, and the two locals.
Turn(acc, i) ==
  LET b == acc.Blocks[i]
      p == acc.Piece
      above == b.InUse /\ End(p) = b.Base /\ b.Base \notin Boundaries
      below == ~above /\ b.InUse /\ p.Base = End(b) /\ p.Base \notin Boundaries
      inUse == b.InUse /\ ~above /\ ~below
  IN  [Blocks |-> [acc.Blocks EXCEPT ![i].InUse = inUse],
       Piece  |-> CASE above -> Piece(p.Base, p.Size + b.Size)
                    [] below -> Piece(b.Base, p.Size + b.Size)
                    [] OTHER -> p,
       Lowest |-> IF ~inUse /\ i < acc.Lowest THEN i ELSE acc.Lowest,
       Next   |-> IF inUse THEN i ELSE acc.Next]

Loop(p, low) ==
  LET turns[n \in 0..MaxBlocks] ==
        IF n = 0
        THEN [Blocks |-> Blocks, Piece |-> p, Lowest |-> low, Next |-> 0]
        ELSE Turn(turns[n - 1], n - 1)
  IN  turns[HighestUsedBlockIndex + 1]

Frees(u) == pc[u] = "free" /\ Lock = Nobody /\ stage # "gone"

NewHighest(slot, p) == Largest({slot, NextHighest(p)})

HasRoom(slot) == slot # MaxBlocks

\* Mutant: nobody is told.
TellNobody == UNCHANGED EntryFreed

Tell == EntryFreed' = TRUE

FreeInsert(u) ==
  LET p == Arg[u]  slot == Target(p, LowestFreeBlock[u]) IN
  /\ Frees(u) /\ HasRoom(slot)
  /\ Blocks' = [i \in Indices |->
                  IF i = slot THEN Slot(Concatenated(p))
                  ELSE IF i \in Joined(p) THEN FreeSlot ELSE Blocks[i]]
  /\ HighestUsedBlockIndex' = NewHighest(slot, p)
  /\ Tell
  /\ Return(u)
  /\ UNCHANGED <<InAllocate, Lock, Block, Dropped, destroy>>

\* No slot is left (then nothing was joined): the memory is lost.
FreeTooMany(u) ==
  LET p == Arg[u] IN
  /\ Frees(u) /\ ~HasRoom(Target(p, LowestFreeBlock[u]))
  /\ Dropped' = Dropped \cup Units(p)
  /\ Tell
  /\ Return(u)
  /\ UNCHANGED <<Blocks, HighestUsedBlockIndex, InAllocate, Lock, Block,
                 destroy>>

-----------------------------------------------------------------------------
(* The destructor: BeingDeleted, the event, the wait for InAllocate        *)

Delete ==
  /\ CanDelete /\ stage = "live"
  /\ BeingDeleted' = TRUE
  /\ stage' = "signal"
  /\ UNCHANGED <<locked, InAllocate, Lock, pc, Block, Arg, LowestFreeBlock,
                 Dropped>>

DeleteSignal ==
  /\ stage = "signal"
  /\ EntryFreed' = TRUE
  /\ stage' = "wait"
  /\ UNCHANGED <<Blocks, HighestUsedBlockIndex, BeingDeleted, InAllocate,
                 Lock, pc, Block, Arg, LowestFreeBlock, Dropped>>

\* Mutant: the destructor does not wait.
AllOutAlways == TRUE

AllOut == ~InAllocate

DeleteEnd ==
  /\ stage = "wait"
  /\ AllOut
  /\ stage' = "gone"
  /\ UNCHANGED <<locked, BeingDeleted, InAllocate, Lock, pc, Block, Arg,
                 LowestFreeBlock, Dropped>>

-----------------------------------------------------------------------------
Sizes == 1..BufferSize

Looking(u) == TakeFirst(u) \/ TakeLargest(u) \/ Sleep(u) \/ Break(u)
Waking(u)  == Wake(u) \/ WakeToLeave(u)
Freeing(u) == FreeInsert(u) \/ FreeTooMany(u)
Deleting   == DeleteSignal \/ DeleteEnd

Next ==
  \/ \E u \in Users :
       \/ \E size \in Sizes, which \in {"first", "largest"} :
            Allocate(u, size, which)
       \/ Looking(u) \/ Waking(u)
       \/ ExtendUpwards(u) \/ ExtendDownwards(u)
       \/ \E keep \in {0} \cup Sizes : Free(u, keep)
       \/ Freeing(u)
  \/ Delete \/ Deleting

Spec == Init /\ [][Next]_vars

(* A thread that is in the allocator goes on, and so does the destructor.  *)
(* Nobody is obliged to allocate or to free.                               *)
LiveSpec == /\ Spec
            /\ \A u \in Users : WF_vars(Looking(u) \/ Waking(u) \/ Freeing(u))
            /\ WF_vars(Deleting)

-----------------------------------------------------------------------------
Places == {"idle", "first", "largest", "waitFirst", "waitLargest", "free"}

TypeOK ==
  /\ Blocks \in [Indices -> [InUse : BOOLEAN, Size : Nat, Base : Nat]]
  /\ HighestUsedBlockIndex \in Indices
  /\ {EntryFreed, BeingDeleted, InAllocate} \subseteq BOOLEAN
  /\ Lock \in Users \cup {Nobody}
  /\ pc \in [Users -> Places]
  /\ Block \in [Users -> [Base : Nat, Size : Nat]]
  /\ Arg \in [Users -> [Base : Nat, Size : Nat]]
  /\ LowestFreeBlock \in [Users -> 0..MaxBlocks]
  /\ Dropped \subseteq 0..(BufferSize - 1)
  /\ stage \in {"live", "signal", "wait", "gone"}

\* The memory that is free, that buffers hold, and that is being freed.
FreePiece(i) == IF Blocks[i].InUse
                THEN Piece(Blocks[i].Base, Blocks[i].Size) ELSE NoPiece
FreedPiece(u) == IF pc[u] = "free" THEN Arg[u] ELSE NoPiece

Disjoint(p, q) == \/ p.Size = 0 \/ q.Size = 0
                  \/ End(p) <= q.Base \/ End(q) <= p.Base

(* No memory is two things at once: in two blocks of the table, in the     *)
(* memory of two buffers, or in one and the other, whatever the calls that *)
(* overlap (Allocate, AllocateLargest, ExtendToLargest, Free).             *)
NoOverlap ==
  /\ \A i, j \in Indices : i # j => Disjoint(FreePiece(i), FreePiece(j))
  /\ \A u, v \in Users : u # v =>
       /\ Disjoint(Block[u], Block[v])
       /\ Disjoint(FreedPiece(u), FreedPiece(v))
  /\ \A u, v \in Users : Disjoint(Block[u], FreedPiece(v))
  /\ \A i \in Indices, u \in Users : /\ Disjoint(FreePiece(i), Block[u])
                                     /\ Disjoint(FreePiece(i), FreedPiece(u))

AllPieces == {FreePiece(i) : i \in Indices} \cup {Block[u] : u \in Users}
               \cup {FreedPiece(u) : u \in Users}

Accounted == Dropped \cup UNION {Units(p) : p \in AllPieces}

(* "this loop does concatenation of free blocks as well as freeing the     *)
(* current block" (Free): no memory is lost but what Free reports it could *)
(* not keep.                                                               *)
Conserved == 0..(BufferSize - 1) = Accounted

\* A Free puts its memory in the entry it guessed before the lock, which is by
\* then in use for a block that is not joined to it.
Overwrites(u) ==
  LET low == LowestFreeBlock[u] IN
  /\ FreeInsert(u)
  /\ low = Target(Arg[u], low)
  /\ low \in Slots /\ Blocks[low].InUse /\ low \notin Joined(Arg[u])

(* However many calls overlap, there is one way only to lose memory: a     *)
(* Free overwrites an entry of the table that was filled after it guessed  *)
(* LowestFreeBlock, and what is lost is that entry's block.                *)
OnlyOverwritingLoses ==
  [][\A x \in 0..(BufferSize - 1) : x \in Accounted /\ x \notin Accounted'
       => \E u \in Users :
            Overwrites(u) /\ x \in Units(FreePiece(LowestFreeBlock[u]))]_vars

(* "we partition this into blocks that do not cross a 64Mb boundary in the *)
(* physical address space" (Free): no block ever does, and no buffer's     *)
(* memory, and everything stays in the memory of the pool.                 *)
NoneCrosses ==
  \A p \in AllPieces : p.Size > 0 =>
    /\ End(p) <= BufferSize
    /\ \A b \in Boundaries : ~(p.Base < b /\ b < End(p))

(* Free memory is in as few blocks as the boundaries allow, so a request   *)
(* is refused only when there is no room for it (Free's concatenation).    *)
Concatenation ==
  \A i, j \in Indices :
    Blocks[i].InUse /\ Blocks[j].InUse /\ End(Blocks[i]) = Blocks[j].Base
      => Blocks[j].Base \in Boundaries

(* The definitions the actions of Free are made of compute what its loop   *)
(* (allocator_simple.cpp:272-298) computes turn by turn.                   *)
FreeIsTheLoop ==
  \A u \in In({"free"}) :
    LET p == Arg[u]
        low == LowestFreeBlock[u]
        acc == Loop(p, low)
    IN  /\ acc.Piece = Concatenated(p)
        /\ acc.Lowest = Target(p, low)
        /\ acc.Next = NextHighest(p)
        /\ \A i \in Indices : acc.Blocks[i].InUse =
                                (Blocks[i].InUse /\ i \notin Joined(p))

Waiting(u) == pc[u] \in {"waitFirst", "waitLargest"}

(* A lone Allocate does not sleep in front of a block it could have, and   *)
(* not through the deletion either: its wait has no timeout.               *)
NoLostWakeup ==
  \A u \in Users :
    Waiting(u) /\ (Fits(u) # {} \/ stage \in {"wait", "gone"}) => EntryFreed

(* The destructor's wait for InAllocate keeps the event and the mutex      *)
(* until the thread that uses them is out, and then ends.                  *)
DeletedEmpty == stage = "gone" => Allocating = {}
DeleteCompletes == BeingDeleted ~> stage = "gone"
=============================================================================
