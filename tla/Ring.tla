-------------------------------- MODULE Ring --------------------------------
(* RingGeneric_c, the ring of buffer pointers between every two processes  *)
(* of the player (driver/player2/components/infrastructure/                *)
(* ring_generic.cpp), used as the player uses it: many inserters, one      *)
(* extractor, which is also the only caller of Flush.                      *)
(*                                                                         *)
(* One action is one stretch of code that no other thread can observe the  *)
(* middle of.  Insert runs under Lock, but Extract tests the two indices   *)
(* without it, so each value NextInsert takes inside Insert is a state.    *)
EXTENDS Integers, Sequences

CONSTANTS Inserters,   \* threads that call Insert
          Extractor,   \* the thread that calls Extract and Flush
          Values,      \* the buffers in circulation
          MaxEntries,  \* the constructor's argument
          Periods,     \* the blocking periods Extract is called with
          MayFlush,    \* whether the extractor's code flushes this ring
          NoThread,    \* Lock is free
          NoValue      \* a slot of Storage never written

None     == "RING_NONE_BLOCKING"
Finite   == "FINITE"
Infinite == "OS_INFINITE"

ASSUME MaxEntriesAssumption == MaxEntries \in Nat \ {0}
ASSUME PeriodsAssumption    == Periods \subseteq {None, Finite, Infinite}
ASSUME ThreadsAssumption    == /\ NoThread \notin Inserters
                               /\ Extractor \notin Inserters
ASSUME ValuesAssumption     == NoValue \notin Values

\* Storage has one slot more than the ring holds entries.
Limit == MaxEntries + 1

VARIABLES Lock,           \* the inserter inside Insert's critical section
          Signal,         \* the Valid flag of the event
          NextExtract,
          NextInsert,
          Storage,
          OldNextInsert,  \* the local of the Insert that holds Lock
          pc,             \* where each inserter is in Insert
          xpc,            \* where the extractor is in Extract
          BlockingPeriod, \* the argument of the current Extract
          result          \* what the last Extract returned

vars == <<Lock, Signal, NextExtract, NextInsert, Storage, OldNextInsert,
          pc, xpc, BlockingPeriod, result>>

indices == <<NextExtract, NextInsert, Storage, OldNextInsert>>
extractor == <<xpc, BlockingPeriod, result>>

Init == /\ Lock = NoThread
        /\ Signal = FALSE
        /\ NextExtract = 0
        /\ NextInsert = 0
        /\ Storage = [i \in 0 .. Limit - 1 |-> NoValue]
        /\ OldNextInsert = 0
        /\ pc = [p \in Inserters |-> "idle"]
        /\ xpc = "idle"
        /\ BlockingPeriod = None
        /\ result = NoValue

-----------------------------------------------------------------------------
(* The entries in the ring: an Insert counts once it has released Lock.    *)

CommittedInsert == IF Lock = NoThread THEN NextInsert ELSE OldNextInsert

Count == IF CommittedInsert >= NextExtract
         THEN CommittedInsert - NextExtract
         ELSE CommittedInsert - NextExtract + Limit

Slot(i) == IF NextExtract + i <= Limit THEN NextExtract + i - 1
                                       ELSE NextExtract + i - 1 - Limit

Contents == [i \in 1 .. Count |-> Storage[Slot(i)]]

\* Buffers that are stored, or that an Insert is storing.
InRing == {Contents[i] : i \in 1 .. Count} \cup
          (IF Lock = NoThread THEN {} ELSE {Storage[OldNextInsert]})

-----------------------------------------------------------------------------
(* Insert                                                                  *)

\* Mutant: the slot is written after NextInsert has moved on.
InsertStoreLate(p) ==
  /\ pc[p] = "idle"
  /\ Lock = NoThread
  /\ \E v \in Values \ InRing :
       Storage' = [Storage EXCEPT ![(NextInsert + 1) % Limit] = v]
  /\ Lock' = p
  /\ OldNextInsert' = NextInsert
  /\ NextInsert' = NextInsert + 1
  /\ pc' = [pc EXCEPT ![p] = "wrap"]
  /\ UNCHANGED <<Signal, NextExtract, extractor>>

InsertStore(p) ==
  /\ pc[p] = "idle"
  /\ Lock = NoThread
  /\ \E v \in Values \ InRing : Storage' = [Storage EXCEPT ![NextInsert] = v]
  /\ Lock' = p
  /\ OldNextInsert' = NextInsert
  /\ NextInsert' = NextInsert + 1
  /\ pc' = [pc EXCEPT ![p] = "wrap"]
  /\ UNCHANGED <<Signal, NextExtract, extractor>>

InsertWrap(p) ==
  /\ pc[p] = "wrap"
  /\ NextInsert' = IF NextInsert = Limit THEN 0 ELSE NextInsert
  /\ pc' = [pc EXCEPT ![p] = "check"]
  /\ UNCHANGED <<Lock, Signal, NextExtract, Storage, OldNextInsert, extractor>>

\* The ring was full: the insertion is taken back, RingTooManyEntries.
InsertRollBack(p) ==
  /\ pc[p] = "check"
  /\ NextInsert = NextExtract
  /\ NextInsert' = OldNextInsert
  /\ Lock' = NoThread
  /\ pc' = [pc EXCEPT ![p] = "idle"]
  /\ UNCHANGED <<Signal, NextExtract, Storage, OldNextInsert, extractor>>

\* Mutant: the event is forgotten.
InsertCommitSilent(p) ==
  /\ pc[p] = "check"
  /\ NextInsert # NextExtract
  /\ Lock' = NoThread
  /\ pc' = [pc EXCEPT ![p] = "idle"]
  /\ UNCHANGED <<Signal, indices, extractor>>

InsertCommit(p) ==
  /\ pc[p] = "check"
  /\ NextInsert # NextExtract
  /\ Lock' = NoThread
  /\ pc' = [pc EXCEPT ![p] = "signal"]
  /\ UNCHANGED <<Signal, indices, extractor>>

InsertSignal(p) ==
  /\ pc[p] = "signal"
  /\ Signal' = TRUE
  /\ pc' = [pc EXCEPT ![p] = "idle"]
  /\ UNCHANGED <<Lock, indices, extractor>>

-----------------------------------------------------------------------------
(* Extract and Flush                                                       *)

ExtractReset ==
  /\ xpc = "idle"
  /\ BlockingPeriod' \in Periods
  /\ Signal' = FALSE
  /\ xpc' = "test"
  /\ UNCHANGED <<Lock, indices, pc, result>>

\* The test of the indices is made without Lock.
ExtractTest ==
  /\ xpc = "test"
  /\ xpc' = IF NextExtract = NextInsert /\ BlockingPeriod # None
            THEN "wait" ELSE "take"
  /\ UNCHANGED <<Lock, Signal, indices, pc, BlockingPeriod, result>>

ExtractWake ==
  /\ xpc = "wait"
  /\ Signal
  /\ xpc' = "take"
  /\ UNCHANGED <<Lock, Signal, indices, pc, BlockingPeriod, result>>

ExtractTimeout ==
  /\ xpc = "wait"
  /\ BlockingPeriod # Infinite
  /\ xpc' = "take"
  /\ UNCHANGED <<Lock, Signal, indices, pc, BlockingPeriod, result>>

ExtractTake ==
  /\ xpc = "take"
  /\ Lock = NoThread
  /\ IF NextExtract # NextInsert
     THEN /\ result' = Storage[NextExtract]
          /\ NextExtract' = IF NextExtract + 1 = Limit THEN 0
                                                       ELSE NextExtract + 1
     ELSE /\ result' = NoValue       \* RingNothingToGet
          /\ UNCHANGED NextExtract
  /\ xpc' = "idle"
  /\ UNCHANGED <<Lock, Signal, NextInsert, Storage, OldNextInsert, pc,
                 BlockingPeriod>>

\* Only the frame parsers flush their rings; the processes never do.
Flush ==
  /\ MayFlush
  /\ xpc = "idle"
  /\ Lock = NoThread
  /\ NextExtract' = 0
  /\ NextInsert' = 0
  /\ UNCHANGED <<Lock, Signal, Storage, OldNextInsert, pc, extractor>>

-----------------------------------------------------------------------------
Insert(p) == \/ InsertStore(p) \/ InsertWrap(p) \/ InsertRollBack(p)
             \/ InsertCommit(p) \/ InsertSignal(p)

Extract == \/ ExtractReset \/ ExtractTest \/ ExtractWake
           \/ ExtractTimeout \/ ExtractTake

Next == (\E p \in Inserters : Insert(p)) \/ Extract \/ Flush

Spec == Init /\ [][Next]_vars

(* An inserter may never call again, but finishes the call it is in.  The  *)
(* extractor is a process loop that calls Extract forever; its timer       *)
(* expires; the kernel's semaphores are granted first come first served,   *)
(* so it is not kept from Lock for ever.                                   *)
Fairness == /\ \A p \in Inserters :
                 WF_vars(Insert(p) /\ pc[p] # "idle")
            /\ WF_vars(Extract)
            /\ SF_vars(ExtractTake)

LiveSpec == Spec /\ Fairness

-----------------------------------------------------------------------------
TypeOK ==
  /\ Lock \in Inserters \cup {NoThread}
  /\ Signal \in BOOLEAN
  /\ NextExtract \in 0 .. Limit - 1
  /\ NextInsert \in 0 .. Limit
  /\ Storage \in [0 .. Limit - 1 -> Values \cup {NoValue}]
  /\ OldNextInsert \in 0 .. Limit - 1
  /\ pc \in [Inserters -> {"idle", "wrap", "check", "signal"}]
  /\ xpc \in {"idle", "test", "wait", "take"}
  /\ BlockingPeriod \in {None, Finite, Infinite}
  /\ result \in Values \cup {NoValue}

(* The locals and indices agree with the place in the code: Lock is held   *)
(* exactly between an Insert's store and its check, the slot the Insert    *)
(* wrote is the one OldNextInsert names, and NextInsert is one past it,    *)
(* wrapped or about to be.  Nothing live is overwritten: every entry of    *)
(* the ring is a value some Insert stored, and there are at most           *)
(* MaxEntries of them.                                                     *)
Succ(i) == IF i + 1 = Limit THEN 0 ELSE i + 1

InsertInv ==
  /\ \A p \in Inserters : (Lock = p) <=> (pc[p] \in {"wrap", "check"})
  /\ Lock = NoThread => NextInsert < Limit
  /\ \A p \in Inserters :
       /\ pc[p] = "wrap"  => NextInsert = OldNextInsert + 1
       /\ pc[p] = "check" => NextInsert = Succ(OldNextInsert)
       /\ Lock = p        => Storage[OldNextInsert] \in Values

EntriesInv == \A i \in 1 .. Count : Storage[Slot(i)] \in Values

\* The inductive invariant of the ring.
IInv == TypeOK /\ InsertInv /\ EntriesInv

(* No wakeup is lost (ring_generic.cpp, Insert's OS_SetEvent after the     *)
(* unlock against Extract's OS_ResetEvent before its unlocked test): an    *)
(* extractor that waits although the ring holds an entry has been or is    *)
(* about to be signalled, unless the ring is full.                         *)
NoLostWakeup ==
  xpc = "wait" /\ Count > 0 =>
    \/ Signal
    \/ \E p \in Inserters : pc[p] = "signal"
    \/ Count = MaxEntries

(* The ring is a FIFO whatever the interleaving: entries come out once,    *)
(* in the order their insertions released Lock, an insertion is refused    *)
(* only when MaxEntries entries are stored, and (LiveSpec) what is stored  *)
(* is extracted by an extractor that keeps calling.                        *)
Fifo == INSTANCE FifoQueue WITH queue <- Contents

FifoSpec == Fifo!Spec
FifoLiveSpec == Fifo!LiveSpec

=============================================================================
