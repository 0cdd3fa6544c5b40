----------------------------- MODULE RingProofs -----------------------------
(* Ring, for every number of inserters, buffers and entries: its invariant *)
(* is inductive, no wakeup is lost, and it implements FifoQueue.           *)
EXTENDS Ring, SequenceTheorems, TLAPS

LEMMA LimitIsNat == Limit \in Nat /\ Limit > 1
  BY MaxEntriesAssumption DEF Limit

(* What the indices say of the number of entries and of their slots.       *)
LEMMA CountBounds ==
  ASSUME TypeOK, InsertInv
  PROVE  /\ CommittedInsert \in 0 .. Limit - 1
         /\ Count \in 0 .. MaxEntries
         /\ \A i \in 1 .. Count : /\ Slot(i) \in 0 .. Limit - 1
                                  /\ Slot(i) # CommittedInsert
  <1>1. CommittedInsert \in 0 .. Limit - 1
    BY LimitIsNat DEF TypeOK, InsertInv, CommittedInsert
  <1>2. Count \in 0 .. MaxEntries
    BY <1>1, MaxEntriesAssumption DEF TypeOK, Count, Limit
  <1>3. ASSUME NEW i \in 1 .. Count
        PROVE  Slot(i) \in 0 .. Limit - 1 /\ Slot(i) # CommittedInsert
    BY <1>1, <1>2, MaxEntriesAssumption DEF TypeOK, Count, Slot, Limit
  <1>4. QED BY <1>1, <1>2, <1>3

-----------------------------------------------------------------------------
(* How each action changes the entries.                                    *)

LEMMA EntriesKept ==
  ASSUME IInv, UNCHANGED NextExtract, CommittedInsert' = CommittedInsert,
         \A i \in 1 .. Count : Storage'[Slot(i)] = Storage[Slot(i)]
  PROVE  /\ Count' = Count
         /\ \A i : Slot(i)' = Slot(i)
         /\ Contents' = Contents
         /\ EntriesInv'
  <1>1. Count' = Count
    BY DEF Count, Limit
  <1>2. \A i : Slot(i)' = Slot(i)
    BY DEF Slot, Limit
  <1>3. Contents' = Contents
    BY <1>1, <1>2 DEF Contents
  <1>4. EntriesInv'
    BY <1>1, <1>2 DEF EntriesInv, IInv
  <1>5. QED BY <1>1, <1>2, <1>3, <1>4

LEMMA StoreKeepsEntries ==
  ASSUME IInv, NEW p \in Inserters, InsertStore(p)
  PROVE  Contents' = Contents /\ Count' = Count /\ EntriesInv'
  <1>1. CommittedInsert' = CommittedInsert
    BY ThreadsAssumption DEF CommittedInsert, InsertStore
  <1>2. \A i \in 1 .. Count : Storage'[Slot(i)] = Storage[Slot(i)]
    <2>1. TypeOK /\ InsertInv /\ CommittedInsert = NextInsert
      BY DEF IInv, InsertStore, CommittedInsert
    <2>2. QED BY <2>1, CountBounds DEF InsertStore, TypeOK
  <1>3. QED BY <1>1, <1>2, EntriesKept DEF InsertStore

LEMMA CommitAppends ==
  ASSUME IInv, NEW p \in Inserters, InsertCommit(p)
  PROVE  /\ Count < MaxEntries
         /\ Count' = Count + 1
         /\ Slot(Count + 1) = OldNextInsert
         /\ Storage[OldNextInsert] \in Values
         /\ \A i : Slot(i)' = Slot(i)
  <1>1. /\ Lock = p /\ Lock' = NoThread
        /\ NextInsert = Succ(OldNextInsert)
        /\ Storage[OldNextInsert] \in Values
    BY DEF IInv, InsertInv, InsertCommit
  <1>2. CommittedInsert = OldNextInsert /\ CommittedInsert' = NextInsert
    BY <1>1, ThreadsAssumption DEF CommittedInsert, InsertCommit, indices
  <1>3. /\ NextExtract \in 0 .. Limit - 1 /\ OldNextInsert \in 0 .. Limit - 1
        /\ NextInsert # NextExtract
    BY DEF IInv, TypeOK, InsertCommit
  <1>4. Count < MaxEntries /\ Count' = Count + 1 /\ Count \in Nat
    BY <1>1, <1>2, <1>3, MaxEntriesAssumption
       DEF Count, Succ, Limit, InsertCommit, indices
  <1>5. Slot(Count + 1) = OldNextInsert
    BY <1>2, <1>3, MaxEntriesAssumption DEF Slot, Count, Limit
  <1>6. \A i : Slot(i)' = Slot(i)
    BY DEF Slot, Limit, InsertCommit, indices
  <1>7. QED BY <1>1, <1>4, <1>5, <1>6

LEMMA TakeRemovesFirst ==
  ASSUME IInv, ExtractTake, NextExtract # NextInsert
  PROVE  /\ Count > 0
         /\ Count' = Count - 1
         /\ \A i \in 1 .. Count - 1 : Slot(i)' = Slot(i + 1)
         /\ Slot(1) = NextExtract
  <1>1. CommittedInsert = NextInsert /\ CommittedInsert' = NextInsert
    BY DEF ExtractTake, CommittedInsert
  <1>2. /\ NextExtract \in 0 .. Limit - 1
        /\ NextInsert \in 0 .. Limit - 1
        /\ NextExtract' = IF NextExtract + 1 = Limit THEN 0
                                                     ELSE NextExtract + 1
    BY LimitIsNat DEF IInv, TypeOK, InsertInv, ExtractTake
  <1>3. Count > 0 /\ Count' = Count - 1 /\ Count \in 0 .. MaxEntries
    BY <1>1, <1>2, MaxEntriesAssumption DEF Count, Limit
  <1>4. \A i \in 1 .. Count - 1 : Slot(i)' = Slot(i + 1)
    BY <1>1, <1>2, <1>3, MaxEntriesAssumption DEF Slot, Limit, Count
  <1>5. Slot(1) = NextExtract
    BY <1>2, MaxEntriesAssumption DEF Slot, Limit
  <1>6. QED BY <1>3, <1>4, <1>5

-----------------------------------------------------------------------------
(* The invariant.                                                          *)

LEMMA InitIInv == Init => IInv
  <1> SUFFICES ASSUME Init PROVE IInv OBVIOUS
  <1>1. TypeOK
    <2>1. Storage \in [0 .. Limit - 1 -> Values \cup {NoValue}]
      BY DEF Init
    <2>2. pc \in [Inserters -> {"idle", "wrap", "check", "signal"}]
      BY DEF Init
    <2>3. 0 \in 0 .. Limit /\ 0 \in 0 .. Limit - 1
      BY LimitIsNat
    <2>4. QED BY <2>1, <2>2, <2>3 DEF Init, TypeOK
  <1>2. InsertInv
    BY LimitIsNat, ThreadsAssumption DEF Init, InsertInv
  <1>3. EntriesInv
    <2>1. Count = 0
      BY DEF Init, Count, CommittedInsert
    <2>2. QED BY <2>1 DEF EntriesInv
  <1>4. QED BY <1>1, <1>2, <1>3 DEF IInv

LEMMA TypeStep == ASSUME IInv, [Next]_vars PROVE TypeOK'
  <1> USE DEF IInv, TypeOK
  <1>1. CASE UNCHANGED vars
    BY <1>1 DEF vars
  <1>2. ASSUME NEW p \in Inserters, InsertStore(p) PROVE TypeOK'
    BY <1>2, LimitIsNat DEF InsertStore, InsertInv, extractor
  <1>3. ASSUME NEW p \in Inserters, InsertWrap(p) PROVE TypeOK'
    BY <1>3, LimitIsNat DEF InsertWrap, extractor
  <1>4. ASSUME NEW p \in Inserters, InsertRollBack(p) PROVE TypeOK'
    BY <1>4, LimitIsNat DEF InsertRollBack, extractor
  <1>5. ASSUME NEW p \in Inserters, InsertCommit(p) PROVE TypeOK'
    BY <1>5 DEF InsertCommit, extractor, indices
  <1>6. ASSUME NEW p \in Inserters, InsertSignal(p) PROVE TypeOK'
    BY <1>6 DEF InsertSignal, extractor, indices
  <1>7. CASE ExtractReset
    BY <1>7, PeriodsAssumption DEF ExtractReset, indices
  <1>8. CASE ExtractTest \/ ExtractWake \/ ExtractTimeout
    BY <1>8 DEF ExtractTest, ExtractWake, ExtractTimeout, indices
  <1>9. CASE ExtractTake
    BY <1>9, LimitIsNat DEF ExtractTake
  <1>10. CASE Flush
    BY <1>10, LimitIsNat DEF Flush, extractor
  <1>11. QED
    BY <1>1, <1>2, <1>3, <1>4, <1>5, <1>6, <1>7, <1>8, <1>9, <1>10
       DEF Next, Insert, Extract

LEMMA InsertStep == ASSUME IInv, [Next]_vars PROVE InsertInv'
  <1> USE DEF InsertInv, TypeOK, Succ
  <1>0. IInv /\ TypeOK /\ InsertInv BY DEF IInv
  <1>1. CASE UNCHANGED vars
    BY <1>0, <1>1 DEF vars, Limit
  <1>2. ASSUME NEW p \in Inserters, InsertStore(p) PROVE InsertInv'
    BY <1>0, <1>2, LimitIsNat, ThreadsAssumption DEF InsertStore, Limit
  <1>3. ASSUME NEW p \in Inserters, InsertWrap(p) PROVE InsertInv'
    BY <1>0, <1>3, LimitIsNat, ThreadsAssumption DEF InsertWrap, Limit
  <1>4. ASSUME NEW p \in Inserters, InsertRollBack(p) PROVE InsertInv'
    BY <1>0, <1>4, LimitIsNat, ThreadsAssumption DEF InsertRollBack, Limit
  <1>5. ASSUME NEW p \in Inserters, InsertCommit(p) PROVE InsertInv'
    BY <1>0, <1>5, LimitIsNat, ThreadsAssumption
       DEF InsertCommit, indices, Limit
  <1>6. ASSUME NEW p \in Inserters, InsertSignal(p) PROVE InsertInv'
    BY <1>0, <1>6, LimitIsNat, ThreadsAssumption
       DEF InsertSignal, indices, Limit
  <1>7. CASE Extract
    BY <1>0, <1>7 DEF Extract, ExtractReset, ExtractTest, ExtractWake,
                      ExtractTimeout, ExtractTake, indices, Limit
  <1>8. CASE Flush
    BY <1>0, <1>8, LimitIsNat, ThreadsAssumption DEF Flush, Limit
  <1>9. QED
    BY <1>1, <1>2, <1>3, <1>4, <1>5, <1>6, <1>7, <1>8 DEF Next, Insert

(* Steps that leave the entries alone.                                     *)
LEMMA QuietSteps ==
  ASSUME IInv,
         \/ UNCHANGED vars
         \/ \E p \in Inserters :
              InsertWrap(p) \/ InsertRollBack(p) \/ InsertSignal(p)
         \/ ExtractReset \/ ExtractTest \/ ExtractWake \/ ExtractTimeout
         \/ ExtractTake /\ NextExtract = NextInsert
  PROVE  Contents' = Contents /\ Count' = Count /\ EntriesInv'
  <1>1. UNCHANGED <<NextExtract, Storage>>
    BY DEF vars, indices, InsertWrap, InsertRollBack, InsertSignal,
           ExtractReset, ExtractTest, ExtractWake, ExtractTimeout, ExtractTake
  <1>2. CommittedInsert' = CommittedInsert
    BY ThreadsAssumption
       DEF vars, indices, InsertWrap, InsertRollBack, InsertSignal,
           ExtractReset, ExtractTest, ExtractWake, ExtractTimeout,
           ExtractTake, CommittedInsert, IInv, InsertInv
  <1>3. QED BY <1>1, <1>2, EntriesKept

LEMMA FlushEmpties ==
  ASSUME IInv, Flush PROVE Count' = 0
  BY DEF Flush, Count, CommittedInsert

LEMMA EntriesStep == ASSUME IInv, [Next]_vars PROVE EntriesInv'
  <1>1. CASE \/ UNCHANGED vars
             \/ \E p \in Inserters :
                  InsertWrap(p) \/ InsertRollBack(p) \/ InsertSignal(p)
             \/ ExtractReset \/ ExtractTest \/ ExtractWake \/ ExtractTimeout
             \/ ExtractTake /\ NextExtract = NextInsert
    BY <1>1, QuietSteps
  <1>2. ASSUME NEW p \in Inserters, InsertStore(p) PROVE EntriesInv'
    BY <1>2, StoreKeepsEntries
  <1>3. ASSUME NEW p \in Inserters, InsertCommit(p) PROVE EntriesInv'
    <2>1. Count \in Nat /\ Storage' = Storage
      BY <1>3, CountBounds DEF IInv, InsertCommit, indices
    <2>2. ASSUME NEW i \in 1 .. Count + 1 PROVE Storage[Slot(i)] \in Values
      <3>1. CASE i = Count + 1
        BY <1>3, <3>1, CommitAppends
      <3>2. CASE i # Count + 1
        BY <2>1, <3>2 DEF IInv, EntriesInv
      <3>3. QED BY <3>1, <3>2
    <2>3. QED
      BY <1>3, <2>1, <2>2, CommitAppends DEF EntriesInv
  <1>4. CASE ExtractTake /\ NextExtract # NextInsert
    <2>1. Count \in Nat /\ Storage' = Storage
      BY <1>4, CountBounds DEF IInv, ExtractTake
    <2>2. QED
      BY <1>4, <2>1, TakeRemovesFirst DEF IInv, EntriesInv
  <1>5. CASE Flush
    BY <1>5, FlushEmpties DEF EntriesInv
  <1>6. QED
    BY <1>1, <1>2, <1>3, <1>4, <1>5 DEF Next, Insert, Extract

(* Every reachable state of the ring satisfies its inductive invariant.    *)
THEOREM RingInvariant == Spec => []IInv
  <1>1. IInv /\ [Next]_vars => IInv'
    BY TypeStep, InsertStep, EntriesStep DEF IInv
  <1>2. QED BY InitIInv, <1>1, PTL DEF Spec

-----------------------------------------------------------------------------
(* No wakeup is lost.                                                      *)

LEMMA WakeupStep ==
  ASSUME IInv, NoLostWakeup, [Next]_vars PROVE NoLostWakeup'
  <1> USE DEF NoLostWakeup
  <1>1. CASE UNCHANGED vars
    <2>1. Count' = Count /\ UNCHANGED <<xpc, Signal, pc>>
      BY <1>1, QuietSteps DEF vars
    <2>2. QED BY <2>1
  <1>2. ASSUME NEW p \in Inserters, InsertStore(p) PROVE NoLostWakeup'
    <2>1. /\ Count' = Count /\ UNCHANGED <<xpc, Signal>>
          /\ pc' = [pc EXCEPT ![p] = "wrap"] /\ pc[p] = "idle"
      BY <1>2, StoreKeepsEntries DEF InsertStore, extractor
    <2>2. QED BY <2>1 DEF IInv, TypeOK
  <1>3. ASSUME NEW p \in Inserters, InsertWrap(p) PROVE NoLostWakeup'
    <2>1. /\ Count' = Count /\ UNCHANGED <<xpc, Signal>>
          /\ pc' = [pc EXCEPT ![p] = "check"] /\ pc[p] = "wrap"
      BY <1>3, QuietSteps DEF InsertWrap, extractor
    <2>2. QED BY <2>1 DEF IInv, TypeOK
  <1>4. ASSUME NEW p \in Inserters, InsertRollBack(p) PROVE NoLostWakeup'
    <2>1. /\ Count' = Count /\ UNCHANGED <<xpc, Signal>>
          /\ pc' = [pc EXCEPT ![p] = "idle"] /\ pc[p] = "check"
      BY <1>4, QuietSteps DEF InsertRollBack, extractor
    <2>2. QED BY <2>1 DEF IInv, TypeOK
  <1>5. ASSUME NEW p \in Inserters, InsertCommit(p) PROVE NoLostWakeup'
    BY <1>5 DEF InsertCommit, IInv, TypeOK
  <1>6. ASSUME NEW p \in Inserters, InsertSignal(p) PROVE NoLostWakeup'
    BY <1>6 DEF InsertSignal
  <1>7. CASE ExtractTest
    <2>1. CASE xpc' = "take"
      BY <2>1
    <2>2. CASE xpc' = "wait"
      <3>1. NextExtract = NextInsert /\ Count' = Count
        BY <1>7, <2>2, QuietSteps DEF ExtractTest
      <3>2. Count = 0 \/ Count = MaxEntries
        BY <3>1, MaxEntriesAssumption
           DEF IInv, TypeOK, InsertInv, Count, CommittedInsert, Succ, Limit
      <3>3. QED BY <3>1, <3>2
    <2>3. QED BY <1>7, <2>1, <2>2 DEF ExtractTest
  <1>8. CASE ExtractReset \/ ExtractWake \/ ExtractTimeout \/ ExtractTake
             \/ Flush
    BY <1>8 DEF ExtractReset, ExtractWake, ExtractTimeout, ExtractTake,
                Flush, extractor
  <1>9. QED
    BY <1>1, <1>2, <1>3, <1>4, <1>5, <1>6, <1>7, <1>8
       DEF Next, Insert, Extract

(* No wakeup is lost, for any number of inserters and any ring size: a     *)
(* waiting extractor of a ring that holds an entry is signalled, is about  *)
(* to be, or faces a full ring.                                            *)
THEOREM RingNoLostWakeup == Spec => []NoLostWakeup
  <1>1. Init => NoLostWakeup
    BY DEF Init, NoLostWakeup
  <1>2. IInv /\ NoLostWakeup /\ [Next]_vars => NoLostWakeup'
    BY WakeupStep
  <1>3. QED BY RingInvariant, <1>1, <1>2, PTL DEF Spec

-----------------------------------------------------------------------------
(* Refinement.                                                             *)

LEMMA ContentsIsSeq ==
  ASSUME IInv PROVE Contents \in Seq(Values) /\ Len(Contents) = Count
  <1>1. Count \in Nat
    BY CountBounds DEF IInv
  <1>2. \A i \in 1 .. Count : Storage[Slot(i)] \in Values
    BY DEF IInv, EntriesInv
  <1>3. QED BY <1>1, <1>2 DEF Contents

LEMMA CommitIsInsert ==
  ASSUME IInv, NEW p \in Inserters, InsertCommit(p) PROVE Fifo!Insert
  <1> DEFINE v == Storage[OldNextInsert]
  <1>1. /\ Count \in Nat /\ Len(Contents) = Count /\ Storage' = Storage
        /\ Contents \in Seq(Values)
    BY CountBounds, ContentsIsSeq DEF IInv, InsertCommit, indices
  <1>2. Contents' = [i \in 1 .. Count + 1 |-> Storage[Slot(i)]]
    BY <1>1, CommitAppends DEF Contents
  <1>3. Contents' = Append(Contents, v)
    <2>1. \A i \in 1 .. Count + 1 :
            Storage[Slot(i)] = IF i = Count + 1 THEN v ELSE Contents[i]
      BY <1>1, CommitAppends DEF Contents
    <2>2. QED BY <1>1, <1>2, <2>1
  <1>4. QED BY <1>1, <1>3, CommitAppends DEF Fifo!Insert

LEMMA TakeIsExtract ==
  ASSUME IInv, ExtractTake, NextExtract # NextInsert PROVE Fifo!Extract
  <1>1. /\ Count \in Nat /\ Len(Contents) = Count /\ Storage' = Storage
        /\ Contents \in Seq(Values)
    BY CountBounds, ContentsIsSeq DEF IInv, ExtractTake
  <1>2. Contents' = [i \in 1 .. Count - 1 |-> Storage[Slot(i + 1)]]
    BY <1>1, TakeRemovesFirst DEF Contents
  <1>3. \A i \in 1 .. Count - 1 : Contents[i + 1] = Storage[Slot(i + 1)]
    BY <1>1 DEF Contents
  <1>4. Contents # << >>
    BY <1>1, TakeRemovesFirst
  <1>5. /\ Tail(Contents) \in Seq(Values) /\ Len(Tail(Contents)) = Count - 1
        /\ \A i \in 1 .. Count - 1 : Tail(Contents)[i] = Contents[i + 1]
    BY <1>1, <1>4, HeadTailProperties
  <1>6. /\ Contents' \in Seq(Values) /\ Len(Contents') = Count - 1
        /\ \A i \in 1 .. Count - 1 : Contents'[i] = Storage[Slot(i + 1)]
    <2>1. \A i \in 1 .. Count - 1 : Storage[Slot(i + 1)] \in Values
      BY <1>1 DEF IInv, EntriesInv
    <2>2. Count - 1 \in Nat
      BY <1>1, TakeRemovesFirst
    <2>3. QED BY <1>2, <2>1, <2>2
  <1>7. Contents' = Tail(Contents)
    BY <1>3, <1>5, <1>6, SeqEqual
  <1>8. QED BY <1>4, <1>7 DEF Fifo!Extract

(* The ring implements the bounded first-in first-out store of FifoQueue,  *)
(* whatever the interleaving of inserters and extractor.                   *)
THEOREM RingIsFifo == Spec => FifoSpec
  <1>1. Init => Fifo!Init
    <2>1. Init => Count = 0
      BY DEF Init, Count, CommittedInsert
    <2>2. QED BY <2>1 DEF Contents, Fifo!Init
  <1>2. IInv /\ [Next]_vars => [Fifo!Next]_Contents
    <2> SUFFICES ASSUME IInv, [Next]_vars PROVE [Fifo!Next]_Contents
      OBVIOUS
    <2>1. CASE \/ UNCHANGED vars
               \/ \E p \in Inserters :
                    InsertWrap(p) \/ InsertRollBack(p) \/ InsertSignal(p)
               \/ ExtractReset \/ ExtractTest \/ ExtractWake
               \/ ExtractTimeout
               \/ ExtractTake /\ NextExtract = NextInsert
      BY <2>1, QuietSteps
    <2>2. ASSUME NEW p \in Inserters, InsertStore(p)
          PROVE  [Fifo!Next]_Contents
      BY <2>2, StoreKeepsEntries
    <2>3. ASSUME NEW p \in Inserters, InsertCommit(p)
          PROVE  [Fifo!Next]_Contents
      BY <2>3, CommitIsInsert DEF Fifo!Next
    <2>4. CASE ExtractTake /\ NextExtract # NextInsert
      BY <2>4, TakeIsExtract DEF Fifo!Next
    <2>5. CASE Flush
      BY <2>5, FlushEmpties DEF Flush, Fifo!Next, Fifo!Flush, Contents
    <2>6. QED BY <2>1, <2>2, <2>3, <2>4, <2>5 DEF Next, Insert, Extract
  <1>3. QED
    BY RingInvariant, <1>1, <1>2, PTL DEF Spec, FifoSpec, Fifo!Spec
=============================================================================
