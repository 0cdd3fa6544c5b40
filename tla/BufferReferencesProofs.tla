----------------------- MODULE BufferReferencesProofs -----------------------
(* BufferReferences, for every set of buffers and of references: the       *)
(* counts are exact, a buffer is released once and only when nobody refers *)
(* to it, a free buffer holds no other, and none is lost on its way.       *)
EXTENDS BufferReferences, FiniteSetTheorems, TLAPS

LEMMA CountedFinite ==
  /\ \A b : IsFiniteSet(Counted(b)) /\ Cardinality(Counted(b)) \in Nat
  /\ IsFiniteSet(PoolCounted) /\ Cardinality(PoolCounted) \in Nat
  <1>1. \A b : Counted(b) \in SUBSET Refs
    BY DEF Counted
  <1>2. PoolCounted \in SUBSET Refs
    BY DEF PoolCounted
  <1>3. QED
    BY <1>1, <1>2, BuffersAssumption, FS_Subset, FS_CardinalityType

\* The buffer of a reference that is one.
LEMMA BufferOf ==
  ASSUME TypeOK, NEW r \in Refs, pc[r] # "none"
  PROVE  buf[r] \in Buffers /\ buf[r] # NoBuffer
  BY HoldersAssumption DEF TypeOK

-----------------------------------------------------------------------------
LEMMA InitIInv == Init => IInv
  <1> SUFFICES ASSUME Init PROVE IInv OBVIOUS
  <1>1. TypeOK
    BY HoldersAssumption DEF Init, TypeOK
  <1>2. PinsHold
    BY DEF Init, PinsHold
  <1>3. CountsExact
    <2>1. PoolCounted = {} /\ \A b \in Buffers : Counted(b) = {}
      BY DEF Init, PoolCounted, Counted
    <2>2. QED BY <2>1, FS_EmptySet DEF Init, CountsExact
  <1>4. \A r \in Refs : pc[r] = "none" /\ buf[r] = NoBuffer /\ holder[r] = Client
    BY DEF Init
  <1>5. ReleasedOnce
    BY <1>4, HoldersAssumption
       DEF Init, ReleasedOnce, OnlyStale, Takers, Closers
  <1>6. FreeHoldsNothing
    BY <1>4, HoldersAssumption DEF FreeHoldsNothing, Attached
  <1>7. QED BY <1>1, <1>2, <1>3, <1>5, <1>6 DEF IInv

-----------------------------------------------------------------------------
(* Types.                                                                  *)

LEMMA TypeStep == ASSUME TypeOK, [Next]_vars PROVE TypeOK'
  <1> USE HoldersAssumption DEF TypeOK, Goto, Forget, counts, locals
  <1>1. CASE UNCHANGED vars
    BY <1>1 DEF vars
  <1>2. ASSUME NEW r \in Refs, NEW b \in Buffers, GetExtract(r, b)
        PROVE  TypeOK'
    BY <1>2 DEF GetExtract
  <1>3. ASSUME NEW r \in Refs, GetFail(r) PROVE TypeOK'
    BY <1>3, BufferOf DEF GetFail
  <1>4. ASSUME NEW r \in Refs, GetInitialise(r) PROVE TypeOK'
    BY <1>4, BufferOf DEF GetInitialise
  <1>5. ASSUME NEW r \in Refs, GetCount(r) PROVE TypeOK'
    BY <1>5 DEF GetCount
  <1>6. ASSUME NEW r \in Refs, NEW s \in Refs, Increment(r, s) PROVE TypeOK'
    BY <1>6, BufferOf DEF Increment
  <1>7. ASSUME NEW r \in Refs, IncPool(r) PROVE TypeOK'
    BY <1>7 DEF IncPool
  <1>8. ASSUME NEW r \in Refs, IncBuffer(r) PROVE TypeOK'
    BY <1>8, BufferOf DEF IncBuffer
  <1>9. ASSUME NEW r \in Refs, NEW a \in Refs, NEW s \in Refs, Attach(r, a, s)
        PROVE  TypeOK'
    BY <1>9, BufferOf DEF Attach
  <1>10. ASSUME NEW r \in Refs, NEW a \in Refs, Detach(r, a) PROVE TypeOK'
    BY <1>10 DEF Detach
  <1>11. ASSUME NEW r \in Refs, Decrement(r) PROVE TypeOK'
    BY <1>11 DEF Decrement
  <1>12. ASSUME NEW r \in Refs, DecPool(r) PROVE TypeOK'
    BY <1>12 DEF DecPool
  <1>13. ASSUME NEW r \in Refs, DecBuffer(r) PROVE TypeOK'
    BY <1>13, BufferOf DEF DecBuffer
  <1>14. ASSUME NEW r \in Refs, DropLast(r) PROVE TypeOK'
    BY <1>14 DEF DropLast
  <1>15. ASSUME NEW r \in Refs, DropOther(r) PROVE TypeOK'
    BY <1>15 DEF DropOther
  <1>16. ASSUME NEW r \in Refs, NEW q \in Refs, ReleaseAttached(r, q)
         PROVE  TypeOK'
    BY <1>16 DEF ReleaseAttached
  <1>17. ASSUME NEW r \in Refs, ReleaseFree(r) PROVE TypeOK'
    BY <1>17, BufferOf DEF ReleaseFree
  <1>18. QED
    BY <1>1, <1>2, <1>3, <1>4, <1>5, <1>6, <1>7, <1>8, <1>9, <1>10, <1>11,
       <1>12, <1>13, <1>14, <1>15, <1>16, <1>17 DEF Next, Call, Continue

-----------------------------------------------------------------------------
(* The reference a call works from stays.                                  *)

LEMMA PinsStep ==
  ASSUME TypeOK, PinsHold, [Next]_vars PROVE PinsHold'
  <1> USE DEF TypeOK, PinsHold, Goto, Forget, counts, locals
  <1>1. CASE UNCHANGED vars
    BY <1>1 DEF vars
  <1>2. ASSUME NEW r \in Refs, NEW b \in Buffers, GetExtract(r, b)
        PROVE  PinsHold'
    BY <1>2 DEF GetExtract
  <1>3. ASSUME NEW r \in Refs, GetFail(r) PROVE PinsHold'
    BY <1>3 DEF GetFail
  <1>4. ASSUME NEW r \in Refs, GetInitialise(r) PROVE PinsHold'
    BY <1>4 DEF GetInitialise
  <1>5. ASSUME NEW r \in Refs, GetCount(r) PROVE PinsHold'
    BY <1>5 DEF GetCount
  <1>6. ASSUME NEW r \in Refs, NEW s \in Refs, Increment(r, s) PROVE PinsHold'
    BY <1>6 DEF Increment
  <1>7. ASSUME NEW r \in Refs, IncPool(r) PROVE PinsHold'
    BY <1>7 DEF IncPool
  <1>8. ASSUME NEW r \in Refs, IncBuffer(r) PROVE PinsHold'
    BY <1>8 DEF IncBuffer
  <1>9. ASSUME NEW r \in Refs, NEW a \in Refs, NEW s \in Refs, Attach(r, a, s)
        PROVE  PinsHold'
    BY <1>9 DEF Attach
  <1>10. ASSUME NEW r \in Refs, NEW a \in Refs, Detach(r, a) PROVE PinsHold'
    BY <1>10 DEF Detach
  <1>11. ASSUME NEW r \in Refs, Decrement(r) PROVE PinsHold'
    BY <1>11 DEF Decrement, Pinned
  <1>12. ASSUME NEW r \in Refs, DecPool(r) PROVE PinsHold'
    BY <1>12 DEF DecPool
  <1>13. ASSUME NEW r \in Refs, DecBuffer(r) PROVE PinsHold'
    BY <1>13 DEF DecBuffer
  <1>14. ASSUME NEW r \in Refs, DropLast(r) PROVE PinsHold'
    BY <1>14 DEF DropLast
  <1>15. ASSUME NEW r \in Refs, DropOther(r) PROVE PinsHold'
    BY <1>15 DEF DropOther
  <1>16. ASSUME NEW r \in Refs, NEW q \in Refs, ReleaseAttached(r, q)
         PROVE  PinsHold'
    <2>1. buf[r] # Client
      BY <1>16, BufferOf, HoldersAssumption DEF ReleaseAttached
    <2>2. QED BY <1>16, <2>1 DEF ReleaseAttached
  <1>17. ASSUME NEW r \in Refs, ReleaseFree(r) PROVE PinsHold'
    BY <1>17 DEF ReleaseFree
  <1>18. QED
    BY <1>1, <1>2, <1>3, <1>4, <1>5, <1>6, <1>7, <1>8, <1>9, <1>10, <1>11,
       <1>12, <1>13, <1>14, <1>15, <1>16, <1>17 DEF Next, Call, Continue

-----------------------------------------------------------------------------
(* Each buffer is released once.                                           *)

\* Whoever can still do something with b shows that b is in use.
LEMMA InUse ==
  ASSUME TypeOK, PinsHold, ReleasedOnce, NEW s \in Refs,
         pc[s] \in {"counting", "held", "incPool", "incBuffer", "decPool",
                   "decBuffer"}
  PROVE  /\ FreeBuffer[buf[s]] = 0 /\ buf[s] \notin Lost
         /\ Takers(buf[s]) = {} /\ Closers(buf[s]) = {}
  <1>1. buf[s] \in Buffers /\ pc[s] # "dropped"
    BY BufferOf
  <1>2. \A r \in Takers(buf[s]) \cup Closers(buf[s]) : r # s
    BY DEF Takers, Closers
  <1>3. FreeBuffer[buf[s]] = 0 /\ buf[s] \notin Lost
    BY <1>1 DEF ReleasedOnce, OnlyStale
  <1>4. QED BY <1>1, <1>2, <1>3 DEF ReleasedOnce, OnlyStale

LEMMA HoldsStep ==
  ASSUME TypeOK, PinsHold, ReleasedOnce, FreeHoldsNothing, [Next]_vars
  PROVE  FreeHoldsNothing'
  <1> USE HoldersAssumption
      DEF TypeOK, FreeHoldsNothing, Takers, Attached, Goto, Forget, counts, locals
  <1>1. CASE UNCHANGED vars
    BY <1>1 DEF vars
  <1>2. ASSUME NEW r \in Refs, NEW b \in Buffers, GetExtract(r, b)
        PROVE  FreeHoldsNothing'
    BY <1>2 DEF GetExtract
  <1>3. ASSUME NEW r \in Refs, GetFail(r) PROVE FreeHoldsNothing'
    BY <1>3 DEF GetFail
  <1>4. ASSUME NEW r \in Refs, GetInitialise(r) PROVE FreeHoldsNothing'
    BY <1>4 DEF GetInitialise
  <1>5. ASSUME NEW r \in Refs, GetCount(r) PROVE FreeHoldsNothing'
    BY <1>5 DEF GetCount
  <1>6. ASSUME NEW r \in Refs, NEW s \in Refs, Increment(r, s)
        PROVE  FreeHoldsNothing'
    BY <1>6 DEF Increment
  <1>7. ASSUME NEW r \in Refs, IncPool(r) PROVE FreeHoldsNothing'
    BY <1>7 DEF IncPool
  <1>8. ASSUME NEW r \in Refs, IncBuffer(r) PROVE FreeHoldsNothing'
    BY <1>8 DEF IncBuffer
  <1>9. ASSUME NEW r \in Refs, NEW a \in Refs, NEW s \in Refs, Attach(r, a, s)
        PROVE  FreeHoldsNothing'
    <2>1. /\ FreeBuffer[buf[a]] = 0 /\ buf[a] \notin Lost
          /\ Takers(buf[a]) = {}
      BY <1>9, InUse DEF Attach
    <2>2. QED BY <1>9, <2>1 DEF Attach
  <1>10. ASSUME NEW r \in Refs, NEW a \in Refs, Detach(r, a)
        PROVE  FreeHoldsNothing'
    BY <1>10 DEF Detach
  <1>11. ASSUME NEW r \in Refs, Decrement(r) PROVE FreeHoldsNothing'
    BY <1>11 DEF Decrement
  <1>12. ASSUME NEW r \in Refs, DecPool(r) PROVE FreeHoldsNothing'
    BY <1>12 DEF DecPool
  <1>13. ASSUME NEW r \in Refs, DecBuffer(r) PROVE FreeHoldsNothing'
    BY <1>13 DEF DecBuffer
  <1>14. ASSUME NEW r \in Refs, DropLast(r) PROVE FreeHoldsNothing'
    BY <1>14 DEF DropLast
  <1>15. ASSUME NEW r \in Refs, DropOther(r) PROVE FreeHoldsNothing'
    BY <1>15 DEF DropOther
  <1>16. ASSUME NEW r \in Refs, NEW q \in Refs, ReleaseAttached(r, q)
        PROVE  FreeHoldsNothing'
    BY <1>16 DEF ReleaseAttached
  <1>17. ASSUME NEW r \in Refs, ReleaseFree(r) PROVE FreeHoldsNothing'
    BY <1>17 DEF ReleaseFree
  <1>18. QED
    BY <1>1, <1>2, <1>3, <1>4, <1>5, <1>6, <1>7, <1>8, <1>9, <1>10, <1>11,
       <1>12, <1>13, <1>14, <1>15, <1>16, <1>17 DEF Next, Call, Continue

LEMMA OnceStep ==
  ASSUME TypeOK, PinsHold, CountsExact, ReleasedOnce, [Next]_vars
  PROVE  ReleasedOnce'
  <1> USE HoldersAssumption
      DEF TypeOK, PinsHold, ReleasedOnce, OnlyStale, Takers, Closers, Goto,
          Forget, counts, locals
  <1>1. CASE UNCHANGED vars
    BY <1>1 DEF vars
  <1>2. ASSUME NEW r \in Refs, NEW b \in Buffers, GetExtract(r, b)
        PROVE  ReleasedOnce'
    BY <1>2 DEF GetExtract
  <1>3. ASSUME NEW r \in Refs, GetFail(r) PROVE ReleasedOnce'
    BY <1>3 DEF GetFail
  <1>4. ASSUME NEW r \in Refs, GetInitialise(r) PROVE ReleasedOnce'
    BY <1>4 DEF GetInitialise
  <1>5. ASSUME NEW r \in Refs, GetCount(r) PROVE ReleasedOnce'
    BY <1>5 DEF GetCount
  <1>6. ASSUME NEW r \in Refs, NEW s \in Refs, Increment(r, s)
        PROVE  ReleasedOnce'
    BY <1>6 DEF Increment
  <1>7. ASSUME NEW r \in Refs, IncPool(r) PROVE ReleasedOnce'
    BY <1>7 DEF IncPool
  <1>8. ASSUME NEW r \in Refs, IncBuffer(r) PROVE ReleasedOnce'
    BY <1>8 DEF IncBuffer
  <1>9. ASSUME NEW r \in Refs, NEW a \in Refs, NEW s \in Refs, Attach(r, a, s)
        PROVE  ReleasedOnce'
    BY <1>9 DEF Attach
  <1>10. ASSUME NEW r \in Refs, NEW a \in Refs, Detach(r, a)
        PROVE  ReleasedOnce'
    BY <1>10 DEF Detach
  <1>11. ASSUME NEW r \in Refs, Decrement(r) PROVE ReleasedOnce'
    BY <1>11 DEF Decrement
  <1>12. ASSUME NEW r \in Refs, DecPool(r) PROVE ReleasedOnce'
    BY <1>12 DEF DecPool
  <1>13. ASSUME NEW r \in Refs, DecBuffer(r) PROVE ReleasedOnce'
    <2> DEFINE b == buf[r]
    <2>1. /\ b \in Buffers /\ FreeBuffer[b] = 0 /\ b \notin Lost
          /\ Takers(b) = {} /\ Closers(b) = {}
      BY <1>13, InUse, BufferOf DEF DecBuffer
    <2>2. CASE ReferenceCount[b] = 1
      <3>1. Counted(b) = {r}
        <4>1. Cardinality(Counted(b)) = 1 /\ r \in Counted(b)
          BY <1>13, <2>1, <2>2 DEF CountsExact, Counted, DecBuffer
        <4>2. QED BY <4>1, CountedFinite, FS_Singleton
      <3>2. OnlyStale(b, {r})
        <4>1. \A q \in Refs \ {r} : buf[q] = b =>
                pc[q] \notin {"counting", "held", "decPool", "decBuffer",
                             "incPool", "incBuffer", "taken", "release", "none"}
          BY <1>13, <2>1, <3>1 DEF Counted, DecBuffer
        <4>2. QED BY <2>1, <4>1
      <3>3. QED BY <1>13, <2>1, <3>2 DEF DecBuffer
    <2>3. CASE ReferenceCount[b] # 1
      BY <1>13, <2>1, <2>3 DEF DecBuffer
    <2>4. QED BY <2>2, <2>3
  <1>14. ASSUME NEW r \in Refs, DropLast(r) PROVE ReleasedOnce'
    BY <1>14 DEF DropLast
  <1>15. ASSUME NEW r \in Refs, DropOther(r) PROVE ReleasedOnce'
    BY <1>15 DEF DropOther
  <1>16. ASSUME NEW r \in Refs, NEW q \in Refs, ReleaseAttached(r, q)
        PROVE  ReleasedOnce'
    BY <1>16 DEF ReleaseAttached
  <1>17. ASSUME NEW r \in Refs, ReleaseFree(r) PROVE ReleasedOnce'
    BY <1>17 DEF ReleaseFree
  <1>18. QED
    BY <1>1, <1>2, <1>3, <1>4, <1>5, <1>6, <1>7, <1>8, <1>9, <1>10, <1>11,
       <1>12, <1>13, <1>14, <1>15, <1>16, <1>17 DEF Next, Call, Continue

-----------------------------------------------------------------------------
(* The counts.                                                             *)

LEMMA CountsSame ==
  ASSUME CountsExact, UNCHANGED <<ReferenceCount, PoolReferenceCount>>,
         PoolCounted' = PoolCounted,
         \A b \in Buffers : Counted(b)' = Counted(b)
  PROVE  CountsExact'
  BY DEF CountsExact

LEMMA CountsStep ==
  ASSUME TypeOK, PinsHold, CountsExact, ReleasedOnce, [Next]_vars
  PROVE  CountsExact'
  <1> USE HoldersAssumption DEF TypeOK, Goto, Forget, counts, locals
  <1>1. CASE UNCHANGED vars
    BY <1>1, CountsSame DEF vars, PoolCounted, Counted
  <1>2. ASSUME NEW r \in Refs, NEW b \in Buffers, GetExtract(r, b)
        PROVE  CountsExact'
    <2>1. PoolCounted' = PoolCounted /\ \A c \in Buffers : Counted(c)' = Counted(c)
      BY <1>2 DEF GetExtract, PoolCounted, Counted
    <2>2. QED BY <1>2, <2>1, CountsSame DEF GetExtract
  <1>3. ASSUME NEW r \in Refs, GetFail(r) PROVE CountsExact'
    <2>1. PoolCounted' = PoolCounted /\ \A c \in Buffers : Counted(c)' = Counted(c)
      BY <1>3 DEF GetFail, PoolCounted, Counted
    <2>2. QED BY <1>3, <2>1, CountsSame DEF GetFail
  <1>4. ASSUME NEW r \in Refs, GetInitialise(r) PROVE CountsExact'
    <2> PICK b \in Buffers : b = buf[r]
      BY <1>4, BufferOf DEF GetInitialise
    <2>0. ReferenceCount[b] = 0
      <3>1. Counted(b) = {}
        BY <1>4, BufferOf
           DEF GetInitialise, ReleasedOnce, OnlyStale, Takers, Counted
      <3>2. QED BY <3>1, <1>4, BufferOf, FS_EmptySet
                DEF CountsExact, GetInitialise
    <2>1. b \in Buffers /\ Counted(b)' = Counted(b) \cup {r} /\ r \notin Counted(b)
      BY <1>4, BufferOf DEF GetInitialise, Counted
    <2>2. \A c \in Buffers \ {b} : Counted(c)' = Counted(c)
      BY <1>4 DEF GetInitialise, Counted
    <2>3. PoolCounted' = PoolCounted
      BY <1>4 DEF GetInitialise, PoolCounted
    <2>4. Cardinality(Counted(b)') = Cardinality(Counted(b)) + 1
      <3> DEFINE C == Counted(b)
      <3>1. IsFiniteSet(C) /\ Cardinality(C) \in Nat
        BY CountedFinite
      <3>2. r \notin C
        BY <2>1
      <3>3. Cardinality(C \cup {r}) = Cardinality(C) + 1
        <4> HIDE DEF C
        <4>1. QED BY <3>1, <3>2, FS_AddElement
      <3>4. QED BY <2>1, <3>3
    <2>5. ReferenceCount'[b] = Cardinality(Counted(b)')
      BY <1>4, <2>1, <2>4, <2>0 DEF GetInitialise, CountsExact
    <2>6. \A c \in Buffers \ {b} : ReferenceCount'[c] = Cardinality(Counted(c)')
      BY <1>4, <2>2 DEF GetInitialise, CountsExact
    <2>7. PoolReferenceCount' = Cardinality(PoolCounted')
      BY <1>4, <2>3 DEF GetInitialise, CountsExact
    <2>8. QED BY <2>5, <2>6, <2>7 DEF CountsExact
  <1>5. ASSUME NEW r \in Refs, GetCount(r) PROVE CountsExact'
    <2>1. PoolCounted' = PoolCounted \cup {r} /\ r \notin PoolCounted
      BY <1>5 DEF GetCount, PoolCounted
    <2>2. \A c \in Buffers : Counted(c)' = Counted(c)
      BY <1>5 DEF GetCount, Counted
    <2>3. Cardinality(PoolCounted') = Cardinality(PoolCounted) + 1
      BY <2>1, CountedFinite, FS_AddElement
    <2>4. QED BY <1>5, <2>2, <2>3 DEF GetCount, CountsExact
  <1>6. ASSUME NEW r \in Refs, NEW s \in Refs, Increment(r, s)
        PROVE  CountsExact'
    <2>1. PoolCounted' = PoolCounted /\ \A c \in Buffers : Counted(c)' = Counted(c)
      BY <1>6 DEF Increment, PoolCounted, Counted
    <2>2. QED BY <1>6, <2>1, CountsSame DEF Increment
  <1>7. ASSUME NEW r \in Refs, IncPool(r) PROVE CountsExact'
    <2>1. PoolCounted' = PoolCounted \cup {r} /\ r \notin PoolCounted
      BY <1>7 DEF IncPool, PoolCounted
    <2>2. \A c \in Buffers : Counted(c)' = Counted(c)
      BY <1>7 DEF IncPool, Counted
    <2>3. Cardinality(PoolCounted') = Cardinality(PoolCounted) + 1
      BY <2>1, CountedFinite, FS_AddElement
    <2>4. QED BY <1>7, <2>2, <2>3 DEF IncPool, CountsExact
  <1>8. ASSUME NEW r \in Refs, IncBuffer(r) PROVE CountsExact'
    <2> PICK b \in Buffers : b = buf[r]
      BY <1>8, BufferOf DEF IncBuffer
    <2>1. b \in Buffers /\ Counted(b)' = Counted(b) \cup {r} /\ r \notin Counted(b)
      BY <1>8, BufferOf DEF IncBuffer, Counted
    <2>2. \A c \in Buffers \ {b} : Counted(c)' = Counted(c)
      BY <1>8 DEF IncBuffer, Counted
    <2>3. PoolCounted' = PoolCounted
      BY <1>8 DEF IncBuffer, PoolCounted
    <2>4. Cardinality(Counted(b)') = Cardinality(Counted(b)) + 1
      <3> DEFINE C == Counted(b)
      <3>1. IsFiniteSet(C) /\ Cardinality(C) \in Nat
        BY CountedFinite
      <3>2. r \notin C
        BY <2>1
      <3>3. Cardinality(C \cup {r}) = Cardinality(C) + 1
        <4> HIDE DEF C
        <4>1. QED BY <3>1, <3>2, FS_AddElement
      <3>4. QED BY <2>1, <3>3
    <2>5. ReferenceCount'[b] = Cardinality(Counted(b)')
      BY <1>8, <2>1, <2>4 DEF IncBuffer, CountsExact
    <2>6. \A c \in Buffers \ {b} : ReferenceCount'[c] = Cardinality(Counted(c)')
      BY <1>8, <2>2 DEF IncBuffer, CountsExact
    <2>7. PoolReferenceCount' = Cardinality(PoolCounted')
      BY <1>8, <2>3 DEF IncBuffer, CountsExact
    <2>8. QED BY <2>5, <2>6, <2>7 DEF CountsExact
  <1>9. ASSUME NEW r \in Refs, NEW a \in Refs, NEW s \in Refs, Attach(r, a, s)
        PROVE  CountsExact'
    <2>1. PoolCounted' = PoolCounted /\ \A c \in Buffers : Counted(c)' = Counted(c)
      BY <1>9 DEF Attach, PoolCounted, Counted
    <2>2. QED BY <1>9, <2>1, CountsSame DEF Attach
  <1>10. ASSUME NEW r \in Refs, NEW a \in Refs, Detach(r, a)
        PROVE  CountsExact'
    <2>1. PoolCounted' = PoolCounted /\ \A c \in Buffers : Counted(c)' = Counted(c)
      BY <1>10 DEF Detach, PoolCounted, Counted
    <2>2. QED BY <1>10, <2>1, CountsSame DEF Detach
  <1>11. ASSUME NEW r \in Refs, Decrement(r) PROVE CountsExact'
    <2>1. PoolCounted' = PoolCounted /\ \A c \in Buffers : Counted(c)' = Counted(c)
      BY <1>11 DEF Decrement, PoolCounted, Counted
    <2>2. QED BY <1>11, <2>1, CountsSame DEF Decrement
  <1>12. ASSUME NEW r \in Refs, DecPool(r) PROVE CountsExact'
    <2>1. PoolCounted' = PoolCounted \ {r} /\ r \in PoolCounted
      BY <1>12 DEF DecPool, PoolCounted
    <2>2. \A c \in Buffers : Counted(c)' = Counted(c)
      BY <1>12 DEF DecPool, Counted
    <2>3. Cardinality(PoolCounted') = Cardinality(PoolCounted) - 1
      BY <2>1, CountedFinite, FS_RemoveElement
    <2>4. QED BY <1>12, <2>2, <2>3 DEF DecPool, CountsExact
  <1>13. ASSUME NEW r \in Refs, DecBuffer(r) PROVE CountsExact'
    <2> PICK b \in Buffers : b = buf[r]
      BY <1>13, BufferOf DEF DecBuffer
    <2>1. b \in Buffers /\ Counted(b)' = Counted(b) \ {r} /\ r \in Counted(b)
      BY <1>13, BufferOf DEF DecBuffer, Counted
    <2>2. \A c \in Buffers \ {b} : Counted(c)' = Counted(c)
      BY <1>13 DEF DecBuffer, Counted
    <2>3. PoolCounted' = PoolCounted
      BY <1>13 DEF DecBuffer, PoolCounted
    <2>4. Cardinality(Counted(b)') = Cardinality(Counted(b)) - 1
      <3> DEFINE C == Counted(b)
      <3>1. IsFiniteSet(C) /\ Cardinality(C) \in Nat
        BY CountedFinite
      <3>2. r \in C
        BY <2>1
      <3>3. Cardinality(C \ {r}) = Cardinality(C) - 1
        <4> HIDE DEF C
        <4>1. QED BY <3>1, <3>2, FS_RemoveElement
      <3>4. QED BY <2>1, <3>3
    <2>5. ReferenceCount'[b] = Cardinality(Counted(b)')
      BY <1>13, <2>1, <2>4 DEF DecBuffer, CountsExact
    <2>6. \A c \in Buffers \ {b} : ReferenceCount'[c] = Cardinality(Counted(c)')
      BY <1>13, <2>2 DEF DecBuffer, CountsExact
    <2>7. PoolReferenceCount' = Cardinality(PoolCounted')
      BY <1>13, <2>3 DEF DecBuffer, CountsExact
    <2>8. QED BY <2>5, <2>6, <2>7 DEF CountsExact
  <1>14. ASSUME NEW r \in Refs, DropLast(r) PROVE CountsExact'
    <2>1. PoolCounted' = PoolCounted /\ \A c \in Buffers : Counted(c)' = Counted(c)
      BY <1>14 DEF DropLast, PoolCounted, Counted
    <2>2. QED BY <1>14, <2>1, CountsSame DEF DropLast
  <1>15. ASSUME NEW r \in Refs, DropOther(r) PROVE CountsExact'
    <2>1. PoolCounted' = PoolCounted /\ \A c \in Buffers : Counted(c)' = Counted(c)
      BY <1>15 DEF DropOther, PoolCounted, Counted
    <2>2. QED BY <1>15, <2>1, CountsSame DEF DropOther
  <1>16. ASSUME NEW r \in Refs, NEW q \in Refs, ReleaseAttached(r, q)
        PROVE  CountsExact'
    <2>1. PoolCounted' = PoolCounted /\ \A c \in Buffers : Counted(c)' = Counted(c)
      BY <1>16 DEF ReleaseAttached, PoolCounted, Counted
    <2>2. QED BY <1>16, <2>1, CountsSame DEF ReleaseAttached
  <1>17. ASSUME NEW r \in Refs, ReleaseFree(r) PROVE CountsExact'
    <2>1. PoolCounted' = PoolCounted /\ \A c \in Buffers : Counted(c)' = Counted(c)
      BY <1>17 DEF ReleaseFree, PoolCounted, Counted
    <2>2. QED BY <1>17, <2>1, CountsSame DEF ReleaseFree
  <1>18. QED
    BY <1>1, <1>2, <1>3, <1>4, <1>5, <1>6, <1>7, <1>8, <1>9, <1>10, <1>11,
       <1>12, <1>13, <1>14, <1>15, <1>16, <1>17 DEF Next, Call, Continue

-----------------------------------------------------------------------------
(* No buffer gets lost between two steps.                                  *)

\* What keeps a buffer that is not free from being forgotten.
Keepers(b) == Takers(b) \cup Counted(b) \cup Closers(b)

Kept == \A b \in Buffers : FreeBuffer[b] = 1 \/ b \in Lost \/ Keepers(b) # {}

LEMMA InitKept == Init => Kept
  BY DEF Init, Kept

LEMMA KeptStep ==
  ASSUME IInv, Kept, [Next]_vars
  PROVE  Kept'
  <1> USE HoldersAssumption
      DEF IInv, TypeOK, Kept, Keepers, Takers, Counted, Closers, Goto, Forget,
          counts, locals
  <1>1. CASE UNCHANGED vars
    BY <1>1 DEF vars
  <1>2. ASSUME NEW r \in Refs, NEW b \in Buffers, GetExtract(r, b)
        PROVE  Kept'
    <2>1. r \in Takers(b)'
      BY <1>2 DEF GetExtract
    <2>2. ASSUME NEW c \in Buffers, c # b
          PROVE  FreeBuffer'[c] = 1 \/ c \in Lost' \/ Keepers(c)' # {}
      BY <1>2, <2>2 DEF GetExtract
    <2>3. QED BY <2>1, <2>2
  <1>3. ASSUME NEW r \in Refs, GetFail(r) PROVE Kept'
    BY <1>3, BufferOf DEF GetFail
  <1>4. ASSUME NEW r \in Refs, GetInitialise(r) PROVE Kept'
    BY <1>4 DEF GetInitialise
  <1>5. ASSUME NEW r \in Refs, GetCount(r) PROVE Kept'
    BY <1>5 DEF GetCount
  <1>6. ASSUME NEW r \in Refs, NEW s \in Refs, Increment(r, s) PROVE Kept'
    BY <1>6 DEF Increment
  <1>7. ASSUME NEW r \in Refs, IncPool(r) PROVE Kept'
    BY <1>7 DEF IncPool
  <1>8. ASSUME NEW r \in Refs, IncBuffer(r) PROVE Kept'
    BY <1>8 DEF IncBuffer
  <1>9. ASSUME NEW r \in Refs, NEW a \in Refs, NEW s \in Refs, Attach(r, a, s)
        PROVE  Kept'
    BY <1>9 DEF Attach
  <1>10. ASSUME NEW r \in Refs, NEW a \in Refs, Detach(r, a) PROVE Kept'
    BY <1>10 DEF Detach
  <1>11. ASSUME NEW r \in Refs, Decrement(r) PROVE Kept'
    BY <1>11 DEF Decrement
  <1>12. ASSUME NEW r \in Refs, DecPool(r) PROVE Kept'
    BY <1>12 DEF DecPool
  <1>13. ASSUME NEW r \in Refs, DecBuffer(r) PROVE Kept'
    <2> DEFINE b == buf[r]
    <2>1. b \in Buffers
      BY <1>13, BufferOf DEF DecBuffer
    <2>2. CASE ReferenceCount[b] = 1
      <3>1. r \in Closers(b)'
        BY <1>13, <2>1, <2>2 DEF DecBuffer
      <3>2. QED BY <1>13, <2>1, <3>1 DEF DecBuffer
    <2>3. CASE ReferenceCount[b] # 1
      <3>1. Counted(b) # {r}
        <4>1. Cardinality(Counted(b)) # 1
          BY <2>1, <2>3 DEF CountsExact
        <4>2. QED BY <4>1, FS_Singleton
      <3>2. PICK q \in Counted(b) : q # r
        BY <1>13, <2>1, <3>1 DEF DecBuffer
      <3>3. q \in Counted(b)'
        BY <1>13, <3>2 DEF DecBuffer
      <3>4. QED BY <1>13, <2>1, <3>3 DEF DecBuffer
    <2>4. QED BY <2>2, <2>3
  <1>14. ASSUME NEW r \in Refs, DropLast(r) PROVE Kept'
    BY <1>14 DEF DropLast
  <1>15. ASSUME NEW r \in Refs, DropOther(r) PROVE Kept'
    BY <1>15 DEF DropOther
  <1>16. ASSUME NEW r \in Refs, NEW q \in Refs, ReleaseAttached(r, q)
         PROVE  Kept'
    BY <1>16 DEF ReleaseAttached
  <1>17. ASSUME NEW r \in Refs, ReleaseFree(r) PROVE Kept'
    <2>1. buf[r] \in Buffers /\ r \in Closers(buf[r])
      BY <1>17, BufferOf DEF ReleaseFree
    <2>2. FreeBuffer[buf[r]] = 0
      BY <2>1 DEF ReleasedOnce
    <2>3. QED BY <1>17, <2>1, <2>2 DEF ReleaseFree
  <1>18. QED
    BY <1>1, <1>2, <1>3, <1>4, <1>5, <1>6, <1>7, <1>8, <1>9, <1>10, <1>11,
       <1>12, <1>13, <1>14, <1>15, <1>16, <1>17 DEF Next, Call, Continue

\* Of the ways a buffer can be kept there is never more than one.
LEMMA KeptIsConserved ==
  ASSUME IInv, Kept
  PROVE  Conserved
  <1> SUFFICES ASSUME NEW b \in Buffers
               PROVE  FreeBuffer[b] + Cardinality(Takers(b))
                        + Cardinality(Closers(b))
                        + (IF b \in Lost THEN 1 ELSE 0)
                        + (IF Counted(b) # {} THEN 1 ELSE 0) = 1
    BY DEF Conserved
  <1> DEFINE T == Takers(b)
             C == Closers(b)
             N == Counted(b)
  <1>1. /\ FreeBuffer[b] \in {0, 1}
        /\ FreeBuffer[b] = 1 => OnlyStale(b, {})
        /\ b \in Lost => FreeBuffer[b] = 0 /\ OnlyStale(b, {})
        /\ \A r \in T \cup C : FreeBuffer[b] = 0 /\ OnlyStale(b, {r})
    BY DEF IInv, ReleasedOnce
  <1>2. OnlyStale(b, {}) => T = {} /\ C = {} /\ N = {}
    BY DEF OnlyStale, Takers, Closers, Counted
  <1>3. \A r \in T : T = {r} /\ C = {} /\ N = {} /\ b \notin Lost
    <2>1. TAKE r \in T
    <2>2. FreeBuffer[b] = 0 /\ OnlyStale(b, {r})
      BY <1>1
    <2>3. T = {r} /\ C = {} /\ N = {}
      BY <2>1, <2>2 DEF OnlyStale, Takers, Closers, Counted
    <2>4. QED BY <1>1, <1>2, <2>3
  <1>4. \A r \in C : C = {r} /\ T = {} /\ N = {} /\ b \notin Lost
    <2>1. TAKE r \in C
    <2>2. FreeBuffer[b] = 0 /\ OnlyStale(b, {r})
      BY <1>1
    <2>3. C = {r} /\ T = {} /\ N = {}
      BY <2>1, <2>2 DEF OnlyStale, Takers, Closers, Counted
    <2>4. QED BY <1>1, <1>2, <2>3
  <1>5. FreeBuffer[b] = 1 \/ b \in Lost \/ T # {} \/ N # {} \/ C # {}
    BY DEF Kept, Keepers
  <1>6. Cardinality({}) = 0 /\ \A r : Cardinality({r}) = 1
    BY FS_EmptySet, FS_Singleton
  <1>7. CASE T # {}
    <2>1. PICK r \in T : TRUE
      BY <1>7
    <2>2. T = {r} /\ C = {} /\ N = {} /\ b \notin Lost
      BY <1>3
    <2>3. FreeBuffer[b] = 0 /\ Cardinality(T) = 1 /\ Cardinality(C) = 0
      BY <1>1, <1>6, <2>2
    <2>4. QED BY <2>2, <2>3
  <1>8. CASE C # {}
    <2>1. PICK r \in C : TRUE
      BY <1>8
    <2>2. C = {r} /\ T = {} /\ N = {} /\ b \notin Lost
      BY <1>4
    <2>3. FreeBuffer[b] = 0 /\ Cardinality(C) = 1 /\ Cardinality(T) = 0
      BY <1>1, <1>6, <2>2
    <2>4. QED BY <2>2, <2>3
  <1>9. CASE T = {} /\ C = {}
    <2>1. Cardinality(T) = 0 /\ Cardinality(C) = 0
      BY <1>6, <1>9
    <2>2. CASE FreeBuffer[b] = 1
      BY <1>1, <1>2, <2>1, <2>2
    <2>3. CASE b \in Lost
      BY <1>1, <1>2, <2>1, <2>3
    <2>4. CASE FreeBuffer[b] = 0 /\ b \notin Lost
      BY <1>5, <1>9, <2>1, <2>4
    <2>5. QED BY <1>1, <2>2, <2>3, <2>4
  <1>10. QED BY <1>7, <1>8, <1>9

-----------------------------------------------------------------------------
(* The inductive invariant holds of every reachable state.                 *)
THEOREM PoolInvariant == Spec => []IInv
  <1>1. IInv /\ [Next]_vars => IInv'
    BY TypeStep, PinsStep, HoldsStep, OnceStep, CountsStep DEF IInv
  <1>2. QED BY InitIInv, <1>1, PTL DEF Spec

(* A buffer's count is the number of its references and the pool's count   *)
(* is theirs, whatever calls are in progress.                              *)
THEOREM CountsAreExact == Spec => []CountsExact
  <1>1. IInv => CountsExact BY DEF IInv
  <1>2. QED BY PoolInvariant, <1>1, PTL

(* Only one thread does the actual release of a buffer, and only when      *)
(* nobody refers to it or is about to.                                     *)
THEOREM BuffersAreReleasedOnce == Spec => []ReleasedOnce
  <1>1. IInv => ReleasedOnce BY DEF IInv
  <1>2. QED BY PoolInvariant, <1>1, PTL

(* A buffer goes to the free ring with nothing attached to it.             *)
THEOREM FreeBuffersHoldNothing == Spec => []FreeHoldsNothing
  <1>1. IInv => FreeHoldsNothing BY DEF IInv
  <1>2. QED BY PoolInvariant, <1>1, PTL

(* AssertNonZeroReferenceCount never fires on a reference its caller has.  *)
THEOREM AssertionHolds == Spec => []AssertNonZero
  <1>1. IInv => AssertNonZero
    <2> SUFFICES ASSUME IInv, NEW r \in Refs,
                        pc[r] \in {"held", "incPool", "decPool"}
                 PROVE  ReferenceCount[buf[r]] > 0
      BY DEF AssertNonZero
    <2>1. buf[r] \in Buffers
      BY BufferOf DEF IInv
    <2>2. Counted(buf[r]) # {}
      BY <2>1 DEF IInv, PinsHold, TypeOK, Counted
    <2>3. Cardinality(Counted(buf[r])) > 0
      BY <2>2, CountedFinite, FS_EmptySet
    <2>4. QED BY <2>1, <2>3 DEF IInv, CountsExact
  <1>2. QED BY PoolInvariant, <1>1, PTL

(* No buffer is lost but by a GetBuffer that fails: whatever calls are in  *)
(* progress, each buffer is free, lost, being got, referenced or being     *)
(* released, and only one of these.                                        *)
THEOREM BuffersAreConserved == Spec => []Conserved
  <1>1. IInv /\ Kept /\ IInv' /\ [Next]_vars => Kept'
    BY KeptStep
  <1>2. IInv /\ Kept => Conserved
    BY KeptIsConserved
  <1>3. QED BY PoolInvariant, InitKept, <1>1, <1>2, PTL DEF Spec
=============================================================================
