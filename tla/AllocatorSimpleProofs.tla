------------------------ MODULE AllocatorSimpleProofs ------------------------
(* AllocatorSimple, for every memory, table and set of boundaries.  For    *)
(* any number of overlapping calls: no memory is two things at once,       *)
(* nothing crosses a boundary or leaves the memory, free memory is in as   *)
(* few blocks as the boundaries allow, memory is lost only where a Free    *)
(* overwrites an entry it guessed too early, and Free's loop computes what *)
(* the model's definitions say.  When one thread at a time is in Allocate: its *)
(* wakeup is never lost and it is out when the allocator is gone.          *)
EXTENDS AllocatorSimple, FiniteSetTheorems, WellFoundedInduction, TLAPS

-----------------------------------------------------------------------------
(* Least and greatest elements.                                            *)

LEMMA SmallestIs ==
  ASSUME NEW S \in SUBSET Nat, S # {}
  PROVE  Smallest(S) \in S /\ \A y \in S : Smallest(S) <= y
  <1> DEFINE below == {ss \in Nat \X Nat : ss[1] < ss[2]}
  <1>1. IsWellFoundedOn(below, Nat)
    BY NatLessThanWellFounded DEF OpToRel
  <1>2. \E x \in S : \A y \in S : ~(<<y, x>> \in below)
    <2> HIDE DEF below
    <2>1. QED BY <1>1, WFMin
  <1>3. PICK x \in S : \A y \in S : ~(<<y, x>> \in below)
    BY <1>2, Zenon
  <1>4. \A y \in S : ~(y < x)
    BY <1>3
  <1>5. \A y \in S : x <= y
    BY <1>4
  <1>6. QED BY <1>5 DEF Smallest

LEMMA LargestIs ==
  ASSUME NEW S \in SUBSET Nat, S # {}, NEW n \in Nat, \A y \in S : y <= n
  PROVE  Largest(S) \in S /\ \A y \in S : Largest(S) >= y
  <1> DEFINE T == {n - y : y \in S}
  <1>1. T \in SUBSET Nat /\ T # {}
    <2>1. \A y \in S : n - y \in Nat
      OBVIOUS
    <2>2. \A z \in T : z \in Nat
      <3>1. TAKE z \in T
      <3>2. PICK y \in S : z = n - y
        OBVIOUS
      <3>3. QED BY <2>1, <3>2
    <2>3. PICK y \in S : TRUE
      OBVIOUS
    <2>4. n - y \in T
      OBVIOUS
    <2>5. T # {}
      BY <2>4
    <2>6. T \in SUBSET Nat
      <3> HIDE DEF T
      <3> QED BY <2>2
    <2>7. QED BY <2>5, <2>6
  <1>2. Smallest(T) \in T /\ \A z \in T : Smallest(T) <= z
    BY <1>1, SmallestIs
  <1>3. PICK x \in S : Smallest(T) = n - x
    BY <1>2
  <1>4. \A y \in S : x >= y
    <2>1. TAKE y \in S
    <2>2. n - y \in T
      OBVIOUS
    <2>3. n - x <= n - y
      BY <2>2, <1>2, <1>3
    <2>4. QED BY <2>3
  <1>5. QED BY <1>4 DEF Largest

-----------------------------------------------------------------------------
(* All the memory there is, by what it is: a block of the table, what a    *)
(* buffer holds, what is being freed.                                      *)

Owners == ({"free"} \X Indices) \cup ({"held", "freed"} \X Users)

PieceOf(o) == CASE o[1] = "free"  -> FreePiece(o[2])
                [] o[1] = "held"  -> Block[o[2]]
                [] o[1] = "freed" -> FreedPiece(o[2])

memory == [o \in Owners |-> PieceOf(o)]

AnyPiece == [Base : Nat, Size : Nat]

Within(p) == p.Size > 0 => /\ End(p) <= BufferSize
                           /\ \A b \in Boundaries : ~(p.Base < b /\ b < End(p))

Sub(p, q) == p.Size = 0 \/ (q.Base <= p.Base /\ End(p) <= End(q))

LEMMA MemoryOf ==
  /\ \A i \in Indices : memory[<<"free", i>>] = FreePiece(i)
  /\ \A u \in Users : /\ memory[<<"held", u>>] = Block[u]
                      /\ memory[<<"freed", u>>] = FreedPiece(u)
  BY DEF memory, Owners, PieceOf

LEMMA AreOwners ==
  /\ \A i \in Indices : <<"free", i>> \in Owners
  /\ \A u \in Users : <<"held", u>> \in Owners /\ <<"freed", u>> \in Owners
  BY DEF Owners

LEMMA MemoryType == TypeOK => memory \in [Owners -> AnyPiece]
  <1> SUFFICES ASSUME TypeOK PROVE memory \in [Owners -> AnyPiece]
    OBVIOUS
  <1>1. \A i \in Indices : FreePiece(i) \in AnyPiece
    BY DEF TypeOK, FreePiece, NoPiece, Piece, AnyPiece
  <1>2. \A u \in Users : Block[u] \in AnyPiece /\ FreedPiece(u) \in AnyPiece
    BY DEF TypeOK, FreedPiece, NoPiece, Piece, AnyPiece
  <1>3. QED BY <1>1, <1>2 DEF memory, Owners, PieceOf

\* The two properties say this of the memory.
Apart == \A o, q \in Owners : o # q => Disjoint(memory[o], memory[q])
AllWithin == \A o \in Owners : Within(memory[o])

LEMMA DisjointSymmetric ==
  \A p, q : Disjoint(p, q) <=> Disjoint(q, p)
  BY DEF Disjoint

LEMMA NoOverlapIsApart == NoOverlap <=> Apart
  <1>1. ASSUME Apart PROVE NoOverlap
    <2>0. ASSUME NEW o \in Owners, NEW q \in Owners, o # q
          PROVE  Disjoint(memory[o], memory[q])
      BY <1>1, <2>0 DEF Apart
    <2>1. ASSUME NEW i \in Indices, NEW j \in Indices, i # j
          PROVE  Disjoint(FreePiece(i), FreePiece(j))
      <3>1. <<"free", i>> # <<"free", j>>
        BY <2>1
      <3>2. Disjoint(memory[<<"free", i>>], memory[<<"free", j>>])
        BY <3>1, <2>0, AreOwners
      <3>3. QED BY <3>2, MemoryOf
    <2>2. ASSUME NEW u \in Users, NEW v \in Users, u # v
          PROVE  Disjoint(Block[u], Block[v]) /\ Disjoint(FreedPiece(u), FreedPiece(v))
      <3>1. <<"held", u>> # <<"held", v>> /\ <<"freed", u>> # <<"freed", v>>
        BY <2>2
      <3>2. Disjoint(memory[<<"held", u>>], memory[<<"held", v>>])
        BY <3>1, <2>0, AreOwners
      <3>3. Disjoint(memory[<<"freed", u>>], memory[<<"freed", v>>])
        BY <3>1, <2>0, AreOwners
      <3>4. QED BY <3>2, <3>3, MemoryOf
    <2>3. ASSUME NEW u \in Users, NEW v \in Users
          PROVE  Disjoint(Block[u], FreedPiece(v))
      <3>1. <<"held", u>> # <<"freed", v>>
        OBVIOUS
      <3>2. Disjoint(memory[<<"held", u>>], memory[<<"freed", v>>])
        BY <3>1, <2>0, AreOwners
      <3>3. QED BY <3>2, MemoryOf
    <2>4. ASSUME NEW i \in Indices, NEW u \in Users
          PROVE  Disjoint(FreePiece(i), Block[u]) /\ Disjoint(FreePiece(i), FreedPiece(u))
      <3>1. <<"free", i>> # <<"held", u>> /\ <<"free", i>> # <<"freed", u>>
        OBVIOUS
      <3>2. Disjoint(memory[<<"free", i>>], memory[<<"held", u>>])
        BY <3>1, <2>0, AreOwners
      <3>3. Disjoint(memory[<<"free", i>>], memory[<<"freed", u>>])
        BY <3>1, <2>0, AreOwners
      <3>4. QED BY <3>2, <3>3, MemoryOf
    <2>5. QED BY <2>1, <2>2, <2>3, <2>4 DEF NoOverlap
  <1>2. ASSUME NoOverlap, NEW o \in Owners, NEW q \in Owners, o # q
        PROVE  Disjoint(memory[o], memory[q])
    <2>1. CASE o[1] = "free"
      <3>1. PICK i \in Indices : o = <<"free", i>>
        BY <2>1 DEF Owners
      <3>2. \/ \E j \in Indices : q = <<"free", j>>
            \/ \E v \in Users : q = <<"held", v>> \/ q = <<"freed", v>>
        BY DEF Owners
      <3>3. QED BY <1>2, <3>1, <3>2, MemoryOf DEF NoOverlap
    <2>2. CASE o[1] = "held"
      <3>1. PICK u \in Users : o = <<"held", u>>
        BY <2>2 DEF Owners
      <3>2. \/ \E j \in Indices : q = <<"free", j>>
            \/ \E v \in Users : q = <<"held", v>> \/ q = <<"freed", v>>
        BY DEF Owners
      <3>3. QED BY <1>2, <3>1, <3>2, MemoryOf, DisjointSymmetric DEF NoOverlap
    <2>3. CASE o[1] = "freed"
      <3>1. PICK u \in Users : o = <<"freed", u>>
        BY <2>3 DEF Owners
      <3>2. \/ \E j \in Indices : q = <<"free", j>>
            \/ \E v \in Users : q = <<"held", v>> \/ q = <<"freed", v>>
        BY DEF Owners
      <3>3. QED BY <1>2, <3>1, <3>2, MemoryOf, DisjointSymmetric DEF NoOverlap
    <2>4. QED BY <2>1, <2>2, <2>3 DEF Owners
  <1>3. QED BY <1>1, <1>2 DEF Apart

LEMMA NoneCrossesIsAllWithin == NoneCrosses <=> AllWithin
  <1>1. AllPieces = {memory[o] : o \in Owners}
    <2>1. \A o \in Owners : \/ \E i \in Indices : o = <<"free", i>>
                            \/ \E u \in Users : o \in {<<"held", u>>, <<"freed", u>>}
      BY DEF Owners
    <2>2. ASSUME NEW p \in AllPieces
          PROVE  p \in {memory[o] : o \in Owners}
      <3>1. CASE \E i \in Indices : p = FreePiece(i)
        BY <3>1, MemoryOf, AreOwners
      <3>2. CASE \E u \in Users : p = Block[u]
        BY <3>2, MemoryOf, AreOwners
      <3>3. CASE \E u \in Users : p = FreedPiece(u)
        BY <3>3, MemoryOf, AreOwners
      <3>4. QED BY <3>1, <3>2, <3>3 DEF AllPieces
    <2>3. AllPieces \subseteq {memory[o] : o \in Owners}
      BY <2>2
    <2>4. ASSUME NEW o \in Owners PROVE memory[o] \in AllPieces
      <3>1. CASE \E i \in Indices : o = <<"free", i>>
        BY <3>1, MemoryOf DEF AllPieces
      <3>2. CASE \E u \in Users : o \in {<<"held", u>>, <<"freed", u>>}
        <4>1. PICK u \in Users : o = <<"held", u>> \/ o = <<"freed", u>>
          BY <3>2
        <4>2. memory[o] \in {Block[u], FreedPiece(u)}
          BY <4>1, MemoryOf
        <4>3. QED BY <4>2 DEF AllPieces
      <3>3. QED BY <2>1, <3>1, <3>2
    <2>5. QED BY <2>3, <2>4
  <1>2. QED BY <1>1 DEF NoneCrosses, AllWithin, Within

-----------------------------------------------------------------------------
(* The invariant, and the shape all steps have: what one owner has may     *)
(* grow, within the memory and apart from all other memory; what any other *)
(* owner has stays or shrinks.                                             *)

IInv == TypeOK /\ NoOverlap /\ NoneCrosses

OneMoves(t) ==
  /\ \A o \in Owners \ {t} : /\ Sub(memory'[o], memory[o])
                             /\ Disjoint(memory'[t], memory'[o])
  /\ Within(memory'[t])

LEMMA SubDisjoint ==
  ASSUME NEW p \in AnyPiece, NEW q \in AnyPiece, NEW r \in AnyPiece,
         Sub(p, q), Disjoint(q, r)
  PROVE  Disjoint(p, r)
  BY DEF Sub, Disjoint, End, AnyPiece

LEMMA SubWithin ==
  ASSUME NEW p \in AnyPiece, NEW q \in AnyPiece, Sub(p, q), Within(q)
  PROVE  Within(p)
  BY SizesAssumption, BoundariesAssumption DEF Sub, Within, End, AnyPiece

LEMMA OneMovesKeeps ==
  ASSUME IInv, TypeOK', NEW t \in Owners, OneMoves(t)
  PROVE  NoOverlap' /\ NoneCrosses'
  <1>1. memory \in [Owners -> AnyPiece] /\ Apart /\ AllWithin
    BY MemoryType, NoOverlapIsApart, NoneCrossesIsAllWithin DEF IInv
  <1>2. memory' \in [Owners -> AnyPiece]
    <2>1. (TypeOK => memory \in [Owners -> AnyPiece])'
      BY MemoryType, PTL
    <2>2. QED BY <2>1 DEF Owners, Indices
  <1>3. ASSUME NEW o \in Owners, NEW q \in Owners, o # q
        PROVE  Disjoint(memory'[o], memory'[q])
    <2>1. CASE o = t \/ q = t
      BY <1>3, <2>1, DisjointSymmetric DEF OneMoves
    <2>2. CASE o # t /\ q # t
      <3>1. Disjoint(memory[o], memory[q])
        BY <1>1, <1>3 DEF Apart
      <3>2. Disjoint(memory'[o], memory[q])
        BY <2>2, <3>1, <1>1, <1>2, SubDisjoint DEF OneMoves
      <3>3. Disjoint(memory[q], memory'[o])
        BY <3>2, DisjointSymmetric
      <3>4. Disjoint(memory'[q], memory'[o])
        BY <2>2, <3>3, <1>1, <1>2, SubDisjoint DEF OneMoves
      <3>5. QED BY <3>4, DisjointSymmetric
    <2>3. QED BY <2>1, <2>2
  <1>4. ASSUME NEW o \in Owners PROVE Within(memory'[o])
    <2>1. CASE o = t
      BY <2>1 DEF OneMoves
    <2>2. CASE o # t
      <3>1. Within(memory[o])
        BY <1>1 DEF AllWithin
      <3>2. QED BY <2>2, <3>1, <1>1, <1>2, SubWithin DEF OneMoves
    <2>3. QED BY <2>1, <2>2
  <1>5. Owners' = Owners
    BY DEF Owners, Indices
  <1>6. Apart' /\ AllWithin'
    BY <1>3, <1>4, <1>5 DEF Apart, AllWithin, Within, Disjoint, End
  <1>7. (NoOverlap <=> Apart)' /\ (NoneCrosses <=> AllWithin)'
    BY NoOverlapIsApart, NoneCrossesIsAllWithin, PTL
  <1>8. QED BY <1>6, <1>7

-----------------------------------------------------------------------------
(* What the searches through the table find.                               *)

LEMMA IndicesIs ==
  ASSUME TypeOK
  PROVE  /\ Indices \subseteq Nat /\ Slots \subseteq Indices
         /\ \A i \in Indices : /\ Blocks[i].Base \in Nat /\ Blocks[i].Size \in Nat
                               /\ Blocks[i].InUse \in BOOLEAN
  BY SizesAssumption DEF TypeOK, Indices, Slots

LEMMA InMemory ==
  ASSUME IInv, NEW i \in Indices, Blocks[i].InUse
  PROVE  /\ Within(Piece(Blocks[i].Base, Blocks[i].Size))
         /\ Blocks[i].Size = 0 \/ End(Blocks[i]) <= BufferSize
  <1>1. AllWithin /\ <<"free", i>> \in Owners
    BY NoneCrossesIsAllWithin DEF IInv, Owners
  <1>2. Within(FreePiece(i))
    BY <1>1, MemoryOf DEF AllWithin
  <1>3. Within(Piece(Blocks[i].Base, Blocks[i].Size))
    BY <1>2 DEF FreePiece
  <1>4. Blocks[i].Base \in Nat /\ Blocks[i].Size \in Nat
    BY IndicesIs DEF IInv
  <1>5. QED BY <1>3, <1>4 DEF Within, Piece, End

LEMMA FirstFit ==
  ASSUME TypeOK, NEW u \in Users, Fits(u) # {}
  PROVE  LET i == Smallest(Fits(u)) IN
           /\ i \in Indices /\ Blocks[i].InUse
           /\ Arg[u].Size <= Blocks[i].Size
  <1>1. Fits(u) \in SUBSET Nat /\ Fits(u) \subseteq Indices
    BY IndicesIs DEF Fits
  <1>2. Smallest(Fits(u)) \in Fits(u)
    BY <1>1, SmallestIs
  <1>3. QED BY <1>1, <1>2 DEF Fits

LEMMA LargestFit ==
  ASSUME IInv, NEW u \in Users, Fits(u) # {}
  PROVE  LargestFreeBlock \in Indices /\ Blocks[LargestFreeBlock].InUse
  <1> DEFINE used == {i \in Slots : Blocks[i].InUse}
             sizes == {Blocks[i].Size : i \in used}
             best == {i \in used : \A j \in used : Blocks[j].Size <= Blocks[i].Size}
  <1>1. TypeOK /\ used \subseteq Indices /\ used # {}
    BY IndicesIs DEF Fits, IInv
  <1>2. sizes \in SUBSET Nat /\ sizes # {}
    BY <1>1, IndicesIs
  <1>3. \A y \in sizes : y <= BufferSize
    <2>1. TAKE y \in sizes
    <2>2. PICK i \in used : y = Blocks[i].Size
      OBVIOUS
    <2>3. Blocks[i].Size = 0 \/ End(Blocks[i]) <= BufferSize
      BY <1>1, <2>2, InMemory
    <2>4. Blocks[i].Base \in Nat /\ Blocks[i].Size \in Nat
      BY <1>1, IndicesIs
    <2>5. QED BY <2>2, <2>3, <2>4, SizesAssumption DEF End
  <1>4. Largest(sizes) \in sizes /\ \A y \in sizes : Largest(sizes) >= y
    <2> HIDE DEF sizes
    <2>1. QED BY <1>2, <1>3, LargestIs, SizesAssumption
  <1>5. PICK i \in used : Largest(sizes) = Blocks[i].Size
    BY <1>4
  <1>6. i \in best
    BY <1>4, <1>5, <1>1, IndicesIs
  <1>7. best \in SUBSET Nat
    BY <1>1, IndicesIs
  <1>8. Smallest(best) \in best
    <2> HIDE DEF best
    <2>1. QED BY <1>6, <1>7, SmallestIs
  <1>9. QED BY <1>8, <1>1 DEF LargestFreeBlock

LEMMA TargetIs ==
  ASSUME TypeOK, NEW p \in AnyPiece, NEW low \in 0..MaxBlocks
  PROVE  Target(p, low) \in 0..MaxBlocks
  <1> DEFINE S == {low} \cup {i \in Slots : ~Blocks[i].InUse \/ i \in Joined(p)}
  <1>1. S \in SUBSET Nat /\ S # {} /\ S \subseteq 0..MaxBlocks
    BY IndicesIs, SizesAssumption DEF Indices
  <1>2. Smallest(S) \in S
    <2> HIDE DEF S
    <2>1. QED BY <1>1, SmallestIs
  <1>3. QED BY <1>1, <1>2 DEF Target

LEMMA NextHighestIs ==
  ASSUME TypeOK, NEW p \in AnyPiece
  PROVE  /\ NextHighest(p) \in Indices
         /\ \A slot \in Indices : NewHighest(slot, p) \in Indices
  <1> DEFINE S == {0} \cup {i \in Slots : Blocks[i].InUse /\ i \notin Joined(p)}
  <1>1. S \in SUBSET Nat /\ S # {} /\ S \subseteq Indices
    BY IndicesIs, SizesAssumption DEF Indices
  <1>2. \A y \in S : y <= MaxBlocks
    BY <1>1, SizesAssumption DEF Indices
  <1>3. Largest(S) \in S
    <2> HIDE DEF S
    <2>1. QED BY <1>1, <1>2, LargestIs, SizesAssumption
  <1>4. NextHighest(p) \in Indices
    BY <1>1, <1>3 DEF NextHighest
  <1>5. ASSUME NEW slot \in Indices PROVE NewHighest(slot, p) \in Indices
    <2> DEFINE T == {slot, NextHighest(p)}
    <2>1. T \in SUBSET Nat /\ T # {} /\ T \subseteq Indices
      BY <1>4, IndicesIs
    <2>2. \A y \in T : y <= MaxBlocks
      BY <2>1, SizesAssumption DEF Indices
    <2>3. Largest(T) \in T
      <3> HIDE DEF T
      <3>1. QED BY <2>1, <2>2, LargestIs, SizesAssumption
    <2>4. QED BY <2>1, <2>3 DEF NewHighest
  <1>6. QED BY <1>4, <1>5

(* The piece Free puts back: what is freed, and what touches it.           *)
LEMMA ConcatenatedIs ==
  ASSUME IInv, NEW p \in AnyPiece
  PROVE  LET c == Concatenated(p) IN
           /\ c \in AnyPiece
           /\ c.Base <= p.Base /\ End(p) <= End(c)
           /\ \/ c.Base = p.Base
              \/ \E i \in Below(p) : c.Base = Blocks[i].Base
           /\ \/ End(c) = End(p)
              \/ \E i \in Above(p) : End(c) = End(Blocks[i])
           /\ \A i \in Below(p) : c.Base <= Blocks[i].Base
           /\ \A i \in Above(p) : End(Blocks[i]) <= End(c)
  <1> DEFINE L == {p.Base} \cup {Blocks[i].Base : i \in Below(p)}
             H == {End(p)} \cup {End(Blocks[i]) : i \in Above(p)}
  <1>1. TypeOK /\ p.Base \in Nat /\ p.Size \in Nat /\ End(p) \in Nat
    BY DEF IInv, AnyPiece, End
  <1>2. Below(p) \subseteq Indices /\ Above(p) \subseteq Indices
    BY <1>1, IndicesIs DEF Below, Above
  <1>3. L \in SUBSET Nat /\ L # {}
    BY <1>1, <1>2, IndicesIs
  <1>4. H \in SUBSET Nat /\ H # {}
    BY <1>1, <1>2, IndicesIs DEF End
  <1>5. \A y \in H : y <= End(p) + BufferSize
    <2>1. ASSUME NEW i \in Above(p) PROVE End(Blocks[i]) <= End(p) + BufferSize
      <3>1. i \in Indices /\ Blocks[i].InUse /\ Blocks[i].Base = End(p)
        BY <1>2 DEF Above
      <3>2. Blocks[i].Size = 0 \/ End(Blocks[i]) <= BufferSize
        BY <3>1, InMemory
      <3>3. Blocks[i].Size \in Nat
        BY <1>1, <3>1, IndicesIs
      <3>4. QED BY <3>1, <3>2, <3>3, <1>1, SizesAssumption DEF End
    <2>2. QED BY <2>1, <1>1, SizesAssumption
  <1>6. Smallest(L) \in L /\ \A y \in L : Smallest(L) <= y
    <2> HIDE DEF L
    <2>1. QED BY <1>3, SmallestIs
  <1>7. Largest(H) \in H /\ \A y \in H : Largest(H) >= y
    <2>1. End(p) + BufferSize \in Nat
      BY <1>1, SizesAssumption
    <2> HIDE DEF H
    <2>2. QED BY <1>4, <1>5, <2>1, LargestIs
  <1>8. Smallest(L) \in Nat /\ Largest(H) \in Nat
    BY <1>3, <1>4, <1>6, <1>7
  <1>9. Smallest(L) <= p.Base /\ End(p) <= Largest(H) /\ p.Base <= End(p)
    BY <1>6, <1>7, <1>8, <1>1 DEF End
  <1>10. Concatenated(p) = Piece(Smallest(L), Largest(H) - Smallest(L))
    BY DEF Concatenated
  <1>11. /\ Concatenated(p) \in AnyPiece
         /\ Concatenated(p).Base = Smallest(L)
         /\ End(Concatenated(p)) = Largest(H)
    <2> HIDE DEF L, H
    <2>1. QED BY <1>8, <1>9, <1>10, <1>1 DEF Piece, AnyPiece, End
  <1>12. \A i \in Below(p) : Smallest(L) <= Blocks[i].Base
    BY <1>6
  <1>13. \A i \in Above(p) : End(Blocks[i]) <= Largest(H)
    <2>1. ASSUME NEW i \in Above(p) PROVE End(Blocks[i]) <= Largest(H)
      <3>1. End(Blocks[i]) \in H
        OBVIOUS
      <3>2. Largest(H) >= End(Blocks[i]) /\ End(Blocks[i]) \in Nat
        BY <3>1, <1>4, <1>7
      <3> HIDE DEF H
      <3>3. QED BY <3>2, <1>8
    <2>2. QED BY <2>1
  <1>14. QED BY <1>11, <1>9, <1>6, <1>7, <1>12, <1>13

-----------------------------------------------------------------------------
(* Types                                                                   *)

LEMMA RestType ==
  ASSUME NEW b \in [InUse : BOOLEAN, Size : Nat, Base : Nat],
         NEW size \in Nat, size <= b.Size
  PROVE  Rest(b, size) \in [InUse : BOOLEAN, Size : Nat, Base : Nat]
  BY DEF Rest, FreeSlot, Slot, Piece

LEMMA ReturnType ==
  ASSUME TypeOK, NEW u \in Users, Return(u)
  PROVE  /\ pc' \in [Users -> Places]
         /\ Arg' \in [Users -> [Base : Nat, Size : Nat]]
         /\ LowestFreeBlock' \in [Users -> 0..MaxBlocks]
  BY SizesAssumption DEF TypeOK, Return, Goto, Places, NoPiece, Piece

LEMMA FreeInsertType ==
  ASSUME IInv, NEW u \in Users, FreeInsert(u)
  PROVE  /\ Blocks' \in [Indices -> [InUse : BOOLEAN, Size : Nat, Base : Nat]]
         /\ HighestUsedBlockIndex' \in Indices
  <1> DEFINE p == Arg[u]
             slot == Target(p, LowestFreeBlock[u])
  <1>1. TypeOK /\ p \in AnyPiece /\ LowestFreeBlock[u] \in 0..MaxBlocks
    BY DEF IInv, TypeOK, AnyPiece
  <1>2. slot \in Indices
    <2>1. slot \in 0..MaxBlocks
      BY <1>1, TargetIs
    <2>2. slot # MaxBlocks
      BY DEF FreeInsert, HasRoom
    <2> HIDE DEF slot
    <2>3. QED BY <2>1, <2>2, SizesAssumption DEF Indices
  <1>3. Concatenated(p) \in AnyPiece
    BY <1>1, ConcatenatedIs
  <1>4. Slot(Concatenated(p)) \in [InUse : BOOLEAN, Size : Nat, Base : Nat]
    BY <1>3 DEF Slot, AnyPiece
  <1>5. FreeSlot \in [InUse : BOOLEAN, Size : Nat, Base : Nat]
    BY DEF FreeSlot
  <1>6. Blocks' = [i \in Indices |->
                     IF i = slot THEN Slot(Concatenated(p))
                     ELSE IF i \in Joined(p) THEN FreeSlot ELSE Blocks[i]]
    BY DEF FreeInsert
  <1>7. Blocks' \in [Indices -> [InUse : BOOLEAN, Size : Nat, Base : Nat]]
    BY <1>1, <1>4, <1>5, <1>6 DEF TypeOK
  <1>8. HighestUsedBlockIndex' \in Indices
    BY <1>1, <1>2, NextHighestIs DEF FreeInsert
  <1>9. QED BY <1>7, <1>8

LEMMA TypeStep == ASSUME IInv, [Next]_vars PROVE TypeOK'
  <1>1. TypeOK /\ Indices \subseteq Nat
    BY IndicesIs DEF IInv
  <1>2. ASSUME NEW u \in Users, NEW size \in Sizes,
               NEW which \in {"first", "largest"}, Allocate(u, size, which)
        PROVE  TypeOK'
    BY <1>1, <1>2, SizesAssumption
       DEF TypeOK, Allocate, locked, destroy, Goto, Places, Piece, Sizes
  <1>3. ASSUME NEW u \in Users, TakeFirst(u) PROVE TypeOK'
    <2>1. PICK i \in Indices : /\ i = Smallest(Fits(u))
                               /\ Arg[u].Size <= Blocks[i].Size
      BY <1>1, <1>3, FirstFit DEF TakeFirst
    <2>2. /\ Arg[u].Size \in Nat
          /\ Blocks[i] \in [InUse : BOOLEAN, Size : Nat, Base : Nat]
      BY <1>1 DEF TypeOK
    <2>3. Rest(Blocks[i], Arg[u].Size)
            \in [InUse : BOOLEAN, Size : Nat, Base : Nat]
      BY <2>1, <2>2, RestType
    <2>4. /\ Blocks' = [Blocks EXCEPT ![i] = Rest(Blocks[i], Arg[u].Size)]
          /\ Block' = [Block EXCEPT ![u] = Piece(Blocks[i].Base, Arg[u].Size)]
      BY <1>3, <2>1 DEF TakeFirst
    <2>5. /\ Blocks' \in [Indices -> [InUse : BOOLEAN, Size : Nat, Base : Nat]]
          /\ Block' \in [Users -> [Base : Nat, Size : Nat]]
      BY <1>1, <2>2, <2>3, <2>4 DEF TypeOK, Piece
    <2>6. QED
      BY <1>1, <1>3, <2>5, ReturnType DEF TypeOK, TakeFirst, destroy
  <1>4. ASSUME NEW u \in Users, TakeLargest(u) PROVE TypeOK'
    <2>1. LargestFreeBlock \in Indices
      BY <1>4, LargestFit DEF TakeLargest
    <2>2. /\ Blocks' \in [Indices -> [InUse : BOOLEAN, Size : Nat, Base : Nat]]
          /\ Block' \in [Users -> [Base : Nat, Size : Nat]]
      BY <1>1, <1>4, <2>1 DEF TypeOK, TakeLargest, Piece, FreeSlot
    <2>3. QED
      BY <1>1, <1>4, <2>2, ReturnType DEF TypeOK, TakeLargest, destroy
  <1>5. ASSUME NEW u \in Users, Sleep(u) \/ Wake(u) PROVE TypeOK'
    BY <1>1, <1>5 DEF TypeOK, Sleep, Wake, Goto, locked, destroy, Places
  <1>6. ASSUME NEW u \in Users, WakeToLeave(u) \/ Break(u) PROVE TypeOK'
    BY <1>1, <1>6, ReturnType
       DEF TypeOK, WakeToLeave, Break, Leave, locked, destroy
  <1>7. ASSUME NEW u \in Users, ExtendUpwards(u) PROVE TypeOK'
    <2>1. PICK i \in Slots :
            /\ Block' = [Block EXCEPT ![u].Size = @ + Blocks[i].Size]
            /\ Blocks' = [Blocks EXCEPT ![i] = FreeSlot]
      BY <1>7 DEF ExtendUpwards
    <2>2. i \in Indices
      BY <1>1, IndicesIs
    <2>3. /\ Blocks' \in [Indices -> [InUse : BOOLEAN, Size : Nat, Base : Nat]]
          /\ Block' \in [Users -> [Base : Nat, Size : Nat]]
      BY <1>1, <2>1, <2>2 DEF TypeOK, FreeSlot
    <2>4. UNCHANGED <<HighestUsedBlockIndex, EntryFreed, InAllocate, Lock, pc,
                      Arg, LowestFreeBlock, Dropped, destroy>>
      BY <1>7 DEF ExtendUpwards
    <2>5. QED BY <1>1, <2>3, <2>4 DEF TypeOK, destroy
  <1>8. ASSUME NEW u \in Users, ExtendDownwards(u) PROVE TypeOK'
    <2>1. PICK i \in Slots :
            /\ Block' = [Block EXCEPT ![u] = Piece(Blocks[i].Base,
                                                   @.Size + Blocks[i].Size)]
            /\ Blocks' = [Blocks EXCEPT ![i] = FreeSlot]
      BY <1>8 DEF ExtendDownwards
    <2>2. i \in Indices
      BY <1>1, IndicesIs
    <2>3. /\ Blocks' \in [Indices -> [InUse : BOOLEAN, Size : Nat, Base : Nat]]
          /\ Block' \in [Users -> [Base : Nat, Size : Nat]]
      BY <1>1, <2>1, <2>2 DEF TypeOK, FreeSlot, Piece
    <2>4. UNCHANGED <<HighestUsedBlockIndex, EntryFreed, InAllocate, Lock, pc,
                      Arg, LowestFreeBlock, Dropped, destroy>>
      BY <1>8 DEF ExtendDownwards
    <2>5. QED BY <1>1, <2>3, <2>4 DEF TypeOK, destroy
  <1>9. ASSUME NEW u \in Users, NEW keep \in {0} \cup Sizes, Free(u, keep)
        PROVE  TypeOK'
    <2>1. keep \in Nat /\ keep < Block[u].Size
      BY <1>9, SizesAssumption DEF Free, Sizes
    <2>2. /\ Block' \in [Users -> [Base : Nat, Size : Nat]]
          /\ Arg' \in [Users -> [Base : Nat, Size : Nat]]
      BY <1>1, <1>9, <2>1 DEF TypeOK, Free, Piece, NoPiece
    <2>3. LowestFreeBlock' \in [Users -> 0..MaxBlocks]
      BY <1>1, <1>9, SizesAssumption DEF TypeOK, Free, FirstGuess, Indices
    <2>4. QED
      BY <1>1, <1>9, <2>2, <2>3
         DEF TypeOK, Free, locked, destroy, Goto, Places
  <1>10. ASSUME NEW u \in Users, FreeInsert(u) PROVE TypeOK'
    <2>1. /\ Blocks' \in [Indices -> [InUse : BOOLEAN, Size : Nat, Base : Nat]]
          /\ HighestUsedBlockIndex' \in Indices
      BY <1>10, FreeInsertType
    <2>2. QED
      BY <1>1, <1>10, <2>1, ReturnType
         DEF TypeOK, FreeInsert, Tell, destroy
  <1>11. ASSUME NEW u \in Users, FreeTooMany(u) PROVE TypeOK'
    <2>1. Arg[u] \in AnyPiece /\ pc[u] = "free"
      BY <1>1, <1>11 DEF TypeOK, AnyPiece, FreeTooMany, Frees
    <2>2. AllWithin /\ <<"freed", u>> \in Owners
      BY NoneCrossesIsAllWithin DEF IInv, Owners
    <2>3. Within(Arg[u])
      BY <2>1, <2>2, MemoryOf DEF AllWithin, FreedPiece
    <2>4. Units(Arg[u]) \subseteq 0..(BufferSize - 1)
      BY <2>1, <2>3, SizesAssumption DEF Within, Units, End, AnyPiece
    <2>5. Dropped' \subseteq 0..(BufferSize - 1)
      BY <1>1, <1>11, <2>4 DEF TypeOK, FreeTooMany
    <2>6. QED
      BY <1>1, <1>11, <2>5, ReturnType
         DEF TypeOK, FreeTooMany, Tell, destroy
  <1>12. ASSUME Delete \/ Deleting PROVE TypeOK'
    BY <1>1, <1>12
       DEF TypeOK, Delete, Deleting, DeleteSignal, DeleteEnd, locked
  <1>13. ASSUME UNCHANGED vars PROVE TypeOK'
    BY <1>1, <1>13 DEF TypeOK, vars
  <1>14. QED
    BY <1>2, <1>3, <1>4, <1>5, <1>6, <1>7, <1>8, <1>9, <1>10, <1>11, <1>12,
       <1>13 DEF Next, Looking, Waking, Freeing

-----------------------------------------------------------------------------
(* What each step does to the memory.                                      *)

\* Whoever is not t keeps, or loses some of, what it has.
OthersShrink(t) ==
  /\ \A i \in Indices : <<"free", i>> # t => Sub(FreePiece(i)', FreePiece(i))
  /\ \A v \in Users : /\ <<"held", v>> # t => Sub(Block'[v], Block[v])
                      /\ <<"freed", v>> # t =>
                           Sub(FreedPiece(v)', FreedPiece(v))

\* What t has then is apart from the rest.
ApartFrom(t) ==
  /\ \A i \in Indices :
       <<"free", i>> # t => Disjoint(memory'[t], FreePiece(i)')
  /\ \A v \in Users :
       /\ <<"held", v>> # t => Disjoint(memory'[t], Block'[v])
       /\ <<"freed", v>> # t => Disjoint(memory'[t], FreedPiece(v)')

LEMMA MemoryOfNext ==
  /\ \A i \in Indices : memory'[<<"free", i>>] = FreePiece(i)'
  /\ \A u \in Users : /\ memory'[<<"held", u>>] = Block'[u]
                      /\ memory'[<<"freed", u>>] = FreedPiece(u)'
  BY DEF memory, Owners, PieceOf, Indices

LEMMA OneMovesIf ==
  ASSUME NEW t \in Owners, OthersShrink(t), ApartFrom(t), Within(memory'[t])
  PROVE  OneMoves(t)
  <1>1. ASSUME NEW o \in Owners \ {t}
        PROVE  Sub(memory'[o], memory[o]) /\ Disjoint(memory'[t], memory'[o])
    <2>1. CASE \E i \in Indices : o = <<"free", i>>
      BY <2>1, MemoryOf, MemoryOfNext DEF OthersShrink, ApartFrom
    <2>2. CASE \E v \in Users : o = <<"held", v>>
      BY <2>2, MemoryOf, MemoryOfNext DEF OthersShrink, ApartFrom
    <2>3. CASE \E v \in Users : o = <<"freed", v>>
      BY <2>3, MemoryOf, MemoryOfNext DEF OthersShrink, ApartFrom
    <2>4. QED BY <2>1, <2>2, <2>3 DEF Owners
  <1>2. QED BY <1>1 DEF OneMoves

LEMMA SubReflexive == \A p \in AnyPiece : Sub(p, p)
  BY DEF Sub, End, AnyPiece

LEMMA PieceTypes ==
  ASSUME TypeOK
  PROVE  /\ \A i \in Indices : FreePiece(i) \in AnyPiece
         /\ \A u \in Users : Block[u] \in AnyPiece /\ FreedPiece(u) \in AnyPiece
         /\ NoPiece \in AnyPiece
  BY DEF TypeOK, FreePiece, FreedPiece, NoPiece, Piece, AnyPiece

(* A call that is not Free, or that returns, and leaves the rest alone.    *)
LEMMA CallMoves ==
  ASSUME IInv, NEW u \in Users, UNCHANGED <<Blocks, Block>>,
         pc' = [pc EXCEPT ![u] = pc'[u]], pc'[u] # "free",
         \A v \in Users \ {u} : Arg'[v] = Arg[v]
  PROVE  OneMoves(<<"freed", u>>)
  <1> DEFINE t == <<"freed", u>>
  <1>1. TypeOK /\ t \in Owners
    BY DEF IInv, Owners
  <1>2. FreedPiece(u)' = NoPiece /\ memory'[t] = NoPiece
    BY MemoryOfNext DEF FreedPiece, NoPiece, Piece
  <1>3. \A i \in Indices : FreePiece(i)' = FreePiece(i)
    BY DEF FreePiece, NoPiece, Piece
  <1>4. \A v \in Users \ {u} : FreedPiece(v)' = FreedPiece(v)
    BY DEF IInv, TypeOK, FreedPiece, NoPiece, Piece
  <1>5. OthersShrink(t)
    BY <1>1, <1>3, <1>4, PieceTypes, SubReflexive DEF OthersShrink
  <1>6. ApartFrom(t) /\ Within(memory'[t])
    BY <1>2 DEF ApartFrom, Disjoint, Within, NoPiece, Piece
  <1>7. QED BY <1>1, <1>5, <1>6, OneMovesIf

(* Allocate and AllocateLargest cut the front off a block.                 *)
LEMMA TakeMoves ==
  ASSUME IInv, NEW u \in Users, NEW i \in Indices, Blocks[i].InUse,
         NEW size \in Nat, size <= Blocks[i].Size,
         Block' = [Block EXCEPT ![u] = Piece(Blocks[i].Base, size)],
         Blocks' = [Blocks EXCEPT ![i] = Rest(Blocks[i], size)],
         \A v \in Users : FreedPiece(v)' = FreedPiece(v)
  PROVE  OneMoves(<<"held", u>>)
  <1> DEFINE t == <<"held", u>>
             p == Piece(Blocks[i].Base, size)
             q == FreePiece(i)
  <1>1. TypeOK /\ t \in Owners
    BY DEF IInv, Owners
  <1>2. /\ memory'[t] = p /\ p \in AnyPiece
        /\ q = Piece(Blocks[i].Base, Blocks[i].Size) /\ q \in AnyPiece
    BY <1>1, MemoryOfNext, IndicesIs
       DEF TypeOK, FreePiece, Piece, AnyPiece
  <1>3. \A j \in Indices : j # i => FreePiece(j)' = FreePiece(j)
    BY <1>1 DEF TypeOK, FreePiece, NoPiece, Piece
  <1>4. Sub(FreePiece(i)', q) /\ Disjoint(p, FreePiece(i)')
    <2>1. Blocks[i].Base \in Nat /\ Blocks[i].Size \in Nat
      BY <1>1, IndicesIs
    <2>2. FreePiece(i)' =
            IF Blocks[i].Size = size THEN NoPiece
            ELSE Piece(Blocks[i].Base + size, Blocks[i].Size - size)
      BY <1>1 DEF TypeOK, FreePiece, Rest, Slot, FreeSlot, NoPiece, Piece
    <2>3. QED BY <2>1, <2>2, <1>2 DEF Sub, Disjoint, End, NoPiece, Piece
  <1>5. \A v \in Users : v # u => Block'[v] = Block[v]
    BY <1>1 DEF TypeOK
  <1>6. OthersShrink(t)
    BY <1>1, <1>3, <1>4, <1>5, PieceTypes, SubReflexive DEF OthersShrink
  <1>7. Sub(p, q)
    BY <1>1, <1>2, IndicesIs DEF Sub, Piece, End
  <1>8. \A r \in AnyPiece : Disjoint(q, r) => Disjoint(p, r)
    BY <1>2, <1>7, SubDisjoint
  <1>9. ApartFrom(t)
    <2>1. \A j \in Indices : j # i => Disjoint(q, FreePiece(j))
      BY DEF IInv, NoOverlap
    <2>2. \A v \in Users : Disjoint(q, Block[v]) /\ Disjoint(q, FreedPiece(v))
      BY DEF IInv, NoOverlap
    <2> HIDE DEF p, q
    <2>3. QED
      BY <2>1, <2>2, <1>1, <1>2, <1>3, <1>4, <1>5, <1>8, PieceTypes
         DEF ApartFrom
  <1>10. Within(memory'[t])
    <2>1. Within(q)
      BY InMemory, <1>2
    <2>2. QED BY <2>1, <1>2, <1>7, SubWithin
  <1>11. QED BY <1>1, <1>6, <1>9, <1>10, OneMovesIf

(* A piece c that is p with a below it and b above it.                     *)
Joins(c, a, p, b) ==
  /\ {a, b, c, p} \subseteq AnyPiece
  /\ c.Base = a.Base /\ End(a) = p.Base
  /\ End(p) = b.Base /\ End(b) = End(c)
  /\ a.Size > 0 => p.Base \notin Boundaries
  /\ b.Size > 0 => End(p) \notin Boundaries

LEMMA JoinDisjoint ==
  ASSUME NEW a, NEW b, NEW c, NEW p, NEW r \in AnyPiece, Joins(c, a, p, b),
         Disjoint(a, r), Disjoint(p, r), Disjoint(b, r)
  PROVE  Disjoint(c, r)
  BY DEF Joins, Disjoint, End, AnyPiece

LEMMA JoinWithin ==
  ASSUME NEW a, NEW b, NEW c, NEW p, Joins(c, a, p, b),
         Within(a), Within(p), Within(b)
  PROVE  Within(c)
  <1>1. /\ {a, b, c, p} \subseteq AnyPiece
        /\ BufferSize \in Nat /\ Boundaries \subseteq Nat
    BY SizesAssumption, BoundariesAssumption DEF Joins
  <1>2. c.Size > 0 => End(c) <= BufferSize
    BY <1>1 DEF Joins, Within, End, AnyPiece
  <1>3. ASSUME NEW d \in Boundaries, c.Base < d, d < End(c) PROVE FALSE
    <2>1. CASE d < p.Base
      BY <1>1, <1>3, <2>1 DEF Joins, Within, End, AnyPiece
    <2>2. CASE d = p.Base
      BY <1>1, <1>3, <2>2 DEF Joins, Within, End, AnyPiece
    <2>3. CASE p.Base < d /\ d < End(p)
      BY <1>1, <1>3, <2>3 DEF Joins, Within, End, AnyPiece
    <2>4. CASE d = End(p)
      BY <1>1, <1>3, <2>4 DEF Joins, Within, End, AnyPiece
    <2>5. CASE End(p) < d
      BY <1>1, <1>3, <2>5 DEF Joins, Within, End, AnyPiece
    <2>6. QED BY <1>1, <2>1, <2>2, <2>3, <2>4, <2>5 DEF End, AnyPiece
  <1>4. QED BY <1>2, <1>3 DEF Within

(* ExtendToLargest takes a block that touches what the buffer holds.       *)
LEMMA ExtendMoves ==
  ASSUME IInv, NEW u \in Users, NEW i \in Indices, Blocks[i].InUse,
         NEW c, Block' = [Block EXCEPT ![u] = c],
         Blocks' = [Blocks EXCEPT ![i] = FreeSlot],
         UNCHANGED <<pc, Arg>>,
         \E e \in AnyPiece : e.Size = 0 /\
           \/ Joins(c, e, Block[u], FreePiece(i))
           \/ Joins(c, FreePiece(i), Block[u], e)
  PROVE  OneMoves(<<"held", u>>)
  <1> DEFINE t == <<"held", u>>
             q == FreePiece(i)
             b == Block[u]
  <1>1. TypeOK /\ t \in Owners
    BY DEF IInv, Owners
  <1>2. memory'[t] = c /\ q \in AnyPiece /\ b \in AnyPiece
    BY <1>1, MemoryOfNext, PieceTypes DEF TypeOK
  <1>3. \A j \in Indices : j # i => FreePiece(j)' = FreePiece(j)
    BY <1>1 DEF TypeOK, FreePiece, NoPiece, Piece
  <1>4. FreePiece(i)' = NoPiece
    BY <1>1 DEF TypeOK, FreePiece, FreeSlot, NoPiece, Piece
  <1>5. \A v \in Users : /\ v # u => Block'[v] = Block[v]
                         /\ FreedPiece(v)' = FreedPiece(v)
    BY <1>1 DEF TypeOK, FreedPiece, NoPiece, Piece
  <1>6. OthersShrink(t)
    <2>1. Sub(NoPiece, q)
      BY DEF Sub, NoPiece, Piece
    <2>2. QED BY <1>1, <1>3, <1>4, <1>5, <2>1, PieceTypes, SubReflexive
              DEF OthersShrink
  <1>7. PICK e \in AnyPiece : e.Size = 0 /\ (Joins(c, e, b, q) \/ Joins(c, q, b, e))
    OBVIOUS
  <1>8. \A r : Disjoint(e, r)
    BY <1>7 DEF Disjoint
  <1>9. ASSUME NEW r \in AnyPiece, Disjoint(q, r), Disjoint(b, r)
        PROVE  Disjoint(c, r)
    BY <1>7, <1>8, <1>9, JoinDisjoint
  <1>10. ApartFrom(t)
    <2>1. \A j \in Indices : j # i => /\ Disjoint(q, FreePiece(j))
                                      /\ Disjoint(b, FreePiece(j))
      BY DisjointSymmetric DEF IInv, NoOverlap
    <2>2. \A v \in Users : /\ v # u => Disjoint(q, Block[v]) /\ Disjoint(b, Block[v])
                           /\ Disjoint(q, FreedPiece(v)) /\ Disjoint(b, FreedPiece(v))
      BY DEF IInv, NoOverlap
    <2>3. Disjoint(c, NoPiece)
      BY DEF Disjoint, NoPiece, Piece
    <2> HIDE DEF q, b
    <2>4. QED
      BY <2>1, <2>2, <2>3, <1>1, <1>2, <1>3, <1>4, <1>5, <1>9, PieceTypes
         DEF ApartFrom
  <1>11. Within(c)
    <2>1. Within(q)
      BY InMemory DEF FreePiece
    <2>2. AllWithin
      BY NoneCrossesIsAllWithin DEF IInv
    <2>3. Within(b)
      BY <2>2, <1>1, MemoryOf DEF AllWithin
    <2>4. Within(e)
      BY <1>7 DEF Within, AnyPiece
    <2>5. QED BY <1>7, <2>1, <2>3, <2>4, JoinWithin
  <1>12. QED BY <1>1, <1>2, <1>6, <1>10, <1>11, OneMovesIf

(* Free takes the memory from the buffer.                                  *)
LEMMA FreeMoves ==
  ASSUME IInv, NEW u \in Users, NEW keep \in Nat, Free(u, keep)
  PROVE  OneMoves(<<"freed", u>>)
  <1> DEFINE t == <<"freed", u>>
             b == Block[u]
             p == Piece(b.Base + keep, b.Size - keep)
             rest == IF keep = 0 THEN NoPiece ELSE Piece(b.Base, keep)
  <1>1. TypeOK /\ t \in Owners /\ b \in AnyPiece /\ keep < b.Size
    BY DEF IInv, Owners, TypeOK, AnyPiece, Free
  <1>2. memory'[t] = p /\ Block'[u] = rest
    BY <1>1, MemoryOfNext DEF Free, Goto, TypeOK, FreedPiece
  <1>3. p \in AnyPiece /\ rest \in AnyPiece
    BY <1>1 DEF Piece, NoPiece, AnyPiece
  <1>4. Sub(p, b) /\ Sub(rest, b) /\ Disjoint(p, rest)
    BY <1>1 DEF Sub, Disjoint, End, Piece, NoPiece, AnyPiece
  <1>5. /\ \A i \in Indices : FreePiece(i)' = FreePiece(i)
        /\ \A v \in Users : v # u => /\ Block'[v] = Block[v]
                                     /\ FreedPiece(v)' = FreedPiece(v)
    BY <1>1 DEF Free, Goto, TypeOK, locked, FreePiece, FreedPiece, NoPiece, Piece
  <1>6. OthersShrink(t)
    BY <1>1, <1>2, <1>4, <1>5, PieceTypes, SubReflexive DEF OthersShrink
  <1>7. \A r \in AnyPiece : Disjoint(b, r) => Disjoint(p, r)
    BY <1>1, <1>3, <1>4, SubDisjoint
  <1>8. ApartFrom(t)
    <2>1. \A i \in Indices : Disjoint(b, FreePiece(i))
      BY DisjointSymmetric DEF IInv, NoOverlap
    <2>2. \A v \in Users : v # u => Disjoint(b, Block[v]) /\ Disjoint(b, FreedPiece(v))
      BY DEF IInv, NoOverlap
    <2> HIDE DEF p, b, rest
    <2>3. QED
      BY <2>1, <2>2, <1>1, <1>2, <1>4, <1>5, <1>7, PieceTypes DEF ApartFrom
  <1>9. Within(p)
    <2>1. AllWithin
      BY NoneCrossesIsAllWithin DEF IInv
    <2>2. Within(b)
      BY <2>1, MemoryOf DEF AllWithin, Owners
    <2>3. QED BY <2>2, <1>1, <1>3, <1>4, SubWithin
  <1>10. QED BY <1>1, <1>2, <1>6, <1>8, <1>9, OneMovesIf

(* Free puts it in the table, with the blocks that touch it.               *)
LEMMA FreeInsertJoins ==
  ASSUME IInv, NEW p \in AnyPiece
  PROVE  \E a, b \in AnyPiece :
           /\ Joins(Concatenated(p), a, p, b)
           /\ a.Size = 0 \/ \E i \in Below(p) : a = FreePiece(i)
           /\ b.Size = 0 \/ \E i \in Above(p) : b = FreePiece(i)
  <1> DEFINE c == Concatenated(p)
  <1>1. TypeOK /\ p.Base \in Nat /\ p.Size \in Nat
    BY DEF IInv, AnyPiece
  <1>2. /\ c \in AnyPiece
        /\ \/ c.Base = p.Base
           \/ \E i \in Below(p) : c.Base = Blocks[i].Base
        /\ \/ End(c) = End(p)
           \/ \E i \in Above(p) : End(c) = End(Blocks[i])
    BY ConcatenatedIs
  <1> HIDE DEF c
  <1>3. \E a \in AnyPiece :
          /\ c.Base = a.Base /\ End(a) = p.Base
          /\ a.Size > 0 => p.Base \notin Boundaries
          /\ a.Size = 0 \/ \E i \in Below(p) : a = FreePiece(i)
    <2>1. CASE c.Base = p.Base
      <3>1. /\ Piece(p.Base, 0) \in AnyPiece
            /\ Piece(p.Base, 0).Base = p.Base /\ Piece(p.Base, 0).Size = 0
            /\ End(Piece(p.Base, 0)) = p.Base
        BY <1>1 DEF Piece, AnyPiece, End
      <3>2. QED BY <2>1, <3>1
    <2>2. CASE \E i \in Below(p) : c.Base = Blocks[i].Base
      <3>1. PICK i \in Below(p) : c.Base = Blocks[i].Base
        BY <2>2
      <3>2. /\ i \in Indices /\ Blocks[i].InUse /\ End(Blocks[i]) = p.Base
            /\ p.Base \notin Boundaries
        BY <1>1, IndicesIs DEF Below
      <3>3. /\ FreePiece(i) \in AnyPiece /\ FreePiece(i).Base = Blocks[i].Base
            /\ End(FreePiece(i)) = End(Blocks[i])
        BY <1>1, <3>2, PieceTypes DEF FreePiece, Piece, End
      <3>4. QED BY <3>1, <3>2, <3>3
    <2>3. QED BY <1>2, <2>1, <2>2
  <1>4. \E b \in AnyPiece :
          /\ End(p) = b.Base /\ End(b) = End(c)
          /\ b.Size > 0 => End(p) \notin Boundaries
          /\ b.Size = 0 \/ \E i \in Above(p) : b = FreePiece(i)
    <2>1. CASE End(c) = End(p)
      <3>1. /\ Piece(End(p), 0) \in AnyPiece
            /\ Piece(End(p), 0).Base = End(p) /\ Piece(End(p), 0).Size = 0
            /\ End(Piece(End(p), 0)) = End(p)
        BY <1>1 DEF Piece, AnyPiece, End
      <3>2. QED BY <2>1, <3>1
    <2>2. CASE \E i \in Above(p) : End(c) = End(Blocks[i])
      <3>1. PICK i \in Above(p) : End(c) = End(Blocks[i])
        BY <2>2
      <3>2. /\ i \in Indices /\ Blocks[i].InUse /\ Blocks[i].Base = End(p)
            /\ End(p) \notin Boundaries
        BY <1>1, IndicesIs DEF Above
      <3>3. /\ FreePiece(i) \in AnyPiece /\ FreePiece(i).Base = Blocks[i].Base
            /\ End(FreePiece(i)) = End(Blocks[i])
        BY <1>1, <3>2, PieceTypes DEF FreePiece, Piece, End
      <3>4. QED BY <3>1, <3>2, <3>3
    <2>3. QED BY <1>2, <2>1, <2>2
  <1>5. QED BY <1>2, <1>3, <1>4 DEF Joins, c

LEMMA FreeInsertMoves ==
  ASSUME IInv, NEW u \in Users, FreeInsert(u)
  PROVE  \E t \in Owners : OneMoves(t)
  <1> DEFINE p == Arg[u]
             c == Concatenated(p)
  <1>1. TypeOK /\ pc[u] = "free" /\ p \in AnyPiece /\ p = FreedPiece(u)
    BY DEF IInv, FreeInsert, Frees, TypeOK, AnyPiece, FreedPiece
  <1>2. PICK slot \in Indices : slot = Target(p, LowestFreeBlock[u])
    <2>1. LowestFreeBlock[u] \in 0..MaxBlocks
      BY <1>1 DEF TypeOK
    <2>2. Target(p, LowestFreeBlock[u]) \in 0..MaxBlocks
      BY <1>1, <2>1, TargetIs
    <2>3. Target(p, LowestFreeBlock[u]) # MaxBlocks
      BY DEF FreeInsert, HasRoom
    <2>4. QED BY <2>2, <2>3, SizesAssumption DEF Indices
  <1> DEFINE t == <<"free", slot>>
  <1>3. c \in AnyPiece
    BY <1>1, ConcatenatedIs
  <1>4. Blocks' = [i \in Indices |->
                     IF i = slot THEN Slot(c)
                     ELSE IF i \in Joined(p) THEN FreeSlot ELSE Blocks[i]]
    BY <1>2 DEF FreeInsert
  <1>5. /\ \A v \in Users : Block'[v] = Block[v]
        /\ FreedPiece(u)' = NoPiece
        /\ \A v \in Users : v # u => FreedPiece(v)' = FreedPiece(v)
    BY <1>1 DEF FreeInsert, Return, Goto, TypeOK, FreedPiece, NoPiece, Piece
  <1> HIDE DEF c
  <1>6. FreePiece(slot)' = c /\ memory'[t] = c
    <2>1. Blocks'[slot] = Slot(c)
      BY <1>2, <1>4
    <2>2. FreePiece(slot)' = Piece(c.Base, c.Size)
      BY <2>1 DEF FreePiece, Slot
    <2>3. Piece(c.Base, c.Size) = c
      BY <1>3 DEF Piece, AnyPiece
    <2>4. memory'[t] = FreePiece(slot)'
      BY <1>2, MemoryOfNext
    <2>5. QED BY <2>2, <2>3, <2>4
  <1>7. \A i \in Indices : i # slot =>
          FreePiece(i)' = IF i \in Joined(p) THEN NoPiece ELSE FreePiece(i)
    BY <1>4 DEF FreePiece, FreeSlot, NoPiece, Piece
  <1>8. \A q : Sub(NoPiece, q) /\ Disjoint(q, NoPiece)
    BY DEF Sub, Disjoint, NoPiece, Piece
  <1>9. OthersShrink(t)
    BY <1>1, <1>2, <1>5, <1>7, <1>8, PieceTypes, SubReflexive
       DEF OthersShrink
  <1>10. PICK a \in AnyPiece, b \in AnyPiece :
           /\ Joins(c, a, p, b)
           /\ a.Size = 0 \/ \E i \in Below(p) : a = FreePiece(i)
           /\ b.Size = 0 \/ \E i \in Above(p) : b = FreePiece(i)
    BY <1>1, FreeInsertJoins DEF c
  <1>11. Below(p) \subseteq Joined(p) /\ Above(p) \subseteq Joined(p)
         /\ Joined(p) \subseteq Indices
    BY <1>1, IndicesIs DEF Joined, Below, Above
  <1>12. ASSUME NEW r \in AnyPiece, Disjoint(p, r),
                \A i \in Joined(p) : Disjoint(FreePiece(i), r)
         PROVE  Disjoint(c, r)
    <2>1. Disjoint(a, r) /\ Disjoint(b, r)
      BY <1>10, <1>11, <1>12 DEF Disjoint
    <2>2. QED BY <2>1, <1>10, <1>12, JoinDisjoint
  <1>13. ApartFrom(t)
    <2>1. ASSUME NEW j \in Indices, j # slot
          PROVE  Disjoint(c, FreePiece(j)')
      <3>1. CASE j \in Joined(p)
        BY <2>1, <3>1, <1>7, <1>8
      <3>2. CASE j \notin Joined(p)
        <4>1. \A i \in Joined(p) : Disjoint(FreePiece(i), FreePiece(j))
          BY <3>2, <1>11 DEF IInv, NoOverlap
        <4>2. Disjoint(p, FreePiece(j))
          BY <1>1, DisjointSymmetric DEF IInv, NoOverlap
        <4>3. Disjoint(c, FreePiece(j))
          BY <4>1, <4>2, <1>1, <1>12, PieceTypes
        <4>4. QED BY <4>3, <3>2, <2>1, <1>7
      <3>3. QED BY <3>1, <3>2
    <2>2. ASSUME NEW v \in Users PROVE Disjoint(c, Block'[v])
      <3>1. \A i \in Joined(p) : Disjoint(FreePiece(i), Block[v])
        BY <1>11 DEF IInv, NoOverlap
      <3>2. Disjoint(p, Block[v])
        BY <1>1, DisjointSymmetric DEF IInv, NoOverlap
      <3>3. QED BY <3>1, <3>2, <1>1, <1>5, <1>12, PieceTypes
    <2>3. ASSUME NEW v \in Users PROVE Disjoint(c, FreedPiece(v)')
      <3>1. CASE v = u
        BY <3>1, <1>5, <1>8
      <3>2. CASE v # u
        <4>1. \A i \in Joined(p) : Disjoint(FreePiece(i), FreedPiece(v))
          BY <1>11 DEF IInv, NoOverlap
        <4>2. Disjoint(p, FreedPiece(v))
          BY <1>1, <3>2 DEF IInv, NoOverlap
        <4>3. QED BY <4>1, <4>2, <3>2, <1>1, <1>5, <1>12, PieceTypes
      <3>3. QED BY <3>1, <3>2
    <2>4. QED BY <2>1, <2>2, <2>3, <1>6 DEF ApartFrom
  <1>14. Within(c)
    <2>1. AllWithin
      BY NoneCrossesIsAllWithin DEF IInv
    <2>2. \A i \in Indices : Within(FreePiece(i))
      BY <2>1, MemoryOf DEF AllWithin, Owners
    <2>3. Within(p)
      BY <2>1, <1>1, MemoryOf DEF AllWithin, Owners
    <2>4. Within(a) /\ Within(b)
      BY <2>2, <1>10, <1>11 DEF Within, AnyPiece
    <2>5. QED BY <2>3, <2>4, <1>10, JoinWithin
  <1>15. OneMoves(t)
    BY <1>6, <1>9, <1>13, <1>14, OneMovesIf DEF Owners
  <1>16. QED BY <1>15 DEF Owners

-----------------------------------------------------------------------------
(* The invariant is inductive.                                             *)

LEMMA StepMoves ==
  ASSUME IInv, Next
  PROVE  \/ UNCHANGED <<Blocks, Block, pc, Arg>>
         \/ \E t \in Owners : OneMoves(t)
  <1>1. TypeOK /\ \A u \in Users : /\ <<"held", u>> \in Owners
                                   /\ <<"freed", u>> \in Owners
    BY DEF IInv, Owners
  <1>2. ASSUME NEW u \in Users, NEW size \in Sizes,
               NEW which \in {"first", "largest"}, Allocate(u, size, which)
        PROVE  OneMoves(<<"freed", u>>)
    BY <1>1, <1>2, CallMoves DEF Allocate, Goto, TypeOK, locked
  <1>3. ASSUME NEW u \in Users, TakeFirst(u)
        PROVE  OneMoves(<<"held", u>>)
    <2> DEFINE i == Smallest(Fits(u))
    <2>1. i \in Indices /\ Blocks[i].InUse /\ Arg[u].Size <= Blocks[i].Size
      BY <1>1, <1>3, FirstFit DEF TakeFirst
    <2>2. Arg[u].Size \in Nat
      BY <1>1 DEF TypeOK
    <2>3. /\ Block' = [Block EXCEPT ![u] = Piece(Blocks[i].Base, Arg[u].Size)]
          /\ Blocks' = [Blocks EXCEPT ![i] = Rest(Blocks[i], Arg[u].Size)]
      BY <1>3 DEF TakeFirst
    <2>4. \A v \in Users : FreedPiece(v)' = FreedPiece(v)
      BY <1>1, <1>3 DEF TakeFirst, Looks, Return, Goto, TypeOK, FreedPiece,
                        NoPiece, Piece
    <2> HIDE DEF i
    <2>5. QED BY <2>1, <2>2, <2>3, <2>4, TakeMoves
  <1>4. ASSUME NEW u \in Users, TakeLargest(u)
        PROVE  OneMoves(<<"held", u>>)
    <2> DEFINE i == LargestFreeBlock
               size == Blocks[i].Size
    <2>1. i \in Indices /\ Blocks[i].InUse
      BY <1>4, LargestFit DEF TakeLargest
    <2>2. size \in Nat /\ size <= Blocks[i].Size
      BY <1>1, <2>1, IndicesIs
    <2>3. /\ Block' = [Block EXCEPT ![u] = Piece(Blocks[i].Base, size)]
          /\ Blocks' = [Blocks EXCEPT ![i] = Rest(Blocks[i], size)]
      BY <1>4 DEF TakeLargest, Rest
    <2>4. \A v \in Users : FreedPiece(v)' = FreedPiece(v)
      BY <1>1, <1>4 DEF TakeLargest, Looks, Return, Goto, TypeOK, FreedPiece,
                        NoPiece, Piece
    <2> HIDE DEF i, size
    <2>5. QED BY <2>1, <2>2, <2>3, <2>4, TakeMoves
  <1>5. ASSUME NEW u \in Users, Sleep(u) \/ Waking(u) \/ Break(u)
        PROVE  OneMoves(<<"freed", u>>)
    BY <1>1, <1>5, CallMoves
       DEF Sleep, Waking, Wake, WakeToLeave, Break, Return, Goto, TypeOK, locked
  <1>6. ASSUME NEW u \in Users, ExtendUpwards(u)
        PROVE  OneMoves(<<"held", u>>)
    <2> DEFINE b == Block[u]
    <2>1. PICK i \in Slots :
            /\ Blocks[i].InUse /\ Blocks[i].Base = End(b)
            /\ Block' = [Block EXCEPT ![u].Size = @ + Blocks[i].Size]
            /\ Blocks' = [Blocks EXCEPT ![i] = FreeSlot]
      BY <1>6 DEF ExtendUpwards
    <2> DEFINE c == Piece(b.Base, b.Size + Blocks[i].Size)
               e == Piece(b.Base, 0)
    <2>2. i \in Indices /\ FreePiece(i) = Piece(Blocks[i].Base, Blocks[i].Size)
      BY <1>1, <2>1, IndicesIs DEF FreePiece
    <2>3. b \in AnyPiece /\ Blocks[i].Base \in Nat /\ Blocks[i].Size \in Nat
      BY <1>1, <2>2, IndicesIs DEF TypeOK, AnyPiece
    <2>4. Block' = [Block EXCEPT ![u] = c]
      <3>1. [b EXCEPT !.Size = @ + Blocks[i].Size] = c
        BY <2>3 DEF AnyPiece, Piece
      <3>2. QED BY <2>1, <3>1
    <2>5. /\ e \in AnyPiece /\ e.Size = 0
          /\ Joins(c, e, b, FreePiece(i))
      <3>1. End(b) \notin Boundaries
        BY <1>6 DEF ExtendUpwards
      <3>2. QED BY <2>1, <2>2, <2>3, <3>1 DEF Joins, Piece, AnyPiece, End
    <2>6. UNCHANGED <<pc, Arg>>
      BY <1>6 DEF ExtendUpwards
    <2> HIDE DEF c, e
    <2>7. QED BY <2>1, <2>2, <2>4, <2>5, <2>6, ExtendMoves
  <1>7. ASSUME NEW u \in Users, ExtendDownwards(u)
        PROVE  OneMoves(<<"held", u>>)
    <2> DEFINE b == Block[u]
    <2>1. PICK i \in Slots :
            /\ Blocks[i].InUse /\ End(Blocks[i]) = b.Base
            /\ Block' = [Block EXCEPT ![u] = Piece(Blocks[i].Base,
                                                   @.Size + Blocks[i].Size)]
            /\ Blocks' = [Blocks EXCEPT ![i] = FreeSlot]
      BY <1>7 DEF ExtendDownwards
    <2> DEFINE c == Piece(Blocks[i].Base, b.Size + Blocks[i].Size)
               e == Piece(End(b), 0)
    <2>2. i \in Indices /\ FreePiece(i) = Piece(Blocks[i].Base, Blocks[i].Size)
      BY <1>1, <2>1, IndicesIs DEF FreePiece
    <2>3. b \in AnyPiece /\ Blocks[i].Base \in Nat /\ Blocks[i].Size \in Nat
      BY <1>1, <2>2, IndicesIs DEF TypeOK, AnyPiece
    <2>4. Block' = [Block EXCEPT ![u] = c]
      BY <2>1
    <2>5. /\ e \in AnyPiece /\ e.Size = 0
          /\ Joins(c, FreePiece(i), b, e)
      <3>1. b.Base \notin Boundaries
        BY <1>7 DEF ExtendDownwards
      <3>2. QED BY <2>1, <2>2, <2>3, <3>1 DEF Joins, Piece, AnyPiece, End
    <2>6. UNCHANGED <<pc, Arg>>
      BY <1>7 DEF ExtendDownwards
    <2> HIDE DEF c, e
    <2>7. QED BY <2>1, <2>2, <2>4, <2>5, <2>6, ExtendMoves
  <1>8. ASSUME NEW u \in Users, NEW keep \in {0} \cup Sizes, Free(u, keep)
        PROVE  OneMoves(<<"freed", u>>)
    <2>1. keep \in Nat
      BY SizesAssumption DEF Sizes
    <2>2. QED BY <2>1, <1>8, FreeMoves
  <1>9. ASSUME NEW u \in Users, FreeTooMany(u)
        PROVE  OneMoves(<<"freed", u>>)
    BY <1>1, <1>9, CallMoves DEF FreeTooMany, Return, Goto, TypeOK
  <1>10. ASSUME Delete \/ Deleting PROVE UNCHANGED <<Blocks, Block, pc, Arg>>
    BY <1>10 DEF Delete, Deleting, DeleteSignal, DeleteEnd, locked
  <1>11. QED
    BY <1>1, <1>2, <1>3, <1>4, <1>5, <1>6, <1>7, <1>8, <1>9, <1>10,
       FreeInsertMoves DEF Next, Looking, Freeing

LEMMA IInvStep == ASSUME IInv, [Next]_vars PROVE IInv'
  <1>1. TypeOK'
    BY TypeStep
  <1>2. CASE UNCHANGED <<Blocks, Block, pc, Arg>>
    <2>1. /\ \A i : FreePiece(i)' = FreePiece(i)
          /\ \A u : FreedPiece(u)' = FreedPiece(u)
      BY <1>2 DEF FreePiece, FreedPiece, NoPiece, Piece
    <2>2. AllPieces' = AllPieces
      BY <1>2, <2>1 DEF AllPieces, Indices
    <2>3. NoOverlap' /\ NoneCrosses'
      BY <1>2, <2>1, <2>2
         DEF IInv, NoOverlap, NoneCrosses, Disjoint, End, Indices
    <2>4. QED BY <1>1, <2>3 DEF IInv
  <1>3. CASE \E t \in Owners : OneMoves(t)
    BY <1>1, <1>3, OneMovesKeeps DEF IInv
  <1>4. CASE UNCHANGED vars
    BY <1>2, <1>4 DEF vars
  <1>5. QED BY <1>2, <1>3, <1>4, StepMoves

(* The memory as Free() leaves it.                                         *)
LEMMA StartsAre ==
  /\ Starts \in SUBSET Nat /\ \A s \in Starts : s < BufferSize
  /\ IsFiniteSet(Starts)
  /\ \A s \in Starts :
       /\ After(s) \in Nat /\ s < After(s) /\ After(s) <= BufferSize
       /\ \A r \in Starts : s < r => After(s) <= r
  <1>1. Starts \in SUBSET Nat /\ \A s \in Starts : s < BufferSize
    <2>1. BufferSize \in Nat /\ 0 < BufferSize
      BY SizesAssumption
    <2>2. ASSUME NEW s \in Starts PROVE s \in Nat /\ s < BufferSize
      BY <2>1, BoundariesAssumption DEF Starts
    <2>3. QED BY <2>2
  <1>2. IsFiniteSet(Starts)
    <2>1. BufferSize \in Nat /\ \A s \in Starts : s <= BufferSize
      BY <1>1, SizesAssumption
    <2>2. QED BY <1>1, <2>1, FS_BoundedSetOfNaturals
  <1>3. ASSUME NEW s \in Starts
        PROVE  /\ After(s) \in Nat /\ s < After(s) /\ After(s) <= BufferSize
               /\ \A r \in Starts : s < r => After(s) <= r
    <2> DEFINE S == {r \in Starts : r > s} \cup {BufferSize}
    <2>1. S \in SUBSET Nat /\ S # {} /\ \A r \in S : r > s
      BY <1>1, SizesAssumption
    <2>2. Smallest(S) \in S /\ \A y \in S : Smallest(S) <= y
      <3> HIDE DEF S
      <3>1. QED BY <2>1, SmallestIs
    <2>3. After(s) = Smallest(S)
      BY DEF After
    <2>4. \A r \in Starts : s < r => r \in S
      BY <1>1
    <2>5. BufferSize \in S
      OBVIOUS
    <2> HIDE DEF S
    <2>6. QED BY <2>1, <2>2, <2>3, <2>4, <2>5, <1>1
  <1>4. QED BY <1>1, <1>2, <1>3

LEMMA PiecesAre ==
  /\ Pieces \subseteq Starts /\ IsFiniteSet(Pieces)
  /\ \A s \in Pieces : Ordinal(s) \in Indices
  /\ Cardinality(Pieces) \in 1..MaxBlocks
  <1>1. /\ Pieces \subseteq Starts /\ IsFiniteSet(Pieces)
        /\ Cardinality(Pieces) \in Nat
    BY StartsAre, FS_Subset, FS_CardinalityType DEF Pieces
  <1> DEFINE Under(s) == {r \in Starts : r < s}
  <1>2. \A s \in Starts : /\ IsFiniteSet(Under(s))
                          /\ Ordinal(s) = Cardinality(Under(s))
                          /\ Ordinal(s) \in Nat
    BY StartsAre, FS_Subset, FS_CardinalityType DEF Ordinal
  <1> HIDE DEF Under
  <1>3. \A s \in Pieces : Ordinal(s) \in Indices
    <2>1. TAKE s \in Pieces
    <2>2. s \in Starts /\ Ordinal(s) < MaxBlocks
      BY DEF Pieces
    <2>3. Ordinal(s) \in Nat
      BY <2>2, <1>2
    <2>4. QED BY <2>2, <2>3, SizesAssumption DEF Indices
  <1>4. ASSUME NEW s \in Starts, NEW t \in Starts, s < t
        PROVE  Ordinal(s) # Ordinal(t)
    <2>1. Under(s) \in SUBSET Under(t) /\ s \in Under(t) /\ s \notin Under(s)
      <3>1. \A r \in Starts : r \in Nat
        BY StartsAre
      <3>2. QED BY <1>4, <3>1 DEF Under
    <2>2. Cardinality(Under(s)) # Cardinality(Under(t))
      BY <2>1, <1>2, FS_Subset
    <2>3. QED BY <2>2, <1>2
  <1>5. Cardinality(Pieces) <= MaxBlocks
    <2>1. SUFFICES ASSUME MaxBlocks < Cardinality(Pieces) PROVE FALSE
      BY <1>1, SizesAssumption
    <2>2. IsFiniteSet(Indices) /\ Cardinality(Indices) = MaxBlocks
      BY FS_Interval, SizesAssumption DEF Indices
    <2> DEFINE f == [s \in Pieces |-> Ordinal(s)]
    <2>3. f \in [Pieces -> Indices]
      BY <1>3
    <2>4. \E x, y \in Pieces : x # y /\ f[x] = f[y]
      <3> HIDE DEF f
      <3>1. QED BY <2>1, <2>2, <2>3, <1>1, FS_PigeonHole
    <2>5. PICK x \in Pieces, y \in Pieces : x # y /\ Ordinal(x) = Ordinal(y)
      BY <2>4
    <2>6. x \in Nat /\ y \in Nat /\ x \in Starts /\ y \in Starts
      BY <1>1, StartsAre
    <2>7. x < y \/ y < x
      BY <2>5, <2>6
    <2>8. QED BY <2>5, <2>6, <2>7, <1>4
  <1>6. Cardinality(Pieces) # 0
    <2>1. 0 \in Starts
      BY DEF Starts
    <2>2. Under(0) = {}
      <3>1. \A r \in Starts : r \in Nat
        BY StartsAre
      <3>2. QED BY <3>1 DEF Under
    <2>3. Ordinal(0) = 0
      BY <2>1, <2>2, <1>2, FS_EmptySet
    <2>4. 0 \in Pieces
      BY <2>1, <2>3, SizesAssumption DEF Pieces
    <2>5. QED BY <2>4, <1>1, FS_EmptySet
  <1>7. QED BY <1>1, <1>3, <1>5, <1>6

LEMMA InitIInv == Init => IInv
  <1> SUFFICES ASSUME Init PROVE IInv
    OBVIOUS
  <1> DEFINE Has(i) == \E s \in Pieces : Ordinal(s) = i
             At(i) == CHOOSE s \in Pieces : Ordinal(s) = i
  <1>1. \A i \in Indices : Has(i) =>
          /\ At(i) \in Pieces /\ Ordinal(At(i)) = i /\ At(i) \in Nat
          /\ After(At(i)) \in Nat /\ At(i) < After(At(i))
          /\ After(At(i)) <= BufferSize
    BY PiecesAre, StartsAre
  <1>2. Blocks = [i \in Indices |->
                    IF Has(i) THEN Slot(Piece(At(i), After(At(i)) - At(i)))
                    ELSE FreeSlot]
    BY DEF Init
  <1> HIDE DEF Has, At
  <1>3. Blocks \in [Indices -> [InUse : BOOLEAN, Size : Nat, Base : Nat]]
    BY <1>1, <1>2 DEF Slot, Piece, FreeSlot
  <1>4. HighestUsedBlockIndex \in Indices
    BY PiecesAre, SizesAssumption DEF Init, Indices
  <1>5. TypeOK
    <2>1. /\ Block \in [Users -> [Base : Nat, Size : Nat]]
          /\ Arg \in [Users -> [Base : Nat, Size : Nat]]
      BY DEF Init, NoPiece, Piece
    <2>2. /\ LowestFreeBlock \in [Users -> 0..MaxBlocks]
          /\ pc \in [Users -> Places]
      BY SizesAssumption DEF Init, Places
    <2>3. QED BY <1>3, <1>4, <2>1, <2>2 DEF Init, TypeOK
  <1>6. \A u \in Users : Block[u] = NoPiece /\ FreedPiece(u) = NoPiece
    BY DEF Init, FreedPiece
  <1>7. \A i \in Indices :
          FreePiece(i) = IF Has(i) THEN Piece(At(i), After(At(i)) - At(i))
                         ELSE NoPiece
    BY <1>2 DEF FreePiece, Slot, Piece, FreeSlot
  <1>8. NoOverlap
    <2>1. ASSUME NEW i \in Indices, NEW j \in Indices, i # j
          PROVE  Disjoint(FreePiece(i), FreePiece(j))
      <3>1. CASE Has(i) /\ Has(j)
        <4>1. /\ At(i) \in Starts /\ At(j) \in Starts /\ At(i) # At(j)
              /\ At(i) \in Nat /\ At(j) \in Nat
          BY <1>1, <2>1, <3>1, PiecesAre
        <4>2. After(At(i)) <= At(j) \/ After(At(j)) <= At(i)
          BY <4>1, StartsAre
        <4>3. QED BY <4>1, <4>2, <3>1, <1>1, <1>7 DEF Disjoint, Piece, End
      <3>2. CASE ~Has(i) \/ ~Has(j)
        BY <3>2, <1>7 DEF Disjoint, NoPiece, Piece
      <3>3. QED BY <3>1, <3>2
    <2>2. \A p : Disjoint(p, NoPiece) /\ Disjoint(NoPiece, p)
      BY DEF Disjoint, NoPiece, Piece
    <2>3. QED BY <2>1, <2>2, <1>6 DEF NoOverlap
  <1>9. NoneCrosses
    <2>1. Within(NoPiece)
      BY DEF Within, NoPiece, Piece
    <2>2. ASSUME NEW i \in Indices, Has(i)
          PROVE  Within(Piece(At(i), After(At(i)) - At(i)))
      <3>1. /\ At(i) \in Starts /\ At(i) \in Nat /\ After(At(i)) \in Nat
            /\ After(At(i)) <= BufferSize
        BY <1>1, <2>2, PiecesAre
      <3>2. ASSUME NEW b \in Boundaries, At(i) < b, b < After(At(i))
            PROVE  FALSE
        <4>1. b \in Nat /\ b \in Starts
          BY <3>1, <3>2, BoundariesAssumption, SizesAssumption DEF Starts
        <4>2. QED BY <4>1, <3>1, <3>2, StartsAre
      <3>3. End(Piece(At(i), After(At(i)) - At(i))) = After(At(i))
        BY <3>1 DEF End, Piece
      <3>4. QED BY <3>1, <3>2, <3>3 DEF Within, Piece
    <2>3. \A p \in AllPieces : Within(p)
      BY <2>1, <2>2, <1>6, <1>7 DEF AllPieces
    <2>4. QED BY <2>3 DEF NoneCrosses, Within
  <1>10. QED BY <1>5, <1>8, <1>9 DEF IInv

-----------------------------------------------------------------------------
(* The table stays in its bounds and so do the locals, whatever the calls  *)
(* that overlap, and with it the two properties below.                     *)
THEOREM AllocatorInvariant == Spec => []IInv
  <1>1. Init => IInv
    BY InitIInv
  <1>2. IInv /\ [Next]_vars => IInv'
    BY IInvStep
  <1>3. QED BY <1>1, <1>2, PTL DEF Spec

(* No memory is two things at once, a free block, the memory of a buffer   *)
(* or memory being freed, for any number of overlapping calls of Allocate, *)
(* AllocateLargest, ExtendToLargest and Free.                              *)
THEOREM MemoryIsOnce == Spec => []NoOverlap
  <1>1. IInv => NoOverlap
    BY DEF IInv
  <1>2. QED BY <1>1, AllocatorInvariant, PTL

(* No block and no buffer's memory crosses a boundary or leaves the pool's *)
(* memory, wherever the boundaries are.                                    *)
THEOREM NothingCrosses == Spec => []NoneCrosses
  <1>1. IInv => NoneCrosses
    BY DEF IInv
  <1>2. QED BY <1>1, AllocatorInvariant, PTL


-----------------------------------------------------------------------------
(* The table, for any number of calls.                                     *)

\* A block in use is not empty, and the searches reach it.
InSight == \A i \in Indices : Blocks[i].InUse =>
             Blocks[i].Size > 0 /\ i <= HighestUsedBlockIndex

\* Nobody asks for nothing, or frees nothing.
Asked == \A u \in Users : pc[u] # "idle" => Arg[u].Size > 0

TableInv == InSight /\ Asked /\ Concatenation

\* The table loses entry i.
LEMMA ClearKeeps ==
  ASSUME TypeOK, InSight, Concatenation, NEW i \in Indices,
         Blocks' = [Blocks EXCEPT ![i] = FreeSlot],
         UNCHANGED HighestUsedBlockIndex
  PROVE  InSight' /\ Concatenation'
  <1>1. \A j \in Indices : Blocks'[j].InUse => j # i /\ Blocks'[j] = Blocks[j]
    BY DEF TypeOK, FreeSlot
  <1>2. Indices' = Indices
    BY DEF Indices
  <1>3. QED BY <1>1, <1>2 DEF InSight, Concatenation, End

\* The front of entry i is cut off.
LEMMA CutKeeps ==
  ASSUME IInv, InSight, Concatenation, NEW i \in Indices, Blocks[i].InUse,
         NEW size \in Nat, size > 0, size < Blocks[i].Size,
         Blocks' = [Blocks EXCEPT ![i] = Slot(Piece(Blocks[i].Base + size,
                                                    Blocks[i].Size - size))],
         UNCHANGED HighestUsedBlockIndex
  PROVE  InSight' /\ Concatenation'
  <1>1. TypeOK /\ Indices' = Indices
    BY DEF IInv, Indices
  <1>2. \A j \in Indices : /\ Blocks[j].Base \in Nat /\ Blocks[j].Size \in Nat
                           /\ End(Blocks[j]) \in Nat
    BY <1>1, IndicesIs DEF End
  <1>3. /\ Blocks'[i].InUse /\ Blocks'[i].Base = Blocks[i].Base + size
        /\ Blocks'[i].Size = Blocks[i].Size - size
        /\ End(Blocks'[i]) = End(Blocks[i])
    BY <1>1, <1>2 DEF TypeOK, Slot, Piece, End
  <1>4. \A j \in Indices : j # i => Blocks'[j] = Blocks[j]
    BY <1>1 DEF TypeOK
  <1>5. InSight'
    BY <1>1, <1>2, <1>3, <1>4 DEF InSight
  <1>6. ASSUME NEW j \in Indices, NEW k \in Indices,
               Blocks'[j].InUse, Blocks'[k].InUse,
               End(Blocks'[j]) = Blocks'[k].Base
        PROVE  Blocks'[k].Base \in Boundaries
    <2>1. CASE k # i
      <3>1. Blocks[j].InUse /\ End(Blocks[j]) = Blocks[k].Base
        BY <1>3, <1>4, <1>6, <2>1
      <3>2. QED BY <1>4, <1>6, <2>1, <3>1 DEF Concatenation
    <2>2. CASE k = i /\ j = i
      BY <1>2, <1>3, <1>6, <2>2 DEF End
    <2>3. CASE k = i /\ j # i
      <3>1. Blocks[j].InUse /\ End(Blocks[j]) = Blocks[i].Base + size
        BY <1>3, <1>4, <1>6, <2>3
      <3>2. Disjoint(FreePiece(i), FreePiece(j))
        BY <2>3 DEF IInv, NoOverlap
      <3>3. Blocks[j].Size > 0
        BY <3>1 DEF InSight
      <3>4. QED BY <3>1, <3>2, <3>3, <1>2 DEF Disjoint, FreePiece, Piece, End
    <2>4. QED BY <2>1, <2>2, <2>3
  <1>7. QED BY <1>1, <1>5, <1>6 DEF Concatenation

\* An entry in use that Free joins is one it looks at.
LEMMA JoinedIs ==
  ASSUME TypeOK, InSight, NEW p \in AnyPiece, NEW i \in Indices, Blocks[i].InUse
  PROVE  /\ i \in Slots
         /\ Blocks[i].Base = End(p) /\ i \notin Joined(p) => End(p) \in Boundaries
         /\ End(Blocks[i]) = p.Base /\ i \notin Joined(p) => p.Base \in Boundaries
  <1>1. i \in Slots
    BY SizesAssumption DEF InSight, Slots, Indices, TypeOK
  <1>2. QED BY <1>1 DEF Joined, Above, Below

\* Free's new entry, and the new end of the table.
LEMMA InsertIs ==
  ASSUME IInv, NEW u \in Users, FreeInsert(u)
  PROVE  LET p == Arg[u]  slot == Target(p, LowestFreeBlock[u]) IN
           /\ p \in AnyPiece /\ slot \in Indices
           /\ Blocks' = [i \in Indices |->
                           IF i = slot THEN Slot(Concatenated(p))
                           ELSE IF i \in Joined(p) THEN FreeSlot ELSE Blocks[i]]
           /\ slot <= HighestUsedBlockIndex'
           /\ \A i \in Slots : Blocks[i].InUse /\ i \notin Joined(p) =>
                                 i <= HighestUsedBlockIndex'
  <1> DEFINE p == Arg[u]
             slot == Target(p, LowestFreeBlock[u])
             S == {0} \cup {i \in Slots : Blocks[i].InUse /\ i \notin Joined(p)}
             T == {slot, NextHighest(p)}
  <1>1. TypeOK /\ p \in AnyPiece /\ LowestFreeBlock[u] \in 0..MaxBlocks
    BY DEF IInv, TypeOK, AnyPiece
  <1>2. slot \in Indices
    <2>1. slot \in 0..MaxBlocks
      BY <1>1, TargetIs
    <2>2. slot # MaxBlocks
      BY DEF FreeInsert, HasRoom
    <2> HIDE DEF slot
    <2>3. QED BY <2>1, <2>2, SizesAssumption DEF Indices
  <1>3. NextHighest(p) \in Indices
    BY <1>1, NextHighestIs
  <1>4. \A i \in S : NextHighest(p) >= i
    <2>1. S \in SUBSET Nat /\ S # {} /\ \A y \in S : y <= MaxBlocks
      BY <1>1, IndicesIs, SizesAssumption DEF Indices
    <2>2. NextHighest(p) = Largest(S)
      BY DEF NextHighest
    <2> HIDE DEF S
    <2>3. QED BY <2>1, <2>2, LargestIs, SizesAssumption
  <1>5. \A y \in T : HighestUsedBlockIndex' >= y
    <2>1. T \in SUBSET Nat /\ T # {} /\ \A y \in T : y <= MaxBlocks
      BY <1>1, <1>2, <1>3, IndicesIs, SizesAssumption DEF Indices
    <2>2. HighestUsedBlockIndex' = Largest(T)
      BY DEF FreeInsert, NewHighest
    <2> HIDE DEF T
    <2>3. QED BY <2>1, <2>2, LargestIs, SizesAssumption
  <1>6. HighestUsedBlockIndex' \in Indices
    BY FreeInsertType
  <1>7. /\ slot <= HighestUsedBlockIndex'
        /\ NextHighest(p) <= HighestUsedBlockIndex'
    BY <1>5, <1>6, <1>2, <1>3, <1>1, IndicesIs
  <1>8. \A i \in S : i <= HighestUsedBlockIndex'
    <2>1. \A i \in S : i \in Nat
      BY <1>1, IndicesIs
    <2>2. NextHighest(p) \in Nat /\ HighestUsedBlockIndex' \in Nat
      BY <1>1, <1>3, <1>6, IndicesIs
    <2> HIDE DEF S
    <2>3. QED BY <2>1, <2>2, <1>4, <1>7
  <1>9. Blocks' = [i \in Indices |->
                     IF i = slot THEN Slot(Concatenated(p))
                     ELSE IF i \in Joined(p) THEN FreeSlot ELSE Blocks[i]]
    BY DEF FreeInsert
  <1>10. QED BY <1>1, <1>2, <1>7, <1>8, <1>9

\* Free puts a block back, with all it touches.
LEMMA InsertKeeps ==
  ASSUME IInv, TableInv, NEW u \in Users, FreeInsert(u)
  PROVE  InSight' /\ Concatenation'
  <1> DEFINE p == Arg[u]
             slot == Target(p, LowestFreeBlock[u])
             c == Concatenated(p)
  <1>1. TypeOK /\ Indices' = Indices
    BY DEF IInv, Indices
  <1>2. /\ p \in AnyPiece /\ slot \in Indices
        /\ Blocks' = [i \in Indices |->
                        IF i = slot THEN Slot(c)
                        ELSE IF i \in Joined(p) THEN FreeSlot ELSE Blocks[i]]
        /\ slot <= HighestUsedBlockIndex'
        /\ \A i \in Slots : Blocks[i].InUse /\ i \notin Joined(p) =>
                              i <= HighestUsedBlockIndex'
    BY InsertIs
  <1>3. p.Size > 0
    BY DEF TableInv, Asked, FreeInsert, Frees
  <1>4. /\ c \in AnyPiece
        /\ c.Base <= p.Base /\ End(p) <= End(c)
        /\ \/ c.Base = p.Base
           \/ \E i \in Below(p) : c.Base = Blocks[i].Base
        /\ \/ End(c) = End(p)
           \/ \E i \in Above(p) : End(c) = End(Blocks[i])
    BY <1>2, ConcatenatedIs
  <1> HIDE DEF p, slot, c
  <1>5. c.Size > 0 /\ c.Base \in Nat /\ End(c) \in Nat
    BY <1>2, <1>3, <1>4 DEF AnyPiece, End
  <1>6. /\ Blocks'[slot].InUse /\ Blocks'[slot].Base = c.Base
        /\ Blocks'[slot].Size = c.Size /\ End(Blocks'[slot]) = End(c)
    BY <1>2 DEF Slot, End
  <1>7. ASSUME NEW i \in Indices, i # slot, Blocks'[i].InUse
        PROVE  i \notin Joined(p) /\ Blocks'[i] = Blocks[i] /\ Blocks[i].InUse
    BY <1>2, <1>7 DEF FreeSlot
  <1>8. InSight'
    <2>1. ASSUME NEW i \in Indices, Blocks'[i].InUse
          PROVE  Blocks'[i].Size > 0 /\ i <= HighestUsedBlockIndex'
      <3>1. CASE i = slot
        BY <1>2, <1>5, <1>6, <3>1
      <3>2. CASE i # slot
        <4>1. i \notin Joined(p) /\ Blocks'[i] = Blocks[i] /\ Blocks[i].InUse
          BY <1>7, <2>1, <3>2
        <4>2. i \in Slots /\ Blocks[i].Size > 0
          BY <4>1, <1>1, <1>2, JoinedIs DEF TableInv, InSight
        <4>3. QED BY <4>1, <4>2, <1>2
      <3>3. QED BY <3>1, <3>2
    <2>2. QED BY <2>1, <1>1 DEF InSight
  <1>9. ASSUME NEW i \in Indices, NEW j \in Indices,
               Blocks'[i].InUse, Blocks'[j].InUse,
               End(Blocks'[i]) = Blocks'[j].Base
        PROVE  Blocks'[j].Base \in Boundaries
    <2>1. CASE i = slot /\ j = slot
      BY <1>4, <1>5, <1>6, <1>9, <2>1 DEF End, AnyPiece
    <2>2. CASE i = slot /\ j # slot
      <3>1. j \notin Joined(p) /\ Blocks'[j] = Blocks[j] /\ Blocks[j].InUse
        BY <1>7, <1>9, <2>2
      <3>2. Blocks[j].Base = End(c)
        BY <1>6, <1>9, <2>2, <3>1
      <3>3. CASE End(c) = End(p)
        BY <3>1, <3>2, <3>3, <1>1, <1>2, JoinedIs DEF TableInv
      <3>4. CASE \E k \in Above(p) : End(c) = End(Blocks[k])
        <4>1. PICK k \in Above(p) : End(c) = End(Blocks[k])
          BY <3>4
        <4>2. k \in Indices /\ Blocks[k].InUse
          BY <1>1, IndicesIs DEF Above
        <4>3. QED BY <3>1, <3>2, <4>1, <4>2 DEF TableInv, Concatenation
      <3>5. QED BY <1>4, <3>3, <3>4
    <2>3. CASE i # slot /\ j = slot
      <3>1. i \notin Joined(p) /\ Blocks'[i] = Blocks[i] /\ Blocks[i].InUse
        BY <1>7, <1>9, <2>3
      <3>2. End(Blocks[i]) = c.Base /\ Blocks'[j].Base = c.Base
        BY <1>6, <1>9, <2>3, <3>1
      <3>3. CASE c.Base = p.Base
        BY <3>1, <3>2, <3>3, <1>1, <1>2, JoinedIs DEF TableInv
      <3>4. CASE \E k \in Below(p) : c.Base = Blocks[k].Base
        <4>1. PICK k \in Below(p) : c.Base = Blocks[k].Base
          BY <3>4
        <4>2. k \in Indices /\ Blocks[k].InUse
          BY <1>1, IndicesIs DEF Below
        <4>3. QED BY <3>1, <3>2, <4>1, <4>2 DEF TableInv, Concatenation
      <3>5. QED BY <1>4, <3>3, <3>4
    <2>4. CASE i # slot /\ j # slot
      <3>1. /\ Blocks'[i] = Blocks[i] /\ Blocks[i].InUse
            /\ Blocks'[j] = Blocks[j] /\ Blocks[j].InUse
        BY <1>7, <1>9, <2>4
      <3>2. QED BY <1>9, <3>1 DEF TableInv, Concatenation
    <2>5. QED BY <2>1, <2>2, <2>3, <2>4
  <1>10. QED BY <1>1, <1>8, <1>9 DEF Concatenation

LEMMA AskedStep ==
  ASSUME TypeOK, Asked, [Next]_vars
  PROVE  Asked'
  <1> USE DEF TypeOK, Asked, Return, Goto
  <1>1. ASSUME NEW u \in Users, NEW size \in Sizes,
               NEW which \in {"first", "largest"}, Allocate(u, size, which)
        PROVE  Asked'
    BY <1>1, SizesAssumption DEF Allocate, Piece, Sizes
  <1>2. ASSUME NEW u \in Users, Looking(u) PROVE Asked'
    BY <1>2 DEF Looking, TakeFirst, TakeLargest, Sleep, Break, Looks
  <1>3. ASSUME NEW u \in Users, Waking(u) PROVE Asked'
    BY <1>3 DEF Waking, Wake, WakeToLeave
  <1>4. ASSUME NEW u \in Users, ExtendUpwards(u) \/ ExtendDownwards(u)
        PROVE  Asked'
    BY <1>4 DEF ExtendUpwards, ExtendDownwards
  <1>5. ASSUME NEW u \in Users, NEW keep \in {0} \cup Sizes, Free(u, keep)
        PROVE  Asked'
    BY <1>5, SizesAssumption DEF Free, Piece, Sizes
  <1>6. ASSUME NEW u \in Users, Freeing(u) PROVE Asked'
    BY <1>6 DEF Freeing, FreeInsert, FreeTooMany
  <1>7. ASSUME Delete \/ Deleting PROVE Asked'
    BY <1>7 DEF Delete, Deleting, DeleteSignal, DeleteEnd
  <1>8. CASE UNCHANGED vars
    BY <1>8 DEF vars
  <1>9. QED
    BY <1>1, <1>2, <1>3, <1>4, <1>5, <1>6, <1>7, <1>8 DEF Next

\* The ways a step that is not FreeInsert changes the table.
Clears(i) == /\ Blocks[i].InUse
             /\ Blocks' = [Blocks EXCEPT ![i] = FreeSlot]
             /\ UNCHANGED HighestUsedBlockIndex

Cuts(i, size) ==
  /\ Blocks[i].InUse /\ size \in Nat /\ 0 < size /\ size < Blocks[i].Size
  /\ Blocks' = [Blocks EXCEPT ![i] = Slot(Piece(Blocks[i].Base + size,
                                                Blocks[i].Size - size))]
  /\ UNCHANGED HighestUsedBlockIndex

LEMMA TakeTable ==
  ASSUME IInv, Asked, NEW u \in Users, TakeFirst(u) \/ TakeLargest(u)
  PROVE  \E i \in Indices : Clears(i) \/ Cuts(i, Arg[u].Size)
  <1>1. CASE TakeFirst(u)
    <2> DEFINE i == Smallest(Fits(u))
               size == Arg[u].Size
    <2>1. i \in Indices /\ Blocks[i].InUse /\ size <= Blocks[i].Size
      BY <1>1, FirstFit DEF TakeFirst, IInv
    <2>2. /\ size \in Nat /\ 0 < size
          /\ Blocks[i].Size \in Nat /\ Blocks[i].Base \in Nat
      BY <1>1, <2>1, IndicesIs DEF IInv, TypeOK, Asked, TakeFirst, Looks
    <2>3. /\ Blocks' = [Blocks EXCEPT ![i] = Rest(Blocks[i], size)]
          /\ UNCHANGED HighestUsedBlockIndex
      BY <1>1 DEF TakeFirst
    <2> HIDE DEF i, size
    <2>4. CASE Blocks[i].Size = size
      BY <2>1, <2>3, <2>4 DEF Rest, Clears
    <2>5. CASE Blocks[i].Size # size
      <3>1. Cuts(i, size)
        BY <2>1, <2>2, <2>3, <2>5 DEF Rest, Cuts
      <3>2. QED BY <2>1, <3>1 DEF size
    <2>6. QED BY <2>4, <2>5
  <1>2. CASE TakeLargest(u)
    <2>1. LargestFreeBlock \in Indices /\ Blocks[LargestFreeBlock].InUse
      BY <1>2, LargestFit DEF TakeLargest
    <2>2. QED BY <1>2, <2>1 DEF TakeLargest, Clears
  <1>3. QED BY <1>1, <1>2

LEMMA ExtendTable ==
  ASSUME TypeOK, NEW u \in Users, ExtendUpwards(u) \/ ExtendDownwards(u)
  PROVE  \E i \in Indices : Clears(i)
  BY IndicesIs DEF ExtendUpwards, ExtendDownwards, Clears

LEMMA TableStep ==
  ASSUME IInv, TableInv, [Next]_vars
  PROVE  TableInv'
  <1>1. TypeOK /\ InSight /\ Asked /\ Concatenation
    BY DEF IInv, TableInv
  <1>2. Asked'
    BY <1>1, AskedStep
  <1>3. CASE UNCHANGED <<Blocks, HighestUsedBlockIndex>>
    BY <1>1, <1>2, <1>3
       DEF TableInv, InSight, Concatenation, Indices
  <1>4. ASSUME NEW i \in Indices, Clears(i) PROVE TableInv'
    BY <1>1, <1>2, <1>4, ClearKeeps DEF TableInv, Clears
  <1>5. ASSUME NEW i \in Indices, NEW size, Cuts(i, size) PROVE TableInv'
    BY <1>1, <1>2, <1>5, CutKeeps DEF TableInv, Cuts
  <1>6. ASSUME NEW u \in Users, FreeInsert(u) PROVE TableInv'
    BY <1>2, <1>6, InsertKeeps DEF TableInv
  <1>7. ASSUME NEW u \in Users, TakeFirst(u) \/ TakeLargest(u) PROVE TableInv'
    BY <1>1, <1>4, <1>5, <1>7, TakeTable
  <1>8. ASSUME NEW u \in Users, ExtendUpwards(u) \/ ExtendDownwards(u)
        PROVE  TableInv'
    BY <1>1, <1>4, <1>8, ExtendTable
  <1>9. ASSUME NEW u \in Users,
               \/ \E size \in Sizes, which \in {"first", "largest"} :
                    Allocate(u, size, which)
               \/ Sleep(u) \/ Break(u) \/ Waking(u) \/ FreeTooMany(u)
               \/ \E keep \in {0} \cup Sizes : Free(u, keep)
        PROVE  UNCHANGED <<Blocks, HighestUsedBlockIndex>>
    BY <1>9 DEF Allocate, Sleep, Break, Waking, Wake, WakeToLeave, FreeTooMany,
                Free, locked
  <1>10. ASSUME Delete \/ Deleting \/ UNCHANGED vars
         PROVE  UNCHANGED <<Blocks, HighestUsedBlockIndex>>
    BY <1>10 DEF Delete, Deleting, DeleteSignal, DeleteEnd, locked, vars
  <1>11. QED
    BY <1>3, <1>6, <1>7, <1>8, <1>9, <1>10 DEF Next, Looking, Freeing

\* The pieces of the memory are numbered in their order.
LEMMA OrdinalIs ==
  /\ \A s \in Starts : Ordinal(s) \in Nat
  /\ \A s, t \in Starts : s < t => Ordinal(s) < Ordinal(t)
  /\ \A s \in Pieces : Ordinal(s) < Cardinality(Pieces)
  /\ \A s \in Starts : Ordinal(s) < Cardinality(Starts)
  <1> DEFINE Under(s) == {r \in Starts : r < s}
  <1>1. Starts \in SUBSET Nat /\ IsFiniteSet(Starts)
    BY StartsAre
  <1>2. \A s : /\ IsFiniteSet(Under(s))
               /\ Ordinal(s) = Cardinality(Under(s))
               /\ Ordinal(s) \in Nat
    BY <1>1, FS_Subset, FS_CardinalityType DEF Ordinal
  <1>3. ASSUME NEW s \in Starts, NEW S, IsFiniteSet(S), Under(s) \subseteq S,
               s \in S
        PROVE  Ordinal(s) < Cardinality(S)
    <2>1. Under(s) # S
      BY <1>1, <1>3
    <2> HIDE DEF Under
    <2>2. /\ Cardinality(Under(s)) <= Cardinality(S)
          /\ Cardinality(Under(s)) # Cardinality(S)
          /\ Cardinality(Under(s)) \in Nat /\ Cardinality(S) \in Nat
      BY <1>3, <2>1, FS_Subset, FS_CardinalityType
    <2>3. QED BY <2>2, <1>2
  <1>4. \A s \in Starts : Ordinal(s) < Cardinality(Starts)
    BY <1>1, <1>3
  <1>5. ASSUME NEW s \in Starts, NEW t \in Starts, s < t
        PROVE  Ordinal(s) < Ordinal(t)
    <2>1. Under(s) \subseteq Under(t) /\ s \in Under(t)
      <3>1. \A r \in Starts : r \in Nat
        BY <1>1
      <3>2. QED BY <1>5, <3>1
    <2> HIDE DEF Under
    <2>2. QED BY <2>1, <1>2, <1>3
  <1>6. ASSUME NEW s \in Pieces PROVE Ordinal(s) < Cardinality(Pieces)
    <2>1. s \in Starts /\ IsFiniteSet(Pieces) /\ Ordinal(s) < MaxBlocks
      BY PiecesAre DEF Pieces
    <2>2. Under(s) \subseteq Pieces
      <3>1. ASSUME NEW r \in Under(s) PROVE r \in Pieces
        <4>1. r \in Starts /\ Ordinal(r) < Ordinal(s)
          BY <2>1, <1>5
        <4>2. Ordinal(r) \in Nat /\ Ordinal(s) \in Nat /\ MaxBlocks \in Nat
          BY <1>2, SizesAssumption
        <4>3. Ordinal(r) < MaxBlocks
          BY <4>1, <4>2, <2>1
        <4>4. QED BY <4>1, <4>3 DEF Pieces
      <3>2. QED BY <3>1
    <2> HIDE DEF Under
    <2>3. QED BY <2>1, <2>2, <1>3
  <1> HIDE DEF Under
  <1>7. QED BY <1>2, <1>4, <1>5, <1>6

\* The table as Free() leaves it: a block for each piece, and no other.
LEMMA InitBlocks ==
  ASSUME Init
  PROVE  /\ \A s \in Pieces : /\ Ordinal(s) \in Indices
                              /\ Blocks[Ordinal(s)] = Slot(Piece(s, After(s) - s))
         /\ \A i \in Indices : Blocks[i].InUse =>
              \E s \in Pieces : i = Ordinal(s)
  <1> DEFINE Has(i) == \E s \in Pieces : Ordinal(s) = i
             At(i) == CHOOSE s \in Pieces : Ordinal(s) = i
  <1>1. Blocks = [i \in Indices |->
                    IF Has(i) THEN Slot(Piece(At(i), After(At(i)) - At(i)))
                    ELSE FreeSlot]
    BY DEF Init
  <1>2. ASSUME NEW s \in Pieces
        PROVE  /\ Ordinal(s) \in Indices /\ Has(Ordinal(s))
               /\ At(Ordinal(s)) = s
    <2>1. Ordinal(s) \in Indices /\ Has(Ordinal(s))
      BY PiecesAre
    <2>2. At(Ordinal(s)) \in Pieces /\ Ordinal(At(Ordinal(s))) = Ordinal(s)
      BY <2>1
    <2> HIDE DEF At
    <2>3. ASSUME NEW t \in Pieces, Ordinal(t) = Ordinal(s) PROVE t = s
      <3>1. s \in Starts /\ t \in Starts /\ s \in Nat /\ t \in Nat
        BY PiecesAre, StartsAre
      <3>2. s < t \/ t < s \/ s = t
        BY <3>1
      <3>3. QED BY <2>3, <3>1, <3>2, OrdinalIs
    <2>4. QED BY <2>1, <2>2, <2>3
  <1>3. \A i \in Indices : Blocks[i].InUse => Has(i)
    <2> HIDE DEF Has, At
    <2>1. QED BY <1>1 DEF FreeSlot
  <1>4. \A s \in Pieces : Blocks[Ordinal(s)] = Slot(Piece(s, After(s) - s))
    <2> HIDE DEF Has, At
    <2>1. QED BY <1>1, <1>2
  <1>5. QED BY <1>2, <1>3, <1>4

LEMMA InitTable == Init => TableInv
  <1> SUFFICES ASSUME Init PROVE TableInv
    OBVIOUS
  <1>1. ASSUME NEW i \in Indices, Blocks[i].InUse
        PROVE  \E s \in Pieces :
                 /\ s \in Starts /\ s \in Nat /\ i = Ordinal(s)
                 /\ Blocks[i].Base = s /\ Blocks[i].Size > 0
                 /\ End(Blocks[i]) = After(s)
    <2>1. PICK s \in Pieces : i = Ordinal(s)
      BY <1>1, InitBlocks
    <2>2. Blocks[i] = Slot(Piece(s, After(s) - s))
      BY <2>1, InitBlocks
    <2>3. /\ s \in Starts /\ s \in Nat /\ After(s) \in Nat /\ s < After(s)
      BY PiecesAre, StartsAre
    <2>4. /\ Blocks[i].Base = s /\ Blocks[i].Size = After(s) - s
          /\ End(Blocks[i]) = After(s)
      BY <2>2, <2>3 DEF Slot, Piece, End
    <2>5. QED BY <2>1, <2>3, <2>4
  <1>2. InSight
    <2>1. ASSUME NEW i \in Indices, Blocks[i].InUse
          PROVE  Blocks[i].Size > 0 /\ i <= HighestUsedBlockIndex
      <3>1. PICK s \in Pieces : /\ i = Ordinal(s) /\ Blocks[i].Size > 0
                                /\ s \in Starts
        BY <1>1, <2>1
      <3>2. Ordinal(s) < Cardinality(Pieces) /\ Ordinal(s) \in Nat
        BY <3>1, OrdinalIs
      <3>3. /\ Cardinality(Pieces) \in 1..MaxBlocks
            /\ HighestUsedBlockIndex = Cardinality(Pieces) - 1
        BY PiecesAre DEF Init
      <3>4. QED BY <3>1, <3>2, <3>3, SizesAssumption
    <2>2. QED BY <2>1 DEF InSight
  <1>3. Asked
    BY DEF Init, Asked
  <1>4. ASSUME NEW i \in Indices, NEW j \in Indices,
               Blocks[i].InUse, Blocks[j].InUse,
               End(Blocks[i]) = Blocks[j].Base
        PROVE  Blocks[j].Base \in Boundaries
    <2>1. PICK s \in Pieces : /\ s \in Starts /\ s \in Nat
                              /\ End(Blocks[i]) = After(s)
      BY <1>1, <1>4
    <2>2. PICK t \in Pieces : t \in Starts /\ Blocks[j].Base = t
      BY <1>1, <1>4
    <2>3. t # 0
      <3>1. After(s) \in Nat /\ s < After(s) /\ After(s) = t
        BY <1>4, <2>1, <2>2, StartsAre
      <3>2. QED BY <2>1, <3>1
    <2>4. QED BY <2>2, <2>3 DEF Starts
  <1>5. QED BY <1>2, <1>3, <1>4 DEF TableInv, Concatenation

(* A request is refused only when there is no room for it: two free blocks *)
(* touch only at a boundary, whatever calls overlap, the Frees with a      *)
(* stale LowestFreeBlock included.                                         *)
THEOREM BlocksAreConcatenated == Spec => []Concatenation
  <1>1. IInv /\ TableInv /\ [Next]_vars => TableInv'
    BY TableStep
  <1>2. TableInv => Concatenation
    BY DEF TableInv
  <1>3. QED BY AllocatorInvariant, InitTable, <1>1, <1>2, PTL DEF Spec

-----------------------------------------------------------------------------
(* The loop of Free computes what its definitions say.                     *)

\* Induction over the natural numbers, for a set of them.
LEMMA InductionOver ==
  ASSUME NEW S, 0 \in S, \A n \in Nat : n \in S => n + 1 \in S
  PROVE  Nat \subseteq S
  <1> DEFINE T == Nat \ S
  <1>1. SUFFICES ASSUME T # {} PROVE FALSE
    OBVIOUS
  <1>2. Smallest(T) \in T /\ \A y \in T : Smallest(T) <= y
    <2>1. T \in SUBSET Nat /\ T # {}
      BY <1>1
    <2> HIDE DEF T
    <2>2. QED BY <2>1, SmallestIs
  <1> DEFINE n == Smallest(T)
  <1>3. n \in Nat /\ n \notin S /\ n # 0 /\ n - 1 \in Nat /\ (n - 1) + 1 = n
    <2>1. n \in Nat /\ n \notin S /\ n # 0
      BY <1>2
    <2> HIDE DEF n
    <2>2. QED BY <2>1
  <1>4. n - 1 \notin S
    <2>1. n - 1 \in S => n \in S
      BY <1>3
    <2>2. QED BY <1>3, <2>1
  <1>5. n - 1 \in T
    BY <1>3, <1>4
  <1>6. n <= n - 1
    BY <1>2, <1>5
  <1> HIDE DEF n, T
  <1>7. QED BY <1>3, <1>6

\* The turns of the loop one after the other.
Started(p, low) == [Blocks |-> Blocks, Piece |-> p, Lowest |-> low, Next |-> 0]

TurnByTurn(turns, p, low, most) ==
  turns = [n \in 0..most |-> IF n = 0 THEN Started(p, low)
                             ELSE Turn(turns[n - 1], n - 1)]

\* There is such a function: the recursive definition of Loop defines.
LEMMA TurnsExist ==
  ASSUME NEW p, NEW low
  PROVE  \A most \in Nat : \E turns : TurnByTurn(turns, p, low, most)
  <1> DEFINE S == {most \in Nat : \E turns : TurnByTurn(turns, p, low, most)}
  <1>1. 0 \in S
    <2> DEFINE g == [n \in 0..0 |-> Started(p, low)]
    <2>1. g = [n \in 0..0 |-> IF n = 0 THEN Started(p, low) ELSE Turn(g[n - 1], n - 1)]
      OBVIOUS
    <2>2. QED BY <2>1, Zenon DEF TurnByTurn
  <1>2. ASSUME NEW m \in Nat, m \in S PROVE m + 1 \in S
    <2>1. PICK g : TurnByTurn(g, p, low, m)
      BY <1>2
    <2> DEFINE h == [n \in 0..(m + 1) |-> IF n = m + 1 THEN Turn(g[m], m) ELSE g[n]]
    <2>2. ASSUME NEW n \in 0..(m + 1)
          PROVE  h[n] = IF n = 0 THEN Started(p, low) ELSE Turn(h[n - 1], n - 1)
      <3>1. \A k \in 0..m : /\ h[k] = g[k]
                            /\ g[k] = IF k = 0 THEN Started(p, low) ELSE Turn(g[k - 1], k - 1)
        BY <2>1 DEF TurnByTurn
      <3>2. h[m + 1] = Turn(g[m], m)
        OBVIOUS
      <3>3. CASE n = m + 1
        BY <3>1, <3>2, <3>3
      <3>4. CASE n = 0
        <4>1. 0 \in 0..m /\ 0 # m + 1 /\ 0 \in 0..(m + 1)
          OBVIOUS
        <4>2. h[0] = g[0]
          BY <4>1
        <4>3. QED BY <3>1, <3>4, <4>1, <4>2
      <3>5. CASE n # 0 /\ n # m + 1
        <4>1. n \in 0..m /\ n - 1 \in 0..m
          BY <3>5
        <4> HIDE DEF h
        <4>2. QED BY <3>1, <3>5, <4>1
      <3>6. QED BY <3>3, <3>4, <3>5
    <2>3. h = [n \in 0..(m + 1) |-> h[n]]
      OBVIOUS
    <2>4. TurnByTurn(h, p, low, m + 1)
      <3> HIDE DEF h
      <3>1. QED BY <2>2, <2>3 DEF TurnByTurn
    <2>5. m + 1 \in Nat
      OBVIOUS
    <2> HIDE DEF h
    <2>6. QED BY <2>4, <2>5
  <1>3. Nat \subseteq S
    <2> HIDE DEF S
    <2>1. QED BY <1>1, <1>2, InductionOver
  <1>4. QED BY <1>3

\* Loop is where its turns end.
LEMMA LoopIs ==
  ASSUME NEW p, NEW low
  PROVE  \E turns : /\ TurnByTurn(turns, p, low, MaxBlocks)
                    /\ Loop(p, low) = turns[HighestUsedBlockIndex + 1]
  <1>1. MaxBlocks \in Nat
    BY SizesAssumption
  <1>2. PICK g : TurnByTurn(g, p, low, MaxBlocks)
    BY <1>1, TurnsExist
  <1> DEFINE turns == CHOOSE f : TurnByTurn(f, p, low, MaxBlocks)
  <1>3. TurnByTurn(turns, p, low, MaxBlocks)
    BY <1>2, Zenon
  <1>4. Loop(p, low) = turns[HighestUsedBlockIndex + 1]
    BY Zenon DEF Loop, TurnByTurn, Started
  <1> HIDE DEF turns
  <1>5. QED BY <1>3, <1>4

Least(x, S)    == x \in S /\ \A y \in S : x <= y
Greatest(x, S) == x \in S /\ \A y \in S : x >= y

\* What the first n turns have come to.
Turned(acc, p, low, n) ==
  /\ acc.Blocks = [i \in Indices |->
                     IF i < n /\ i \in Joined(p)
                     THEN [Blocks[i] EXCEPT !.InUse = FALSE] ELSE Blocks[i]]
  /\ acc.Piece \in AnyPiece
  /\ \/ acc.Piece.Base = p.Base /\ \A j \in Below(p) : n <= j
     \/ \E j \in Below(p) : j < n /\ acc.Piece.Base = Blocks[j].Base
  /\ \/ End(acc.Piece) = End(p) /\ \A j \in Above(p) : n <= j
     \/ \E j \in Above(p) : j < n /\ End(acc.Piece) = End(Blocks[j])
  /\ Least(acc.Lowest, {low} \cup {i \in Slots : i < n /\ (~Blocks[i].InUse \/ i \in Joined(p))})
  /\ Greatest(acc.Next, {0} \cup {i \in Slots : i < n /\ Blocks[i].InUse /\ i \notin Joined(p)})

\* What the blocks of the table are for a piece that is being freed.
LEMMA TouchingIs ==
  ASSUME IInv, TableInv, NEW u \in Users, pc[u] = "free"
  PROVE  LET p == Arg[u] IN
         /\ p \in AnyPiece /\ p.Size > 0 /\ LowestFreeBlock[u] \in 0..MaxBlocks
         /\ \A i \in Slots : Blocks[i].InUse =>
              /\ i \in Indices
              /\ Blocks[i].Base \in Nat /\ Blocks[i].Size \in Nat
              /\ Blocks[i].Size > 0
         /\ \A i, j \in Slots :
              /\ Blocks[i].InUse /\ Blocks[j].InUse /\ Blocks[i].Base = Blocks[j].Base => i = j
              /\ Blocks[i].InUse /\ Blocks[j].InUse /\ End(Blocks[i]) = End(Blocks[j]) => i = j
              /\ Blocks[i].InUse /\ Blocks[j].InUse /\ End(Blocks[i]) = Blocks[j].Base
                   => Blocks[j].Base \in Boundaries
  <1> DEFINE p == Arg[u]
  <1>1. TypeOK /\ InSight /\ Asked /\ Concatenation /\ NoOverlap
    BY DEF IInv, TableInv
  <1>2. p \in AnyPiece /\ p.Size > 0 /\ LowestFreeBlock[u] \in 0..MaxBlocks
    BY <1>1 DEF TypeOK, AnyPiece, Asked
  <1>3. \A i \in Slots : i \in Indices
    BY <1>1, IndicesIs
  <1>4. \A i \in Indices : Blocks[i].Base \in Nat /\ Blocks[i].Size \in Nat
    BY <1>1, IndicesIs
  <1>5. \A i \in Indices : Blocks[i].InUse => Blocks[i].Size > 0
    BY <1>1 DEF InSight
  <1>6. ASSUME NEW i \in Indices, NEW j \in Indices, i # j,
               Blocks[i].InUse, Blocks[j].InUse
        PROVE  Blocks[i].Base # Blocks[j].Base /\ End(Blocks[i]) # End(Blocks[j])
    <2>1. Disjoint(FreePiece(i), FreePiece(j))
      BY <1>1, <1>6 DEF NoOverlap
    <2>2. QED BY <2>1, <1>4, <1>5, <1>6 DEF Disjoint, FreePiece, Piece, End
  <1>7. \A i, j \in Indices : Blocks[i].InUse /\ Blocks[j].InUse /\ End(Blocks[i]) = Blocks[j].Base
                   => Blocks[j].Base \in Boundaries
    BY <1>1 DEF Concatenation
  <1>8. QED BY <1>2, <1>3, <1>4, <1>5, <1>6, <1>7, Zenon

\* The turn for a block finds what it touches, whatever came before.
LEMMA TurnFinds ==
  ASSUME IInv, TableInv, NEW u \in Users, pc[u] = "free", NEW n \in Slots,
         Blocks[n].InUse, NEW acc, Turned(acc, Arg[u], LowestFreeBlock[u], n)
  PROVE  LET p == Arg[u]  q == acc.Piece  b == Blocks[n] IN
         /\ End(q) = b.Base /\ b.Base \notin Boundaries <=> n \in Above(p)
         /\ q.Base = End(b) /\ q.Base \notin Boundaries <=> n \in Below(p)
         /\ ~(n \in Above(p) /\ n \in Below(p))
  <1> DEFINE p == Arg[u]  q == acc.Piece  b == Blocks[n]
  <1>1. /\ p \in AnyPiece /\ p.Size > 0 /\ q \in AnyPiece
        /\ b.Base \in Nat /\ b.Size \in Nat /\ b.Size > 0
    BY TouchingIs DEF Turned
  <1>2. /\ \A j \in Above(p) : j \in Slots /\ Blocks[j].InUse /\ Blocks[j].Base = End(p)
        /\ \A j \in Below(p) : j \in Slots /\ Blocks[j].InUse /\ End(Blocks[j]) = p.Base
    BY DEF Above, Below
  <1>3. n \in Above(p) <=> b.Base = End(p) /\ End(p) \notin Boundaries
    BY DEF Above
  <1>4. n \in Below(p) <=> End(b) = p.Base /\ p.Base \notin Boundaries
    BY DEF Below
  <1>5. ~(n \in Above(p) /\ n \in Below(p))
    BY <1>1, <1>3, <1>4 DEF End, AnyPiece
  <1>6. ~(n < n)
    <2>1. n \in Int
      BY IndicesIs DEF Slots
    <2>2. QED BY <2>1
  <1>7. End(q) = b.Base /\ b.Base \notin Boundaries <=> n \in Above(p)
    <2>1. CASE End(q) = End(p)
      BY <2>1, <1>3
    <2>2. CASE \E j \in Above(p) : j < n /\ End(q) = End(Blocks[j])
      <3>1. PICK j \in Above(p) : j < n /\ End(q) = End(Blocks[j])
        BY <2>2
      <3>2. ~(End(q) = b.Base /\ b.Base \notin Boundaries)
        BY <3>1, <1>2, TouchingIs
      <3>3. n # j
        BY <3>1, <1>6
      <3>4. n \notin Above(p)
        BY <3>1, <3>3, <1>2, TouchingIs
      <3>5. QED BY <3>2, <3>4
    <2>3. QED BY <2>1, <2>2 DEF Turned
  <1>8. q.Base = End(b) /\ q.Base \notin Boundaries <=> n \in Below(p)
    <2>1. CASE q.Base = p.Base
      BY <2>1, <1>4
    <2>2. CASE \E j \in Below(p) : j < n /\ q.Base = Blocks[j].Base
      <3>1. PICK j \in Below(p) : j < n /\ q.Base = Blocks[j].Base
        BY <2>2
      <3>2. ~(q.Base = End(b) /\ q.Base \notin Boundaries)
        BY <3>1, <1>2, TouchingIs
      <3>3. n # j
        BY <3>1, <1>6
      <3>4. n \notin Below(p)
        BY <3>1, <3>3, <1>2, TouchingIs
      <3>5. QED BY <3>2, <3>4
    <2>3. QED BY <2>1, <2>2 DEF Turned
  <1>9. QED BY <1>5, <1>7, <1>8

\* The turn for entry n, read off the table before the first.
LEMMA TurnKeepsBlocks ==
  ASSUME IInv, TableInv, NEW u \in Users, pc[u] = "free", NEW n \in Slots,
         NEW acc, Turned(acc, Arg[u], LowestFreeBlock[u], n)
  PROVE  LET p == Arg[u]  next == Turn(acc, n)  b == Blocks[n] IN
         /\ next.Blocks = [i \in Indices |->
                     IF i < n + 1 /\ i \in Joined(p)
                     THEN [Blocks[i] EXCEPT !.InUse = FALSE] ELSE Blocks[i]]
         /\ next.Piece =
              IF n \in Above(p)
                THEN Piece(acc.Piece.Base, acc.Piece.Size + b.Size)
              ELSE IF n \in Below(p)
                THEN Piece(b.Base, acc.Piece.Size + b.Size)
              ELSE acc.Piece
         /\ next.Lowest = IF (~b.InUse \/ n \in Joined(p)) /\ n < acc.Lowest
                           THEN n ELSE acc.Lowest
         /\ next.Next = IF b.InUse /\ n \notin Joined(p) THEN n ELSE acc.Next
  <1> DEFINE p == Arg[u]  q == acc.Piece  b == Blocks[n]  next == Turn(acc, n)
             above == b.InUse /\ End(q) = b.Base /\ b.Base \notin Boundaries
             below == ~above /\ b.InUse /\ q.Base = End(b) /\ q.Base \notin Boundaries
             inUse == b.InUse /\ ~above /\ ~below
  <1>1. TypeOK /\ n \in Indices /\ n \in Nat /\ ~(n < n)
    BY IndicesIs, SizesAssumption DEF IInv, Indices
  <1>2. acc.Blocks[n] = b
    BY <1>1 DEF Turned
  <1>3. Above(p) \subseteq Slots /\ Below(p) \subseteq Slots
        /\ (n \in Above(p) \/ n \in Below(p) => b.InUse)
    BY DEF Above, Below
  <1>4. (above <=> n \in Above(p)) /\ (below <=> n \in Below(p) /\ n \notin Above(p))
    BY <1>3, TurnFinds
  <1>5. ~(n \in Above(p) /\ n \in Below(p))
    BY <1>3, TurnFinds
  <1>6. (inUse <=> b.InUse /\ n \notin Joined(p)) /\ inUse \in BOOLEAN
    BY <1>3, <1>4 DEF Joined
  <1>7. next = [Blocks |-> [acc.Blocks EXCEPT ![n].InUse = inUse],
                Piece |-> CASE above -> Piece(q.Base, q.Size + b.Size)
                            [] below -> Piece(b.Base, q.Size + b.Size)
                            [] OTHER -> q,
                Lowest |-> IF ~inUse /\ n < acc.Lowest THEN n ELSE acc.Lowest,
                Next |-> IF inUse THEN n ELSE acc.Next]
    BY <1>2 DEF Turn
  <1>8. next.Piece = IF n \in Above(p) THEN Piece(q.Base, q.Size + b.Size)
                     ELSE IF n \in Below(p) THEN Piece(b.Base, q.Size + b.Size)
                     ELSE q
    <2> HIDE DEF above, below, inUse, next
    <2>1. QED BY <1>4, <1>7
  <1>9. /\ next.Lowest = IF (~b.InUse \/ n \in Joined(p)) /\ n < acc.Lowest THEN n ELSE acc.Lowest
        /\ next.Next = IF b.InUse /\ n \notin Joined(p) THEN n ELSE acc.Next
    <2> HIDE DEF inUse, next, above, below
    <2>1. QED BY <1>6, <1>7
  <1>10. next.Blocks = [acc.Blocks EXCEPT ![n].InUse = inUse]
    <2> HIDE DEF inUse, above, below, next
    <2>1. QED BY <1>7
  <1>11. inUse = IF n \in Joined(p) THEN FALSE ELSE b.InUse
    <2>1. b.InUse \in BOOLEAN
      BY <1>1 DEF TypeOK
    <2> HIDE DEF inUse
    <2>2. QED BY <1>6, <2>1
  <1>12. acc.Blocks = [i \in Indices |->
                     IF i < n /\ i \in Joined(p)
                     THEN [Blocks[i] EXCEPT !.InUse = FALSE] ELSE Blocks[i]]
    BY DEF Turned
  <1>13. \A i \in Indices : i # n => (i < n + 1 <=> i < n)
    BY <1>1, SizesAssumption DEF Indices
  <1>14. b \in [InUse : BOOLEAN, Size : Nat, Base : Nat] /\ n < n + 1
    BY <1>1 DEF TypeOK
  <1>15. [b EXCEPT !.InUse = inUse] =
           IF n \in Joined(p) THEN [b EXCEPT !.InUse = FALSE] ELSE b
    <2> HIDE DEF inUse
    <2>1. QED BY <1>11, <1>14
  <1>16. next.Blocks = [i \in Indices |->
                     IF i < n + 1 /\ i \in Joined(p)
                     THEN [Blocks[i] EXCEPT !.InUse = FALSE] ELSE Blocks[i]]
    <2>1. next.Blocks =
            [i \in Indices |->
               IF i = n THEN [b EXCEPT !.InUse = inUse] ELSE acc.Blocks[i]]
      <3> HIDE DEF inUse, next
      <3>1. QED BY <1>2, <1>10, <1>12
    <2>2. ASSUME NEW i \in Indices
          PROVE  (IF i = n THEN [b EXCEPT !.InUse = inUse] ELSE acc.Blocks[i])
                 = IF i < n + 1 /\ i \in Joined(p)
                     THEN [Blocks[i] EXCEPT !.InUse = FALSE] ELSE Blocks[i]
      <3>1. CASE i = n
        <4> HIDE DEF inUse
        <4> QED BY <3>1, <1>14, <1>15
      <3>2. CASE i # n
        <4> HIDE DEF inUse
        <4> QED BY <3>2, <1>12, <1>13
      <3>3. QED BY <3>1, <3>2
    <2> HIDE DEF inUse, next, b
    <2>3. QED BY <2>1, <2>2, Zenon
  <1> HIDE DEF next, q
  <1>17. QED BY <1>8, <1>9, <1>16 DEF next, q

\* What is being freed grows by what it touches.
LEMMA TurnKeepsPiece ==
  ASSUME IInv, TableInv, NEW u \in Users, pc[u] = "free", NEW n \in Slots,
         NEW acc, Turned(acc, Arg[u], LowestFreeBlock[u], n),
         NEW q \in AnyPiece, q = acc.Piece,
         NEW r, r = IF n \in Above(Arg[u]) THEN Piece(q.Base, q.Size + Blocks[n].Size)
                    ELSE IF n \in Below(Arg[u]) THEN Piece(Blocks[n].Base, q.Size + Blocks[n].Size)
                    ELSE q
  PROVE  LET p == Arg[u] IN
         /\ r \in AnyPiece
         /\ \/ r.Base = p.Base /\ \A j \in Below(p) : n + 1 <= j
            \/ \E j \in Below(p) : j < n + 1 /\ r.Base = Blocks[j].Base
         /\ \/ End(r) = End(p) /\ \A j \in Above(p) : n + 1 <= j
            \/ \E j \in Above(p) : j < n + 1 /\ End(r) = End(Blocks[j])
  <1> DEFINE p == Arg[u]  b == Blocks[n]
  <1>1. /\ Above(p) \subseteq Slots /\ Below(p) \subseteq Slots
        /\ (n \in Above(p) \/ n \in Below(p) => b.InUse)
    BY DEF Above, Below
  <1>2. n \in Nat /\ Slots \subseteq Nat
    BY IndicesIs, SizesAssumption DEF IInv, Indices
  <1>3. b.InUse => b.Base \in Nat /\ b.Size \in Nat
    BY TouchingIs
  <1>4. /\ n \in Above(p) => End(q) = b.Base
        /\ n \in Below(p) => q.Base = End(b)
        /\ ~(n \in Above(p) /\ n \in Below(p))
    BY <1>1, TurnFinds
  <1>5. r \in AnyPiece
        /\ r.Base = (IF n \in Below(p) THEN b.Base ELSE q.Base)
        /\ End(r) = (IF n \in Above(p) THEN End(b) ELSE End(q))
    BY <1>1, <1>3, <1>4 DEF AnyPiece, Piece, End
  <1>6. \A j \in Slots : (j < n => j < n + 1) /\ (n <= j /\ j # n => n + 1 <= j) /\ n < n + 1
    BY <1>2
  <1>7. /\ \/ q.Base = p.Base /\ \A j \in Below(p) : n <= j
           \/ \E j \in Below(p) : j < n /\ q.Base = Blocks[j].Base
        /\ \/ End(q) = End(p) /\ \A j \in Above(p) : n <= j
           \/ \E j \in Above(p) : j < n /\ End(q) = End(Blocks[j])
    BY DEF Turned
  <1>8. \/ r.Base = p.Base /\ \A j \in Below(p) : n + 1 <= j
        \/ \E j \in Below(p) : j < n + 1 /\ r.Base = Blocks[j].Base
    <2>1. CASE n \in Below(p)
      BY <2>1, <1>5, <1>6
    <2>2. CASE n \notin Below(p)
      <3>1. r.Base = q.Base /\ \A j \in Below(p) : j # n
        BY <2>2, <1>5
      <3>2. QED BY <3>1, <1>1, <1>6, <1>7
    <2>3. QED BY <2>1, <2>2
  <1>9. \/ End(r) = End(p) /\ \A j \in Above(p) : n + 1 <= j
        \/ \E j \in Above(p) : j < n + 1 /\ End(r) = End(Blocks[j])
    <2>1. CASE n \in Above(p)
      BY <2>1, <1>5, <1>6
    <2>2. CASE n \notin Above(p)
      <3>1. End(r) = End(q) /\ \A j \in Above(p) : j # n
        BY <2>2, <1>5
      <3>2. QED BY <3>1, <1>1, <1>6, <1>7
    <2>3. QED BY <2>1, <2>2
  <1>10. QED BY <1>5, <1>8, <1>9

\* The two locals.
LEMMA TurnKeepsBounds ==
  ASSUME IInv, NEW p, NEW low \in 0..MaxBlocks, NEW n \in Slots,
         NEW acc, Turned(acc, p, low, n),
         NEW l, l = IF (~Blocks[n].InUse \/ n \in Joined(p)) /\ n < acc.Lowest
                    THEN n ELSE acc.Lowest,
         NEW h, h = IF Blocks[n].InUse /\ n \notin Joined(p) THEN n ELSE acc.Next
  PROVE  /\ Least(l, {low} \cup {i \in Slots :
              i < n + 1 /\ (~Blocks[i].InUse \/ i \in Joined(p))})
         /\ Greatest(h, {0} \cup {i \in Slots :
              i < n + 1 /\ Blocks[i].InUse /\ i \notin Joined(p)})
  <1>1. n \in Nat /\ Slots \subseteq Nat /\ low \in Nat
    BY IndicesIs, SizesAssumption DEF IInv, Indices
  <1>2. \A i \in Slots : i < n + 1 <=> i < n \/ i = n
    BY <1>1
  <1> DEFINE L == {low} \cup {i \in Slots : i < n /\ (~Blocks[i].InUse \/ i \in Joined(p))}
             H == {0} \cup {i \in Slots : i < n /\ Blocks[i].InUse /\ i \notin Joined(p)}
             L1 == {low} \cup {i \in Slots : i < n + 1 /\ (~Blocks[i].InUse \/ i \in Joined(p))}
             H1 == {0} \cup {i \in Slots : i < n + 1 /\ Blocks[i].InUse /\ i \notin Joined(p)}
  <1>3. Least(acc.Lowest, L) /\ Greatest(acc.Next, H)
    BY DEF Turned
  <1>4. L \subseteq Nat /\ H \subseteq Nat /\ \A i \in H : i <= n
    <2>1. L \subseteq Nat
      BY <1>1
    <2>2. H \subseteq Nat
      <3>1. {i \in Slots : i < n /\ Blocks[i].InUse /\ i \notin Joined(p)} \subseteq Slots
        OBVIOUS
      <3>2. 0 \in Nat
        OBVIOUS
      <3>3. QED BY <1>1, <3>1, <3>2, Zenon
    <2>3. \A i \in Slots : i < n => i <= n
      BY <1>1
    <2>4. 0 <= n
      BY <1>1
    <2>5. \A i \in H : i <= n
      BY <2>3, <2>4
    <2> HIDE DEF L, H
    <2>6. QED BY <2>1, <2>2, <2>5
  <1>5. /\ L1 = IF ~Blocks[n].InUse \/ n \in Joined(p) THEN L \cup {n} ELSE L
        /\ H1 = IF Blocks[n].InUse /\ n \notin Joined(p) THEN H \cup {n} ELSE H
    BY <1>2
  <1> HIDE DEF L, H, L1, H1
  <1>6. Least(l, L1)
    <2> DEFINE free == ~Blocks[n].InUse \/ n \in Joined(p)
    <2>1. /\ l = IF free /\ n < acc.Lowest THEN n ELSE acc.Lowest
          /\ L1 = IF free THEN L \cup {n} ELSE L
      BY <1>5
    <2>2. acc.Lowest \in L /\ acc.Lowest \in Nat /\ \A y \in L : acc.Lowest <= y /\ y \in Nat
      BY <1>3, <1>4 DEF Least
    <2> HIDE DEF free
    <2>3. CASE free /\ n < acc.Lowest
      BY <1>1, <2>1, <2>2, <2>3 DEF Least
    <2>4. CASE free /\ ~(n < acc.Lowest)
      BY <1>1, <2>1, <2>2, <2>4 DEF Least
    <2>5. CASE ~free
      BY <1>1, <2>1, <2>2, <2>5 DEF Least
    <2>6. QED BY <2>3, <2>4, <2>5
  <1>7. Greatest(h, H1)
    BY <1>1, <1>3, <1>4, <1>5 DEF Greatest
  <1>8. QED BY <1>6, <1>7 DEF L1, H1

\* A turn more.
LEMMA TurnKeeps ==
  ASSUME IInv, TableInv, NEW u \in Users, pc[u] = "free", NEW n \in Slots,
         NEW acc, Turned(acc, Arg[u], LowestFreeBlock[u], n)
  PROVE  Turned(Turn(acc, n), Arg[u], LowestFreeBlock[u], n + 1)
  <1>1. LowestFreeBlock[u] \in 0..MaxBlocks
    BY TouchingIs
  <1>2. acc.Piece \in AnyPiece
    BY DEF Turned
  <1> DEFINE p == Arg[u]  low == LowestFreeBlock[u]  next == Turn(acc, n)
  <1>3. /\ next.Blocks = [i \in Indices |->
                     IF i < n + 1 /\ i \in Joined(p)
                     THEN [Blocks[i] EXCEPT !.InUse = FALSE] ELSE Blocks[i]]
        /\ next.Piece =
             IF n \in Above(p)
               THEN Piece(acc.Piece.Base, acc.Piece.Size + Blocks[n].Size)
             ELSE IF n \in Below(p)
               THEN Piece(Blocks[n].Base, acc.Piece.Size + Blocks[n].Size)
             ELSE acc.Piece
        /\ next.Lowest =
             IF (~Blocks[n].InUse \/ n \in Joined(p)) /\ n < acc.Lowest
             THEN n ELSE acc.Lowest
        /\ next.Next = IF Blocks[n].InUse /\ n \notin Joined(p) THEN n ELSE acc.Next
    BY TurnKeepsBlocks
  <1> HIDE DEF next
  <1>4. /\ next.Piece \in AnyPiece
        /\ \/ next.Piece.Base = p.Base /\ \A j \in Below(p) : n + 1 <= j
           \/ \E j \in Below(p) : j < n + 1 /\ next.Piece.Base = Blocks[j].Base
        /\ \/ End(next.Piece) = End(p) /\ \A j \in Above(p) : n + 1 <= j
           \/ \E j \in Above(p) : j < n + 1 /\ End(next.Piece) = End(Blocks[j])
    BY <1>2, <1>3, TurnKeepsPiece
  <1>5. /\ Least(next.Lowest, {low} \cup {i \in Slots :
             i < n + 1 /\ (~Blocks[i].InUse \/ i \in Joined(p))})
        /\ Greatest(next.Next, {0} \cup {i \in Slots :
             i < n + 1 /\ Blocks[i].InUse /\ i \notin Joined(p)})
    <2>1. Turned(acc, p, low, n) /\ low \in 0..MaxBlocks
      BY <1>1
    <2>2. PICK l : l = next.Lowest
      OBVIOUS
    <2>3. PICK h : h = next.Next
      OBVIOUS
    <2>4. /\ l = IF (~Blocks[n].InUse \/ n \in Joined(p)) /\ n < acc.Lowest THEN n ELSE acc.Lowest
          /\ h = IF Blocks[n].InUse /\ n \notin Joined(p) THEN n ELSE acc.Next
      BY <1>3, <2>2, <2>3
    <2> HIDE DEF p, low
    <2>5. /\ Least(l, {low} \cup {i \in Slots :
               i < n + 1 /\ (~Blocks[i].InUse \/ i \in Joined(p))})
          /\ Greatest(h, {0} \cup {i \in Slots :
               i < n + 1 /\ Blocks[i].InUse /\ i \notin Joined(p)})
      BY <2>1, <2>4, TurnKeepsBounds, Zenon
    <2>6. QED BY <2>2, <2>3, <2>5
  <1>6. Turned(next, p, low, n + 1)
    BY <1>3, <1>4, <1>5 DEF Turned
  <1>7. QED BY <1>6 DEF next

\* So all of them, by induction over the entries.
LEMMA LoopTurns ==
  ASSUME IInv, TableInv, NEW u \in Users, pc[u] = "free"
  PROVE  Turned(Loop(Arg[u], LowestFreeBlock[u]), Arg[u], LowestFreeBlock[u],
                HighestUsedBlockIndex + 1)
  <1> DEFINE p == Arg[u]  low == LowestFreeBlock[u]
  <1>1. PICK turns : /\ TurnByTurn(turns, p, low, MaxBlocks)
                     /\ Loop(p, low) = turns[HighestUsedBlockIndex + 1]
    BY LoopIs
  <1>2. /\ TypeOK /\ HighestUsedBlockIndex \in Nat
        /\ HighestUsedBlockIndex + 1 \in 0..MaxBlocks /\ MaxBlocks \in Nat
    <2>1. TypeOK
      BY DEF IInv
    <2>2. HighestUsedBlockIndex \in 0..(MaxBlocks - 1) /\ MaxBlocks \in Nat
      BY <2>1, SizesAssumption DEF TypeOK, Indices
    <2>3. QED BY <2>1, <2>2
  <1> DEFINE S == {n \in Nat : n <= HighestUsedBlockIndex + 1 => Turned(turns[n], p, low, n)}
  <1>3. 0 \in S
    <2>1. turns[0] = Started(p, low)
      BY <1>1, <1>2 DEF TurnByTurn
    <2>2. p \in AnyPiece /\ low \in Nat
      BY TouchingIs
    <2>3. \A i \in Indices : ~(i < 0) /\ 0 <= i
      BY SizesAssumption DEF Indices
    <2>4. Above(p) \subseteq Indices /\ Below(p) \subseteq Indices /\ Slots \subseteq Indices
      BY <1>2, IndicesIs DEF Above, Below
    <2>5. Blocks = [i \in Indices |-> Blocks[i]]
      BY <1>2 DEF TypeOK
    <2>6. Started(p, low).Blocks = [i \in Indices |->
                     IF i < 0 /\ i \in Joined(p)
                     THEN [Blocks[i] EXCEPT !.InUse = FALSE] ELSE Blocks[i]]
      BY <2>3, <2>5 DEF Started
    <2>7. /\ {low} \cup {i \in Slots : i < 0 /\ (~Blocks[i].InUse \/ i \in Joined(p))} = {low}
          /\ {0} \cup {i \in Slots : i < 0 /\ Blocks[i].InUse /\ i \notin Joined(p)} = {0}
      BY <2>3, <2>4
    <2>8. Least(low, {low}) /\ Greatest(0, {0})
      BY <2>2 DEF Least, Greatest
    <2>9. Turned(Started(p, low), p, low, 0)
      BY <2>2, <2>3, <2>4, <2>6, <2>7, <2>8 DEF Turned, Started
    <2>10. QED BY <2>1, <2>9
  <1>4. ASSUME NEW n \in Nat, n \in S PROVE n + 1 \in S
    <2>1. SUFFICES ASSUME n + 1 <= HighestUsedBlockIndex + 1
                   PROVE  Turned(turns[n + 1], p, low, n + 1)
      OBVIOUS
    <2>2. n \in Slots /\ n <= HighestUsedBlockIndex + 1 /\ n + 1 \in 0..MaxBlocks
          /\ n + 1 # 0 /\ (n + 1) - 1 = n
      BY <2>1, <1>2 DEF Slots
    <2>3. Turned(turns[n], p, low, n)
      BY <1>4, <2>2
    <2>4. turns[n + 1] = Turn(turns[n], n)
      BY <1>1, <2>2 DEF TurnByTurn
    <2>5. QED BY <2>2, <2>3, <2>4, TurnKeeps
  <1>5. Nat \subseteq S
    <2> HIDE DEF S
    <2>1. QED BY <1>3, <1>4, InductionOver
  <1>6. HighestUsedBlockIndex + 1 \in S /\ HighestUsedBlockIndex + 1 <= HighestUsedBlockIndex + 1
    BY <1>2, <1>5
  <1>7. QED BY <1>1, <1>6

\* What all the turns have come to is what the definitions say.
LEMMA LoopEnds ==
  ASSUME IInv, TableInv, NEW u \in Users, pc[u] = "free"
  PROVE  LET p == Arg[u]
        low == LowestFreeBlock[u]
        acc == Loop(p, low)
    IN  /\ acc.Piece = Concatenated(p)
        /\ acc.Lowest = Target(p, low)
        /\ acc.Next = NextHighest(p)
        /\ \A i \in Indices : acc.Blocks[i].InUse =
                                (Blocks[i].InUse /\ i \notin Joined(p))
  <1> DEFINE p == Arg[u]  low == LowestFreeBlock[u]  acc == Loop(p, low)
             top == HighestUsedBlockIndex + 1
  <1>1. Turned(acc, p, low, top)
    BY LoopTurns
  <1>2. /\ TypeOK /\ Slots \subseteq Indices /\ Slots \subseteq Nat
        /\ \A i \in Slots : i < top /\ ~(top <= i)
    <2>1. TypeOK
      BY DEF IInv
    <2>2. Slots \subseteq Indices /\ Indices \subseteq Nat
      BY <2>1, IndicesIs, SizesAssumption DEF Indices
    <2>3. HighestUsedBlockIndex \in Nat
      BY <2>1, <2>2 DEF TypeOK
    <2>4. \A i \in Slots : i < top /\ ~(top <= i)
      BY <2>3 DEF Slots
    <2>5. QED BY <2>1, <2>2, <2>4
  <1>3. Above(p) \subseteq Slots /\ Below(p) \subseteq Slots /\ Joined(p) \subseteq Slots
    BY DEF Above, Below, Joined
  <1>4. \A i \in Indices : acc.Blocks[i].InUse = (Blocks[i].InUse /\ i \notin Joined(p))
    <2>1. TAKE i \in Indices
    <2>2. Blocks[i] \in [InUse : BOOLEAN, Size : Nat, Base : Nat]
      BY <1>2 DEF TypeOK
    <2>3. acc.Blocks[i] = IF i \in Joined(p) THEN [Blocks[i] EXCEPT !.InUse = FALSE] ELSE Blocks[i]
      BY <1>1, <1>2, <1>3 DEF Turned
    <2>4. CASE i \in Joined(p)
      BY <2>2, <2>3, <2>4
    <2>5. CASE i \notin Joined(p)
      BY <2>2, <2>3, <2>5
    <2>6. QED BY <2>4, <2>5
  <1>5. acc.Piece = Concatenated(p)
    <2> DEFINE c == Concatenated(p)  q == acc.Piece
    <2>1. p \in AnyPiece /\ q \in AnyPiece /\ c \in AnyPiece
      BY <1>1, TouchingIs, ConcatenatedIs DEF Turned
    <2>2. /\ \A i, j \in Below(p) : i = j
          /\ \A i, j \in Above(p) : i = j
      <3>1. /\ \A i \in Below(p) : i \in Slots /\ Blocks[i].InUse /\ End(Blocks[i]) = p.Base
            /\ \A i \in Above(p) : i \in Slots /\ Blocks[i].InUse /\ Blocks[i].Base = End(p)
        BY DEF Above, Below
      <3>2. QED BY <3>1, TouchingIs
    <2>3. /\ \A i \in Below(p) : /\ c.Base <= Blocks[i].Base
                                  /\ Blocks[i].Base \in Nat
                                  /\ Blocks[i].Base < p.Base
          /\ \A i \in Above(p) : /\ End(Blocks[i]) <= End(c)
                                  /\ End(Blocks[i]) \in Nat
                                  /\ End(p) < End(Blocks[i])
      <3>1. /\ \A i \in Below(p) : i \in Slots /\ Blocks[i].InUse /\ End(Blocks[i]) = p.Base
            /\ \A i \in Above(p) : i \in Slots /\ Blocks[i].InUse /\ Blocks[i].Base = End(p)
        BY DEF Above, Below
      <3>2. \A i \in Slots : Blocks[i].InUse =>
               Blocks[i].Base \in Nat /\ Blocks[i].Size \in Nat /\ Blocks[i].Size > 0
        BY TouchingIs
      <3>3. /\ \A i \in Below(p) : c.Base <= Blocks[i].Base
            /\ \A i \in Above(p) : End(Blocks[i]) <= End(c)
        BY <2>1, ConcatenatedIs
      <3> HIDE DEF c, p
      <3>4. QED BY <3>1, <3>2, <3>3 DEF End
    <2>4. q.Base = c.Base
      <3>1. \/ q.Base = p.Base /\ Below(p) = {}
            \/ \E j \in Below(p) : q.Base = Blocks[j].Base
        BY <1>1, <1>2, <1>3 DEF Turned
      <3>2. \/ c.Base = p.Base
            \/ \E i \in Below(p) : c.Base = Blocks[i].Base
        BY <2>1, ConcatenatedIs
      <3>3. p.Base \in Nat /\ c.Base \in Nat
        BY <2>1 DEF AnyPiece
      <3> HIDE DEF c, q, p
      <3>4. QED BY <3>1, <3>2, <3>3, <2>2, <2>3
    <2>5. End(q) = End(c)
      <3>1. \/ End(q) = End(p) /\ Above(p) = {}
            \/ \E j \in Above(p) : End(q) = End(Blocks[j])
        BY <1>1, <1>2, <1>3 DEF Turned
      <3>2. \/ End(c) = End(p)
            \/ \E i \in Above(p) : End(c) = End(Blocks[i])
        BY <2>1, ConcatenatedIs
      <3>3. End(p) \in Nat /\ End(c) \in Nat
        BY <2>1 DEF AnyPiece, End
      <3> HIDE DEF c, q, p
      <3>4. QED BY <3>1, <3>2, <3>3, <2>2, <2>3
    <2> HIDE DEF c, q
    <2>6. q.Size = c.Size
      BY <2>1, <2>4, <2>5 DEF End, AnyPiece
    <2>7. q = c
      BY <2>1, <2>4, <2>6 DEF AnyPiece
    <2>8. QED BY <2>7 DEF c, q
  <1>6. acc.Lowest = Target(p, low)
    <2> DEFINE S == {low} \cup {i \in Slots : ~Blocks[i].InUse \/ i \in Joined(p)}
    <2>0. low \in Nat
      BY TouchingIs
    <2>1. S \in SUBSET Nat /\ S # {}
      BY <1>2, <2>0
    <2>2. Target(p, low) = Smallest(S)
      BY DEF Target
    <2>3. {low} \cup {i \in Slots : i < top /\ (~Blocks[i].InUse \/ i \in Joined(p))} = S
      BY <1>2
    <2>4. Least(acc.Lowest, S)
      BY <1>1, <2>3 DEF Turned
    <2> HIDE DEF S, acc
    <2>5. Least(Smallest(S), S)
      BY <2>1, SmallestIs DEF Least
    <2>6. acc.Lowest = Smallest(S)
      <3>1. /\ acc.Lowest <= Smallest(S) /\ Smallest(S) <= acc.Lowest
            /\ acc.Lowest \in Nat /\ Smallest(S) \in Nat
        BY <2>1, <2>4, <2>5 DEF Least
      <3>2. QED BY <3>1
    <2>7. QED BY <2>2, <2>6
  <1>7. acc.Next = NextHighest(p)
    <2> DEFINE S == {0} \cup {i \in Slots : Blocks[i].InUse /\ i \notin Joined(p)}
    <2>0. MaxBlocks \in Nat /\ 0 \in Nat /\ 0 <= MaxBlocks /\ \A i \in Indices : i <= MaxBlocks
      BY SizesAssumption DEF Indices
    <2>1. S \in SUBSET Nat /\ S # {} /\ (\A y \in S : y <= MaxBlocks) /\ MaxBlocks \in Nat
      <3>1. S \ {0} \subseteq Slots
        OBVIOUS
      <3>2. 0 \in S
        OBVIOUS
      <3> HIDE DEF S
      <3>3. QED BY <1>2, <2>0, <3>1, <3>2
    <2>2. NextHighest(p) = Largest(S)
      BY DEF NextHighest
    <2>3. {0} \cup {i \in Slots : i < top /\ Blocks[i].InUse /\ i \notin Joined(p)} = S
      BY <1>2
    <2>4. Greatest(acc.Next, S)
      BY <1>1, <2>3 DEF Turned
    <2> HIDE DEF S, acc
    <2>5. Greatest(Largest(S), S)
      BY <2>1, LargestIs DEF Greatest
    <2>6. acc.Next = Largest(S)
      <3>1. /\ acc.Next >= Largest(S) /\ Largest(S) >= acc.Next
            /\ acc.Next \in Nat /\ Largest(S) \in Nat
        BY <2>1, <2>4, <2>5 DEF Greatest
      <3>2. QED BY <3>1
    <2>7. QED BY <2>2, <2>6
  <1> HIDE DEF acc
  <1>8. QED BY <1>4, <1>5, <1>6, <1>7 DEF acc

(* Whatever the table and what the loop joins, its turns, each of which    *)
(* tests the table and the piece as the turns before have left them, come  *)
(* to what Concatenated, Target, NextHighest and Joined read off the table *)
(* at once (allocator_simple.cpp:272-298).                                 *)
THEOREM FreesAreTheLoop == Spec => []FreeIsTheLoop
  <1>1. IInv /\ TableInv => FreeIsTheLoop
    BY LoopEnds DEF FreeIsTheLoop, In
  <1>2. IInv /\ TableInv /\ [Next]_vars => TableInv'
    BY TableStep
  <1>3. QED BY <1>1, <1>2, AllocatorInvariant, InitTable, PTL DEF Spec

-----------------------------------------------------------------------------
(* One thread at a time in Allocate: the collator's.                       *)

\* InAllocate, one flag for them all, speaks for the one that is in.
OneIsIn == /\ \A u, v \in Allocating : u = v
           /\ Allocating # {} => InAllocate
           /\ stage = "gone" => ~InAllocate
           /\ BeingDeleted <=> stage # "live"

LoneInv == OneIsIn /\ NoLostWakeup

LEMMA InitLone == Init => LoneInv
  BY DEF Init, LoneInv, OneIsIn, NoLostWakeup, Waiting, Allocating, In

\* Who may enter finds nobody in.
LEMMA NobodyIn ==
  ASSUME MaxAllocating = 1, Cardinality(Allocating) < MaxAllocating
  PROVE  Allocating = {}
  <1>1. IsFiniteSet(Allocating)
    BY UsersAssumption, FS_Subset DEF Allocating, In
  <1>2. Cardinality(Allocating) \in Nat /\ Cardinality(Allocating) < 1
    BY <1>1, FS_CardinalityType
  <1>3. Cardinality(Allocating) = 0
    BY <1>2
  <1>4. QED BY <1>1, <1>3, FS_EmptySet

\* The one that leaves leaves nobody behind.
LEMMA LastOut ==
  ASSUME TypeOK, OneIsIn, NEW u \in Users, u \in Allocating, Return(u)
  PROVE  Allocating' = {}
  BY DEF TypeOK, OneIsIn, Allocating, In, Return, Goto

LEMMA LeavingKeeps ==
  ASSUME TypeOK, LoneInv, NEW u \in Users, u \in Allocating, Return(u),
         InAllocate' = FALSE, UNCHANGED destroy
  PROVE  LoneInv'
  <1>1. Allocating' = {}
    BY LastOut DEF LoneInv
  <1>2. \A v \in Users : ~Waiting(v)'
    BY <1>1 DEF Waiting, Allocating, In
  <1>3. QED BY <1>1, <1>2 DEF LoneInv, OneIsIn, NoLostWakeup, destroy

\* A step that lets nobody in or out, and offers no block.
LEMMA OutsideKeeps ==
  ASSUME LoneInv, Allocating' = Allocating,
         \A u \in Users : Waiting(u)' => Waiting(u) /\ Fits(u)' \subseteq Fits(u),
         UNCHANGED <<InAllocate, BeingDeleted, stage, EntryFreed>>
  PROVE  LoneInv'
  BY DEF LoneInv, OneIsIn, NoLostWakeup

LEMMA LoneStep ==
  ASSUME MaxAllocating = 1, IInv, LoneInv, [Next]_vars
  PROVE  LoneInv'
  <1>1. TypeOK /\ OneIsIn /\ NoLostWakeup
    BY DEF IInv, LoneInv
  <1>2. ASSUME NEW u \in Users, NEW size \in Sizes,
               NEW which \in {"first", "largest"}, Allocate(u, size, which)
        PROVE  LoneInv'
    <2>1. Allocating = {}
      BY <1>2, NobodyIn DEF Allocate
    <2>2. \A v \in Users : /\ v \in Allocating' => v = u
                           /\ ~Waiting(v)'
      BY <1>1, <1>2, <2>1 DEF Allocate, Goto, Allocating, In, Waiting, TypeOK
    <2>3. Allocating' \subseteq Users
      BY DEF Allocating, In
    <2>4. QED BY <1>1, <1>2, <2>2, <2>3
              DEF Allocate, LoneInv, OneIsIn, NoLostWakeup, destroy
  <1>3. ASSUME NEW u \in Users, TakeFirst(u) \/ TakeLargest(u) \/ Break(u)
        PROVE  LoneInv'
    BY <1>1, <1>3, LeavingKeeps
       DEF TakeFirst, TakeLargest, Break, Looks, Leave, Allocating, In, LoneInv
  <1>4. ASSUME NEW u \in Users, Sleep(u) PROVE LoneInv'
    <2>1. /\ u \in Allocating /\ Allocating' = Allocating
          /\ stage = "live" /\ Fits(u) = {}
      BY <1>1, <1>4 DEF Sleep, Looks, Goto, Allocating, In, TypeOK, OneIsIn
    <2>2. Fits(u)' = {}
      BY <1>4, <2>1 DEF Sleep, Fits, Slots
    <2>3. \A v \in Users : Waiting(v)' => v = u
      BY <1>1, <2>1 DEF OneIsIn, Waiting, Allocating, In
    <2>4. QED BY <1>1, <1>4, <2>1, <2>2, <2>3
              DEF Sleep, LoneInv, OneIsIn, NoLostWakeup, destroy
  <1>5. ASSUME NEW u \in Users, Wake(u) PROVE LoneInv'
    <2>1. Allocating' = Allocating
      BY <1>1, <1>5 DEF Wake, Goto, Allocating, In, TypeOK
    <2>2. \A v \in Users : Waiting(v)' => Waiting(v) /\ Fits(v)' \subseteq Fits(v)
      BY <1>1, <1>5 DEF Wake, Goto, Waiting, Fits, Slots, TypeOK, locked
    <2>3. QED BY <1>5, <2>1, <2>2, OutsideKeeps DEF LoneInv, Wake, locked, destroy
  <1>6. ASSUME NEW u \in Users, WakeToLeave(u) PROVE LoneInv'
    BY <1>1, <1>6, LeavingKeeps DEF WakeToLeave, Allocating, In, LoneInv
  <1>7. ASSUME NEW u \in Users, ExtendUpwards(u) \/ ExtendDownwards(u)
        PROVE  LoneInv'
    <2>1. PICK i \in Indices : Clears(i)
      BY <1>1, <1>7, ExtendTable
    <2>2. \A v \in Users : Fits(v)' \subseteq Fits(v)
      <3>1. \A j \in Indices : Blocks'[j].InUse => Blocks'[j] = Blocks[j]
        BY <1>1, <2>1 DEF Clears, TypeOK, FreeSlot
      <3>2. Slots' = Slots /\ Slots \subseteq Indices
        BY <1>1, <2>1, IndicesIs DEF Clears, Slots
      <3>3. Arg' = Arg
        BY <1>7 DEF ExtendUpwards, ExtendDownwards
      <3>4. QED BY <3>1, <3>2, <3>3 DEF Fits
    <2>3. UNCHANGED <<pc, InAllocate, BeingDeleted, stage, EntryFreed>>
      BY <1>7 DEF ExtendUpwards, ExtendDownwards, destroy
    <2>4. QED BY <2>2, <2>3, OutsideKeeps DEF LoneInv, Waiting, Allocating, In
  <1>8. ASSUME NEW u \in Users, NEW keep \in {0} \cup Sizes, Free(u, keep)
        PROVE  LoneInv'
    <2>1. Allocating' = Allocating
      BY <1>1, <1>8 DEF Free, Goto, Allocating, In, TypeOK
    <2>2. \A v \in Users : Waiting(v)' => Waiting(v) /\ Fits(v)' \subseteq Fits(v)
      BY <1>1, <1>8 DEF Free, Goto, Waiting, Fits, Slots, TypeOK, locked
    <2>3. QED BY <1>8, <2>1, <2>2, OutsideKeeps DEF LoneInv, Free, locked, destroy
  <1>9. ASSUME NEW u \in Users, Freeing(u) PROVE LoneInv'
    <2>1. /\ pc[u] = "free" /\ Return(u) /\ EntryFreed' = TRUE
          /\ UNCHANGED <<InAllocate, destroy>>
      BY <1>9 DEF Freeing, FreeInsert, FreeTooMany, Frees, Tell
    <2>2. Allocating' = Allocating
      BY <1>1, <2>1 DEF Return, Goto, Allocating, In, TypeOK
    <2>3. QED BY <1>1, <2>1, <2>2 DEF LoneInv, OneIsIn, NoLostWakeup, destroy
  <1>10. ASSUME Delete \/ Deleting PROVE LoneInv'
    <2>1. /\ Allocating' = Allocating
          /\ \A v \in Users : Waiting(v)' = Waiting(v) /\ Fits(v)' = Fits(v)
      BY <1>10 DEF Delete, Deleting, DeleteSignal, DeleteEnd, Allocating, In,
                   Waiting, Fits, Slots, locked
    <2>2. QED BY <1>1, <1>10, <2>1
              DEF Delete, Deleting, DeleteSignal, DeleteEnd, AllOut, LoneInv,
                  OneIsIn, NoLostWakeup, locked
  <1>11. CASE UNCHANGED vars
    <2>1. /\ Allocating' = Allocating
          /\ \A v \in Users : Waiting(v)' = Waiting(v) /\ Fits(v)' = Fits(v)
      BY <1>11 DEF vars, Allocating, In, Waiting, Fits, Slots
    <2>2. QED BY <1>11, <2>1, OutsideKeeps DEF vars
  <1>12. QED
    BY <1>2, <1>3, <1>4, <1>5, <1>6, <1>7, <1>8, <1>9, <1>10, <1>11
       DEF Next, Looking, Waking

\* Allocate and the destructor, of an allocator one thread allocates from.
LEMMA LoneInvariant == ASSUME MaxAllocating = 1 PROVE Spec => []LoneInv
  <1>1. IInv /\ LoneInv /\ [Next]_vars => LoneInv'
    BY LoneStep
  <1>2. QED BY AllocatorInvariant, InitLone, <1>1, PTL DEF Spec

(* A lone Allocate never sleeps without its event set in front of a block  *)
(* it could have, or through the deletion: the reset before the search and *)
(* the set after it are in the order that loses none.                      *)
THEOREM LoneWakeupIsKept == ASSUME MaxAllocating = 1 PROVE Spec => []NoLostWakeup
  <1>1. LoneInv => NoLostWakeup
    BY DEF LoneInv
  <1>2. QED BY LoneInvariant, <1>1, PTL

(* When the destructor is done the thread that was in Allocate is out, so  *)
(* the event and the mutex it used outlive its use of them.                *)
THEOREM DeletedIsEmpty == ASSUME MaxAllocating = 1 PROVE Spec => []DeletedEmpty
  <1>1. LoneInv => DeletedEmpty
    BY DEF LoneInv, OneIsIn, DeletedEmpty
  <1>2. QED BY LoneInvariant, <1>1, PTL

-----------------------------------------------------------------------------
(* Where each unit of the memory is.                                       *)

Memory == 0..(BufferSize - 1)

InBlocks(x)  == \E i \in Indices : x \in Units(FreePiece(i))
InBuffers(x) == \E u \in Users : x \in Units(Block[u])
InFrees(x)   == \E u \in Users : x \in Units(FreedPiece(u))

Somewhere(x) == x \in Dropped \/ InBlocks(x) \/ InBuffers(x) \/ InFrees(x)

Whole == \A x \in Memory : Somewhere(x)

\* A step that loses none of it.
NoneLost == \A x \in Memory : Somewhere(x) => Somewhere(x)'

\* What Allocate stores does not replace what the buffer had.
EmptyHanded == \A u \in Allocating : Block[u] = NoPiece

LEMMA UnitsOf ==
  /\ Units(NoPiece) = {}
  /\ \A p \in AnyPiece, x \in Int :
       x \in Units(p) <=> p.Base <= x /\ x < p.Base + p.Size
  BY DEF Units, NoPiece, Piece, End, AnyPiece

LEMMA WholeIsConserved ==
  ASSUME IInv, Whole
  PROVE  Conserved
  <1> USE DEF Accounted
  <1>1. \A p \in AllPieces : p \in AnyPiece /\ Within(p)
    BY PieceTypes DEF IInv, NoneCrosses, Within, AllPieces
  <1>2. \A p \in AllPieces : Units(p) \subseteq Memory
    BY <1>1, SizesAssumption DEF Within, Units, End, AnyPiece, Memory
  <1>3. Dropped \subseteq Memory
    BY DEF IInv, TypeOK, Memory
  <1>4. ASSUME NEW x \in Memory
        PROVE  x \in Dropped \cup UNION {Units(p) : p \in AllPieces}
    <2>1. CASE x \in Dropped
      BY <2>1
    <2>2. CASE InBlocks(x)
      BY <2>2 DEF InBlocks, AllPieces
    <2>3. CASE InBuffers(x)
      BY <2>3 DEF InBuffers, AllPieces
    <2>4. CASE InFrees(x)
      BY <2>4 DEF InFrees, AllPieces
    <2>5. QED BY <2>1, <2>2, <2>3, <2>4 DEF Whole, Somewhere
  <1>5. UNION {Units(p) : p \in AllPieces} \subseteq Memory
    BY <1>2
  <1> HIDE DEF AllPieces
  <1>6. Memory = Dropped \cup UNION {Units(p) : p \in AllPieces}
    BY <1>3, <1>4, <1>5
  <1>7. QED BY <1>6 DEF Conserved, Memory

\* With an entry for each piece the table holds all of the memory.
LEMMA InitWhole ==
  ASSUME Cardinality(Starts) <= MaxBlocks, Init
  PROVE  EmptyHanded /\ Whole
  <1>1. ASSUME NEW x \in Memory PROVE InBlocks(x)
    <2> DEFINE S == {s \in Starts : s <= x}
    <2>1. x \in Nat /\ x < BufferSize /\ Starts \in SUBSET Nat
      BY StartsAre, SizesAssumption DEF Memory
    <2>2. S \in SUBSET Nat /\ S # {} /\ \A y \in S : y <= x
      <3>1. 0 \in S
        BY <2>1 DEF Starts
      <3>2. QED BY <3>1, <2>1
    <2>3. PICK s \in S : \A y \in S : s >= y
      <3> HIDE DEF S
      <3>1. QED BY <2>1, <2>2, LargestIs
    <2>4. /\ s \in Starts /\ s \in Nat /\ s <= x
          /\ After(s) \in Nat /\ s < After(s)
      BY <2>1, <2>3, StartsAre
    <2>5. x < After(s)
      <3>1. SUFFICES ASSUME After(s) <= x PROVE FALSE
        BY <2>1, <2>4
      <3> DEFINE T == {r \in Starts : r > s} \cup {BufferSize}
      <3>2. T \in SUBSET Nat /\ T # {}
        BY <2>1, SizesAssumption
      <3>3. After(s) \in T
        <4>1. After(s) = Smallest(T)
          BY DEF After
        <4> HIDE DEF T
        <4>2. QED BY <3>2, <4>1, SmallestIs
      <3>4. After(s) \in Starts /\ After(s) > s
        BY <3>1, <3>3, <2>1, <2>4, SizesAssumption
      <3>5. After(s) \in S
        BY <3>1, <3>4
      <3>6. QED BY <3>4, <3>5, <2>3, <2>4
    <2>6. s \in Pieces
      <3>1. Ordinal(s) < Cardinality(Starts) /\ Ordinal(s) \in Nat
        BY <2>4, OrdinalIs
      <3>2. Cardinality(Starts) \in Nat /\ MaxBlocks \in Nat
        BY StartsAre, FS_CardinalityType, SizesAssumption
      <3>3. QED BY <3>1, <3>2, <2>4 DEF Pieces
    <2>7. /\ Ordinal(s) \in Indices
          /\ Blocks[Ordinal(s)] = Slot(Piece(s, After(s) - s))
      BY <2>6, InitBlocks
    <2>8. FreePiece(Ordinal(s)) = Piece(s, After(s) - s)
      BY <2>7 DEF FreePiece, Slot, Piece
    <2>9. x \in Units(Piece(s, After(s) - s))
      BY <2>1, <2>4, <2>5 DEF Units, End, Piece
    <2>10. QED BY <2>7, <2>8, <2>9 DEF InBlocks
  <1>2. EmptyHanded
    BY DEF Init, EmptyHanded, Allocating, In
  <1>3. QED BY <1>1, <1>2 DEF Whole, Somewhere

LEMMA EmptyHandedStep ==
  ASSUME TypeOK, EmptyHanded, [Next]_vars
  PROVE  EmptyHanded'
  <1> USE DEF TypeOK, EmptyHanded, Allocating, In, Return, Goto, locked,
              destroy
  <1>1. ASSUME NEW u \in Users, NEW size \in Sizes,
               NEW which \in {"first", "largest"}, Allocate(u, size, which)
        PROVE  EmptyHanded'
    BY <1>1 DEF Allocate
  <1>2. ASSUME NEW u \in Users, TakeFirst(u) \/ TakeLargest(u)
        PROVE  EmptyHanded'
    BY <1>2 DEF TakeFirst, TakeLargest, Looks
  <1>3. ASSUME NEW u \in Users, Sleep(u) \/ Break(u) \/ Waking(u)
        PROVE  EmptyHanded'
    BY <1>3 DEF Sleep, Break, Looks, Waking, Wake, WakeToLeave
  <1>4. ASSUME NEW u \in Users, ExtendUpwards(u) \/ ExtendDownwards(u)
        PROVE  EmptyHanded'
    BY <1>4 DEF ExtendUpwards, ExtendDownwards
  <1>5. ASSUME NEW u \in Users, NEW keep \in {0} \cup Sizes, Free(u, keep)
        PROVE  EmptyHanded'
    BY <1>5 DEF Free
  <1>6. ASSUME NEW u \in Users, Freeing(u)
        PROVE  EmptyHanded'
    BY <1>6 DEF Freeing, FreeInsert, FreeTooMany, Frees
  <1>7. ASSUME Delete \/ Deleting PROVE EmptyHanded'
    BY <1>7 DEF Delete, Deleting, DeleteSignal, DeleteEnd
  <1>8. CASE UNCHANGED vars
    BY <1>8 DEF vars
  <1>9. QED
    BY <1>1, <1>2, <1>3, <1>4, <1>5, <1>6, <1>7, <1>8 DEF Next, Looking

\* Each unit is somewhere again after the step.
LEMMA Rehoused ==
  ASSUME Dropped \subseteq Dropped',
         \A x \in Memory :
           /\ InBlocks(x) => Somewhere(x)'
           /\ InBuffers(x) => Somewhere(x)'
           /\ InFrees(x) => Somewhere(x)'
  PROVE  NoneLost
  BY DEF NoneLost, Somewhere

\* A unit that stays where it is.
LEMMA StillThere ==
  \A x :
    /\ \A i \in Indices : x \in Units(FreePiece(i))' => Somewhere(x)'
    /\ \A u \in Users : x \in Units(Block[u])' => Somewhere(x)'
    /\ \A u \in Users : x \in Units(FreedPiece(u))' => Somewhere(x)'
  BY DEF Somewhere, InBlocks, InBuffers, InFrees, Indices

LEMMA CallLosesNone ==
  ASSUME UNCHANGED <<Blocks, Block, Dropped>>,
         \A u \in Users : FreedPiece(u)' = FreedPiece(u)
  PROVE  NoneLost
  <1>1. \A i : FreePiece(i)' = FreePiece(i)
    BY DEF FreePiece, NoPiece, Piece
  <1>2. \A x : Somewhere(x) => Somewhere(x)'
    BY <1>1 DEF Somewhere, InBlocks, InBuffers, InFrees, Units, End, Indices
  <1>3. QED BY <1>2 DEF NoneLost

\* Block i goes to u's buffer, but for what Rest leaves in the table.
LEMMA TakeLosesNone ==
  ASSUME TypeOK, NEW u \in Users, Block[u] = NoPiece,
         NEW i \in Indices, Blocks[i].InUse,
         NEW size \in Nat, size <= Blocks[i].Size,
         Block' = [Block EXCEPT ![u] = Piece(Blocks[i].Base, size)],
         Blocks' = [Blocks EXCEPT ![i] = Rest(Blocks[i], size)],
         \A v \in Users : FreedPiece(v)' = FreedPiece(v),
         UNCHANGED Dropped
  PROVE  NoneLost
  <1>1. Blocks[i].Base \in Nat /\ Blocks[i].Size \in Nat
    BY IndicesIs
  <1>2. ASSUME NEW x \in Memory, InBlocks(x) PROVE Somewhere(x)'
    <2>1. PICK j \in Indices : x \in Units(FreePiece(j))
      BY <1>2 DEF InBlocks
    <2>2. CASE j # i
      <3>1. FreePiece(j)' = FreePiece(j)
        BY <2>2 DEF TypeOK, FreePiece, NoPiece, Piece
      <3>2. x \in Units(FreePiece(j))'
        BY <2>1, <3>1 DEF Units, End
      <3>3. QED BY <3>2, StillThere
    <2>3. CASE j = i
      <3>1. /\ x \in Int /\ Blocks[i].Base <= x
            /\ x < Blocks[i].Base + Blocks[i].Size
        BY <1>1, <2>1, <2>3 DEF FreePiece, Units, End, Piece
      <3>2. CASE x < Blocks[i].Base + size
        <4>1. Block'[u] = Piece(Blocks[i].Base, size)
          BY DEF TypeOK
        <4>2. x \in Units(Block[u])'
          BY <1>1, <3>1, <3>2, <4>1 DEF Units, End, Piece
        <4>3. QED BY <4>2, StillThere
      <3>3. CASE Blocks[i].Base + size <= x
        <4>1. Blocks'[i] = Slot(Piece(Blocks[i].Base + size,
                                      Blocks[i].Size - size))
          BY <1>1, <3>1, <3>3 DEF TypeOK, Rest
        <4>2. FreePiece(i)' = Piece(Blocks[i].Base + size,
                                    Blocks[i].Size - size)
          BY <4>1 DEF FreePiece, Slot, Piece
        <4>3. x \in Units(FreePiece(i))'
          BY <1>1, <3>1, <3>3, <4>2 DEF Units, End, Piece
        <4>4. QED BY <4>3, StillThere
      <3>4. QED BY <1>1, <3>1, <3>2, <3>3
    <2>4. QED BY <2>2, <2>3
  <1>3. ASSUME NEW x \in Memory, InBuffers(x) PROVE Somewhere(x)'
    <2>1. PICK v \in Users : x \in Units(Block[v])
      BY <1>3 DEF InBuffers
    <2>2. v # u
      BY <2>1, UnitsOf
    <2>3. x \in Units(Block[v])'
      BY <2>1, <2>2 DEF TypeOK, Units, End
    <2>4. QED BY <2>3, StillThere
  <1>4. ASSUME NEW x \in Memory, InFrees(x) PROVE Somewhere(x)'
    BY <1>4, StillThere DEF InFrees, Units, End
  <1>5. QED BY <1>2, <1>3, <1>4, Rehoused

\* Block i is added to u's buffer, which becomes c.
LEMMA ExtendLosesNone ==
  ASSUME TypeOK, NEW u \in Users, NEW i \in Indices, NEW c,
         Units(Block[u]) \subseteq Units(c),
         Units(FreePiece(i)) \subseteq Units(c),
         Block' = [Block EXCEPT ![u] = c],
         Blocks' = [Blocks EXCEPT ![i] = FreeSlot],
         UNCHANGED <<pc, Arg, Dropped>>
  PROVE  NoneLost
  <1>1. Block'[u] = c /\ Units(c) = Units(Block[u])'
    BY DEF TypeOK, Units, End
  <1>2. ASSUME NEW x \in Memory, InBlocks(x) PROVE Somewhere(x)'
    <2>1. PICK j \in Indices : x \in Units(FreePiece(j))
      BY <1>2 DEF InBlocks
    <2>2. CASE j # i
      <3>1. FreePiece(j)' = FreePiece(j)
        BY <2>2 DEF TypeOK, FreePiece, NoPiece, Piece
      <3>2. x \in Units(FreePiece(j))'
        BY <2>1, <3>1 DEF Units, End
      <3>3. QED BY <3>2, StillThere
    <2>3. CASE j = i
      BY <1>1, <2>1, <2>3, StillThere
    <2>4. QED BY <2>2, <2>3
  <1>3. ASSUME NEW x \in Memory, InBuffers(x) PROVE Somewhere(x)'
    <2>1. PICK v \in Users : x \in Units(Block[v])
      BY <1>3 DEF InBuffers
    <2>2. x \in Units(Block[v])'
      BY <1>1, <2>1 DEF TypeOK, Units, End
    <2>3. QED BY <2>2, StillThere
  <1>4. ASSUME NEW x \in Memory, InFrees(x) PROVE Somewhere(x)'
    BY <1>4, StillThere DEF InFrees, FreedPiece, NoPiece, Piece, Units, End
  <1>5. QED BY <1>2, <1>3, <1>4, Rehoused

\* What a buffer gives up is then being freed.
LEMMA FreeLosesNone ==
  ASSUME TypeOK, NEW u \in Users, NEW keep \in Nat, Free(u, keep)
  PROVE  NoneLost
  <1> DEFINE b == Block[u]
             a == Piece(b.Base + keep, b.Size - keep)
  <1>1. b.Base \in Nat /\ b.Size \in Nat /\ keep < b.Size /\ pc[u] = "idle"
    BY DEF TypeOK, Free
  <1>2. /\ FreedPiece(u)' = a
        /\ Block'[u] = IF keep = 0 THEN NoPiece ELSE Piece(b.Base, keep)
        /\ \A v \in Users \ {u} : /\ Block'[v] = Block[v]
                                  /\ FreedPiece(v)' = FreedPiece(v)
        /\ UNCHANGED <<Blocks, Dropped>>
    BY <1>1 DEF TypeOK, Free, Goto, FreedPiece, NoPiece, Piece, locked
  <1> HIDE DEF b
  <1>3. ASSUME NEW x \in Memory, x \in Units(b) PROVE Somewhere(x)'
    <2>1. x \in Int /\ b.Base <= x /\ x < b.Base + b.Size
      BY <1>1, <1>3 DEF Units, End
    <2>2. CASE x < b.Base + keep
      <3>1. Block'[u] = Piece(b.Base, keep)
        BY <1>1, <1>2, <2>1, <2>2
      <3>2. x \in Units(Block[u])'
        BY <1>1, <2>1, <2>2, <3>1 DEF Units, End, Piece
      <3>3. QED BY <3>2, StillThere
    <2>3. CASE b.Base + keep <= x
      <3>1. x \in Units(FreedPiece(u))'
        BY <1>1, <1>2, <2>1, <2>3 DEF Units, End, Piece
      <3>2. QED BY <3>1, StillThere
    <2>4. QED BY <1>1, <2>1, <2>2, <2>3
  <1>4. ASSUME NEW x \in Memory, InBuffers(x) PROVE Somewhere(x)'
    <2>1. PICK v \in Users : x \in Units(Block[v])
      BY <1>4 DEF InBuffers
    <2>2. CASE v = u
      BY <1>3, <2>1, <2>2 DEF b
    <2>3. CASE v # u
      <3>1. x \in Units(Block[v])'
        BY <1>2, <2>1, <2>3 DEF Units, End
      <3>2. QED BY <3>1, StillThere
    <2>4. QED BY <2>2, <2>3
  <1>5. ASSUME NEW x \in Memory, InFrees(x) PROVE Somewhere(x)'
    <2>1. PICK v \in Users : x \in Units(FreedPiece(v))
      BY <1>5 DEF InFrees
    <2>2. v # u
      BY <1>1, <2>1, UnitsOf DEF FreedPiece
    <2>3. x \in Units(FreedPiece(v))'
      BY <1>2, <2>1, <2>2 DEF Units, End
    <2>4. QED BY <2>3, StillThere
  <1>6. ASSUME NEW x \in Memory, InBlocks(x) PROVE Somewhere(x)'
    <2>1. PICK i \in Indices : x \in Units(FreePiece(i))
      BY <1>6 DEF InBlocks
    <2>2. FreePiece(i)' = FreePiece(i)
      BY <1>2 DEF FreePiece, NoPiece, Piece
    <2>3. x \in Units(FreePiece(i))'
      BY <2>1, <2>2 DEF Units, End
    <2>4. QED BY <2>3, StillThere
  <1>7. QED BY <1>2, <1>4, <1>5, <1>6, Rehoused

\* A buffer is not in Free: none of its memory is being freed then.
LEMMA FreedUnits ==
  ASSUME TypeOK, NEW u \in Users, Freeing(u)
  PROVE  /\ pc[u] = "free" /\ FreedPiece(u) = Arg[u] /\ Arg[u] \in AnyPiece
         /\ \A v \in Users \ {u} : FreedPiece(v)' = FreedPiece(v)
         /\ Block' = Block
  BY DEF TypeOK, Freeing, FreeInsert, FreeTooMany, Frees, Return, Goto,
         FreedPiece, NoPiece, Piece, AnyPiece

LEMMA TooManyLosesNone ==
  ASSUME TypeOK, NEW u \in Users, FreeTooMany(u)
  PROVE  NoneLost
  <1>1. /\ FreedPiece(u) = Arg[u]
        /\ \A v \in Users \ {u} : FreedPiece(v)' = FreedPiece(v)
        /\ UNCHANGED <<Blocks, Block>>
        /\ Dropped' = Dropped \cup Units(Arg[u])
    BY FreedUnits DEF Freeing, FreeTooMany
  <1>2. ASSUME NEW x \in Memory, InFrees(x) PROVE Somewhere(x)'
    <2>1. PICK v \in Users : x \in Units(FreedPiece(v))
      BY <1>2 DEF InFrees
    <2>2. CASE v = u
      BY <1>1, <2>1, <2>2 DEF Somewhere
    <2>3. CASE v # u
      <3>1. x \in Units(FreedPiece(v))'
        BY <1>1, <2>1, <2>3 DEF Units, End
      <3>2. QED BY <3>1, StillThere
    <2>4. QED BY <2>2, <2>3
  <1>3. ASSUME NEW x \in Memory, InBuffers(x) PROVE Somewhere(x)'
    BY <1>1, <1>3, StillThere DEF InBuffers, Units, End
  <1>4. ASSUME NEW x \in Memory, InBlocks(x) PROVE Somewhere(x)'
    <2>1. PICK i \in Indices : x \in Units(FreePiece(i))
      BY <1>4 DEF InBlocks
    <2>2. FreePiece(i)' = FreePiece(i)
      BY <1>1 DEF FreePiece, NoPiece, Piece
    <2>3. x \in Units(FreePiece(i))'
      BY <2>1, <2>2 DEF Units, End
    <2>4. QED BY <2>3, StillThere
  <1>5. QED BY <1>1, <1>2, <1>3, <1>4, Rehoused

\* The entry a Free writes is free, or one it joins, or its guess was wrong.
LEMMA TargetIsFree ==
  ASSUME TypeOK, InSight, NEW u \in Users, NEW p \in AnyPiece,
         Target(p, LowestFreeBlock[u]) \in Indices,
         Blocks[Target(p, LowestFreeBlock[u])].InUse,
         Target(p, LowestFreeBlock[u]) \notin Joined(p)
  PROVE  /\ LowestFreeBlock[u] = Target(p, LowestFreeBlock[u])
         /\ LowestFreeBlock[u] \in Slots
  <1> DEFINE low == LowestFreeBlock[u]
             slot == Target(p, low)
             S == {low} \cup {i \in Slots : ~Blocks[i].InUse \/ i \in Joined(p)}
  <1>1. HighestUsedBlockIndex \in Nat /\ low \in Nat
    BY IndicesIs DEF TypeOK
  <1>2. S \in SUBSET Nat /\ S # {}
    BY <1>1, IndicesIs
  <1>3. slot \in S
    <2>1. slot = Smallest(S)
      BY DEF Target
    <2> HIDE DEF S, slot
    <2>2. QED BY <2>1, <1>2, SmallestIs
  <1>4. slot <= HighestUsedBlockIndex
    BY DEF InSight
  <1>5. slot = low
    BY <1>3
  <1>6. low \in Slots
    <2> HIDE DEF slot
    <2>1. low <= HighestUsedBlockIndex
      BY <1>4, <1>5
    <2>2. QED BY <1>1, <2>1 DEF Slots
  <1>7. QED BY <1>5, <1>6

InEntry(x, i) == x \in Units(FreePiece(i))

LEMMA InsertLoses ==
  ASSUME IInv, InSight, NEW u \in Users, FreeInsert(u),
         NEW x \in Memory, Somewhere(x)
  PROVE  Somewhere(x)' \/ (Overwrites(u) /\ InEntry(x, LowestFreeBlock[u]))
  <1> DEFINE p == Arg[u]
             slot == Target(p, LowestFreeBlock[u])
             c == Concatenated(p)
  <1>1. /\ TypeOK /\ pc[u] = "free" /\ FreedPiece(u) = p
        /\ \A v \in Users \ {u} : FreedPiece(v)' = FreedPiece(v)
        /\ UNCHANGED <<Block, Dropped>>
    BY FreedUnits DEF IInv, Freeing, FreeInsert
  <1>2. /\ p \in AnyPiece /\ slot \in Indices
        /\ Blocks' = [i \in Indices |->
                        IF i = slot THEN Slot(c)
                        ELSE IF i \in Joined(p) THEN FreeSlot ELSE Blocks[i]]
    BY InsertIs
  <1>3. Blocks[slot].InUse /\ slot \notin Joined(p)
          => LowestFreeBlock[u] = slot /\ Overwrites(u)
    BY <1>1, <1>2, TargetIsFree DEF Overwrites
  <1>4. /\ c \in AnyPiece /\ c.Base <= p.Base /\ End(p) <= End(c)
        /\ \A i \in Below(p) : c.Base <= Blocks[i].Base
        /\ \A i \in Above(p) : End(Blocks[i]) <= End(c)
    BY <1>2, ConcatenatedIs
  <1> HIDE DEF p, slot, c
  <1> PICK new \in Indices : new = slot
    BY <1>2
  <1>5. FreePiece(new)' = c
    <2>1. Blocks'[new] = Slot(c)
      BY <1>2
    <2>2. QED BY <2>1, <1>4 DEF FreePiece, Slot, Piece, AnyPiece
  <1>6. ASSUME x \in Units(c) PROVE Somewhere(x)'
    <2>1. x \in Units(FreePiece(new))'
      BY <1>5, <1>6 DEF Units, End
    <2>2. QED BY <2>1, StillThere
  <1>7. ASSUME NEW i \in Indices, Blocks[i].InUse, i \in Joined(p)
        PROVE  Units(FreePiece(i)) \subseteq Units(c)
    <2>1. Blocks[i].Base \in Nat /\ Blocks[i].Size \in Nat
      BY <1>1, IndicesIs
    <2>2. FreePiece(i) = Piece(Blocks[i].Base, Blocks[i].Size)
      BY <1>7 DEF FreePiece
    <2>3. c.Base <= Blocks[i].Base /\ End(Blocks[i]) <= End(c)
      <3>1. /\ p.Base \in Nat /\ p.Size \in Nat
            /\ c.Base \in Nat /\ End(c) \in Nat
        BY <1>2, <1>4 DEF AnyPiece, End
      <3>2. CASE i \in Above(p)
        BY <1>4, <2>1, <3>1, <3>2 DEF Above, End
      <3>3. CASE i \in Below(p)
        BY <1>4, <2>1, <3>1, <3>3 DEF Below, End
      <3>4. QED BY <1>7, <3>2, <3>3 DEF Joined
    <2>4. QED BY <2>1, <2>2, <2>3, <1>4 DEF Units, End, Piece, AnyPiece
  <1>8. ASSUME InBlocks(x), ~InEntry(x, slot) \/ ~Overwrites(u)
                 \/ LowestFreeBlock[u] # slot
        PROVE  Somewhere(x)'
    <2>1. PICK i \in Indices : x \in Units(FreePiece(i))
      BY <1>8 DEF InBlocks
    <2>2. Blocks[i].InUse
      BY <2>1, UnitsOf DEF FreePiece
    <2>3. CASE i \in Joined(p)
      BY <2>1, <2>2, <2>3, <1>6, <1>7
    <2>4. CASE i \notin Joined(p)
      <3>1. i # slot
        BY <1>3, <1>8, <2>1, <2>2, <2>4 DEF InEntry
      <3>2. Blocks'[i] = Blocks[i]
        BY <1>2, <2>4, <3>1
      <3>3. FreePiece(i)' = FreePiece(i)
        BY <3>2 DEF FreePiece, NoPiece, Piece
      <3>4. x \in Units(FreePiece(i))'
        BY <2>1, <3>3 DEF Units, End
      <3>5. QED BY <3>4, StillThere
    <2>5. QED BY <2>3, <2>4
  <1>9. ASSUME InBuffers(x) PROVE Somewhere(x)'
    BY <1>1, <1>9, StillThere DEF InBuffers, Units, End
  <1>10. ASSUME InFrees(x) PROVE Somewhere(x)'
    <2>1. PICK v \in Users : x \in Units(FreedPiece(v))
      BY <1>10 DEF InFrees
    <2>2. CASE v = u
      <3>1. Units(p) \subseteq Units(c)
        BY <1>2, <1>4 DEF Units, End, AnyPiece
      <3>2. QED BY <1>1, <1>6, <2>1, <2>2, <3>1
    <2>3. CASE v # u
      <3>1. x \in Units(FreedPiece(v))'
        BY <1>1, <2>1, <2>3 DEF Units, End
      <3>2. QED BY <3>1, StillThere
    <2>4. QED BY <2>2, <2>3
  <1>11. x \in Dropped => Somewhere(x)'
    BY <1>1 DEF Somewhere
  <1>12. QED BY <1>8, <1>9, <1>10, <1>11 DEF Somewhere

\* In a step that is not a Free's insertion all stays somewhere.
LEMMA OthersLoseNone ==
  ASSUME IInv, EmptyHanded, [Next]_vars, \A u \in Users : ~FreeInsert(u)
  PROVE  NoneLost
  <1>1. TypeOK
    BY DEF IInv
  <1>2. ASSUME NEW u \in Users, NEW size \in Sizes,
               NEW which \in {"first", "largest"}, Allocate(u, size, which)
        PROVE  NoneLost
    BY <1>1, <1>2, CallLosesNone
       DEF Allocate, Goto, FreedPiece, NoPiece, Piece, TypeOK, locked
  <1>3. ASSUME NEW u \in Users, TakeFirst(u) PROVE NoneLost
    <2> DEFINE i == Smallest(Fits(u))
               size == Arg[u].Size
    <2>1. i \in Indices /\ Blocks[i].InUse /\ size <= Blocks[i].Size
      BY <1>1, <1>3, FirstFit DEF TakeFirst
    <2>2. size \in Nat
      BY <1>1 DEF TypeOK
    <2>3. /\ Block' = [Block EXCEPT ![u] = Piece(Blocks[i].Base, size)]
          /\ Blocks' = [Blocks EXCEPT ![i] = Rest(Blocks[i], size)]
          /\ UNCHANGED Dropped
      BY <1>3 DEF TakeFirst
    <2>4. /\ \A v \in Users : FreedPiece(v)' = FreedPiece(v)
          /\ Block[u] = NoPiece
      BY <1>1, <1>3 DEF TakeFirst, Looks, Return, Goto, TypeOK, FreedPiece,
                        NoPiece, Piece, EmptyHanded, Allocating, In
    <2> HIDE DEF i, size
    <2>5. QED BY <1>1, <2>1, <2>2, <2>3, <2>4, TakeLosesNone
  <1>4. ASSUME NEW u \in Users, TakeLargest(u) PROVE NoneLost
    <2> DEFINE i == LargestFreeBlock
               size == Blocks[i].Size
    <2>1. i \in Indices /\ Blocks[i].InUse
      BY <1>4, LargestFit DEF TakeLargest
    <2>2. size \in Nat /\ size <= Blocks[i].Size
      BY <1>1, <2>1, IndicesIs
    <2>3. /\ Block' = [Block EXCEPT ![u] = Piece(Blocks[i].Base, size)]
          /\ Blocks' = [Blocks EXCEPT ![i] = Rest(Blocks[i], size)]
          /\ UNCHANGED Dropped
      BY <1>4 DEF TakeLargest, Rest
    <2>4. /\ \A v \in Users : FreedPiece(v)' = FreedPiece(v)
          /\ Block[u] = NoPiece
      BY <1>1, <1>4 DEF TakeLargest, Looks, Return, Goto, TypeOK, FreedPiece,
                        NoPiece, Piece, EmptyHanded, Allocating, In
    <2> HIDE DEF i, size
    <2>5. QED BY <1>1, <2>1, <2>2, <2>3, <2>4, TakeLosesNone
  <1>5. ASSUME NEW u \in Users, Sleep(u) \/ Waking(u) \/ Break(u) PROVE NoneLost
    BY <1>1, <1>5, CallLosesNone
       DEF Sleep, Waking, Wake, WakeToLeave, Break, Looks, Return, Goto,
           FreedPiece, NoPiece, Piece, TypeOK, locked
  <1>6. ASSUME NEW u \in Users, ExtendUpwards(u) PROVE NoneLost
    <2> DEFINE b == Block[u]
    <2>1. PICK i \in Slots :
            /\ Blocks[i].InUse /\ Blocks[i].Base = End(b)
            /\ Block' = [Block EXCEPT ![u].Size = @ + Blocks[i].Size]
            /\ Blocks' = [Blocks EXCEPT ![i] = FreeSlot]
      BY <1>6 DEF ExtendUpwards
    <2> DEFINE c == Piece(b.Base, b.Size + Blocks[i].Size)
    <2>2. i \in Indices /\ FreePiece(i) = Piece(Blocks[i].Base, Blocks[i].Size)
      BY <1>1, <2>1, IndicesIs DEF FreePiece
    <2>3. b \in AnyPiece /\ Blocks[i].Base \in Nat /\ Blocks[i].Size \in Nat
      BY <1>1, <2>2, IndicesIs DEF TypeOK, AnyPiece
    <2>4. Block' = [Block EXCEPT ![u] = c]
      <3>1. [b EXCEPT !.Size = @ + Blocks[i].Size] = c
        BY <2>3 DEF AnyPiece, Piece
      <3>2. QED BY <2>1, <3>1
    <2>5. /\ Units(b) \subseteq Units(c)
          /\ Units(FreePiece(i)) \subseteq Units(c)
      BY <2>1, <2>2, <2>3 DEF Units, End, Piece, AnyPiece
    <2>6. UNCHANGED <<pc, Arg, Dropped>>
      BY <1>6 DEF ExtendUpwards
    <2> HIDE DEF c
    <2>7. QED BY <1>1, <2>1, <2>2, <2>4, <2>5, <2>6, ExtendLosesNone
  <1>7. ASSUME NEW u \in Users, ExtendDownwards(u) PROVE NoneLost
    <2> DEFINE b == Block[u]
    <2>1. PICK i \in Slots :
            /\ Blocks[i].InUse /\ End(Blocks[i]) = b.Base
            /\ Block' = [Block EXCEPT ![u] = Piece(Blocks[i].Base,
                                                   @.Size + Blocks[i].Size)]
            /\ Blocks' = [Blocks EXCEPT ![i] = FreeSlot]
      BY <1>7 DEF ExtendDownwards
    <2> DEFINE c == Piece(Blocks[i].Base, b.Size + Blocks[i].Size)
    <2>2. i \in Indices /\ FreePiece(i) = Piece(Blocks[i].Base, Blocks[i].Size)
      BY <1>1, <2>1, IndicesIs DEF FreePiece
    <2>3. b \in AnyPiece /\ Blocks[i].Base \in Nat /\ Blocks[i].Size \in Nat
      BY <1>1, <2>2, IndicesIs DEF TypeOK, AnyPiece
    <2>4. Block' = [Block EXCEPT ![u] = c]
      BY <2>1
    <2>5. /\ Units(b) \subseteq Units(c)
          /\ Units(FreePiece(i)) \subseteq Units(c)
      BY <2>1, <2>2, <2>3 DEF Units, End, Piece, AnyPiece
    <2>6. UNCHANGED <<pc, Arg, Dropped>>
      BY <1>7 DEF ExtendDownwards
    <2> HIDE DEF c
    <2>7. QED BY <1>1, <2>1, <2>2, <2>4, <2>5, <2>6, ExtendLosesNone
  <1>8. ASSUME NEW u \in Users, NEW keep \in {0} \cup Sizes, Free(u, keep)
        PROVE  NoneLost
    <2>1. keep \in Nat
      BY SizesAssumption DEF Sizes
    <2>2. QED BY <1>1, <1>8, <2>1, FreeLosesNone
  <1>9. ASSUME NEW u \in Users, FreeTooMany(u) PROVE NoneLost
    BY <1>1, <1>9, TooManyLosesNone
  <1>10. ASSUME Delete \/ Deleting \/ UNCHANGED vars PROVE NoneLost
    BY <1>1, <1>10, CallLosesNone
       DEF Delete, Deleting, DeleteSignal, DeleteEnd, FreedPiece, NoPiece,
           Piece, locked, vars
  <1>11. QED
    BY <1>2, <1>3, <1>4, <1>5, <1>6, <1>7, <1>8, <1>9, <1>10
       DEF Next, Looking, Freeing

LEMMA AccountedIs ==
  \A x : /\ x \in Accounted <=> Somewhere(x)
         /\ x \in Accounted' <=> Somewhere(x)'
  BY DEF Accounted, AllPieces, Somewhere, InBlocks, InBuffers, InFrees, Indices

\* The step of OnlyOverwritingLoses.
Loss == \A x \in 0..(BufferSize - 1) : x \in Accounted /\ x \notin Accounted'
          => \E u \in Users :
               Overwrites(u) /\ x \in Units(FreePiece(LowestFreeBlock[u]))

LEMMA LossIsOverwriting ==
  ASSUME IInv, TableInv, EmptyHanded, [Next]_vars
  PROVE  Loss
  <1>1. SUFFICES ASSUME NEW x \in Memory, Somewhere(x), ~Somewhere(x)'
        PROVE  \E u \in Users :
                 Overwrites(u) /\ x \in Units(FreePiece(LowestFreeBlock[u]))
    BY AccountedIs DEF Loss, Memory
  <1>2. PICK u \in Users : FreeInsert(u)
    BY <1>1, OthersLoseNone DEF NoneLost
  <1>3. InSight
    BY DEF TableInv
  <1>4. Overwrites(u) /\ InEntry(x, LowestFreeBlock[u])
    BY <1>1, <1>2, <1>3, InsertLoses
  <1>5. QED BY <1>4 DEF InEntry

(* However many calls overlap, memory is lost only when a Free overwrites  *)
(* an entry that was filled after it guessed LowestFreeBlock, and then it  *)
(* is that entry's block.                                                  *)
THEOREM MemoryIsLostByOverwriting == Spec => OnlyOverwritingLoses
  <1>1. IInv /\ TableInv /\ EmptyHanded /\ [Next]_vars => Loss
    BY LossIsOverwriting
  <1>2. IInv /\ TableInv /\ [Next]_vars => TableInv'
    BY TableStep
  <1>3. IInv /\ EmptyHanded /\ [Next]_vars => EmptyHanded'
    BY EmptyHandedStep DEF IInv
  <1>4. Init => EmptyHanded
    BY DEF Init, EmptyHanded, Allocating, In
  <1>5. OnlyOverwritingLoses <=> [][Loss]_vars
    BY DEF OnlyOverwritingLoses, Loss
  <1> HIDE DEF Loss
  <1>6. QED
    BY AllocatorInvariant, InitTable, <1>1, <1>2, <1>3, <1>4, <1>5, PTL DEF Spec

(* So none is lost but what Free reports as long as no Free overwrites an  *)
(* entry, if the table has an entry for each piece the boundaries cut the  *)
(* memory into.                                                            *)
COROLLARY MemoryIsConserved ==
  ASSUME Cardinality(Starts) <= MaxBlocks
  PROVE  Spec /\ [][\A u \in Users : ~Overwrites(u)]_vars => []Conserved
  <1>1. Loss /\ (\A u \in Users : ~Overwrites(u)) /\ Whole => Whole'
    BY AccountedIs DEF Loss, Whole, Memory
  <1>2. UNCHANGED vars /\ Whole => Whole'
    BY AccountedIs DEF Whole, Memory, vars, Accounted, AllPieces, Units, End,
       FreePiece, FreedPiece, NoPiece, Piece, Indices
  <1>3. IInv /\ Whole => Conserved
    BY WholeIsConserved
  <1>4. Init => Whole
    BY InitWhole
  <1>5. OnlyOverwritingLoses <=> [][Loss]_vars
    BY DEF OnlyOverwritingLoses, Loss
  <1> DEFINE None == \A u \in Users : ~Overwrites(u)
  <1> HIDE DEF Loss, Whole, None
  <1>6. QED
    BY AllocatorInvariant, MemoryIsLostByOverwriting, <1>1, <1>2, <1>3, <1>4,
       <1>5, PTL DEF Spec, None
=============================================================================
