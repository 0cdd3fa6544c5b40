-------------------------- MODULE FrameReorderProofs --------------------------
(* FrameReorder, for any number of frames, jumps and drains, any number of *)
(* decode buffers and any size of the list of non decoded frames: a        *)
(* command is never performed early, and no frame is left behind the       *)
(* marker of a drain that discards.                                        *)
EXTENDS FrameReorder, SequenceTheorems, FiniteSetTheorems,
        WellFoundedInduction, TLAPS

Parameters == [kind : {"reference", "other", "playout", "discard"},
               DisplayFrameIndex : Nat, Collapse : BOOLEAN]

TypeOK ==
  /\ frames \in Seq(Parameters)
  /\ NextDisplayFrameIndex \in Nat /\ CollapseHoles \in BOOLEAN
  /\ Deferred \in 0 .. Len(frames)
  /\ ParsedFrameRing \in Seq(Nat) /\ DecodedFrameRing \in Seq(Nat)
  /\ input \in Nat /\ current \in Nat /\ MarkerFrame \in Nat
  /\ Table \in SUBSET (Nat \ {None})
  /\ MaximumSeen \in Nat /\ MinimumAccumulated \in Nat
  /\ passed \in Seq([frame : Nat, number : Nat, shown : BOOLEAN])
  /\ DiscardingPtoD \in BOOLEAN /\ DiscardingDtoM \in BOOLEAN
  /\ pc \in {"scan", "skip", "extract", "pass"}
  /\ drain \in {"none", "jump", "discard", "playout", "marker"}

\* The numbers in a ring rise; between them there may be other entries.
Rising(ring) == \A i, j \in 1 .. Len(ring) :
                  i < j /\ ring[i] # None /\ ring[j] # None => ring[i] < ring[j]

\* What DtoM has extracted, and the highest it has passed on.
Extracted == (Table \cup {current, MarkerFrame}) \ {None}
Pending   == Occupied(DecodedFrameRing) \cup ({input} \ {None})

\* The chain holds the frames in decode order: what is further down was
\* parsed before.
Order ==
  /\ Rising(ParsedFrameRing) /\ Rising(DecodedFrameRing)
  /\ \A y \in Occupied(ParsedFrameRing) :
       /\ y <= Len(frames) /\ MaximumSeen < y
       /\ \A x \in Extracted \cup Pending : x < y
  /\ input # None => /\ input <= Len(frames) /\ MaximumSeen < input
                     /\ \A x \in Extracted \cup Occupied(DecodedFrameRing) :
                          x < input
  /\ \A y \in Occupied(DecodedFrameRing) :
       /\ y <= Len(frames) /\ MaximumSeen < y
       /\ \A x \in Extracted : x < y
  /\ \A x \in Extracted : x <= Len(frames)
  /\ MarkerFrame # None => /\ MaximumSeen < MarkerFrame
                           /\ \A x \in Table \cup {current} : x < MarkerFrame
  /\ MaximumSeen <= Len(frames)
  /\ \A i \in 1 .. Len(passed) : /\ passed[i].frame \in 1 .. Len(frames)
                                 /\ passed[i].frame <= MaximumSeen

\* The numbers given so far apply to what comes, and so will the next one.
Numbering ==
  /\ \A i \in 1 .. Len(passed) :
       ~IsMarker(passed[i].frame) =>
         /\ passed[i].number <= MaximumSeen
         /\ \A f \in Table \cup ({current} \ {None}) : passed[i].number <= f
  /\ pc # "scan" => \A f \in Table : MinimumAccumulated <= f
  /\ pc = "pass" <=> current # None
  /\ MarkerFrame # None => IsMarker(MarkerFrame)

OrderInv == TypeOK /\ Order /\ Numbering

-----------------------------------------------------------------------------
Parsed == {f \in DOMAIN frames : ~IsMarker(f)}

\* A frame without an index is the deferred one; there is room for its index.
Indexing ==
  /\ \A f \in Parsed : ~HasIndex(f) => f = Deferred
  /\ Cardinality(Parsed) <= MaxFrames
  /\ NextDisplayFrameIndex + (IF Deferred = None THEN 0 ELSE 1)
       <= Cardinality(Parsed)

Accepted == Pending \cup Extracted
Chain    == Occupied(ParsedFrameRing) \cup Accepted
Markers  == {m \in Chain : IsMarker(m)}
Decoding == {f \in Accepted : ~IsMarker(f)}

\* There is one marker at a time, and DtoM deals with it before the next.
OneMarker ==
  /\ Markers # {} => drain = "marker"
  /\ \A m, n \in Markers : m = n
  /\ \A f \in Table \cup {current, input} : f # None => ~IsMarker(f)

\* Behind the jump of a drain that discards, and ahead of its marker, no
\* frame that has no index reaches the decoder.
Discards ==
  /\ drain \in {"jump", "discard"} => DiscardingPtoD
  /\ drain = "discard" => \A f \in Decoding : HasIndex(f)
  /\ \A m \in Markers : frames[m].kind = "discard" =>
       /\ m \in Occupied(ParsedFrameRing) => DiscardingPtoD
       /\ \A f \in Decoding : f < m => HasIndex(f)
  /\ MarkerFrame # None /\ frames[MarkerFrame].kind = "discard"
       /\ pc \in {"skip", "extract"} => Table = {}
  /\ \A i \in 1 .. Len(passed) : frames[passed[i].frame].kind = "discard" =>
       \A f \in Table : passed[i].frame < f

IInv == OrderInv /\ Indexing /\ OneMarker /\ Discards

-----------------------------------------------------------------------------
(* The operators the model is built from.                                  *)

\* A set of numbers has a least element.
LEMMA SmallestIs ==
  ASSUME NEW S \in SUBSET Nat, S # {}
  PROVE  Smallest(S) \in S /\ \A y \in S : Smallest(S) <= y
  <1> DEFINE below == {ss \in Nat \X Nat : ss[1] < ss[2]}
  <1>1. IsWellFoundedOn(below, Nat)
    BY NatLessThanWellFounded DEF OpToRel
  <1>2. \E x \in S : \A y \in S : ~(<<y, x>> \in below)
    <2> HIDE DEF below
    <2> QED BY <1>1, WFMin
  <1>3. PICK x \in S : \A y \in S : ~(<<y, x>> \in below)
    BY <1>2, Zenon
  <1>4. \A y \in S : ~(y < x)
    BY <1>3
  <1>5. \A y \in S : x <= y
    BY <1>4
  <1> QED BY <1>5 DEF Smallest

\* What a ring holds besides the pokes.
LEMMA RingHolds ==
  ASSUME NEW ring \in Seq(Nat)
  PROVE  /\ Occupied(ring) \subseteq Nat \ {0}
         /\ \A y : y \in Occupied(ring) <=>
                     y # 0 /\ \E i \in 1 .. Len(ring) : ring[i] = y
  <1>1. DOMAIN ring = 1 .. Len(ring) /\ \A i \in 1 .. Len(ring) : ring[i] \in Nat
    BY LenProperties, ElementOfSeq
  <1> QED BY <1>1 DEF Occupied, Range, Poke

\* The entry at the head of a ring that rises comes before the others.
LEMMA RingTail ==
  ASSUME NEW ring \in Seq(Nat), ring # << >>, Rising(ring)
  PROVE  /\ Tail(ring) \in Seq(Nat) /\ Rising(Tail(ring))
         /\ Head(ring) \in Nat
         /\ Occupied(ring) = Occupied(Tail(ring)) \cup ({Head(ring)} \ {0})
         /\ \A y \in Occupied(Tail(ring)) : Head(ring) < y
  <1>1. /\ Tail(ring) \in Seq(Nat) /\ Head(ring) \in Nat
        /\ Len(ring) \in Nat \ {0} /\ Len(Tail(ring)) = Len(ring) - 1
        /\ \A i \in 1 .. Len(ring) - 1 : Tail(ring)[i] = ring[i + 1]
        /\ Head(ring) = ring[1]
        /\ \A i \in 1 .. Len(ring) : ring[i] \in Nat
    BY HeadTailProperties, LenProperties, ElementOfSeq, EmptySeq
  <1>2. Rising(Tail(ring))
    BY <1>1 DEF Rising, None
  <1>3. \A y \in Occupied(Tail(ring)) : Head(ring) < y
    <2>1. TAKE y \in Occupied(Tail(ring))
    <2>2. y # 0 /\ \E i \in 1 .. Len(Tail(ring)) : Tail(ring)[i] = y
      BY <1>1, RingHolds
    <2>3. PICK i \in 1 .. Len(ring) - 1 : y = ring[i + 1]
      BY <1>1, <2>2
    <2>4. 1 < i + 1 /\ i + 1 \in 1 .. Len(ring) /\ 1 \in 1 .. Len(ring)
      BY <1>1
    <2>5. ring[1] # 0 => ring[1] < ring[i + 1]
      BY <2>2, <2>3, <2>4 DEF Rising, None
    <2> QED BY <1>1, <2>2, <2>3, <2>4, <2>5
  <1>4. \A y : y \in Occupied(ring) <=>
               y \in Occupied(Tail(ring)) \cup ({Head(ring)} \ {0})
    <2> TAKE y
    <2>1. ASSUME y \in Occupied(ring)
          PROVE  y \in Occupied(Tail(ring)) \cup ({Head(ring)} \ {0})
      <3>1. PICK i \in 1 .. Len(ring) : ring[i] = y /\ y # 0
        BY <2>1, RingHolds
      <3>2. CASE i = 1
        BY <1>1, <3>1, <3>2
      <3>3. CASE i # 1
        <4>1. i - 1 \in 1 .. Len(ring) - 1 /\ Tail(ring)[i - 1] = y
          BY <1>1, <3>1, <3>3
        <4> QED BY <1>1, <3>1, <4>1, RingHolds
      <3> QED BY <3>2, <3>3
    <2>2. ASSUME y \in Occupied(Tail(ring))
          PROVE  y \in Occupied(ring)
      <3>0. y # 0 /\ \E i \in 1 .. Len(Tail(ring)) : Tail(ring)[i] = y
        BY <1>1, <2>2, RingHolds
      <3>1. PICK i \in 1 .. Len(ring) - 1 : Tail(ring)[i] = y /\ y # 0
        BY <1>1, <3>0
      <3>2. i + 1 \in 1 .. Len(ring) /\ ring[i + 1] = y
        BY <1>1, <3>1
      <3> QED BY <3>1, <3>2, RingHolds
    <2>3. ASSUME y \in {Head(ring)} \ {0}
          PROVE  y \in Occupied(ring)
      <3>1. 1 \in 1 .. Len(ring) /\ ring[1] = y /\ y # 0
        BY <1>1, <2>3
      <3> QED BY <3>1, RingHolds
    <2> QED BY <2>1, <2>2, <2>3
  <1> QED BY <1>1, <1>2, <1>3, <1>4

\* A ring still rises with a poke, or with something higher, behind it.
LEMMA RingAppend ==
  ASSUME NEW ring \in Seq(Nat), NEW n \in Nat, Rising(ring),
         n # 0 => \A y \in Occupied(ring) : y < n
  PROVE  /\ Append(ring, n) \in Seq(Nat) /\ Rising(Append(ring, n))
         /\ Occupied(Append(ring, n)) = Occupied(ring) \cup ({n} \ {0})
  <1> DEFINE longer == Append(ring, n)
  <1>1. /\ longer \in Seq(Nat) /\ Len(ring) \in Nat
        /\ Len(longer) = Len(ring) + 1
        /\ \A i \in 1 .. Len(ring) : longer[i] = ring[i]
        /\ longer[Len(ring) + 1] = n
        /\ \A i \in 1 .. Len(ring) : ring[i] \in Nat
    BY AppendProperties, LenProperties, ElementOfSeq
  <1> HIDE DEF longer
  <1>2. ASSUME NEW i \in 1 .. Len(longer), NEW j \in 1 .. Len(longer),
               i < j, longer[i] # 0, longer[j] # 0
        PROVE  longer[i] < longer[j]
    <2>1. i \in 1 .. Len(ring) /\ longer[i] = ring[i]
      BY <1>1, <1>2
    <2>2. CASE j = Len(ring) + 1
      <3>1. ring[i] \in Occupied(ring)
        BY <1>2, <2>1, RingHolds
      <3> QED BY <1>1, <1>2, <2>1, <2>2, <3>1
    <2>3. CASE j # Len(ring) + 1
      <3>1. j \in 1 .. Len(ring) /\ longer[j] = ring[j]
        BY <1>1, <2>3
      <3> QED BY <1>2, <2>1, <3>1 DEF Rising, None
    <2> QED BY <2>2, <2>3
  <1>3. \A y : y \in Occupied(longer) <=> y \in Occupied(ring) \cup ({n} \ {0})
    <2> TAKE y
    <2>1. y \in Occupied(longer) <=>
            y # 0 /\ \E i \in 1 .. Len(ring) + 1 : longer[i] = y
      BY <1>1, RingHolds
    <2>2. y \in Occupied(ring) <=>
            y # 0 /\ \E i \in 1 .. Len(ring) : ring[i] = y
      BY RingHolds
    <2>3. (\E i \in 1 .. Len(ring) + 1 : longer[i] = y) <=>
            y = n \/ \E i \in 1 .. Len(ring) : ring[i] = y
      <3>1. \A i \in 1 .. Len(ring) + 1 :
              i = Len(ring) + 1 \/ i \in 1 .. Len(ring)
        BY <1>1
      <3>2. Len(ring) + 1 \in 1 .. Len(ring) + 1
        BY <1>1
      <3>3. \A i \in 1 .. Len(ring) : i \in 1 .. Len(ring) + 1
        BY <1>1
      <3> QED BY <1>1, <3>1, <3>2, <3>3, Zenon
    <2> QED BY <2>1, <2>2, <2>3
  <1> QED BY <1>1, <1>2, <1>3 DEF Rising, None, longer

\* Numbering one frame leaves the others, and what every frame is.
LEMMA NumberedIs ==
  ASSUME NEW fs \in Seq(Parameters), NEW f \in 1 .. Len(fs),
         NextDisplayFrameIndex \in Nat, CollapseHoles \in BOOLEAN
  PROVE  /\ Numbered(fs, f) \in Seq(Parameters)
         /\ Len(Numbered(fs, f)) = Len(fs)
         /\ \A g \in 1 .. Len(fs) : Numbered(fs, f)[g].kind = fs[g].kind
         /\ \A g \in 1 .. Len(fs) : g # f => Numbered(fs, f)[g] = fs[g]
         /\ Numbered(fs, f)[f].DisplayFrameIndex = NextDisplayFrameIndex
         /\ Numbered(fs, f)[f].Collapse = CollapseHoles
  <1> DEFINE new == [[fs[f] EXCEPT !.DisplayFrameIndex = NextDisplayFrameIndex]
                       EXCEPT !.Collapse = CollapseHoles]
  <1>1. DOMAIN fs = 1 .. Len(fs) /\ fs[f] \in Parameters
    BY LenProperties, ElementOfSeq
  <1>2. /\ new \in Parameters /\ new.kind = fs[f].kind
        /\ new.DisplayFrameIndex = NextDisplayFrameIndex
        /\ new.Collapse = CollapseHoles
    BY <1>1 DEF Parameters
  <1>3. Numbered(fs, f) = [fs EXCEPT ![f] = new]
    <2>1. /\ DOMAIN Numbered(fs, f) = DOMAIN fs
          /\ Numbered(fs, f)[f] = new
          /\ \A g \in DOMAIN fs : g # f => Numbered(fs, f)[g] = fs[g]
      BY <1>1 DEF Numbered
    <2> QED BY <1>1, <2>1 DEF Numbered
  <1> HIDE DEF new
  <1> QED BY <1>1, <1>2, <1>3, ExceptSeq

\* DtoM takes the frame of the lowest index.
LEMMA LowestIs ==
  ASSUME TypeOK, Order, WithIndex # {}
  PROVE  Lowest \in WithIndex /\ \A g \in WithIndex : Index(Lowest) <= Index(g)
  <1> DEFINE indices == {Index(f) : f \in WithIndex}
  <1>1. \A f \in WithIndex : Index(f) \in Nat
    <2> TAKE f \in WithIndex
    <2>1. f \in Extracted /\ f \in Nat \ {0}
      BY DEF WithIndex, Extracted, TypeOK, None
    <2>2. \A x \in Extracted : x <= Len(frames)
      BY DEF Order
    <2>3. Len(frames) \in Nat
      BY LenProperties DEF TypeOK
    <2>4. f \in 1 .. Len(frames)
      BY <2>1, <2>2, <2>3
    <2>5. frames[f] \in Parameters
      BY <2>4, ElementOfSeq DEF TypeOK
    <2> QED BY <2>5 DEF Index, Parameters
  <1>2. indices \in SUBSET Nat /\ indices # {}
    BY <1>1
  <1>3. Smallest(indices) \in indices /\ \A y \in indices : Smallest(indices) <= y
    <2> HIDE DEF indices
    <2> QED BY <1>2, SmallestIs
  <1>4. PICK f \in WithIndex : Index(f) = Smallest(indices)
    BY <1>3
  <1>5. \A g \in WithIndex : Index(f) <= Index(g)
    BY <1>3, <1>4
  <1> QED BY <1>5 DEF Lowest

-----------------------------------------------------------------------------
(* What the frame parser does to the frames.                               *)

LEMMA ParseOtherFrames ==
  ASSUME TypeOK, ParseOther
  PROVE  /\ frames' \in Seq(Parameters) /\ Len(frames') = Len(frames) + 1
         /\ \A f \in 1 .. Len(frames) : frames'[f] = frames[f]
         /\ frames'[Len(frames) + 1].kind = "other"
         /\ frames'[Len(frames) + 1].DisplayFrameIndex = NextDisplayFrameIndex
         /\ frames'[Len(frames) + 1].Collapse = CollapseHoles
         /\ NextDisplayFrameIndex' \in Nat /\ CollapseHoles' \in BOOLEAN
         /\ Deferred' \in 0 .. Len(frames')
  <1> DEFINE new == Unnumbered("other")
             more == Append(frames, new)
  <1>1. new \in Parameters /\ new.kind = "other"
    BY BoundsAssumption DEF Unnumbered, Parameters, INVALID_INDEX
  <1>2. /\ more \in Seq(Parameters) /\ Len(more) = Len(frames) + 1
        /\ \A f \in 1 .. Len(frames) : more[f] = frames[f]
        /\ more[Len(frames) + 1] = new
    BY <1>1, AppendProperties DEF TypeOK
  <1>3. Len(frames) \in Nat
    BY LenProperties DEF TypeOK
  <1>4. frames' = Numbered(more, Len(frames) + 1)
    BY DEF ParseOther
  <1> HIDE DEF new, more
  <1>5. Len(frames) + 1 \in 1 .. Len(more)
    BY <1>2, <1>3
  <1>6. /\ frames' \in Seq(Parameters) /\ Len(frames') = Len(more)
        /\ \A g \in 1 .. Len(more) : frames'[g].kind = more[g].kind
        /\ \A g \in 1 .. Len(more) :
             g # Len(frames) + 1 => frames'[g] = more[g]
        /\ frames'[Len(frames) + 1].DisplayFrameIndex = NextDisplayFrameIndex
        /\ frames'[Len(frames) + 1].Collapse = CollapseHoles
    BY <1>2, <1>4, <1>5, NumberedIs DEF TypeOK
  <1>7. NextDisplayFrameIndex \in Nat /\ Deferred \in 0 .. Len(frames)
    BY DEF TypeOK
  <1>8. /\ NextDisplayFrameIndex' = NextDisplayFrameIndex + 1
        /\ CollapseHoles' = FALSE /\ Deferred' = Deferred
    BY DEF ParseOther
  <1>9. NextDisplayFrameIndex' \in Nat /\ Deferred' \in 0 .. Len(frames) + 1
    BY <1>3, <1>7, <1>8
  <1>10. CollapseHoles' \in BOOLEAN
    BY <1>8
  <1> QED BY <1>1, <1>2, <1>3, <1>5, <1>6, <1>9, <1>10

LEMMA ParseReferenceFrames ==
  ASSUME TypeOK, ParseReference
  PROVE  /\ frames' \in Seq(Parameters) /\ Len(frames') = Len(frames) + 1
         /\ \A f \in 1 .. Len(frames) : frames'[f].kind = frames[f].kind
         /\ \A f \in 1 .. Len(frames) : f # Deferred => frames'[f] = frames[f]
         /\ Deferred # None =>
              /\ frames'[Deferred].DisplayFrameIndex = NextDisplayFrameIndex
              /\ frames'[Deferred].Collapse = CollapseHoles
         /\ frames'[Len(frames) + 1] = Unnumbered("reference")
         /\ frames'[Len(frames) + 1].kind = "reference"
         /\ NextDisplayFrameIndex' \in Nat /\ CollapseHoles' \in BOOLEAN
         /\ Deferred' = Len(frames')
  <1> DEFINE new == Unnumbered("reference")
             more == Append(frames, new)
  <1>1. new \in Parameters /\ new.kind = "reference"
    BY BoundsAssumption DEF Unnumbered, Parameters, INVALID_INDEX
  <1>2. /\ more \in Seq(Parameters) /\ Len(more) = Len(frames) + 1
        /\ \A f \in 1 .. Len(frames) : more[f] = frames[f]
        /\ more[Len(frames) + 1] = new
    BY <1>1, AppendProperties DEF TypeOK
  <1>3. Len(frames) \in Nat
    BY LenProperties DEF TypeOK
  <1>4. /\ Deferred = None => /\ frames' = more
                              /\ UNCHANGED <<NextDisplayFrameIndex,
                                             CollapseHoles>>
        /\ Deferred # None => /\ frames' = Numbered(more, Deferred)
                              /\ NextDisplayFrameIndex' =
                                   NextDisplayFrameIndex + 1
                              /\ CollapseHoles' = FALSE
        /\ Deferred' = Len(frames) + 1
    BY DEF ParseReference, NumberDeferred
  <1> HIDE DEF new, more
  <1>5. CASE Deferred = None
    BY <1>1, <1>2, <1>3, <1>4, <1>5 DEF TypeOK, None, new
  <1>6. CASE Deferred # None
    <2>1. Deferred \in 1 .. Len(frames)
      BY <1>3, <1>6 DEF TypeOK, None
    <2>2. Deferred \in 1 .. Len(more)
      BY <1>2, <1>3, <2>1
    <2>3. /\ frames' \in Seq(Parameters) /\ Len(frames') = Len(more)
          /\ \A g \in 1 .. Len(more) : frames'[g].kind = more[g].kind
          /\ \A g \in 1 .. Len(more) : g # Deferred => frames'[g] = more[g]
          /\ frames'[Deferred].DisplayFrameIndex = NextDisplayFrameIndex
          /\ frames'[Deferred].Collapse = CollapseHoles
      BY <1>2, <1>4, <1>6, <2>2, NumberedIs DEF TypeOK
    <2>4. NextDisplayFrameIndex' \in Nat /\ CollapseHoles' \in BOOLEAN
      <3>1. NextDisplayFrameIndex \in Nat
        BY DEF TypeOK
      <3>2. NextDisplayFrameIndex' = NextDisplayFrameIndex + 1
        BY <1>4, <1>6
      <3>3. CollapseHoles' \in BOOLEAN
        BY <1>4, <1>6
      <3>4. NextDisplayFrameIndex' \in Nat
        BY <3>1, <3>2
      <3> QED BY <3>3, <3>4
    <2>5. Len(frames) + 1 \in 1 .. Len(more) /\ Len(frames) + 1 # Deferred
      BY <1>2, <1>3, <2>1
    <2> QED BY <1>1, <1>2, <1>3, <1>4, <1>6, <2>1, <2>3, <2>4, <2>5 DEF new
  <1> QED BY <1>5, <1>6

LEMMA ParseJumpFrames ==
  ASSUME TypeOK, ParseJump
  PROVE  /\ frames' \in Seq(Parameters) /\ Len(frames') = Len(frames)
         /\ \A f \in 1 .. Len(frames) : frames'[f].kind = frames[f].kind
         /\ \A f \in 1 .. Len(frames) : f # Deferred => frames'[f] = frames[f]
         /\ Deferred # None =>
              /\ frames'[Deferred].DisplayFrameIndex = NextDisplayFrameIndex
              /\ frames'[Deferred].Collapse = CollapseHoles
         /\ NextDisplayFrameIndex' =
              NextDisplayFrameIndex + (IF Deferred = None THEN 0 ELSE 1)
         /\ NextDisplayFrameIndex' \in Nat /\ CollapseHoles' \in BOOLEAN
         /\ Deferred' = None
  <1>1. Len(frames) \in Nat
    BY LenProperties DEF TypeOK
  <1>2. CASE Deferred = None
    BY <1>1, <1>2 DEF ParseJump, Purge, TypeOK
  <1>3. CASE Deferred # None
    <2>1. Deferred \in 1 .. Len(frames)
      BY <1>1, <1>3 DEF TypeOK, None
    <2>2. /\ frames' = Numbered(frames, Deferred)
          /\ NextDisplayFrameIndex' = NextDisplayFrameIndex + 1
          /\ CollapseHoles' = TRUE /\ Deferred' = None
      BY <1>3 DEF ParseJump, Purge
    <2>3. /\ frames' \in Seq(Parameters) /\ Len(frames') = Len(frames)
          /\ \A g \in 1 .. Len(frames) : frames'[g].kind = frames[g].kind
          /\ \A g \in 1 .. Len(frames) : g # Deferred => frames'[g] = frames[g]
          /\ frames'[Deferred].DisplayFrameIndex = NextDisplayFrameIndex
          /\ frames'[Deferred].Collapse = CollapseHoles
      BY <2>1, <2>2, NumberedIs DEF TypeOK
    <2>4. NextDisplayFrameIndex' \in Nat /\ CollapseHoles' \in BOOLEAN
      <3>1. NextDisplayFrameIndex \in Nat
        BY DEF TypeOK
      <3> QED BY <2>2, <3>1
    <2> QED BY <1>3, <2>2, <2>3, <2>4
  <1> QED BY <1>2, <1>3

LEMMA ParseMarkerFrames ==
  ASSUME TypeOK, ParseMarker
  PROVE  /\ frames' \in Seq(Parameters) /\ Len(frames') = Len(frames) + 1
         /\ \A f \in 1 .. Len(frames) : frames'[f] = frames[f]
         /\ frames'[Len(frames) + 1].kind = drain
         /\ drain \in {"playout", "discard"}
         /\ Deferred' \in 0 .. Len(frames')
  <1>1. Unnumbered(drain) \in Parameters /\ Unnumbered(drain).kind = drain
    BY BoundsAssumption DEF Unnumbered, Parameters, INVALID_INDEX, ParseMarker
  <1>2. Len(frames) \in Nat
    BY LenProperties DEF TypeOK
  <1> QED BY <1>1, <1>2, AppendProperties DEF TypeOK, ParseMarker

\* A frame stays what it is.
LEMMA FramesStep ==
  ASSUME TypeOK, [Next]_vars
  PROVE  /\ frames' \in Seq(Parameters) /\ Len(frames) <= Len(frames')
         /\ \A f \in 1 .. Len(frames) : frames'[f].kind = frames[f].kind
         /\ NextDisplayFrameIndex' \in Nat /\ CollapseHoles' \in BOOLEAN
         /\ Deferred' \in 0 .. Len(frames')
  <1>1. Len(frames) \in Nat
    BY LenProperties DEF TypeOK
  <1>2. CASE ParseFrame
    <2>1. CASE ParseOther
      BY <1>1, <2>1, ParseOtherFrames
    <2>2. CASE ParseReference
      BY <1>1, <2>2, ParseReferenceFrames
    <2> QED BY <1>2, <2>1, <2>2 DEF ParseFrame
  <1>3. CASE ParseJump
    BY <1>1, <1>3, ParseJumpFrames DEF None
  <1>4. CASE ParseMarker
    BY <1>1, <1>4, ParseMarkerFrames DEF ParseMarker, TypeOK
  <1>5. CASE UNCHANGED parser
    BY <1>1, <1>5 DEF parser, TypeOK
  <1>6. UNCHANGED parser \/ ParseFrame \/ ParseJump \/ ParseMarker
    BY DEF Next, vars, PtoD, DtoM, DrainBegins, ReleaseReferences, PtoDMarker,
           Accept, Decode, Drop, Scan, Skip, PassMarker, Extract, Pass, Display
  <1> QED BY <1>2, <1>3, <1>4, <1>5, <1>6

-----------------------------------------------------------------------------
(* TypeOK, Order and Numbering.                                            *)

LEMMA InitOrderInv ==
  ASSUME Init
  PROVE  OrderInv
  <1>1. /\ << >> \in Seq(Parameters) /\ << >> \in Seq(Nat)
        /\ << >> \in Seq([frame : Nat, number : Nat, shown : BOOLEAN])
        /\ Len(<< >>) = 0
    BY EmptySeq
  <1>2. Infinity \in Nat
    BY BoundsAssumption DEF Infinity
  <1>3. Occupied(<< >>) = {}
    BY DEF Occupied, Range
  <1>4. TypeOK
    <2>1. Deferred \in 0 .. Len(frames)
      BY <1>1 DEF Init, None
    <2>2. /\ NextDisplayFrameIndex \in Nat /\ MaximumSeen \in Nat
          /\ input \in Nat /\ current \in Nat /\ MarkerFrame \in Nat
          /\ Table \in SUBSET (Nat \ {None}) /\ MinimumAccumulated \in Nat
      BY <1>2 DEF Init, None
    <2>3. /\ CollapseHoles \in BOOLEAN
          /\ DiscardingPtoD \in BOOLEAN /\ DiscardingDtoM \in BOOLEAN
          /\ pc \in {"scan", "skip", "extract", "pass"}
          /\ drain \in {"none", "jump", "discard", "playout", "marker"}
      BY DEF Init
    <2>4. /\ frames \in Seq(Parameters)
          /\ ParsedFrameRing \in Seq(Nat) /\ DecodedFrameRing \in Seq(Nat)
          /\ passed \in Seq([frame : Nat, number : Nat, shown : BOOLEAN])
      BY <1>1 DEF Init
    <2> QED BY <2>1, <2>2, <2>3, <2>4 DEF TypeOK
  <1>5. Order
    BY <1>1, <1>3 DEF Init, Order, Rising, Extracted, Pending, None
  <1>6. Numbering
    BY <1>1 DEF Init, Numbering, None
  <1> QED BY <1>4, <1>5, <1>6 DEF OrderInv

LEMMA PassedIs ==
  ASSUME TypeOK
  PROVE  /\ Len(passed) \in Nat /\ DOMAIN passed = 1 .. Len(passed)
         /\ \A i \in 1 .. Len(passed) : /\ passed[i].frame \in Nat
                                       /\ passed[i].number \in Nat
  <1> DEFINE E == [frame : Nat, number : Nat, shown : BOOLEAN]
  <1>1. passed \in Seq(E)
    BY DEF TypeOK
  <1>2. \A i \in 1 .. Len(passed) : passed[i] \in E
    <2> HIDE DEF E
    <2> QED BY <1>1, ElementOfSeq
  <1> QED BY <1>1, <1>2, LenProperties

\* What DtoM passes on grows by one entry at a time.
LEMMA PassedStep ==
  ASSUME TypeOK, PassMarker \/ Pass
  PROVE  /\ passed' \in Seq([frame : Nat, number : Nat, shown : BOOLEAN])
         /\ Len(passed') = Len(passed) + 1
         /\ \A i \in 1 .. Len(passed) : passed'[i] = passed[i]
         /\ passed'[Len(passed) + 1].frame =
              IF pc = "pass" THEN current ELSE MarkerFrame
         /\ pc = "pass" => passed'[Len(passed) + 1].number = NumberGiven(current)
         /\ passed'[Len(passed) + 1].shown => pc = "pass" /\ ~DiscardingDtoM
         /\ MaximumSeen' = Higher(IF pc = "pass" THEN current ELSE MarkerFrame,
                                  MaximumSeen)
  <1> DEFINE E == [frame : Nat, number : Nat, shown : BOOLEAN]
  <1>1. PICK e \in E :
          /\ passed' = Append(passed, e)
          /\ e.frame = IF pc = "pass" THEN current ELSE MarkerFrame
          /\ pc = "pass" => e.number = NumberGiven(current)
          /\ e.shown => pc = "pass" /\ ~DiscardingDtoM
    <2>1. CASE PassMarker
      <3> DEFINE e == [frame |-> MarkerFrame, number |-> MarkerFrame,
                       shown |-> FALSE]
      <3>1. e \in E
        BY DEF TypeOK
      <3> QED BY <2>1, <3>1 DEF PassMarker
    <2>2. CASE Pass
      <3>1. PICK shown \in {FALSE, ~DiscardingDtoM} :
              passed' = Append(passed, [frame |-> current,
                                        number |-> NumberGiven(current),
                                        shown |-> shown])
        BY <2>2 DEF Pass
      <3>2. NumberGiven(current) \in Nat
        BY DEF NumberGiven, Lower, Higher, TypeOK
      <3>3. shown \in BOOLEAN
        BY <3>1
      <3> DEFINE e == [frame |-> current, number |-> NumberGiven(current),
                       shown |-> shown]
      <3>4. e \in E
        BY <3>2, <3>3 DEF TypeOK
      <3> QED BY <2>2, <3>1, <3>4 DEF Pass
    <2> QED BY <2>1, <2>2
  <1>2. passed \in Seq(E)
    BY DEF TypeOK
  <1>3. MaximumSeen' = Higher(IF pc = "pass" THEN current ELSE MarkerFrame,
                              MaximumSeen)
    BY DEF PassMarker, Pass
  <1> HIDE DEF E
  <1> QED BY <1>1, <1>2, <1>3, AppendProperties DEF E

LEMMA TypeStep ==
  ASSUME OrderInv, [Next]_vars
  PROVE  TypeOK'
  <1> USE DEF OrderInv
  <1>1. /\ frames' \in Seq(Parameters)
        /\ NextDisplayFrameIndex' \in Nat /\ CollapseHoles' \in BOOLEAN
        /\ Deferred' \in 0 .. Len(frames')
    BY FramesStep
  <1>2. Len(frames) \in Nat /\ Rising(ParsedFrameRing) /\ Rising(DecodedFrameRing)
    BY LenProperties DEF TypeOK, Order
  <1>3. ParsedFrameRing' \in Seq(Nat)
    <2>1. \/ UNCHANGED ParsedFrameRing
          \/ \E n \in {ReleaseAll, Len(frames) + 1} :
               ParsedFrameRing' = Append(ParsedFrameRing, n)
          \/ ParsedFrameRing # << >> /\ ParsedFrameRing' = Tail(ParsedFrameRing)
      BY <1>2 DEF Next, vars, PtoD, DtoM, DrainBegins, ReleaseReferences,
         PtoDMarker, Accept, Decode, Drop, Scan, Skip, PassMarker, Extract,
         Pass, Display, ParseFrame, ParseJump, ParseMarker, Taken, AtFrame
    <2>2. ParsedFrameRing \in Seq(Nat)
      BY DEF TypeOK
    <2>3. ASSUME NEW n \in {ReleaseAll, Len(frames) + 1}
          PROVE  Append(ParsedFrameRing, n) \in Seq(Nat)
      BY <1>2, <2>2, AppendProperties DEF ReleaseAll
    <2> QED BY <2>1, <2>2, <2>3, HeadTailProperties
  <1>4. input' \in Nat /\ DecodedFrameRing' \in Seq(Nat)
    <2>1. ParsedFrameRing # << >> => Head(ParsedFrameRing) \in Nat
      BY HeadTailProperties DEF TypeOK
    <2>2. /\ input' \in {input, None, Head(ParsedFrameRing)}
          /\ input' = Head(ParsedFrameRing) /\ input' # input
               => ParsedFrameRing # << >> \/ input' = None
      BY DEF Next, vars, ptod, PtoD, DtoM, DrainBegins, ReleaseReferences,
         PtoDMarker, Accept, Decode, Drop, Scan, Skip, PassMarker, Extract,
         Pass, Display, ParseFrame, ParseJump, ParseMarker, AtFrame
    <2>3. \/ UNCHANGED DecodedFrameRing
          \/ \E n \in {Poke, input} :
               DecodedFrameRing' = Append(DecodedFrameRing, n)
          \/ /\ DecodedFrameRing' =
                  Append(DecodedFrameRing, Head(ParsedFrameRing))
             /\ ParsedFrameRing # << >>
          \/ /\ DecodedFrameRing # << >>
             /\ DecodedFrameRing' = Tail(DecodedFrameRing)
      BY DEF Next, vars, ptod, PtoD, DtoM, DrainBegins, ReleaseReferences,
         PtoDMarker, Accept, Decode, Drop, Record, nonDecoded, Scan, Skip, PassMarker,
         Extract, Pass, Display, ParseFrame, ParseJump, ParseMarker, AtFrame
    <2>4. DecodedFrameRing \in Seq(Nat) /\ input \in Nat
      BY DEF TypeOK
    <2>5. input' \in Nat
      BY <2>1, <2>2, <2>4 DEF None
    <2>6. \A n \in Nat : Append(DecodedFrameRing, n) \in Seq(Nat)
      BY <2>4, AppendProperties
    <2>7. DecodedFrameRing' \in Seq(Nat)
      BY <2>1, <2>3, <2>4, <2>6, HeadTailProperties DEF Poke
    <2> QED BY <2>5, <2>7
  <1>5. Table' \in SUBSET (Nat \ {None}) /\ current' \in Nat /\ MarkerFrame' \in Nat
        /\ pc' \in {"scan", "skip", "extract", "pass"}
    <2>1. CASE Scan
      <3>1. IsTurn => Lowest \in WithIndex
        BY LowestIs DEF IsTurn
      <3> QED BY <2>1, <3>1 DEF Scan, TypeOK, WithIndex, reorder
    <2>2. CASE Extract
      <3>1. DecodedFrameRing # << >> => Head(DecodedFrameRing) \in Nat
        BY HeadTailProperties DEF TypeOK
      <3> QED BY <2>2, <3>1 DEF Extract, TypeOK, Poke, None, reorder
    <2>3. CASE PassMarker \/ Pass \/ Skip
      <3>1. current \in Nat /\ MarkerFrame \in Nat /\ 0 \in Nat
            /\ Table \in SUBSET (Nat \ {None})
        BY DEF TypeOK
      <3> QED BY <2>3, <3>1 DEF PassMarker, Pass, Skip, reorder, None
    <2>4. CASE UNCHANGED <<Table, current, MarkerFrame, pc>>
      BY <2>4 DEF TypeOK
    <2> QED BY <2>1, <2>2, <2>3, <2>4 DEF Next, vars, reorder, PtoD, DtoM,
          DrainBegins, ReleaseReferences, PtoDMarker, Accept, Decode, Drop,
          Display, ParseFrame, ParseJump, ParseMarker
  <1>6. MinimumAccumulated' \in Nat
    <2>1. CASE Scan
      <3>1. Table \cup {Infinity} \in SUBSET Nat
        <4>1. Table \in SUBSET Nat
          BY DEF TypeOK
        <4>2. Infinity \in Nat
          BY BoundsAssumption DEF Infinity
        <4> QED BY <4>1, <4>2
      <3>2. Smallest(Table \cup {Infinity}) \in Nat
        BY <3>1, SmallestIs
      <3> QED BY <2>1, <3>2 DEF Scan
    <2>2. CASE UNCHANGED MinimumAccumulated
      BY <2>2 DEF TypeOK
    <2> QED BY <2>1, <2>2 DEF Next, vars, reorder, PtoD, DtoM, DrainBegins,
          ReleaseReferences, PtoDMarker, Accept, Decode, Drop, Skip,
          PassMarker, Extract, Pass, Display, ParseFrame, ParseJump, ParseMarker
  <1>7. /\ MaximumSeen' \in Nat
        /\ passed' \in Seq([frame : Nat, number : Nat, shown : BOOLEAN])
    <2>1. CASE PassMarker \/ Pass
      BY <2>1, PassedStep DEF Higher, TypeOK
    <2>2. CASE UNCHANGED <<MaximumSeen, passed>>
      BY <2>2 DEF TypeOK
    <2> QED BY <2>1, <2>2 DEF Next, vars, output, PtoD, DtoM, DrainBegins,
          ReleaseReferences, PtoDMarker, Accept, Decode, Drop, Scan, Skip,
          Extract, Display, ParseFrame, ParseJump, ParseMarker
  <1>8. DiscardingPtoD' \in BOOLEAN /\ DiscardingDtoM' \in BOOLEAN
    <2>1. CASE \E kind \in Drains : DrainBegins(kind)
      BY <2>1 DEF DrainBegins, TypeOK
    <2>2. CASE PtoDMarker \/ PassMarker
      BY <2>2 DEF PtoDMarker, PassMarker, TypeOK
    <2>3. CASE UNCHANGED flags
      BY <2>3 DEF TypeOK, flags
    <2> QED BY <2>1, <2>2, <2>3 DEF Next, vars, flags, PtoD, DtoM,
          ReleaseReferences, Accept, Decode, Drop, Scan, Skip,
          Extract, Pass, Display, ParseFrame, ParseJump, ParseMarker
  <1>9. drain' \in {"none", "jump", "discard", "playout", "marker"}
    BY DEF TypeOK, Next, vars, control, PtoD, DtoM, DrainBegins,
           ReleaseReferences, PtoDMarker, Accept, Decode, Drop, Scan, Skip,
           PassMarker, Extract, Pass, Display, ParseFrame, ParseJump, ParseMarker
  <1> QED BY <1>1, <1>3, <1>4, <1>5, <1>6, <1>7, <1>8, <1>9 DEF TypeOK

\* The chain keeps the frames in decode order.
LEMMA OrderStep ==
  ASSUME OrderInv, [Next]_vars
  PROVE  Order'
  <1>1. /\ ParsedFrameRing \in Seq(Nat) /\ DecodedFrameRing \in Seq(Nat)
        /\ input \in Nat /\ current \in Nat /\ MarkerFrame \in Nat
        /\ Table \in SUBSET (Nat \ {0}) /\ MaximumSeen \in Nat
        /\ Len(frames) \in Nat /\ Len(passed) \in Nat
    BY LenProperties DEF OrderInv, TypeOK, None
  <1>2. Order /\ (pc = "pass" <=> current # 0)
    BY DEF OrderInv, Numbering, None
  <1>3. /\ Occupied(ParsedFrameRing) \subseteq Nat \ {0}
        /\ Occupied(DecodedFrameRing) \subseteq Nat \ {0}
    BY <1>1, RingHolds
  <1> DEFINE Downstream == <<DecodedFrameRing, input, Table, current,
                             MarkerFrame, MaximumSeen, passed>>
             Upstream   == <<frames, ParsedFrameRing>>
  <1>4. ASSUME NEW n \in {0, Len(frames) + 1}, UNCHANGED Downstream,
               ParsedFrameRing' = Append(ParsedFrameRing, n),
               Len(frames') \in Nat, Len(frames) <= Len(frames'),
               n <= Len(frames')
        PROVE  Order'
    <2>1. n \in Nat /\ (n # 0 => \A y \in Occupied(ParsedFrameRing) : y < n)
      BY <1>1, <1>2, <1>3 DEF Order
    <2>2. /\ Rising(ParsedFrameRing')
          /\ Occupied(ParsedFrameRing') = Occupied(ParsedFrameRing) \cup ({n} \ {0})
      BY <1>1, <1>2, <1>4, <2>1, RingAppend DEF Order
    <2>3. \A y \in Occupied(ParsedFrameRing') :
            /\ y <= Len(frames') /\ MaximumSeen < y
            /\ \A x \in Extracted \cup Pending : x < y
      <3>1. n # 0 => /\ n = Len(frames) + 1 /\ MaximumSeen < n
                     /\ \A x \in Extracted \cup Pending : x < n
        BY <1>1, <1>2, <1>3, <1>4 DEF Order, Extracted, Pending, None
      <3> QED BY <1>1, <1>2, <1>3, <1>4, <2>2, <3>1 DEF Order
    <2>4. Extracted' = Extracted /\ Pending' = Pending
      BY <1>4 DEF Extracted, Pending, Occupied, Range
    <2>5. \A i \in 1 .. Len(passed) : passed[i].frame \in 1 .. Len(frames')
      BY <1>1, <1>2, <1>4 DEF Order
    <2>6. \A x \in Extracted \cup Occupied(DecodedFrameRing) : x \in Nat
      BY <1>1, <1>3 DEF Extracted
    <2>7. Occupied(DecodedFrameRing)' = Occupied(DecodedFrameRing)
      BY <1>4 DEF Occupied, Range
    <2>8. \A m : m \in Nat /\ m <= Len(frames) => m <= Len(frames')
      BY <1>1, <1>4
    <2>9. Rising(DecodedFrameRing') /\ MaximumSeen' <= Len(frames')
      BY <1>1, <1>2, <1>4 DEF Order
    <2>10. (input # None => /\ input <= Len(frames) /\ MaximumSeen < input
                            /\ \A x \in Extracted \cup Occupied(DecodedFrameRing) :
                                 x < input)'
      BY <1>1, <1>2, <1>4, <2>4, <2>7, <2>8 DEF Order
    <2>11. (\A y \in Occupied(DecodedFrameRing) :
             /\ y <= Len(frames) /\ MaximumSeen < y
             /\ \A x \in Extracted : x < y)'
      BY <1>1, <1>2, <1>3, <1>4, <2>4, <2>7, <2>8 DEF Order
    <2>12. \A x \in Extracted' : x <= Len(frames')
      BY <1>2, <2>4, <2>6, <2>8 DEF Order
    <2>13. (MarkerFrame # None => /\ MaximumSeen < MarkerFrame
                                  /\ \A x \in Table \cup {current} :
                                       x < MarkerFrame)'
      BY <1>2, <1>4 DEF Order
    <2>14. (\A i \in 1 .. Len(passed) : /\ passed[i].frame \in 1 .. Len(frames)
                                        /\ passed[i].frame <= MaximumSeen)'
      BY <1>2, <1>4, <2>5 DEF Order
    <2> HIDE DEF Downstream
    <2> QED BY <1>4, <2>2, <2>3, <2>4, <2>9, <2>10, <2>11, <2>12, <2>13, <2>14
            DEF Order, Downstream
  <1>5. CASE ParseFrame \/ ParseJump \/ ParseMarker
    <2>1. UNCHANGED Downstream
      BY <1>5 DEF ParseFrame, ParseJump, ParseMarker, ptod, reorder, output
    <2>2. CASE ParseJump
      BY <1>1, <1>4, <2>1, <2>2, ParseJumpFrames DEF ParseJump, ReleaseAll, OrderInv
    <2>3. CASE ParseMarker
      BY <1>1, <1>4, <2>1, <2>3, ParseMarkerFrames DEF ParseMarker, OrderInv
    <2>4. CASE ParseFrame
      <3>1. Len(frames') = Len(frames) + 1
        BY <2>4, ParseOtherFrames, ParseReferenceFrames DEF ParseFrame, OrderInv
      <3> QED BY <1>1, <1>4, <2>1, <2>4, <3>1 DEF ParseFrame
    <2> QED BY <1>5, <2>2, <2>3, <2>4
  <1>6. CASE \/ \E kind \in Drains : DrainBegins(kind)
             \/ Skip \/ Display \/ UNCHANGED vars
    <2>1. UNCHANGED <<Upstream, Downstream>>
      BY <1>6 DEF DrainBegins, Skip, Display, vars, parser, ptod, reorder, output
    <2> QED BY <1>2, <2>1 DEF Order, Extracted, Pending, Occupied, Range
  <1>7. CASE ReleaseReferences \/ PtoDMarker \/ Accept \/ Drop
    <2> DEFINE f == Head(ParsedFrameRing)
    <2>1. /\ ParsedFrameRing # << >> /\ input = 0
          /\ ParsedFrameRing' = Tail(ParsedFrameRing)
          /\ UNCHANGED <<frames, Table, current, MarkerFrame, MaximumSeen, passed>>
      BY <1>7 DEF ReleaseReferences, PtoDMarker, Accept, Drop, AtFrame, Taken,
                  parser, reorder, output, None
    <2>2. /\ Rising(ParsedFrameRing') /\ f \in Nat
          /\ Occupied(ParsedFrameRing) = Occupied(ParsedFrameRing') \cup ({f} \ {0})
          /\ \A y \in Occupied(ParsedFrameRing') : f < y
      BY <1>1, <1>2, <2>1, RingTail DEF Order
    <2>3. \/ input' = 0 /\ UNCHANGED DecodedFrameRing
          \/ input' = 0 /\ DecodedFrameRing' = Append(DecodedFrameRing, 0)
          \/ /\ input' = 0 /\ f # 0
             /\ DecodedFrameRing' = Append(DecodedFrameRing, f)
          \/ input' = f /\ f # 0 /\ UNCHANGED DecodedFrameRing
      BY <1>7, <2>1 DEF ReleaseReferences, PtoDMarker, Accept, Drop, AtFrame,
         Record, nonDecoded, ptod, ReleaseAll, Poke
    <2>4. f # 0 => /\ f <= Len(frames) /\ MaximumSeen < f
                   /\ \A x \in Extracted \cup Occupied(DecodedFrameRing) : x < f
      BY <1>2, <2>2 DEF Order, Pending
    <2>5. Extracted' = Extracted
      BY <2>1 DEF Extracted
    <2> HIDE DEF f
    <2>6. /\ Rising(DecodedFrameRing')
          /\ Occupied(DecodedFrameRing') \cup ({input'} \ {0})
               \subseteq Occupied(DecodedFrameRing) \cup ({f} \ {0})
          /\ input' # 0 => Occupied(DecodedFrameRing') = Occupied(DecodedFrameRing)
                           /\ input' = f
      <3>1. Occupied(DecodedFrameRing') = Occupied(DecodedFrameRing)
              \/ DecodedFrameRing' # DecodedFrameRing
        BY DEF Occupied, Range
      <3>2. Rising(DecodedFrameRing)
        BY <1>2 DEF Order
      <3>3. CASE input' = 0 /\ UNCHANGED DecodedFrameRing
        BY <3>1, <3>2, <3>3
      <3>4. CASE input' = 0 /\ DecodedFrameRing' = Append(DecodedFrameRing, 0)
        BY <1>1, <3>2, <3>4, RingAppend
      <3>5. CASE /\ input' = 0 /\ f # 0
                 /\ DecodedFrameRing' = Append(DecodedFrameRing, f)
        BY <1>1, <2>2, <2>4, <3>2, <3>5, RingAppend
      <3>6. CASE input' = f /\ f # 0 /\ UNCHANGED DecodedFrameRing
        BY <3>1, <3>2, <3>6
      <3> QED BY <2>3, <3>3, <3>4, <3>5, <3>6
    <2>7. Pending' = Occupied(DecodedFrameRing') \cup ({input'} \ {0})
      BY DEF Pending, None
    <2>8. \A y \in Occupied(ParsedFrameRing') :
            /\ y <= Len(frames) /\ MaximumSeen < y
            /\ \A x \in Extracted \cup Pending' : x < y
      BY <1>2, <2>2, <2>6, <2>7 DEF Order, Pending
    <2>9. \A y \in Occupied(DecodedFrameRing') :
             /\ y <= Len(frames) /\ MaximumSeen < y
             /\ \A x \in Extracted : x < y
      BY <1>2, <2>4, <2>6 DEF Order
    <2> QED BY <1>2, <2>1, <2>2, <2>4, <2>5, <2>6, <2>8, <2>9 DEF Order, None
  <1>8. CASE Decode
    <2>1. /\ input # 0 /\ input' = 0
          /\ DecodedFrameRing' = Append(DecodedFrameRing, input)
          /\ UNCHANGED <<frames, ParsedFrameRing, Table, current, MarkerFrame,
                         MaximumSeen, passed>>
      BY <1>8 DEF Decode, parser, reorder, output, None
    <2>2. /\ Rising(DecodedFrameRing')
          /\ Occupied(DecodedFrameRing') = Occupied(DecodedFrameRing) \cup {input}
      BY <1>1, <1>2, <2>1, RingAppend DEF Order, None
    <2>3. Extracted' = Extracted /\ Pending' = Pending
      BY <2>1, <2>2 DEF Extracted, Pending, None
    <2> QED BY <1>2, <2>1, <2>2, <2>3 DEF Order, None, Occupied, Range
  <1>9. CASE Scan
    <2>1. /\ current = 0
          /\ \/ UNCHANGED <<current, Table>>
             \/ current' = Lowest /\ Lowest \in Table /\ Table' = Table \ {Lowest}
          /\ UNCHANGED <<Upstream, DecodedFrameRing, input, MarkerFrame,
                         MaximumSeen, passed>>
      <3>1. IsTurn => Lowest \in Table
        BY LowestIs DEF IsTurn, OrderInv, WithIndex
      <3> QED BY <1>2, <1>9, <3>1 DEF Scan, parser, ptod, output
    <2>2. Extracted' = Extracted /\ Pending' = Pending
          /\ Table' \cup {current'} \subseteq Table \cup {current, current'}
          /\ (current' # current => current' \in Table)
      BY <2>1 DEF Extracted, Pending, None, Occupied, Range
    <2> QED BY <1>2, <2>1, <2>2 DEF Order, Occupied, Range
  <1>10. CASE Extract
    <2>1. CASE UNCHANGED DecodedFrameRing
      <3>1. UNCHANGED <<Upstream, Downstream>>
        BY <1>10, <2>1, <1>1, HeadTailProperties, LenProperties
           DEF Extract, parser, ptod, output
      <3> QED BY <1>2, <3>1 DEF Order, Extracted, Pending, Occupied, Range
    <2>2. CASE DecodedFrameRing # << >>
      <3> DEFINE f == Head(DecodedFrameRing)
      <3>1. /\ DecodedFrameRing' = Tail(DecodedFrameRing)
            /\ MarkerFrame = 0 /\ current = 0
            /\ UNCHANGED <<Upstream, input, MaximumSeen, passed>>
            /\ \/ UNCHANGED <<Table, MarkerFrame, current>>
               \/ f # 0 /\ MarkerFrame' = f /\ UNCHANGED <<Table, current>>
               \/ f # 0 /\ current' = f /\ UNCHANGED <<Table, MarkerFrame>>
               \/ /\ f # 0 /\ Table' = Table \cup {f}
                  /\ UNCHANGED <<MarkerFrame, current>>
        BY <1>2, <1>10, <2>2 DEF Extract, parser, ptod, output, None, Poke
      <3>2. /\ Rising(DecodedFrameRing') /\ f \in Nat
            /\ Occupied(DecodedFrameRing) = Occupied(DecodedFrameRing') \cup ({f} \ {0})
            /\ \A y \in Occupied(DecodedFrameRing') : f < y
        BY <1>1, <1>2, <2>2, <3>1, RingTail DEF Order
      <3> HIDE DEF f
      <3>3. /\ Extracted' \subseteq Extracted \cup ({f} \ {0})
            /\ Extracted' \cup Pending' \subseteq Extracted \cup Pending
        BY <3>1, <3>2 DEF Extracted, Pending, None
      <3>4. f # 0 => /\ f <= Len(frames) /\ MaximumSeen < f
                     /\ \A x \in Extracted : x < f
        BY <1>2, <3>2 DEF Order
      <3>5. f # 0 => \A x \in Table \cup {current} : x < f
        BY <1>1, <3>1, <3>2, <3>4 DEF Extracted, None
      <3>6. /\ \A x \in Extracted' : x <= Len(frames)
            /\ \A y \in Occupied(DecodedFrameRing') :
                 /\ y <= Len(frames) /\ MaximumSeen < y
                 /\ \A x \in Extracted' : x < y
        BY <1>2, <3>2, <3>3, <3>4 DEF Order
      <3>7. MarkerFrame' # 0 => /\ MaximumSeen < MarkerFrame'
                                /\ \A x \in Table' \cup {current'} : x < MarkerFrame'
        BY <3>1, <3>4, <3>5
      <3>8. input # 0 => \A x \in Extracted' \cup Occupied(DecodedFrameRing') :
                           x < input
        BY <1>2, <3>2, <3>3 DEF Order, None
      <3>9. \A y \in Occupied(ParsedFrameRing) :
              \A x \in Extracted' \cup Pending' : x < y
        BY <1>2, <3>3 DEF Order
      <3> QED BY <1>2, <3>1, <3>2, <3>6, <3>7, <3>8, <3>9
              DEF Order, None, Occupied, Range
    <2> QED BY <1>10, <2>1, <2>2 DEF Extract
  <1>11. CASE PassMarker \/ Pass
    <2> DEFINE f == IF pc = "pass" THEN current ELSE MarkerFrame
    <2>1. /\ UNCHANGED <<Upstream, DecodedFrameRing, input, Table>>
          /\ f # 0
          /\ \/ current' = 0 /\ UNCHANGED MarkerFrame /\ f = current
             \/ /\ MarkerFrame' = 0 /\ UNCHANGED current /\ f = MarkerFrame
                /\ current = 0
      BY <1>2, <1>11 DEF PassMarker, Pass, parser, ptod, reorder, None
    <2>2. /\ Len(passed') = Len(passed) + 1
          /\ \A i \in 1 .. Len(passed) : passed'[i] = passed[i]
          /\ passed'[Len(passed) + 1].frame = f
          /\ MaximumSeen' = Higher(f, MaximumSeen)
      BY <1>11, PassedStep DEF OrderInv
    <2>3. f \in Extracted /\ f \in Nat
      BY <1>1, <2>1 DEF Extracted, None
    <2> HIDE DEF f
    <2>4. MaximumSeen' \in Nat /\ MaximumSeen <= MaximumSeen' /\ f <= MaximumSeen'
          /\ MaximumSeen' \in {f, MaximumSeen}
      BY <1>1, <2>2, <2>3 DEF Higher
    <2>5. Extracted' \subseteq Extracted
      BY <2>1 DEF Extracted, None
    <2>6. MarkerFrame' # 0 => /\ MaximumSeen' < MarkerFrame'
                              /\ \A x \in Table' \cup {current'} : x < MarkerFrame'
      <3>1. MarkerFrame # 0 => /\ MaximumSeen < MarkerFrame
                               /\ \A x \in Table \cup {current} : x < MarkerFrame
        BY <1>2 DEF Order, None
      <3> QED BY <1>1, <2>1, <2>4, <3>1
    <2>7. \A i \in 1 .. Len(passed') :
            /\ passed'[i].frame \in 1 .. Len(frames)
            /\ passed'[i].frame <= MaximumSeen'
      <3>1. f \in 1 .. Len(frames)
        BY <1>1, <1>2, <2>1, <2>3 DEF Order
      <3>2. ASSUME NEW i \in 1 .. Len(passed') 
            PROVE  /\ passed'[i].frame \in 1 .. Len(frames)
                   /\ passed'[i].frame <= MaximumSeen'
        <4>1. CASE i = Len(passed) + 1
          BY <2>2, <2>4, <3>1, <4>1
        <4>2. CASE i \in 1 .. Len(passed)
          <5>1. passed'[i] = passed[i]
            BY <2>2, <4>2
          <5>2. passed[i].frame \in 1 .. Len(frames) /\ passed[i].frame <= MaximumSeen
            BY <1>2, <4>2 DEF Order
          <5> QED BY <1>1, <2>4, <5>1, <5>2
        <4> QED BY <1>1, <2>2, <4>1, <4>2
      <3> QED BY <3>2
    <2>8. Pending' = Pending
      BY <2>1 DEF Pending, Occupied, Range
    <2>9. Occupied(ParsedFrameRing)' = Occupied(ParsedFrameRing)
          /\ Occupied(DecodedFrameRing)' = Occupied(DecodedFrameRing)
      BY <2>1 DEF Occupied, Range
    <2>10. \A y \in Occupied(ParsedFrameRing) :
             /\ y <= Len(frames) /\ MaximumSeen' < y
             /\ \A x \in Extracted' \cup Pending : x < y
      BY <1>2, <2>3, <2>4, <2>5 DEF Order
    <2>11. input # 0 => /\ input <= Len(frames) /\ MaximumSeen' < input
                        /\ \A x \in Extracted' \cup Occupied(DecodedFrameRing) :
                             x < input
      BY <1>2, <2>3, <2>4, <2>5 DEF Order, None
    <2>12. \A y \in Occupied(DecodedFrameRing) :
             /\ y <= Len(frames) /\ MaximumSeen' < y
             /\ \A x \in Extracted' : x < y
      BY <1>2, <2>3, <2>4, <2>5 DEF Order
    <2>13. /\ \A x \in Extracted' : x <= Len(frames)
           /\ MaximumSeen' <= Len(frames)
           /\ Rising(ParsedFrameRing) /\ Rising(DecodedFrameRing)
      BY <1>2, <2>3, <2>4, <2>5 DEF Order
    <2> QED BY <2>1, <2>6, <2>7, <2>8, <2>9, <2>10, <2>11, <2>12, <2>13
            DEF Order, None
  <1> QED BY <1>5, <1>6, <1>7, <1>8, <1>9, <1>10, <1>11 DEF Next, PtoD, DtoM

\* A marker stays one, and a frame never becomes one.
LEMMA KindStep ==
  ASSUME TypeOK, [Next]_vars
  PROVE  \A f \in 1 .. Len(frames) :
           frames'[f].kind \in {"playout", "discard"} <=> IsMarker(f)
  BY FramesStep DEF IsMarker

\* The numbers given apply to all that is still to come.
LEMMA NumberingStep ==
  ASSUME OrderInv, [Next]_vars
  PROVE  Numbering'
  <1>1. /\ current \in Nat /\ MarkerFrame \in Nat
        /\ Table \in SUBSET (Nat \ {0}) /\ MaximumSeen \in Nat
        /\ MinimumAccumulated \in Nat
        /\ Len(frames) \in Nat /\ Len(passed) \in Nat
        /\ \A i \in 1 .. Len(passed) : passed[i].number \in Nat
    <2>1. /\ Len(passed) \in Nat
          /\ \A i \in 1 .. Len(passed) : passed[i].number \in Nat
      BY PassedIs DEF OrderInv
    <2> QED BY <2>1, LenProperties DEF OrderInv, TypeOK, None
  <1>2. Order /\ Numbering /\ TypeOK
    BY DEF OrderInv
  <1>3. \A f \in 1 .. Len(frames) :
           frames'[f].kind \in {"playout", "discard"} <=> IsMarker(f)
    BY <1>2, KindStep
  <1>4. \A i \in 1 .. Len(passed) : passed[i].frame \in 1 .. Len(frames)
    BY <1>2 DEF Order
  <1>5. MarkerFrame # 0 => MarkerFrame \in 1 .. Len(frames)
    BY <1>1, <1>2 DEF Order, Extracted, None
  \* what one action must show
  <1>6. ASSUME NEW T, T = Table' \cup ({current'} \ {0}),
               \A i \in 1 .. Len(passed) :
                 /\ passed'[i] = passed[i]
                 /\ ~IsMarker(passed[i].frame) =>
                      /\ passed[i].number <= MaximumSeen'
                      /\ \A f \in T : passed[i].number <= f,
               \/ Len(passed') = Len(passed)
               \/ /\ Len(passed') = Len(passed) + 1
                  /\ passed'[Len(passed')].frame \in 1 .. Len(frames)
                  /\ ~IsMarker(passed'[Len(passed')].frame) =>
                      /\ passed'[Len(passed')].number <= MaximumSeen'
                      /\ \A f \in T : passed'[Len(passed')].number <= f,
               pc' # "scan" => \A f \in Table' : MinimumAccumulated' <= f,
               pc' = "pass" <=> current' # 0,
               MarkerFrame' # 0 => MarkerFrame' \in 1 .. Len(frames)
                                   /\ IsMarker(MarkerFrame')
        PROVE  Numbering'
    <2>1. ASSUME NEW i \in 1 .. Len(passed'),
                 frames'[passed'[i].frame].kind \notin {"playout", "discard"}
          PROVE  /\ passed'[i].number <= MaximumSeen'
                 /\ \A f \in T : passed'[i].number <= f
      <3>1. CASE i \in 1 .. Len(passed)
        <4>1. ~IsMarker(passed[i].frame) /\ passed'[i] = passed[i]
          BY <1>3, <1>4, <1>6, <2>1, <3>1
        <4> QED BY <1>6, <3>1, <4>1
      <3>2. CASE i \notin 1 .. Len(passed)
        <4>1. Len(passed') = Len(passed) + 1 /\ i = Len(passed')
          BY <1>1, <1>6, <3>2
        <4>2. ~IsMarker(passed'[Len(passed')].frame)
          BY <1>1, <1>3, <1>6, <2>1, <4>1
        <4> QED BY <1>1, <1>6, <4>1, <4>2
      <3> QED BY <3>1, <3>2
    <2>2. MarkerFrame' # 0 => frames'[MarkerFrame'].kind \in {"playout", "discard"}
      BY <1>3, <1>6
    <2> QED BY <1>6, <2>1, <2>2 DEF Numbering, IsMarker, None
  <1>7. CASE Scan
    <2>1. /\ Table \cup {Infinity} \in SUBSET Nat
          /\ Infinity \in Table \cup {Infinity}
      <3>1. Infinity \in Nat
        BY BoundsAssumption DEF Infinity
      <3> QED BY <1>1, <3>1
    <2>2. \A f \in Table : MinimumAccumulated' <= f
      BY <1>7, <2>1, SmallestIs DEF Scan
    <2>3. IsTurn => Lowest \in Table
      BY <1>2, LowestIs DEF IsTurn, WithIndex
    <2>4. Table' \cup ({current'} \ {0}) \subseteq Table \cup ({current} \ {0})
          /\ (pc' = "pass" <=> current' # 0) /\ Table' \subseteq Table
      BY <1>1, <1>2, <1>7, <2>3 DEF Scan, Numbering, None
    <2>5. UNCHANGED <<passed, MaximumSeen, MarkerFrame>>
      BY <1>7 DEF Scan, output
    <2> QED BY <1>2, <1>5, <1>6, <2>2, <2>4, <2>5 DEF Numbering, None
  <1>8. CASE Extract
    <2>1. CASE DecodedFrameRing = << >>
      BY <1>2, <1>5, <1>6, <1>8, <2>1 DEF Extract, Numbering, None, output
    <2>2. CASE DecodedFrameRing # << >>
      <3> DEFINE f == Head(DecodedFrameRing)
      <3>1. f # 0 => /\ f \in 1 .. Len(frames) /\ MaximumSeen < f
        <4>1. /\ f \in Nat /\ DecodedFrameRing \in Seq(Nat)
              /\ f # 0 => f \in Occupied(DecodedFrameRing)
          BY <1>2, <2>2, RingTail DEF TypeOK, Order
        <4> QED BY <1>1, <1>2, <4>1 DEF Order
      <3>2. /\ MarkerFrame = 0 /\ current = 0
            /\ UNCHANGED <<passed, MaximumSeen, MinimumAccumulated>>
            /\ \/ UNCHANGED <<Table, MarkerFrame, current>> /\ pc' = "scan"
               \/ /\ f # 0 /\ MarkerFrame' = f /\ IsMarker(f) /\ pc' = "scan"
                  /\ UNCHANGED <<Table, current>>
               \/ /\ f # 0 /\ current' = f /\ pc' = "pass"
                  /\ UNCHANGED <<Table, MarkerFrame>>
               \/ /\ f # 0 /\ Table' = Table \cup {f} /\ pc' = "scan"
                  /\ UNCHANGED <<MarkerFrame, current>>
        BY <1>2, <1>8, <2>2 DEF Extract, Numbering, output, None, Poke
      <3> HIDE DEF f
      <3>3. \A i \in 1 .. Len(passed) : ~IsMarker(passed[i].frame) =>
              /\ passed[i].number <= MaximumSeen
              /\ \A g \in Table : passed[i].number <= g
              /\ f # 0 => passed[i].number <= f
        <4>1. \A i \in 1 .. Len(passed) : ~IsMarker(passed[i].frame) =>
                /\ passed[i].number <= MaximumSeen
                /\ \A g \in Table : passed[i].number <= g
          BY <1>2 DEF Numbering
        <4>2. f # 0 => \A n \in Nat : n <= MaximumSeen => n <= f
          BY <1>1, <3>1
        <4> QED BY <1>1, <4>1, <4>2
      <3>4. pc' = "pass" => \A g \in Table' : MinimumAccumulated' <= g
        BY <1>2, <1>8, <3>2 DEF Numbering, Extract
      <3>5. Table' \cup ({current'} \ {0}) \subseteq Table \cup ({f} \ {0})
        BY <3>2
      <3>6. \A i \in 1 .. Len(passed) : ~IsMarker(passed[i].frame) =>
              \A g \in Table' \cup ({current'} \ {0}) : passed[i].number <= g
        BY <3>3, <3>5
      <3>7. /\ pc' # "scan" => \A g \in Table' : MinimumAccumulated' <= g
            /\ pc' = "pass" <=> current' # 0
            /\ MarkerFrame' # 0 => MarkerFrame' \in 1 .. Len(frames)
                                   /\ IsMarker(MarkerFrame')
        BY <3>1, <3>2, <3>4
      <3> QED BY <1>6, <3>2, <3>3, <3>6, <3>7
    <2> QED BY <2>1, <2>2
  <1>9. CASE PassMarker \/ Pass
    <2> DEFINE f == IF pc = "pass" THEN current ELSE MarkerFrame
    <2>1. /\ Len(passed') = Len(passed) + 1
          /\ \A i \in 1 .. Len(passed) : passed'[i] = passed[i]
          /\ passed'[Len(passed')].frame = f
          /\ pc = "pass" => passed'[Len(passed')].number = NumberGiven(f)
          /\ MaximumSeen' = Higher(f, MaximumSeen)
      BY <1>2, <1>9, PassedStep
    <2>2. /\ f \in 1 .. Len(frames) /\ current' = 0 /\ Table' = Table
          /\ pc' = "scan" /\ MarkerFrame' \in {0, MarkerFrame}
          /\ pc # "pass" => IsMarker(f)
      BY <1>1, <1>2, <1>5, <1>9
         DEF Pass, PassMarker, reorder, Numbering, Order, Extracted, None
    <2> HIDE DEF f
    <2>3. MaximumSeen <= MaximumSeen' /\ MaximumSeen' \in Nat
      BY <1>1, <2>1, <2>2 DEF Higher
    <2>4. pc = "pass" => /\ NumberGiven(f) <= MaximumSeen'
                         /\ \A g \in Table : NumberGiven(f) <= g
      <3>1. pc = "pass" => \A g \in Table : MinimumAccumulated <= g
        BY <1>2 DEF Numbering
      <3>2. NumberGiven(f) <= MaximumSeen' /\ NumberGiven(f) <= MinimumAccumulated
            /\ NumberGiven(f) \in Nat
        BY <1>1, <2>1, <2>2 DEF NumberGiven, Lower, Higher
      <3> QED BY <1>1, <3>1, <3>2
    <2>5. \A i \in 1 .. Len(passed) : ~IsMarker(passed[i].frame) =>
            passed[i].number <= MaximumSeen'
      BY <1>1, <1>2, <2>3 DEF Numbering
    <2>6. \A i \in 1 .. Len(passed) : ~IsMarker(passed[i].frame) =>
            \A g \in Table : passed[i].number <= g
      BY <1>2 DEF Numbering
    <2>7. Table' \cup ({current'} \ {0}) = Table
      BY <2>2
    <2>8. MarkerFrame' # 0 => MarkerFrame' \in 1 .. Len(frames)
                                   /\ IsMarker(MarkerFrame')
      BY <1>2, <1>5, <2>2 DEF Numbering, None
    <2> QED BY <1>6, <2>1, <2>2, <2>4, <2>5, <2>6, <2>7, <2>8
  <1>10. CASE /\ UNCHANGED <<Table, current, passed, MaximumSeen, MarkerFrame,
                             MinimumAccumulated>>
              /\ pc' = pc \/ Skip
    <2>1. /\ pc' = "pass" <=> pc = "pass"
          /\ pc' # "scan" => pc # "scan"
      BY <1>10 DEF Skip
    <2> QED BY <1>2, <1>5, <1>6, <1>10, <2>1 DEF Numbering, None
  <1> QED BY <1>7, <1>8, <1>9, <1>10 DEF Next, vars, reorder, output, PtoD, DtoM,
          DrainBegins, ReleaseReferences, PtoDMarker, Accept, Decode, Drop, Skip,
          Display, ParseFrame, ParseJump, ParseMarker

\* TypeOK, Order and Numbering together are inductive: the chain holds the
\* frames in decode order, and what it holds is above the numbers given.
THEOREM FramesAreInOrder == Spec => []OrderInv
  <1>1. Init => OrderInv
    BY InitOrderInv
  <1>2. OrderInv /\ [Next]_vars => OrderInv'
    BY TypeStep, OrderStep, NumberingStep DEF OrderInv
  <1> QED BY <1>1, <1>2, PTL DEF Spec

\* A command for the number given to a frame (NumberGiven, from
\* MinimumSequenceNumberAccumulated and MaximumActualSequenceNumberSeen) is not
\* performed while a frame of a lower number is still to come.
THEOREM CommandsAreNotEarly == Spec => []NotEarly
  <1>1. OrderInv => NotEarly
    <2> SUFFICES ASSUME OrderInv, NEW i \in DOMAIN passed,
                        ~IsMarker(passed[i].frame), NEW f \in Behind
                 PROVE  passed[i].number <= f
      BY DEF NotEarly
    <2>1. /\ i \in 1 .. Len(passed) /\ passed[i].number \in Nat
          /\ MaximumSeen \in Nat
      <3>1. DOMAIN passed = 1 .. Len(passed)
            /\ \A j \in 1 .. Len(passed) : passed[j].number \in Nat
        BY PassedIs DEF OrderInv
      <3> QED BY <3>1 DEF OrderInv, TypeOK
    <2>2. /\ passed[i].number <= MaximumSeen
          /\ \A g \in Table \cup ({current} \ {0}) : passed[i].number <= g
      BY <2>1 DEF OrderInv, Numbering, None
    <2>3. /\ ParsedFrameRing \in Seq(Nat) /\ DecodedFrameRing \in Seq(Nat)
          /\ input \in Nat /\ MarkerFrame \in Nat
      BY DEF OrderInv, TypeOK
    <2>4. /\ Occupied(ParsedFrameRing) \cup Occupied(DecodedFrameRing) \subseteq Nat
          /\ Range(ParsedFrameRing) \ {0} = Occupied(ParsedFrameRing)
      BY <2>3, RingHolds DEF Occupied, Poke
    <2>5. \/ f \in Table \cup ({current} \ {0})
          \/ f \in Nat /\ MaximumSeen < f
      <3>1. \/ f \in Occupied(ParsedFrameRing) \cup Occupied(DecodedFrameRing)
            \/ f = input /\ input # 0
            \/ f = MarkerFrame /\ MarkerFrame # 0
            \/ f \in Table \cup ({current} \ {0})
        BY <2>4 DEF Behind, ReleaseAll, None
      <3>2. /\ \A y \in Occupied(ParsedFrameRing) : MaximumSeen < y
            /\ \A y \in Occupied(DecodedFrameRing) : MaximumSeen < y
            /\ input # 0 => MaximumSeen < input
            /\ MarkerFrame # 0 => MaximumSeen < MarkerFrame
        BY DEF OrderInv, Order, None
      <3>3. CASE f \in Occupied(ParsedFrameRing) \cup Occupied(DecodedFrameRing)
        BY <2>4, <3>2, <3>3
      <3>4. CASE f = input /\ input # 0
        BY <2>3, <3>2, <3>4
      <3>5. CASE f = MarkerFrame /\ MarkerFrame # 0
        BY <2>3, <3>2, <3>5
      <3> QED BY <3>1, <3>3, <3>4, <3>5
    <2> QED BY <2>1, <2>2, <2>5
  <1> QED BY <1>1, FramesAreInOrder, PTL

-----------------------------------------------------------------------------
(* Indexing, OneMarker and Discards.                                       *)

LEMMA ChainIs ==
  ASSUME OrderInv
  PROVE  /\ Len(frames) \in Nat /\ DOMAIN frames = 1 .. Len(frames)
         /\ Chain \subseteq 1 .. Len(frames)
         /\ \A x \in Accepted, y \in Occupied(ParsedFrameRing) : x < y
  <1>1. /\ ParsedFrameRing \in Seq(Nat) /\ DecodedFrameRing \in Seq(Nat)
        /\ input \in Nat /\ current \in Nat /\ MarkerFrame \in Nat
        /\ Table \in SUBSET (Nat \ {0})
        /\ Len(frames) \in Nat /\ DOMAIN frames = 1 .. Len(frames)
    BY LenProperties DEF OrderInv, TypeOK, None
  <1>2. Order
    BY DEF OrderInv
  <1>3. Extracted \subseteq 1 .. Len(frames)
    BY <1>1, <1>2 DEF Order, Extracted, None
  <1>4. Occupied(ParsedFrameRing) \subseteq 1 .. Len(frames)
        /\ Occupied(DecodedFrameRing) \subseteq 1 .. Len(frames)
    <2>1. Occupied(ParsedFrameRing) \subseteq Nat \ {0}
          /\ Occupied(DecodedFrameRing) \subseteq Nat \ {0}
      BY <1>1, RingHolds
    <2> QED BY <1>1, <1>2, <2>1 DEF Order
  <1>5. input # 0 => input \in 1 .. Len(frames)
    BY <1>1, <1>2 DEF Order, None
  <1> QED BY <1>1, <1>2, <1>3, <1>4, <1>5 DEF Chain, Accepted, Pending, Order, None

\* What a step moves down the chain.
LEMMA ChainStep ==
  ASSUME OrderInv, [Next]_vars
  PROVE  /\ ParseFrame \/ ParseMarker =>
              /\ Chain' \subseteq Chain \cup {Len(frames) + 1}
              /\ Accepted' = Accepted
              /\ Occupied(ParsedFrameRing') \subseteq
                   Occupied(ParsedFrameRing) \cup {Len(frames) + 1}
         /\ ~(ParseFrame \/ ParseMarker) =>
              /\ Chain' \subseteq Chain
              /\ Occupied(ParsedFrameRing') \subseteq Occupied(ParsedFrameRing)
         /\ Accept \/ PtoDMarker =>
              /\ Accepted' \subseteq Accepted \cup {Head(ParsedFrameRing)}
              /\ Head(ParsedFrameRing) \in
                   Occupied(ParsedFrameRing) \ Occupied(ParsedFrameRing')
         /\ ~(Accept \/ PtoDMarker) => Accepted' \subseteq Accepted
         /\ PassMarker => MarkerFrame \notin Chain'
  <1>1. /\ ParsedFrameRing \in Seq(Nat) /\ DecodedFrameRing \in Seq(Nat)
        /\ input \in Nat /\ current \in Nat /\ MarkerFrame \in Nat
        /\ Table \in SUBSET (Nat \ {0})
        /\ Len(frames) \in Nat
    BY LenProperties DEF OrderInv, TypeOK, None
  <1>2. Order /\ (pc = "pass" <=> current # 0)
        /\ Rising(ParsedFrameRing) /\ Rising(DecodedFrameRing)
    BY DEF OrderInv, Numbering, Order, None
  <1>3. Occupied(DecodedFrameRing) \subseteq Nat \ {0}
        /\ Occupied(ParsedFrameRing) \subseteq Nat \ {0}
    BY <1>1, RingHolds
  <1>4. CASE ParseFrame \/ ParseJump \/ ParseMarker
    <2>1. PICK n \in Nat : /\ ParsedFrameRing' = Append(ParsedFrameRing, n)
                           /\ n = IF ParseJump THEN 0 ELSE Len(frames) + 1
      BY <1>1, <1>4 DEF ParseFrame, ParseJump, ParseMarker, ReleaseAll
    <2>2. n # 0 => \A y \in Occupied(ParsedFrameRing) : y < n
      BY <1>1, <1>2, <1>3, <2>1 DEF Order
    <2>3. Occupied(ParsedFrameRing') = Occupied(ParsedFrameRing) \cup ({n} \ {0})
      BY <1>1, <1>2, <2>1, <2>2, RingAppend
    <2>4. Accepted' = Accepted
      BY <1>4 DEF ParseFrame, ParseJump, ParseMarker, ptod, reorder, Accepted,
                  Pending, Extracted, Occupied, Range
    <2>5. ~Accept /\ ~PtoDMarker /\ ~PassMarker
      <3>1. Len(ParsedFrameRing') = Len(ParsedFrameRing) + 1
        BY <1>1, <2>1, AppendProperties
      <3>2. ASSUME Accept \/ PtoDMarker
            PROVE  Len(ParsedFrameRing') = Len(ParsedFrameRing) - 1
        BY <1>1, <3>2, HeadTailProperties DEF Accept, PtoDMarker, AtFrame, Taken
      <3>3. ASSUME PassMarker
            PROVE  ParsedFrameRing' = ParsedFrameRing
        BY <3>3 DEF PassMarker
      <3> QED BY <1>1, <3>1, <3>2, <3>3, LenProperties
    <2>6. ParseJump => ~ParseFrame /\ ~ParseMarker
      <3>1. ASSUME ParseJump, ParseFrame \/ ParseMarker
            PROVE  FALSE
        <4>1. \A k \in Nat :
                Append(ParsedFrameRing, k)[Len(ParsedFrameRing) + 1] = k
          BY <1>1, AppendProperties
        <4>2. 0 \in Nat /\ Len(frames) + 1 \in Nat /\ Len(frames) + 1 # 0
          BY <1>1
        <4> QED BY <3>1, <4>1, <4>2 DEF ParseJump, ParseFrame, ParseMarker, ReleaseAll
      <3> QED BY <3>1
    <2> QED BY <1>4, <2>1, <2>3, <2>4, <2>5, <2>6 DEF Chain
  <1>5. CASE ReleaseReferences \/ PtoDMarker \/ Accept \/ Drop
    <2> DEFINE f == Head(ParsedFrameRing)
    <2>1. /\ ParsedFrameRing # << >> /\ input = 0
          /\ ParsedFrameRing' = Tail(ParsedFrameRing)
          /\ UNCHANGED <<Table, current, MarkerFrame>>
      BY <1>5 DEF ReleaseReferences, PtoDMarker, Accept, Drop, AtFrame, Taken,
                  reorder, None
    <2>2. /\ f \in Nat
          /\ Occupied(ParsedFrameRing) = Occupied(ParsedFrameRing') \cup ({f} \ {0})
          /\ \A y \in Occupied(ParsedFrameRing') : f < y
      BY <1>1, <1>2, <2>1, RingTail
    <2>3. \/ /\ input' = 0 /\ UNCHANGED DecodedFrameRing
             /\ ReleaseReferences \/ Drop
          \/ /\ input' = 0 /\ DecodedFrameRing' = Append(DecodedFrameRing, 0)
             /\ Drop
          \/ /\ input' = 0 /\ f # 0
             /\ DecodedFrameRing' = Append(DecodedFrameRing, f)
          \/ input' = f /\ f # 0 /\ UNCHANGED DecodedFrameRing
      BY <1>5, <2>1 DEF ReleaseReferences, PtoDMarker, Accept, Drop, AtFrame,
         Record, nonDecoded, ptod, ReleaseAll, Poke
    <2>4. f # 0 => \A x \in Occupied(DecodedFrameRing) : x < f
      BY <1>2, <2>2 DEF Order, Pending
    <2>5. Extracted' = Extracted
      BY <2>1 DEF Extracted
    <2>6. f \notin Occupied(ParsedFrameRing')
      BY <2>2
    <2>7. Accept \/ PtoDMarker => f # 0
      BY DEF Accept, PtoDMarker, AtFrame, ReleaseAll
    <2>8. ~(Accept \/ PtoDMarker) =>
            input' = 0 /\ Occupied(DecodedFrameRing') = Occupied(DecodedFrameRing)
      <3>1. CASE ReleaseReferences \/ Drop
        <4>1. input' = 0 /\ (\/ UNCHANGED DecodedFrameRing
                             \/ DecodedFrameRing' = Append(DecodedFrameRing, 0))
          BY <2>1, <3>1 DEF ReleaseReferences, Drop, Record, nonDecoded, ptod, Poke
        <4> QED BY <1>1, <1>2, <4>1, RingAppend
      <3> QED BY <1>5, <3>1
    <2> HIDE DEF f
    <2>9. /\ Occupied(DecodedFrameRing') \subseteq Occupied(DecodedFrameRing) \cup ({f} \ {0})
          /\ input' \in {0, f}
      <3>1. Occupied(Append(DecodedFrameRing, 0)) = Occupied(DecodedFrameRing)
        BY <1>1, <1>2, RingAppend
      <3>2. f # 0 => Occupied(Append(DecodedFrameRing, f))
                       = Occupied(DecodedFrameRing) \cup {f}
        BY <1>1, <1>2, <2>2, <2>4, RingAppend
      <3> QED BY <2>3, <3>1, <3>2
    <2>10. Accepted' \subseteq Accepted \cup ({f} \ {0})
           /\ (~(Accept \/ PtoDMarker) => Accepted' \subseteq Accepted)
      BY <2>5, <2>8, <2>9 DEF Accepted, Pending, None
    <2>11. ~(ParseFrame \/ ParseMarker) /\ ~PassMarker
      <3>1. Len(ParsedFrameRing') = Len(ParsedFrameRing) - 1
            /\ Len(ParsedFrameRing) \in Nat
        BY <1>1, <2>1, HeadTailProperties, LenProperties
      <3>2. ASSUME ParseFrame \/ ParseMarker
            PROVE  Len(ParsedFrameRing') = Len(ParsedFrameRing) + 1
        BY <1>1, <3>2, AppendProperties DEF ParseFrame, ParseMarker
      <3>3. ASSUME PassMarker
            PROVE  ParsedFrameRing' = ParsedFrameRing
        BY <3>3 DEF PassMarker
      <3> QED BY <3>1, <3>2, <3>3
    <2> QED BY <2>2, <2>6, <2>7, <2>10, <2>11 DEF Chain, f
  <1> DEFINE Others == /\ Occupied(ParsedFrameRing') = Occupied(ParsedFrameRing)
                       /\ UNCHANGED ParsedFrameRing
                       /\ Accepted' \subseteq Accepted
                       /\ PassMarker => MarkerFrame \notin Chain'
  <1>6. Others => ~(ParseFrame \/ ParseMarker) /\ ~(Accept \/ PtoDMarker)
    <2>1. ASSUME Others, ParseFrame \/ ParseMarker
          PROVE  FALSE
      <3>1. Len(ParsedFrameRing') = Len(ParsedFrameRing) + 1
        BY <1>1, <2>1, AppendProperties DEF ParseFrame, ParseMarker
      <3> QED BY <1>1, <2>1, <3>1, LenProperties
    <2>2. ASSUME Others, Accept \/ PtoDMarker
          PROVE  FALSE
      <3>1. Len(ParsedFrameRing') = Len(ParsedFrameRing) - 1
        BY <1>1, <2>2, HeadTailProperties DEF Accept, PtoDMarker, AtFrame, Taken
      <3> QED BY <1>1, <2>2, <3>1, LenProperties
    <2> QED BY <2>1, <2>2
  <1>7. CASE Decode
    <2>1. /\ input # 0 /\ input' = 0
          /\ DecodedFrameRing' = Append(DecodedFrameRing, input)
          /\ UNCHANGED <<ParsedFrameRing, Table, current, MarkerFrame>>
      BY <1>7 DEF Decode, reorder, None
    <2>2. Occupied(DecodedFrameRing') = Occupied(DecodedFrameRing) \cup {input}
      BY <1>1, <1>2, <2>1, RingAppend DEF Order, None
    <2>3. ~PassMarker
      <3>1. PassMarker => input' = input
        BY DEF PassMarker, ptod
      <3> QED BY <2>1, <3>1
    <2>4. Others
      BY <2>1, <2>2, <2>3 DEF Extracted, Pending, Accepted, None, Occupied, Range
    <2> QED BY <1>6, <2>4 DEF Chain
  <1>8. CASE Scan
    <2>1. IsTurn => Lowest \in Table
      BY LowestIs DEF IsTurn, OrderInv, WithIndex
    <2>2. Others
      BY <1>2, <1>8, <2>1 DEF Scan, PassMarker, ptod, Extracted, Pending, Accepted,
                              None, Occupied, Range
    <2> QED BY <1>6, <2>2 DEF Chain
  <1>9. CASE Extract
    <2>1. UNCHANGED <<ParsedFrameRing, input>>
      BY <1>9 DEF Extract, ptod
    <2>2. ~PassMarker
      BY <1>9 DEF Extract, PassMarker
    <2>3. Accepted' \subseteq Accepted
      <3>1. CASE DecodedFrameRing = << >>
        BY <1>9, <2>1, <3>1 DEF Extract, Accepted, Pending, Extracted, Occupied, Range
      <3>2. CASE DecodedFrameRing # << >>
        <4>1. Occupied(DecodedFrameRing) =
                 Occupied(Tail(DecodedFrameRing)) \cup ({Head(DecodedFrameRing)} \ {0})
          BY <1>1, <1>2, <3>2, RingTail
        <4> QED BY <1>9, <2>1, <3>2, <4>1
                DEF Extract, Accepted, Pending, Extracted, None, Poke
      <3> QED BY <3>1, <3>2
    <2>4. Others
      BY <2>1, <2>2, <2>3
    <2> QED BY <1>6, <2>4 DEF Chain
  <1>10. CASE PassMarker
    <2>1. /\ UNCHANGED <<ParsedFrameRing, DecodedFrameRing, input, Table, current>>
          /\ MarkerFrame # 0 /\ MarkerFrame' = 0 /\ current = 0
      BY <1>2, <1>10 DEF PassMarker, ptod, None
    <2>2. Accepted' = Pending \cup (Extracted \ {MarkerFrame})
      <3>1. MarkerFrame \notin Table
        BY <1>1, <1>2, <2>1 DEF Order, None
      <3>2. Pending' = Pending
        BY <2>1 DEF Pending, Occupied, Range
      <3>3. Extracted' = Extracted \ {MarkerFrame}
        BY <2>1, <3>1 DEF Extracted, None
      <3> QED BY <3>2, <3>3 DEF Accepted
    <2>3. MarkerFrame \notin Pending /\ MarkerFrame \notin Occupied(ParsedFrameRing)
      <3>1. MarkerFrame \in Extracted
        BY <2>1 DEF Extracted, None
      <3>2. \A y \in Occupied(ParsedFrameRing) \cup Pending : MarkerFrame < y
        BY <1>2, <3>1 DEF Order, Pending, None
      <3> QED BY <1>1, <3>2
    <2>4. Occupied(ParsedFrameRing') = Occupied(ParsedFrameRing)
      BY <2>1
    <2>5. Others
      BY <2>1, <2>2, <2>3, <2>4 DEF Chain, Accepted
    <2> QED BY <1>6, <2>5 DEF Chain
  <1>11. CASE \/ \E kind \in Drains : DrainBegins(kind)
              \/ Skip \/ Display \/ Pass \/ UNCHANGED vars
    <2>1. /\ UNCHANGED <<ParsedFrameRing, DecodedFrameRing, input, Table,
                         MarkerFrame>>
          /\ current' \in {0, current}
          /\ current' = current \/ Pass
      BY <1>11 DEF DrainBegins, Skip, Display, Pass, vars, ptod, reorder, None
    <2>2. ~PassMarker
      <3>1. PassMarker => MarkerFrame # 0 /\ MarkerFrame' = 0
        BY DEF PassMarker, None
      <3> QED BY <2>1, <3>1
    <2>3. Others
      BY <2>1, <2>2 DEF Extracted, Pending, Accepted, None, Occupied, Range
    <2> QED BY <1>6, <2>3 DEF Chain
  <1> QED BY <1>4, <1>5, <1>7, <1>8, <1>9, <1>10, <1>11 DEF Next, PtoD, DtoM

LEMMA InitIInv ==
  ASSUME Init
  PROVE  IInv
  <1>1. OrderInv
    BY InitOrderInv
  <1>2. Len(frames) = 0 /\ DOMAIN frames = {} /\ Len(passed) = 0
    BY EmptySeq DEF Init
  <1>3. Chain = {} /\ Accepted = {}
    BY DEF Init, Chain, Accepted, Pending, Extracted, Occupied, Range, None
  <1>4. Indexing
    <2>1. Parsed = {} /\ Cardinality({}) = 0
      BY <1>2, FS_EmptySet DEF Parsed
    <2> QED BY <2>1, BoundsAssumption DEF Indexing, Init, None
  <1>5. OneMarker
    BY <1>3 DEF OneMarker, Markers, Init, None
  <1>6. Discards
    BY <1>2, <1>3 DEF Discards, Markers, Decoding, Init, None
  <1> QED BY <1>1, <1>4, <1>5, <1>6 DEF IInv

\* The frames that were parsed, and how many they are.
LEMMA ParsedStep ==
  ASSUME OrderInv, [Next]_vars
  PROVE  /\ IsFiniteSet(Parsed) /\ Cardinality(Parsed) \in Nat
         /\ ParseFrame => /\ Parsed' = Parsed \cup {Len(frames) + 1}
                          /\ Cardinality(Parsed') = Cardinality(Parsed) + 1
         /\ ~ParseFrame => Parsed' = Parsed
  <1>1. /\ Len(frames) \in Nat /\ DOMAIN frames = 1 .. Len(frames)
        /\ DOMAIN frames' = 1 .. Len(frames')
        /\ Len(frames') \in Nat
    BY ChainIs, FramesStep, LenProperties DEF OrderInv
  <1>2. \A f \in 1 .. Len(frames) :
           frames'[f].kind \in {"playout", "discard"} <=> IsMarker(f)
    BY KindStep DEF OrderInv
  <1>3. IsFiniteSet(Parsed) /\ Cardinality(Parsed) \in Nat
        /\ Len(frames) + 1 \notin Parsed
    <2>1. IsFiniteSet(1 .. Len(frames))
      BY <1>1, FS_Interval
    <2> QED BY <1>1, <2>1, FS_Subset, FS_CardinalityType DEF Parsed
  <1>4. CASE ParseFrame
    <2>1. Len(frames') = Len(frames) + 1
          /\ frames'[Len(frames) + 1].kind \in {"other", "reference"}
      BY <1>4, ParseOtherFrames, ParseReferenceFrames DEF ParseFrame, OrderInv
    <2>2. Parsed' = Parsed \cup {Len(frames) + 1}
      <3>1. 1 .. Len(frames') = (1 .. Len(frames)) \cup {Len(frames) + 1}
        BY <1>1, <2>1
      <3> QED BY <1>1, <1>2, <2>1, <3>1 DEF Parsed, IsMarker
    <2> QED BY <1>3, <1>4, <2>2, FS_AddElement
  <1>5. CASE ParseMarker
    <2>1. Len(frames') = Len(frames) + 1
          /\ frames'[Len(frames) + 1].kind \in {"playout", "discard"}
      BY <1>5, ParseMarkerFrames DEF OrderInv
    <2>2. Parsed' = Parsed
      <3>1. 1 .. Len(frames') = (1 .. Len(frames)) \cup {Len(frames) + 1}
        BY <1>1, <2>1
      <3> QED BY <1>1, <1>2, <2>1, <3>1 DEF Parsed, IsMarker
    <2>3. ~ParseFrame
      <3>1. ASSUME ParseFrame
            PROVE  frames'[Len(frames) + 1].kind \in {"other", "reference"}
        BY <3>1, ParseOtherFrames, ParseReferenceFrames DEF ParseFrame, OrderInv
      <3> QED BY <2>1, <3>1
    <2> QED BY <1>3, <2>2, <2>3
  <1>6. CASE ~ParseFrame /\ ~ParseMarker
    <2>1. Len(frames') = Len(frames)
      <3>1. CASE ParseJump
        BY <3>1, ParseJumpFrames DEF OrderInv
      <3>2. CASE UNCHANGED parser
        BY <3>2 DEF parser
      <3> QED BY <1>6, <3>1, <3>2 DEF Next, vars, PtoD, DtoM, DrainBegins,
              ReleaseReferences, PtoDMarker, Accept, Decode, Drop, Scan, Skip,
              PassMarker, Extract, Pass, Display
    <2> QED BY <1>1, <1>2, <1>3, <1>6, <2>1 DEF Parsed, IsMarker
  <1> QED BY <1>4, <1>5, <1>6

\* A frame without an index is the deferred one, and an index is never too high.
LEMMA IndexingStep ==
  ASSUME OrderInv, Indexing, [Next]_vars
  PROVE  /\ Indexing'
         /\ \A f \in Parsed : HasIndex(f) =>
              frames'[f].DisplayFrameIndex # INVALID_INDEX
         /\ ParseJump => \A f \in Parsed :
              frames'[f].DisplayFrameIndex # INVALID_INDEX
  <1> DEFINE Given(f) == frames'[f].DisplayFrameIndex # INVALID_INDEX
             c == Cardinality(Parsed)
  <1>1. /\ Len(frames) \in Nat /\ MaxFrames \in Nat
        /\ Parsed \subseteq 1 .. Len(frames)
        /\ NextDisplayFrameIndex \in Nat /\ INVALID_INDEX = MaxFrames + 1
    BY ChainIs, BoundsAssumption DEF OrderInv, TypeOK, Parsed, INVALID_INDEX
  <1>2. /\ c \in Nat
        /\ ParseFrame => /\ Parsed' = Parsed \cup {Len(frames) + 1}
                         /\ Cardinality(Parsed') = c + 1
        /\ ~ParseFrame => Parsed' = Parsed
    BY ParsedStep
  <1>3. /\ c <= MaxFrames
        /\ NextDisplayFrameIndex + (IF Deferred = None THEN 0 ELSE 1) <= c
        /\ \A f \in Parsed : ~HasIndex(f) => f = Deferred
    BY DEF Indexing
  <1>4. ASSUME \A f \in Parsed : f # Deferred => frames'[f] = frames[f],
               Deferred # None =>
                 frames'[Deferred].DisplayFrameIndex = NextDisplayFrameIndex
        PROVE  \A f \in Parsed : Given(f)
    <2>1. \A f \in Parsed : f # Deferred => HasIndex(f)
      BY <1>3
    <2>2. Deferred # None => NextDisplayFrameIndex # INVALID_INDEX
      BY <1>1, <1>2, <1>3
    <2>3. \A f \in Parsed : f # None
      BY <1>1 DEF None
    <2> QED BY <1>4, <2>1, <2>2, <2>3 DEF HasIndex, Index
  <1> HIDE DEF c
  <1>5. CASE ParseFrame /\ ParseOther
    <2>1. /\ \A f \in 1 .. Len(frames) : frames'[f] = frames[f]
          /\ frames'[Len(frames) + 1].DisplayFrameIndex = NextDisplayFrameIndex
          /\ NextDisplayFrameIndex' = NextDisplayFrameIndex + 1
          /\ Deferred' = Deferred
      BY <1>5, ParseOtherFrames DEF ParseOther, OrderInv
    <2>2. c < MaxFrames
      BY <1>5 DEF ParseFrame, c, Parsed
    <2>3. NextDisplayFrameIndex # INVALID_INDEX
      BY <1>1, <1>2, <1>3, <2>2
    <2>4. Given(Len(frames) + 1)
      BY <2>1, <2>3
    <2>5. \A f \in Parsed : Given(f) <=> HasIndex(f)
      BY <1>1, <2>1 DEF HasIndex, Index
    <2>6. Cardinality(Parsed') <= MaxFrames
          /\ NextDisplayFrameIndex' + (IF Deferred' = None THEN 0 ELSE 1)
                <= Cardinality(Parsed')
      BY <1>1, <1>2, <1>3, <1>5, <2>1, <2>2
    <2>7. \A f \in Parsed' : ~Given(f) => f = Deferred'
      BY <1>2, <1>3, <1>5, <2>1, <2>4, <2>5
    <2>8. ~ParseJump
      <3>1. ParseJump => Parsed' = Parsed /\ Len(frames') = Len(frames)
        <4>1. ParseJump => Len(frames') = Len(frames)
          BY ParseJumpFrames DEF OrderInv
        <4>2. ParseFrame => Len(frames') = Len(frames) + 1
          BY ParseOtherFrames, ParseReferenceFrames DEF ParseFrame, OrderInv
        <4> QED BY <1>1, <1>5, <4>1, <4>2
      <3>2. Len(frames') = Len(frames) + 1
        BY <1>5, ParseOtherFrames DEF OrderInv
      <3> QED BY <1>1, <3>1, <3>2
    <2> QED BY <2>5, <2>6, <2>7, <2>8 DEF Indexing, HasIndex, Index, INVALID_INDEX
  <1>6. CASE ParseFrame /\ ParseReference
    <2>1. /\ Len(frames') = Len(frames) + 1
          /\ \A f \in 1 .. Len(frames) : f # Deferred => frames'[f] = frames[f]
          /\ Deferred # None =>
               frames'[Deferred].DisplayFrameIndex = NextDisplayFrameIndex
          /\ Deferred' = Len(frames) + 1
      BY <1>6, ParseReferenceFrames DEF OrderInv
    <2>2. \A f \in Parsed : Given(f)
      BY <1>1, <1>4, <2>1
    <2>3. c < MaxFrames
      BY <1>6 DEF ParseFrame, c, Parsed
    <2>4. NextDisplayFrameIndex' =
            NextDisplayFrameIndex + (IF Deferred = None THEN 0 ELSE 1)
      BY <1>1, <1>6 DEF ParseReference, NumberDeferred
    <2>5. Cardinality(Parsed') <= MaxFrames
          /\ NextDisplayFrameIndex' + (IF Deferred' = None THEN 0 ELSE 1)
                <= Cardinality(Parsed')
      BY <1>1, <1>2, <1>3, <1>6, <2>1, <2>3, <2>4 DEF None
    <2>6. \A f \in Parsed' : ~Given(f) => f = Deferred'
      BY <1>2, <1>6, <2>1, <2>2
    <2> QED BY <2>2, <2>5, <2>6 DEF Indexing, HasIndex, Index, INVALID_INDEX
  <1>7. CASE ParseJump
    <2>1. /\ \A f \in 1 .. Len(frames) : f # Deferred => frames'[f] = frames[f]
          /\ Deferred # None =>
               frames'[Deferred].DisplayFrameIndex = NextDisplayFrameIndex
          /\ Deferred' = None /\ Len(frames') = Len(frames)
          /\ NextDisplayFrameIndex' =
               NextDisplayFrameIndex + (IF Deferred = None THEN 0 ELSE 1)
      BY <1>7, ParseJumpFrames DEF OrderInv
    <2>2. \A f \in Parsed : Given(f)
      BY <1>1, <1>4, <2>1
    <2>3. Parsed' = Parsed
      <3>1. ParseFrame => Len(frames') = Len(frames) + 1
        BY ParseOtherFrames, ParseReferenceFrames DEF ParseFrame, OrderInv
      <3> QED BY <1>1, <1>2, <2>1, <3>1
    <2>4. Cardinality(Parsed') <= MaxFrames
          /\ NextDisplayFrameIndex' + (IF Deferred' = None THEN 0 ELSE 1)
                <= Cardinality(Parsed')
      BY <1>1, <1>2, <1>3, <2>1, <2>3 DEF c
    <2> QED BY <2>2, <2>3, <2>4 DEF Indexing, HasIndex, Index, INVALID_INDEX
  <1>8. CASE ~ParseFrame /\ ~ParseJump
    <2>1. UNCHANGED <<NextDisplayFrameIndex, Deferred>>
          /\ \A f \in 1 .. Len(frames) : frames'[f] = frames[f]
      <3>1. CASE ParseMarker
        BY <3>1, ParseMarkerFrames DEF ParseMarker, OrderInv
      <3>2. CASE UNCHANGED parser
        BY <3>2 DEF parser
      <3> QED BY <1>8, <3>1, <3>2 DEF Next, vars, PtoD, DtoM, DrainBegins,
              ReleaseReferences, PtoDMarker, Accept, Decode, Drop, Scan, Skip,
              PassMarker, Extract, Pass, Display
    <2>2. \A f \in Parsed : Given(f) <=> HasIndex(f)
      BY <1>1, <2>1 DEF HasIndex, Index
    <2>3. Cardinality(Parsed') <= MaxFrames
          /\ NextDisplayFrameIndex' + (IF Deferred' = None THEN 0 ELSE 1)
                <= Cardinality(Parsed')
          /\ \A f \in Parsed' : ~Given(f) => f = Deferred'
      BY <1>2, <1>3, <1>8, <2>1, <2>2 DEF c
    <2> QED BY <1>8, <2>2, <2>3 DEF Indexing, HasIndex, Index, INVALID_INDEX
  <1> QED BY <1>5, <1>6, <1>7, <1>8 DEF ParseFrame

\* What a step does to the markers in the chain, and to the drain.
LEMMA MarkersStep ==
  ASSUME OrderInv, OneMarker, [Next]_vars
  PROVE  /\ \/ Markers' \subseteq Markers
            \/ /\ ParseMarker /\ Markers = {}
               /\ Markers' \subseteq {Len(frames) + 1}
         /\ Markers' # {} => drain' = "marker"
  <1>1. /\ Len(frames) \in Nat /\ Chain \subseteq 1 .. Len(frames)
    BY ChainIs
  <1>2. \A f \in 1 .. Len(frames) :
           frames'[f].kind \in {"playout", "discard"} <=> IsMarker(f)
    BY KindStep DEF OrderInv
  <1>3. Markers' = {m \in Chain' : frames'[m].kind \in {"playout", "discard"}}
    BY DEF Markers, IsMarker
  <1>4. CASE ParseMarker
    <2>1. drain \in {"playout", "discard"} /\ drain' = "marker"
      BY <1>4 DEF ParseMarker
    <2>2. Markers = {}
      BY <2>1 DEF OneMarker
    <2>3. Chain' \subseteq Chain \cup {Len(frames) + 1}
      BY <1>4, ChainStep
    <2>4. Markers' \subseteq Markers \cup {Len(frames) + 1}
      BY <1>1, <1>2, <1>3, <2>3 DEF Markers
    <2> QED BY <1>4, <2>1, <2>2, <2>4
  <1>5. CASE ~ParseMarker
    <2>1. Markers' \subseteq Markers
      <3>1. CASE ParseFrame
        <4>1. Chain' \subseteq Chain \cup {Len(frames) + 1}
          BY <3>1, ChainStep
        <4>2. frames'[Len(frames) + 1].kind \in {"other", "reference"}
          BY <3>1, ParseOtherFrames, ParseReferenceFrames DEF ParseFrame, OrderInv
        <4> QED BY <1>1, <1>2, <1>3, <4>1, <4>2 DEF Markers
      <3>2. CASE ~ParseFrame
        <4>1. Chain' \subseteq Chain
          BY <1>5, <3>2, ChainStep
        <4> QED BY <1>1, <1>2, <1>3, <4>1 DEF Markers
      <3> QED BY <3>1, <3>2
    <2>2. CASE PassMarker
      <3>1. MarkerFrame \notin Chain'
        BY <2>2, ChainStep
      <3>2. MarkerFrame \in Markers
        BY <2>2 DEF PassMarker, Markers, Chain, Accepted, Extracted, OrderInv,
                    Numbering
      <3>3. Markers' = {}
        <4>1. \A m \in Markers : m = MarkerFrame
          BY <3>2 DEF OneMarker
        <4> QED BY <2>1, <3>1, <4>1 DEF Markers
      <3> QED BY <2>1, <3>3
    <2>3. CASE drain' # drain /\ ~PassMarker
      <3>1. drain \in {"none", "jump"}
        BY <1>5, <2>3 DEF Next, vars, control, PtoD, DtoM, DrainBegins,
           ReleaseReferences, PtoDMarker, Accept, Decode, Drop, Scan, Skip,
           Extract, Pass, Display, ParseFrame, ParseJump
      <3>2. Markers = {}
        BY <3>1 DEF OneMarker
      <3> QED BY <2>1, <3>2
    <2>4. CASE drain' = drain
      BY <2>1, <2>4 DEF OneMarker
    <2> QED BY <2>2, <2>3, <2>4
  <1> QED BY <1>4, <1>5

\* There is one marker at a time.
LEMMA OneMarkerStep ==
  ASSUME OrderInv, OneMarker, [Next]_vars
  PROVE  OneMarker'
  <1>1. /\ Markers' # {} => drain' = "marker"
        /\ \A m, n \in Markers' : m = n
    BY MarkersStep DEF OneMarker
  <1>2. \A f \in 1 .. Len(frames) :
           frames'[f].kind \in {"playout", "discard"} <=> IsMarker(f)
    BY KindStep DEF OrderInv
  <1>3. /\ Chain \subseteq 1 .. Len(frames)
        /\ (Table \cup {current, input}) \ {0} \subseteq Chain
    BY ChainIs DEF Chain, Accepted, Extracted, Pending, None, OrderInv, TypeOK
  <1>4. \A f \in (Table \cup {current, input}) \ {0} : ~IsMarker(f)
    BY DEF OneMarker, None
  <1>5. \A f \in (Table' \cup {current', input'}) \ {0} :
          ~IsMarker(f) /\ f \in 1 .. Len(frames)
    <2>1. CASE Accept
      <3>1. Head(ParsedFrameRing) \in Chain /\ ~IsMarker(Head(ParsedFrameRing))
        BY <2>1, ChainStep DEF Chain, Accept, AtFrame
      <3>2. /\ input' = Head(ParsedFrameRing)
            /\ UNCHANGED <<Table, current>>
        BY <2>1 DEF Accept, reorder
      <3> QED BY <1>3, <1>4, <3>1, <3>2
    <2>2. CASE Scan
      <3>1. IsTurn => Lowest \in Table
        BY LowestIs DEF IsTurn, OrderInv, WithIndex
      <3> QED BY <1>3, <1>4, <2>2, <3>1 DEF Scan, ptod
    <2>3. CASE Extract
      <3> DEFINE f == Head(DecodedFrameRing)
      <3>1. DecodedFrameRing # << >> /\ f # 0 => f \in Chain
        BY RingTail DEF OrderInv, TypeOK, Order, Chain, Accepted, Pending
      <3>2. /\ Table' \cup {current'} \subseteq Table \cup {current, f}
            /\ input' = input
            /\ \/ UNCHANGED <<Table, current>>
               \/ DecodedFrameRing # << >> /\ f # 0 /\ ~IsMarker(f)
        BY <2>3 DEF Extract, ptod, Poke
      <3> HIDE DEF f
      <3> QED BY <1>3, <1>4, <3>1, <3>2
    <2>4. CASE /\ Table' = Table
               /\ current' \in {0, current} /\ input' \in {0, input}
      BY <1>3, <1>4, <2>4
    <2>5. QED
      BY <2>1, <2>2, <2>3, <2>4 DEF Next, vars, ptod, reorder, PtoD, DtoM,
         DrainBegins, ReleaseReferences, PtoDMarker, Decode, Drop, Skip,
         PassMarker, Pass, Display, ParseFrame, ParseJump, ParseMarker, None
  <1>6. \A f \in Table' \cup {current', input'} :
          f # 0 => frames'[f].kind \notin {"playout", "discard"}
    BY <1>2, <1>5
  <1> QED BY <1>1, <1>6 DEF OneMarker, IsMarker, None

\* A drain that discards empties the table ahead of its marker.
LEMMA DiscardsStep ==
  ASSUME IInv, [Next]_vars
  PROVE  Discards'
  <1>1. OrderInv /\ Indexing /\ OneMarker /\ Discards /\ Order /\ Numbering
    BY DEF IInv, OrderInv
  <1>2. /\ Len(frames) \in Nat /\ Chain \subseteq 1 .. Len(frames)
        /\ Accepted \subseteq Chain
        /\ DOMAIN frames = 1 .. Len(frames)
        /\ \A x \in Accepted, y \in Occupied(ParsedFrameRing) : x < y
    BY <1>1, ChainIs DEF Chain
  <1>3. /\ \A f \in 1 .. Len(frames) : frames'[f].kind = frames[f].kind
        /\ \A f \in 1 .. Len(frames) :
             frames'[f].kind \in {"playout", "discard"} <=> IsMarker(f)
    BY <1>1, FramesStep, KindStep DEF OrderInv
  <1> DEFINE Given(f) == frames'[f].DisplayFrameIndex # INVALID_INDEX
             Frames == {f \in 1 .. Len(frames) : ~IsMarker(f)}
             R == Occupied(ParsedFrameRing)
  <1>4. \A f \in Frames : /\ HasIndex(f) => Given(f)
                          /\ ParseJump => Given(f)
    BY <1>1, <1>2, IndexingStep DEF Parsed
  <1>5. \A m, n \in Markers : m = n
    BY <1>1 DEF OneMarker
  <1>6. Decoding' = {f \in Accepted' : frames'[f].kind \notin {"playout", "discard"}}
    BY DEF Decoding, IsMarker
  <1>7. /\ Accept => Decoding' \subseteq Decoding \cup {Head(ParsedFrameRing)}
        /\ ~Accept => Decoding' \subseteq Decoding
        /\ Decoding \subseteq Frames
    <2>1. /\ Accept \/ PtoDMarker =>
               /\ Accepted' \subseteq Accepted \cup {Head(ParsedFrameRing)}
               /\ Head(ParsedFrameRing) \in Chain
          /\ ~(Accept \/ PtoDMarker) => Accepted' \subseteq Accepted
      BY <1>1, ChainStep DEF Chain
    <2>2. PtoDMarker => IsMarker(Head(ParsedFrameRing))
      BY DEF PtoDMarker
    <2> HIDE DEF Given
    <2> QED BY <1>2, <1>3, <1>6, <2>1, <2>2 DEF Decoding
  <1>8. /\ ~(ParseFrame \/ ParseMarker) => R' \subseteq R
        /\ ParseFrame \/ ParseMarker => R' \subseteq R \cup {Len(frames) + 1}
    BY <1>1, ChainStep
  <1>9. /\ \/ Markers' \subseteq Markers
           \/ /\ ParseMarker /\ Markers = {}
              /\ Markers' \subseteq {Len(frames) + 1}
        /\ \A m \in Markers : m \in 1 .. Len(frames)
    BY <1>1, <1>2, MarkersStep DEF Markers
  <1>10. DiscardingPtoD' = FALSE /\ DiscardingPtoD = TRUE => PtoDMarker
    BY DEF Next, vars, flags, PtoD, DtoM, DrainBegins, ReleaseReferences, Accept,
       Decode, Drop, Scan, Skip, PassMarker, Extract, Pass, Display, ParseFrame,
       ParseJump, ParseMarker
  <1>11. DiscardingPtoD \in BOOLEAN /\ DiscardingPtoD' \in BOOLEAN
    BY <1>1, TypeStep DEF OrderInv, TypeOK
  <1>12. PtoDMarker => /\ drain = "marker" /\ drain' = "marker"
                       /\ Head(ParsedFrameRing) \in Markers
                       /\ Head(ParsedFrameRing) \notin R'
    <2>1. PtoDMarker => /\ Head(ParsedFrameRing) \in R \ R'
                        /\ IsMarker(Head(ParsedFrameRing))
                        /\ UNCHANGED drain
      BY <1>1, ChainStep DEF PtoDMarker, control
    <2> QED BY <1>1, <2>1 DEF OneMarker, Markers, Chain
  <1>13. drain' \in {"jump", "discard"} => DiscardingPtoD'
    <2>1. CASE \E kind \in Drains : DrainBegins(kind)
      BY <2>1, DrainsAssumption DEF DrainBegins
    <2>2. CASE /\ ~\E kind \in Drains : DrainBegins(kind)
               /\ drain' \in {"jump", "discard"}
      <3>1. drain \in {"jump", "discard"}
        BY <2>2 DEF Next, vars, control, PtoD, DtoM, ReleaseReferences, PtoDMarker,
           Accept, Decode, Drop, Scan, Skip, PassMarker, Extract, Pass, Display,
           ParseFrame, ParseJump, ParseMarker
      <3>2. DiscardingPtoD = TRUE
        BY <1>1, <1>11, <3>1 DEF Discards
      <3>3. ~PtoDMarker
        BY <1>12, <3>1
      <3> QED BY <1>10, <1>11, <3>2, <3>3
    <2> QED BY <2>1, <2>2
  <1>14. drain' = "discard" => \A f \in Decoding' : Given(f)
    <2>1. CASE ParseJump /\ ~Accept
      BY <1>4, <1>7, <2>1
    <2>2. CASE drain = "discard"
      <3>1. ~Accept
        BY <1>1, <2>2 DEF Discards, Accept
      <3>2. \A f \in Decoding : HasIndex(f)
        BY <1>1, <2>2 DEF Discards
      <3> QED BY <1>4, <1>7, <3>1, <3>2
    <2>3. drain' = "discard" => drain = "discard" \/ ParseJump
      BY DEF Next, vars, control, PtoD, DtoM, DrainBegins, ReleaseReferences,
         PtoDMarker, Accept, Decode, Drop, Scan, Skip, PassMarker, Extract, Pass,
         Display, ParseFrame, ParseMarker
    <2>4. CASE ParseJump /\ Accept /\ drain' = "discard"
      <3>1. UNCHANGED control
        BY <2>4 DEF Accept
      <3> QED BY <2>2, <2>4, <3>1 DEF control
    <2> QED BY <2>1, <2>2, <2>3, <2>4
  <1>15. ASSUME NEW m \in Markers', frames'[m].kind = "discard"
         PROVE  /\ m \in R' => DiscardingPtoD'
                /\ \A f \in Decoding' : f < m => Given(f)
    <2>1. CASE m \in Markers
      <3>1. frames[m].kind = "discard"
        BY <1>3, <1>9, <1>15, <2>1
      <3>2. /\ m \in R => DiscardingPtoD
            /\ \A f \in Decoding : f < m => HasIndex(f)
        BY <1>1, <2>1, <3>1 DEF Discards
      <3>3. m \in R' => m \in R
        BY <1>2, <1>8, <1>9, <2>1
      <3>4. m \in R' => DiscardingPtoD'
        <4>1. PtoDMarker => m \notin R'
          BY <1>5, <1>12, <2>1
        <4> QED BY <1>10, <1>11, <3>2, <3>3, <4>1
      <3>5. ASSUME Accept
            PROVE  m < Head(ParsedFrameRing)
        <4>1. m \notin R
          BY <3>2, <3>5 DEF Accept
        <4>2. Head(ParsedFrameRing) \in R
          BY <1>1, <3>5, ChainStep
        <4> QED BY <1>2, <2>1, <4>1, <4>2 DEF Markers, Chain
      <3>6. \A f \in Decoding : f < m => Given(f)
        BY <1>4, <1>7, <3>2
      <3>7. CASE Accept
        <4>1. Head(ParsedFrameRing) \in 1 .. Len(frames)
          <5>1. Head(ParsedFrameRing) \in Chain
            BY <1>1, <3>7, ChainStep DEF Chain
          <5> QED BY <1>2, <5>1
        <4>2. ~(Head(ParsedFrameRing) < m)
          BY <1>2, <1>9, <2>1, <3>5, <3>7, <4>1
        <4> QED BY <1>7, <3>4, <3>6, <3>7, <4>2
      <3>8. CASE ~Accept
        BY <1>7, <3>4, <3>6, <3>8
      <3> QED BY <3>7, <3>8
    <2>2. CASE m \notin Markers
      <3>1. ParseMarker /\ m = Len(frames) + 1
        BY <1>9, <1>15, <2>2
      <3>2. drain = "discard"
        BY <1>1, <1>15, <3>1, ParseMarkerFrames DEF OrderInv
      <3>3. /\ DiscardingPtoD = TRUE
            /\ \A f \in Decoding : HasIndex(f)
        BY <1>1, <1>11, <3>2 DEF Discards
      <3>4. ~Accept
        BY <3>3 DEF Accept
      <3>5. DiscardingPtoD' = TRUE
        BY <3>1, <3>3 DEF ParseMarker, flags
      <3> QED BY <1>4, <1>7, <3>3, <3>4, <3>5
    <2> QED BY <2>1, <2>2
  <1>16. ASSUME MarkerFrame' # 0, frames'[MarkerFrame'].kind = "discard",
                pc' \in {"skip", "extract"}
         PROVE  Table' = {}
    <2>1. MarkerFrame # 0 => MarkerFrame \in 1 .. Len(frames) /\ MarkerFrame \in Markers
      BY <1>1, <1>2 DEF Markers, Chain, Accepted, Extracted, Numbering, None
    <2>2. CASE Scan
      <3>1. /\ MarkerFrame # 0 /\ MarkerFrame' = MarkerFrame
            /\ ~IsTurn /\ Table' = Table
        BY <1>16, <2>2 DEF Scan
      <3>2. WithIndex = {}
        BY <3>1 DEF IsTurn, None
      <3>3. frames[MarkerFrame].kind = "discard"
        BY <1>3, <1>16, <2>1, <3>1
      <3>4. \A f \in Table : f < MarkerFrame /\ f \in Decoding
        <4>1. \A f \in Table : f < MarkerFrame
          BY <1>1, <3>1 DEF Order, None
        <4>2. \A f \in Table : f # 0
          BY <1>1 DEF OrderInv, TypeOK, None
        <4>3. \A f \in Table : ~IsMarker(f)
          BY <1>1, <4>2 DEF OneMarker, None
        <4> QED BY <4>1, <4>2, <4>3 DEF Decoding, Accepted, Extracted, None
      <3>5. \A f \in Table : HasIndex(f)
        BY <1>1, <2>1, <3>1, <3>3, <3>4 DEF Discards
      <3> QED BY <3>1, <3>2, <3>5 DEF WithIndex
    <2>3. CASE /\ UNCHANGED <<MarkerFrame, Table>>
               /\ pc \in {"skip", "extract"}
      <3>1. MarkerFrame # 0 /\ frames[MarkerFrame].kind = "discard"
        BY <1>3, <1>16, <2>1, <2>3
      <3> QED BY <1>1, <2>3, <3>1 DEF Discards, None
    <2>4. Scan \/ (UNCHANGED <<MarkerFrame, Table>> /\ pc \in {"skip", "extract"})
      BY <1>16 DEF Next, vars, reorder, PtoD, DtoM, DrainBegins, ReleaseReferences,
         PtoDMarker, Accept, Decode, Drop, Skip, PassMarker, Extract, Pass,
         Display, ParseFrame, ParseJump, ParseMarker
    <2> QED BY <2>2, <2>3, <2>4
  <1>17. ASSUME NEW i \in 1 .. Len(passed'),
                frames'[passed'[i].frame].kind = "discard", NEW f \in Table'
         PROVE  passed'[i].frame < f
    <2>1. /\ Len(passed) \in Nat
          /\ \A j \in 1 .. Len(passed) :
               /\ passed[j].frame \in 1 .. Len(frames)
               /\ passed[j].frame <= MaximumSeen
      BY <1>1, PassedIs DEF Order, OrderInv
    <2>2. \A j \in 1 .. Len(passed) :
            frames'[passed[j].frame].kind = "discard" =>
              \A g \in Table : passed[j].frame < g
      BY <1>1, <1>3, <2>1 DEF Discards
    <2>3. CASE PassMarker \/ Pass
      <3>1. /\ Len(passed') = Len(passed) + 1
            /\ \A j \in 1 .. Len(passed) : passed'[j] = passed[j]
            /\ passed'[Len(passed) + 1].frame =
                 IF pc = "pass" THEN current ELSE MarkerFrame
        BY <1>1, <2>3, PassedStep DEF OrderInv
      <3>2. Table' = Table
        BY <2>3 DEF PassMarker, Pass, reorder
      <3>3. CASE i \in 1 .. Len(passed)
        BY <1>17, <2>2, <3>1, <3>2, <3>3
      <3>4. CASE i = Len(passed) + 1 /\ PassMarker
        <4>1. /\ pc = "extract" /\ MarkerFrame # 0
              /\ passed'[i].frame = MarkerFrame
          BY <3>1, <3>4 DEF PassMarker, None
        <4>2. MarkerFrame \in 1 .. Len(frames)
          BY <1>2, <4>1 DEF Accepted, Extracted, None
        <4>3. Table = {}
          BY <1>1, <1>3, <1>17, <4>1, <4>2 DEF Discards, None
        <4> QED BY <3>2, <4>3
      <3>5. CASE i = Len(passed) + 1 /\ Pass
        <4>1. pc = "pass" /\ passed'[i].frame = current /\ current # 0
          BY <1>1, <3>1, <3>5 DEF Pass, Numbering, None
        <4>2. ~IsMarker(current) /\ current \in 1 .. Len(frames)
          BY <1>1, <1>2, <4>1 DEF OneMarker, Accepted, Extracted, None
        <4> QED BY <1>3, <1>17, <4>1, <4>2
      <3> QED BY <2>1, <2>3, <3>1, <3>3, <3>4, <3>5
    <2>4. CASE Extract
      <3>1. UNCHANGED passed
        BY <2>4 DEF Extract, output
      <3>2. f \in Table \/ (/\ DecodedFrameRing # << >> /\ f # 0
                            /\ f = Head(DecodedFrameRing))
        BY <2>4 DEF Extract, Poke
      <3>3. CASE f \in Table
        BY <1>17, <2>2, <3>1, <3>3
      <3>4. CASE DecodedFrameRing # << >> /\ f # 0 /\ f = Head(DecodedFrameRing)
        <4>1. f \in Occupied(DecodedFrameRing) /\ f \in Nat
          BY <1>1, <3>4, RingTail DEF OrderInv, TypeOK, Order
        <4>2. MaximumSeen < f /\ MaximumSeen \in Nat
          BY <1>1, <4>1 DEF Order, OrderInv, TypeOK
        <4> QED BY <2>1, <3>1, <4>1, <4>2
      <3> QED BY <3>2, <3>3, <3>4
    <2>5. CASE UNCHANGED passed /\ Table' \subseteq Table
      BY <1>17, <2>2, <2>5
    <2>6. PassMarker \/ Pass \/ Extract
          \/ (UNCHANGED passed /\ Table' \subseteq Table)
      BY DEF Next, vars, reorder, output, PtoD, DtoM, DrainBegins,
         ReleaseReferences, PtoDMarker, Accept, Decode, Drop, Scan, Skip,
         Display, ParseFrame, ParseJump, ParseMarker
    <2> QED BY <2>3, <2>4, <2>5, <2>6
  <1> HIDE DEF Given
  <1> QED BY <1>13, <1>14, <1>15, <1>16, <1>17
          DEF Discards, HasIndex, Index, None, Given, R, INVALID_INDEX

\* Every step keeps IInv.
LEMMA IInvStep ==
  ASSUME IInv, [Next]_vars
  PROVE  IInv'
  <1>1. OrderInv /\ Indexing /\ OneMarker
    BY DEF IInv
  <1>2. OrderInv'
    BY <1>1, TypeStep, OrderStep, NumberingStep DEF OrderInv
  <1>3. Indexing' /\ OneMarker' /\ Discards'
    BY <1>1, IndexingStep, OneMarkerStep, DiscardsStep
  <1> QED BY <1>2, <1>3 DEF IInv

\* IInv adds to the order what the indices, the markers and the discard are
\* at each place of the chain.
THEOREM FramesInvariant == Spec => []IInv
  <1> QED BY InitIInv, IInvStep, PTL DEF Spec

\* "If we get here with a marker frame, then we have emptied our accumulated
\* list" (DtoM): true of the marker of a drain that discards, as the jump ahead
\* of it gives every frame an index.
THEOREM DiscardLeavesNothing == Spec => []DiscardEmptiesTable
  <1>1. IInv => DiscardEmptiesTable
    <2> SUFFICES ASSUME IInv, NEW f \in Table, NEW i \in DOMAIN passed,
                        frames[passed[i].frame].kind = "discard",
                        f < passed[i].frame
                 PROVE  FALSE
      BY DEF DiscardEmptiesTable, LeftBehind
    <2>1. i \in 1 .. Len(passed) /\ passed[i].frame \in Nat
      BY PassedIs DEF IInv, OrderInv
    <2>2. passed[i].frame < f
      BY <2>1 DEF IInv, Discards
    <2>3. f \in Nat
      BY DEF IInv, OrderInv, TypeOK
    <2> QED BY <2>1, <2>2, <2>3
  <1> QED BY <1>1, FramesInvariant, PTL
=============================================================================
